------------------------- MODULE WorkspaceSyncProofs --------------------------
(***************************************************************************)
(* Proofs about WorkspaceSync, for any number of workspaces, users and     *)
(* user groups, any page size and any number of edits and crashes.         *)
(*                                                                         *)
(* What holds at the end of a sync is said, on the way there, of a plan    *)
(* and the store: what the calls that were made have put in the store, and *)
(* what the calls yet to make will.  It is said of the saved plan too,     *)
(* which a crash makes the plan again while the store keeps what it has.   *)
(* From it follow that the three tables of the store are snapshots, and,   *)
(* with what the store has for each call to come (Closed), that what is    *)
(* stored rests on what is stored and that no call is ever stuck.          *)
(***************************************************************************)
EXTENDS WorkspaceSync, TLAPS

USE WorkspaceSyncAssumption

Entitlements == {"workspace", "guest", "member"}

\* The names that the entitlements of the roles will need.
NamesFor(p) == \A w \in Workspaces : <<"roles", w>> \in p.todo => w \in names

Named == plan.phase # "done" => roles \subseteq names /\ NamesFor(plan) /\ NamesFor(saved)

\* A call for users is made in the grants phase, and no user before it has
\* grants of a page to come.
ReadOnce ==
    crashes = 0 =>
        /\ plan.phase \in {"resources", "entitlements"} => grants = {}
        /\ \A w \in Workspaces : <<"users", w>> \in plan.todo =>
              /\ plan.phase = "grants"
              /\ \A u \in Users, e \in {"guest", "member"} :
                    <<w, u, e>> \in grants => u <= plan.at[w]

\* A page to come has the workspace w.
ToList(p, w) == p.phase = "resources" /\ ListWorkspaces \in p.todo /\ p.cursor < w

\* The users have been, or are being, read.
Reading(p) == p.phase \in {"grants", "done"}

\* What became of a workspace that was there all the time.
TeamSound(p, w) ==
    \/ ToList(p, w)
    \/ /\ w \in listed
       /\ w \in roles \/ (p.phase = "resources" /\ <<"roles", w>> \in p.todo)

\* What became of what a user of w was entitled to all the time.
UserSound(p, w, u, e) ==
    \/ ToList(p, w)
    \/ /\ w \in listed
       /\ Reading(p) => \/ <<"users", w>> \in p.todo /\ p.at[w] < u
                        \/ <<w, u, e>> \in grants

\* What became of a user who stayed in the group g.
MemberSound(p, g, u) ==
    \/ ToList(p, TeamOf[g])
    \/ /\ g \in groups \/ (p.phase = "resources" /\ <<"groups", TeamOf[g]>> \in p.todo)
       /\ Reading(p) => \/ <<"members", g>> \in p.todo
                        \/ <<g, u>> \in memberships

Sound(p) ==
    /\ p.phase \in {"resources", "entitlements"} => \A w \in Workspaces : p.at[w] = 0
    /\ p.phase = "done" => p.todo = {}
    /\ \A w \in Workspaces : <<"users", w>> \in p.todo => p.phase = "grants"
    /\ \A w \in kept : TeamSound(p, w)
    /\ \A w \in Workspaces, u \in Users, e \in Entitlements :
          <<w, u, e>> \in steady => UserSound(p, w, u, e)
    /\ \A g \in Groups, u \in Users : <<g, u>> \in loyal => MemberSound(p, g, u)

PlansSound == Sound(plan) /\ Sound(saved)

-----------------------------------------------------------------------------
(* Types. *)

LEMMA PlanTypes ==
    ASSUME NEW p \in Plans
    PROVE  /\ p.phase \in {"resources", "entitlements", "grants", "done"}
           /\ p.todo \subseteq Calls
           /\ p.cursor \in 0..W
           /\ p.at \in [Workspaces -> 0..U]
BY DEF Plans

LEMMA MadeIsPlan ==
    ASSUME plan \in Plans, NEW k
    PROVE  /\ Made(k) \in Plans
           /\ Made(k).phase = plan.phase
           /\ Made(k).todo = plan.todo \ {k}
           /\ Made(k).cursor = plan.cursor
           /\ Made(k).at = plan.at
BY DEF Made, Plans

\* A page of the users of w: what it does to the plan.
LEMMA AfterUsersIsPlan ==
    ASSUME plan \in Plans, NEW w \in Workspaces, NEW last \in 1..U
    PROVE  /\ AfterUsers(w, last) \in Plans
           /\ AfterUsers(w, last).phase = plan.phase
           /\ last = U => AfterUsers(w, last).todo = plan.todo \ {<<"users", w>>}
           /\ last # U => AfterUsers(w, last).todo = plan.todo
           /\ AfterUsers(w, last).at
                = IF last = U THEN plan.at ELSE [plan.at EXCEPT ![w] = last]
           /\ AfterUsers(w, last).cursor = plan.cursor
<1>1. /\ plan \in [phase : {"resources", "entitlements", "grants", "done"},
                   todo : SUBSET Calls, cursor : 0..W, at : [Workspaces -> 0..U]]
      /\ last \in 0..U
  BY DEF Plans
<1>2. CASE last = U
  BY <1>2, MadeIsPlan DEF AfterUsers
<1>3. CASE last # U
  <2>1. AfterUsers(w, last) = [plan EXCEPT !.at[w] = last]
    BY <1>3 DEF AfterUsers
  <2>2. [plan.at EXCEPT ![w] = last] \in [Workspaces -> 0..U]
    BY <1>1
  <2> QED
    BY <1>1, <1>3, <2>1, <2>2 DEF Plans
<1> QED
  BY <1>2, <1>3

\* A page of workspaces: what it does to the plan and the store.
LEMMA PageOfWorkspaces ==
    ASSUME TypeOK, WorkspacesPage
    PROVE  \E last \in 1..W, page \in SUBSET there :
             /\ plan.cursor < last
             /\ \A w \in there : plan.cursor < w /\ w <= last => w \in page
             /\ names' = names \cup page
             /\ listed' = listed \cup page
             /\ plan' \in Plans
             /\ plan'.phase = plan.phase
             /\ plan'.at = plan.at
             /\ plan'.cursor = NextCursor(last, W)
             /\ last = W => plan'.todo = (plan.todo \ {ListWorkspaces})
                                         \cup ({"roles", "groups"} \X page)
             /\ last # W => plan'.todo = plan.todo \cup ({"roles", "groups"} \X page)
<1>1. PICK last \in Lasts(plan.cursor, W) :
        LET page == {w \in there : plan.cursor < w /\ w <= last}
        IN /\ names' = names \cup NewNames(page, last)
           /\ listed' = listed \cup page
           /\ plan' = [plan EXCEPT
                  !.cursor = NextCursor(last, W),
                  !.todo = (IF last = W THEN @ \ {ListWorkspaces} ELSE @)
                           \cup ({"roles", "groups"} \X page)]
  BY DEF WorkspacesPage
<1> DEFINE page == {w \in there : plan.cursor < w /\ w <= last}
           calls == {"roles", "groups"} \X page
           todo == (IF last = W THEN plan.todo \ {ListWorkspaces} ELSE plan.todo) \cup calls
<1>2. last \in 1..W /\ plan.cursor < last
  BY DEF Lasts
<1>3. page \subseteq Workspaces
  BY DEF TypeOK
<1>4. calls \subseteq Calls
  <2>1. {"roles", "groups"} \subseteq TeamCalls
    BY DEF TeamCalls
  <2> QED
    BY <1>3, <2>1 DEF Calls
<1>5. plan \in [phase : {"resources", "entitlements", "grants", "done"},
                todo : SUBSET Calls, cursor : 0..W, at : [Workspaces -> 0..U]]
  BY DEF TypeOK, Plans
<1>6. todo \subseteq Calls
  BY <1>4, <1>5
<1>7. NextCursor(last, W) \in 0..W
  BY <1>2 DEF NextCursor
<1>8. plan' = [plan EXCEPT !.cursor = NextCursor(last, W), !.todo = todo]
  BY <1>1
<1>9. /\ plan' \in Plans
      /\ plan'.phase = plan.phase
      /\ plan'.at = plan.at
      /\ plan'.cursor = NextCursor(last, W)
      /\ plan'.todo = todo
  <2> HIDE DEF todo
  <2> QED
    BY <1>5, <1>6, <1>7, <1>8 DEF Plans
<1>10. names' = names \cup page /\ listed' = listed \cup page
  BY <1>1 DEF NewNames
<1>11. \A w \in there : plan.cursor < w /\ w <= last => w \in page
  OBVIOUS
<1>12. page \in SUBSET there
  OBVIOUS
<1> HIDE DEF page
<1> QED
  BY <1>2, <1>9, <1>10, <1>11, <1>12

\* A page of users: what it does to the plan and the store.
LEMMA PageOfUsers ==
    ASSUME TypeOK, NEW w \in Workspaces, UsersPage(w)
    PROVE  \E last \in 1..U :
             /\ plan.at[w] < last
             /\ grants' = grants \cup UNION {{<<w, u, e>> : e \in Emitted(who[w][u])} :
                                    u \in {v \in Users : plan.at[w] < v /\ v <= last}}
             /\ plan' = AfterUsers(w, last)
BY DEF UsersPage, Lasts, TypeOK

LEMMA EmittedTypes ==
    \A s : Emitted(s) \subseteq {"workspace", "guest", "member"}
BY DEF Emitted

\* The next phase: what it does to the plan.
LEMMA PhaseFollows ==
    ASSUME TypeOK, NextPhase
    PROVE  /\ plan.todo = {}
           /\ plan' \in Plans
           /\ plan'.at = plan.at
           /\ \/ /\ plan.phase = "resources" /\ plan'.phase = "entitlements"
                 /\ plan'.todo = {"entitlements"} \X roles
                 /\ names' = names
              \/ /\ plan.phase = "entitlements" /\ plan'.phase = "grants"
                 /\ plan'.todo = ({"users"} \X listed) \cup ({"members"} \X groups)
                 /\ names' = names
              \/ /\ plan.phase = "grants" /\ plan'.phase = "done"
                 /\ plan'.todo = {}
                 /\ names' = {}
<1>1. plan \in [phase : {"resources", "entitlements", "grants", "done"},
                todo : SUBSET Calls, cursor : 0..W, at : [Workspaces -> 0..U]]
  BY DEF TypeOK, Plans
<1>2. /\ {"entitlements"} \X roles \subseteq Calls
      /\ ({"users"} \X listed) \cup ({"members"} \X groups) \subseteq Calls
  BY DEF TypeOK, Calls, TeamCalls
<1> DEFINE first == {"entitlements"} \X roles
           second == ({"users"} \X listed) \cup ({"members"} \X groups)
<1>3. plan.todo = {}
  BY DEF NextPhase
<1>4. CASE /\ plan.phase = "resources"
           /\ plan' = [plan EXCEPT !.phase = "entitlements", !.todo = first]
           /\ UNCHANGED names
  <2> HIDE DEF first
  <2>1. /\ plan' \in Plans /\ plan'.at = plan.at
        /\ plan'.phase = "entitlements" /\ plan'.todo = first
    BY <1>1, <1>2, <1>4 DEF Plans, first
  <2> QED
    BY <1>3, <1>4, <2>1 DEF first
<1>5. CASE /\ plan.phase = "entitlements"
           /\ plan' = [plan EXCEPT !.phase = "grants", !.todo = second]
           /\ UNCHANGED names
  <2> HIDE DEF second
  <2>1. /\ plan' \in Plans /\ plan'.at = plan.at
        /\ plan'.phase = "grants" /\ plan'.todo = second
    BY <1>1, <1>2, <1>5 DEF Plans, second
  <2> QED
    BY <1>3, <1>5, <2>1 DEF second
<1>6. CASE /\ plan.phase = "grants"
           /\ plan' = [plan EXCEPT !.phase = "done"]
           /\ names' = {}
  BY <1>1, <1>3, <1>6 DEF Plans
<1> QED
  BY <1>4, <1>5, <1>6 DEF NextPhase

\* What there is to tell, of one entitlement of one user and of one member.
LEMMA WhatStands ==
    ASSUME NEW w \in Workspaces, NEW u \in Users, NEW e \in Entitlements
    PROVE  <<w, u, e>> \in Standing <=> w \in there /\ e \in Emitted(who[w][u])
<1>1. <<w, u, e>> \in Standing <=>
        /\ w \in there
        /\ who[w][u] \in {"guest", "member"}
        /\ e \in {"workspace", who[w][u]}
  BY DEF Standing, Entitled, Entitlements
<1> QED
  BY <1>1 DEF Emitted

LEMMA WhoBelongs ==
    ASSUME NEW g \in Groups, NEW u \in Users
    PROVE  <<g, u>> \in Belonging <=>
             TeamOf[g] \in there /\ g \in enabled /\ u \in members[g]
BY DEF Belonging

LEMMA InitTypes == Init => TypeOK
<1> SUFFICES ASSUME Init PROVE TypeOK
  OBVIOUS
<1>1. plan \in Plans
  <2>1. {ListWorkspaces} \subseteq Calls
    BY DEF ListWorkspaces, Calls
  <2>2. [w \in Workspaces |-> 0] \in [Workspaces -> 0..U]
    OBVIOUS
  <2> QED
    BY <2>1, <2>2 DEF Init, Plans
<1>2. there \subseteq Workspaces /\ who \in [Workspaces -> [Users -> UserStates]]
  BY DEF Init
<1>3. members \in [Groups -> SUBSET Users]
  BY DEF Init
<1> QED
  BY <1>1, <1>2, <1>3 DEF Init, TypeOK

LEMMA EditTypes ==
    ASSUME TypeOK, Edit,
           there' \subseteq Workspaces,
           who' \in [Workspaces -> [Users -> UserStates]],
           members' \in [Groups -> SUBSET Users],
           enabled' \subseteq Groups
    PROVE  TypeOK'
BY DEF Edit, TypeOK, store

LEMMA SlackTypes ==
    ASSUME TypeOK,
           \/ \E w \in Workspaces, u \in Users : EditUser(w, u)
           \/ \E g \in Groups, u \in Users : EditMembers(g, u)
           \/ \E g \in Groups : ToggleGroup(g)
           \/ \E w \in Workspaces : ToggleWorkspace(w)
    PROVE  TypeOK'
<1>1. ASSUME NEW w \in Workspaces, NEW u \in Users, EditUser(w, u) PROVE TypeOK'
  <2>1. PICK s \in UserStates : who' = [who EXCEPT ![w][u] = s]
    BY <1>1 DEF EditUser
  <2>2. who' \in [Workspaces -> [Users -> UserStates]]
    BY <2>1 DEF TypeOK
  <2> QED
    BY <1>1, <2>2, EditTypes DEF EditUser, TypeOK
<1>2. ASSUME NEW g \in Groups, NEW u \in Users, EditMembers(g, u) PROVE TypeOK'
  <2>1. members' \in [Groups -> SUBSET Users]
    BY <1>2 DEF EditMembers, TypeOK
  <2> QED
    BY <1>2, <2>1, EditTypes DEF EditMembers, TypeOK
<1>3. ASSUME NEW g \in Groups, ToggleGroup(g) PROVE TypeOK'
  BY <1>3, EditTypes DEF ToggleGroup, TypeOK
<1>4. ASSUME NEW w \in Workspaces, ToggleWorkspace(w) PROVE TypeOK'
  BY <1>4, EditTypes DEF ToggleWorkspace, TypeOK
<1> QED
  BY <1>1, <1>2, <1>3, <1>4

LEMMA NextTypes == TypeOK /\ [Next]_vars => TypeOK'
<1> SUFFICES ASSUME TypeOK, [Next]_vars PROVE TypeOK'
  OBVIOUS
<1> USE DEF slack, store, world
<1>0. plan \in Plans
  BY DEF TypeOK
<1>a. UNCHANGED slack => Standing' = Standing /\ Belonging' = Belonging
  BY DEF Standing, Belonging
<1>1. CASE WorkspacesPage
  <2>1. plan' \in Plans /\ names' \subseteq Workspaces /\ listed' \subseteq Workspaces
    BY <1>1, PageOfWorkspaces DEF TypeOK
  <2> QED
    BY <1>a, <1>1, <2>1 DEF WorkspacesPage, TypeOK
<1>2. ASSUME NEW w \in Workspaces, ListRoles(w) PROVE TypeOK'
  <2>1. plan' \in Plans
    BY <1>0, <1>2, MadeIsPlan DEF ListRoles
  <2> QED
    BY <1>a, <1>2, <2>1 DEF ListRoles, TypeOK
<1>3. ASSUME NEW w \in Workspaces, ListGroups(w) PROVE TypeOK'
  <2>1. plan' \in Plans
    BY <1>0, <1>3, MadeIsPlan DEF ListGroups
  <2> QED
    BY <1>a, <1>3, <2>1 DEF ListGroups, TypeOK
<1>4. ASSUME NEW w \in Workspaces, RoleEntitlements(w) PROVE TypeOK'
  <2>1. plan' \in Plans
    BY <1>0, <1>4, MadeIsPlan DEF RoleEntitlements
  <2> QED
    BY <1>a, <1>4, <2>1 DEF RoleEntitlements, TypeOK
<1>5. ASSUME NEW w \in Workspaces, UsersPage(w) PROVE TypeOK'
  <2>1. PICK last \in 1..U :
          /\ grants' = grants \cup UNION {{<<w, u, e>> : e \in Emitted(who[w][u])} :
                                 u \in {v \in Users : plan.at[w] < v /\ v <= last}}
          /\ plan' = AfterUsers(w, last)
    BY <1>5, PageOfUsers
  <2>2. plan' \in Plans
    BY <1>0, <2>1, AfterUsersIsPlan
  <2>3. grants' \subseteq Entitled
    <3>1. grants \subseteq Workspaces \X Users \X {"workspace", "guest", "member"}
      BY DEF TypeOK, Entitled
    <3> QED
      BY <2>1, <3>1, EmittedTypes DEF Entitled
  <2> QED
    BY <1>a, <1>5, <2>2, <2>3 DEF UsersPage, TypeOK
<1>6. ASSUME NEW g \in Groups, MembersCall(g) PROVE TypeOK'
  <2>1. plan' \in Plans
    BY <1>0, <1>6, MadeIsPlan DEF MembersCall, GroupGone
  <2>2. memberships' \subseteq Groups \X Users
    BY <1>a, <1>6 DEF MembersCall, TypeOK
  <2> QED
    BY <1>a, <1>6, <2>1, <2>2 DEF MembersCall, TypeOK
<1>7. CASE NextPhase
  <2>1. plan' \in Plans /\ names' \subseteq Workspaces
    BY <1>7, PhaseFollows DEF TypeOK
  <2> QED
    BY <1>a, <1>7, <2>1 DEF NextPhase, TypeOK
<1>8. CASE Checkpoint
  BY <1>a, <1>8 DEF Checkpoint, TypeOK
<1>9. CASE Crash
  BY <1>a, <1>9 DEF Crash, TypeOK
<1>10. CASE \/ \E w \in Workspaces, u \in Users : EditUser(w, u)
            \/ \E g \in Groups, u \in Users : EditMembers(g, u)
            \/ \E g \in Groups : ToggleGroup(g)
            \/ \E w \in Workspaces : ToggleWorkspace(w)
  BY <1>10, SlackTypes
<1>11. CASE UNCHANGED vars
  BY <1>a, <1>11 DEF vars, TypeOK
<1> QED
  BY <1>1, <1>2, <1>3, <1>4, <1>5, <1>6, <1>7, <1>8, <1>9, <1>10, <1>11 DEF Next, SyncStep

\* All variables of the model keep their types.
THEOREM TypeCorrect == Spec => []TypeOK
  BY InitTypes, NextTypes, PTL DEF Spec

-----------------------------------------------------------------------------
(* The steps that change neither the plan nor the store. *)

LEMMA EditKeeps ==
    ASSUME \/ \E w \in Workspaces, u \in Users : EditUser(w, u)
           \/ \E g \in Groups, u \in Users : EditMembers(g, u)
           \/ \E g \in Groups : ToggleGroup(g)
           \/ \E w \in Workspaces : ToggleWorkspace(w)
    PROVE  UNCHANGED <<plan, saved, names, listed, roles, groups, grants, memberships, crashes>>
BY DEF EditUser, EditMembers, ToggleGroup, ToggleWorkspace, Edit, store

LEMMA NextNamed == TypeOK /\ Named /\ [Next]_vars => Named'
<1> SUFFICES ASSUME TypeOK, Named, [Next]_vars, plan'.phase # "done" PROVE Named'
  BY DEF Named
<1> USE DEF store, slack, world
<1>0. plan \in Plans
  BY DEF TypeOK
<1>1. CASE WorkspacesPage
  <2>1. PICK last \in 1..W, page \in SUBSET there :
          /\ names' = names \cup page
          /\ plan'.phase = plan.phase
          /\ plan'.todo \subseteq plan.todo \cup ({"roles", "groups"} \X page)
    BY <1>1, PageOfWorkspaces
  <2>2. saved' = saved /\ roles' = roles
    BY <1>1 DEF WorkspacesPage
  <2> QED
    BY <2>1, <2>2 DEF Named, NamesFor
<1>2. ASSUME NEW w \in Workspaces,
             ListRoles(w) \/ ListGroups(w) \/ RoleEntitlements(w) \/ UsersPage(w)
      PROVE  Named'
  <2>1. plan'.phase = plan.phase /\ plan'.todo \subseteq plan.todo
    <3>1. CASE UsersPage(w)
      <4>1. PICK last \in 1..U : plan' = AfterUsers(w, last)
        BY <3>1, PageOfUsers
      <4>2. /\ AfterUsers(w, last).phase = plan.phase
            /\ last = U => AfterUsers(w, last).todo = plan.todo \ {<<"users", w>>}
            /\ last # U => AfterUsers(w, last).todo = plan.todo
        BY <1>0, AfterUsersIsPlan
      <4> QED
        BY <4>1, <4>2
    <3> QED
      BY <1>0, <1>2, <3>1, MadeIsPlan DEF ListRoles, ListGroups, RoleEntitlements
  <2>2. UNCHANGED <<saved, names>>
    BY <1>2 DEF ListRoles, ListGroups, RoleEntitlements, UsersPage
  <2>3. roles' = roles \/ (roles' = roles \cup {w} /\ <<"roles", w>> \in plan.todo)
    BY <1>2 DEF ListRoles, ListGroups, RoleEntitlements, UsersPage
  <2> QED
    BY <2>1, <2>2, <2>3 DEF Named, NamesFor
<1>3. ASSUME NEW g \in Groups, MembersCall(g) PROVE Named'
  <2>1. plan'.phase = plan.phase /\ plan'.todo \subseteq plan.todo
    BY <1>0, <1>3, MadeIsPlan DEF MembersCall, GroupGone
  <2> QED
    BY <1>3, <2>1 DEF MembersCall, Named, NamesFor
<1>4. CASE NextPhase
  <2>1. plan.phase # "done" /\ names' = names
    BY <1>4, PhaseFollows
  <2>2. \A w \in Workspaces : <<"roles", w>> \notin plan'.todo
    BY <1>4, PhaseFollows
  <2>3. saved' = saved /\ roles' = roles
    BY <1>4 DEF NextPhase
  <2> QED
    BY <2>1, <2>2, <2>3 DEF Named, NamesFor
<1>5. CASE Checkpoint
  BY <1>5 DEF Checkpoint, Named, NamesFor
<1>6. CASE Crash
  BY <1>6 DEF Crash, Named, NamesFor
<1>7. CASE UNCHANGED <<plan, saved, names, listed, roles, groups, grants, memberships, crashes>>
  BY <1>7 DEF Named, NamesFor
<1> QED
  BY <1>1, <1>2, <1>3, <1>4, <1>5, <1>6, <1>7, EditKeeps DEF Next, SyncStep, vars

LEMMA InitNamed == Init => Named
  BY DEF Init, Named, NamesFor, ListWorkspaces

\* Whichever page of workspaces put it there, and whatever died since, the
\* name of a workspace is in the session store when the entitlements of its
\* roles are asked for (workspace.go:106, roles.go:129).
THEOREM NamesAreAlwaysKnown == Spec => []NamesAreKnown
<1>1. Named => NamesAreKnown
  BY DEF Named, NamesAreKnown
<1> QED
  BY <1>1, InitNamed, NextNamed, TypeCorrect, PTL DEF Spec

-----------------------------------------------------------------------------
(* One role for each user. *)

\* A page of users leaves one role to each user of the workspace.
LEMMA UsersPageOnce ==
    ASSUME TypeOK, ReadOnce, OneRoleEach, crashes = 0,
           NEW w \in Workspaces, UsersPage(w)
    PROVE  ReadOnce' /\ OneRoleEach'
<1>1. PICK last \in 1..U :
        /\ plan.at[w] < last
        /\ grants' = grants \cup UNION {{<<w, u, e>> : e \in Emitted(who[w][u])} :
                               u \in {v \in Users : plan.at[w] < v /\ v <= last}}
        /\ plan' = AfterUsers(w, last)
  BY PageOfUsers
<1>2. /\ plan'.phase = plan.phase
      /\ last = U => plan'.todo = plan.todo \ {<<"users", w>>}
      /\ last # U => plan'.todo = plan.todo
      /\ plan'.at = IF last = U THEN plan.at ELSE [plan.at EXCEPT ![w] = last]
  BY <1>1, AfterUsersIsPlan DEF TypeOK
<1>3. plan.at \in [Workspaces -> 0..U]
  BY DEF TypeOK, Plans
<1>4. <<"users", w>> \in plan.todo /\ plan.phase = "grants"
  BY DEF UsersPage, ReadOnce
<1>5. \A x \in Workspaces, u \in Users, e \in {"guest", "member"} :
        <<x, u, e>> \in grants' =>
          \/ <<x, u, e>> \in grants
          \/ x = w /\ plan.at[w] < u /\ u <= last /\ e \in Emitted(who[w][u])
  BY <1>1
<1>6. \A u \in Users, e \in {"guest", "member"} :
        <<w, u, e>> \in grants => u <= plan.at[w]
  BY <1>4 DEF ReadOnce
<1>7. ASSUME NEW x \in Workspaces, <<"users", x>> \in plan'.todo,
             NEW u \in Users, NEW e \in {"guest", "member"}, <<x, u, e>> \in grants'
      PROVE  u <= plan'.at[x]
  <2>1. CASE x # w
    <3>1. <<x, u, e>> \in grants /\ <<"users", x>> \in plan.todo
      BY <1>2, <1>5, <1>7, <2>1
    <3>2. plan'.at[x] = plan.at[x]
      BY <1>2, <1>3, <2>1
    <3> QED
      BY <3>1, <3>2 DEF ReadOnce
  <2>2. CASE x = w
    <3>1. last # U
      BY <1>2, <1>7, <2>2
    <3>2. plan'.at[w] = last
      BY <1>2, <1>3, <3>1
    <3>3. u <= plan.at[w] \/ u <= last
      BY <1>5, <1>6, <1>7, <2>2
    <3>4. plan.at[w] \in Nat /\ last \in Nat /\ u \in Nat
      BY <1>3 DEF Users
    <3> QED
      BY <1>1, <2>2, <3>2, <3>3, <3>4
  <2> QED
    BY <2>1, <2>2
<1>8. ReadOnce'
  BY <1>2, <1>4, <1>7 DEF ReadOnce
<1>9. ASSUME NEW x \in Workspaces, NEW u \in Users,
             <<x, u, "guest">> \in grants', <<x, u, "member">> \in grants'
      PROVE  FALSE
  <2>1. ~ (<<x, u, "guest">> \in grants /\ <<x, u, "member">> \in grants)
    BY DEF OneRoleEach
  <2>2. x = w /\ plan.at[w] < u
    BY <1>5, <1>9, <2>1
  <2>3. <<w, u, "guest">> \notin grants /\ <<w, u, "member">> \notin grants
    <3>1. ~ (u <= plan.at[w])
      BY <1>3, <2>2 DEF Users
    <3> QED
      BY <1>6, <3>1
  <2>4. "guest" \in Emitted(who[w][u]) /\ "member" \in Emitted(who[w][u])
    BY <1>5, <1>9, <2>2, <2>3
  <2> QED
    BY <2>4 DEF Emitted
<1>10. OneRoleEach'
  BY <1>9 DEF OneRoleEach
<1> QED
  BY <1>8, <1>10

LEMMA NextReadOnce ==
    TypeOK /\ ReadOnce /\ OneRoleEach /\ [Next]_vars => ReadOnce' /\ OneRoleEach'
<1> SUFFICES ASSUME TypeOK, ReadOnce, OneRoleEach, [Next]_vars, crashes' = 0
             PROVE  ReadOnce' /\ OneRoleEach'
  BY DEF ReadOnce, OneRoleEach
<1> USE DEF store, slack, world
<1>0. plan \in Plans
  BY DEF TypeOK
<1>1. CASE WorkspacesPage
  <2>1. PICK last \in 1..W, page \in SUBSET there :
          /\ plan'.phase = plan.phase
          /\ plan'.at = plan.at
          /\ plan'.todo \subseteq plan.todo \cup ({"roles", "groups"} \X page)
    BY <1>1, PageOfWorkspaces
  <2>2. \A w \in Workspaces : <<"users", w>> \in plan'.todo => <<"users", w>> \in plan.todo
    BY <2>1
  <2>3. grants' = grants /\ crashes = 0
    BY <1>1 DEF WorkspacesPage
  <2> QED
    BY <2>1, <2>2, <2>3 DEF ReadOnce, OneRoleEach
<1>2. ASSUME NEW w \in Workspaces, ListRoles(w) \/ ListGroups(w) \/ RoleEntitlements(w)
      PROVE  ReadOnce' /\ OneRoleEach'
  <2>1. plan'.phase = plan.phase /\ plan'.todo \subseteq plan.todo /\ plan'.at = plan.at
    BY <1>0, <1>2, MadeIsPlan DEF ListRoles, ListGroups, RoleEntitlements
  <2>2. UNCHANGED <<grants, crashes>>
    BY <1>2 DEF ListRoles, ListGroups, RoleEntitlements
  <2> QED
    BY <2>1, <2>2 DEF ReadOnce, OneRoleEach
<1>3. ASSUME NEW w \in Workspaces, UsersPage(w) PROVE ReadOnce' /\ OneRoleEach'
  <2>1. crashes = 0
    BY <1>3 DEF UsersPage
  <2> QED
    BY <1>3, <2>1, UsersPageOnce
<1>4. ASSUME NEW g \in Groups, MembersCall(g) PROVE ReadOnce' /\ OneRoleEach'
  <2>1. plan'.phase = plan.phase /\ plan'.todo \subseteq plan.todo /\ plan'.at = plan.at
    BY <1>0, <1>4, MadeIsPlan DEF MembersCall, GroupGone
  <2> QED
    BY <1>4, <2>1 DEF MembersCall, ReadOnce, OneRoleEach
<1>5. CASE NextPhase
  <2>1. grants' = grants /\ crashes = 0
    BY <1>5 DEF NextPhase
  <2>2. \/ plan.phase = "resources" /\ plan'.phase = "entitlements"
           /\ plan'.todo = {"entitlements"} \X roles
        \/ plan.phase = "entitlements" /\ plan'.phase = "grants"
        \/ plan.phase = "grants" /\ plan'.phase = "done" /\ plan'.todo = {}
    BY <1>5, PhaseFollows
  <2>3. plan.phase \in {"resources", "entitlements"} => grants = {}
    BY <2>1 DEF ReadOnce
  <2> QED
    BY <2>1, <2>2, <2>3 DEF ReadOnce, OneRoleEach
<1>6. CASE Checkpoint
  BY <1>6 DEF Checkpoint, ReadOnce, OneRoleEach
<1>7. CASE Crash
  BY <1>7 DEF Crash, TypeOK
<1>8. CASE UNCHANGED <<plan, saved, names, listed, roles, groups, grants, memberships, crashes>>
  BY <1>8 DEF ReadOnce, OneRoleEach
<1> QED
  BY <1>1, <1>2, <1>3, <1>4, <1>5, <1>6, <1>7, <1>8, EditKeeps DEF Next, SyncStep, vars

LEMMA InitReadOnce == Init => ReadOnce /\ OneRoleEach
  BY DEF Init, ReadOnce, OneRoleEach, ListWorkspaces

\* Without a crash no user is a guest and a member in one sync, though it was
\* one and then the other while the pages were read (Grants of workspace.go).
THEOREM OneRoleEachAlways == Spec => []OneRoleEach
  BY InitReadOnce, NextReadOnce, TypeCorrect, PTL DEF Spec

-----------------------------------------------------------------------------
(* Nothing is missed. *)

\* The store grows; what was so all the time gets less.
Grows ==
    /\ listed \subseteq listed' /\ roles \subseteq roles' /\ groups \subseteq groups'
    /\ grants \subseteq grants' /\ memberships \subseteq memberships'
    /\ kept' \subseteq kept /\ steady' \subseteq steady /\ loyal' \subseteq loyal

\* A plan that stays as it is stays sound.
LEMMA SavedStaysSound ==
    ASSUME Sound(saved), Grows, saved' = saved PROVE Sound(saved)'
<1>1. \A w \in kept' : TeamSound(saved, w)'
  BY DEF Sound, Grows, TeamSound, ToList
<1>2. ASSUME NEW w \in Workspaces, NEW u \in Users, NEW e \in Entitlements,
             <<w, u, e>> \in steady'
      PROVE  UserSound(saved, w, u, e)'
  <2>1. UserSound(saved, w, u, e)
    BY <1>2 DEF Sound, Grows
  <2> QED
    BY <2>1 DEF UserSound, Grows, ToList, Reading
<1>3. ASSUME NEW g \in Groups, NEW u \in Users, <<g, u>> \in loyal'
      PROVE  MemberSound(saved, g, u)'
  <2>1. MemberSound(saved, g, u)
    BY <1>3 DEF Sound, Grows
  <2> QED
    BY <2>1 DEF MemberSound, Grows, ToList, Reading
<1> QED
  BY <1>1, <1>2, <1>3 DEF Sound

LEMMA PlanStaysSound ==
    ASSUME Sound(plan), Grows, plan' = plan PROVE Sound(plan)'
<1>1. \A w \in kept' : TeamSound(plan, w)'
  BY DEF Sound, Grows, TeamSound, ToList
<1>2. ASSUME NEW w \in Workspaces, NEW u \in Users, NEW e \in Entitlements,
             <<w, u, e>> \in steady'
      PROVE  UserSound(plan, w, u, e)'
  <2>1. UserSound(plan, w, u, e)
    BY <1>2 DEF Sound, Grows
  <2> QED
    BY <2>1 DEF UserSound, Grows, ToList, Reading
<1>3. ASSUME NEW g \in Groups, NEW u \in Users, <<g, u>> \in loyal'
      PROVE  MemberSound(plan, g, u)'
  <2>1. MemberSound(plan, g, u)
    BY <1>3 DEF Sound, Grows
  <2> QED
    BY <2>1 DEF MemberSound, Grows, ToList, Reading
<1> QED
  BY <1>1, <1>2, <1>3 DEF Sound

\* A call that was made has put in the store what it was for.
LEMMA CallSound ==
    ASSUME Sound(plan), Grows, plan \in Plans,
           NEW k, k \in plan.todo, k # ListWorkspaces, plan' = Made(k),
           \A w \in kept' : k = <<"roles", w>> => w \in roles',
           \A w \in Workspaces : k # <<"users", w>>,
           \A g \in Groups, u \in Users : <<g, u>> \in loyal' =>
              /\ k = <<"groups", TeamOf[g]>> => g \in groups'
              /\ k = <<"members", g>> => <<g, u>> \in memberships'
    PROVE  Sound(plan)'
<1>1. /\ plan'.phase = plan.phase
      /\ plan'.todo = plan.todo \ {k}
      /\ plan'.cursor = plan.cursor
      /\ plan'.at = plan.at
  BY MadeIsPlan
<1>2. ASSUME NEW w \in kept' PROVE TeamSound(plan, w)'
  <2>1. TeamSound(plan, w)
    BY <1>2 DEF Sound, Grows
  <2>2. k = <<"roles", w>> => w \in roles'
    BY <1>2
  <2> QED
    BY <1>1, <2>1, <2>2 DEF TeamSound, ToList, Grows
<1>3. ASSUME NEW w \in Workspaces, NEW u \in Users, NEW e \in Entitlements,
             <<w, u, e>> \in steady'
      PROVE  UserSound(plan, w, u, e)'
  <2>1. UserSound(plan, w, u, e)
    BY <1>3 DEF Sound, Grows
  <2> QED
    BY <1>1, <2>1 DEF UserSound, ToList, Reading, Grows
<1>4. ASSUME NEW g \in Groups, NEW u \in Users, <<g, u>> \in loyal'
      PROVE  MemberSound(plan, g, u)'
  <2>1. MemberSound(plan, g, u)
    BY <1>4 DEF Sound, Grows
  <2>2. /\ k = <<"groups", TeamOf[g]>> => g \in groups'
        /\ k = <<"members", g>> => <<g, u>> \in memberships'
    BY <1>4
  <2> QED
    BY <1>1, <2>1, <2>2 DEF MemberSound, ToList, Reading, Grows
<1> QED
  BY <1>1, <1>2, <1>3, <1>4 DEF Sound

LEMMA WorkspacesPageSound ==
    ASSUME TypeOK, PlansSound, WorkspacesPage PROVE Sound(plan)'
<1>1. PICK last \in 1..W, page \in SUBSET there :
        /\ plan.cursor < last
        /\ \A w \in there : plan.cursor < w /\ w <= last => w \in page
        /\ listed' = listed \cup page
        /\ plan'.phase = plan.phase
        /\ plan'.at = plan.at
        /\ plan'.cursor = NextCursor(last, W)
        /\ last = W => plan'.todo = (plan.todo \ {ListWorkspaces})
                                    \cup ({"roles", "groups"} \X page)
        /\ last # W => plan'.todo = plan.todo \cup ({"roles", "groups"} \X page)
  BY PageOfWorkspaces
<1>2. /\ ListWorkspaces \in plan.todo
      /\ UNCHANGED <<there, who, members, enabled, roles, groups, grants, memberships,
                     kept, steady, loyal>>
  BY DEF WorkspacesPage, slack, world
<1>3. plan.phase # "done"
  BY <1>2 DEF PlansSound, Sound
<1>4. \A k \in plan.todo : k # ListWorkspaces => k \in plan'.todo
  BY <1>1
<1>5. \A w \in page : <<"roles", w>> \in plan'.todo /\ <<"groups", w>> \in plan'.todo
  BY <1>1
\* A workspace to come is on this page or on a later one.
<1>6. ASSUME NEW w \in there, ToList(plan, w)
      PROVE  ToList(plan', w) \/ (w \in page /\ plan'.phase = "resources")
  <2>1. w \in 1..W
    BY DEF TypeOK, Workspaces
  <2>2. CASE w <= last
    BY <1>1, <1>6, <2>2 DEF ToList
  <2>3. CASE last < w
    <3>1. last # W
      BY <2>1, <2>3
    <3>2. plan'.cursor = last /\ ListWorkspaces \in plan'.todo
      BY <1>1, <1>2, <3>1 DEF NextCursor
    <3> QED
      BY <1>1, <1>6, <2>3, <3>2 DEF ToList
  <2> QED
    BY <1>1, <2>1, <2>2, <2>3
<1>7. ASSUME NEW w \in kept' PROVE TeamSound(plan, w)'
  <2>1. TeamSound(plan, w) /\ w \in there
    BY <1>2, <1>7 DEF PlansSound, Sound, TypeOK
  <2>2. CASE ToList(plan', w)
    BY <2>2 DEF TeamSound, ToList
  <2>3. CASE w \in page /\ plan'.phase = "resources"
    BY <1>1, <1>5, <2>3 DEF TeamSound
  <2>4. CASE ~ToList(plan, w)
    <3>1. /\ w \in listed
          /\ w \in roles \/ (plan.phase = "resources" /\ <<"roles", w>> \in plan.todo)
      BY <2>1, <2>4 DEF TeamSound
    <3>2. <<"roles", w>> \in plan.todo => <<"roles", w>> \in plan'.todo
      BY <1>4 DEF ListWorkspaces
    <3> QED
      BY <1>1, <1>2, <3>1, <3>2 DEF TeamSound
  <2> QED
    BY <1>6, <2>1, <2>2, <2>3, <2>4
<1>8. ASSUME NEW w \in Workspaces, NEW u \in Users, NEW e \in Entitlements,
             <<w, u, e>> \in steady'
      PROVE  UserSound(plan, w, u, e)'
  <2>1. UserSound(plan, w, u, e) /\ w \in there
    BY <1>2, <1>8, WhatStands DEF PlansSound, Sound, TypeOK
  <2>2. CASE ToList(plan', w)
    BY <2>2 DEF UserSound, ToList
  <2>3. CASE w \in page /\ plan'.phase = "resources"
    BY <1>1, <2>3 DEF UserSound, Reading
  <2>4. CASE ~ToList(plan, w)
    <3>1. /\ w \in listed
          /\ Reading(plan) => \/ <<"users", w>> \in plan.todo /\ plan.at[w] < u
                              \/ <<w, u, e>> \in grants
      BY <2>1, <2>4 DEF UserSound
    <3>2. <<"users", w>> \in plan.todo => <<"users", w>> \in plan'.todo
      BY <1>4 DEF ListWorkspaces
    <3> QED
      BY <1>1, <1>2, <3>1, <3>2 DEF UserSound, Reading
  <2> QED
    BY <1>6, <2>1, <2>2, <2>3, <2>4
<1>9. ASSUME NEW g \in Groups, NEW u \in Users, <<g, u>> \in loyal'
      PROVE  MemberSound(plan, g, u)'
  <2>1. MemberSound(plan, g, u) /\ TeamOf[g] \in there
    BY <1>2, <1>9, WhoBelongs DEF PlansSound, Sound, TypeOK
  <2>2. CASE ToList(plan', TeamOf[g])
    BY <2>2 DEF MemberSound, ToList
  <2>3. CASE TeamOf[g] \in page /\ plan'.phase = "resources"
    BY <1>5, <2>3 DEF MemberSound, Reading
  <2>4. CASE ~ToList(plan, TeamOf[g])
    <3>1. /\ g \in groups \/ (plan.phase = "resources" /\ <<"groups", TeamOf[g]>> \in plan.todo)
          /\ Reading(plan) => \/ <<"members", g>> \in plan.todo
                              \/ <<g, u>> \in memberships
      BY <2>1, <2>4 DEF MemberSound
    <3>2. /\ <<"groups", TeamOf[g]>> \in plan.todo => <<"groups", TeamOf[g]>> \in plan'.todo
          /\ <<"members", g>> \in plan.todo => <<"members", g>> \in plan'.todo
      BY <1>4 DEF ListWorkspaces
    <3> QED
      BY <1>1, <1>2, <3>1, <3>2 DEF MemberSound, Reading
  <2> QED
    BY <1>6, <2>1, <2>2, <2>3, <2>4
<1>10. /\ plan'.phase \in {"resources", "entitlements"} => \A w \in Workspaces : plan'.at[w] = 0
       /\ plan'.phase # "done"
       /\ \A w \in Workspaces : <<"users", w>> \in plan'.todo => plan'.phase = "grants"
  BY <1>1, <1>3 DEF PlansSound, Sound
<1> QED
  BY <1>7, <1>8, <1>9, <1>10 DEF Sound

LEMMA UsersPageSound ==
    ASSUME TypeOK, PlansSound, NEW x \in Workspaces, UsersPage(x)
    PROVE  Grows /\ Sound(plan)'
<1>1. PICK last \in 1..U :
        /\ plan.at[x] < last
        /\ grants' = grants \cup UNION {{<<x, u, e>> : e \in Emitted(who[x][u])} :
                               u \in {v \in Users : plan.at[x] < v /\ v <= last}}
        /\ plan' = AfterUsers(x, last)
  BY PageOfUsers
<1>2. /\ plan'.phase = plan.phase
      /\ last = U => plan'.todo = plan.todo \ {<<"users", x>>}
      /\ last # U => plan'.todo = plan.todo
      /\ plan'.at = IF last = U THEN plan.at ELSE [plan.at EXCEPT ![x] = last]
      /\ plan'.cursor = plan.cursor
  BY <1>1, AfterUsersIsPlan DEF TypeOK
<1>3. plan.at \in [Workspaces -> 0..U]
  BY DEF TypeOK, Plans
<1>4. /\ <<"users", x>> \in plan.todo
      /\ UNCHANGED <<who, listed, roles, groups, memberships, kept, steady, loyal>>
  BY DEF UsersPage, slack, world
<1>5. Grows
  <2>1. grants \subseteq grants'
    BY <1>1
  <2> QED
    BY <1>4, <2>1 DEF Grows
<1>6. \A k \in plan.todo : k # <<"users", x>> => k \in plan'.todo
  BY <1>2
<1>7. plan'.phase = "grants" /\ plan.phase = "grants"
  BY <1>2, <1>4 DEF PlansSound, Sound
<1>8. ASSUME NEW w \in kept' PROVE TeamSound(plan, w)'
  <2>1. TeamSound(plan, w)
    BY <1>4, <1>8 DEF PlansSound, Sound
  <2> QED
    BY <1>4, <1>7, <2>1 DEF TeamSound, ToList
<1>9. ASSUME NEW w \in Workspaces, NEW u \in Users, NEW e \in Entitlements,
             <<w, u, e>> \in steady'
      PROVE  UserSound(plan, w, u, e)'
  <2>1. UserSound(plan, w, u, e) /\ e \in Emitted(who[w][u])
    BY <1>4, <1>9, WhatStands DEF PlansSound, Sound, TypeOK
  <2>2. /\ w \in listed
        /\ \/ <<"users", w>> \in plan.todo /\ plan.at[w] < u
           \/ <<w, u, e>> \in grants
    BY <1>7, <2>1 DEF UserSound, ToList, Reading
  <2>3. CASE <<w, u, e>> \in grants
    BY <1>1, <1>4, <2>2, <2>3 DEF UserSound
  <2>4. CASE w # x /\ <<"users", w>> \in plan.todo /\ plan.at[w] < u
    <3>1. plan'.at[w] = plan.at[w]
      BY <1>2, <1>3, <2>4
    <3> QED
      BY <1>4, <1>6, <2>2, <2>4, <3>1 DEF UserSound
  <2>5. CASE w = x /\ plan.at[x] < u /\ u <= last
    BY <1>1, <1>4, <2>1, <2>2, <2>5 DEF UserSound
  <2>6. CASE w = x /\ last < u
    <3>1. last # U
      BY <2>6 DEF Users
    <3>2. plan'.at[x] = last
      BY <1>2, <1>3, <3>1
    <3> QED
      BY <1>2, <1>4, <2>2, <2>6, <3>1, <3>2 DEF UserSound
  <2>7. u \in Nat /\ last \in Nat
    BY DEF Users
  <2> QED
    BY <2>2, <2>3, <2>4, <2>5, <2>6, <2>7
<1>10. ASSUME NEW g \in Groups, NEW u \in Users, <<g, u>> \in loyal'
       PROVE  MemberSound(plan, g, u)'
  <2>1. MemberSound(plan, g, u)
    BY <1>4, <1>10 DEF PlansSound, Sound
  <2>2. <<"members", g>> \in plan.todo => <<"members", g>> \in plan'.todo
    BY <1>6
  <2> QED
    BY <1>4, <1>7, <2>1, <2>2 DEF MemberSound, ToList, Reading
<1> QED
  BY <1>5, <1>7, <1>8, <1>9, <1>10 DEF Sound

LEMMA NextPhaseSound ==
    ASSUME TypeOK, PlansSound, NextPhase PROVE Sound(plan)'
<1>1. UNCHANGED <<who, listed, roles, groups, grants, memberships, kept, steady, loyal>>
  BY DEF NextPhase, slack, world
<1>2. plan.todo = {} /\ plan'.at = plan.at
  BY PhaseFollows
<1>3. \A w \in Workspaces : ~ToList(plan, w)
  BY <1>2 DEF ToList
\* What there is of what stayed, now that no call is left.
<1>4. \A w \in kept : w \in listed /\ w \in roles
  <2>1. kept \subseteq Workspaces
    BY DEF TypeOK
  <2> QED
    BY <1>2, <1>3, <2>1 DEF PlansSound, Sound, TeamSound
<1>5. \A w \in Workspaces, u \in Users, e \in Entitlements : <<w, u, e>> \in steady =>
        w \in listed /\ (Reading(plan) => <<w, u, e>> \in grants)
  BY <1>2, <1>3 DEF PlansSound, Sound, UserSound
<1>6. \A g \in Groups, u \in Users : <<g, u>> \in loyal =>
        g \in groups /\ (Reading(plan) => <<g, u>> \in memberships)
  BY <1>2, <1>3 DEF PlansSound, Sound, MemberSound
<1>7. \A w \in kept' : TeamSound(plan, w)'
  BY <1>1, <1>4 DEF TeamSound
<1>8. CASE /\ plan.phase = "resources" /\ plan'.phase = "entitlements"
           /\ plan'.todo = {"entitlements"} \X roles
  <2>1. \A w \in Workspaces : <<"users", w>> \notin plan'.todo
    BY <1>8
  <2> QED
    BY <2>1, <1>1, <1>2, <1>5, <1>6, <1>7, <1>8
    DEF PlansSound, Sound, UserSound, MemberSound, Reading
<1>9. CASE /\ plan.phase = "entitlements" /\ plan'.phase = "grants"
           /\ plan'.todo = ({"users"} \X listed) \cup ({"members"} \X groups)
  <2>1. \A w \in Workspaces : plan'.at[w] = 0
    BY <1>2, <1>9 DEF PlansSound, Sound
  <2>2. \A w \in listed : <<"users", w>> \in plan'.todo
    BY <1>9
  <2>3. \A g \in groups : <<"members", g>> \in plan'.todo
    BY <1>9
  <2>4. \A u \in Users : 0 < u
    BY DEF Users
  <2>5. \A w \in Workspaces, u \in Users, e \in Entitlements :
          <<w, u, e>> \in steady' => UserSound(plan, w, u, e)'
    BY <1>1, <1>5, <2>1, <2>2, <2>4 DEF UserSound
  <2>6. \A g \in Groups, u \in Users : <<g, u>> \in loyal' => MemberSound(plan, g, u)'
    BY <1>1, <1>6, <2>3 DEF MemberSound
  <2> QED
    BY <1>7, <1>9, <2>5, <2>6 DEF Sound
<1>10. CASE plan.phase = "grants" /\ plan'.phase = "done" /\ plan'.todo = {}
  <2>1. Reading(plan)
    BY <1>10 DEF Reading
  <2> QED
    BY <1>1, <1>5, <1>6, <1>7, <1>10, <2>1 DEF Sound, UserSound, MemberSound
<1> QED
  BY <1>8, <1>9, <1>10, PhaseFollows

\* What an edit changes is no longer counted as having stayed.
LEMMA EditGrows ==
    ASSUME \/ \E w \in Workspaces, u \in Users : EditUser(w, u)
           \/ \E g \in Groups, u \in Users : EditMembers(g, u)
           \/ \E g \in Groups : ToggleGroup(g)
           \/ \E w \in Workspaces : ToggleWorkspace(w)
    PROVE  Grows
<1>1. Edit
  BY DEF EditUser, EditMembers, ToggleGroup, ToggleWorkspace
<1> QED
  BY <1>1 DEF Edit, Grows, store

LEMMA NextSound == TypeOK /\ PlansSound /\ [Next]_vars => PlansSound'
<1> SUFFICES ASSUME TypeOK, PlansSound, [Next]_vars PROVE PlansSound'
  OBVIOUS
<1> USE DEF store, slack, world
<1>0. plan \in Plans /\ Sound(plan) /\ Sound(saved)
  BY DEF TypeOK, PlansSound
<1>1. /\ \A w \in kept : w \in there
      /\ \A g \in Groups, u \in Users :
            <<g, u>> \in loyal => TeamOf[g] \in there /\ g \in enabled /\ u \in members[g]
  BY WhoBelongs DEF TypeOK
<1>2. CASE WorkspacesPage
  <2>1. listed \subseteq listed'
    BY <1>2, PageOfWorkspaces
  <2>2. Grows /\ saved' = saved
    BY <1>2, <2>1 DEF WorkspacesPage, Grows
  <2> QED
    BY <1>0, <1>2, <2>2, WorkspacesPageSound, SavedStaysSound DEF PlansSound
<1>3. ASSUME NEW w \in Workspaces, ListRoles(w) PROVE PlansSound'
  <2>1. /\ roles' = roles \cup {w}
        /\ UNCHANGED <<slack, saved, names, listed, groups, grants, memberships, world>>
        /\ <<"roles", w>> \in plan.todo /\ plan' = Made(<<"roles", w>>)
    BY <1>3 DEF ListRoles
  <2>2. Grows
    BY <2>1 DEF Grows
  <2>3. Sound(plan)'
    BY <1>0, <2>1, <2>2, CallSound DEF ListWorkspaces
  <2> QED
    BY <1>0, <2>1, <2>2, <2>3, SavedStaysSound DEF PlansSound
<1>4. ASSUME NEW w \in Workspaces, ListGroups(w) PROVE PlansSound'
  <2>1. /\ groups' = groups \cup {g \in enabled : TeamOf[g] = w}
        /\ UNCHANGED <<slack, saved, names, listed, roles, grants, memberships, world>>
        /\ <<"groups", w>> \in plan.todo /\ plan' = Made(<<"groups", w>>)
    BY <1>4 DEF ListGroups
  <2>2. Grows
    BY <2>1 DEF Grows
  <2>3. \A g \in Groups, u \in Users : <<g, u>> \in loyal' => g \in enabled
    BY <1>1, <2>1
  <2>4. Sound(plan)'
    BY <1>0, <2>1, <2>2, <2>3, CallSound DEF ListWorkspaces
  <2> QED
    BY <1>0, <2>1, <2>2, <2>4, SavedStaysSound DEF PlansSound
<1>5. ASSUME NEW w \in Workspaces, RoleEntitlements(w) PROVE PlansSound'
  <2>1. /\ UNCHANGED <<slack, saved, store, world>>
        /\ <<"entitlements", w>> \in plan.todo /\ plan' = Made(<<"entitlements", w>>)
    BY <1>5 DEF RoleEntitlements
  <2>2. Grows
    BY <2>1 DEF Grows
  <2>3. Sound(plan)'
    BY <1>0, <2>1, <2>2, CallSound DEF ListWorkspaces
  <2> QED
    BY <1>0, <2>1, <2>2, <2>3, SavedStaysSound DEF PlansSound
<1>6. ASSUME NEW w \in Workspaces, UsersPage(w) PROVE PlansSound'
  <2>1. saved' = saved
    BY <1>6 DEF UsersPage
  <2> QED
    BY <1>0, <1>6, <2>1, UsersPageSound, SavedStaysSound DEF PlansSound
<1>7. ASSUME NEW g \in Groups, MembersCall(g) PROVE PlansSound'
  <2>1. /\ UNCHANGED <<slack, saved, names, listed, roles, groups, grants, world>>
        /\ <<"members", g>> \in plan.todo /\ plan' = Made(<<"members", g>>)
        /\ \/ g \in enabled /\ memberships' = memberships \cup ({g} \X members[g])
           \/ g \notin enabled /\ memberships' = memberships
    BY <1>7 DEF MembersCall, GroupGone
  <2>2. Grows
    BY <2>1 DEF Grows
  <2>3. \A u \in Users : <<g, u>> \in loyal' => <<g, u>> \in memberships'
    BY <1>1, <2>1
  <2>4. Sound(plan)'
    BY <1>0, <2>1, <2>2, <2>3, CallSound DEF ListWorkspaces
  <2> QED
    BY <1>0, <2>1, <2>2, <2>4, SavedStaysSound DEF PlansSound
<1>8. CASE NextPhase
  <2>1. UNCHANGED <<slack, saved, listed, roles, groups, grants, memberships, world>>
    BY <1>8 DEF NextPhase
  <2>2. Grows
    BY <2>1 DEF Grows
  <2> QED
    BY <1>0, <1>8, <2>1, <2>2, NextPhaseSound, SavedStaysSound DEF PlansSound
<1>9. CASE Checkpoint
  <2>1. UNCHANGED <<slack, plan, store, world>> /\ saved' = plan
    BY <1>9 DEF Checkpoint
  <2>2. Grows
    BY <2>1 DEF Grows
  <2>3. Sound(plan)'
    BY <1>0, <2>1, <2>2, PlanStaysSound
  <2>4. Sound(saved)'
    BY <1>0, <2>1 DEF Sound, TeamSound, UserSound, MemberSound, ToList, Reading
  <2> QED
    BY <2>3, <2>4 DEF PlansSound
<1>10. CASE Crash
  <2>1. UNCHANGED <<slack, saved, store, edits, kept, steady, loyal>> /\ plan' = saved
    BY <1>10 DEF Crash
  <2>2. Grows
    BY <2>1 DEF Grows
  <2>3. Sound(saved)'
    BY <1>0, <2>1, <2>2, SavedStaysSound
  <2>4. Sound(plan)'
    BY <1>0, <2>1 DEF Sound, TeamSound, UserSound, MemberSound, ToList, Reading
  <2> QED
    BY <2>3, <2>4 DEF PlansSound
<1>11. CASE \/ \E w \in Workspaces, u \in Users : EditUser(w, u)
            \/ \E g \in Groups, u \in Users : EditMembers(g, u)
            \/ \E g \in Groups : ToggleGroup(g)
            \/ \E w \in Workspaces : ToggleWorkspace(w)
  <2>1. plan' = plan /\ saved' = saved
    BY <1>11, EditKeeps
  <2> QED
    BY <1>0, <1>11, <2>1, EditGrows, PlanStaysSound, SavedStaysSound DEF PlansSound
<1>12. CASE UNCHANGED vars
  <2>1. Grows /\ UNCHANGED <<plan, saved>>
    BY <1>12 DEF vars, Grows
  <2> QED
    BY <1>0, <2>1, PlanStaysSound, SavedStaysSound DEF PlansSound
<1> QED
  BY <1>2, <1>3, <1>4, <1>5, <1>6, <1>7, <1>8, <1>9, <1>10, <1>11, <1>12 DEF Next, SyncStep

LEMMA InitSound == Init => PlansSound
<1> SUFFICES ASSUME Init PROVE PlansSound
  OBVIOUS
<1>1. \A w \in Workspaces : ToList(plan, w)
  BY DEF Init, ToList, Workspaces
<1>2. \A w \in Workspaces : plan.at[w] = 0
  BY DEF Init
<1>3. TeamOf \in [Groups -> Workspaces]
  OBVIOUS
<1>4. kept \subseteq Workspaces
  BY DEF Init
<1>5. Sound(plan)
  BY <1>1, <1>2, <1>3, <1>4
  DEF Init, Sound, TeamSound, UserSound, MemberSound, ListWorkspaces
<1> QED
  BY <1>5 DEF Init, PlansSound

LEMMA SoundMissesNothing == TypeOK /\ PlansSound => NothingMissed
<1> SUFFICES ASSUME TypeOK, PlansSound, plan.phase = "done" PROVE NothingMissed
  BY DEF NothingMissed
<1>1. plan.todo = {} /\ Reading(plan) /\ \A w \in Workspaces : ~ToList(plan, w)
  BY DEF PlansSound, Sound, Reading, ToList
<1>2. kept \subseteq roles
  <2>1. kept \subseteq Workspaces
    BY DEF TypeOK
  <2> QED
    BY <1>1, <2>1 DEF PlansSound, Sound, TeamSound
<1>3. ASSUME NEW t \in steady PROVE t \in grants
  <2>1. t \in Entitled
    BY DEF TypeOK, Standing
  <2>2. PICK w \in Workspaces, u \in Users, e \in Entitlements : t = <<w, u, e>>
    BY <2>1 DEF Entitled, Entitlements
  <2>3. <<w, u, e>> \in grants
    BY <1>1, <2>2 DEF PlansSound, Sound, UserSound
  <2> QED
    BY <2>2, <2>3
<1>4. ASSUME NEW p \in loyal PROVE p \in memberships
  <2>1. p \in Groups \X Users
    BY DEF TypeOK, Belonging
  <2>2. PICK g \in Groups, u \in Users : p = <<g, u>>
    BY <2>1
  <2>3. <<g, u>> \in memberships
    BY <1>1, <2>2 DEF PlansSound, Sound, MemberSound
  <2> QED
    BY <2>2, <2>3
<1> QED
  BY <1>2, <1>3, <1>4 DEF NothingMissed

\* A sync that ends has whatever was there all the time, across pages, edits,
\* groups that go and crashes: the grants of the users, the roles of the
\* workspaces and the members of the groups (workspace.go, user_group.go under
\* the checkpoints of the SDK's syncer).
THEOREM NothingIsMissed == Spec => []NothingMissed
  BY InitSound, NextSound, SoundMissesNothing, TypeCorrect, PTL DEF Spec

-----------------------------------------------------------------------------
(* A sync brings snapshots. *)

IInv == TypeOK /\ PlansSound

LEMMA AlwaysIInv == Spec => []IInv
  BY InitTypes, NextTypes, InitSound, NextSound, PTL DEF Spec, IInv

\* When the sync is done each table has what was there all the time.
Complete ==
    plan.phase = "done" => kept \subseteq listed /\ steady \subseteq grants /\ loyal \subseteq memberships

LEMMA TablesAreComplete == IInv => Complete
<1> SUFFICES ASSUME IInv, plan.phase = "done" PROVE Complete
  BY DEF Complete
<1>1. steady \subseteq grants /\ loyal \subseteq memberships
  BY SoundMissesNothing DEF IInv, NothingMissed
<1>2. kept \subseteq listed
  <2>1. \A w \in kept : TeamSound(plan, w) /\ ~ToList(plan, w)
    BY DEF IInv, PlansSound, Sound, ToList
  <2> QED
    BY <2>1 DEF TeamSound
<1> QED
  BY <1>1, <1>2 DEF Complete

\* What the syncer does puts in each table only what is so now.
LEMMA SyncCopies ==
    ASSUME IInv, SyncStep \/ Checkpoint \/ Crash
    PROVE  /\ plan.phase # "done"
           /\ UNCHANGED <<slack, kept, steady, loyal>>
           /\ listed \subseteq listed' /\ listed' \subseteq listed \cup there
           /\ grants \subseteq grants' /\ grants' \subseteq grants \cup Standing
           /\ memberships \subseteq memberships' /\ memberships' \subseteq memberships \cup Belonging
<1> USE DEF store, slack, world
<1>1. plan.phase = "done" => plan.todo = {}
  BY DEF IInv, PlansSound, Sound
<1>2. CASE WorkspacesPage
  <2>1. listed \subseteq listed' /\ listed' \subseteq listed \cup there
    BY <1>2, PageOfWorkspaces DEF IInv
  <2> QED
    BY <1>1, <1>2, <2>1 DEF WorkspacesPage
<1>3. ASSUME NEW w \in Workspaces, ListRoles(w) \/ ListGroups(w) \/ RoleEntitlements(w)
      PROVE  /\ plan.phase # "done"
             /\ UNCHANGED <<slack, kept, steady, loyal, listed, grants, memberships>>
  BY <1>1, <1>3 DEF ListRoles, ListGroups, RoleEntitlements
<1>4. ASSUME NEW w \in Workspaces, UsersPage(w)
      PROVE  /\ plan.phase # "done"
             /\ UNCHANGED <<slack, kept, steady, loyal, listed, memberships>>
             /\ grants \subseteq grants' /\ grants' \subseteq grants \cup Standing
  <2>1. PICK last \in 1..U :
          grants' = grants \cup UNION {{<<w, u, e>> : e \in Emitted(who[w][u])} :
                                u \in {v \in Users : plan.at[w] < v /\ v <= last}}
    BY <1>4, PageOfUsers DEF IInv
  <2>2. w \in there
    BY <1>4 DEF UsersPage
  <2>3. ASSUME NEW u \in Users, NEW e \in Emitted(who[w][u]) PROVE <<w, u, e>> \in Standing
    <3>1. e \in Entitlements
      BY EmittedTypes DEF Entitlements
    <3> QED
      BY <2>2, <3>1, WhatStands
  <2>4. ASSUME NEW t \in grants' PROVE t \in grants \/ t \in Standing
    BY <2>1, <2>3
  <2> QED
    BY <1>1, <1>4, <2>1, <2>4 DEF UsersPage
<1>5. ASSUME NEW g \in Groups, MembersCall(g)
      PROVE  /\ plan.phase # "done"
             /\ UNCHANGED <<slack, kept, steady, loyal, listed, grants>>
             /\ memberships \subseteq memberships'
             /\ memberships' \subseteq memberships \cup Belonging
  <2>1. \/ UNCHANGED memberships
        \/ /\ memberships' = memberships \cup ({g} \X members[g])
           /\ g \in enabled /\ TeamOf[g] \in there
    BY <1>5 DEF MembersCall
  <2>2. members[g] \subseteq Users
    BY DEF IInv, TypeOK
  <2>3. memberships \subseteq memberships' /\ memberships' \subseteq memberships \cup Belonging
    BY <2>1, <2>2 DEF Belonging
  <2> QED
    BY <1>1, <1>5, <2>3 DEF MembersCall
<1>6. CASE NextPhase
  BY <1>6 DEF NextPhase
<1>7. CASE Checkpoint \/ Crash
  BY <1>7 DEF Checkpoint, Crash
<1> QED
  BY <1>2, <1>3, <1>4, <1>5, <1>6, <1>7 DEF SyncStep

\* A step of the syncer is a copy for each of the three tables.
LEMMA CopyStep ==
    ASSUME IInv, Complete', SyncStep \/ Checkpoint \/ Crash
    PROVE  WorkspacesOf!Next /\ GrantsOf!Next /\ MembershipsOf!Next
<1>1. Standing' = Standing /\ Belonging' = Belonging
  BY SyncCopies DEF slack, Standing, Belonging
<1>2. WorkspacesOf!Copy
  BY SyncCopies DEF WorkspacesOf!Copy, Complete, slack
<1>3. GrantsOf!Copy
  BY <1>1, SyncCopies DEF GrantsOf!Copy, Complete
<1>4. MembershipsOf!Copy
  BY <1>1, SyncCopies DEF MembershipsOf!Copy, Complete
<1> QED
  BY <1>2, <1>3, <1>4 DEF WorkspacesOf!Next, GrantsOf!Next, MembershipsOf!Next

\* An edit changes what there is to tell, and leaves the store.
LEMMA ChangeStep ==
    ASSUME TypeOK',
           \/ \E w \in Workspaces, u \in Users : EditUser(w, u)
           \/ \E g \in Groups, u \in Users : EditMembers(g, u)
           \/ \E g \in Groups : ToggleGroup(g)
           \/ \E w \in Workspaces : ToggleWorkspace(w)
    PROVE  WorkspacesOf!Next /\ GrantsOf!Next /\ MembershipsOf!Next
<1>1. Edit
  BY DEF EditUser, EditMembers, ToggleGroup, ToggleWorkspace
<1>2. there' \in SUBSET Workspaces
  BY DEF TypeOK
<1>3. Standing' \in SUBSET Entitled /\ Belonging' \in SUBSET (Groups \X Users)
  BY DEF Standing, Belonging
<1>4. WorkspacesOf!Change
  BY <1>1, <1>2 DEF WorkspacesOf!Change, Edit, store
<1>5. GrantsOf!Change
  BY <1>1, <1>3 DEF GrantsOf!Change, Edit, store
<1>6. MembershipsOf!Change
  BY <1>1, <1>3 DEF MembershipsOf!Change, Edit, store
<1> QED
  BY <1>4, <1>5, <1>6 DEF WorkspacesOf!Next, GrantsOf!Next, MembershipsOf!Next

LEMMA NothingHappens ==
    ASSUME UNCHANGED vars
    PROVE  /\ UNCHANGED WorkspacesOf!vars
           /\ UNCHANGED GrantsOf!vars
           /\ UNCHANGED MembershipsOf!vars
BY DEF vars, WorkspacesOf!vars, GrantsOf!vars, MembershipsOf!vars, Standing, Belonging

LEMMA SnapshotStep ==
    IInv /\ TypeOK' /\ Complete' /\ [Next]_vars =>
        /\ [WorkspacesOf!Next]_(WorkspacesOf!vars)
        /\ [GrantsOf!Next]_(GrantsOf!vars)
        /\ [MembershipsOf!Next]_(MembershipsOf!vars)
<1>1. ASSUME IInv, TypeOK', Complete', Next
      PROVE  WorkspacesOf!Next /\ GrantsOf!Next /\ MembershipsOf!Next
  BY <1>1, CopyStep, ChangeStep DEF Next
<1> QED
  BY <1>1, NothingHappens

\* Whatever the pages, the edits, the groups and workspaces that go and the
\* crashes: the workspaces, grants and memberships of a sync were there at some
\* moment of it, and those that were there all the time are in a sync that is
\* done (workspace.go, user_group.go under the SDK's syncer).
THEOREM SyncImplementsSnapshots == Spec => ImplementsSnapshots
<1>1. Init => WorkspacesOf!Init /\ GrantsOf!Init /\ MembershipsOf!Init
  <2> SUFFICES ASSUME Init PROVE WorkspacesOf!Init /\ GrantsOf!Init /\ MembershipsOf!Init
    OBVIOUS
  <2>1. there \in SUBSET Workspaces /\ (plan.phase = "done") = FALSE
    BY DEF Init
  <2>2. Standing \in SUBSET Entitled /\ Belonging \in SUBSET (Groups \X Users)
    BY DEF Standing, Belonging
  <2> QED
    BY <2>1, <2>2 DEF Init, WorkspacesOf!Init, GrantsOf!Init, MembershipsOf!Init
<1>2. IInv => TypeOK
  BY DEF IInv
<1> QED
  BY <1>1, <1>2, SnapshotStep, TablesAreComplete, AlwaysIInv, PTL
  DEF Spec, ImplementsSnapshots, WorkspacesOf!Spec, GrantsOf!Spec, MembershipsOf!Spec

-----------------------------------------------------------------------------
(* What the store has refers to what it has. *)

\* A role, a group and a grant are of a workspace in the store, a membership
\* is of a group in the store; and a sync that no crash took back has the roles
\* of all the workspaces it has.
StoreIsClosed ==
    /\ roles \subseteq listed
    /\ \A g \in groups : TeamOf[g] \in listed
    /\ \A t \in grants : t[1] \in listed
    /\ \A m \in memberships : m[1] \in groups
    /\ crashes = 0 /\ plan.phase = "done" => listed \subseteq roles

\* What the calls to come are for is in the store too.
CallsClosed(p) ==
    /\ \A k \in TeamCalls, w \in Workspaces : <<k, w>> \in p.todo => w \in listed
    /\ \A g \in Groups : <<"members", g>> \in p.todo => g \in groups
    /\ ListWorkspaces \in p.todo => p.phase = "resources"

RolesToCome ==
    crashes = 0 => \A w \in listed :
        w \in roles \/ (plan.phase = "resources" /\ <<"roles", w>> \in plan.todo)

Closed == StoreIsClosed /\ CallsClosed(plan) /\ CallsClosed(saved) /\ RolesToCome

\* A call that was made leaves the calls of the plan fewer.
LEMMA FewerCalls ==
    ASSUME Closed, plan'.todo \subseteq plan.todo, plan'.phase = plan.phase,
           UNCHANGED <<saved, listed>>, groups \subseteq groups'
    PROVE  CallsClosed(plan)' /\ CallsClosed(saved)'
BY DEF Closed, CallsClosed

LEMMA NextClosed == IInv /\ Closed /\ [Next]_vars => Closed'
<1> SUFFICES ASSUME IInv, Closed, [Next]_vars PROVE Closed'
  OBVIOUS
<1> USE DEF store, slack, world
<1>0. /\ plan \in Plans /\ listed \subseteq Workspaces /\ roles \subseteq Workspaces
      /\ groups \subseteq Groups /\ crashes \in Nat
  BY DEF IInv, TypeOK
<1>1. plan.phase = "done" => plan.todo = {}
  BY DEF IInv, PlansSound, Sound
<1>2. CASE WorkspacesPage
  <2>1. PICK last \in 1..W, page \in SUBSET there :
          /\ listed' = listed \cup page
          /\ plan'.phase = plan.phase
          /\ last = W => plan'.todo = (plan.todo \ {ListWorkspaces})
                                      \cup ({"roles", "groups"} \X page)
          /\ last # W => plan'.todo = plan.todo \cup ({"roles", "groups"} \X page)
    BY <1>2, PageOfWorkspaces DEF IInv
  <2>2. UNCHANGED <<saved, roles, groups, grants, memberships, crashes>>
    BY <1>2 DEF WorkspacesPage
  <2>3. plan.phase = "resources"
    BY <1>2 DEF WorkspacesPage, Closed, CallsClosed
  <2>4. StoreIsClosed'
    BY <2>1, <2>2, <2>3 DEF Closed, StoreIsClosed
  <2>5. CallsClosed(plan)' /\ CallsClosed(saved)'
    BY <2>1, <2>2, <2>3 DEF Closed, CallsClosed
  <2>6. RolesToCome'
    BY <2>1, <2>2, <2>3 DEF Closed, RolesToCome, ListWorkspaces
  <2> QED
    BY <2>4, <2>5, <2>6 DEF Closed
<1>3. ASSUME NEW w \in Workspaces, ListRoles(w) PROVE Closed'
  <2>1. /\ roles' = roles \cup {w} /\ <<"roles", w>> \in plan.todo
        /\ UNCHANGED <<saved, listed, groups, grants, memberships, crashes>>
        /\ plan'.phase = plan.phase /\ plan'.todo = plan.todo \ {<<"roles", w>>}
    BY <1>0, <1>3, MadeIsPlan DEF ListRoles
  <2>2. w \in listed
    BY <2>1 DEF Closed, CallsClosed, TeamCalls
  <2>3. StoreIsClosed' /\ RolesToCome'
    BY <2>1, <2>2 DEF Closed, StoreIsClosed, RolesToCome
  <2> QED
    BY <2>1, <2>3, FewerCalls DEF Closed
<1>4. ASSUME NEW w \in Workspaces, ListGroups(w) PROVE Closed'
  <2>1. /\ groups' = groups \cup {g \in enabled : TeamOf[g] = w} /\ <<"groups", w>> \in plan.todo
        /\ UNCHANGED <<saved, listed, roles, grants, memberships, crashes>>
        /\ plan'.phase = plan.phase /\ plan'.todo = plan.todo \ {<<"groups", w>>}
    BY <1>0, <1>4, MadeIsPlan DEF ListGroups
  <2>2. w \in listed
    BY <2>1 DEF Closed, CallsClosed, TeamCalls
  <2>3. StoreIsClosed' /\ RolesToCome'
    BY <2>1, <2>2 DEF Closed, StoreIsClosed, RolesToCome
  <2> QED
    BY <2>1, <2>3, FewerCalls DEF Closed
<1>5. ASSUME NEW w \in Workspaces, RoleEntitlements(w) PROVE Closed'
  <2>1. /\ UNCHANGED <<saved, listed, roles, groups, grants, memberships, crashes>>
        /\ plan'.phase = plan.phase /\ plan'.todo = plan.todo \ {<<"entitlements", w>>}
    BY <1>0, <1>5, MadeIsPlan DEF RoleEntitlements
  <2>2. StoreIsClosed' /\ RolesToCome'
    BY <2>1 DEF Closed, StoreIsClosed, RolesToCome
  <2> QED
    BY <2>1, <2>2, FewerCalls DEF Closed
<1>6. ASSUME NEW w \in Workspaces, UsersPage(w) PROVE Closed'
  <2>1. PICK last \in 1..U :
          /\ grants' = grants \cup UNION {{<<w, u, e>> : e \in Emitted(who[w][u])} :
                                 u \in {v \in Users : plan.at[w] < v /\ v <= last}}
          /\ plan' = AfterUsers(w, last)
    BY <1>6, PageOfUsers DEF IInv
  <2>2. /\ plan'.phase = plan.phase
        /\ plan'.todo = plan.todo \/ plan'.todo = plan.todo \ {<<"users", w>>}
    BY <1>0, <2>1, AfterUsersIsPlan
  <2>3. UNCHANGED <<saved, listed, roles, groups, memberships, crashes>>
    BY <1>6 DEF UsersPage
  <2>4. w \in listed
    BY <1>6 DEF UsersPage, Closed, CallsClosed, TeamCalls
  <2>5. \A t \in grants' : t \in grants \/ t[1] = w
    BY <2>1
  <2>6. StoreIsClosed' /\ RolesToCome'
    BY <2>2, <2>3, <2>4, <2>5 DEF Closed, StoreIsClosed, RolesToCome
  <2> QED
    BY <2>2, <2>3, <2>6, FewerCalls DEF Closed
<1>7. ASSUME NEW g \in Groups, MembersCall(g) PROVE Closed'
  <2>1. /\ UNCHANGED <<saved, listed, roles, groups, grants, crashes>>
        /\ plan'.phase = plan.phase /\ plan'.todo = plan.todo \ {<<"members", g>>}
    BY <1>0, <1>7, MadeIsPlan DEF MembersCall, GroupGone
  <2>2. g \in groups
    BY <1>7 DEF MembersCall, Closed, CallsClosed
  <2>3. \A m \in memberships' : m \in memberships \/ m[1] = g
    BY <1>7 DEF MembersCall
  <2>4. StoreIsClosed' /\ RolesToCome'
    BY <2>1, <2>2, <2>3 DEF Closed, StoreIsClosed, RolesToCome
  <2> QED
    BY <2>1, <2>4, FewerCalls DEF Closed
<1>8. CASE NextPhase
  <2>1. UNCHANGED <<saved, listed, roles, groups, grants, memberships, crashes>>
    BY <1>8 DEF NextPhase
  <2>2. plan.todo = {}
    BY <1>8 DEF NextPhase
  <2>3. \A w \in listed : crashes = 0 => w \in roles
    BY <2>2 DEF Closed, RolesToCome
  <2>4. CallsClosed(plan)'
    <3>1. roles \subseteq listed
      BY DEF Closed, StoreIsClosed
    <3>2. CASE plan'.todo = {"entitlements"} \X roles
      BY <2>1, <3>1, <3>2 DEF CallsClosed, ListWorkspaces
    <3>3. CASE plan'.todo = ({"users"} \X listed) \cup ({"members"} \X groups)
      BY <2>1, <3>3 DEF CallsClosed, ListWorkspaces, TeamCalls
    <3>4. CASE plan'.todo = {}
      BY <3>4 DEF CallsClosed
    <3> QED
      BY <1>8, <3>2, <3>3, <3>4, PhaseFollows DEF IInv
  <2>5. CallsClosed(saved)' /\ StoreIsClosed' /\ RolesToCome'
    BY <2>1, <2>3 DEF Closed, StoreIsClosed, CallsClosed, RolesToCome
  <2> QED
    BY <2>4, <2>5 DEF Closed
<1>9. CASE Checkpoint
  BY <1>9 DEF Checkpoint, Closed, StoreIsClosed, CallsClosed, RolesToCome
<1>10. CASE Crash
  BY <1>0, <1>10 DEF Crash, Closed, StoreIsClosed, CallsClosed, RolesToCome
<1>11. CASE UNCHANGED <<plan, saved, names, listed, roles, groups, grants, memberships, crashes>>
  BY <1>11 DEF Closed, StoreIsClosed, CallsClosed, RolesToCome
<1> QED
  BY <1>2, <1>3, <1>4, <1>5, <1>6, <1>7, <1>8, <1>9, <1>10, <1>11, EditKeeps
  DEF Next, SyncStep, vars

\* Everything in the store has what it belongs to in the store, whatever goes
\* and comes in Slack meanwhile; that a workspace comes with its roles needs a
\* sync no crash took back (List of workspace.go, roles.go and user_group.go).
THEOREM StoreIsAlwaysClosed == Spec => []StoreIsClosed
<1>1. Init => Closed
  BY DEF Init, Closed, StoreIsClosed, CallsClosed, RolesToCome, ListWorkspaces, TeamCalls
<1>2. Closed => StoreIsClosed
  BY DEF Closed
<1> QED
  BY <1>1, <1>2, NextClosed, AlwaysIInv, PTL DEF Spec
-----------------------------------------------------------------------------
(* How the sync comes to its end. *)

\* The call k needs nothing that is not there: its workspace is authorized,
\* the name it looks up is in the session store, its cursor has a page.
CanBeMade(k) ==
    /\ k[1] \in {"groups", "users"} => k[2] \in there
    /\ k[1] = "members" => TeamOf[k[2]] \in there
    /\ k[1] = "entitlements" => k[2] \in names
    /\ k[1] = "workspaces" => Lasts(plan.cursor, W) # {}
    /\ k[1] = "users" => Lasts(plan.at[k[2]], U) # {}

\* As long as the listed workspaces are there, no call of the plan is stuck.
NoCallIsStuck == listed \subseteq there => \A k \in plan.todo : CanBeMade(k)

Turn(phase) ==
    CASE phase = "resources" -> 0
      [] phase = "entitlements" -> 1
      [] phase = "grants" -> 2
      [] phase = "done" -> 3

\* In the same phase with the pages of workspaces, the plan q is further on
\* than p...
PagesFurther(p, q) ==
    /\ ListWorkspaces \in p.todo
    /\ ListWorkspaces \in q.todo => p.cursor < q.cursor

\* ... or, being as far with them, with the other calls.
CallsFurther(p, q) ==
    /\ p.cursor = q.cursor
    /\ q.todo \subseteq p.todo
    /\ ListWorkspaces \in p.todo => ListWorkspaces \in q.todo
    /\ \A w \in Workspaces : p.at[w] <= q.at[w]
    /\ p.todo # q.todo \/ p.at # q.at

\* The plan q is nearer to the end than p.
Nearer(p, q) ==
    \/ Turn(p.phase) < Turn(q.phase)
    \/ /\ p.phase = q.phase
       /\ PagesFurther(p, q) \/ CallsFurther(p, q)

\* Every call takes the plan nearer to the end, and nothing takes it back but a
\* crash.
ComesNearer ==
    /\ SyncStep => Nearer(plan, plan')
    /\ ~SyncStep => plan' = plan \/ crashes' = crashes + 1

\* The cursors of a plan are short of the last entry.
Inside(p) == p.cursor < W /\ \A w \in Workspaces : p.at[w] < U

\* "Nearer" has no circles: with finitely many plans only a crash can make a
\* sync go on for ever.
LEMMA NearerIsAnOrder ==
    ASSUME NEW p \in Plans, NEW q \in Plans, NEW r \in Plans
    PROVE  /\ ~Nearer(p, p)
           /\ Nearer(p, q) /\ Nearer(q, r) => Nearer(p, r)
<1>1. \A s \in {p, q, r} :
        /\ Turn(s.phase) \in Nat /\ s.cursor \in Nat
        /\ \A w \in Workspaces : s.at[w] \in Nat
  BY DEF Plans, Turn
<1>2. ~Nearer(p, p)
  BY <1>1 DEF Nearer, PagesFurther, CallsFurther
<1>3. ASSUME Nearer(p, q), Nearer(q, r) PROVE Nearer(p, r)
  <2>1. Turn(p.phase) <= Turn(q.phase) /\ Turn(q.phase) <= Turn(r.phase)
    BY <1>1, <1>3 DEF Nearer
  <2>2. CASE Turn(p.phase) < Turn(q.phase) \/ Turn(q.phase) < Turn(r.phase)
    BY <1>1, <2>1, <2>2 DEF Nearer
  <2>3. CASE ~(Turn(p.phase) < Turn(q.phase) \/ Turn(q.phase) < Turn(r.phase))
    <3>1. /\ p.phase = q.phase /\ q.phase = r.phase
          /\ PagesFurther(p, q) \/ CallsFurther(p, q)
          /\ PagesFurther(q, r) \/ CallsFurther(q, r)
      BY <1>3, <2>3 DEF Nearer
    <3>2. CASE PagesFurther(p, q) \/ PagesFurther(q, r)
      <4>1. PagesFurther(p, r)
        BY <1>1, <3>1, <3>2 DEF PagesFurther, CallsFurther
      <4> QED
        BY <3>1, <4>1 DEF Nearer
    <3>3. CASE CallsFurther(p, q) /\ CallsFurther(q, r)
      <4>1. \A w \in Workspaces : p.at[w] <= q.at[w] /\ q.at[w] <= r.at[w]
        BY <3>3 DEF CallsFurther
      <4>2. \A w \in Workspaces : p.at[w] <= r.at[w]
        BY <1>1, <4>1
      <4>3. p.at = r.at => p.at = q.at
        <5>1. SUFFICES ASSUME p.at = r.at PROVE p.at = q.at
          OBVIOUS
        <5>2. \A w \in Workspaces : p.at[w] = q.at[w]
          BY <1>1, <4>1, <5>1
        <5>3. p.at \in [Workspaces -> 0..U] /\ q.at \in [Workspaces -> 0..U]
          BY DEF Plans
        <5> QED
          BY <5>2, <5>3
      <4>4. CallsFurther(p, r)
        BY <3>3, <4>2, <4>3 DEF CallsFurther
      <4> QED
        BY <3>1, <4>4 DEF Nearer
    <3> QED
      BY <3>1, <3>2, <3>3
  <2> QED
    BY <2>2, <2>3
<1> QED
  BY <1>2, <1>3

LEMMA MadeIsNearer ==
    ASSUME plan \in Plans, NEW k \in plan.todo, k # ListWorkspaces
    PROVE  Nearer(plan, Made(k))
<1>1. \A w \in Workspaces : plan.at[w] <= plan.at[w]
  BY DEF Plans
<1>2. CallsFurther(plan, Made(k))
  BY <1>1, MadeIsPlan DEF CallsFurther
<1> QED
  BY <1>2, MadeIsPlan DEF Nearer

LEMMA CallsComeNearer == TypeOK /\ SyncStep => Nearer(plan, plan')
<1> SUFFICES ASSUME TypeOK, SyncStep PROVE Nearer(plan, plan')
  OBVIOUS
<1>0. plan \in Plans
  BY DEF TypeOK
<1>1. CASE WorkspacesPage
  <2>1. PICK last \in 1..W, page \in SUBSET there :
          /\ plan.cursor < last
          /\ plan'.phase = plan.phase
          /\ plan'.cursor = NextCursor(last, W)
          /\ last = W => plan'.todo = (plan.todo \ {ListWorkspaces})
                                      \cup ({"roles", "groups"} \X page)
    BY <1>1, PageOfWorkspaces
  <2>2. ListWorkspaces \in plan'.todo => last # W
    BY <2>1 DEF ListWorkspaces
  <2>3. PagesFurther(plan, plan')
    BY <1>1, <2>1, <2>2 DEF PagesFurther, WorkspacesPage, NextCursor
  <2> QED
    BY <2>1, <2>3 DEF Nearer
<1>2. ASSUME NEW w \in Workspaces, ListRoles(w) \/ ListGroups(w) \/ RoleEntitlements(w)
      PROVE  Nearer(plan, plan')
  BY <1>0, <1>2, MadeIsNearer DEF ListRoles, ListGroups, RoleEntitlements, ListWorkspaces
<1>3. ASSUME NEW w \in Workspaces, UsersPage(w) PROVE Nearer(plan, plan')
  <2>1. PICK last \in 1..U : plan.at[w] < last /\ plan' = AfterUsers(w, last)
    BY <1>3, PageOfUsers
  <2>2. CASE last = U
    BY <1>0, <1>3, <2>1, <2>2, MadeIsNearer DEF AfterUsers, UsersPage, ListWorkspaces
  <2>3. CASE last # U
    <3>1. /\ plan'.phase = plan.phase /\ plan'.todo = plan.todo
          /\ plan'.cursor = plan.cursor
          /\ plan'.at = [plan.at EXCEPT ![w] = last]
      BY <1>0, <2>1, <2>3, AfterUsersIsPlan
    <3>2. plan.at \in [Workspaces -> 0..U]
      BY <1>0 DEF Plans
    <3>3. CallsFurther(plan, plan')
      <4>1. \A v \in Workspaces : plan.at[v] <= plan'.at[v]
        BY <2>1, <3>1, <3>2
      <4>2. plan.at # plan'.at
        <5>1. plan'.at[w] = last
          BY <3>1, <3>2
        <5>2. plan.at[w] # last
          BY <2>1, <3>2
        <5> QED
          BY <5>1, <5>2
      <4> QED
        BY <3>1, <4>1, <4>2 DEF CallsFurther
    <3> QED
      BY <3>1, <3>3 DEF Nearer
  <2> QED
    BY <2>2, <2>3
<1>4. ASSUME NEW g \in Groups, MembersCall(g) PROVE Nearer(plan, plan')
  BY <1>0, <1>4, MadeIsNearer DEF MembersCall, GroupGone, ListWorkspaces
<1>5. CASE NextPhase
  BY <1>5, PhaseFollows DEF Nearer, Turn
<1> QED
  BY <1>1, <1>2, <1>3, <1>4, <1>5 DEF SyncStep

LEMMA NextComesNearer == TypeOK /\ [Next]_vars => [ComesNearer]_vars
<1> SUFFICES ASSUME TypeOK, Next PROVE ComesNearer
  OBVIOUS
<1>1. SyncStep => Nearer(plan, plan')
  BY CallsComeNearer
<1>2. ~SyncStep => plan' = plan \/ crashes' = crashes + 1
  <2>1. CASE Checkpoint
    BY <2>1 DEF Checkpoint
  <2>2. CASE Crash
    BY <2>2 DEF Crash
  <2>3. CASE UNCHANGED plan
    BY <2>3
  <2> QED
    BY <2>1, <2>2, <2>3, EditKeeps DEF Next
<1> QED
  BY <1>1, <1>2 DEF ComesNearer

LEMMA NextInside == TypeOK /\ Inside(plan) /\ Inside(saved) /\ [Next]_vars
                    => Inside(plan)' /\ Inside(saved)'
<1> SUFFICES ASSUME TypeOK, Inside(plan), Inside(saved), [Next]_vars
             PROVE  Inside(plan)' /\ Inside(saved)'
  OBVIOUS
<1>0. plan \in Plans /\ W \in Nat \ {0} /\ U \in Nat \ {0}
  BY DEF TypeOK
<1>1. CASE WorkspacesPage
  <2>1. PICK last \in 1..W : plan'.at = plan.at /\ plan'.cursor = NextCursor(last, W)
    BY <1>1, PageOfWorkspaces
  <2>2. saved' = saved
    BY <1>1 DEF WorkspacesPage
  <2> QED
    BY <2>1, <2>2 DEF Inside, NextCursor
<1>2. ASSUME NEW k, plan' = Made(k), saved' = saved PROVE Inside(plan)' /\ Inside(saved)'
  BY <1>0, <1>2, MadeIsPlan DEF Inside
<1>3. ASSUME NEW w \in Workspaces, UsersPage(w) PROVE Inside(plan)' /\ Inside(saved)'
  <2>1. PICK last \in 1..U : plan' = AfterUsers(w, last)
    BY <1>3, PageOfUsers
  <2>2. /\ plan'.cursor = plan.cursor
        /\ plan'.at = IF last = U THEN plan.at ELSE [plan.at EXCEPT ![w] = last]
    BY <1>0, <2>1, AfterUsersIsPlan
  <2>3. plan.at \in [Workspaces -> 0..U]
    BY <1>0 DEF Plans
  <2>4. \A v \in Workspaces : plan'.at[v] < U
    BY <2>2, <2>3 DEF Inside
  <2>5. saved' = saved
    BY <1>3 DEF UsersPage
  <2> QED
    BY <2>2, <2>4, <2>5 DEF Inside
<1>4. CASE NextPhase
  <2>1. plan'.cursor = plan.cursor /\ plan'.at = plan.at /\ saved' = saved
    BY <1>0, <1>4 DEF NextPhase, Plans
  <2> QED
    BY <2>1 DEF Inside
<1>5. CASE Checkpoint
  BY <1>5 DEF Checkpoint, Inside
<1>6. CASE Crash
  BY <1>6 DEF Crash, Inside
<1>7. CASE UNCHANGED <<plan, saved>>
  BY <1>7 DEF Inside
<1>8. ASSUME NEW w \in Workspaces, ListRoles(w) \/ ListGroups(w) \/ RoleEntitlements(w)
      PROVE  \E k : plan' = Made(k) /\ saved' = saved
  BY <1>8 DEF ListRoles, ListGroups, RoleEntitlements
<1>9. ASSUME NEW g \in Groups, MembersCall(g)
      PROVE  \E k : plan' = Made(k) /\ saved' = saved
  BY <1>9 DEF MembersCall, GroupGone
<1> QED
  BY <1>1, <1>2, <1>3, <1>4, <1>5, <1>6, <1>7, <1>8, <1>9, EditKeeps
  DEF Next, SyncStep, vars

\* The names of the workspaces stay to the end of the sync.
NamesStay == plan.phase # "done" => listed \subseteq names

LEMMA NextNamesStay == TypeOK /\ NamesStay /\ [Next]_vars => NamesStay'
<1> SUFFICES ASSUME TypeOK, NamesStay, [Next]_vars PROVE NamesStay'
  OBVIOUS
<1> USE DEF NamesStay, store, slack, world
<1>0. plan \in Plans
  BY DEF TypeOK
<1>1. CASE WorkspacesPage
  <2>1. PICK last \in 1..W, page \in SUBSET there :
          /\ names' = names \cup page
          /\ listed' = listed \cup page
          /\ plan'.phase = plan.phase
    BY <1>1, PageOfWorkspaces
  <2> QED
    BY <2>1
<1>2. ASSUME NEW w \in Workspaces,
             ListRoles(w) \/ ListGroups(w) \/ RoleEntitlements(w)
      PROVE  NamesStay'
  BY <1>0, <1>2, MadeIsPlan DEF ListRoles, ListGroups, RoleEntitlements
<1>3. ASSUME NEW w \in Workspaces, UsersPage(w) PROVE NamesStay'
  <2>1. PICK last \in 1..U : plan' = AfterUsers(w, last)
    BY <1>3, PageOfUsers
  <2>2. plan'.phase = plan.phase /\ UNCHANGED <<names, listed>>
    BY <1>0, <1>3, <2>1, AfterUsersIsPlan DEF UsersPage
  <2> QED
    BY <2>2
<1>4. ASSUME NEW g \in Groups, MembersCall(g) PROVE NamesStay'
  BY <1>0, <1>4, MadeIsPlan DEF MembersCall, GroupGone
<1>5. CASE NextPhase
  BY <1>5, PhaseFollows DEF NextPhase
<1>6. CASE Checkpoint
  BY <1>6 DEF Checkpoint
<1>7. CASE Crash
  BY <1>7 DEF Crash
<1>8. CASE UNCHANGED <<plan, names, listed>>
  BY <1>8
<1> QED
  BY <1>1, <1>2, <1>3, <1>4, <1>5, <1>6, <1>7, <1>8, EditKeeps
  DEF Next, SyncStep, vars

LEMMA CallsAreFree ==
    IInv /\ Closed /\ Inside(plan) /\ NamesStay => NoCallIsStuck
<1> SUFFICES ASSUME IInv, Closed, Inside(plan), NamesStay, listed \subseteq there,
                    NEW k \in plan.todo
             PROVE  CanBeMade(k)
  BY DEF NoCallIsStuck
<1>1. plan \in Plans
  BY DEF IInv, TypeOK
<1>2. plan.phase # "done"
  BY DEF IInv, PlansSound, Sound
<1>3. CASE k = ListWorkspaces
  <2>1. plan.cursor + 1 \in Lasts(plan.cursor, W)
    BY <1>1 DEF Plans, Inside, Lasts
  <2> QED
    BY <1>3, <2>1 DEF CanBeMade, ListWorkspaces
<1>4. ASSUME NEW c \in TeamCalls, NEW w \in Workspaces, k = <<c, w>> PROVE CanBeMade(k)
  <2>1. w \in listed
    BY <1>4 DEF Closed, CallsClosed
  <2>2. w \in there /\ w \in names
    BY <1>2, <2>1 DEF NamesStay
  <2>3. plan.at[w] + 1 \in Lasts(plan.at[w], U)
    BY <1>1, <1>4 DEF Plans, Inside, Lasts
  <2> QED
    BY <1>4, <2>2, <2>3 DEF CanBeMade, TeamCalls
<1>5. ASSUME NEW g \in Groups, k = <<"members", g>> PROVE CanBeMade(k)
  <2>1. TeamOf[g] \in listed
    BY <1>5 DEF Closed, CallsClosed, StoreIsClosed
  <2> QED
    BY <1>5, <2>1 DEF CanBeMade
<1> QED
  BY <1>1, <1>3, <1>4, <1>5 DEF Plans, Calls, ListWorkspaces

\* The safety half of "the sync ends": no call waits for what will not come, as
\* long as Slack keeps the listed workspaces, each call takes the plan nearer to
\* its end, in an order without circles, and only a crash takes it back
\* (nextPageToken of workspace.go:114, ParsePageToken of helpers.go:100).
THEOREM SyncGoesOn == Spec => []NoCallIsStuck /\ [][ComesNearer]_vars
<1>1. Init => Closed /\ Inside(plan) /\ Inside(saved) /\ NamesStay
  BY DEF Init, Closed, StoreIsClosed, CallsClosed, RolesToCome, ListWorkspaces, TeamCalls,
         Inside, NamesStay
<1>2. IInv => TypeOK
  BY DEF IInv
<1> QED
  BY <1>1, <1>2, NextClosed, NextInside, NextNamesStay, NextComesNearer, CallsAreFree,
     AlwaysIInv, PTL DEF Spec
=============================================================================
