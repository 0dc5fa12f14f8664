---------------------- MODULE EnterpriseRoleSyncProofs -----------------------
(***************************************************************************)
(* Proofs about EnterpriseRoleSync, for any number of assignments, any     *)
(* tables of roles, any page size and any number of edits and crashes.     *)
(*                                                                         *)
(* That nothing is missed speaks of the end of a sync; what carries it     *)
(* there is said of a plan in the middle of its pages (Sound), and of the  *)
(* saved plan as well as of the current one: after a crash the saved one   *)
(* is the plan, while the store keeps what later pages put there.  That no *)
(* grant is stored without its role (Rooted) makes the store a snapshot.   *)
(* An order of plans in which every call goes on (Nearer) says how the     *)
(* sync comes to its end.                                                  *)
(***************************************************************************)
EXTENDS EnterpriseRoleSync, TLAPS

USE EnterpriseRoleSyncAssumption

\* The assignments a sync has to tell of.
Told == {i \in steady : RoleAt[i] \in SystemRoles}

\* What the store holds for a plan: all that the pages before its cursors
\* had of the assignments there all the time.
Sound(p) ==
    /\ p.phase = "list" =>
        /\ p.found \subseteq roles
        /\ p.cursor # 0 => OrgRoles \subseteq roles
        /\ \A i \in Told : i <= p.cursor => RoleAt[i] \in roles
    /\ p.phase = "grants" =>
        /\ OrgRoles \subseteq roles
        /\ \A i \in Told : RoleAt[i] \in roles
        /\ \A i \in Told :
            i \in grants \/ (RoleAt[i] \in p.todo /\ p.at[RoleAt[i]] < i)

PlansSound == Sound(plan) /\ Sound(saved)

\* How often a role was put when no crash has made a page come twice.
Counted ==
    crashes = 0 => \A r \in Roles :
        /\ times[r] <= 1
        /\ plan.phase = "list" =>
            /\ r \in SystemRoles \ plan.found => times[r] = 0
            /\ r \in OrgRoles /\ plan.cursor = 0 => times[r] = 0

-----------------------------------------------------------------------------
\* Every id the sync meets is one of Roles.
LEMMA RolesOfAssignments == \A i \in 1..N : RoleAt[i] \in Roles
  BY DEF Roles

LEMMA InitTypes == Init => TypeOK
  BY DEF Init, TypeOK, Plans, FirstCursors, Roles

LEMMA NextTypes == TypeOK /\ [Next]_vars => TypeOK'
<1> SUFFICES ASSUME TypeOK, [Next]_vars PROVE TypeOK'
  OBVIOUS
<1> USE DEF TypeOK
<1>1. CASE ListPage
  <2>1. PICK last \in Lasts(plan.cursor) :
          LET rows == Page(plan.cursor, last)
              emitted == NewRoles(rows) \cup (IF plan.cursor = 0 THEN OrgRoles ELSE {})
          IN /\ roles' = roles \cup emitted
             /\ times' = [r \in Roles |-> times[r] + IF r \in emitted THEN 1 ELSE 0]
             /\ plan' = IF NextCursor(last) # 0
                        THEN [plan EXCEPT !.cursor = last,
                                          !.found = @ \cup NewRoles(rows)]
                        ELSE [phase |-> "grants", cursor |-> 0, found |-> {},
                              todo |-> roles', at |-> FirstCursors]
    BY <1>1 DEF ListPage
  <2>2. NewRoles(Page(plan.cursor, last)) \subseteq SystemRoles
    BY DEF NewRoles
  <2>3. SystemRoles \cup OrgRoles \subseteq Roles
    BY DEF Roles
  <2>4. roles' \subseteq SystemRoles \cup OrgRoles
    BY <2>1, <2>2
  <2>5. plan' \in Plans
    <3>1. last \in 0..N
      BY DEF Lasts
    <3>2. FirstCursors \in [Roles -> 0..N]
      BY DEF FirstCursors
    <3>3. plan \in [phase : {"list", "grants"}, cursor : 0..N,
                    found : SUBSET Roles, todo : SUBSET Roles,
                    at : [Roles -> 0..N]]
      BY DEF Plans
    <3>4. CASE NextCursor(last) # 0
      <4>1. plan' = [plan EXCEPT !.cursor = last,
                                 !.found = @ \cup NewRoles(Page(plan.cursor, last))]
        BY <2>1, <3>4
      <4>2. plan.found \cup NewRoles(Page(plan.cursor, last)) \in SUBSET Roles
        BY <2>2, <2>3, <3>3
      <4> QED
        BY <3>1, <3>3, <4>1, <4>2 DEF Plans
    <3>5. CASE NextCursor(last) = 0
      BY <2>1, <2>3, <2>4, <3>2, <3>5 DEF Plans
    <3> QED
      BY <3>4, <3>5
  <2>6. times' \in [Roles -> Nat]
    BY <2>1
  <2>7. UNCHANGED <<present, saved, grants, edits, crashes, steady>>
    BY <1>1 DEF ListPage
  <2> QED
    BY <2>4, <2>5, <2>6, <2>7
<1>2. CASE \E r \in Roles : OrgRoleGrants(r)
  <2>1. PICK r \in Roles : OrgRoleGrants(r)
    BY <1>2
  <2>2. plan' = [plan EXCEPT !.todo = @ \ {r}]
    BY <2>1 DEF OrgRoleGrants
  <2>3. plan' \in Plans
    BY <2>2 DEF Plans
  <2> QED
    BY <2>1, <2>3 DEF OrgRoleGrants
<1>3. CASE \E r \in Roles : GrantsPage(r)
  <2>1. PICK r \in Roles : GrantsPage(r)
    BY <1>3
  <2>2. PICK last \in Lasts(plan.at[r]) :
          /\ grants' = grants \cup {i \in Page(plan.at[r], last) : RoleAt[i] = r}
          /\ plan' = AfterPage(r, last)
    BY <2>1 DEF GrantsPage
  <2>3. grants' \subseteq 1..N
    BY <2>2 DEF Page
  <2>4. plan' \in Plans
    <3>1. last \in 0..N
      BY DEF Lasts
    <3>2. plan \in [phase : {"list", "grants"}, cursor : 0..N,
                    found : SUBSET Roles, todo : SUBSET Roles,
                    at : [Roles -> 0..N]]
      BY DEF Plans
    <3>3. CASE plan' = [plan EXCEPT !.at[r] = last]
      <4>1. [plan.at EXCEPT ![r] = last] \in [Roles -> 0..N]
        BY <3>1, <3>2
      <4> QED
        BY <3>2, <3>3, <4>1 DEF Plans
    <3>4. CASE plan' = [plan EXCEPT !.todo = @ \ {r}]
      BY <3>2, <3>4 DEF Plans
    <3> QED
      BY <2>2, <3>3, <3>4 DEF AfterPage
  <2> QED
    BY <2>1, <2>3, <2>4 DEF GrantsPage
<1>4. CASE Checkpoint
  BY <1>4 DEF Checkpoint
<1>5. CASE Crash
  BY <1>5 DEF Crash
<1>6. CASE \E i \in 1..N : Edit(i)
  BY <1>6 DEF Edit
<1>7. CASE UNCHANGED vars
  BY <1>7 DEF vars
<1> QED
  BY <1>1, <1>2, <1>3, <1>4, <1>5, <1>6, <1>7 DEF Next, SyncStep

\* All variables of the model keep their types.
THEOREM TypeCorrect == Spec => []TypeOK
  BY InitTypes, NextTypes, PTL DEF Spec

-----------------------------------------------------------------------------
\* A plan stays sound while the store grows and the steady assignments get
\* fewer.
LEMMA StillSound ==
    ASSUME NEW p, Sound(p), roles \subseteq roles', grants \subseteq grants',
           steady' \subseteq steady
    PROVE  Sound(p)'
  BY DEF Sound, Told

LEMMA InitSound == Init => PlansSound
  BY DEF Init, PlansSound, Sound, Told

LEMMA ListPageSound ==
    ASSUME TypeOK, PlansSound, ListPage PROVE Sound(plan)'
<1> USE DEF TypeOK
<1>1. PICK last \in Lasts(plan.cursor) :
        LET rows == Page(plan.cursor, last)
            emitted == NewRoles(rows) \cup (IF plan.cursor = 0 THEN OrgRoles ELSE {})
        IN /\ roles' = roles \cup emitted
           /\ plan' = IF NextCursor(last) # 0
                      THEN [plan EXCEPT !.cursor = last,
                                        !.found = @ \cup NewRoles(rows)]
                      ELSE [phase |-> "grants", cursor |-> 0, found |-> {},
                            todo |-> roles', at |-> FirstCursors]
  BY DEF ListPage
<1>2. plan.phase = "list" /\ steady' = steady /\ grants' = grants
  BY DEF ListPage
<1>3. plan \in Plans /\ plan.cursor \in 0..N
  BY DEF Plans
<1>4. last \in 1..N /\ plan.cursor < last
  BY DEF Lasts
<1>5. OrgRoles \subseteq roles'
  BY <1>1, <1>2 DEF PlansSound, Sound
<1>6. ASSUME NEW i \in Told, i <= last PROVE RoleAt[i] \in roles'
  <2>1. CASE i <= plan.cursor
    BY <1>1, <1>2, <2>1 DEF PlansSound, Sound
  <2>2. CASE plan.cursor < i
    <3>1. i \in Page(plan.cursor, last)
      BY <1>6, <2>2 DEF Page, Told
    <3>2. RoleAt[i] \in NewRoles(Page(plan.cursor, last)) \/ RoleAt[i] \in plan.found
      BY <3>1 DEF NewRoles, Told
    <3> QED
      BY <1>1, <1>2, <3>2 DEF PlansSound, Sound
  <2> QED
    BY <1>3, <2>1, <2>2 DEF Told
<1>7. CASE NextCursor(last) # 0
  <2>1. plan' = [plan EXCEPT !.cursor = last,
                             !.found = @ \cup NewRoles(Page(plan.cursor, last))]
    BY <1>1, <1>7
  <2>2. /\ plan'.phase = "list" /\ plan'.cursor = last
        /\ plan'.found = plan.found \cup NewRoles(Page(plan.cursor, last))
    BY <1>2, <1>3, <2>1 DEF Plans
  <2>3. plan'.found \subseteq roles'
    BY <1>1, <1>2, <2>2 DEF PlansSound, Sound
  <2>4. Told' = Told
    BY <1>2 DEF Told
  <2> QED
    BY <1>5, <1>6, <2>2, <2>3, <2>4 DEF Sound
<1>8. CASE NextCursor(last) = 0
  <2>1. plan' = [phase |-> "grants", cursor |-> 0, found |-> {},
                 todo |-> roles', at |-> FirstCursors]
    BY <1>1, <1>8
  <2>2. last = N
    BY <1>4, <1>8 DEF NextCursor
  <2>3. Told' = Told /\ \A i \in Told : i \in 1..N
    BY <1>2 DEF Told
  <2>4. \A i \in Told : RoleAt[i] \in roles'
    BY <1>6, <2>2, <2>3
  <2>5. \A i \in Told : FirstCursors[RoleAt[i]] < i
    BY <2>3, RolesOfAssignments DEF FirstCursors
  <2> QED
    BY <1>5, <2>1, <2>3, <2>4, <2>5 DEF Sound
<1> QED
  BY <1>7, <1>8

LEMMA GrantsPageSound ==
    ASSUME TypeOK, PlansSound, NEW r \in Roles, GrantsPage(r) PROVE Sound(plan)'
<1> USE DEF TypeOK
<1>1. PICK last \in Lasts(plan.at[r]) :
        /\ grants' = grants \cup {i \in Page(plan.at[r], last) : RoleAt[i] = r}
        /\ plan' = AfterPage(r, last)
  BY DEF GrantsPage
<1>2. /\ plan.phase = "grants" /\ r \in plan.todo
      /\ steady' = steady /\ roles' = roles /\ Told' = Told
  BY DEF GrantsPage, Told
<1>3. plan \in Plans /\ plan.at \in [Roles -> 0..N]
  BY DEF Plans
<1>4. last \in 1..N /\ plan.at[r] < last
  BY DEF Lasts
<1>5. plan'.phase = "grants"
  BY <1>1, <1>2, <1>3 DEF AfterPage, Plans
<1>6. ASSUME NEW i \in Told
      PROVE  i \in grants' \/ (RoleAt[i] \in plan'.todo /\ plan'.at[RoleAt[i]] < i)
  <2>1. i \in grants \/ (RoleAt[i] \in plan.todo /\ plan.at[RoleAt[i]] < i)
    BY <1>2 DEF PlansSound, Sound
  <2>2. i \in 1..N /\ i \in present
    BY DEF Told
  <2>3. CASE i \in grants
    BY <1>1, <2>3
  <2>4. CASE RoleAt[i] # r /\ RoleAt[i] \in plan.todo /\ plan.at[RoleAt[i]] < i
    BY <1>1, <1>3, <2>4 DEF AfterPage, Plans
  <2>5. CASE RoleAt[i] = r /\ plan.at[r] < i /\ i <= last
    BY <1>1, <2>2, <2>5 DEF Page
  <2>6. CASE RoleAt[i] = r /\ last < i
    <3>1. NextCursor(last) # 0
      BY <1>4, <2>2, <2>6 DEF NextCursor
    <3>2. plan' = [plan EXCEPT !.at[r] = last]
      BY <1>1, <3>1 DEF AfterPage
    <3> QED
      BY <1>2, <1>3, <2>6, <3>2 DEF Plans
  <2> QED
    BY <1>3, <1>4, <2>1, <2>2, <2>3, <2>4, <2>5, <2>6
<1> QED
  BY <1>2, <1>5, <1>6 DEF PlansSound, Sound

LEMMA NextSound == TypeOK /\ PlansSound /\ [Next]_vars => PlansSound'
<1> SUFFICES ASSUME TypeOK, PlansSound, [Next]_vars PROVE PlansSound'
  OBVIOUS
<1> USE DEF PlansSound
<1>1. CASE ListPage
  <2>1. saved' = saved /\ roles \subseteq roles' /\ grants' = grants /\ steady' = steady
    BY <1>1 DEF ListPage
  <2>2. Sound(saved)'
    BY <2>1, StillSound DEF Sound, Told
  <2> QED
    BY <1>1, <2>2, ListPageSound
<1>2. CASE \E r \in Roles : OrgRoleGrants(r)
  <2>1. PICK r \in Roles : OrgRoleGrants(r)
    BY <1>2
  <2>2. /\ plan.phase = "grants" /\ r \in OrgRoles
        /\ plan' = [plan EXCEPT !.todo = @ \ {r}]
        /\ UNCHANGED <<saved, roles, grants, steady>>
    BY <2>1 DEF OrgRoleGrants
  <2>3. Sound(saved)'
    BY <2>2 DEF Sound, Told
  <2>4. Sound(plan)'
    BY <2>2 DEF Sound, Told, TypeOK, Plans
  <2> QED
    BY <2>3, <2>4
<1>3. CASE \E r \in Roles : GrantsPage(r)
  <2>1. PICK r \in Roles : GrantsPage(r)
    BY <1>3
  <2>2. saved' = saved /\ roles' = roles /\ grants \subseteq grants' /\ steady' = steady
    BY <2>1 DEF GrantsPage
  <2>3. Sound(saved)'
    BY <2>2 DEF Sound, Told
  <2> QED
    BY <2>1, <2>3, GrantsPageSound
<1>4. CASE Checkpoint
  BY <1>4 DEF Checkpoint, Sound, Told
<1>5. CASE Crash
  BY <1>5 DEF Crash, Sound, Told
<1>6. CASE \E i \in 1..N : Edit(i)
  <2>1. UNCHANGED <<plan, saved, roles, grants>> /\ steady' \subseteq steady
    BY <1>6 DEF Edit
  <2> QED
    BY <2>1 DEF Sound, Told
<1>7. CASE UNCHANGED vars
  BY <1>7 DEF vars, Sound, Told
<1> QED
  BY <1>1, <1>2, <1>3, <1>4, <1>5, <1>6, <1>7 DEF Next, SyncStep

\* When the sync ends, the roles of the organization are in the store, and
\* every known role with an assignment that was there all the time, and the
\* grant of that assignment.
NothingMissed ==
    Done =>
        /\ OrgRoles \subseteq roles
        /\ \A i \in steady : RoleAt[i] \in SystemRoles =>
              RoleAt[i] \in roles /\ i \in grants

LEMMA SoundMissesNothing == TypeOK /\ PlansSound => NothingMissed
  BY DEF TypeOK, PlansSound, Sound, Told, NothingMissed, Done

\* A sync that ends has every known role, and every grant of one, that was
\* there all the time, whatever the pages, edits and crashes: List and Grants
\* of enterprise_roles.go under the checkpoints of the SDK's syncer.
THEOREM NothingIsMissed == Spec => []NothingMissed
  BY TypeCorrect, InitSound, NextSound, SoundMissesNothing, PTL DEF Spec

-----------------------------------------------------------------------------
LEMMA NextCounted == TypeOK /\ Counted /\ [Next]_vars => Counted'
<1> SUFFICES ASSUME TypeOK, Counted, [Next]_vars, crashes' = 0 PROVE Counted'
  BY DEF Counted
<1> USE DEF TypeOK, Counted
<1>1. CASE ListPage
  <2>1. PICK last \in Lasts(plan.cursor) :
          LET rows == Page(plan.cursor, last)
              emitted == NewRoles(rows) \cup (IF plan.cursor = 0 THEN OrgRoles ELSE {})
          IN /\ times' = [r \in Roles |-> times[r] + IF r \in emitted THEN 1 ELSE 0]
             /\ plan' = IF NextCursor(last) # 0
                        THEN [plan EXCEPT !.cursor = last,
                                          !.found = @ \cup NewRoles(rows)]
                        ELSE [phase |-> "grants", cursor |-> 0, found |-> {},
                              todo |-> roles', at |-> FirstCursors]
    BY <1>1 DEF ListPage
  <2> DEFINE new == NewRoles(Page(plan.cursor, last))
  <2>2. plan.phase = "list" /\ crashes = 0
    BY <1>1 DEF ListPage
  <2>3. new \subseteq SystemRoles \ plan.found
    BY DEF NewRoles
  <2>4. last # 0
    BY DEF Lasts
  <2>5. plan'.phase = "list" => plan'.cursor # 0 /\ plan'.found = plan.found \cup new
    BY <2>1, <2>4 DEF Plans
  <2>6. ASSUME NEW r \in Roles
        PROVE  /\ times'[r] <= 1
               /\ r \in SystemRoles \ (plan.found \cup new) => times'[r] = 0
    <3>1. times'[r] = times[r] + IF r \in new \/ (plan.cursor = 0 /\ r \in OrgRoles)
                                 THEN 1 ELSE 0
      BY <2>1
    <3>2. r \in new \/ (plan.cursor = 0 /\ r \in OrgRoles) => times[r] = 0
      BY <2>2, <2>3
    <3>3. times[r] \in Nat /\ times[r] <= 1
      BY <2>2
    <3> QED
      BY <2>2, <2>3, <3>1, <3>2, <3>3
  <2> QED
    BY <2>5, <2>6
<1>2. CASE \E r \in Roles : OrgRoleGrants(r)
  BY <1>2 DEF OrgRoleGrants, Plans
<1>3. CASE \E r \in Roles : GrantsPage(r)
  BY <1>3 DEF GrantsPage, AfterPage, Plans
<1>4. CASE Checkpoint
  BY <1>4 DEF Checkpoint
<1>5. CASE Crash
  BY <1>5 DEF Crash
<1>6. CASE \E i \in 1..N : Edit(i)
  BY <1>6 DEF Edit
<1>7. CASE UNCHANGED vars
  BY <1>7 DEF vars
<1> QED
  BY <1>1, <1>2, <1>3, <1>4, <1>5, <1>6, <1>7 DEF Next, SyncStep

\* Until a crash makes pages come again, no role is emitted twice: the found
\* map and the test for the first page (enterprise_roles.go:128, 149) see to it.
THEOREM RolesAreEmittedOnce == Spec => []EmittedOnce
<1>1. Init => Counted
  BY DEF Init, Counted
<1>2. Counted => EmittedOnce
  BY DEF Counted, EmittedOnce
<1> QED
  BY <1>1, <1>2, TypeCorrect, NextCounted, PTL DEF Spec

-----------------------------------------------------------------------------
(* A sync brings a snapshot. *)

\* The grants in the store are of known roles that are in the store, and so
\* are those the plans have yet to ask for.
TodoRooted(p) == p.phase = "grants" => p.todo \subseteq roles

Rooted ==
    /\ \A i \in grants : RoleAt[i] \in roles /\ RoleAt[i] \in SystemRoles
    /\ TodoRooted(plan) /\ TodoRooted(saved)

LEMMA NextRooted == TypeOK /\ Rooted /\ [Next]_vars => Rooted'
<1> SUFFICES ASSUME TypeOK, Rooted, [Next]_vars PROVE Rooted'
  OBVIOUS
<1> USE DEF Rooted, TodoRooted
<1>0. plan \in Plans
  BY DEF TypeOK
<1>1. CASE ListPage
  <2>1. /\ roles \subseteq roles' /\ UNCHANGED <<grants, saved>>
        /\ plan'.phase = "list" \/ plan'.todo = roles'
    <3>1. plan.phase = "list" /\ roles \subseteq roles' /\ UNCHANGED <<grants, saved>>
      BY <1>1 DEF ListPage
    <3>2. PICK last \in Lasts(plan.cursor) :
            plan' = IF NextCursor(last) # 0
                    THEN [plan EXCEPT !.cursor = last,
                                      !.found = @ \cup NewRoles(Page(plan.cursor, last))]
                    ELSE [phase |-> "grants", cursor |-> 0, found |-> {},
                          todo |-> roles', at |-> FirstCursors]
      BY <1>1 DEF ListPage
    <3>3. CASE NextCursor(last) # 0
      BY <1>0, <3>1, <3>2, <3>3 DEF Plans
    <3>4. CASE NextCursor(last) = 0
      BY <3>1, <3>2, <3>4
    <3> QED
      BY <3>3, <3>4
  <2> QED
    BY <2>1
<1>2. ASSUME NEW r \in Roles, OrgRoleGrants(r) PROVE Rooted'
  BY <1>0, <1>2 DEF OrgRoleGrants, Plans
<1>3. ASSUME NEW r \in Roles, GrantsPage(r) PROVE Rooted'
  <2>1. PICK last \in Lasts(plan.at[r]) :
          /\ grants' = grants \cup {i \in Page(plan.at[r], last) : RoleAt[i] = r}
          /\ plan' = AfterPage(r, last)
    BY <1>3 DEF GrantsPage
  <2>2. r \in roles /\ r \in SystemRoles
    BY <1>3 DEF GrantsPage, TypeOK
  <2>3. plan'.todo \subseteq plan.todo /\ plan'.phase = plan.phase
    BY <1>0, <2>1 DEF AfterPage, Plans
  <2>4. UNCHANGED <<roles, saved>>
    BY <1>3 DEF GrantsPage
  <2> QED
    BY <2>1, <2>2, <2>3, <2>4
<1>4. CASE Checkpoint
  BY <1>4 DEF Checkpoint
<1>5. CASE Crash
  BY <1>5 DEF Crash
<1>6. CASE \E i \in 1..N : Edit(i)
  BY <1>6 DEF Edit
<1>7. CASE UNCHANGED vars
  BY <1>7 DEF vars
<1> QED
  BY <1>1, <1>2, <1>3, <1>4, <1>5, <1>6, <1>7 DEF Next, SyncStep

\* All the state invariants the refinement needs.
IInv == TypeOK /\ PlansSound /\ Rooted

LEMMA AlwaysIInv == Spec => []IInv
<1>1. Init => IInv
  BY InitTypes, InitSound DEF Init, IInv, Rooted, TodoRooted
<1>2. IInv /\ [Next]_vars => IInv'
  BY NextTypes, NextSound, NextRooted DEF IInv
<1> QED
  BY <1>1, <1>2, PTL DEF Spec

\* What is a fact of some assignments, and what is in the store.
LEMMA WhatFacts ==
    ASSUME NEW S \in SUBSET (1..N), NEW x
    PROVE  x \in FactsOf(S) <=>
             \/ \E i \in S : RoleAt[i] \in SystemRoles /\ x = <<RoleAt[i], i>>
             \/ \E r \in OrgRoles : x = <<r, 0>>
BY DEF FactsOf

LEMMA WhatIsStored ==
    ASSUME Rooted, NEW x
    PROVE  x \in InStore <=>
             \/ \E i \in grants : x = <<RoleAt[i], i>>
             \/ \E r \in OrgRoles : r \in roles /\ x = <<r, 0>>
BY DEF InStore, Rooted

LEMMA FactsAreTyped ==
    ASSUME NEW S \in SUBSET (1..N)
    PROVE  FactsOf(S) \in SUBSET (Roles \X (0..N))
BY RolesOfAssignments DEF FactsOf, Roles

\* What has been there all the time is in the store of a sync that is done.
Complete == Done => FactsOf(steady) \subseteq InStore

LEMMA StoreIsComplete == IInv => Complete
<1> SUFFICES ASSUME IInv, Done PROVE FactsOf(steady) \subseteq InStore
  BY DEF Complete
<1>1. NothingMissed
  BY SoundMissesNothing DEF IInv
<1>2. steady \in SUBSET (1..N)
  BY DEF IInv, TypeOK
<1>3. ASSUME NEW x \in FactsOf(steady) PROVE x \in InStore
  <2>1. \/ \E i \in steady : RoleAt[i] \in SystemRoles /\ x = <<RoleAt[i], i>>
        \/ \E r \in OrgRoles : x = <<r, 0>>
    BY <1>2, <1>3, WhatFacts
  <2>2. \/ \E i \in grants : x = <<RoleAt[i], i>>
        \/ \E r \in OrgRoles : r \in roles /\ x = <<r, 0>>
    BY <1>1, <2>1 DEF NothingMissed
  <2> QED
    BY <2>2, WhatIsStored DEF IInv
<1> QED
  BY <1>3

\* A step of the sync that stores what is so copies; it may be the last.
LEMMA StoringStep ==
    ASSUME IInv, Rooted', Complete', ~Done, UNCHANGED <<present, steady>>,
           roles \subseteq roles', grants \subseteq grants',
           \A i \in grants' : i \in grants \/ i \in present
    PROVE  SnapshotOf!Copy
<1>1. InStore \subseteq InStore'
  BY DEF InStore
<1>2. ASSUME NEW x \in InStore' PROVE x \in InStore \/ x \in FactsOf(present)
  <2>1. \/ \E i \in grants' : x = <<RoleAt[i], i>> /\ RoleAt[i] \in SystemRoles
        \/ \E r \in OrgRoles : x = <<r, 0>>
    BY <1>2 DEF InStore, Rooted
  <2>2. present \in SUBSET (1..N)
    BY DEF IInv, TypeOK
  <2>3. CASE \E r \in OrgRoles : x = <<r, 0>>
    BY <2>2, <2>3, WhatFacts
  <2>4. ASSUME NEW i \in grants', x = <<RoleAt[i], i>>, RoleAt[i] \in SystemRoles
        PROVE  x \in InStore \/ x \in FactsOf(present)
    <3>1. CASE i \in grants
      BY <2>4, <3>1, WhatIsStored DEF IInv
    <3>2. CASE i \in present
      BY <2>2, <2>4, <3>2, WhatFacts
    <3> QED
      BY <3>1, <3>2
  <2> QED
    BY <2>1, <2>3, <2>4
<1>3. Done' => FactsOf(steady)' \subseteq InStore'
  BY DEF Complete
<1>4. FactsOf(steady)' = FactsOf(steady) /\ FactsOf(present)' = FactsOf(present)
  BY DEF FactsOf
<1>5. Done' \in BOOLEAN
  BY DEF Done
<1> QED
  BY <1>1, <1>2, <1>3, <1>4, <1>5 DEF SnapshotOf!Copy

\* An edit changes the facts, and what has been so all the time with them.
LEMMA EditChanges ==
    ASSUME IInv, NEW e \in 1..N, Edit(e)
    PROVE  SnapshotOf!Change
<1>1. /\ present' = IF e \in present THEN present \ {e} ELSE present \cup {e}
      /\ steady' = steady \ {e}
      /\ UNCHANGED <<plan, roles, grants>>
  BY DEF Edit
<1>2. /\ present \in SUBSET (1..N) /\ steady \in SUBSET (1..N) /\ steady \subseteq present
      /\ present' \in SUBSET (1..N) /\ steady' \in SUBSET (1..N)
  BY <1>1 DEF IInv, TypeOK
<1>3. \A i \in 1..N : i \in steady' <=> i \in steady /\ i \in present'
  BY <1>1, <1>2
<1>4. ASSUME NEW x
      PROVE  x \in FactsOf(steady') <=> x \in FactsOf(steady) /\ x \in FactsOf(present')
  <2>1. x \in FactsOf(steady') <=>
          \/ \E i \in steady' : RoleAt[i] \in SystemRoles /\ x = <<RoleAt[i], i>>
          \/ \E r \in OrgRoles : x = <<r, 0>>
    BY <1>2, WhatFacts
  <2>2. x \in FactsOf(steady) <=>
          \/ \E i \in steady : RoleAt[i] \in SystemRoles /\ x = <<RoleAt[i], i>>
          \/ \E r \in OrgRoles : x = <<r, 0>>
    BY <1>2, WhatFacts
  <2>3. x \in FactsOf(present') <=>
          \/ \E i \in present' : RoleAt[i] \in SystemRoles /\ x = <<RoleAt[i], i>>
          \/ \E r \in OrgRoles : x = <<r, 0>>
    BY <1>2, WhatFacts
  <2> QED
    BY <1>2, <1>3, <2>1, <2>2, <2>3
<1>5. FactsOf(present') \in SUBSET (Roles \X (0..N))
  BY <1>2, FactsAreTyped
<1>6. FactsOf(steady') = FactsOf(steady) \cap FactsOf(present')
  BY <1>4
<1>7. InStore' = InStore /\ Done' = Done
  BY <1>1 DEF InStore, Done
<1>8. FactsOf(present)' = FactsOf(present') /\ FactsOf(steady)' = FactsOf(steady')
  BY DEF FactsOf
<1> QED
  BY <1>5, <1>6, <1>7, <1>8 DEF SnapshotOf!Change

\* Every step of the sync, and of the world, is one of a snapshot, or none.
LEMMA SnapshotStep ==
    ASSUME IInv, Rooted', Complete', [Next]_vars
    PROVE  SnapshotOf!Next \/ UNCHANGED SnapshotOf!vars
<1>1. CASE ListPage
  <2>1. ~Done /\ UNCHANGED <<present, steady, grants>> /\ roles \subseteq roles'
    BY <1>1 DEF ListPage, Done
  <2> QED
    BY <2>1, StoringStep DEF SnapshotOf!Next
<1>2. ASSUME NEW r \in Roles, OrgRoleGrants(r) PROVE SnapshotOf!Next
  <2>1. ~Done /\ UNCHANGED <<present, steady, grants, roles>>
    BY <1>2 DEF OrgRoleGrants, Done
  <2> QED
    BY <2>1, StoringStep DEF SnapshotOf!Next
<1>3. ASSUME NEW r \in Roles, GrantsPage(r) PROVE SnapshotOf!Next
  <2>1. ~Done /\ UNCHANGED <<present, steady, roles>>
    BY <1>3 DEF GrantsPage, Done
  <2>2. grants \subseteq grants' /\ \A i \in grants' : i \in grants \/ i \in present
    BY <1>3 DEF GrantsPage, Page
  <2> QED
    BY <2>1, <2>2, StoringStep DEF SnapshotOf!Next
<1>4. CASE Checkpoint \/ UNCHANGED vars
  <2>1. UNCHANGED <<present, steady, plan, roles, grants>>
    BY <1>4 DEF Checkpoint, vars
  <2> QED
    BY <2>1 DEF SnapshotOf!vars, FactsOf, InStore, Done
<1>5. CASE Crash
  <2>1. UNCHANGED <<present, steady, roles, grants>>
    BY <1>5 DEF Crash
  <2>2. /\ FactsOf(present)' = FactsOf(present) /\ FactsOf(steady)' = FactsOf(steady)
        /\ InStore' = InStore
    BY <2>1 DEF FactsOf, InStore
  <2>3. CASE ~Done
    BY <2>1, <2>3, StoringStep DEF SnapshotOf!Next
  <2>4. CASE Done /\ ~Done'
    BY <2>2, <2>4 DEF SnapshotOf!Next, SnapshotOf!GoBack, Done
  <2>5. CASE Done /\ Done'
    BY <2>2, <2>5 DEF SnapshotOf!vars, Done
  <2> QED
    BY <2>3, <2>4, <2>5
<1>6. ASSUME NEW e \in 1..N, Edit(e) PROVE SnapshotOf!Next
  BY <1>6, EditChanges DEF SnapshotOf!Next
<1> QED
  BY <1>1, <1>2, <1>3, <1>4, <1>5, <1>6 DEF Next, SyncStep

\* Whatever the pages, the tables of roles, the edits and the crashes, C1 can
\* take the roles and grants of a sync for a snapshot: each grant was there at
\* some moment and comes with its role, and what was there all the time is
\* there when the sync ends (List and Grants of enterprise_roles.go).
THEOREM SyncImplementsSnapshot == Spec => ImplementsSnapshot
<1>1. Init => SnapshotOf!Init
  <2> SUFFICES ASSUME Init PROVE SnapshotOf!Init
    OBVIOUS
  <2>1. FactsOf(present) \in SUBSET (Roles \X (0..N)) /\ FactsOf(steady) = FactsOf(present)
    BY FactsAreTyped DEF Init
  <2>2. InStore = {} /\ Done = FALSE
    BY DEF Init, InStore, Done
  <2> QED
    BY <2>1, <2>2 DEF SnapshotOf!Init
<1>2. IInv /\ Rooted' /\ Complete' /\ [Next]_vars => [SnapshotOf!Next]_(SnapshotOf!vars)
  BY SnapshotStep
<1>3. IInv => Rooted
  BY DEF IInv
<1> QED
  BY <1>1, <1>2, <1>3, StoreIsComplete, AlwaysIInv, PTL DEF Spec, ImplementsSnapshot, SnapshotOf!Spec
-----------------------------------------------------------------------------
(* How the sync comes to its end. *)

\* Every call the plan has to make has a page to ask for.
NoCallIsStuck ==
    /\ plan.phase = "list" => Lasts(plan.cursor) # {}
    /\ plan.phase = "grants" =>
        \A r \in plan.todo \ OrgRoles : Lasts(plan.at[r]) # {}

\* The plan q is nearer to the end than p.
Nearer(p, q) ==
    \/ p.phase = "list" /\ q.phase = "grants"
    \/ p.phase = "list" /\ q.phase = "list" /\ p.cursor < q.cursor
    \/ /\ p.phase = "grants" /\ q.phase = "grants"
       /\ q.todo \subseteq p.todo
       /\ \A r \in Roles : p.at[r] <= q.at[r]
       /\ p.todo # q.todo \/ p.at # q.at

\* Every call takes the plan nearer to the end, and nothing takes it back but a
\* crash.
ComesNearer ==
    /\ SyncStep => Nearer(plan, plan')
    /\ ~SyncStep => plan' = plan \/ crashes' = crashes + 1

\* The cursors of a plan are short of the last assignment.
Inside(p) == p.cursor < N /\ \A r \in Roles : p.at[r] < N

\* "Nearer" has no circles: with finitely many plans only a crash can make a
\* sync go on for ever.
LEMMA NearerIsAnOrder ==
    ASSUME NEW p \in Plans, NEW q \in Plans, NEW s \in Plans
    PROVE  /\ ~Nearer(p, p)
           /\ Nearer(p, q) /\ Nearer(q, s) => Nearer(p, s)
<1>1. \A o \in {p, q, s} :
        /\ o.phase \in {"list", "grants"} /\ o.cursor \in Nat
        /\ o.at \in [Roles -> 0..N]
        /\ \A r \in Roles : o.at[r] \in Nat
  BY DEF Plans
<1>2. ~Nearer(p, p)
  BY <1>1 DEF Nearer
<1>3. ASSUME Nearer(p, q), Nearer(q, s) PROVE Nearer(p, s)
  <2>1. CASE p.phase = "list"
    BY <1>1, <1>3, <2>1 DEF Nearer
  <2>2. CASE p.phase = "grants"
    <3>1. /\ q.phase = "grants" /\ s.phase = "grants"
          /\ q.todo \subseteq p.todo /\ s.todo \subseteq q.todo
          /\ \A r \in Roles : p.at[r] <= q.at[r] /\ q.at[r] <= s.at[r]
          /\ p.todo # q.todo \/ p.at # q.at
      BY <1>3, <2>2 DEF Nearer
    <3>2. \A r \in Roles : p.at[r] <= s.at[r]
      BY <1>1, <3>1
    <3>3. ASSUME p.at = s.at PROVE p.at = q.at
      <4>1. \A r \in Roles : p.at[r] = q.at[r]
        BY <1>1, <3>1, <3>3
      <4> QED
        BY <1>1, <4>1
    <3> QED
      BY <2>2, <3>1, <3>2, <3>3 DEF Nearer
  <2> QED
    BY <1>1, <2>1, <2>2
<1> QED
  BY <1>2, <1>3

\* A call without the role r is nearer to the end.
LEMMA MadeIsNearer ==
    ASSUME plan \in Plans, plan.phase = "grants", NEW r \in plan.todo,
           plan' = [plan EXCEPT !.todo = @ \ {r}]
    PROVE  /\ Nearer(plan, plan')
           /\ plan'.cursor = plan.cursor /\ plan'.at = plan.at
<1>1. /\ plan'.phase = plan.phase /\ plan'.todo = plan.todo \ {r}
      /\ plan'.cursor = plan.cursor /\ plan'.at = plan.at
  BY DEF Plans
<1>2. \A k \in Roles : plan.at[k] <= plan.at[k]
  BY DEF Plans
<1> QED
  BY <1>1, <1>2 DEF Nearer

\* What a call does to the plan.
LEMMA CallsComeNearer ==
    ASSUME TypeOK, Inside(plan), SyncStep
    PROVE  Nearer(plan, plan') /\ Inside(plan)' /\ saved' = saved
<1>0. /\ plan \in [phase : {"list", "grants"}, cursor : 0..N, found : SUBSET Roles,
                   todo : SUBSET Roles, at : [Roles -> 0..N]]
      /\ plan \in Plans
      /\ N \in Nat \ {0}
  BY DEF TypeOK, Plans
<1>1. CASE ListPage
  <2>1. PICK last \in Lasts(plan.cursor) :
          plan' = IF NextCursor(last) # 0
                  THEN [plan EXCEPT !.cursor = last,
                                    !.found = @ \cup NewRoles(Page(plan.cursor, last))]
                  ELSE [phase |-> "grants", cursor |-> 0, found |-> {},
                        todo |-> roles', at |-> FirstCursors]
    BY <1>1 DEF ListPage
  <2>2. plan.phase = "list" /\ saved' = saved
    BY <1>1 DEF ListPage
  <2>3. last \in 1..N /\ plan.cursor < last
    BY DEF Lasts
  <2>4. CASE NextCursor(last) # 0
    <3>1. /\ plan'.phase = "list" /\ plan'.cursor = last /\ plan'.at = plan.at
          /\ last < N
      BY <1>0, <2>1, <2>2, <2>3, <2>4 DEF NextCursor
    <3> QED
      BY <2>2, <2>3, <3>1 DEF Nearer, Inside
  <2>5. CASE NextCursor(last) = 0
    <3>1. plan'.phase = "grants" /\ plan'.cursor = 0 /\ plan'.at = FirstCursors
      BY <2>1, <2>5
    <3> QED
      BY <1>0, <2>2, <3>1 DEF Nearer, Inside, FirstCursors
  <2> QED
    BY <2>4, <2>5
<1>2. ASSUME NEW r \in Roles, OrgRoleGrants(r)
      PROVE  Nearer(plan, plan') /\ Inside(plan)' /\ saved' = saved
  <2>1. /\ plan.phase = "grants" /\ r \in plan.todo /\ saved' = saved
        /\ plan' = [plan EXCEPT !.todo = @ \ {r}]
    BY <1>2 DEF OrgRoleGrants
  <2> QED
    BY <1>0, <2>1, MadeIsNearer DEF Inside
<1>3. ASSUME NEW r \in Roles, GrantsPage(r)
      PROVE  Nearer(plan, plan') /\ Inside(plan)' /\ saved' = saved
  <2>1. /\ plan.phase = "grants" /\ r \in plan.todo /\ saved' = saved
    BY <1>3 DEF GrantsPage
  <2>2. PICK last \in Lasts(plan.at[r]) : plan' = AfterPage(r, last)
    BY <1>3 DEF GrantsPage
  <2>3. last \in 1..N /\ plan.at[r] < last
    BY DEF Lasts
  <2>4. CASE NextCursor(last) = 0
    BY <1>0, <2>1, <2>2, <2>4, MadeIsNearer DEF AfterPage, Inside
  <2>5. CASE NextCursor(last) # 0
    <3>1. /\ plan'.phase = "grants" /\ plan'.todo = plan.todo /\ plan'.cursor = plan.cursor
          /\ plan'.at = [plan.at EXCEPT ![r] = last]
          /\ last < N
      BY <1>0, <2>1, <2>2, <2>3, <2>5 DEF AfterPage, NextCursor
    <3>2. plan.at \in [Roles -> 0..N]
      BY <1>0
    <3>3. \A k \in Roles : plan.at[k] <= plan'.at[k] /\ plan'.at[k] < N
      BY <2>3, <3>1, <3>2 DEF Inside
    <3>4. plan'.at[r] # plan.at[r]
      BY <2>3, <3>1, <3>2
    <3> QED
      BY <2>1, <3>1, <3>3, <3>4 DEF Nearer, Inside
  <2> QED
    BY <2>4, <2>5
<1> QED
  BY <1>1, <1>2, <1>3 DEF SyncStep

BothInside == Inside(plan) /\ Inside(saved)

LEMMA NextComesNearer ==
    TypeOK /\ BothInside /\ [Next]_vars => BothInside' /\ [ComesNearer]_vars
<1> SUFFICES ASSUME TypeOK, BothInside, [Next]_vars
             PROVE  BothInside' /\ (ComesNearer \/ UNCHANGED vars)
  OBVIOUS
<1>1. SyncStep => Nearer(plan, plan')
  BY CallsComeNearer DEF BothInside
<1>2. CASE SyncStep
  BY <1>1, <1>2, CallsComeNearer DEF BothInside, Inside, ComesNearer
<1>3. CASE Checkpoint
  BY <1>1, <1>3 DEF Checkpoint, BothInside, Inside, ComesNearer
<1>4. CASE Crash
  BY <1>1, <1>4 DEF Crash, BothInside, Inside, ComesNearer
<1>5. CASE \E i \in 1..N : Edit(i)
  BY <1>1, <1>5 DEF Edit, BothInside, Inside, ComesNearer
<1>6. CASE UNCHANGED vars
  BY <1>6 DEF vars, BothInside, Inside
<1> QED
  BY <1>2, <1>3, <1>4, <1>5, <1>6 DEF Next

LEMMA InsideIsFree == TypeOK /\ BothInside => NoCallIsStuck
<1> SUFFICES ASSUME TypeOK, BothInside PROVE NoCallIsStuck
  OBVIOUS
<1>1. /\ plan.cursor \in 0..N /\ plan.at \in [Roles -> 0..N] /\ plan.todo \subseteq Roles
  BY DEF TypeOK, Plans
<1>2. plan.cursor + 1 \in Lasts(plan.cursor)
  BY <1>1 DEF Lasts, BothInside, Inside
<1>3. \A r \in plan.todo : plan.at[r] + 1 \in Lasts(plan.at[r])
  BY <1>1 DEF Lasts, BothInside, Inside
<1> QED
  BY <1>2, <1>3 DEF NoCallIsStuck

\* The safety half of "the sync ends": every call of the plan has a page to ask
\* for, takes the plan nearer to its end, in an order without circles, and only
\* a crash takes it back (the page tokens of enterprise_roles.go:167, 240).
THEOREM SyncGoesOn == Spec => []NoCallIsStuck /\ [][ComesNearer]_vars
<1>1. Init => BothInside
  BY DEF Init, BothInside, Inside, FirstCursors
<1> QED
  BY <1>1, TypeCorrect, NextComesNearer, InsideIsFree, PTL DEF Spec
=============================================================================
