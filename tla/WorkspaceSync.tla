--------------------------- MODULE WorkspaceSync ----------------------------
(***************************************************************************)
(* One sync of the workspaces, of their roles, users and user groups: List *)
(* and Grants of src/pkg/connector/workspace.go, List and Entitlements of  *)
(* roles.go, List and Grants of user_group.go, under the SDK's syncer.     *)
(*                                                                         *)
(* A page of workspaces puts their names in the session store of the sync  *)
(* and gives the syncer the roles and the user groups of each of them to   *)
(* list.  Then it asks for the entitlements of all roles, which need the   *)
(* names, and then for the grants: page by page of the users of a          *)
(* workspace, whose roles come with them, and the members of a user group. *)
(* It saves its plan from time to time and goes on from there after a      *)
(* crash; what it stored, and the names, outlive the process.  Slack's     *)
(* workspaces, users and groups change meanwhile.                          *)
(***************************************************************************)
EXTENDS Naturals

CONSTANTS
    W,             \* the workspaces there may be, in Slack's order: 1 .. W
    U,             \* the users a workspace may have, in Slack's order: 1 .. U
    Groups,        \* the user groups there may be
    TeamOf,        \* the workspace of each group
    InitialTeams,  \* which workspaces there may be at the start,
    InitialUsers,  \* what the users of one of them may be then,
    InitialMembers,\* who may be in a group
    PageSize,      \* what Slack goes through for a page, at most
    MaxEdits,      \* bound: changes in Slack
    MaxCrashes     \* bound: crashes

Workspaces == 1..W
Users == 1..U
UserStates == {"absent", "stranger", "guest", "member"}
Entitled == Workspaces \X Users \X {"workspace", "guest", "member"}

ASSUME WorkspaceSyncAssumption ==
    /\ W \in Nat \ {0}
    /\ U \in Nat \ {0}
    /\ TeamOf \in [Groups -> Workspaces]
    /\ InitialTeams \subseteq SUBSET Workspaces
    /\ InitialUsers \subseteq [Users -> UserStates]
    /\ InitialMembers \subseteq SUBSET Users
    /\ PageSize \in Nat \ {0}
    /\ MaxEdits \in Nat
    /\ MaxCrashes \in Nat

VARIABLES
    there,      \* Slack: the workspaces the app is authorized for
    who,        \* Slack: workspace -> user -> what it is there
    members,    \* Slack: group -> its members
    enabled,    \* Slack: the groups that are not disabled
    plan,       \* the syncer: its phase, the calls it has to make, the cursor
                \* of the workspaces and those of the users of each of them
    saved,      \* the plan in the last checkpoint
    names,      \* the session store: workspaces whose name is there
    listed,     \* the store: workspaces
    roles,      \* the store: workspaces whose roles are there
    groups,     \* the store: groups
    grants,     \* the store: <<workspace, user, entitlement>>
    memberships,\* the store: <<group, user>>
    edits,      \* changes in Slack so far
    crashes,    \* crashes so far
    kept,       \* history: the workspaces there since the sync began
    steady,     \* history: <<workspace, user, entitlement>> that held since then
    loyal       \* history: <<group, user>>, a member of an enabled group since then

slack == <<there, who, members, enabled>>
store == <<names, listed, roles, groups, grants, memberships>>
world == <<edits, crashes, kept, steady, loyal>>
vars == <<there, who, members, enabled, plan, saved, names, listed, roles, groups,
          grants, memberships, edits, crashes, kept, steady, loyal>>

\* A call: of List for the workspaces, or for the roles or the groups of one
\* workspace; of Entitlements for its roles; of Grants for its users; of
\* Grants for a group.
TeamCalls == {"roles", "groups", "entitlements", "users"}
Calls == ({"workspaces"} \X {0}) \cup (TeamCalls \X Workspaces) \cup ({"members"} \X Groups)
ListWorkspaces == <<"workspaces", 0>>

\* Cursor 0 is the empty one, of the first page and after the last one.
Plans == [phase : {"resources", "entitlements", "grants", "done"},
          todo : SUBSET Calls, cursor : 0..W, at : [Workspaces -> 0..U]]

\* What there is to tell of the users now: who is in a workspace, and is a
\* guest or a member there...
Standing ==
    {t \in Entitled :
        /\ t[1] \in there
        /\ who[t[1]][t[2]] \in {"guest", "member"}
        /\ t[3] \in {"workspace", who[t[1]][t[2]]}}

\* ... and who is in a group that is not disabled.
Belonging ==
    {p \in Groups \X Users :
        TeamOf[p[1]] \in there /\ p[1] \in enabled /\ p[2] \in members[p[1]]}

-----------------------------------------------------------------------------
Init ==
    /\ there \in InitialTeams
    /\ who \in [Workspaces -> InitialUsers]
    /\ members \in [Groups -> InitialMembers]
    /\ enabled = Groups
    /\ plan = [phase |-> "resources", todo |-> {ListWorkspaces}, cursor |-> 0,
               at |-> [w \in Workspaces |-> 0]]
    /\ saved = plan
    /\ names = {}
    /\ listed = {}
    /\ roles = {}
    /\ groups = {}
    /\ grants = {}
    /\ memberships = {}
    /\ edits = 0
    /\ crashes = 0
    /\ kept = there
    /\ steady = Standing
    /\ loyal = Belonging

\* Slack goes on after the cursor c up to some "last" of n, and gives the
\* cursor of the next page.  A page may be short, or empty.
Lasts(c, n) == {i \in 1..n : c < i /\ i <= c + PageSize}
NextCursor(last, n) == IF last = n THEN 0 ELSE last

\* The plan without the call k.
Made(k) == [plan EXCEPT !.todo = @ \ {k}]

-----------------------------------------------------------------------------
(* Resources. *)

\* Bug: the names are put with the last page only.
NewNames_LastPage(page, last) == IF last = W THEN page ELSE {}

\* The names put in the session store with a page: all of them.
NewNames(page, last) == page

\* A page of workspaces: their names, then the resources, and the calls for
\* what is below them.
WorkspacesPage ==
    /\ ListWorkspaces \in plan.todo
    /\ \E last \in Lasts(plan.cursor, W) :
        LET page == {w \in there : plan.cursor < w /\ w <= last}
        IN /\ names' = names \cup NewNames(page, last)
           /\ listed' = listed \cup page
           /\ plan' = [plan EXCEPT
                  !.cursor = NextCursor(last, W),
                  !.todo = (IF last = W THEN @ \ {ListWorkspaces} ELSE @)
                           \cup ({"roles", "groups"} \X page)]
    /\ UNCHANGED <<slack, saved, roles, groups, grants, memberships, world>>

\* The roles of a workspace are a table of the connector.
ListRoles(w) ==
    /\ <<"roles", w>> \in plan.todo
    /\ roles' = roles \cup {w}
    /\ plan' = Made(<<"roles", w>>)
    /\ UNCHANGED <<slack, saved, names, listed, groups, grants, memberships, world>>

\* The groups of a workspace, without the disabled ones.  A workspace that is
\* gone is an error that is neither a warning nor worth another try: the call
\* is not made, and the sync comes no further.
ListGroups(w) ==
    /\ <<"groups", w>> \in plan.todo
    /\ w \in there
    /\ groups' = groups \cup {g \in enabled : TeamOf[g] = w}
    /\ plan' = Made(<<"groups", w>>)
    /\ UNCHANGED <<slack, saved, names, listed, roles, grants, memberships, world>>

-----------------------------------------------------------------------------
(* Entitlements and grants. *)

\* The entitlement of a role of a workspace whose name is in the session
\* store; without the name it is an error, and the sync comes no further.
RoleEntitlements(w) ==
    /\ <<"entitlements", w>> \in plan.todo
    /\ w \in names
    /\ plan' = Made(<<"entitlements", w>>)
    /\ UNCHANGED <<slack, saved, store, world>>

\* Bugs: strangers are not passed over; the member role goes to guests too.
Emitted_Strangers(s) == IF s = "absent" THEN {} ELSE {"workspace", s}
Emitted_Guests(s) ==
    CASE s \in {"absent", "stranger"} -> {}
      [] s = "guest" -> {"workspace", "guest", "member"}
      [] s = "member" -> {"workspace", "member"}

\* What a user of the workspace is granted: a stranger nothing, everybody
\* else the workspace and the role of a guest or of a member.
Emitted(s) == IF s \in {"guest", "member"} THEN {"workspace", s} ELSE {}

\* Bug: the token of the next page is that of this page.
AfterUsers_SameCursor(w, last) == IF last # U THEN plan ELSE Made(<<"users", w>>)

\* The plan after a page of the users of w that ends at "last".
AfterUsers(w, last) ==
    IF last # U THEN [plan EXCEPT !.at[w] = last] ELSE Made(<<"users", w>>)

\* A page of the users of a workspace: the grants of each of them.
UsersPage(w) ==
    /\ <<"users", w>> \in plan.todo
    /\ w \in there
    /\ \E last \in Lasts(plan.at[w], U) :
        LET page == {u \in Users : plan.at[w] < u /\ u <= last}
        IN /\ grants' = grants \cup
                  UNION {{<<w, u, e>> : e \in Emitted(who[w][u])} : u \in page}
           /\ plan' = AfterUsers(w, last)
    /\ UNCHANGED <<slack, saved, names, listed, roles, groups, memberships, world>>

\* Bug: one group that is gone ends the grants phase.
GroupGone_EndsAll(g) == [plan EXCEPT !.todo = {}]

\* The plan after the call for a group that is gone: NotFound is a warning,
\* and the syncer goes on without the grants of that group.
GroupGone(g) == Made(<<"members", g>>)

\* The members of a group, or the answer that there is no such group.
MembersCall(g) ==
    /\ <<"members", g>> \in plan.todo
    /\ TeamOf[g] \in there
    /\ IF g \in enabled
       THEN /\ memberships' = memberships \cup ({g} \X members[g])
            /\ plan' = Made(<<"members", g>>)
       ELSE /\ UNCHANGED memberships
            /\ plan' = GroupGone(g)
    /\ UNCHANGED <<slack, saved, names, listed, roles, groups, grants, world>>

-----------------------------------------------------------------------------
(* The syncer. *)

\* When the calls of a phase are made the next one is planned from the store.
NextPhase ==
    /\ plan.todo = {}
    /\ \/ /\ plan.phase = "resources"
          /\ plan' = [plan EXCEPT !.phase = "entitlements",
                                  !.todo = {"entitlements"} \X roles]
          /\ UNCHANGED names
       \/ /\ plan.phase = "entitlements"
          /\ plan' = [plan EXCEPT !.phase = "grants",
                                  !.todo = ({"users"} \X listed) \cup ({"members"} \X groups)]
          /\ UNCHANGED names
       \* The sync is sealed, its session store cleared.
       \/ /\ plan.phase = "grants"
          /\ plan' = [plan EXCEPT !.phase = "done"]
          /\ names' = {}
    /\ UNCHANGED <<slack, saved, listed, roles, groups, grants, memberships, world>>

\* The syncer saves its plan, once in a while...
Checkpoint ==
    /\ plan.phase # "done"
    /\ saved # plan
    /\ saved' = plan
    /\ UNCHANGED <<slack, plan, store, world>>

\* ... and goes on from there when the process has died.
Crash ==
    /\ plan.phase # "done"
    /\ crashes < MaxCrashes
    /\ crashes' = crashes + 1
    /\ plan' = saved
    /\ UNCHANGED <<slack, saved, store, edits, kept, steady, loyal>>

-----------------------------------------------------------------------------
(* Slack, as people change it. *)

Edit ==
    /\ edits < MaxEdits
    /\ edits' = edits + 1
    /\ kept' = kept \cap there'
    /\ steady' = steady \cap Standing'
    /\ loyal' = loyal \cap Belonging'
    /\ UNCHANGED <<plan, saved, store, crashes>>

EditUser(w, u) ==
    /\ \E s \in UserStates \ {who[w][u]} : who' = [who EXCEPT ![w][u] = s]
    /\ UNCHANGED <<there, members, enabled>>
    /\ Edit

EditMembers(g, u) ==
    /\ members' = [members EXCEPT ![g] = IF u \in @ THEN @ \ {u} ELSE @ \cup {u}]
    /\ UNCHANGED <<there, who, enabled>>
    /\ Edit

ToggleGroup(g) ==
    /\ enabled' = IF g \in enabled THEN enabled \ {g} ELSE enabled \cup {g}
    /\ UNCHANGED <<there, who, members>>
    /\ Edit

ToggleWorkspace(w) ==
    /\ there' = IF w \in there THEN there \ {w} ELSE there \cup {w}
    /\ UNCHANGED <<who, members, enabled>>
    /\ Edit

-----------------------------------------------------------------------------
SyncStep ==
    \/ WorkspacesPage
    \/ \E w \in Workspaces : ListRoles(w) \/ ListGroups(w) \/ RoleEntitlements(w) \/ UsersPage(w)
    \/ \E g \in Groups : MembersCall(g)
    \/ NextPhase

Next ==
    \/ SyncStep
    \/ Checkpoint
    \/ Crash
    \/ \E w \in Workspaces, u \in Users : EditUser(w, u)
    \/ \E g \in Groups, u \in Users : EditMembers(g, u)
    \/ \E g \in Groups : ToggleGroup(g)
    \/ \E w \in Workspaces : ToggleWorkspace(w)

Spec == Init /\ [][Next]_vars

\* The syncer makes a call again that failed for the moment, without end, and
\* asks for the next page as long as there is one.
FairSpec == Spec /\ WF_vars(SyncStep)

-----------------------------------------------------------------------------
\* The type invariant.
TypeOK ==
    /\ there \subseteq Workspaces
    /\ who \in [Workspaces -> [Users -> UserStates]]
    /\ members \in [Groups -> SUBSET Users]
    /\ enabled \subseteq Groups
    /\ plan \in Plans
    /\ saved \in Plans
    /\ names \subseteq Workspaces
    /\ listed \subseteq Workspaces
    /\ roles \subseteq Workspaces
    /\ groups \subseteq Groups
    /\ grants \subseteq Entitled
    /\ memberships \subseteq Groups \X Users
    /\ edits \in 0..MaxEdits
    /\ crashes \in 0..MaxCrashes
    /\ kept \subseteq there
    /\ steady \subseteq Standing
    /\ loyal \subseteq Belonging

\* The entitlements of a role never miss the name of its workspace, whichever
\* page of which run of the process listed it: the error "workspace not found
\* in cache" of roles.go:131 does not come up.
NamesAreKnown == plan.phase # "done" => roles \subseteq names

\* When the sync is done it has whatever was there all the time: the roles of
\* a workspace, the grants of a user, whatever else became of it, the
\* memberships of a group that stayed enabled.  What it lacks C1 takes for
\* deleted (BUGBOT.md:124).  A group that was disabled meanwhile loses its own
\* grants only.
NothingMissed ==
    plan.phase = "done" => kept \subseteq roles /\ steady \subseteq grants /\ loyal \subseteq memberships

\* C1 can take the workspaces, the grants and the memberships a sync brings for
\* snapshots: each was there at some moment of the sync, none that was there
\* all the time is missing from one that is done.
WorkspacesOf == INSTANCE Snapshot WITH
    Facts <- Workspaces, facts <- there, untouched <- kept,
    stored <- listed, done <- plan.phase = "done"
GrantsOf == INSTANCE Snapshot WITH
    Facts <- Entitled, facts <- Standing, untouched <- steady,
    stored <- grants, done <- plan.phase = "done"
MembershipsOf == INSTANCE Snapshot WITH
    Facts <- Groups \X Users, facts <- Belonging, untouched <- loyal,
    stored <- memberships, done <- plan.phase = "done"

ImplementsSnapshots == WorkspacesOf!Spec /\ GrantsOf!Spec /\ MembershipsOf!Spec

\* A sync that was not interrupted reads each user of a workspace once: it
\* never has one user as a guest and as a member, though the user became one
\* from the other while the pages were read (Grants of workspace.go).
OneRoleEach ==
    crashes = 0 =>
        \A w \in Workspaces, u \in Users :
            ~ (<<w, u, "guest">> \in grants /\ <<w, u, "member">> \in grants)

\* The sync comes to its end, unless a workspace it has listed goes.
SyncEnds == [](listed \subseteq there) => <>(plan.phase = "done")
=============================================================================
