------------------------- MODULE EnterpriseRoleSync --------------------------
(***************************************************************************)
(* One sync of the enterprise roles and of who holds them: List and Grants *)
(* of src/pkg/connector/enterprise_roles.go under the SDK's syncer.        *)
(*                                                                         *)
(* Slack has no list of its roles, only one of the assignments, page by    *)
(* page.  List emits a role when it meets the first assignment of it; what *)
(* it has emitted goes from page to page in the page token.  When all      *)
(* resources are listed the syncer asks for the grants of each.  It saves  *)
(* its plan (the page tokens are part of it) from time to time: after a    *)
(* crash it goes on from the plan it saved, and what pages later than that *)
(* put in the store stays there.  Assignments come and go meanwhile.       *)
(***************************************************************************)
EXTENDS Naturals

CONSTANTS
    N,             \* the assignments Slack may have, in its order: 1 .. N
    RoleAt,        \* the role of each of them
    SystemRoles,   \* the roles the connector knows (systemRoles)
    OrgRoles,      \* the roles of the organization (organizationRoles)
    PageSize,      \* the assignments Slack goes through for a page, at most
    MaxEdits,      \* bound: assignments made or removed
    MaxCrashes     \* bound: crashes

\* The ids of all roles: those Slack may add some day are unknown here.
Roles == {RoleAt[i] : i \in 1..N} \cup SystemRoles \cup OrgRoles

ASSUME EnterpriseRoleSyncAssumption ==
    /\ N \in Nat \ {0}
    /\ DOMAIN RoleAt = 1..N
    /\ SystemRoles \cap OrgRoles = {}
    /\ PageSize \in Nat \ {0}
    /\ MaxEdits \in Nat
    /\ MaxCrashes \in Nat

VARIABLES
    present,   \* Slack: the assignments there are
    plan,      \* the syncer: its phase; the cursor and the found roles of the
               \* page token of List; the resources whose grants it has to
               \* list still, and the cursor of each
    saved,     \* the plan in the last checkpoint
    roles,     \* the store: the role resources put there
    grants,    \* the store: the assignments put there as grants
    edits,     \* assignments made or removed so far
    crashes,   \* crashes so far
    times,     \* history: role -> how often its resource was put
    steady     \* history: assignments there since the sync began

vars == <<present, plan, saved, roles, grants, edits, crashes, times, steady>>

\* Cursor 0 is the empty one, of the first page and after the last one.
Plans == [phase : {"list", "grants"}, cursor : 0..N, found : SUBSET Roles,
          todo : SUBSET Roles, at : [Roles -> 0..N]]
FirstCursors == [r \in Roles |-> 0]

-----------------------------------------------------------------------------
Init ==
    /\ present \in SUBSET (1..N)
    /\ plan = [phase |-> "list", cursor |-> 0, found |-> {}, todo |-> {},
               at |-> FirstCursors]
    /\ saved = plan
    /\ roles = {}
    /\ grants = {}
    /\ edits = 0
    /\ crashes = 0
    /\ times = [r \in Roles |-> 0]
    /\ steady = present

\* Slack goes on after the cursor c up to some assignment "last", and gives
\* the cursor of the next page.  A page may be short, or empty.
Lasts(c) == {i \in 1..N : c < i /\ i <= c + PageSize}
Page(c, last) == {i \in present : c < i /\ i <= last}
NextCursor(last) == IF last = N THEN 0 ELSE last

\* Bug: roles are not looked up in the table of known ones.
NewRoles_Unknown(rows) == {RoleAt[i] : i \in rows} \ plan.found

\* Bug: a page emits all its roles, found before or not.
NewRoles_Again(rows) == {RoleAt[i] : i \in rows} \cap SystemRoles

\* The roles a page of assignments adds: known ones, met for the first time.
NewRoles(rows) == ({RoleAt[i] : i \in rows} \cap SystemRoles) \ plan.found

\* One call of List: the roles of the organization with the first page, then
\* the new ones of this page; the token carries the roles found so far.
ListPage ==
    /\ plan.phase = "list"
    /\ \E last \in Lasts(plan.cursor) :
        LET rows == Page(plan.cursor, last)
            emitted == NewRoles(rows) \cup (IF plan.cursor = 0 THEN OrgRoles ELSE {})
        IN /\ roles' = roles \cup emitted
           /\ times' = [r \in Roles |-> times[r] + IF r \in emitted THEN 1 ELSE 0]
           /\ plan' = IF NextCursor(last) # 0
                      THEN [plan EXCEPT !.cursor = last,
                                        !.found = @ \cup NewRoles(rows)]
                      ELSE [phase |-> "grants", cursor |-> 0, found |-> {},
                            todo |-> roles', at |-> FirstCursors]
    /\ UNCHANGED <<present, saved, grants, edits, crashes, steady>>

\* Grants makes no call for a role of the organization: the users' own
\* grants have those.
OrgRoleGrants(r) ==
    /\ plan.phase = "grants"
    /\ r \in plan.todo \cap OrgRoles
    /\ plan' = [plan EXCEPT !.todo = @ \ {r}]
    /\ UNCHANGED <<present, saved, roles, grants, edits, crashes, times, steady>>

\* Bugs: the token of the next page is dropped, or is that of this page.
AfterPage_FirstOnly(r, last) == [plan EXCEPT !.todo = @ \ {r}]
AfterPage_SameCursor(r, last) ==
    IF NextCursor(last) # 0 THEN plan ELSE [plan EXCEPT !.todo = @ \ {r}]

\* The plan after a page of the grants of role r that ends at "last".
AfterPage(r, last) ==
    IF NextCursor(last) # 0 THEN [plan EXCEPT !.at[r] = last]
                            ELSE [plan EXCEPT !.todo = @ \ {r}]

\* One call of Grants: a page of the assignments of role r.  The syncer may
\* have the grants of several resources under way.
GrantsPage(r) ==
    /\ plan.phase = "grants"
    /\ r \in plan.todo \ OrgRoles
    /\ \E last \in Lasts(plan.at[r]) :
        /\ grants' = grants \cup {i \in Page(plan.at[r], last) : RoleAt[i] = r}
        /\ plan' = AfterPage(r, last)
    /\ UNCHANGED <<present, saved, roles, edits, crashes, times, steady>>

-----------------------------------------------------------------------------
\* The syncer saves its plan, once in a while...
Checkpoint ==
    /\ saved # plan
    /\ saved' = plan
    /\ UNCHANGED <<present, plan, roles, grants, edits, crashes, times, steady>>

\* ... and goes on from there when the process has died.
Crash ==
    /\ crashes < MaxCrashes
    /\ crashes' = crashes + 1
    /\ plan' = saved
    /\ UNCHANGED <<present, saved, roles, grants, edits, times, steady>>

\* Somebody assigns a role, or takes one away.
Edit(i) ==
    /\ edits < MaxEdits
    /\ edits' = edits + 1
    /\ present' = IF i \in present THEN present \ {i} ELSE present \cup {i}
    /\ steady' = steady \ {i}
    /\ UNCHANGED <<plan, saved, roles, grants, crashes, times>>

SyncStep == ListPage \/ \E r \in Roles : OrgRoleGrants(r) \/ GrantsPage(r)

Next == SyncStep \/ Checkpoint \/ Crash \/ \E i \in 1..N : Edit(i)

Spec == Init /\ [][Next]_vars

\* The syncer calls for the next page as long as there is one, and again
\* when a call failed.
FairSpec == Spec /\ WF_vars(SyncStep)

Done == plan.phase = "grants" /\ plan.todo = {}

-----------------------------------------------------------------------------
TypeOK ==
    /\ present \subseteq 1..N
    /\ plan \in Plans
    /\ saved \in Plans
    /\ roles \subseteq SystemRoles \cup OrgRoles
    /\ grants \subseteq 1..N
    /\ edits \in Nat
    /\ crashes \in Nat
    /\ times \in [Roles -> Nat]
    /\ steady \subseteq present

\* The facts a sync tells of some assignments: of each known role that it is
\* assigned, and of the roles of the organization that there are such roles,
\* with no assignment (0).
FactsOf(assignments) ==
    {<<RoleAt[i], i>> : i \in {j \in assignments : RoleAt[j] \in SystemRoles}}
    \cup (OrgRoles \X {0})

\* What of that is in the store: a grant needs the resource of its role.
InStore ==
    {<<RoleAt[i], i>> : i \in {j \in grants : RoleAt[j] \in roles}}
    \cup ((OrgRoles \cap roles) \X {0})

\* C1 can take what a sync brings for a snapshot: a grant was there at some
\* moment of the sync, and the role with it; and when the sync ends, the roles
\* of the organization are in the store, and so is every known role with an
\* assignment that was there all the time, and the grant of that: what a sync
\* does not emit C1 takes for deleted (BUGBOT.md:124).  Neither crashes nor
\* changes of other assignments between two pages make it miss one.
SnapshotOf == INSTANCE Snapshot WITH
    Facts <- Roles \X (0..N), facts <- FactsOf(present), untouched <- FactsOf(steady),
    stored <- InStore, done <- Done

ImplementsSnapshot == SnapshotOf!Spec

\* Without a crash a role is emitted once: the roles of the organization
\* "only once" (enterprise_roles.go:127), the others by the found map that
\* goes from page to page.
EmittedOnce == crashes = 0 => \A r \in Roles : times[r] <= 1

\* The sync ends: every page brings it closer to the last one.
SyncEnds == <>[]Done
=============================================================================
