--------------------------- MODULE WorkspaceAccess ---------------------------
(***************************************************************************)
(* Who is in one workspace, and in which role, as the handlers of the      *)
(* workspace type and of the workspace_role type see and change it         *)
(* (src/pkg/connector/workspace.go, src/pkg/connector/roles.go).           *)
(*                                                                         *)
(* To Slack a user has one standing in a workspace; to C1 the user holds   *)
(* several grants that overlap: an owner holds "owner", "admin", "member"  *)
(* and the membership of the workspace.  Workspace.Grants emits the grants *)
(* of both types from the flags of a user, Grant and Revoke turn a grant   *)
(* back into one call that sets the standing.  C1 acts on the grants of    *)
(* its last sync, which may be out of date; calls are made again when      *)
(* their answer is lost; administrators change standings meanwhile.        *)
(***************************************************************************)
EXTENDS Naturals

CONSTANTS
    Users,             \* ids of principals of type "user"
    OtherPrincipals,   \* ids of principals of other types
    InitialStandings,  \* the standings users may have at the start
    Workers,           \* slots of the task runner
    RolesSkipped,      \* the configuration does not sync workspace roles
    MaxAttempts,       \* the retryer's MaxAttempts
    MaxTasks,          \* bound: tasks started
    MaxEdits           \* bound: edits by administrators

\* What a user may be to Slack in the workspace; a "stranger" is listed there
\* but does not belong to the organization.
Standings == {"absent", "stranger", "deleted", "regular", "admin", "owner",
              "primary_owner", "single_channel_guest", "multi_channel_guest",
              "invited_member", "bot"}

\* The resources of the workspace_role type.
Roles == {"primary_owner", "owner", "admin", "multi_channel_guest",
          "single_channel_guest", "invited_member", "bot", "member"}

ASSUME WorkspaceAccessAssumption ==
    /\ Users \cap OtherPrincipals = {}
    /\ InitialStandings \subseteq Standings
    /\ RolesSkipped \in BOOLEAN
    /\ MaxAttempts \in Nat
    /\ MaxTasks \in Nat
    /\ MaxEdits \in Nat

VARIABLES
    standing,  \* Slack: user -> the user's standing in the workspace
    listed,    \* C1: user -> the grants the last sync emitted
    pc,        \* worker -> "call" while its call is under way, or "idle"
    task,      \* worker -> its task (its last one when it is idle)
    tries,     \* worker -> the retryer's attempts
    outcome,   \* worker -> how its last task ended
    started,   \* tasks started
    edits,     \* edits made by administrators
    during     \* history: worker -> the standings the user of its task has
               \* had since the task began (until it ended)

handler == <<pc, task, tries, outcome>>
vars == <<standing, listed, pc, task, tries, outcome, started, edits, during>>

\* The entitlements: membership of the workspace, and its roles.
Entitlements == {"workspace"} \cup (IF RolesSkipped THEN {} ELSE Roles)
Tasks == [op : {"grant", "revoke"}, ent : Entitlements,
          user : Users \cup OtherPrincipals]
NoTask == [op |-> "none"]

-----------------------------------------------------------------------------
(* What the source makes of a standing. *)

\* The flags Slack sets on a user: an owner is an admin too.
Flags(s) ==
    CASE s = "primary_owner" -> {"IsPrimaryOwner", "IsOwner", "IsAdmin"}
      [] s = "owner" -> {"IsOwner", "IsAdmin"}
      [] s = "admin" -> {"IsAdmin"}
      [] s = "multi_channel_guest" -> {"IsRestricted"}
      [] s = "single_channel_guest" -> {"IsRestricted", "IsUltraRestricted"}
      [] s = "invited_member" -> {"IsInvitedUser"}
      [] s = "bot" -> {"IsBot"}
      [] s = "deleted" -> {"Deleted"}
      [] s \in {"regular", "stranger", "absent"} -> {}

\* The roles Grants emits for a user with the flags f.
EmittedRoles(f) ==
    {r \in Roles :
        \/ r = "primary_owner" /\ "IsPrimaryOwner" \in f
        \/ r = "owner" /\ "IsOwner" \in f
        \/ r = "admin" /\ "IsAdmin" \in f
        \/ r = "single_channel_guest" /\ {"IsRestricted", "IsUltraRestricted"} \subseteq f
        \/ r = "multi_channel_guest" /\ "IsRestricted" \in f /\ "IsUltraRestricted" \notin f
        \/ r = "invited_member" /\ "IsInvitedUser" \in f
        \/ r = "bot" /\ "IsBot" \in f
        \/ r = "member" /\ f \cap {"IsRestricted", "IsUltraRestricted",
                                   "IsInvitedUser", "IsBot", "Deleted"} = {}}

\* The grants Grants emits for a user of standing s.
Emitted(s) ==
    IF s \in {"absent", "stranger"} THEN {}
    ELSE (EmittedRoles(Flags(s)) \cup {"workspace"}) \cap Entitlements

\* The roles there is a call to set, and to take away.
Settable == {"owner", "admin", "member"}

\* Bug: the role's name is taken for the name of the call.
SetTo_Name(role) == role

\* The standing that the "set" calls of Slack give: setOwner, setAdmin and,
\* for members, setRegular.
SetTo(role) == IF role = "member" THEN "regular" ELSE role

\* Bugs: a revoke sets users of any other role back to regular ones; a grant
\* calls setRegular whatever the role.
Call_RevokeDefault(t) ==
    CASE t.ent = "workspace" -> IF t.op = "grant" THEN "add" ELSE "remove"
      [] t.op = "grant" /\ t.ent \in Settable -> SetTo(t.ent)
      [] t.op = "revoke" /\ t.ent = "member" -> "remove"
      [] OTHER -> IF t.op = "grant" THEN "invalid" ELSE "regular"
Call_GrantRegular(t) ==
    CASE t.ent = "workspace" -> IF t.op = "grant" THEN "add" ELSE "remove"
      [] t.op = "grant" /\ t.ent \in Settable -> "regular"
      [] t.op = "revoke" /\ t.ent = "member" -> "remove"
      [] t.op = "revoke" /\ t.ent \in {"owner", "admin"} -> "regular"
      [] OTHER -> IF t.op = "grant" THEN "invalid" ELSE "none"

\* The call a task makes: "add" or "remove" the user, or set a standing.  A
\* grant of any other role is an error before the call ("invalid"), a revoke
\* of any other role makes no call at all ("none").
Call(t) ==
    CASE t.ent = "workspace" -> IF t.op = "grant" THEN "add" ELSE "remove"
      [] t.op = "grant" /\ t.ent \in Settable -> SetTo(t.ent)
      [] t.op = "revoke" /\ t.ent = "member" -> "remove"
      [] t.op = "revoke" /\ t.ent \in {"owner", "admin"} -> "regular"
      [] OTHER -> IF t.op = "grant" THEN "invalid" ELSE "none"

-----------------------------------------------------------------------------
(* What Slack makes of a call for a user of standing s. *)

\* Slack knows no such user in the workspace: user_not_found,
\* user_already_deleted.
Unknown(s, call) == s = "deleted" \/ (s \in {"absent", "stranger"} /\ call # "add")

\* user_already_team_member
AlreadyThere(s, call) == call = "add" /\ s \notin {"absent", "stranger", "deleted"}

\* Slack never demotes or removes the primary owner, and a bot has no role.
Protected(s, call) == s \in {"primary_owner", "bot"} /\ call # "add"

Accepted(s, call) ==
    ~Unknown(s, call) /\ ~AlreadyThere(s, call) /\ ~Protected(s, call)

\* The standing after an accepted call.
After(call) ==
    CASE call = "add" -> "regular"
      [] call = "remove" -> "absent"
      [] call \notin {"add", "remove"} -> call

-----------------------------------------------------------------------------
Init ==
    /\ standing \in [Users -> InitialStandings]
    /\ listed = [u \in Users |-> {}]
    /\ pc = [w \in Workers |-> "idle"]
    /\ task = [w \in Workers |-> NoTask]
    /\ tries = [w \in Workers |-> 0]
    /\ outcome = [w \in Workers |-> "none"]
    /\ started = 0
    /\ edits = 0
    /\ during = [w \in Workers |-> {}]

\* The handler returns.
Finish(w, how) ==
    /\ pc' = [pc EXCEPT ![w] = "idle"]
    /\ outcome' = [outcome EXCEPT ![w] = how]
    /\ tries' = [tries EXCEPT ![w] = 0]
    /\ UNCHANGED <<listed, task, started, edits>>

\* A call failed with Unavailable or DeadlineExceeded: the SDK runs the
\* whole handler again unless the attempts are spent.
RunAgain(w) ==
    IF tries[w] + 1 <= MaxAttempts
    THEN /\ tries' = [tries EXCEPT ![w] = @ + 1]
         /\ UNCHANGED <<listed, pc, task, outcome, started, edits>>
    ELSE Finish(w, "error")

\* History: what the user of each task has been during the task.
Observe ==
    during' = [w \in Workers |->
        IF pc[w] # "idle" THEN during[w] \cup {standing'[task[w].user]}
        ELSE IF task'[w] = task[w] /\ pc'[w] = "idle" THEN during[w]
        ELSE IF task'[w].user \in Users THEN {standing'[task'[w].user]} ELSE {}]

-----------------------------------------------------------------------------
\* The handler of the task t before its call: the principal's type, then the
\* role, are looked at.  How it ends there, if it does.
EndsEarly(t) ==
    IF t.user \notin Users THEN "refused"
    ELSE IF Call(t) = "invalid" THEN "error"
    ELSE IF Call(t) = "none" THEN "ok" ELSE "no"

\* C1 asks to revoke a grant it knows, and to grant one it does not know; the
\* runner hands the task to a free slot.
Start(w, t) ==
    /\ pc[w] = "idle"
    /\ started < MaxTasks
    /\ t.user \in Users => (t.op = "revoke") = (t.ent \in listed[t.user])
    /\ started' = started + 1
    /\ task' = [task EXCEPT ![w] = t]
    /\ IF EndsEarly(t) = "no"
       THEN /\ pc' = [pc EXCEPT ![w] = "call"]
            /\ outcome' = [outcome EXCEPT ![w] = "none"]
       ELSE /\ outcome' = [outcome EXCEPT ![w] = EndsEarly(t)]
            /\ UNCHANGED pc
    /\ UNCHANGED <<standing, listed, tries, edits>>
    /\ Observe

Applied(w) ==
    /\ pc[w] = "call"
    /\ Accepted(standing[task[w].user], Call(task[w]))
    /\ standing' = [standing EXCEPT ![task[w].user] = After(Call(task[w]))]

\* Slack does what the call says and its answer arrives...
CallDone(w) == Applied(w) /\ Finish(w, "ok") /\ Observe

\* ... or is lost, or cannot be read.
ReplyLost(w) == Applied(w) /\ (RunAgain(w) \/ Finish(w, "error")) /\ Observe

\* The call fails for now and has no effect.
CallUnavailable(w) ==
    /\ pc[w] = "call"
    /\ RunAgain(w)
    /\ UNCHANGED standing
    /\ Observe

\* Bug: every error of a revoke is taken for "not found".
CallRejected_IsNotFound(w) ==
    /\ pc[w] = "call"
    /\ Finish(w, IF task[w].op = "revoke" THEN "already_revoked" ELSE "error")
    /\ UNCHANGED standing
    /\ Observe

\* The call fails for good.
CallRejected(w) ==
    /\ pc[w] = "call"
    /\ Finish(w, "error")
    /\ UNCHANGED standing
    /\ Observe

\* Slack knows no such user: success for a revoke, an error for a grant.
NotFound(w) ==
    /\ pc[w] = "call"
    /\ Unknown(standing[task[w].user], Call(task[w]))
    /\ Finish(w, IF task[w].op = "revoke" THEN "already_revoked" ELSE "error")
    /\ UNCHANGED standing
    /\ Observe

\* The user is in the workspace already: success for the grant.
AlreadyExists(w) ==
    /\ pc[w] = "call"
    /\ AlreadyThere(standing[task[w].user], Call(task[w]))
    /\ Finish(w, "already_exists")
    /\ UNCHANGED standing
    /\ Observe

-----------------------------------------------------------------------------
\* A sync emits the grants of user u (one page of the listing).
Sync(u) ==
    /\ listed' = [listed EXCEPT ![u] = Emitted(standing[u])]
    /\ UNCHANGED <<standing, handler, started, edits>>
    /\ Observe

\* An administrator changes the standing of user u in Slack.
AdminEdit(u, s) ==
    /\ edits < MaxEdits
    /\ edits' = edits + 1
    /\ standing' = [standing EXCEPT ![u] = s]
    /\ UNCHANGED <<listed, handler, started>>
    /\ Observe

\* The process dies and comes back: the tasks that ran have no outcome.
Crash ==
    /\ \E w \in Workers : pc[w] # "idle"
    /\ outcome' = [w \in Workers |-> IF pc[w] = "idle" THEN outcome[w] ELSE "lost"]
    /\ pc' = [w \in Workers |-> "idle"]
    /\ tries' = [w \in Workers |-> 0]
    /\ UNCHANGED <<standing, listed, task, started, edits>>
    /\ Observe

WorkerStep(w) ==
    \/ CallDone(w) \/ ReplyLost(w) \/ CallUnavailable(w)
    \/ CallRejected(w) \/ NotFound(w) \/ AlreadyExists(w)

Next ==
    \/ \E w \in Workers : \E t \in Tasks : Start(w, t)
    \/ \E w \in Workers : WorkerStep(w)
    \/ \E u \in Users : Sync(u)
    \/ \E u \in Users : \E s \in Standings : AdminEdit(u, s)
    \/ Crash

Spec == Init /\ [][Next]_vars

-----------------------------------------------------------------------------
TypeOK ==
    /\ standing \in [Users -> Standings]
    /\ listed \in [Users -> SUBSET Entitlements]
    /\ pc \in [Workers -> {"idle", "call"}]
    /\ task \in [Workers -> Tasks \cup {NoTask}]
    /\ tries \in [Workers -> Nat]
    /\ outcome \in [Workers -> {"none", "ok", "already_exists",
                               "already_revoked", "refused", "error", "lost"}]
    /\ started \in Nat
    /\ edits \in Nat
    /\ during \in [Workers -> SUBSET Standings]

\* A grant that reports success (also GrantAlreadyExists) was one a sync would
\* have emitted at some moment of the task.
GrantTakesEffect ==
    \A w \in Workers :
        task[w].op = "grant" /\ outcome[w] \in {"ok", "already_exists"} =>
            \E s \in during[w] : task[w].ent \in Emitted(s)

\* A revoke of one of the entitlements ents that reports success (also
\* GrantAlreadyRevoked) had none to take away at some moment of its task: no
\* sync would have emitted the grant then.  Only the membership of a
\* deactivated user stays (workspace.go:293): Slack calls it deleted already.
RevokesTakeEffect(ents) ==
    \A w \in Workers :
        /\ task[w].op = "revoke" /\ task[w].ent \in ents
        /\ outcome[w] \in {"ok", "already_revoked"}
        => \E s \in during[w] : task[w].ent \notin Emitted(s) \/ s = "deleted"

\* The entitlements roles.go:258-276 and workspace.go:363 have a call for.
RevokeTakesEffect == RevokesTakeEffect({"workspace"} \cup Settable)

\* docs/connector.mdx:25: workspace roles are provisioned, all of them.
EveryRevokeTakesEffect == RevokesTakeEffect(Entitlements)

\* While no administrator interferes, a revoke only takes grants away, however
\* old the listing it was asked from: the call that sets a user back to
\* "regular" would make a member of a guest or of an invited user.
RevokeNeverPromotes ==
    [][\A w \in Workers : \A u \in Users :
        pc[w] = "call" /\ task[w].op = "revoke" /\ task[w].user = u
            /\ (pc'[w] = "idle" \/ tries'[w] # tries[w]) /\ edits = 0
        => Emitted(standing'[u]) \subseteq Emitted(standing[u])]_vars
=============================================================================
