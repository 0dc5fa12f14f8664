------------------------------ MODULE IdpGroup ------------------------------
(***************************************************************************)
(* The members of one IDP group (a SCIM group) as the connector's Grant,   *)
(* Revoke and Grants handlers see and change them                          *)
(* (src/pkg/connector/group.go, src/pkg/connector/client/slack.go).        *)
(*                                                                         *)
(* The handlers keep no state.  What makes them hard is around them:       *)
(*   - Slack's SCIM API has the members; a grant PATCHes "add", a revoke   *)
(*     reads the whole list and PATCHes "replace" with the rest of it;     *)
(*   - every GET goes through the SDK's HTTP cache: the list a revoke      *)
(*     reads may be an old one, and no write drops the entry;              *)
(*   - the SDK runs several tasks at once, each in a goroutine, and runs a *)
(*     handler again when a call was unavailable, its effect or none;      *)
(*   - a sync reads through, and fills, the same cache;                    *)
(*   - administrators change the group in Slack.                           *)
(*                                                                         *)
(* A worker is one slot of the task runner.  Its steps are the remote      *)
(* calls and the accesses to the cache, everything between two of them is  *)
(* local to the handler.                                                   *)
(***************************************************************************)
EXTENDS Naturals

CONSTANTS
    Users,            \* ids of principals of type "user"
    OtherPrincipals,  \* ids of principals of other types
    InitialMembers,   \* the members of the group at the start
    Workers,          \* slots of the task runner
    Ops,              \* the kinds of task that are run
    Configs,          \* how the connector may be configured: "gov", for
                      \* GovSlack; "cached", neither BATON_DISABLE_HTTP_CACHE
                      \* nor a TTL of 0
    MaxAttempts,      \* the retryer's MaxAttempts
    MaxTasks,         \* bound: tasks started
    MaxEdits          \* bound: edits by administrators

ASSUME IdpGroupAssumption ==
    /\ Users \cap OtherPrincipals = {}
    /\ InitialMembers \subseteq Users
    /\ Ops \subseteq {"grant", "revoke", "sync"}
    /\ Configs \subseteq [gov : BOOLEAN, cached : BOOLEAN]
    /\ MaxAttempts \in Nat
    /\ MaxTasks \in Nat
    /\ MaxEdits \in Nat

VARIABLES
    config,    \* how the connector is configured, for good
    members,   \* Slack: the members of the group
    cache,     \* the cached response of GET /Groups/<id>: a set with the
               \* members it lists, empty without an entry
    pc,        \* worker -> the next call of its handler, or "idle"
    task,      \* worker -> its task (its last one when it is idle)
    body,      \* worker -> the members its GET returned; what it reported,
               \* when it is idle after a sync
    tries,     \* worker -> the retryer's attempts
    outcome,   \* worker -> how its last task ended
    started,   \* tasks started
    edits,     \* edits made by administrators
    asked,     \* history: the requests made so far
    had,       \* history: every list members has been
    during     \* history: worker -> the values members has had since its
               \* task began (until it ended, when the worker is idle)

handler == <<pc, task, body, tries, outcome>>
bounds == <<config, started, edits>>
vars == <<config, members, cache, pc, task, body, tries, outcome, started, edits,
          asked, had, during>>

GovEnv == config.gov
CacheEnabled == config.cached

Principals == Users \cup OtherPrincipals

\* A grant or a revoke names a principal, a sync reads the whole group.
Tasks == [op : Ops \ {"sync"}, user : Principals]
            \cup (IF "sync" \in Ops THEN {[op |-> "sync"]} ELSE {})

NoTask == [op |-> "none"]

\* The calls that reach Slack; "lookup" and "store" are the accesses to the
\* cache before and after a GET.
RemoteCalls == {"add", "get", "replace"}

\* The first call of the handler of the task t.
FirstCall(t) == IF t.op = "grant" THEN "add" ELSE "lookup"

\* Bugs: the check of the principal's type, or of GovSlack, is forgotten.
Refused_NoTypeCheck(t) == t.op # "sync" /\ GovEnv
Refused_NoGovCheck(t) == t.op # "sync" /\ t.user \notin Users

\* Grant and Revoke refuse GovSlack and principals that are not users
\* before any call; Grants refuses nothing.
Refused(t) == t.op # "sync" /\ (GovEnv \/ t.user \notin Users)

\* What the task's author asks for: in GovSlack nothing may change.
Request(t) ==
    IF t.op = "sync" \/ GovEnv \/ t.user \notin Users
    THEN {} ELSE {<<t.op, t.user>>}

-----------------------------------------------------------------------------
Init ==
    /\ config \in Configs
    /\ members = InitialMembers
    /\ cache = {}
    /\ pc = [w \in Workers |-> "idle"]
    /\ task = [w \in Workers |-> NoTask]
    /\ body = [w \in Workers |-> {}]
    /\ tries = [w \in Workers |-> 0]
    /\ outcome = [w \in Workers |-> "none"]
    /\ started = 0
    /\ edits = 0
    /\ asked = {}
    /\ had = {InitialMembers}
    /\ during = [w \in Workers |-> {}]

-----------------------------------------------------------------------------
(* How a handler goes on.  None of these touches members, cache or history. *)

GoTo(w, call) ==
    /\ pc' = [pc EXCEPT ![w] = call]
    /\ UNCHANGED <<task, tries, outcome, bounds, asked>>

\* The handler returns, and what it held is gone.
Finish(w, how) ==
    /\ pc' = [pc EXCEPT ![w] = "idle"]
    /\ outcome' = [outcome EXCEPT ![w] = how]
    /\ tries' = [tries EXCEPT ![w] = 0]
    /\ body' = [body EXCEPT ![w] = {}]
    /\ UNCHANGED <<task, bounds, asked>>

\* Grants returns the members it read.
Report(w) ==
    /\ pc' = [pc EXCEPT ![w] = "idle"]
    /\ outcome' = [outcome EXCEPT ![w] = "ok"]
    /\ UNCHANGED <<task, body, tries, bounds, asked>>

\* Bug: the attempts are not counted.
RunAgain_Uncounted(w) ==
    /\ pc' = [pc EXCEPT ![w] = FirstCall(task[w])]
    /\ body' = [body EXCEPT ![w] = {}]
    /\ UNCHANGED <<task, tries, outcome, bounds, asked>>

\* A call failed with Unavailable or DeadlineExceeded: the SDK runs the
\* whole handler again unless the attempts are spent.  (The syncer lists
\* again on its own: that is another task.)
RunAgain(w) ==
    IF task[w].op # "sync" /\ tries[w] + 1 <= MaxAttempts
    THEN /\ tries' = [tries EXCEPT ![w] = @ + 1]
         /\ pc' = [pc EXCEPT ![w] = FirstCall(task[w])]
         /\ body' = [body EXCEPT ![w] = {}]
         /\ UNCHANGED <<task, outcome, bounds, asked>>
    ELSE Finish(w, "error")

\* Bugs: the loop of a revoke keeps the wrong members; a grant sends the PATCH
\* of a "replace".
Patched_FilterInverted(w) ==
    IF pc[w] = "add" THEN members \cup {task[w].user}
                     ELSE body[w] \cap {task[w].user}
Patched_AddReplaces(w) ==
    IF pc[w] = "add" THEN {task[w].user}
                     ELSE body[w] \ {task[w].user}

\* The list after Slack applies the PATCH of worker w.
Patched(w) ==
    IF pc[w] = "add" THEN members \cup {task[w].user}
                     ELSE body[w] \ {task[w].user}

\* History: what members has been, and has been during each worker's task.
Observe ==
    /\ had' = had \cup {members'}
    /\ during' = [w \in Workers |->
          IF pc[w] = "idle"
          THEN IF pc'[w] = "idle" THEN during[w] ELSE {members'}
          ELSE during[w] \cup {members'}]

-----------------------------------------------------------------------------
(* The steps. *)

\* The runner hands a task to a free slot: the handler refuses it at once
\* or goes to its first call.
Start(w, t) ==
    /\ pc[w] = "idle"
    /\ started < MaxTasks
    /\ started' = started + 1
    /\ task' = [task EXCEPT ![w] = t]
    /\ asked' = asked \cup Request(t)
    /\ body' = [body EXCEPT ![w] = {}]
    /\ IF Refused(t)
       THEN /\ outcome' = [outcome EXCEPT ![w] = "refused"]
            /\ UNCHANGED pc
       ELSE /\ outcome' = [outcome EXCEPT ![w] = "none"]
            /\ pc' = [pc EXCEPT ![w] = FirstCall(t)]
    /\ UNCHANGED <<config, members, cache, tries, edits>>
    /\ Observe

\* Revoke and Grants ask the cache first.
Lookup(w) ==
    /\ pc[w] = "lookup"
    /\ \/ /\ \E list \in cache : body' = [body EXCEPT ![w] = list]
          /\ GoTo(w, "store")
       \/ /\ cache = {}
          /\ UNCHANGED body
          /\ GoTo(w, "get")
    /\ UNCHANGED <<members, cache>>
    /\ Observe

\* A miss: Slack answers with the members of the moment.
Get(w) ==
    /\ pc[w] = "get"
    /\ body' = [body EXCEPT ![w] = members]
    /\ GoTo(w, "store")
    /\ UNCHANGED <<members, cache>>
    /\ Observe

\* Bug: responses are cached although the cache is off.
Store_Always(w) ==
    /\ pc[w] = "store"
    /\ cache' = {body[w]}
    /\ \/ task[w].op = "sync" /\ Report(w)
       \/ /\ task[w].op = "revoke"
          /\ task[w].user \notin body[w]
          /\ Finish(w, "already_revoked")
       \/ /\ task[w].op = "revoke"
          /\ task[w].user \in body[w]
          /\ GoTo(w, "replace")
          /\ UNCHANGED body
    /\ UNCHANGED members
    /\ Observe

\* The response is put in the cache, a hit as well as a miss, whatever has
\* become of the entry or of the group meanwhile.  Then the handler reads
\* it: Grants reports it, Revoke looks for its user in it.
Store(w) ==
    /\ pc[w] = "store"
    /\ cache' = IF CacheEnabled THEN {body[w]} ELSE {}
    /\ \/ task[w].op = "sync" /\ Report(w)
       \/ /\ task[w].op = "revoke"
          /\ task[w].user \notin body[w]
          /\ Finish(w, "already_revoked")
       \/ /\ task[w].op = "revoke"
          /\ task[w].user \in body[w]
          /\ GoTo(w, "replace")
          /\ UNCHANGED body
    /\ UNCHANGED members
    /\ Observe

\* Slack applies the PATCH and its answer arrives: "add" of a member is no
\* error, "replace" puts the list it was sent.
Patch(w) ==
    /\ pc[w] \in {"add", "replace"}
    /\ members' = Patched(w)
    /\ Finish(w, "ok")
    /\ UNCHANGED cache
    /\ Observe

\* Slack applies the PATCH but its answer is lost (the call looks
\* unavailable) or cannot be read (the task fails for good).
PatchReplyLost(w) ==
    /\ pc[w] \in {"add", "replace"}
    /\ members' = Patched(w)
    /\ RunAgain(w) \/ Finish(w, "error")
    /\ UNCHANGED cache
    /\ Observe

\* A call fails for now (429, 5xx, a timeout) and has no effect.
CallUnavailable(w) ==
    /\ pc[w] \in RemoteCalls
    /\ RunAgain(w)
    /\ UNCHANGED <<members, cache>>
    /\ Observe

\* Bug: the error of the call is dropped.
CallRejected_Swallowed(w) ==
    /\ pc[w] \in RemoteCalls
    /\ Finish(w, "ok")
    /\ UNCHANGED <<members, cache>>
    /\ Observe

\* A call fails for good (404, 403, a request Slack does not accept).
CallRejected(w) ==
    /\ pc[w] \in RemoteCalls
    /\ Finish(w, "error")
    /\ UNCHANGED <<members, cache>>
    /\ Observe

-----------------------------------------------------------------------------
(* The environment. *)

\* The entry expires, is evicted, or goes with every other one when a sync
\* ends and the SDK clears the caches, whatever the workers are doing.
DropEntry ==
    /\ cache # {}
    /\ cache' = {}
    /\ UNCHANGED <<members, handler, bounds, asked>>
    /\ Observe

\* The process dies and comes back: the tasks that ran have no outcome
\* (they may be delivered again), the cache is empty.
Crash ==
    /\ \E w \in Workers : pc[w] # "idle"
    /\ pc' = [w \in Workers |-> "idle"]
    /\ outcome' = [w \in Workers |-> IF pc[w] = "idle" THEN outcome[w]
                                                      ELSE "lost"]
    /\ tries' = [w \in Workers |-> 0]
    /\ body' = [w \in Workers |-> IF pc[w] = "idle" THEN body[w] ELSE {}]
    /\ cache' = {}
    /\ UNCHANGED <<members, task, bounds, asked>>
    /\ Observe

AdminEdit(u) ==
    /\ edits < MaxEdits
    /\ edits' = edits + 1
    /\ \/ /\ members' = members \cup {u}
          /\ asked' = asked \cup {<<"grant", u>>}
       \/ /\ members' = members \ {u}
          /\ asked' = asked \cup {<<"revoke", u>>}
    /\ UNCHANGED <<config, cache, handler, started>>
    /\ Observe

-----------------------------------------------------------------------------
WorkerStep(w) ==
    \/ Lookup(w) \/ Get(w) \/ Store(w) \/ Patch(w)
    \/ PatchReplyLost(w) \/ CallUnavailable(w) \/ CallRejected(w)

Next ==
    \/ \E w \in Workers : \E t \in Tasks : Start(w, t)
    \/ \E w \in Workers : WorkerStep(w)
    \/ DropEntry
    \/ Crash
    \/ \E u \in Users : AdminEdit(u)

Spec == Init /\ [][Next]_vars

\* Goroutines are scheduled and every HTTP call returns in the end, with a
\* result or with an error: a worker that can step does.  Nothing is assumed
\* of the answers, of new tasks, of the cache or of the administrators.
FairSpec == Spec /\ \A w \in Workers : WF_vars(WorkerStep(w))

-----------------------------------------------------------------------------
TypeOK ==
    /\ config \in Configs
    /\ members \subseteq Users
    /\ cache \subseteq SUBSET Users
    /\ pc \in [Workers -> RemoteCalls \cup {"idle", "lookup", "store"}]
    /\ task \in [Workers -> Tasks \cup {NoTask}]
    /\ body \in [Workers -> SUBSET Users]
    /\ tries \in [Workers -> Nat]
    /\ outcome \in [Workers -> {"none", "ok", "already_revoked", "refused",
                               "error", "lost"}]
    /\ started \in Nat
    /\ edits \in Nat
    /\ asked \subseteq {"grant", "revoke"} \X Users
    /\ had \subseteq SUBSET Users
    /\ during \in [Workers -> SUBSET SUBSET Users]

\* A worker that is past its guards works on a request that was made, with
\* the calls of its handler, and has not answered yet.
TasksInFlight ==
    \A w \in Workers : pc[w] # "idle" =>
        /\ outcome[w] = "none"
        /\ pc[w] = "add" => task[w].op = "grant"
        /\ pc[w] \in {"lookup", "get", "store"} => task[w].op \in {"revoke", "sync"}
        /\ pc[w] = "replace" => task[w].op = "revoke"
        /\ task[w].op # "sync" => <<task[w].op, task[w].user>> \in asked

\* Worker w has a list to work on, or reported it as its group's members.
ReadsList(w) ==
    \/ pc[w] \in {"store", "replace"}
    \/ outcome[w] = "ok" /\ task[w].op = "sync" /\ pc[w] = "idle"

\* The list has the users no request names as they were at the start.
Keeps(list, requests) ==
    \A u \in Users :
        (\A r \in requests : r[2] # u) => (u \in list <=> u \in InitialMembers)

\* A user no task and no administrator ever named is a member now exactly if
\* it was one at the start, and every list that was read or cached says so: a
\* revoke writes back a whole list, often an old one, at any moment
\* (slack.go:608-626), and still only disturbs users somebody named.
BystandersKept ==
    /\ Keeps(members, asked)
    /\ \A list \in cache : Keeps(list, asked)
    /\ \A w \in Workers : ReadsList(w) => Keeps(body[w], asked)

\* A task that reports success had its effect while it ran: the user of a
\* grant has been a member, the user of a revoke has not been one.
OkIsApplied ==
    \A w \in Workers : outcome[w] = "ok" =>
        /\ task[w].op = "grant" => \E m \in during[w] : task[w].user \in m
        /\ task[w].op = "revoke" => \E m \in during[w] : task[w].user \notin m

\* With the cache off, a revoke answers GrantAlreadyRevoked only if its user
\* was not a member at some moment of the task (group.go:285, from "not found"
\* of slack.go:614).  With the cache on that is false.
AlreadyRevokedIsTrue ==
    \A w \in Workers : ~CacheEnabled /\ outcome[w] = "already_revoked" =>
        \E m \in during[w] : task[w].user \notin m

\* With the cache off, the list a handler works on, and the list a sync
\* reports, is one the group had during the task: what a revoke may undo by
\* writing its list back is what others did since it began.
ReadsAreFresh ==
    \A w \in Workers : ~CacheEnabled /\ ReadsList(w) => body[w] \in during[w]

\* In GovSlack nothing but an administrator changes the group: SCIM groups
\* are read only there (group.go:210, 256).
GovReadOnly == [][GovEnv => members' = members \/ edits' # edits]_vars

\* The PATCH of a revoke takes its own user off the list and nobody else, and
\* puts nobody on it: "patches a group by removing a user from it"
\* (slack.go:587).
RevokeRemovesOnlyItsUser ==
    [][\A w \in Workers :
        pc[w] = "replace" /\ members' # members /\ edits' = edits
            /\ pc'[w] # "replace"
        => members' = members \ {task[w].user}]_vars

\* Every task comes to an end, however often its calls fail: the handler is
\* run again a bounded number of times.
TaskEnds == \A w \in Workers : pc[w] # "idle" ~> pc[w] = "idle"

\* The group implements the abstract membership list, in every configuration
\* and with any number of tasks at once: a grant is carried out on the members
\* of the moment (the "add" PATCH, slack.go:557-585), a revoke on a list the
\* group has had (the "replace" PATCH, slack.go:587-639).
MembershipOf == INSTANCE Membership
    WITH Users <- Users, InitialMembers <- InitialMembers, InPlace <- {"grant"},
         members <- members, had <- had, asked <- asked
ImplementsMembership == MembershipOf!Spec

\* With no revoke about, nothing is ever carried out on an old list.
AtomicMembershipOf == INSTANCE Membership
    WITH Users <- Users, InitialMembers <- InitialMembers,
         InPlace <- {"grant", "revoke"},
         members <- members, had <- had, asked <- asked
ImplementsAtomicMembership == AtomicMembershipOf!Spec
=============================================================================
