----------------------------- MODULE UserGroup ------------------------------
(***************************************************************************)
(* The members of one Slack user group as the connector's Grant and Revoke *)
(* handlers see and change them                                            *)
(* (src/pkg/connector/user_group.go).                                      *)
(*                                                                         *)
(* Slack can only replace the whole list (usergroups.users.update), so     *)
(* both Grant and Revoke read the members, work on a copy, and write it    *)
(* back.  The reads are POSTs: the HTTP cache of IdpGroup is not in the    *)
(* way.  Nothing makes the read and the write one step: another task, an   *)
(* administrator, a retry or a crash may come between them.                *)
(***************************************************************************)
EXTENDS Naturals

CONSTANTS
    Users,            \* ids of principals of type "user"
    OtherPrincipals,  \* ids of principals of other types
    InitialMembers,   \* the members of the group at the start
    Workers,          \* slots of the task runner
    Ops,              \* the kinds of task that are run
    MaxAttempts,      \* the retryer's MaxAttempts
    MaxTasks,         \* bound: tasks started
    MaxEdits          \* bound: edits by administrators

ASSUME UserGroupAssumption ==
    /\ Users \cap OtherPrincipals = {}
    /\ InitialMembers \subseteq Users
    /\ Ops \subseteq {"grant", "revoke"}
    /\ MaxAttempts \in Nat
    /\ MaxTasks \in Nat
    /\ MaxEdits \in Nat

VARIABLES
    members,   \* Slack: the members of the group
    enabled,   \* Slack: the group is not disabled
    pc,        \* worker -> the next call of its handler, or "idle"
    task,      \* worker -> its task (its last one when it is idle)
    body,      \* worker -> the list it is about to write
    tries,     \* worker -> the retryer's attempts
    outcome,   \* worker -> how its last task ended
    started,   \* tasks started
    edits,     \* edits made by administrators
    asked,     \* history: the requests made so far
    had,       \* history: every list members has been
    during     \* history: worker -> the values members has had since its
               \* task began (until it ended, when the worker is idle)

handler == <<pc, task, body, tries, outcome>>
bounds == <<started, edits>>
vars == <<members, enabled, pc, task, body, tries, outcome, started, edits,
          asked, had, during>>

Tasks == [op : Ops, user : Users \cup OtherPrincipals]
NoTask == [op |-> "none"]

\* Bug: the loop of a revoke keeps the wrong members.
CarriedOut_FilterInverted(t, m) ==
    IF t.op = "grant" THEN m \cup {t.user} ELSE m \cap {t.user}

\* The list m after the request of the task t.
CarriedOut(t, m) == IF t.op = "grant" THEN m \cup {t.user} ELSE m \ {t.user}

\* The list m needs no write: GrantAlreadyExists, GrantAlreadyRevoked.
NothingToDo(t, m) == (t.op = "grant") = (t.user \in m)

-----------------------------------------------------------------------------
Init ==
    /\ members = InitialMembers
    /\ enabled = TRUE
    /\ pc = [w \in Workers |-> "idle"]
    /\ task = [w \in Workers |-> NoTask]
    /\ body = [w \in Workers |-> {}]
    /\ tries = [w \in Workers |-> 0]
    /\ outcome = [w \in Workers |-> "none"]
    /\ started = 0
    /\ edits = 0
    /\ asked = {}
    /\ had = {InitialMembers}
    /\ during = [w \in Workers |-> {}]

\* The handler returns, and what it held is gone.
Finish(w, how) ==
    /\ pc' = [pc EXCEPT ![w] = "idle"]
    /\ outcome' = [outcome EXCEPT ![w] = how]
    /\ tries' = [tries EXCEPT ![w] = 0]
    /\ body' = [body EXCEPT ![w] = {}]
    /\ UNCHANGED <<task, bounds, asked>>

\* Bug: the attempts are not counted.
RunAgain_Uncounted(w) ==
    /\ pc' = [pc EXCEPT ![w] = "read"]
    /\ body' = [body EXCEPT ![w] = {}]
    /\ UNCHANGED <<task, tries, outcome, bounds, asked>>

\* A call failed with Unavailable or DeadlineExceeded: the SDK runs the
\* whole handler again unless the attempts are spent.
RunAgain(w) ==
    IF tries[w] + 1 <= MaxAttempts
    THEN /\ tries' = [tries EXCEPT ![w] = @ + 1]
         /\ pc' = [pc EXCEPT ![w] = "read"]
         /\ body' = [body EXCEPT ![w] = {}]
         /\ UNCHANGED <<task, outcome, bounds, asked>>
    ELSE Finish(w, "error")

\* History: what members has been, and has been during each worker's task.
Observe ==
    /\ had' = had \cup {members'}
    /\ during' = [w \in Workers |->
          IF pc[w] = "idle"
          THEN IF pc'[w] = "idle" THEN during[w] ELSE {members'}
          ELSE during[w] \cup {members'}]

-----------------------------------------------------------------------------
\* Bug: the type of the principal is not looked at.
Start_NoTypeCheck(w, t) ==
    /\ pc[w] = "idle"
    /\ started < MaxTasks
    /\ started' = started + 1
    /\ task' = [task EXCEPT ![w] = t]
    /\ asked' = asked \cup {<<t.op, t.user>>}
    /\ outcome' = [outcome EXCEPT ![w] = "none"]
    /\ pc' = [pc EXCEPT ![w] = "read"]
    /\ UNCHANGED <<members, enabled, body, tries, edits>>
    /\ Observe

\* The runner hands a task to a free slot.  Principals that are not users are
\* refused before any call.
Start(w, t) ==
    /\ pc[w] = "idle"
    /\ started < MaxTasks
    /\ started' = started + 1
    /\ task' = [task EXCEPT ![w] = t]
    /\ IF t.user \in Users
       THEN /\ asked' = asked \cup {<<t.op, t.user>>}
            /\ outcome' = [outcome EXCEPT ![w] = "none"]
            /\ pc' = [pc EXCEPT ![w] = "read"]
       ELSE /\ outcome' = [outcome EXCEPT ![w] = "refused"]
            /\ UNCHANGED <<asked, pc>>
    /\ UNCHANGED <<members, enabled, body, tries, edits>>
    /\ Observe

\* Bug: a grant writes its user without the members it read.
Read_GrantAlone(w) ==
    /\ pc[w] = "read"
    /\ enabled
    /\ \/ /\ NothingToDo(task[w], members)
          /\ Finish(w, "already")
       \/ /\ ~NothingToDo(task[w], members)
          /\ body' = [body EXCEPT ![w] = IF task[w].op = "grant"
                                         THEN {task[w].user}
                                         ELSE members \ {task[w].user}]
          /\ pc' = [pc EXCEPT ![w] = "write"]
          /\ UNCHANGED <<task, tries, outcome, bounds, asked>>
    /\ UNCHANGED <<members, enabled>>
    /\ Observe

\* Slack answers with the members of the moment: done when the user is where
\* the task wants it, otherwise the handler prepares the whole new list.
Read(w) ==
    /\ pc[w] = "read"
    /\ enabled
    /\ \/ /\ NothingToDo(task[w], members)
          /\ Finish(w, "already")
       \/ /\ ~NothingToDo(task[w], members)
          /\ body' = [body EXCEPT ![w] = CarriedOut(task[w], members)]
          /\ pc' = [pc EXCEPT ![w] = "write"]
          /\ UNCHANGED <<task, tries, outcome, bounds, asked>>
    /\ UNCHANGED <<members, enabled>>
    /\ Observe

\* Slack puts the list it is sent, whatever the members have become, and its
\* answer arrives.
Write(w) ==
    /\ pc[w] = "write"
    /\ enabled
    /\ members' = body[w]
    /\ Finish(w, "ok")
    /\ UNCHANGED enabled
    /\ Observe

\* Slack puts the list but its answer is lost (the call looks unavailable)
\* or cannot be read (the task fails for good).
WriteReplyLost(w) ==
    /\ pc[w] = "write"
    /\ enabled
    /\ members' = body[w]
    /\ RunAgain(w) \/ Finish(w, "error")
    /\ UNCHANGED enabled
    /\ Observe

\* A call fails for now (ratelimited, internal_error, 5xx, a timeout) and has
\* no effect.
CallUnavailable(w) ==
    /\ pc[w] \in {"read", "write"}
    /\ RunAgain(w)
    /\ UNCHANGED <<members, enabled>>
    /\ Observe

\* Bug: the error of the call is dropped.
CallRejected_Swallowed(w) ==
    /\ pc[w] \in {"read", "write"}
    /\ Finish(w, "ok")
    /\ UNCHANGED <<members, enabled>>
    /\ Observe

\* A call fails for good.
CallRejected(w) ==
    /\ pc[w] \in {"read", "write"}
    /\ Finish(w, "error")
    /\ UNCHANGED <<members, enabled>>
    /\ Observe

\* Slack knows no active group of this id: no_such_subteam, which the client
\* maps to NotFound.
NoSuchSubteam(w) ==
    /\ pc[w] \in {"read", "write"}
    /\ ~enabled
    /\ Finish(w, "not_found")
    /\ UNCHANGED <<members, enabled>>
    /\ Observe

-----------------------------------------------------------------------------
\* The process dies and comes back: the tasks that ran have no outcome (they
\* may be delivered again).
Crash ==
    /\ \E w \in Workers : pc[w] # "idle"
    /\ pc' = [w \in Workers |-> "idle"]
    /\ outcome' = [w \in Workers |-> IF pc[w] = "idle" THEN outcome[w]
                                                      ELSE "lost"]
    /\ tries' = [w \in Workers |-> 0]
    /\ body' = [w \in Workers |-> {}]
    /\ UNCHANGED <<members, enabled, task, bounds, asked>>
    /\ Observe

\* An administrator changes the members of the group in Slack...
AdminEdit(r) ==
    /\ edits < MaxEdits
    /\ edits' = edits + 1
    /\ asked' = asked \cup {r}
    /\ members' = IF r[1] = "grant" THEN members \cup {r[2]} ELSE members \ {r[2]}
    /\ UNCHANGED <<enabled, handler, started>>
    /\ Observe

\* ... or disables the group, or enables it again.
AdminToggle ==
    /\ edits < MaxEdits
    /\ edits' = edits + 1
    /\ enabled' = ~enabled
    /\ UNCHANGED <<members, handler, started, asked>>
    /\ Observe

WorkerStep(w) ==
    \/ Read(w) \/ Write(w) \/ WriteReplyLost(w)
    \/ CallUnavailable(w) \/ CallRejected(w) \/ NoSuchSubteam(w)

Next ==
    \/ \E w \in Workers : \E t \in Tasks : Start(w, t)
    \/ \E w \in Workers : WorkerStep(w)
    \/ Crash
    \/ \E r \in {"grant", "revoke"} \X Users : AdminEdit(r)
    \/ AdminToggle

Spec == Init /\ [][Next]_vars

\* Goroutines are scheduled and every HTTP call returns in the end, with a
\* result or with an error.
FairSpec == Spec /\ \A w \in Workers : WF_vars(WorkerStep(w))

-----------------------------------------------------------------------------
TypeOK ==
    /\ members \subseteq Users
    /\ enabled \in BOOLEAN
    /\ pc \in [Workers -> {"idle", "read", "write"}]
    /\ task \in [Workers -> Tasks \cup {NoTask}]
    /\ body \in [Workers -> SUBSET Users]
    /\ tries \in [Workers -> Nat]
    /\ outcome \in [Workers -> {"none", "ok", "already", "refused", "error",
                               "not_found", "lost"}]
    /\ started \in Nat
    /\ edits \in Nat
    /\ asked \subseteq {"grant", "revoke"} \X Users
    /\ had \subseteq SUBSET Users
    /\ during \in [Workers -> SUBSET SUBSET Users]

\* A worker that is past its guard works on a request that was made, and has
\* not answered yet.
TasksInFlight ==
    \A w \in Workers : pc[w] # "idle" =>
        /\ outcome[w] = "none"
        /\ task[w] \in Tasks
        /\ <<task[w].op, task[w].user>> \in asked

\* The list a worker is about to write is its request carried out on a list
\* the group had since the task began: what the write may undo is what others
\* did meanwhile, never anything older (user_group.go:192-208, 245-265).
WritesAreRecent ==
    \A w \in Workers : pc[w] = "write" =>
        \E m \in during[w] : body[w] = CarriedOut(task[w], m)

\* A task that reports success has had its effect while it ran, also when it
\* found nothing to do: GrantAlreadyExists and GrantAlreadyRevoked are never
\* answered of a user that was on the other side all along.
SuccessIsReal ==
    \A w \in Workers : outcome[w] \in {"ok", "already"} =>
        \E m \in during[w] : NothingToDo(task[w], m)

\* A user nobody named is a member now exactly if it was one at the start,
\* however many tasks write whole lists over one another.
BystandersKept ==
    \A u \in Users :
        (\A r \in asked : r[2] # u) => (u \in members <=> u \in InitialMembers)

\* The group implements the abstract membership list, with any number of tasks
\* at once: a grant and a revoke are carried out on a list the group has had
\* (user_group.go:192-208, 245-265), the only thing usergroups.users.update
\* allows.
MembershipOf == INSTANCE Membership
    WITH Users <- Users, InitialMembers <- InitialMembers, InPlace <- {},
         members <- members, had <- had, asked <- asked
ImplementsMembership == MembershipOf!Spec

\* One worker and no administrator about: nothing is carried out on an old
\* list.
AtomicMembershipOf == INSTANCE Membership
    WITH Users <- Users, InitialMembers <- InitialMembers,
         InPlace <- {"grant", "revoke"},
         members <- members, had <- had, asked <- asked
ImplementsAtomicMembership == AtomicMembershipOf!Spec

\* Every task comes to an end, however often its calls fail.
TaskEnds == \A w \in Workers : pc[w] # "idle" ~> pc[w] = "idle"
=============================================================================
