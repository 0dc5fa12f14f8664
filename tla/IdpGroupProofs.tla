--------------------------- MODULE IdpGroupProofs ---------------------------
(***************************************************************************)
(* What holds of IdpGroup for any users, any workers, any number of tasks, *)
(* attempts and edits.                                                     *)
(***************************************************************************)
EXTENDS IdpGroup, TLAPS

\* A task is a sync, or a grant or a revoke of a principal.
LEMMA TaskShape ==
    ASSUME NEW t \in Tasks
    PROVE  /\ t.op \in {"grant", "revoke", "sync"}
           /\ t.op # "sync" => t.user \in Principals
<1>1. CASE t \in [op : Ops \ {"sync"}, user : Principals]
  BY <1>1, IdpGroupAssumption
<1>2. CASE t \notin [op : Ops \ {"sync"}, user : Principals]
  <2>1. t \in (IF "sync" \in Ops THEN {[op |-> "sync"]} ELSE {})
    BY <1>2 DEF Tasks
  <2>2. t = [op |-> "sync"]
    BY <2>1
  <2>3. QED BY <2>2
<1>3. QED BY <1>1, <1>2

USE DEF NoTask, RemoteCalls

-----------------------------------------------------------------------------
(* Type correctness. *)

\* What Finish, Report, GoTo and RunAgain leave well typed.
LEMMA FinishType ==
    ASSUME TypeOK, NEW w \in Workers,
           NEW how \in {"ok", "already_revoked", "error"}, Finish(w, how)
    PROVE  /\ pc' \in [Workers -> RemoteCalls \cup {"idle", "lookup", "store"}]
           /\ task' \in [Workers -> Tasks \cup {NoTask}]
           /\ body' \in [Workers -> SUBSET Users]
           /\ tries' \in [Workers -> Nat]
           /\ outcome' \in [Workers -> {"none", "ok", "already_revoked",
                                        "refused", "error", "lost"}]
           /\ config' \in Configs
           /\ started' \in Nat
           /\ edits' \in Nat
           /\ asked' \subseteq {"grant", "revoke"} \X Users
BY DEF TypeOK, Finish, bounds

LEMMA RunAgainType ==
    ASSUME TypeOK, NEW w \in Workers, RunAgain(w)
    PROVE  /\ pc' \in [Workers -> RemoteCalls \cup {"idle", "lookup", "store"}]
           /\ task' \in [Workers -> Tasks \cup {NoTask}]
           /\ body' \in [Workers -> SUBSET Users]
           /\ tries' \in [Workers -> Nat]
           /\ outcome' \in [Workers -> {"none", "ok", "already_revoked",
                                        "refused", "error", "lost"}]
           /\ config' \in Configs
           /\ started' \in Nat
           /\ edits' \in Nat
           /\ asked' \subseteq {"grant", "revoke"} \X Users
<1>1. CASE task[w].op # "sync" /\ tries[w] + 1 <= MaxAttempts
  BY <1>1 DEF TypeOK, RunAgain, FirstCall, bounds
<1>2. CASE ~(task[w].op # "sync" /\ tries[w] + 1 <= MaxAttempts)
  BY <1>2, FinishType DEF RunAgain
<1>3. QED BY <1>1, <1>2

LEMMA ObserveType ==
    ASSUME TypeOK, members' \subseteq Users, Observe
    PROVE  /\ had' \subseteq SUBSET Users
           /\ during' \in [Workers -> SUBSET SUBSET Users]
BY DEF TypeOK, Observe

\* A worker that writes works for a user, on a request that was made.
LEMMA WriterHasUser ==
    ASSUME TypeOK, TasksInFlight, NEW w \in Workers,
           pc[w] \in {"add", "replace"}
    PROVE  /\ task[w].user \in Users
           /\ <<task[w].op, task[w].user>> \in asked
           /\ Patched(w) \subseteq Users
<1>1. task[w].op # "sync" /\ pc[w] # "idle"
  BY DEF TasksInFlight
<1>2. <<task[w].op, task[w].user>> \in asked
  BY <1>1 DEF TasksInFlight
<1>3. task[w].user \in Users
  BY <1>2 DEF TypeOK
<1>4. QED BY <1>2, <1>3 DEF TypeOK, Patched

\* What a worker may do: its steps taken one by one.
LEMMA TypeInit == Init => TypeOK /\ TasksInFlight
BY IdpGroupAssumption DEF Init, TypeOK, TasksInFlight

LEMMA TypeStep == TypeOK /\ TasksInFlight /\ [Next]_vars => TypeOK'
<1> SUFFICES ASSUME TypeOK, TasksInFlight, [Next]_vars PROVE TypeOK'
  OBVIOUS
<1> USE IdpGroupAssumption
<1>1. ASSUME NEW w \in Workers, NEW t \in Tasks, Start(w, t) PROVE TypeOK'
  <2>1. /\ members' \subseteq Users
        /\ cache' \subseteq SUBSET Users
        /\ tries' \in [Workers -> Nat]
        /\ config' \in Configs
        /\ edits' \in Nat
        /\ started' \in Nat
        /\ body' \in [Workers -> SUBSET Users]
    BY <1>1 DEF TypeOK, Start
  <2>2. task' \in [Workers -> Tasks \cup {NoTask}]
    BY <1>1 DEF TypeOK, Start
  <2>3. /\ outcome' \in [Workers -> {"none", "ok", "already_revoked", "refused",
                                     "error", "lost"}]
        /\ pc' \in [Workers -> RemoteCalls \cup {"idle", "lookup", "store"}]
    BY <1>1 DEF TypeOK, Start, FirstCall
  <2>4. Request(t) \subseteq {"grant", "revoke"} \X Users
    BY TaskShape DEF Request
  <2>5. asked' \subseteq {"grant", "revoke"} \X Users
    BY <1>1, <2>4 DEF TypeOK, Start
  <2>6. /\ had' \subseteq SUBSET Users
        /\ during' \in [Workers -> SUBSET SUBSET Users]
    BY <1>1, <2>1, ObserveType DEF Start
  <2>7. QED BY <2>1, <2>2, <2>3, <2>5, <2>6 DEF TypeOK
<1>2. ASSUME NEW w \in Workers, Lookup(w) PROVE TypeOK'
  <2>1. members' \subseteq Users /\ Observe
    BY <1>2 DEF TypeOK, Lookup
  <2>2. QED BY <1>2, <2>1, ObserveType DEF TypeOK, Lookup, GoTo, bounds
<1>3. ASSUME NEW w \in Workers, Get(w) PROVE TypeOK'
  <2>1. members' \subseteq Users /\ Observe
    BY <1>3 DEF TypeOK, Get
  <2>2. QED BY <1>3, <2>1, ObserveType DEF TypeOK, Get, GoTo, bounds
<1>4. ASSUME NEW w \in Workers, Store(w) PROVE TypeOK'
  <2>1. members' \subseteq Users /\ Observe /\ cache' \subseteq SUBSET Users
    BY <1>4 DEF TypeOK, Store
  <2>2. CASE task[w].op = "sync" /\ Report(w)
    BY <2>1, <2>2, ObserveType DEF TypeOK, Report, bounds
  <2>3. CASE Finish(w, "already_revoked")
    BY <2>1, <2>3, ObserveType, FinishType DEF TypeOK
  <2>4. CASE GoTo(w, "replace") /\ UNCHANGED body
    BY <2>1, <2>4, ObserveType DEF TypeOK, GoTo, bounds
  <2>5. QED BY <1>4, <2>2, <2>3, <2>4 DEF Store
<1>5. ASSUME NEW w \in Workers, Patch(w) PROVE TypeOK'
  <2>1. members' \subseteq Users /\ Observe /\ cache' \subseteq SUBSET Users
    BY <1>5, WriterHasUser DEF TypeOK, Patch
  <2>2. QED BY <1>5, <2>1, ObserveType, FinishType DEF TypeOK, Patch
<1>6. ASSUME NEW w \in Workers, PatchReplyLost(w) PROVE TypeOK'
  <2>1. members' \subseteq Users /\ Observe /\ cache' \subseteq SUBSET Users
    BY <1>6, WriterHasUser DEF TypeOK, PatchReplyLost
  <2>2. QED
    BY <1>6, <2>1, ObserveType, FinishType, RunAgainType DEF TypeOK, PatchReplyLost
<1>7. ASSUME NEW w \in Workers, CallUnavailable(w) PROVE TypeOK'
  <2>1. members' \subseteq Users /\ Observe /\ cache' \subseteq SUBSET Users
    BY <1>7 DEF TypeOK, CallUnavailable
  <2>2. QED
    BY <1>7, <2>1, ObserveType, RunAgainType DEF TypeOK, CallUnavailable
<1>8. ASSUME NEW w \in Workers, CallRejected(w) PROVE TypeOK'
  <2>1. members' \subseteq Users /\ Observe /\ cache' \subseteq SUBSET Users
    BY <1>8 DEF TypeOK, CallRejected
  <2>2. QED
    BY <1>8, <2>1, ObserveType, FinishType DEF TypeOK, CallRejected
<1>9. CASE DropEntry
  <2>1. members' \subseteq Users /\ Observe
    BY <1>9 DEF TypeOK, DropEntry
  <2>2. QED BY <1>9, <2>1, ObserveType DEF TypeOK, DropEntry, handler, bounds
<1>10. CASE Crash
  <2>1. members' \subseteq Users /\ Observe
    BY <1>10 DEF TypeOK, Crash
  <2>2. QED BY <1>10, <2>1, ObserveType DEF TypeOK, Crash, bounds
<1>11. ASSUME NEW u \in Users, AdminEdit(u) PROVE TypeOK'
  <2>1. members' \subseteq Users /\ Observe
    BY <1>11 DEF TypeOK, AdminEdit
  <2>2. QED BY <1>11, <2>1, ObserveType DEF TypeOK, AdminEdit, handler
<1>12. CASE UNCHANGED vars
  BY <1>12 DEF TypeOK, vars
<1>13. QED
  BY <1>1, <1>2, <1>3, <1>4, <1>5, <1>6, <1>7, <1>8, <1>9, <1>10, <1>11, <1>12
  DEF Next, WorkerStep

LEMMA InFlightStep == TypeOK /\ TasksInFlight /\ [Next]_vars => TasksInFlight'
<1> SUFFICES ASSUME TypeOK, TasksInFlight, [Next]_vars PROVE TasksInFlight'
  OBVIOUS
<1>1. ASSUME NEW w \in Workers, NEW t \in Tasks, Start(w, t) PROVE TasksInFlight'
  <2>1. CASE Refused(t)
    BY <1>1, <2>1 DEF TypeOK, TasksInFlight, Start
  <2>2. CASE ~Refused(t)
    <3>1. t.op # "sync" => <<t.op, t.user>> \in asked'
      BY <1>1, <2>2 DEF Start, Refused, Request
    <3>2. t.op \in {"grant", "revoke", "sync"}
      BY TaskShape
    <3>3. QED BY <1>1, <2>2, <3>1, <3>2 DEF TypeOK, TasksInFlight, Start, FirstCall
  <2>3. QED BY <2>1, <2>2
<1>2. ASSUME NEW w \in Workers, Lookup(w) PROVE TasksInFlight'
  BY <1>2 DEF TypeOK, TasksInFlight, Lookup, GoTo, bounds
<1>3. ASSUME NEW w \in Workers, Get(w) PROVE TasksInFlight'
  BY <1>3 DEF TypeOK, TasksInFlight, Get, GoTo, bounds
<1>4. ASSUME NEW w \in Workers, NEW how, Finish(w, how) PROVE TasksInFlight'
  BY <1>4 DEF TypeOK, TasksInFlight, Finish, bounds
<1>5. ASSUME NEW w \in Workers, pc[w] # "idle", RunAgain(w) PROVE TasksInFlight'
  <2>1. CASE task[w].op # "sync" /\ tries[w] + 1 <= MaxAttempts
    <3>1. task[w].op \in {"grant", "revoke"}
      BY <1>5, <2>1 DEF TypeOK, TasksInFlight
    <3>2. QED BY <1>5, <2>1, <3>1
                 DEF TypeOK, TasksInFlight, RunAgain, FirstCall, bounds
  <2>2. CASE ~(task[w].op # "sync" /\ tries[w] + 1 <= MaxAttempts)
    BY <1>5, <2>2, <1>4 DEF RunAgain
  <2>3. QED BY <2>1, <2>2
<1>6. ASSUME NEW w \in Workers, Store(w) PROVE TasksInFlight'
  <2>1. CASE task[w].op = "sync" /\ Report(w)
    BY <2>1 DEF TypeOK, TasksInFlight, Report, bounds
  <2>2. CASE task[w].op = "revoke" /\ GoTo(w, "replace")
    BY <1>6, <2>2 DEF TypeOK, TasksInFlight, GoTo, Store, bounds
  <2>3. QED BY <1>6, <1>4, <2>1, <2>2 DEF Store
<1>7. ASSUME NEW w \in Workers,
             Patch(w) \/ PatchReplyLost(w) \/ CallUnavailable(w) \/ CallRejected(w)
      PROVE  TasksInFlight'
  BY <1>7, <1>4, <1>5
  DEF Patch, PatchReplyLost, CallUnavailable, CallRejected
<1>8. CASE DropEntry
  BY <1>8 DEF TasksInFlight, DropEntry, handler, bounds
<1>9. CASE Crash
  BY <1>9 DEF TasksInFlight, Crash
<1>10. ASSUME NEW u \in Users, AdminEdit(u) PROVE TasksInFlight'
  BY <1>10 DEF TasksInFlight, AdminEdit, handler
<1>11. CASE UNCHANGED vars
  BY <1>11 DEF TasksInFlight, vars
<1>12. QED
  BY <1>1, <1>2, <1>3, <1>6, <1>7, <1>8, <1>9, <1>10, <1>11
  DEF Next, WorkerStep

\* Slack's list holds users only, although the ids the tasks name need not be
\* users': the guards of Grant and Revoke (group.go:219, 265) keep the others
\* from every call.
THEOREM TypeCorrect == Spec => [](TypeOK /\ TasksInFlight)
<1>1. TypeOK /\ TasksInFlight /\ [Next]_vars => TypeOK' /\ TasksInFlight'
  BY TypeStep, InFlightStep
<1>2. QED BY <1>1, TypeInit, PTL DEF Spec

\* A worker only ever makes the calls of its task's handler, for a request
\* that was made: the guards of Grant, Revoke and Grants (group.go:116-292)
\* are not got round by a retry, a crash or another worker.
THEOREM TasksStayInFlight == Spec => []TasksInFlight
BY TypeCorrect, PTL

-----------------------------------------------------------------------------
(* Bystanders. *)

\* More requests name more users: fewer are bystanders.
LEMMA KeepsWithMore ==
    ASSUME NEW list, NEW a, NEW b, a \subseteq b, Keeps(list, a)
    PROVE  Keeps(list, b)
BY DEF Keeps

\* Putting a named user on a list, or taking it off, disturbs no bystander.
LEMMA KeepsNamed ==
    ASSUME NEW list, NEW a, NEW r \in a, Keeps(list, a)
    PROVE  Keeps(list \cup {r[2]}, a) /\ Keeps(list \ {r[2]}, a)
BY DEF Keeps

LEMMA KeepsPatched ==
    ASSUME TypeOK, TasksInFlight, BystandersKept, NEW w \in Workers,
           pc[w] \in {"add", "replace"}
    PROVE  Keeps(Patched(w), asked)
<1> DEFINE r == <<task[w].op, task[w].user>>
<1>1. r \in asked /\ r[2] = task[w].user
  BY WriterHasUser
<1>2. CASE pc[w] = "add"
  <2>1. Keeps(members \cup {r[2]}, asked)
    BY <1>1, KeepsNamed DEF BystandersKept
  <2>2. QED BY <1>1, <1>2, <2>1 DEF Patched
<1>3. CASE pc[w] = "replace"
  <2>1. Keeps(body[w], asked)
    BY <1>3 DEF BystandersKept, ReadsList
  <2>2. Keeps(body[w] \ {r[2]}, asked)
    BY <1>1, <2>1, KeepsNamed
  <2>3. QED BY <1>1, <1>3, <2>2 DEF Patched
<1>4. QED BY <1>2, <1>3

\* A handler that returns, or starts over, holds no list; the others hold
\* what they held.
LEMMA FinishReads ==
    ASSUME TypeOK, TasksInFlight, BystandersKept, NEW w \in Workers, pc[w] # "idle",
           \/ \E how \in {"ok", "already_revoked", "error"} :
                 Finish(w, how) /\ (how = "ok" => task[w].op # "sync")
           \/ RunAgain(w)
    PROVE  /\ asked' = asked
           /\ \A v \in Workers : ReadsList(v)' => Keeps(body'[v], asked')
<1>1. ASSUME NEW how \in {"ok", "already_revoked", "error"}, Finish(w, how),
             how = "ok" => task[w].op # "sync"
      PROVE  /\ asked' = asked
             /\ \A v \in Workers : ReadsList(v)' => Keeps(body'[v], asked')
  BY <1>1 DEF TypeOK, BystandersKept, ReadsList, Finish, bounds
<1>2. CASE RunAgain(w) /\ task[w].op # "sync" /\ tries[w] + 1 <= MaxAttempts
  BY <1>2 DEF TypeOK, BystandersKept, ReadsList, RunAgain, FirstCall, bounds
<1>3. QED BY <1>1, <1>2 DEF RunAgain

LEMMA BystandersStep ==
    TypeOK /\ TasksInFlight /\ BystandersKept /\ [Next]_vars => BystandersKept'
<1> SUFFICES ASSUME TypeOK, TasksInFlight, BystandersKept, [Next]_vars
             PROVE  BystandersKept'
  OBVIOUS
<1>1. ASSUME NEW w \in Workers, NEW t \in Tasks, Start(w, t) PROVE BystandersKept'
  <2>1. asked \subseteq asked' /\ members' = members /\ cache' = cache
    BY <1>1 DEF Start
  <2>2. Keeps(members', asked') /\ \A list \in cache' : Keeps(list, asked')
    BY <2>1, KeepsWithMore DEF BystandersKept
  <2>3. ASSUME NEW v \in Workers, ReadsList(v)' PROVE Keeps(body'[v], asked')
    <3>1. v # w /\ body'[v] = body[v] /\ ReadsList(v)
      BY <1>1, <2>3 DEF TypeOK, ReadsList, Start, FirstCall
    <3>2. QED BY <2>1, <3>1, KeepsWithMore DEF BystandersKept
  <2>4. QED BY <2>2, <2>3 DEF BystandersKept
<1>2. ASSUME NEW w \in Workers, Lookup(w) PROVE BystandersKept'
  BY <1>2 DEF TypeOK, BystandersKept, ReadsList, Lookup, GoTo, bounds
<1>3. ASSUME NEW w \in Workers, Get(w) PROVE BystandersKept'
  BY <1>3 DEF TypeOK, BystandersKept, ReadsList, Get, GoTo, bounds
<1>4. ASSUME NEW w \in Workers, Store(w) PROVE BystandersKept'
  <2>1. members' = members /\ pc[w] = "store" /\ Keeps(body[w], asked)
    BY <1>4 DEF Store, BystandersKept, ReadsList
  <2>2. asked' = asked /\ \A v \in Workers : ReadsList(v)' => Keeps(body'[v], asked')
    <3>1. CASE Report(w)
      BY <2>1, <3>1 DEF TypeOK, BystandersKept, ReadsList, Report, bounds
    <3>2. CASE Finish(w, "already_revoked")
      BY <2>1, <3>2, FinishReads
    <3>3. CASE GoTo(w, "replace") /\ UNCHANGED body
      BY <2>1, <3>3 DEF TypeOK, BystandersKept, ReadsList, GoTo, bounds
    <3>4. QED BY <1>4, <3>1, <3>2, <3>3 DEF Store
  <2>3. \A list \in cache' : Keeps(list, asked')
    BY <1>4, <2>1, <2>2 DEF Store
  <2>4. QED BY <2>1, <2>2, <2>3 DEF BystandersKept
<1>5. ASSUME NEW w \in Workers, Patch(w) \/ PatchReplyLost(w) PROVE BystandersKept'
  <2>1. members' = Patched(w) /\ cache' = cache /\ pc[w] \in {"add", "replace"}
    BY <1>5 DEF Patch, PatchReplyLost
  <2>2. pc[w] # "idle" /\ task[w].op # "sync"
    BY <2>1 DEF TasksInFlight
  <2>3. asked' = asked /\ \A v \in Workers : ReadsList(v)' => Keeps(body'[v], asked')
    BY <1>5, <2>2, FinishReads DEF Patch, PatchReplyLost
  <2>4. QED BY <2>1, <2>3, KeepsPatched DEF BystandersKept
<1>6. ASSUME NEW w \in Workers, CallUnavailable(w) \/ CallRejected(w)
      PROVE  BystandersKept'
  <2>1. members' = members /\ cache' = cache /\ pc[w] # "idle"
    BY <1>6 DEF CallUnavailable, CallRejected
  <2>2. asked' = asked /\ \A v \in Workers : ReadsList(v)' => Keeps(body'[v], asked')
    BY <1>6, <2>1, FinishReads DEF CallUnavailable, CallRejected
  <2>3. QED BY <2>1, <2>2 DEF BystandersKept
<1>7. CASE DropEntry
  BY <1>7 DEF BystandersKept, ReadsList, DropEntry, handler, bounds
<1>8. CASE Crash
  BY <1>8 DEF TypeOK, TasksInFlight, BystandersKept, ReadsList, Crash, bounds
<1>9. ASSUME NEW u \in Users, AdminEdit(u) PROVE BystandersKept'
  <2>1. PICK op \in {"grant", "revoke"} : asked' = asked \cup {<<op, u>>}
    BY <1>9 DEF AdminEdit
  <2>2. members' = members \cup {u} \/ members' = members \ {u}
    BY <1>9 DEF AdminEdit
  <2>3. Keeps(members, asked') /\ <<op, u>> \in asked' /\ <<op, u>>[2] = u
    BY <2>1, KeepsWithMore DEF BystandersKept
  <2>4. Keeps(members \cup {u}, asked') /\ Keeps(members \ {u}, asked')
    BY <2>3, KeepsNamed
  <2>5. \A list \in cache' : Keeps(list, asked')
    BY <1>9, <2>1, KeepsWithMore DEF AdminEdit, BystandersKept
  <2>6. ASSUME NEW v \in Workers, ReadsList(v)' PROVE Keeps(body'[v], asked')
    <3>1. body'[v] = body[v] /\ ReadsList(v)
      BY <1>9, <2>6 DEF AdminEdit, ReadsList, handler
    <3>2. QED BY <2>1, <3>1, KeepsWithMore DEF BystandersKept
  <2>7. QED BY <2>2, <2>4, <2>5, <2>6 DEF BystandersKept
<1>10. CASE UNCHANGED vars
  BY <1>10 DEF BystandersKept, ReadsList, vars
<1>11. QED
  BY <1>1, <1>2, <1>3, <1>4, <1>5, <1>6, <1>7, <1>8, <1>9, <1>10
  DEF Next, WorkerStep

\* Whatever the interleaving of tasks, the age of the cached list, the answers
\* that are lost and the crashes: a revoke that writes back the whole list
\* (slack.go:608-626) never adds or removes a user nobody named.
THEOREM BystandersAreKept == Spec => []BystandersKept
<1>1. Init => BystandersKept
  BY DEF Init, BystandersKept, ReadsList, Keeps
<1>2. QED BY <1>1, TypeCorrect, BystandersStep, PTL DEF Spec

-----------------------------------------------------------------------------
(* What the outcomes mean. *)

\* The history of a worker that is busy has the list of the moment; the one
\* of a worker that stays idle does not change.
LEMMA ObserveBusy ==
    ASSUME TypeOK, Observe, NEW w \in Workers
    PROVE  /\ pc[w] # "idle" => during'[w] = during[w] \cup {members'}
           /\ pc[w] = "idle" /\ pc'[w] = "idle" => during'[w] = during[w]
           /\ pc[w] = "idle" /\ pc'[w] # "idle" => during'[w] = {members'}
BY DEF Observe

\* Once a worker is done, what was true of its history stays true until it
\* starts another task.
LEMMA OutcomeStays ==
    ASSUME TypeOK, TasksInFlight, [Next]_vars, NEW w \in Workers,
           pc[w] = "idle", outcome'[w] \in {"ok", "already_revoked"}
    PROVE  /\ outcome'[w] = outcome[w]
           /\ task'[w] = task[w]
           /\ during'[w] = during[w]
<1>1. ASSUME NEW v \in Workers, NEW t \in Tasks, Start(v, t)
      PROVE  /\ pc'[w] = "idle" /\ outcome'[w] = outcome[w] /\ task'[w] = task[w]
             /\ Observe
  BY <1>1 DEF TypeOK, Start
<1>2. ASSUME NEW v \in Workers, WorkerStep(v)
      PROVE  /\ pc'[w] = "idle" /\ outcome'[w] = outcome[w] /\ task'[w] = task[w]
             /\ Observe
  <2>1. v # w /\ Observe
    BY <1>2 DEF WorkerStep, Lookup, Get, Store, Patch, PatchReplyLost,
                CallUnavailable, CallRejected, RemoteCalls
  <2>2. \/ \E call : GoTo(v, call)
        \/ Report(v)
        \/ \E how : Finish(v, how)
        \/ RunAgain(v)
    BY <1>2 DEF WorkerStep, Lookup, Get, Store, Patch, PatchReplyLost,
                CallUnavailable, CallRejected
  <2>3. QED BY <2>1, <2>2 DEF TypeOK, GoTo, Report, Finish, RunAgain
<1>3. CASE DropEntry
  BY <1>3, ObserveBusy DEF DropEntry, handler
<1>4. CASE Crash
  BY <1>4, ObserveBusy DEF TypeOK, Crash
<1>5. ASSUME NEW u \in Users, AdminEdit(u)
      PROVE  during'[w] = during[w] /\ UNCHANGED handler
  BY <1>5, ObserveBusy DEF AdminEdit, handler
<1>6. CASE UNCHANGED vars
  BY <1>6 DEF vars
<1>7. QED
  BY <1>1, <1>2, <1>3, <1>4, <1>5, <1>6, ObserveBusy DEF Next, handler

\* A worker that is busy is done, with success, only by its PATCH, its report,
\* or by not finding the user in the list it read.
LEMMA OutcomeComes ==
    ASSUME TypeOK, TasksInFlight, [Next]_vars, NEW w \in Workers,
           pc[w] # "idle", outcome'[w] \in {"ok", "already_revoked"}
    PROVE  /\ task'[w] = task[w]
           /\ during'[w] = during[w] \cup {members'}
           /\ \/ Patch(w) /\ outcome'[w] = "ok"
              \/ pc[w] = "store" /\ task[w].op = "sync" /\ Report(w)
              \/ /\ pc[w] = "store" /\ outcome'[w] = "already_revoked"
                 /\ task[w].user \notin body[w]
<1>1. outcome[w] = "none"
  BY DEF TasksInFlight
<1>2. outcome'[w] # outcome[w]
  BY <1>1
<1>3. ASSUME NEW v \in Workers, NEW t \in Tasks, Start(v, t) PROVE FALSE
  BY <1>2, <1>3 DEF TypeOK, Start
<1>4. ASSUME NEW v \in Workers, WorkerStep(v) PROVE v = w
  <2>1. \/ \E call : GoTo(v, call)
        \/ Report(v)
        \/ \E how : Finish(v, how)
        \/ RunAgain(v)
    BY <1>4 DEF WorkerStep, Lookup, Get, Store, Patch, PatchReplyLost,
                CallUnavailable, CallRejected
  <2>2. QED BY <1>2, <2>1 DEF TypeOK, GoTo, Report, Finish, RunAgain
<1>5. ~DropEntry /\ ~Crash /\ ~(\E u \in Users : AdminEdit(u)) /\ ~UNCHANGED vars
  BY <1>2 DEF TypeOK, DropEntry, Crash, AdminEdit, handler, vars
<1>6. WorkerStep(w)
  BY <1>3, <1>4, <1>5 DEF Next
<1>7. Observe
  BY <1>6 DEF WorkerStep, Lookup, Get, Store, Patch, PatchReplyLost,
              CallUnavailable, CallRejected
<1>8. ~RunAgain(w) /\ ~Finish(w, "error") /\ ~(\E call : GoTo(w, call))
  BY <1>2 DEF TypeOK, RunAgain, Finish, GoTo
<1>9. Store(w) \/ Patch(w)
  BY <1>6, <1>8 DEF WorkerStep, Lookup, Get, PatchReplyLost, CallUnavailable,
                    CallRejected
<1>10. CASE Store(w)
  BY <1>7, <1>8, <1>10, ObserveBusy DEF TypeOK, Store, Report, Finish
<1>11. CASE Patch(w)
  BY <1>7, <1>11, ObserveBusy DEF TypeOK, Patch, Finish
<1>12. QED BY <1>9, <1>10, <1>11

LEMMA OkStep ==
    TypeOK /\ TasksInFlight /\ OkIsApplied /\ [Next]_vars => OkIsApplied'
<1> SUFFICES ASSUME TypeOK, TasksInFlight, OkIsApplied, [Next]_vars,
                    NEW w \in Workers, outcome'[w] = "ok"
             PROVE  /\ task'[w].op = "grant" =>
                          \E m \in during'[w] : task'[w].user \in m
                    /\ task'[w].op = "revoke" =>
                          \E m \in during'[w] : task'[w].user \notin m
  BY DEF OkIsApplied
<1>1. CASE pc[w] = "idle"
  BY <1>1, OutcomeStays DEF OkIsApplied
<1>2. CASE pc[w] # "idle"
  <2>1. task'[w] = task[w] /\ members' \in during'[w]
    BY <1>2, OutcomeComes
  <2>2. CASE Patch(w)
    <3>1. task[w].op = "grant" => task[w].user \in members'
      BY <2>2 DEF Patch, Patched, TasksInFlight
    <3>2. task[w].op = "revoke" => task[w].user \notin members'
      BY <2>2 DEF Patch, Patched, TasksInFlight
    <3>3. QED BY <2>1, <3>1, <3>2
  <2>3. CASE task[w].op = "sync"
    BY <2>1, <2>3
  <2>4. QED BY <1>2, <2>2, <2>3, OutcomeComes
<1>3. QED BY <1>1, <1>2

\* A grant or a revoke that reports success has had its effect, also when it
\* worked on an old list, was run again, or ran with others.
THEOREM OkIsAlwaysApplied == Spec => []OkIsApplied
<1>1. Init => OkIsApplied
  BY DEF Init, OkIsApplied
<1>2. QED BY <1>1, TypeCorrect, OkStep, PTL DEF Spec

-----------------------------------------------------------------------------
(* Without the cache. *)

NoEntry == ~CacheEnabled => cache = {}

\* The configuration stays what it is.
LEMMA ConfigStays == [Next]_vars => config' = config
BY DEF Next, vars, Start, WorkerStep, Lookup, Get, Store, Patch, PatchReplyLost,
       CallUnavailable, CallRejected, DropEntry, Crash, AdminEdit, GoTo, Report,
       Finish, RunAgain, bounds

LEMMA NoEntryStep == NoEntry /\ [Next]_vars => NoEntry'
<1> SUFFICES ASSUME NoEntry, [Next]_vars, ~CacheEnabled PROVE cache' = {}
  BY ConfigStays DEF NoEntry, CacheEnabled
<1>1. cache = {}
  BY DEF NoEntry
<1>2. QED
  BY <1>1 DEF Next, vars, Start, WorkerStep, Lookup, Get, Store, Patch,
       PatchReplyLost, CallUnavailable, CallRejected, DropEntry, Crash, AdminEdit

LEMMA FreshStep ==
    TypeOK /\ TasksInFlight /\ NoEntry /\ ReadsAreFresh /\ [Next]_vars
        => ReadsAreFresh'
<1> SUFFICES ASSUME TypeOK, TasksInFlight, NoEntry, ReadsAreFresh, [Next]_vars,
                    ~CacheEnabled, NEW w \in Workers, ReadsList(w)'
             PROVE  body'[w] \in during'[w]
  BY ConfigStays DEF ReadsAreFresh, CacheEnabled
<1>1. ASSUME NEW v \in Workers, NEW t \in Tasks, Start(v, t)
      PROVE  body'[w] \in during'[w]
  <2>1. v # w /\ body'[w] = body[w] /\ pc'[w] = pc[w] /\ ReadsList(w) /\ Observe
    BY <1>1 DEF TypeOK, ReadsList, Start, FirstCall
  <2>2. QED BY <2>1, ObserveBusy DEF ReadsAreFresh, ReadsList
<1>2. ASSUME NEW v \in Workers, WorkerStep(v), v # w
      PROVE  body'[w] \in during'[w]
  <2>1. \/ \E call : GoTo(v, call) /\ (body' = body \/ \E l : body' = [body EXCEPT ![v] = l])
        \/ Report(v)
        \/ \E how : Finish(v, how)
        \/ RunAgain(v)
    BY <1>2 DEF WorkerStep, Lookup, Get, Store, Patch, PatchReplyLost,
                CallUnavailable, CallRejected
  <2>2. body'[w] = body[w] /\ pc'[w] = pc[w] /\ ReadsList(w)
    BY <1>2, <2>1 DEF TypeOK, ReadsList, GoTo, Report, Finish, RunAgain
  <2>3. Observe
    BY <1>2 DEF WorkerStep, Lookup, Get, Store, Patch, PatchReplyLost,
                CallUnavailable, CallRejected
  <2>4. QED BY <2>2, <2>3, ObserveBusy DEF ReadsAreFresh, ReadsList
<1>3. CASE Lookup(w)
  BY <1>3 DEF TypeOK, NoEntry, ReadsList, Lookup, GoTo
<1>4. CASE Get(w)
  <2>1. body'[w] = members' /\ pc[w] # "idle" /\ Observe
    BY <1>4 DEF TypeOK, Get
  <2>2. QED BY <2>1, ObserveBusy
<1>5. CASE Store(w)
  <2>1. body[w] \in during[w] /\ pc[w] # "idle" /\ Observe
    BY <1>5 DEF ReadsAreFresh, ReadsList, Store
  <2>2. body'[w] = body[w]
    BY <1>5 DEF TypeOK, TasksInFlight, ReadsList, Store, Report, Finish, GoTo
  <2>3. QED BY <2>1, <2>2, ObserveBusy
<1>6. CASE Patch(w) \/ PatchReplyLost(w) \/ CallUnavailable(w) \/ CallRejected(w)
  <2>1. pc[w] # "idle" /\ (\/ \E how \in {"ok", "error"} : Finish(w, how)
                            \/ RunAgain(w))
    BY <1>6 DEF Patch, PatchReplyLost, CallUnavailable, CallRejected, RemoteCalls
  <2>2. CASE RunAgain(w)
    BY <2>1, <2>2 DEF TypeOK, TasksInFlight, ReadsList, RunAgain, Finish, FirstCall
  <2>3. CASE \E how \in {"ok", "error"} : Finish(w, how)
    <3>1. CASE Patch(w)
      BY <3>1 DEF TypeOK, TasksInFlight, ReadsList, Patch, Finish
    <3>2. CASE ~Patch(w)
      <4>1. Finish(w, "error") \/ RunAgain(w)
        BY <1>6, <3>2 DEF PatchReplyLost, CallUnavailable, CallRejected
      <4>2. QED BY <2>2, <4>1 DEF TypeOK, ReadsList, Finish
    <3>3. QED BY <3>1, <3>2
  <2>4. QED BY <2>1, <2>2, <2>3
<1>7. CASE DropEntry
  BY <1>7, ObserveBusy DEF ReadsAreFresh, ReadsList, DropEntry, handler
<1>8. CASE Crash
  <2>1. pc[w] = "idle" /\ body'[w] = body[w] /\ ReadsList(w) /\ Observe /\ pc'[w] = "idle"
    BY <1>8 DEF TypeOK, ReadsList, Crash
  <2>2. QED BY <2>1, ObserveBusy DEF ReadsAreFresh
<1>9. ASSUME NEW u \in Users, AdminEdit(u) PROVE body'[w] \in during'[w]
  BY <1>9, ObserveBusy DEF ReadsAreFresh, ReadsList, AdminEdit, handler
<1>10. CASE UNCHANGED vars
  BY <1>10 DEF ReadsAreFresh, ReadsList, vars
<1>11. QED
  BY <1>1, <1>2, <1>3, <1>4, <1>5, <1>6, <1>7, <1>8, <1>9, <1>10
  DEF Next, WorkerStep

LEMMA AlreadyRevokedStep ==
    TypeOK /\ TasksInFlight /\ ReadsAreFresh /\ AlreadyRevokedIsTrue /\ [Next]_vars
        => AlreadyRevokedIsTrue'
<1> SUFFICES ASSUME TypeOK, TasksInFlight, ReadsAreFresh, AlreadyRevokedIsTrue,
                    [Next]_vars, ~CacheEnabled, NEW w \in Workers,
                    outcome'[w] = "already_revoked"
             PROVE  \E m \in during'[w] : task'[w].user \notin m
  BY ConfigStays DEF AlreadyRevokedIsTrue, CacheEnabled
<1>1. CASE pc[w] = "idle"
  BY <1>1, OutcomeStays DEF AlreadyRevokedIsTrue
<1>2. CASE pc[w] # "idle"
  <2>1. ~Report(w)
    BY DEF TypeOK, Report
  <2>2. pc[w] = "store" /\ task[w].user \notin body[w]
    BY <1>2, <2>1, OutcomeComes
  <2>3. body[w] \in during'[w] /\ task'[w] = task[w]
    BY <1>2, <2>2, OutcomeComes DEF ReadsAreFresh, ReadsList
  <2>4. QED BY <2>2, <2>3
<1>3. QED BY <1>1, <1>2

\* With the HTTP cache off a handler never works on a list older than its
\* task, and a revoke says GrantAlreadyRevoked only when it is true, with any
\* number of tasks at once.  With the cache on both are false.
THEOREM UncachedReadsAreFresh == Spec => [](ReadsAreFresh /\ AlreadyRevokedIsTrue)
<1>1. Init => NoEntry /\ ReadsAreFresh /\ AlreadyRevokedIsTrue
  BY DEF Init, NoEntry, ReadsAreFresh, ReadsList, AlreadyRevokedIsTrue
<1>2. NoEntry /\ [Next]_vars => NoEntry'
  BY NoEntryStep
<1>3. QED
  BY <1>1, <1>2, TypeCorrect, FreshStep, AlreadyRevokedStep, PTL DEF Spec

\* The answer GrantAlreadyRevoked (group.go:285), by itself.
THEOREM UncachedAlreadyRevoked == Spec => []AlreadyRevokedIsTrue
BY UncachedReadsAreFresh, PTL

-----------------------------------------------------------------------------
(* GovSlack. *)

GovSyncsOnly == GovEnv => \A w \in Workers : pc[w] # "idle" => task[w].op = "sync"

LEMMA GovSyncsOnlyStep == TypeOK /\ GovSyncsOnly /\ [Next]_vars => GovSyncsOnly'
<1> SUFFICES ASSUME TypeOK, GovSyncsOnly, [Next]_vars, GovEnv,
                    NEW w \in Workers, pc'[w] # "idle"
             PROVE  task'[w].op = "sync"
  BY ConfigStays DEF GovSyncsOnly, GovEnv
<1>1. ASSUME NEW v \in Workers, NEW t \in Tasks, Start(v, t)
      PROVE  task'[w].op = "sync"
  BY <1>1 DEF TypeOK, GovSyncsOnly, Start, Refused
<1>2. ASSUME NEW v \in Workers, WorkerStep(v) PROVE task'[w].op = "sync"
  <2>1. \/ \E call : GoTo(v, call)
        \/ Report(v)
        \/ \E how : Finish(v, how)
        \/ RunAgain(v)
    BY <1>2 DEF WorkerStep, Lookup, Get, Store, Patch, PatchReplyLost,
                CallUnavailable, CallRejected
  <2>2. task' = task /\ pc[v] # "idle"
    BY <1>2, <2>1
    DEF GoTo, Report, Finish, RunAgain, WorkerStep, Lookup, Get, Store, Patch,
        PatchReplyLost, CallUnavailable, CallRejected, RemoteCalls
  <2>3. pc[w] # "idle"
    BY <2>1, <2>2 DEF TypeOK, GoTo, Report, Finish, RunAgain
  <2>4. QED BY <2>2, <2>3 DEF GovSyncsOnly
<1>3. ~Crash
  BY DEF Crash
<1>4. CASE DropEntry \/ (\E u \in Users : AdminEdit(u)) \/ UNCHANGED vars
  BY <1>4 DEF GovSyncsOnly, DropEntry, AdminEdit, handler, vars
<1>5. QED BY <1>1, <1>2, <1>3, <1>4 DEF Next

\* In GovSlack the connector never changes a SCIM group, whatever it is asked
\* (group.go:210, 256).
THEOREM GovIsReadOnly == Spec => GovReadOnly
<1>1. Init => GovSyncsOnly
  BY DEF Init, GovSyncsOnly
<1>2. TypeOK /\ TasksInFlight /\ GovSyncsOnly /\ [Next]_vars
        => [GovEnv => members' = members \/ edits' # edits]_vars
  <2> SUFFICES ASSUME TypeOK, TasksInFlight, GovSyncsOnly, [Next]_vars, GovEnv
               PROVE  members' = members \/ edits' # edits
    OBVIOUS
  <2>1. ASSUME NEW w \in Workers, Patch(w) \/ PatchReplyLost(w) PROVE FALSE
    BY <2>1 DEF GovSyncsOnly, TasksInFlight, Patch, PatchReplyLost
  <2>2. ASSUME NEW u \in Users, AdminEdit(u) PROVE edits' # edits
    BY <2>2 DEF TypeOK, AdminEdit
  <2>3. QED
    BY <2>1, <2>2
    DEF Next, vars, Start, WorkerStep, Lookup, Get, Store, CallUnavailable,
        CallRejected, DropEntry, Crash
<1>3. QED
  BY <1>1, <1>2, TypeCorrect, GovSyncsOnlyStep, PTL DEF Spec, GovReadOnly

-----------------------------------------------------------------------------
(* The group implements the abstract membership list. *)

\* Every list a worker works on, or the cache holds, the group has had.
ListsWereReal ==
    /\ members \in had
    /\ cache \subseteq had
    /\ \A w \in Workers : ReadsList(w) => body[w] \in had

LEMMA StepObserves ==
    ASSUME [Next]_vars
    PROVE  had \subseteq had' /\ (Observe \/ UNCHANGED vars)
BY DEF Next, vars, Start, WorkerStep, Lookup, Get, Store, Patch, PatchReplyLost,
       CallUnavailable, CallRejected, DropEntry, Crash, AdminEdit, Observe

\* The step of one worker leaves the list of another one alone.
LEMMA OthersReads ==
    ASSUME TypeOK, NEW v \in Workers, NEW w \in Workers, v # w,
           \/ WorkerStep(v)
           \/ \E t \in Tasks : Start(v, t)
    PROVE  body'[w] = body[w] /\ (ReadsList(w)' => ReadsList(w))
<1>1. CASE WorkerStep(v)
  <2>1. \/ \E call : GoTo(v, call) /\ (body' = body \/ \E l : body' = [body EXCEPT ![v] = l])
        \/ Report(v)
        \/ \E how : Finish(v, how)
        \/ RunAgain(v)
    BY <1>1 DEF WorkerStep, Lookup, Get, Store, Patch, PatchReplyLost,
                CallUnavailable, CallRejected
  <2>2. QED BY <2>1 DEF TypeOK, ReadsList, GoTo, Report, Finish, RunAgain
<1>2. CASE \E t \in Tasks : Start(v, t)
  BY <1>2 DEF TypeOK, ReadsList, Start
<1>3. QED BY <1>1, <1>2

LEMMA RealListsStep ==
    TypeOK /\ TasksInFlight /\ ListsWereReal /\ [Next]_vars => ListsWereReal'
<1> SUFFICES ASSUME TypeOK, TasksInFlight, ListsWereReal, [Next]_vars
             PROVE  ListsWereReal'
  OBVIOUS
<1>1. members' \in had' /\ had \subseteq had'
  BY StepObserves DEF ListsWereReal, Observe, vars
<1>2. cache' \subseteq had'
  <2>1. ASSUME NEW w \in Workers, Store(w) PROVE cache' \subseteq had'
    BY <1>1, <2>1 DEF ListsWereReal, Store, ReadsList
  <2>2. CASE cache' = cache \/ cache' = {}
    BY <1>1, <2>2 DEF ListsWereReal
  <2>3. QED
    BY <2>1, <2>2 DEF Next, vars, Start, WorkerStep, Lookup, Get, Patch,
       PatchReplyLost, CallUnavailable, CallRejected, DropEntry, Crash, AdminEdit
<1>3. ASSUME NEW w \in Workers, ReadsList(w)' PROVE body'[w] \in had'
  <2>1. ASSUME NEW v \in Workers, NEW t \in Tasks, Start(v, t)
        PROVE  body'[w] \in had'
    <3>1. v # w
      BY <1>3, <2>1 DEF TypeOK, ReadsList, Start, FirstCall
    <3>2. QED BY <1>1, <1>3, <2>1, <3>1, OthersReads DEF ListsWereReal
  <2>2. ASSUME NEW v \in Workers, WorkerStep(v), v # w PROVE body'[w] \in had'
    BY <1>1, <1>3, <2>2, OthersReads DEF ListsWereReal
  <2>3. CASE Lookup(w)
    BY <1>1, <1>3, <2>3 DEF TypeOK, ListsWereReal, ReadsList, Lookup, GoTo
  <2>4. CASE Get(w)
    BY <1>1, <2>4 DEF TypeOK, ListsWereReal, Get
  <2>5. CASE Store(w)
    <3>1. body[w] \in had
      BY <2>5 DEF ListsWereReal, ReadsList, Store
    <3>2. body'[w] = body[w]
      BY <1>3, <2>5 DEF TypeOK, TasksInFlight, ReadsList, Store, Report, Finish, GoTo
    <3>3. QED BY <1>1, <3>1, <3>2
  <2>6. CASE Patch(w) \/ PatchReplyLost(w) \/ CallUnavailable(w) \/ CallRejected(w)
    <3>1. \/ Patch(w) /\ Finish(w, "ok")
          \/ Finish(w, "error")
          \/ RunAgain(w)
      BY <2>6 DEF Patch, PatchReplyLost, CallUnavailable, CallRejected
    <3>2. ~ReadsList(w)'
      BY <3>1 DEF TypeOK, TasksInFlight, ReadsList, Patch, Finish, RunAgain, FirstCall
    <3>3. QED BY <1>3, <3>2
  <2>7. CASE DropEntry \/ Crash \/ (\E u \in Users : AdminEdit(u)) \/ UNCHANGED vars
    <3>1. body'[w] = body[w] /\ ReadsList(w)
      BY <1>3, <2>7 DEF TypeOK, ReadsList, DropEntry, Crash, AdminEdit, handler, vars
    <3>2. QED BY <1>1, <3>1 DEF ListsWereReal
  <2>8. QED
    BY <2>1, <2>2, <2>3, <2>4, <2>5, <2>6, <2>7 DEF Next, WorkerStep
<1>4. QED BY <1>1, <1>2, <1>3 DEF ListsWereReal

\* When no task is a revoke no worker replaces the list.
LEMMA NoReplace ==
    ASSUME "revoke" \notin Ops, TypeOK, TasksInFlight, NEW w \in Workers
    PROVE  pc[w] # "replace"
<1>1. ASSUME NEW t \in Tasks PROVE t.op # "revoke"
  <2>1. CASE t \in [op : Ops \ {"sync"}, user : Principals]
    BY <2>1
  <2>2. CASE t \notin [op : Ops \ {"sync"}, user : Principals]
    <3>1. t \in (IF "sync" \in Ops THEN {[op |-> "sync"]} ELSE {})
      BY <2>2 DEF Tasks
    <3>2. t = [op |-> "sync"]
      BY <3>1
    <3>3. QED BY <3>2
  <2>3. QED BY <2>1, <2>2
<1>2. SUFFICES ASSUME pc[w] = "replace" PROVE FALSE
  OBVIOUS
<1>3. task[w].op = "revoke"
  BY <1>2 DEF TasksInFlight
<1>4. task[w] \in Tasks
  BY <1>3 DEF TypeOK
<1>5. QED BY <1>1, <1>3, <1>4

\* A step, as the abstract list sees it: a request is asked for, carried out
\* on a list the group has had (a grant on the members of the moment), made
\* by an administrator; or nothing happens to the group.
LEMMA StepOfTheList ==
    ASSUME TypeOK, TasksInFlight, ListsWereReal, [Next]_vars
    PROVE  \/ UNCHANGED <<members, had, asked>>
           \/ \E r \in {"grant", "revoke"} \X Users :
                /\ asked' = asked \cup {r}
                /\ UNCHANGED <<members, had>>
           \/ \E r \in asked : \E m \in had :
                /\ r \in {"grant", "revoke"} \X Users
                /\ r[1] = "grant" => m = members
                /\ "revoke" \notin Ops => r[1] = "grant"
                /\ members' = IF r[1] = "grant" THEN m \cup {r[2]} ELSE m \ {r[2]}
                /\ had' = had \cup {members'}
                /\ asked' = asked
           \/ \E r \in {"grant", "revoke"} \X Users :
                /\ asked' = asked \cup {r}
                /\ members' = IF r[1] = "grant" THEN members \cup {r[2]}
                                                ELSE members \ {r[2]}
                /\ had' = had \cup {members'}
<1> DEFINE Goal ==
           \/ UNCHANGED <<members, had, asked>>
           \/ \E r \in {"grant", "revoke"} \X Users :
                /\ asked' = asked \cup {r}
                /\ UNCHANGED <<members, had>>
           \/ \E r \in asked : \E m \in had :
                /\ r \in {"grant", "revoke"} \X Users
                /\ r[1] = "grant" => m = members
                /\ "revoke" \notin Ops => r[1] = "grant"
                /\ members' = IF r[1] = "grant" THEN m \cup {r[2]} ELSE m \ {r[2]}
                /\ had' = had \cup {members'}
                /\ asked' = asked
           \/ \E r \in {"grant", "revoke"} \X Users :
                /\ asked' = asked \cup {r}
                /\ members' = IF r[1] = "grant" THEN members \cup {r[2]}
                                                ELSE members \ {r[2]}
                /\ had' = had \cup {members'}
<1>1. members \in had
  BY DEF ListsWereReal
<1>2. members' = members => had' = had
  BY <1>1, StepObserves DEF Observe, vars
<1>3. Observe => had' = had \cup {members'}
  BY DEF Observe
<1>4. ASSUME NEW w \in Workers, NEW t \in Tasks, Start(w, t) PROVE Goal
  <2>1. members' = members /\ had' = had /\ asked' = asked \cup Request(t)
    BY <1>2, <1>4 DEF Start
  <2>2. CASE Request(t) = {}
    BY <2>1, <2>2
  <2>3. CASE Request(t) # {}
    <3>1. t.op # "sync" /\ t.user \in Users /\ Request(t) = {<<t.op, t.user>>}
      BY <2>3 DEF Request
    <3>2. <<t.op, t.user>> \in {"grant", "revoke"} \X Users
      BY <3>1, TaskShape
    <3>3. QED BY <2>1, <3>1, <3>2
  <2>4. QED BY <2>2, <2>3
<1>5. ASSUME NEW w \in Workers, Patch(w) \/ PatchReplyLost(w) PROVE Goal
  <2> DEFINE r == <<task[w].op, task[w].user>>
             m == IF pc[w] = "add" THEN members ELSE body[w]
  <2>1. /\ members' = Patched(w) /\ asked' = asked /\ pc[w] \in {"add", "replace"}
        /\ had' = had \cup {members'}
    BY <1>3, <1>5 DEF Patch, PatchReplyLost, Finish, RunAgain
  <2>2. /\ r \in asked /\ r \in {"grant", "revoke"} \X Users
        /\ r[1] = task[w].op /\ r[2] = task[w].user
    BY <2>1, WriterHasUser DEF TypeOK
  <2>3. r[1] = "grant" <=> pc[w] = "add"
    BY <2>1, <2>2 DEF TasksInFlight
  <2>4. m \in had /\ (r[1] = "grant" => m = members)
    BY <1>1, <2>1, <2>3 DEF ListsWereReal, ReadsList
  <2>5. members' = IF r[1] = "grant" THEN m \cup {r[2]} ELSE m \ {r[2]}
    BY <2>1, <2>2, <2>3 DEF Patched
  <2>6. "revoke" \notin Ops => r[1] = "grant"
    BY <2>1, <2>3, NoReplace
  <2>7. QED BY <2>1, <2>2, <2>4, <2>5, <2>6
<1>6. ASSUME NEW w \in Workers,
             \/ Lookup(w) \/ Get(w) \/ Store(w)
             \/ CallUnavailable(w) \/ CallRejected(w)
      PROVE  Goal
  BY <1>2, <1>6 DEF Lookup, Get, Store, CallUnavailable, CallRejected, GoTo,
                    Report, Finish, RunAgain
<1>7. ASSUME NEW u \in Users, AdminEdit(u) PROVE Goal
  <2>1. PICK op \in {"grant", "revoke"} :
          /\ asked' = asked \cup {<<op, u>>}
          /\ members' = IF op = "grant" THEN members \cup {u} ELSE members \ {u}
    BY <1>7 DEF AdminEdit
  <2>2. had' = had \cup {members'}
    BY <1>3, <1>7 DEF AdminEdit
  <2>3. <<op, u>> \in {"grant", "revoke"} \X Users /\ <<op, u>>[1] = op /\ <<op, u>>[2] = u
    OBVIOUS
  <2>4. QED BY <2>1, <2>2, <2>3
<1>8. CASE DropEntry \/ Crash \/ UNCHANGED vars
  BY <1>2, <1>8 DEF DropEntry, Crash, vars
<1>9. QED BY <1>4, <1>5, <1>6, <1>7, <1>8 DEF Next, WorkerStep

\* With any tasks, any configuration, old cached lists, lost answers, retries
\* and crashes: a grant is carried out on the members of the moment, and a
\* revoke on a list the group really has had (group.go:195-292).
THEOREM GroupImplementsMembership == Spec => ImplementsMembership
<1>1. Init => MembershipOf!Init /\ ListsWereReal
  BY DEF Init, MembershipOf!Init, ListsWereReal, ReadsList
<1>2. TypeOK /\ TasksInFlight /\ ListsWereReal /\ [Next]_vars
        => [MembershipOf!Next]_(MembershipOf!vars)
  <2> SUFFICES ASSUME TypeOK, TasksInFlight, ListsWereReal, [Next]_vars
               PROVE  MembershipOf!Next \/ UNCHANGED <<members, had, asked>>
    BY DEF MembershipOf!vars
  <2>1. QED
    BY StepOfTheList
    DEF MembershipOf!Next, MembershipOf!Requests, MembershipOf!Ask,
        MembershipOf!CarryOut, MembershipOf!AdminEdit, MembershipOf!Becomes,
        MembershipOf!Bases, MembershipOf!CarriedOut
<1>3. QED
  BY <1>1, <1>2, TypeCorrect, RealListsStep, PTL
  DEF Spec, ImplementsMembership, MembershipOf!Spec

\* With no revoke about, any number of workers, old cached lists, lost answers,
\* retries and crashes make no difference to what the group becomes: the "add"
\* PATCH of AddUserToGroup (slack.go:557-585) is carried out on the list as it is.
THEOREM GrantsAreAtomic ==
    ASSUME "revoke" \notin Ops
    PROVE  Spec => ImplementsAtomicMembership
<1>1. Init => AtomicMembershipOf!Init /\ ListsWereReal
  BY DEF Init, AtomicMembershipOf!Init, ListsWereReal, ReadsList
<1>2. TypeOK /\ TasksInFlight /\ ListsWereReal /\ [Next]_vars
        => [AtomicMembershipOf!Next]_(AtomicMembershipOf!vars)
  <2> SUFFICES ASSUME TypeOK, TasksInFlight, ListsWereReal, [Next]_vars
               PROVE  AtomicMembershipOf!Next \/ UNCHANGED <<members, had, asked>>
    BY DEF AtomicMembershipOf!vars
  <2>1. QED
    BY StepOfTheList
    DEF AtomicMembershipOf!Next, AtomicMembershipOf!Requests, AtomicMembershipOf!Ask,
        AtomicMembershipOf!CarryOut, AtomicMembershipOf!AdminEdit,
        AtomicMembershipOf!Becomes, AtomicMembershipOf!Bases,
        AtomicMembershipOf!CarriedOut
<1>3. QED
  BY <1>1, <1>2, TypeCorrect, RealListsStep, PTL
  DEF Spec, ImplementsAtomicMembership, AtomicMembershipOf!Spec
-----------------------------------------------------------------------------
(* How a task comes to its end. *)

\* The steps from a call of a handler to its end.
StepsFrom(call) ==
    CASE call = "lookup" -> 4
      [] call = "get" -> 3
      [] call = "store" -> 2
      [] call \in {"replace", "add"} -> 1

\* The most steps the task of worker w may still take: four for each of the
\* attempts left, and those left of this attempt.
StepsLeft(w) ==
    IF pc[w] = "idle" THEN 0 ELSE 4 * (MaxAttempts - tries[w]) + StepsFrom(pc[w])

StepsBounded ==
    \A w \in Workers : StepsLeft(w) \in 0..(4 * MaxAttempts + 4)

\* A step of a worker leaves it fewer to take; no step of others leaves more.
StepsRunOut ==
    \A w \in Workers :
        /\ WorkerStep(w) => StepsLeft(w)' < StepsLeft(w)
        /\ pc[w] # "idle" => StepsLeft(w)' <= StepsLeft(w)

TriesBounded == \A w \in Workers : tries[w] <= MaxAttempts

LEMMA TriesAreSteps == TypeOK /\ TriesBounded => StepsBounded
<1> SUFFICES ASSUME TypeOK, TriesBounded, NEW w \in Workers
             PROVE  StepsLeft(w) \in 0..(4 * MaxAttempts + 4)
  BY DEF StepsBounded
<1>1. /\ pc[w] \in RemoteCalls \cup {"idle", "lookup", "store"}
      /\ tries[w] \in Nat /\ tries[w] <= MaxAttempts /\ MaxAttempts \in Nat
  BY IdpGroupAssumption DEF TypeOK, TriesBounded
<1>2. pc[w] # "idle" => StepsFrom(pc[w]) \in 1..4
  BY <1>1 DEF StepsFrom
<1> QED
  BY <1>1, <1>2 DEF StepsLeft

\* The step of a worker, to it and to the others: its task ends, starts over
\* as one of the attempts left, or comes nearer to its end.
LEMMA StepOfTask ==
    ASSUME TypeOK, NEW w \in Workers, WorkerStep(w)
    PROVE  /\ pc[w] \in {"lookup", "get", "store", "replace", "add"}
           /\ \A v \in Workers \ {w} : pc'[v] = pc[v] /\ tries'[v] = tries[v]
           /\ \/ pc'[w] = "idle" /\ tries'[w] \in {0, tries[w]}
              \/ /\ tries[w] + 1 <= MaxAttempts
                 /\ pc'[w] \in {"lookup", "add"} /\ tries'[w] = tries[w] + 1
              \/ /\ <<pc[w], pc'[w]>> \in {<<"lookup", "store">>, <<"lookup", "get">>,
                                           <<"get", "store">>, <<"store", "replace">>}
                 /\ tries'[w] = tries[w]
<1>0. /\ pc \in [Workers -> RemoteCalls \cup {"idle", "lookup", "store"}]
      /\ tries \in [Workers -> Nat]
  BY DEF TypeOK
<1>1. ASSUME NEW how, Finish(w, how)
      PROVE  pc' = [pc EXCEPT ![w] = "idle"] /\ tries' = [tries EXCEPT ![w] = 0]
  BY <1>1 DEF Finish
<1>2. ASSUME RunAgain(w)
      PROVE  \/ pc' = [pc EXCEPT ![w] = "idle"] /\ tries' = [tries EXCEPT ![w] = 0]
             \/ /\ tries[w] + 1 <= MaxAttempts
                /\ pc' = [pc EXCEPT ![w] = FirstCall(task[w])]
                /\ tries' = [tries EXCEPT ![w] = @ + 1]
  BY <1>1, <1>2 DEF RunAgain
<1>3. CASE Lookup(w)
  BY <1>0, <1>3 DEF Lookup, GoTo
<1>4. CASE Get(w)
  BY <1>0, <1>4 DEF Get, GoTo
<1>5. CASE Store(w)
  BY <1>0, <1>1, <1>5 DEF Store, Report, GoTo
<1>6. CASE Patch(w) \/ CallRejected(w)
  BY <1>0, <1>1, <1>6 DEF Patch, CallRejected
<1>7. CASE PatchReplyLost(w) \/ CallUnavailable(w)
  <2>1. FirstCall(task[w]) \in {"lookup", "add"}
    BY DEF FirstCall
  <2>2. pc[w] \in {"get", "replace", "add"}
    BY <1>7 DEF PatchReplyLost, CallUnavailable
  <2>3. RunAgain(w) \/ Finish(w, "error")
    BY <1>7 DEF PatchReplyLost, CallUnavailable
  <2> QED
    BY <1>0, <1>1, <1>2, <2>1, <2>2, <2>3
<1> QED
  BY <1>3, <1>4, <1>5, <1>6, <1>7 DEF WorkerStep

LEMMA StepCounts ==
    ASSUME TypeOK, TriesBounded, NEW w \in Workers, WorkerStep(w)
    PROVE  /\ TriesBounded'
           /\ StepsLeft(w)' < StepsLeft(w)
           /\ StepsLeft(w)' <= StepsLeft(w)
           /\ \A v \in Workers \ {w} : StepsLeft(v)' = StepsLeft(v)
<1>1. /\ tries[w] \in Nat /\ MaxAttempts \in Nat /\ tries[w] <= MaxAttempts
  BY IdpGroupAssumption DEF TypeOK, TriesBounded
<1>2. TriesBounded'
  <2>1. tries'[w] <= MaxAttempts
    BY <1>1, StepOfTask
  <2> QED
    BY <2>1, StepOfTask DEF TriesBounded
<1>3. StepsLeft(w)' < StepsLeft(w) /\ StepsLeft(w)' <= StepsLeft(w)
  <2>1. StepsLeft(w) = 4 * (MaxAttempts - tries[w]) + StepsFrom(pc[w])
    BY StepOfTask DEF StepsLeft
  <2>2. StepsFrom(pc[w]) \in 1..4
    BY StepOfTask DEF StepsFrom
  <2>3. CASE pc'[w] = "idle"
    BY <1>1, <2>1, <2>2, <2>3 DEF StepsLeft
  <2>4. CASE /\ tries[w] + 1 <= MaxAttempts
             /\ pc'[w] \in {"lookup", "add"} /\ tries'[w] = tries[w] + 1
    <3>1. StepsFrom(pc'[w]) \in 1..4
      BY <2>4 DEF StepsFrom
    <3>2. StepsLeft(w)' = 4 * (MaxAttempts - (tries[w] + 1)) + StepsFrom(pc'[w])
      BY <2>4 DEF StepsLeft
    <3> QED
      BY <1>1, <2>1, <2>2, <3>1, <3>2
  <2>5. CASE /\ <<pc[w], pc'[w]>> \in {<<"lookup", "store">>, <<"lookup", "get">>,
                                       <<"get", "store">>, <<"store", "replace">>}
             /\ tries'[w] = tries[w]
    <3>1. /\ StepsFrom(pc'[w]) \in 1..4 /\ StepsFrom(pc'[w]) < StepsFrom(pc[w])
          /\ pc'[w] # "idle"
      BY <2>5 DEF StepsFrom
    <3>2. StepsLeft(w)' = 4 * (MaxAttempts - tries[w]) + StepsFrom(pc'[w])
      BY <2>5, <3>1 DEF StepsLeft
    <3> QED
      BY <1>1, <2>1, <2>2, <3>1, <3>2
  <2> QED
    BY <2>3, <2>4, <2>5, StepOfTask
<1>4. \A v \in Workers \ {w} : StepsLeft(v)' = StepsLeft(v)
  BY StepOfTask DEF StepsLeft
<1> QED
  BY <1>2, <1>3, <1>4

LEMMA NextCounts ==
    TypeOK /\ TriesBounded /\ [Next]_vars => TriesBounded' /\ [StepsRunOut]_vars
<1> SUFFICES ASSUME TypeOK, TriesBounded, [Next]_vars
             PROVE  TriesBounded' /\ (StepsRunOut \/ UNCHANGED vars)
  OBVIOUS
<1>0. /\ pc \in [Workers -> RemoteCalls \cup {"idle", "lookup", "store"}]
      /\ tries \in [Workers -> Nat] /\ MaxAttempts \in Nat
  BY IdpGroupAssumption DEF TypeOK
<1>1. \A v \in Workers : WorkerStep(v) => StepsLeft(v)' < StepsLeft(v)
  BY StepCounts
<1>2. \A v \in Workers : StepsLeft(v) \in Nat
  BY TriesAreSteps, <1>0 DEF StepsBounded
<1>3. ASSUME \A v \in Workers : pc[v] # "idle" => StepsLeft(v)' <= StepsLeft(v)
      PROVE  StepsRunOut
  BY <1>1, <1>3 DEF StepsRunOut
<1>4. ASSUME NEW w \in Workers, WorkerStep(w) PROVE TriesBounded' /\ StepsRunOut
  <2>1. \A v \in Workers : v = w \/ StepsLeft(v)' = StepsLeft(v)
    BY <1>4, StepCounts
  <2>2. StepsLeft(w)' <= StepsLeft(w)
    BY <1>4, StepCounts
  <2>3. \A v \in Workers : StepsLeft(v)' <= StepsLeft(v)
    BY <1>2, <2>1, <2>2
  <2> QED
    BY <1>3, <1>4, <2>3, StepCounts
<1>5. ASSUME NEW w \in Workers, NEW t \in Tasks, Start(w, t)
      PROVE  TriesBounded' /\ StepsRunOut
  <2>1. /\ tries' = tries
        /\ \A v \in Workers : pc[v] # "idle" => pc'[v] = pc[v]
    BY <1>0, <1>5 DEF Start
  <2>2. \A v \in Workers : pc[v] # "idle" => StepsLeft(v)' = StepsLeft(v)
    BY <2>1 DEF StepsLeft
  <2> QED
    BY <1>2, <1>3, <2>1, <2>2 DEF TriesBounded
<1>6. CASE Crash
  <2>1. \A v \in Workers : pc'[v] = "idle" /\ tries'[v] = 0
    BY <1>6 DEF Crash
  <2>2. \A v \in Workers : StepsLeft(v)' = 0
    BY <2>1 DEF StepsLeft
  <2> QED
    BY <1>0, <1>2, <1>3, <2>1, <2>2 DEF TriesBounded
<1>7. CASE UNCHANGED <<pc, tries>>
  <2>1. \A v \in Workers : StepsLeft(v)' = StepsLeft(v)
    BY <1>7 DEF StepsLeft
  <2> QED
    BY <1>2, <1>3, <1>7, <2>1 DEF TriesBounded
<1> QED
  BY <1>4, <1>5, <1>6, <1>7 DEF Next, DropEntry, AdminEdit, handler, vars

\* The safety half of "a task ends": it takes a bounded number of steps,
\* however its calls fail, each leaves it fewer to take, and neither the cache,
\* nor other tasks, nor administrators give it more (the retryer's attempts,
\* retry.go:78).
THEOREM TasksRunOut == Spec => []StepsBounded /\ [][StepsRunOut]_vars
<1>1. Init => TriesBounded
  BY IdpGroupAssumption DEF Init, TriesBounded
<1> QED
  BY <1>1, TypeCorrect, NextCounts, TriesAreSteps, PTL DEF Spec
=============================================================================
