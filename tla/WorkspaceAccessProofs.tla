------------------------ MODULE WorkspaceAccessProofs -------------------------
(***************************************************************************)
(* What holds of WorkspaceAccess for all users, workers and bounds: every  *)
(* variable keeps its type, a grant or a revoke that reports success took  *)
(* effect during its task, and without edits no revoke gives anything.     *)
(*                                                                         *)
(* The argument goes worker by worker.  A step leaves a worker as it is,   *)
(* begins a task there or ends one (lemma StepOfWorker); what a task that  *)
(* ends reports follows from the standing of its user at that moment,      *)
(* which the history has (invariant InCall).  That a revoke never promotes *)
(* rests on what C1 was told once: who was at least an admin has come to   *)
(* no standing since of which "regular" would be a promotion (WasRanked).  *)
(***************************************************************************)
EXTENDS WorkspaceAccess, TLAPS

-----------------------------------------------------------------------------
(* The calls. *)

LEMMA CallIsKnown ==
    ASSUME NEW t \in Tasks
    PROVE  Call(t) \in {"add", "remove", "regular", "owner", "admin", "invalid", "none"}
BY DEF Call, SetTo, Settable

\* A task that does not end early is of a user and makes a call.
LEMMA CallIsMade ==
    ASSUME NEW t \in Tasks, EndsEarly(t) = "no"
    PROVE  /\ t.user \in Users
           /\ Call(t) \in {"add", "remove", "regular", "owner", "admin"}
BY CallIsKnown DEF EndsEarly

LEMMA AfterIsStanding ==
    ASSUME NEW c \in {"add", "remove", "regular", "owner", "admin"}
    PROVE  After(c) \in Standings
BY DEF After, Standings

\* What users without flags are granted.
LEMMA EmittedToRegular ==
    \A e : e \in Emitted("regular") <=> e \in {"workspace", "member"} \cap Entitlements
BY DEF Emitted, EmittedRoles, Flags, Roles

LEMMA EmittedToAdmin ==
    "admin" \in Entitlements => "admin" \in Emitted("admin")
BY DEF Emitted, EmittedRoles, Flags, Roles

LEMMA EmittedToOwner ==
    "owner" \in Entitlements => "owner" \in Emitted("owner")
BY DEF Emitted, EmittedRoles, Flags, Roles

\* The call of a grant gives what is granted.
LEMMA GrantCall ==
    ASSUME NEW t \in Tasks, t.op = "grant", Call(t) # "invalid"
    PROVE  t.ent \in Emitted(After(Call(t)))
<1>1. t.ent \in Entitlements
  BY DEF Tasks
<1>2. CASE t.ent = "workspace"
  <2>1. Call(t) = "add"
    BY <1>2 DEF Call, Settable, SetTo
  <2>2. After(Call(t)) = "regular"
    BY <2>1 DEF After
  <2>3. QED BY <1>1, <1>2, <2>2, EmittedToRegular
<1>3. CASE t.ent = "member"
  <2>1. Call(t) = "regular"
    BY <1>3 DEF Call, Settable, SetTo
  <2>2. After(Call(t)) = "regular"
    BY <2>1 DEF After
  <2>3. QED BY <1>1, <1>3, <2>2, EmittedToRegular
<1>4. CASE t.ent = "admin"
  <2>1. Call(t) = "admin"
    BY <1>4 DEF Call, Settable, SetTo
  <2>2. After(Call(t)) = "admin"
    BY <2>1 DEF After
  <2>3. QED BY <1>1, <1>4, <2>2, EmittedToAdmin
<1>5. CASE t.ent = "owner"
  <2>1. Call(t) = "owner"
    BY <1>5 DEF Call, Settable, SetTo
  <2>2. After(Call(t)) = "owner"
    BY <2>1 DEF After
  <2>3. QED BY <1>1, <1>5, <2>2, EmittedToOwner
<1>6. t.ent \in {"workspace", "member", "admin", "owner"}
  BY DEF Call, Settable
<1>7. QED BY <1>2, <1>3, <1>4, <1>5, <1>6

\* The call of a revoke takes away what is revoked.
LEMMA RevokeCall ==
    ASSUME NEW t \in Tasks, t.op = "revoke", t.ent \in {"workspace"} \cup Settable
    PROVE  /\ Call(t) \in {"remove", "regular"}
           /\ t.ent \notin Emitted(After(Call(t)))
<1>1. CASE t.ent \in {"workspace", "member"}
  <2>1. Call(t) = "remove"
    BY <1>1 DEF Call, Settable
  <2>2. Emitted(After(Call(t))) = {}
    BY <2>1 DEF After, Emitted
  <2>3. QED BY <2>1, <2>2
<1>2. CASE t.ent \in {"owner", "admin"}
  <2>1. Call(t) = "regular"
    BY <1>2 DEF Call
  <2>2. After(Call(t)) = "regular"
    BY <2>1 DEF After
  <2>3. QED BY <1>2, <2>1, <2>2, EmittedToRegular
<1>3. QED BY <1>1, <1>2 DEF Settable

\* Nothing is emitted of a user Slack does not know there, but for deleted ones.
LEMMA NothingOfUnknown ==
    ASSUME NEW s \in Standings, NEW c, Unknown(s, c)
    PROVE  s = "deleted" \/ Emitted(s) = {}
BY DEF Unknown, Emitted

\* Who is in the workspace has its membership.
LEMMA MembershipOfThere ==
    ASSUME NEW s \in Standings, NEW c, AlreadyThere(s, c)
    PROVE  c = "add" /\ "workspace" \in Emitted(s)
BY DEF AlreadyThere, Emitted, Entitlements

-----------------------------------------------------------------------------
(* What a step does to one worker. *)

\* A task under way is one that made its call; the history has its user as it
\* is now.
InCall ==
    \A w \in Workers : pc[w] = "call" =>
        /\ task[w] \in Tasks
        /\ EndsEarly(task[w]) = "no"
        /\ outcome[w] = "none"
        /\ standing[task[w].user] \in during[w]

Kept(w) == pc'[w] = pc[w] /\ task'[w] = task[w] /\ outcome'[w] = outcome[w]

Begun(w) ==
    /\ pc[w] = "idle"
    /\ task'[w] \in Tasks
    /\ \/ /\ EndsEarly(task'[w]) = "no"
          /\ pc'[w] = "call" /\ outcome'[w] = "none"
       \/ /\ EndsEarly(task'[w]) # "no"
          /\ pc'[w] = "idle" /\ outcome'[w] = EndsEarly(task'[w])

\* How a task may end in its call: without success, by it, or with what Slack
\* tells of its user.
Ended(w) ==
    /\ pc[w] = "call" /\ pc'[w] = "idle" /\ task'[w] = task[w]
    /\ \/ outcome'[w] \in {"error", "lost"}
       \/ /\ outcome'[w] = "ok"
          /\ standing'[task[w].user] = After(Call(task[w]))
       \/ /\ outcome'[w] = "already_revoked"
          /\ task[w].op = "revoke"
          /\ Unknown(standing[task[w].user], Call(task[w]))
       \/ /\ outcome'[w] = "already_exists"
          /\ AlreadyThere(standing[task[w].user], Call(task[w]))

LEMMA FinishOfWorkers ==
    ASSUME TypeOK, NEW w \in Workers, NEW how, Finish(w, how)
    PROVE  /\ \A v \in Workers \ {w} : Kept(v)
           /\ pc'[w] = "idle" /\ task'[w] = task[w] /\ outcome'[w] = how
BY DEF TypeOK, Finish, Kept

LEMMA RunAgainOfWorkers ==
    ASSUME TypeOK, NEW w \in Workers, pc[w] = "call", RunAgain(w)
    PROVE  \A v \in Workers : Kept(v) \/ (v = w /\ Ended(v))
<1>1. CASE tries[w] + 1 <= MaxAttempts
  BY <1>1 DEF RunAgain, Kept
<1>2. CASE ~(tries[w] + 1 <= MaxAttempts)
  <2>1. Finish(w, "error")
    BY <1>2 DEF RunAgain
  <2>2. QED BY <2>1, FinishOfWorkers DEF Ended
<1>3. QED BY <1>1, <1>2

LEMMA StepOfWorker ==
    ASSUME TypeOK, InCall, [Next]_vars
    PROVE  \A v \in Workers : Kept(v) \/ Begun(v) \/ Ended(v)
<1>1. ASSUME NEW w \in Workers, NEW t \in Tasks, Start(w, t)
      PROVE  \A v \in Workers : Kept(v) \/ Begun(v)
  <2>1. ASSUME NEW v \in Workers, v # w PROVE Kept(v)
    BY <1>1, <2>1 DEF TypeOK, Start, Kept
  <2>2. task'[w] = t /\ pc[w] = "idle"
    BY <1>1 DEF TypeOK, Start
  <2>3. Begun(w)
    <3>1. CASE EndsEarly(t) = "no"
      BY <1>1, <2>2, <3>1 DEF TypeOK, Start, Begun
    <3>2. CASE EndsEarly(t) # "no"
      BY <1>1, <2>2, <3>2 DEF TypeOK, Start, Begun
    <3>3. QED BY <3>1, <3>2
  <2>4. QED BY <2>1, <2>3
<1>2. ASSUME NEW w \in Workers, WorkerStep(w)
      PROVE  \A v \in Workers : Kept(v) \/ Ended(v)
  <2>0. pc[w] = "call" /\ task[w] \in Tasks /\ task[w].user \in Users
    BY <1>2, CallIsMade DEF InCall, WorkerStep, CallDone, ReplyLost, Applied, CallUnavailable,
                CallRejected, NotFound, AlreadyExists
  <2>1. CASE CallDone(w)
    <3>1. standing'[task[w].user] = After(Call(task[w]))
      BY <2>0, <2>1 DEF TypeOK, CallDone, Applied
    <3>2. Finish(w, "ok")
      BY <2>1 DEF CallDone
    <3>3. QED BY <2>0, <3>1, <3>2, FinishOfWorkers DEF Ended
  <2>2. CASE ReplyLost(w)
    <3>1. RunAgain(w) \/ Finish(w, "error")
      BY <2>2 DEF ReplyLost
    <3>2. QED BY <2>0, <3>1, FinishOfWorkers, RunAgainOfWorkers DEF Ended
  <2>3. CASE CallUnavailable(w)
    <3>1. RunAgain(w)
      BY <2>3 DEF CallUnavailable
    <3>2. QED BY <2>0, <3>1, RunAgainOfWorkers
  <2>4. CASE CallRejected(w)
    <3>1. Finish(w, "error")
      BY <2>4 DEF CallRejected
    <3>2. QED BY <2>0, <3>1, FinishOfWorkers DEF Ended
  <2>5. CASE NotFound(w)
    <3>1. CASE task[w].op = "revoke"
      <4>1. Finish(w, "already_revoked")
        BY <2>5, <3>1 DEF NotFound
      <4>2. Unknown(standing[task[w].user], Call(task[w]))
        BY <2>5 DEF NotFound
      <4>3. QED BY <2>0, <3>1, <4>1, <4>2, FinishOfWorkers DEF Ended
    <3>2. CASE task[w].op # "revoke"
      <4>1. Finish(w, "error")
        BY <2>5, <3>2 DEF NotFound
      <4>2. QED BY <2>0, <4>1, FinishOfWorkers DEF Ended
    <3>3. QED BY <3>1, <3>2
  <2>6. CASE AlreadyExists(w)
    <3>1. /\ Finish(w, "already_exists")
          /\ AlreadyThere(standing[task[w].user], Call(task[w]))
      BY <2>6 DEF AlreadyExists
    <3>2. QED BY <2>0, <3>1, FinishOfWorkers DEF Ended
  <2>7. QED BY <1>2, <2>1, <2>2, <2>3, <2>4, <2>5, <2>6 DEF WorkerStep
<1>3. ASSUME NEW u \in Users, Sync(u) PROVE \A v \in Workers : Kept(v)
  BY <1>3 DEF Sync, handler, Kept
<1>4. ASSUME NEW u \in Users, NEW s \in Standings, AdminEdit(u, s)
      PROVE  \A v \in Workers : Kept(v)
  BY <1>4 DEF AdminEdit, handler, Kept
<1>5. ASSUME Crash PROVE \A v \in Workers : Kept(v) \/ Ended(v)
  BY <1>5 DEF TypeOK, Crash, Kept, Ended
<1>6. ASSUME UNCHANGED vars PROVE \A v \in Workers : Kept(v)
  BY <1>6 DEF vars, Kept
<1>7. QED BY <1>1, <1>2, <1>3, <1>4, <1>5, <1>6 DEF Next

\* Every step takes note of the standings.
LEMMA StepObserves == [Next]_vars => Observe \/ UNCHANGED vars
BY DEF Next, Start, WorkerStep, CallDone, ReplyLost, CallUnavailable, CallRejected,
       NotFound, AlreadyExists, Sync, AdminEdit, Crash

-----------------------------------------------------------------------------
(* The history. *)

\* What the history has of one worker after a step.
LEMMA HistoryOfWorker ==
    ASSUME TypeOK, InCall, [Next]_vars, NEW v \in Workers
    PROVE  /\ Kept(v) => during[v] \subseteq during'[v]
           /\ pc[v] = "call" => standing[task[v].user] \in during'[v]
           /\ pc[v] = "call" => standing'[task[v].user] \in during'[v]
           /\ Begun(v) /\ pc'[v] = "call" => standing'[task'[v].user] \in during'[v]
<1>1. CASE UNCHANGED vars
  BY <1>1 DEF vars, InCall, Begun
<1>2. CASE Observe
  <2>1. during'[v] =
            IF pc[v] # "idle" THEN during[v] \cup {standing'[task[v].user]}
            ELSE IF task'[v] = task[v] /\ pc'[v] = "idle" THEN during[v]
            ELSE IF task'[v].user \in Users THEN {standing'[task'[v].user]} ELSE {}
    BY <1>2 DEF Observe
  <2>2. pc[v] = "call" \/ pc[v] = "idle"
    BY DEF TypeOK
  <2>3. CASE pc[v] = "call"
    <3>1. during'[v] = during[v] \cup {standing'[task[v].user]}
      BY <2>1, <2>3
    <3>2. standing[task[v].user] \in during[v]
      BY <2>3 DEF InCall
    <3>3. ~Begun(v)
      BY <2>3 DEF Begun
    <3>4. QED BY <3>1, <3>2, <3>3
  <2>4. CASE pc[v] = "idle"
    <3>1. Kept(v) => during'[v] = during[v]
      BY <2>1, <2>4 DEF Kept
    <3>2. ASSUME Begun(v), pc'[v] = "call"
          PROVE  standing'[task'[v].user] \in during'[v]
      <4>1. task'[v].user \in Users
        BY <3>2, CallIsMade DEF Begun
      <4>2. QED BY <2>1, <2>4, <3>2, <4>1
    <3>3. QED BY <2>4, <3>1, <3>2
  <2>5. QED BY <2>2, <2>3, <2>4
<1>3. QED BY <1>1, <1>2, StepObserves

LEMMA InCallStep ==
    ASSUME TypeOK, InCall, [Next]_vars
    PROVE  InCall'
<1> SUFFICES ASSUME NEW w \in Workers, pc'[w] = "call"
             PROVE  /\ task'[w] \in Tasks
                    /\ EndsEarly(task'[w]) = "no"
                    /\ outcome'[w] = "none"
                    /\ standing'[task'[w].user] \in during'[w]
  BY DEF InCall, EndsEarly, Call, SetTo, Settable, Tasks, Entitlements
<1>1. CASE Kept(w)
  <2>1. pc[w] = "call" /\ task'[w] = task[w] /\ outcome'[w] = outcome[w]
    BY <1>1 DEF Kept
  <2>2. standing'[task[w].user] \in during'[w]
    BY <2>1, HistoryOfWorker
  <2>3. QED BY <2>1, <2>2 DEF InCall
<1>2. CASE Begun(w)
  <2>1. standing'[task'[w].user] \in during'[w]
    BY <1>2, HistoryOfWorker
  <2>2. QED BY <1>2, <2>1 DEF Begun
<1>3. CASE Ended(w)
  BY <1>3 DEF Ended
<1>4. QED BY <1>1, <1>2, <1>3, StepOfWorker

-----------------------------------------------------------------------------
(* Types. *)

LEMMA DuringType ==
    ASSUME TypeOK, InCall, Observe, standing' \in [Users -> Standings]
    PROVE  during' \in [Workers -> SUBSET Standings]
<1>1. ASSUME NEW w \in Workers, pc[w] # "idle"
      PROVE  during[w] \cup {standing'[task[w].user]} \in SUBSET Standings
  <2>1. pc[w] = "call"
    BY <1>1 DEF TypeOK
  <2>2. task[w].user \in Users
    BY <2>1, CallIsMade DEF InCall
  <2>3. QED BY <2>2 DEF TypeOK
<1>2. QED BY <1>1 DEF TypeOK, Observe

LEMMA FinishType ==
    ASSUME TypeOK, NEW w \in Workers,
           NEW how \in {"none", "ok", "already_exists", "already_revoked", "refused",
                        "error", "lost"},
           Finish(w, how)
    PROVE  /\ listed' \in [Users -> SUBSET Entitlements]
           /\ pc' \in [Workers -> {"idle", "call"}]
           /\ task' \in [Workers -> Tasks \cup {NoTask}]
           /\ tries' \in [Workers -> Nat]
           /\ outcome' \in [Workers -> {"none", "ok", "already_exists",
                                        "already_revoked", "refused", "error", "lost"}]
           /\ started' \in Nat
           /\ edits' \in Nat
BY DEF TypeOK, Finish

LEMMA RunAgainType ==
    ASSUME TypeOK, NEW w \in Workers, RunAgain(w)
    PROVE  /\ listed' \in [Users -> SUBSET Entitlements]
           /\ pc' \in [Workers -> {"idle", "call"}]
           /\ task' \in [Workers -> Tasks \cup {NoTask}]
           /\ tries' \in [Workers -> Nat]
           /\ outcome' \in [Workers -> {"none", "ok", "already_exists",
                                        "already_revoked", "refused", "error", "lost"}]
           /\ started' \in Nat
           /\ edits' \in Nat
<1>1. CASE tries[w] + 1 <= MaxAttempts
  BY <1>1 DEF TypeOK, RunAgain
<1>2. CASE ~(tries[w] + 1 <= MaxAttempts)
  BY <1>2, FinishType DEF RunAgain
<1>3. QED BY <1>1, <1>2

LEMMA TypeStep ==
    ASSUME TypeOK, InCall, [Next]_vars
    PROVE  TypeOK'
<1>1. ASSUME NEW w \in Workers, NEW t \in Tasks, Start(w, t) PROVE TypeOK'
  <2>1. EndsEarly(t) \in {"refused", "error", "ok", "no"}
    BY DEF EndsEarly
  <2>2. Observe /\ standing' \in [Users -> Standings]
    BY <1>1 DEF TypeOK, Start
  <2>3. during' \in [Workers -> SUBSET Standings]
    BY <2>2, DuringType
  <2>4. task' \in [Workers -> Tasks \cup {NoTask}] /\ started' \in Nat
    BY <1>1 DEF TypeOK, Start
  <2>5. CASE EndsEarly(t) = "no"
    BY <1>1, <2>2, <2>3, <2>4, <2>5 DEF TypeOK, Start
  <2>6. CASE EndsEarly(t) # "no"
    <3>1. pc' = pc /\ outcome' = [outcome EXCEPT ![w] = EndsEarly(t)]
      BY <1>1, <2>6 DEF Start
    <3>2. UNCHANGED <<listed, tries, edits>>
      BY <1>1 DEF Start
    <3>3. QED BY <2>1, <2>2, <2>3, <2>4, <2>6, <3>1, <3>2 DEF TypeOK
  <2>7. QED BY <2>5, <2>6
<1>2. ASSUME NEW w \in Workers, WorkerStep(w) PROVE TypeOK'
  <2>1. pc[w] = "call" /\ task[w] \in Tasks /\ EndsEarly(task[w]) = "no"
    BY <1>2 DEF InCall, WorkerStep, CallDone, ReplyLost, Applied, CallUnavailable,
                CallRejected, NotFound, AlreadyExists
  <2>2. After(Call(task[w])) \in Standings
    BY <2>1, CallIsMade, AfterIsStanding
  <2>3. standing' \in [Users -> Standings] /\ Observe
    BY <1>2, <2>2 DEF TypeOK, WorkerStep, CallDone, ReplyLost, Applied, CallUnavailable,
                      CallRejected, NotFound, AlreadyExists
  <2>4. during' \in [Workers -> SUBSET Standings]
    BY <2>3, DuringType
  <2>5. RunAgain(w) \/ \E how \in {"ok", "error", "already_revoked", "already_exists"} : Finish(w, how)
    BY <1>2 DEF WorkerStep, CallDone, ReplyLost, CallUnavailable, CallRejected, NotFound,
                AlreadyExists
  <2>6. CASE RunAgain(w)
    BY <2>3, <2>4, <2>6, RunAgainType DEF TypeOK
  <2>7. CASE \E how \in {"ok", "error", "already_revoked", "already_exists"} : Finish(w, how)
    <3>1. PICK how \in {"ok", "error", "already_revoked", "already_exists"} : Finish(w, how)
      BY <2>7
    <3>2. how \in {"none", "ok", "already_exists", "already_revoked", "refused", "error", "lost"}
      OBVIOUS
    <3>3. QED BY <2>3, <2>4, <3>1, <3>2, FinishType DEF TypeOK
  <2>8. QED BY <2>5, <2>6, <2>7
<1>3. ASSUME NEW u \in Users, Sync(u) PROVE TypeOK'
  <2>1. Emitted(standing[u]) \subseteq Entitlements
    BY DEF Emitted
  <2>2. during' \in [Workers -> SUBSET Standings]
    BY <1>3, DuringType DEF TypeOK, Sync
  <2>3. QED BY <1>3, <2>1, <2>2 DEF TypeOK, Sync, handler
<1>4. ASSUME NEW u \in Users, NEW s \in Standings, AdminEdit(u, s) PROVE TypeOK'
  <2>1. during' \in [Workers -> SUBSET Standings]
    BY <1>4, DuringType DEF TypeOK, AdminEdit
  <2>2. QED BY <1>4, <2>1 DEF TypeOK, AdminEdit, handler
<1>5. ASSUME Crash PROVE TypeOK'
  <2>1. during' \in [Workers -> SUBSET Standings]
    BY <1>5, DuringType DEF TypeOK, Crash
  <2>2. QED BY <1>5, <2>1 DEF TypeOK, Crash
<1>6. ASSUME UNCHANGED vars PROVE TypeOK'
  BY <1>6 DEF TypeOK, vars
<1>7. QED BY <1>1, <1>2, <1>3, <1>4, <1>5, <1>6 DEF Next

-----------------------------------------------------------------------------
(* Success. *)

\* A handler reports success without a call only where there is none to make.
LEMMA EarlySuccess ==
    ASSUME NEW t \in Tasks, EndsEarly(t) = "ok"
    PROVE  t.op = "revoke" /\ t.ent \notin {"workspace"} \cup Settable
BY DEF EndsEarly, Call, SetTo, Settable, Tasks

LEMMA GrantStep ==
    ASSUME TypeOK, InCall, GrantTakesEffect, [Next]_vars
    PROVE  GrantTakesEffect'
<1> SUFFICES ASSUME NEW w \in Workers, task'[w].op = "grant",
                    outcome'[w] \in {"ok", "already_exists"}
             PROVE  \E s \in during'[w] : task'[w].ent \in Emitted(s)
  BY DEF GrantTakesEffect, Emitted, EmittedRoles, Flags, Entitlements
<1>1. CASE Kept(w)
  BY <1>1, HistoryOfWorker DEF GrantTakesEffect, Kept
<1>2. CASE Begun(w)
  <2>1. EndsEarly(task'[w]) = "ok"
    BY <1>2 DEF Begun, EndsEarly
  <2>2. QED BY <1>2, <2>1, EarlySuccess DEF Begun
<1>3. CASE Ended(w)
  <2>1. /\ task'[w] = task[w] /\ pc[w] = "call"
        /\ task[w] \in Tasks /\ EndsEarly(task[w]) = "no"
    BY <1>3 DEF Ended, InCall
  <2>2. Call(task[w]) # "invalid" /\ task[w].user \in Users
    BY <2>1, CallIsMade
  <2>3. CASE outcome'[w] = "ok"
    <3>1. standing'[task[w].user] = After(Call(task[w]))
      BY <1>3, <2>3 DEF Ended
    <3>2. standing'[task[w].user] \in during'[w]
      BY <2>1, HistoryOfWorker
    <3>3. task[w].ent \in Emitted(After(Call(task[w])))
      BY <2>1, <2>2, GrantCall
    <3>4. QED BY <2>1, <3>1, <3>2, <3>3
  <2>4. CASE outcome'[w] = "already_exists"
    <3>1. AlreadyThere(standing[task[w].user], Call(task[w]))
      BY <1>3, <2>4 DEF Ended
    <3>2. Call(task[w]) = "add" /\ "workspace" \in Emitted(standing[task[w].user])
      BY <2>2, <3>1, MembershipOfThere DEF TypeOK
    <3>3. task[w].ent = "workspace"
      BY <2>1, <3>2 DEF Call, SetTo, Settable
    <3>4. standing[task[w].user] \in during'[w]
      BY <2>1, HistoryOfWorker
    <3>5. QED BY <2>1, <3>2, <3>3, <3>4
  <2>5. QED BY <2>3, <2>4
<1>4. QED BY <1>1, <1>2, <1>3, StepOfWorker

LEMMA RevokeStep ==
    ASSUME TypeOK, InCall, RevokeTakesEffect, [Next]_vars
    PROVE  RevokeTakesEffect'
<1> DEFINE Ents == {"workspace"} \cup Settable
<1> SUFFICES ASSUME NEW w \in Workers, task'[w].op = "revoke", task'[w].ent \in Ents,
                    outcome'[w] \in {"ok", "already_revoked"}
             PROVE  \E s \in during'[w] : task'[w].ent \notin Emitted(s) \/ s = "deleted"
  BY DEF RevokeTakesEffect, RevokesTakeEffect, Emitted, EmittedRoles, Flags, Entitlements,
         Settable
<1>1. CASE Kept(w)
  BY <1>1, HistoryOfWorker DEF RevokeTakesEffect, RevokesTakeEffect, Kept
<1>2. CASE Begun(w)
  <2>1. EndsEarly(task'[w]) = "ok"
    BY <1>2 DEF Begun, EndsEarly
  <2>2. QED BY <1>2, <2>1, EarlySuccess DEF Begun
<1>3. CASE Ended(w)
  <2>1. /\ task'[w] = task[w] /\ pc[w] = "call"
        /\ task[w] \in Tasks /\ EndsEarly(task[w]) = "no"
    BY <1>3 DEF Ended, InCall
  <2>2. task[w].user \in Users
    BY <2>1, CallIsMade
  <2>3. CASE outcome'[w] = "ok"
    <3>1. standing'[task[w].user] = After(Call(task[w]))
      BY <1>3, <2>3 DEF Ended
    <3>2. standing'[task[w].user] \in during'[w]
      BY <2>1, HistoryOfWorker
    <3>3. task[w].ent \notin Emitted(After(Call(task[w])))
      BY <2>1, RevokeCall
    <3>4. QED BY <2>1, <3>1, <3>2, <3>3
  <2>4. CASE outcome'[w] = "already_revoked"
    <3>1. Unknown(standing[task[w].user], Call(task[w]))
      BY <1>3, <2>4 DEF Ended
    <3>2. \/ standing[task[w].user] = "deleted"
          \/ Emitted(standing[task[w].user]) = {}
      BY <2>2, <3>1, NothingOfUnknown DEF TypeOK
    <3>3. standing[task[w].user] \in during'[w]
      BY <2>1, HistoryOfWorker
    <3>4. QED BY <2>1, <3>2, <3>3
  <2>5. QED BY <2>3, <2>4
<1>4. QED BY <1>1, <1>2, <1>3, StepOfWorker

-----------------------------------------------------------------------------
LEMMA AtTheStart ==
    Init => TypeOK /\ InCall /\ GrantTakesEffect /\ RevokeTakesEffect
BY WorkspaceAccessAssumption
   DEF Init, TypeOK, InCall, GrantTakesEffect, RevokeTakesEffect, RevokesTakeEffect, NoTask

\* Every variable keeps its type: standings come from Slack or from a call
\* that gives one, tasks hold entitlements there are (Grant and Revoke of
\* workspace.go and roles.go).
THEOREM TypeCorrect == Spec => []TypeOK
<1>1. TypeOK /\ InCall /\ [Next]_vars => TypeOK' /\ InCall'
  BY TypeStep, InCallStep
<1>2. QED BY <1>1, AtTheStart, PTL DEF Spec

\* A grant that reports success, also that of a membership that was there, was
\* one a sync would have emitted during its task (Grant of workspace.go and
\* roles.go), whatever runs beside it.
THEOREM GrantsTakeEffect == Spec => []GrantTakesEffect
<1>1. TypeOK /\ InCall /\ GrantTakesEffect /\ [Next]_vars
      => TypeOK' /\ InCall' /\ GrantTakesEffect'
  BY TypeStep, InCallStep, GrantStep
<1>2. QED BY <1>1, AtTheStart, PTL DEF Spec

\* A revoke that reports success, of the entitlements there is a call for, was
\* of one that no sync would have emitted at some moment of its task, but for
\* the membership of a deleted user (Revoke of workspace.go and roles.go).
THEOREM RevokesAlwaysTakeEffect == Spec => []RevokeTakesEffect
<1>1. TypeOK /\ InCall /\ RevokeTakesEffect /\ [Next]_vars
      => TypeOK' /\ InCall' /\ RevokeTakesEffect'
  BY TypeStep, InCallStep, RevokeStep
<1>2. QED BY <1>1, AtTheStart, PTL DEF Spec

-----------------------------------------------------------------------------
(* No revoke promotes. *)

\* The standings a user may have come to, by tasks alone, who once was at
\* least an admin: no guest, no invited user, no bot.
Ranks == {"primary_owner", "owner", "admin", "regular", "absent"}

RevokesRank(t) == t.op = "revoke" /\ t.ent \in {"owner", "admin"}

\* Who is listed as an owner or admin, or is about to lose that, was one.
WasRanked ==
    edits = 0 => \A u \in Users :
        \/ listed[u] \cap {"owner", "admin"} # {}
        \/ \E w \in Workers : pc[w] = "call" /\ RevokesRank(task[w]) /\ task[w].user = u
        => standing[u] \in Ranks

\* What tasks make of a user.
LEMMA StandingStep ==
    ASSUME TypeOK, InCall, [Next]_vars, edits' = 0, NEW u \in Users
    PROVE  edits = 0 /\ (standing'[u] = standing[u] \/ standing'[u] \in Ranks)
<1>1. ASSUME NEW w \in Workers, NEW t \in Tasks, Start(w, t)
      PROVE  edits' = edits /\ standing' = standing
  BY <1>1 DEF Start
<1>2. ASSUME NEW w \in Workers, WorkerStep(w)
      PROVE  edits' = edits /\ (standing'[u] = standing[u] \/ standing'[u] \in Ranks)
  <2>1. edits' = edits
    BY <1>2 DEF WorkerStep, CallDone, ReplyLost, CallUnavailable, CallRejected, NotFound,
                AlreadyExists, RunAgain, Finish
  <2>2. standing' = standing \/ Applied(w)
    BY <1>2 DEF WorkerStep, CallDone, ReplyLost, CallUnavailable, CallRejected, NotFound,
                AlreadyExists
  <2>3. ASSUME Applied(w) PROVE standing'[u] = standing[u] \/ standing'[u] \in Ranks
    <3>1. Call(task[w]) \in {"add", "remove", "regular", "owner", "admin"}
      BY <2>3, CallIsMade DEF Applied, InCall
    <3>2. After(Call(task[w])) \in Ranks
      BY <3>1 DEF After, Ranks
    <3>3. standing' = [standing EXCEPT ![task[w].user] = After(Call(task[w]))]
      BY <2>3 DEF Applied
    <3>4. QED BY <3>2, <3>3 DEF TypeOK
  <2>4. QED BY <2>1, <2>2, <2>3
<1>3. ASSUME NEW v \in Users, Sync(v) PROVE edits' = edits /\ standing' = standing
  BY <1>3 DEF Sync
<1>4. ASSUME NEW v \in Users, NEW s \in Standings, AdminEdit(v, s) PROVE FALSE
  BY <1>4 DEF AdminEdit, TypeOK
<1>5. ASSUME Crash PROVE edits' = edits /\ standing' = standing
  BY <1>5 DEF Crash
<1>6. ASSUME UNCHANGED vars PROVE edits' = edits /\ standing' = standing
  BY <1>6 DEF vars
<1>7. QED BY <1>1, <1>2, <1>3, <1>4, <1>5, <1>6 DEF Next

\* Owners and admins are listed as such by a sync that finds them so.
LEMMA ListedStep ==
    ASSUME TypeOK, [Next]_vars, NEW u \in Users, listed'[u] \cap {"owner", "admin"} # {}
    PROVE  \/ listed[u] \cap {"owner", "admin"} # {}
           \/ standing'[u] \in Ranks
<1>1. CASE \E v \in Users : Sync(v)
  <2>1. PICK v \in Users : Sync(v)
    BY <1>1
  <2>2. listed' = [listed EXCEPT ![v] = Emitted(standing[v])] /\ standing' = standing
    BY <2>1 DEF Sync
  <2>3. CASE u # v
    BY <2>2, <2>3 DEF TypeOK
  <2>4. CASE u = v
    <3>1. Emitted(standing[u]) \cap {"owner", "admin"} # {}
      BY <2>2, <2>4 DEF TypeOK
    <3>2. "IsOwner" \in Flags(standing[u]) \/ "IsAdmin" \in Flags(standing[u])
      BY <3>1 DEF Emitted, EmittedRoles
    <3>3. standing[u] \in {"primary_owner", "owner", "admin"}
      BY <3>2 DEF Flags, TypeOK, Standings
    <3>4. QED BY <2>2, <3>3 DEF Ranks
  <2>5. QED BY <2>3, <2>4
<1>2. CASE ~ \E v \in Users : Sync(v)
  <2>1. listed' = listed
    BY <1>2 DEF Next, Start, WorkerStep, CallDone, ReplyLost, CallUnavailable, CallRejected,
                NotFound, AlreadyExists, RunAgain, Finish, AdminEdit, Crash, vars
  <2>2. QED BY <2>1
<1>3. QED BY <1>1, <1>2

\* A revoke is of what C1 has listed.
LEMMA BegunAsListed ==
    ASSUME TypeOK, InCall, [Next]_vars, NEW v \in Workers, Begun(v), pc'[v] = "call",
           task'[v].op = "revoke"
    PROVE  task'[v].ent \in listed[task'[v].user]
<1>1. pc[v] = "idle" /\ task'[v].user \in Users
  BY CallIsMade DEF Begun
<1>2. ASSUME NEW w \in Workers, NEW t \in Tasks, Start(w, t)
      PROVE  task'[v].ent \in listed[task'[v].user]
  <2>1. v = w /\ task'[v] = t
    BY <1>1, <1>2 DEF Start, TypeOK
  <2>2. QED BY <1>1, <1>2, <2>1 DEF Start
<1>3. ASSUME NEW w \in Workers, WorkerStep(w) PROVE FALSE
  <2>1. pc[w] = "call"
    BY <1>3 DEF WorkerStep, CallDone, ReplyLost, Applied, CallUnavailable, CallRejected,
                NotFound, AlreadyExists
  <2>2. RunAgain(w) \/ \E how : Finish(w, how)
    BY <1>3 DEF WorkerStep, CallDone, ReplyLost, CallUnavailable, CallRejected, NotFound,
                AlreadyExists
  <2>3. pc' = pc \/ pc' = [pc EXCEPT ![w] = "idle"]
    BY <2>2 DEF RunAgain, Finish
  <2>4. QED BY <1>1, <2>1, <2>3 DEF TypeOK
<1>4. ASSUME \/ \E u \in Users : Sync(u)
             \/ \E u \in Users : \E s \in Standings : AdminEdit(u, s)
             \/ Crash
             \/ UNCHANGED vars
      PROVE  FALSE
  BY <1>1, <1>4 DEF Sync, AdminEdit, handler, Crash, vars
<1>5. QED BY <1>2, <1>3, <1>4 DEF Next

LEMMA RankedStep ==
    ASSUME TypeOK, InCall, WasRanked, [Next]_vars
    PROVE  WasRanked'
<1> SUFFICES ASSUME edits' = 0, NEW u \in Users,
                    \/ listed'[u] \cap {"owner", "admin"} # {}
                    \/ \E w \in Workers :
                          pc'[w] = "call" /\ RevokesRank(task'[w]) /\ task'[w].user = u
             PROVE  standing'[u] \in Ranks
  BY DEF WasRanked, RevokesRank, Ranks
<1>1. edits = 0 /\ (standing'[u] = standing[u] \/ standing'[u] \in Ranks)
  BY StandingStep
<1>2. CASE listed'[u] \cap {"owner", "admin"} # {}
  BY <1>1, <1>2, ListedStep DEF WasRanked
<1>3. CASE \E w \in Workers :
             pc'[w] = "call" /\ RevokesRank(task'[w]) /\ task'[w].user = u
  <2>1. PICK w \in Workers :
             pc'[w] = "call" /\ RevokesRank(task'[w]) /\ task'[w].user = u
    BY <1>3
  <2>2. CASE Kept(w)
    BY <1>1, <2>1, <2>2 DEF Kept, WasRanked
  <2>3. CASE Begun(w)
    <3>1. task'[w].ent \in listed[u] /\ task'[w].ent \in {"owner", "admin"}
      BY <2>1, <2>3, BegunAsListed DEF RevokesRank
    <3>2. QED BY <1>1, <3>1 DEF WasRanked
  <2>4. CASE Ended(w)
    BY <2>1, <2>4 DEF Ended
  <2>5. QED BY <2>2, <2>3, <2>4, StepOfWorker
<1>4. QED BY <1>2, <1>3

\* What the call of a revoke leaves was there before.
LEMMA RevokeTakesOnly ==
    ASSUME TypeOK, InCall, WasRanked, edits = 0,
           NEW w \in Workers, Applied(w), task[w].op = "revoke"
    PROVE  Emitted(standing'[task[w].user]) \subseteq Emitted(standing[task[w].user])
<1> DEFINE u == task[w].user
<1>1. /\ pc[w] = "call" /\ task[w] \in Tasks /\ EndsEarly(task[w]) = "no"
      /\ Accepted(standing[u], Call(task[w]))
      /\ standing' = [standing EXCEPT ![u] = After(Call(task[w]))]
  BY DEF Applied, InCall
<1>2. u \in Users
  BY <1>1, CallIsMade
<1>3. standing'[u] = After(Call(task[w])) /\ standing[u] \in Standings
  BY <1>1, <1>2 DEF TypeOK
<1>4. CASE task[w].ent \in {"workspace", "member"}
  <2>1. Call(task[w]) = "remove"
    BY <1>4 DEF Call, Settable
  <2>2. Emitted(standing'[u]) = {}
    BY <1>3, <2>1 DEF After, Emitted
  <2>3. QED BY <2>2
<1>5. CASE task[w].ent \in {"owner", "admin"}
  <2>1. Call(task[w]) = "regular"
    BY <1>5 DEF Call
  <2>2. standing'[u] = "regular"
    BY <1>3, <2>1 DEF After
  <2>3. standing[u] \in Ranks
    BY <1>1, <1>2, <1>5 DEF WasRanked, RevokesRank
  <2>4. standing[u] \in {"owner", "admin", "regular"}
    BY <1>1, <2>1, <2>3 DEF Ranks, Accepted, Unknown, Protected
  <2>5. Flags(standing[u]) \cap {"IsRestricted", "IsUltraRestricted", "IsInvitedUser",
                                 "IsBot", "Deleted"} = {}
    BY <2>4 DEF Flags
  <2>6. {"workspace", "member"} \cap Entitlements \subseteq Emitted(standing[u])
    BY <2>4, <2>5 DEF Emitted, EmittedRoles, Roles
  <2>7. QED BY <2>2, <2>6, EmittedToRegular
<1>6. task[w].ent \in {"workspace", "member", "owner", "admin"}
  BY <1>1 DEF EndsEarly, Call
<1>7. QED BY <1>4, <1>5, <1>6

\* As long as no administrator interferes, a revoke leaves no user with a
\* grant it did not have, from however old a listing C1 asked for it: setting
\* a user back to a regular one (roles.go:262) makes a member of nobody.
THEOREM RevokesNeverPromote == Spec => RevokeNeverPromotes
<1> DEFINE TakesOnly ==
        \A w \in Workers : \A u \in Users :
            pc[w] = "call" /\ task[w].op = "revoke" /\ task[w].user = u
                /\ (pc'[w] = "idle" \/ tries'[w] # tries[w]) /\ edits = 0
            => Emitted(standing'[u]) \subseteq Emitted(standing[u])
<1>1. TypeOK /\ InCall /\ WasRanked /\ [Next]_vars => TypeOK' /\ InCall' /\ WasRanked'
  BY TypeStep, InCallStep, RankedStep
<1>2. Init => WasRanked
  BY DEF Init, WasRanked
<1>3. TypeOK /\ InCall /\ WasRanked /\ [Next]_vars => TakesOnly
  <2> SUFFICES ASSUME TypeOK, InCall, WasRanked, [Next]_vars, edits = 0,
                      NEW w \in Workers, pc[w] = "call", task[w].op = "revoke",
                      task[w].user \in Users, pc'[w] = "idle" \/ tries'[w] # tries[w]
               PROVE  Emitted(standing'[task[w].user]) \subseteq Emitted(standing[task[w].user])
    OBVIOUS
  <2>1. standing' = standing \/ Applied(w)
    <3>1. ASSUME NEW v \in Workers, NEW t \in Tasks, Start(v, t) PROVE standing' = standing
      BY <3>1 DEF Start
    <3>2. ASSUME NEW v \in Workers, WorkerStep(v) PROVE standing' = standing \/ Applied(w)
      <4>1. RunAgain(v) \/ \E how : Finish(v, how)
        BY <3>2 DEF WorkerStep, CallDone, ReplyLost, CallUnavailable, CallRejected, NotFound,
                    AlreadyExists
      <4>2. v # w => pc'[w] = pc[w] /\ tries'[w] = tries[w]
        BY <4>1 DEF RunAgain, Finish, TypeOK
      <4>3. v = w
        BY <4>2
      <4>4. QED BY <3>2, <4>3 DEF WorkerStep, CallDone, ReplyLost, CallUnavailable,
                                 CallRejected, NotFound, AlreadyExists
    <3>3. ASSUME NEW u \in Users, Sync(u) PROVE standing' = standing
      BY <3>3 DEF Sync
    <3>4. ASSUME NEW u \in Users, NEW s \in Standings, AdminEdit(u, s) PROVE FALSE
      BY <3>4 DEF AdminEdit, handler
    <3>5. ASSUME Crash \/ UNCHANGED vars PROVE standing' = standing
      BY <3>5 DEF Crash, vars
    <3>6. QED BY <3>1, <3>2, <3>3, <3>4, <3>5 DEF Next
  <2>2. QED BY <2>1, RevokeTakesOnly
<1>4. TypeOK /\ InCall /\ WasRanked /\ [Next]_vars => [TakesOnly]_vars
  BY <1>3
<1>5. QED BY <1>1, <1>2, <1>4, AtTheStart, PTL DEF Spec, RevokeNeverPromotes
=============================================================================
