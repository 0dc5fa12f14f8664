---------------------- MODULE EnterpriseRoleAccessProofs ----------------------
(***************************************************************************)
(* What holds of EnterpriseRoleAccess for all users, teams, workers and    *)
(* bounds: every variable keeps its type; a change is asked for at a team  *)
(* the user had during the task; a grant or a revoke that reports success, *)
(* and that Slack did not reject, took effect at such a team.              *)
(*                                                                         *)
(* As in WorkspaceAccessProofs, lemma StepOfWorker says what a step does   *)
(* to one worker.  The history always has the assignments and teams of the *)
(* moment (invariant InTask), so what a call finds or leaves is in it.     *)
(***************************************************************************)
EXTENDS EnterpriseRoleAccess, TLAPS

-----------------------------------------------------------------------------
(* What a step does to one worker. *)

\* A task under way: the history is up to date, a team to call for is known.
InTask ==
    \A w \in Workers :
        /\ pc[w] # "idle" => /\ task[w] \in Tasks
                             /\ <<assigned, home>> \in during[w]
        /\ pc[w] = "change" => team[w] # NoTeam

Waits(w) ==
    /\ pc[w] = "idle" /\ pc'[w] = "idle"
    /\ task'[w] = task[w] /\ outcome'[w] = outcome[w] /\ rejected'[w] = rejected[w]

Begun(w) ==
    /\ pc[w] = "idle" /\ pc'[w] = "info"
    /\ task'[w] \in Tasks /\ outcome'[w] = "none"

\* A task goes on; before its change it has just asked for the team.
Goes(w) ==
    /\ pc[w] # "idle" /\ pc'[w] # "idle"
    /\ task'[w] = task[w] /\ outcome'[w] = outcome[w] /\ rejected'[w] = rejected[w]
    /\ pc'[w] = "change" =>
        \/ pc[w] = "change" /\ team'[w] = team[w]
        \/ team'[w] # NoTeam /\ team'[w] = home[task[w].user]

\* A task ends: without success, rejected, or with its change.
Ended(w) ==
    /\ pc[w] # "idle" /\ pc'[w] = "idle" /\ task'[w] = task[w]
    /\ \/ outcome'[w] # "ok"
       \/ rejected'[w]
       \/ pc[w] = "change" /\ Applied(w)

Moves(w) == Waits(w) \/ Begun(w) \/ Goes(w) \/ Ended(w)

LEMMA Untouched ==
    ASSUME TypeOK, NEW v \in Workers,
           pc'[v] = pc[v], task'[v] = task[v], team'[v] = team[v],
           outcome'[v] = outcome[v], rejected'[v] = rejected[v]
    PROVE  Moves(v)
BY DEF TypeOK, Moves, Waits, Goes

LEMMA FinishOfWorkers ==
    ASSUME TypeOK, NEW w \in Workers, NEW how, Finish(w, how),
           \A v \in Workers \ {w} : rejected'[v] = rejected[v]
    PROVE  /\ \A v \in Workers \ {w} : Moves(v)
           /\ pc'[w] = "idle" /\ task'[w] = task[w] /\ outcome'[w] = how
<1>1. ASSUME NEW v \in Workers \ {w} PROVE Moves(v)
  <2>1. /\ pc'[v] = pc[v] /\ task'[v] = task[v] /\ team'[v] = team[v]
        /\ outcome'[v] = outcome[v] /\ rejected'[v] = rejected[v]
    BY <1>1 DEF TypeOK, Finish
  <2>2. QED BY <2>1, Untouched
<1>2. pc'[w] = "idle" /\ task'[w] = task[w] /\ outcome'[w] = how
  BY DEF TypeOK, Finish
<1>3. QED BY <1>1, <1>2

LEMMA RunAgainOfWorkers ==
    ASSUME TypeOK, NEW w \in Workers, pc[w] # "idle", RunAgain(w), UNCHANGED rejected
    PROVE  \A v \in Workers : Moves(v)
<1>1. CASE tries[w] + 1 <= MaxAttempts
  <2>1. ASSUME NEW v \in Workers, v # w PROVE Moves(v)
    <3>1. /\ pc'[v] = pc[v] /\ task'[v] = task[v] /\ team'[v] = team[v]
          /\ outcome'[v] = outcome[v] /\ rejected'[v] = rejected[v]
      BY <1>1, <2>1 DEF TypeOK, RunAgain
    <3>2. QED BY <3>1, Untouched
  <2>2. Goes(w)
    BY <1>1 DEF TypeOK, RunAgain, Goes
  <2>3. QED BY <2>1, <2>2 DEF Moves
<1>2. CASE ~(tries[w] + 1 <= MaxAttempts)
  <2>1. Finish(w, "error")
    BY <1>2 DEF RunAgain
  <2>2. QED BY <2>1, FinishOfWorkers DEF Moves, Ended
<1>3. QED BY <1>1, <1>2

LEMMA StepOfWorker ==
    ASSUME TypeOK, [Next]_vars
    PROVE  \A v \in Workers : Moves(v)
<1>1. ASSUME NEW w \in Workers, NEW t \in Tasks, Start(w, t) PROVE \A v \in Workers : Moves(v)
  <2>1. ASSUME NEW v \in Workers, v # w PROVE Moves(v)
    <3>1. /\ pc'[v] = pc[v] /\ task'[v] = task[v] /\ team'[v] = team[v]
          /\ outcome'[v] = outcome[v] /\ rejected'[v] = rejected[v]
      BY <1>1, <2>1 DEF TypeOK, Start
    <3>2. QED BY <3>1, Untouched
  <2>2. Begun(w)
    BY <1>1 DEF TypeOK, Start, Begun
  <2>3. QED BY <2>1, <2>2 DEF Moves
<1>2. ASSUME NEW w \in Workers, Info(w) PROVE \A v \in Workers : Moves(v)
  <2>1. CASE Finish(w, "no_team") \/ Finish(w, "not_found")
    BY <1>2, <2>1, FinishOfWorkers DEF Info, Moves, Ended
  <2>2. CASE /\ home[task[w].user] # NoTeam
             /\ team' = [team EXCEPT ![w] = home[task[w].user]]
             /\ pc' = [pc EXCEPT ![w] = "change"]
             /\ UNCHANGED <<task, tries, outcome, started, edits>>
    <3>1. ASSUME NEW v \in Workers, v # w PROVE Moves(v)
      <4>1. /\ pc'[v] = pc[v] /\ task'[v] = task[v] /\ team'[v] = team[v]
            /\ outcome'[v] = outcome[v] /\ rejected'[v] = rejected[v]
        BY <1>2, <2>2, <3>1 DEF TypeOK, Info
      <4>2. QED BY <4>1, Untouched
    <3>2. Goes(w)
      BY <1>2, <2>2 DEF TypeOK, Info, Goes
    <3>3. QED BY <3>1, <3>2 DEF Moves
  <2>3. QED BY <1>2, <2>1, <2>2 DEF Info
<1>3. ASSUME NEW w \in Workers, Change(w) PROVE \A v \in Workers : Moves(v)
  BY <1>3, FinishOfWorkers DEF Change, Moves, Ended
<1>4. ASSUME NEW w \in Workers, ChangeReplyLost(w) PROVE \A v \in Workers : Moves(v)
  <2>1. CASE RunAgain(w)
    BY <1>4, <2>1, RunAgainOfWorkers DEF ChangeReplyLost
  <2>2. CASE Finish(w, "error")
    BY <1>4, <2>2, FinishOfWorkers DEF ChangeReplyLost, Moves, Ended
  <2>3. QED BY <1>4, <2>1, <2>2 DEF ChangeReplyLost
<1>5. ASSUME NEW w \in Workers, ChangeRejectedOk(w) PROVE \A v \in Workers : Moves(v)
  <2>1. rejected'[w] /\ \A v \in Workers \ {w} : rejected'[v] = rejected[v]
    BY <1>5 DEF TypeOK, ChangeRejectedOk
  <2>2. QED BY <1>5, <2>1, FinishOfWorkers DEF ChangeRejectedOk, Moves, Ended
<1>6. ASSUME NEW w \in Workers, CallUnavailable(w) PROVE \A v \in Workers : Moves(v)
  BY <1>6, RunAgainOfWorkers DEF CallUnavailable
<1>7. ASSUME NEW w \in Workers, CallRejected(w) PROVE \A v \in Workers : Moves(v)
  BY <1>7, FinishOfWorkers DEF CallRejected, Moves, Ended
<1>8. ASSUME Crash PROVE \A v \in Workers : Moves(v)
  BY <1>8 DEF TypeOK, Crash, Moves, Waits, Ended
<1>9. ASSUME \/ \E p \in known \X Entities : AdminAssign(p)
             \/ \E u \in Users : \E t \in Teams \cup {NoTeam} : AdminMove(u, t)
             \/ \E u \in Users : AdminDelete(u)
             \/ UNCHANGED vars
      PROVE  \A v \in Workers : Moves(v)
  <2>1. UNCHANGED <<handler, rejected>>
    BY <1>9 DEF AdminAssign, AdminMove, AdminDelete, vars, handler
  <2>2. QED BY <2>1, Untouched DEF handler
<1>10. QED
  BY <1>1, <1>2, <1>3, <1>4, <1>5, <1>6, <1>7, <1>8, <1>9 DEF Next, WorkerStep

\* Every step takes note of the assignments and the teams.
LEMMA StepObserves == [Next]_vars => Observe \/ UNCHANGED vars
BY DEF Next, Start, WorkerStep, Info, Change, ChangeReplyLost, ChangeRejectedOk,
       CallUnavailable, CallRejected, Crash, AdminAssign, AdminMove, AdminDelete

\* What the history has of one worker after a step.
LEMMA HistoryOfWorker ==
    ASSUME TypeOK, InTask, [Next]_vars, NEW v \in Workers
    PROVE  /\ Waits(v) => during'[v] = during[v]
           /\ ~Begun(v) => during[v] \subseteq during'[v]
           /\ pc'[v] # "idle" \/ pc[v] # "idle" => <<assigned', home'>> \in during'[v]
<1>1. CASE UNCHANGED vars
  BY <1>1 DEF vars, InTask
<1>2. CASE Observe
  <2>1. Moves(v)
    BY StepOfWorker
  <2>2. QED BY <1>2, <2>1 DEF Observe, Moves, Waits, Begun, Goes, Ended
<1>3. QED BY <1>1, <1>2, StepObserves

LEMMA InTaskStep ==
    ASSUME TypeOK, InTask, [Next]_vars
    PROVE  InTask'
<1> SUFFICES ASSUME NEW w \in Workers
             PROVE  /\ pc'[w] # "idle" => /\ task'[w] \in Tasks
                                          /\ <<assigned', home'>> \in during'[w]
                    /\ pc'[w] = "change" => team'[w] # NoTeam
  BY DEF InTask
<1>1. pc'[w] # "idle" => <<assigned', home'>> \in during'[w]
  BY HistoryOfWorker
<1>2. Moves(w)
  BY StepOfWorker
<1>3. QED BY <1>1, <1>2 DEF InTask, Moves, Waits, Begun, Goes, Ended

-----------------------------------------------------------------------------
(* Types. *)

AssignedType(a) == a \subseteq Users \X Entities
HomeType(h) == h \in [Users -> Teams \cup {NoTeam}]

\* The types of what belongs to the tasks.
TaskTypes ==
    /\ pc \in [Workers -> {"idle", "info", "change"}]
    /\ task \in [Workers -> Tasks \cup {NoTask}]
    /\ team \in [Workers -> Teams \cup {NoTeam}]
    /\ tries \in [Workers -> Nat]
    /\ outcome \in [Workers -> {"none", "ok", "no_team", "not_found", "error", "lost"}]
    /\ started \in Nat
    /\ edits \in Nat

LEMMA TypesOfTasks == TypeOK => TaskTypes
BY DEF TypeOK, TaskTypes

LEMMA DuringType ==
    ASSUME TypeOK, Observe, AssignedType(assigned'), HomeType(home')
    PROVE  during' \in [Workers -> SUBSET ((SUBSET (Users \X Entities))
                                           \X [Users -> Teams \cup {NoTeam}])]
<1> DEFINE Moments == (SUBSET (Users \X Entities)) \X [Users -> Teams \cup {NoTeam}]
<1>1. <<assigned', home'>> \in Moments
  BY DEF AssignedType, HomeType
<1>2. during \in [Workers -> SUBSET Moments]
  BY DEF TypeOK
<1> HIDE DEF Moments
<1>3. during' \in [Workers -> SUBSET Moments]
  BY <1>1, <1>2 DEF Observe
<1>4. QED BY <1>3 DEF Moments

LEMMA TypesOfAll ==
    ASSUME TaskTypes', AssignedType(assigned'), HomeType(home'), known' \subseteq Users,
           rejected' \in [Workers -> BOOLEAN],
           during' \in [Workers -> SUBSET ((SUBSET (Users \X Entities))
                                           \X [Users -> Teams \cup {NoTeam}])]
    PROVE  TypeOK'
BY DEF TypeOK, TaskTypes, AssignedType, HomeType

LEMMA FinishType ==
    ASSUME TypeOK, NEW w \in Workers,
           NEW how \in {"none", "ok", "no_team", "not_found", "error", "lost"},
           Finish(w, how)
    PROVE  TaskTypes'
BY TypesOfTasks DEF Finish, TaskTypes

LEMMA RunAgainType ==
    ASSUME TypeOK, NEW w \in Workers, RunAgain(w)
    PROVE  TaskTypes'
<1>0. TaskTypes
  BY TypesOfTasks
<1>1. CASE tries[w] + 1 <= MaxAttempts
  BY <1>0, <1>1 DEF RunAgain, TaskTypes
<1>2. CASE ~(tries[w] + 1 <= MaxAttempts)
  BY <1>2, FinishType DEF RunAgain
<1>3. QED BY <1>1, <1>2

LEMMA AppliedType ==
    ASSUME TypeOK, InTask, NEW w \in Workers, pc[w] = "change", Applied(w)
    PROVE  AssignedType(assigned')
<1>1. task[w].user \in Users /\ team[w] \in Entities
  BY DEF TypeOK, InTask, Tasks, Entities
<1>2. QED BY <1>1 DEF TypeOK, Applied, AssignedType

LEMMA TypeStep ==
    ASSUME TypeOK, InTask, [Next]_vars
    PROVE  TypeOK'
<1>0. TaskTypes
  BY TypesOfTasks
<1>1. ASSUME NEW w \in Workers, NEW t \in Tasks, Start(w, t) PROVE TypeOK'
  <2>1. Observe /\ AssignedType(assigned') /\ HomeType(home')
    BY <1>1 DEF TypeOK, Start, AssignedType, HomeType
  <2>2. TaskTypes'
    BY <1>0, <1>1 DEF Start, TaskTypes
  <2>3. known' \subseteq Users /\ rejected' \in [Workers -> BOOLEAN]
    BY <1>1 DEF TypeOK, Start
  <2>4. QED BY <2>1, <2>2, <2>3, DuringType, TypesOfAll
<1>2. ASSUME NEW w \in Workers, WorkerStep(w) PROVE TypeOK'
  <2>1. TaskTypes'
    <3>1. CASE RunAgain(w)
      BY <3>1, RunAgainType
    <3>2. CASE \E how \in {"ok", "error", "no_team", "not_found"} : Finish(w, how)
      <4>1. PICK how \in {"ok", "error", "no_team", "not_found"} : Finish(w, how)
        BY <3>2
      <4>2. how \in {"none", "ok", "no_team", "not_found", "error", "lost"}
        OBVIOUS
      <4>3. QED BY <4>1, <4>2, FinishType
    <3>3. CASE /\ Info(w)
               /\ task[w].user \in known
               /\ team' = [team EXCEPT ![w] = home[task[w].user]]
               /\ pc' = [pc EXCEPT ![w] = "change"]
               /\ UNCHANGED <<task, tries, outcome, started, edits>>
      <4>1. home[task[w].user] \in Teams \cup {NoTeam}
        BY <3>3 DEF TypeOK
      <4>2. QED BY <1>0, <3>3, <4>1 DEF TaskTypes
    <3>4. QED
      BY <1>2, <3>1, <3>2, <3>3
         DEF WorkerStep, Info, Change, ChangeReplyLost, ChangeRejectedOk, CallUnavailable,
             CallRejected
  <2>2. AssignedType(assigned')
    <3>1. CASE Change(w) \/ ChangeReplyLost(w)
      BY <3>1, AppliedType DEF Change, ChangeReplyLost
    <3>2. CASE UNCHANGED assigned
      BY <3>2 DEF TypeOK, AssignedType
    <3>3. QED BY <1>2, <3>1, <3>2
         DEF WorkerStep, Info, ChangeRejectedOk, CallUnavailable, CallRejected
  <2>3. UNCHANGED <<home, known>> /\ Observe /\ rejected' \in [Workers -> BOOLEAN]
    BY <1>2 DEF TypeOK, WorkerStep, Info, Change, ChangeReplyLost, ChangeRejectedOk,
                CallUnavailable, CallRejected
  <2>4. HomeType(home')
    BY <2>3 DEF TypeOK, HomeType
  <2>5. known' \subseteq Users
    BY <2>3 DEF TypeOK
  <2>6. QED BY <2>1, <2>2, <2>3, <2>4, <2>5, DuringType, TypesOfAll
<1>3. ASSUME Crash PROVE TypeOK'
  <2>1. Observe /\ AssignedType(assigned') /\ HomeType(home')
    BY <1>3 DEF TypeOK, Crash, AssignedType, HomeType
  <2>2. TaskTypes'
    BY <1>0, <1>3 DEF Crash, handler, TaskTypes
  <2>3. known' \subseteq Users /\ rejected' \in [Workers -> BOOLEAN]
    BY <1>3 DEF TypeOK, Crash
  <2>4. QED BY <2>1, <2>2, <2>3, DuringType, TypesOfAll
<1>4. ASSUME NEW p \in known \X Entities, AdminAssign(p) PROVE TypeOK'
  <2>1. Observe /\ AssignedType(assigned') /\ HomeType(home')
    BY <1>4 DEF TypeOK, AdminAssign, AssignedType, HomeType
  <2>2. TaskTypes'
    BY <1>0, <1>4 DEF AdminAssign, handler, TaskTypes
  <2>3. known' \subseteq Users /\ rejected' \in [Workers -> BOOLEAN]
    BY <1>4 DEF TypeOK, AdminAssign
  <2>4. QED BY <2>1, <2>2, <2>3, DuringType, TypesOfAll
<1>5. ASSUME NEW u \in Users, NEW t \in Teams \cup {NoTeam}, AdminMove(u, t) PROVE TypeOK'
  <2>1. Observe /\ AssignedType(assigned') /\ HomeType(home')
    BY <1>5 DEF TypeOK, AdminMove, AssignedType, HomeType
  <2>2. TaskTypes'
    BY <1>0, <1>5 DEF AdminMove, handler, TaskTypes
  <2>3. known' \subseteq Users /\ rejected' \in [Workers -> BOOLEAN]
    BY <1>5 DEF TypeOK, AdminMove
  <2>4. QED BY <2>1, <2>2, <2>3, DuringType, TypesOfAll
<1>6. ASSUME NEW u \in Users, AdminDelete(u) PROVE TypeOK'
  <2>1. Observe /\ AssignedType(assigned') /\ HomeType(home')
    BY <1>6 DEF TypeOK, AdminDelete, AssignedType, HomeType
  <2>2. TaskTypes'
    BY <1>0, <1>6 DEF AdminDelete, handler, TaskTypes
  <2>3. known' \subseteq Users /\ rejected' \in [Workers -> BOOLEAN]
    BY <1>6 DEF TypeOK, AdminDelete
  <2>4. QED BY <2>1, <2>2, <2>3, DuringType, TypesOfAll
<1>7. ASSUME UNCHANGED vars PROVE TypeOK'
  BY <1>7 DEF TypeOK, vars
<1>8. QED BY <1>1, <1>2, <1>3, <1>4, <1>5, <1>6, <1>7 DEF Next

-----------------------------------------------------------------------------
(* The team, and success. *)

LEMMA TeamStep ==
    ASSUME TypeOK, InTask, TeamIsRecent, [Next]_vars
    PROVE  TeamIsRecent'
<1> SUFFICES ASSUME NEW w \in Workers, pc'[w] = "change"
             PROVE  /\ team'[w] # NoTeam
                    /\ \E d \in during'[w] : d[2][task'[w].user] = team'[w]
  BY DEF TeamIsRecent
<1>1. Goes(w)
  BY StepOfWorker DEF Moves, Waits, Begun, Ended
<1>2. during[w] \subseteq during'[w]
  BY <1>1, HistoryOfWorker DEF Goes, Begun
<1>3. CASE pc[w] = "change" /\ team'[w] = team[w]
  BY <1>1, <1>2, <1>3 DEF TeamIsRecent, Goes
<1>4. CASE team'[w] # NoTeam /\ team'[w] = home[task[w].user]
  <2>1. <<assigned, home>> \in during'[w]
    BY <1>1, <1>2 DEF InTask, Goes
  <2>2. <<assigned, home>>[2][task'[w].user] = team'[w]
    BY <1>1, <1>4 DEF Goes
  <2>3. QED BY <1>4, <2>1, <2>2
<1>5. QED BY <1>1, <1>3, <1>4 DEF Goes

LEMMA GrantStep ==
    ASSUME TypeOK, InTask, GrantTakesEffect, [Next]_vars
    PROVE  GrantTakesEffect'
<1> SUFFICES ASSUME NEW w \in Workers, ~rejected'[w], task'[w].op = "grant",
                    outcome'[w] = "ok"
             PROVE  \E d \in during'[w] : Emitted(task'[w].user, d[1])
  BY DEF GrantTakesEffect, GrantSucceeds, Emitted, Entities
<1>1. CASE Waits(w) \/ Goes(w)
  <2>1. during[w] \subseteq during'[w]
    BY <1>1, HistoryOfWorker DEF Waits, Goes, Begun
  <2>2. QED BY <1>1, <2>1 DEF GrantTakesEffect, GrantSucceeds, Waits, Goes
<1>2. CASE Begun(w)
  BY <1>2 DEF Begun
<1>3. CASE Ended(w)
  <2>1. pc[w] = "change" /\ task'[w] = task[w] /\ Applied(w)
    BY <1>3 DEF Ended
  <2>2. <<assigned', home'>> \in during'[w]
    BY <2>1, HistoryOfWorker
  <2>3. <<task[w].user, team[w]>> \in assigned'
    BY <2>1 DEF Applied
  <2>4. team[w] \in Entities
    BY <2>1 DEF TypeOK, InTask, Entities
  <2>5. Emitted(task[w].user, <<assigned', home'>>[1])
    BY <2>3, <2>4 DEF Emitted
  <2>6. QED BY <2>1, <2>2, <2>5
<1>4. QED BY <1>1, <1>2, <1>3, StepOfWorker DEF Moves

LEMMA RevokeStep ==
    ASSUME TypeOK, InTask, TeamIsRecent, RevokeTakesEffectAtTeam, [Next]_vars
    PROVE  RevokeTakesEffectAtTeam'
<1> SUFFICES ASSUME NEW w \in Workers, task'[w].op = "revoke", outcome'[w] = "ok",
                    ~rejected'[w]
             PROVE  \E t \in Teams :
                        /\ \E d \in during'[w] : d[2][task'[w].user] = t
                        /\ \E d \in during'[w] : <<task'[w].user, t>> \notin d[1]
  BY DEF RevokeTakesEffectAtTeam
<1>1. CASE Waits(w) \/ Goes(w)
  <2>1. during[w] \subseteq during'[w]
    BY <1>1, HistoryOfWorker DEF Waits, Goes, Begun
  <2>2. QED BY <1>1, <2>1 DEF RevokeTakesEffectAtTeam, Waits, Goes
<1>2. CASE Begun(w)
  BY <1>2 DEF Begun
<1>3. CASE Ended(w)
  <2>1. pc[w] = "change" /\ task'[w] = task[w] /\ Applied(w)
    BY <1>3 DEF Ended
  <2>2. during[w] \subseteq during'[w] /\ <<assigned', home'>> \in during'[w]
    BY <2>1, HistoryOfWorker DEF Begun
  <2>3. team[w] \in Teams /\ \E d \in during'[w] : d[2][task[w].user] = team[w]
    BY <2>1, <2>2 DEF TypeOK, TeamIsRecent
  <2>4. <<task[w].user, team[w]>> \notin <<assigned', home'>>[1]
    BY <2>1 DEF Applied
  <2>5. QED BY <2>1, <2>2, <2>3, <2>4
<1>4. QED BY <1>1, <1>2, <1>3, StepOfWorker DEF Moves

-----------------------------------------------------------------------------
LEMMA AtTheStart ==
    Init => TypeOK /\ InTask /\ TeamIsRecent /\ GrantTakesEffect /\ RevokeTakesEffectAtTeam
<1> SUFFICES ASSUME Init
             PROVE  TypeOK /\ InTask /\ TeamIsRecent /\ GrantTakesEffect
                    /\ RevokeTakesEffectAtTeam
  OBVIOUS
<1>1. TypeOK
  BY DEF Init, TypeOK
<1>2. \A w \in Workers : pc[w] = "idle" /\ task[w] = NoTask /\ outcome[w] = "none"
  BY DEF Init
<1>3. QED
  BY <1>1, <1>2 DEF InTask, TeamIsRecent, GrantTakesEffect, GrantSucceeds,
                    RevokeTakesEffectAtTeam

\* Every variable keeps its type; above all, the role is never assigned at an
\* entity that is none (getTeamIDForUser returns no empty team).
THEOREM TypeCorrect == Spec => []TypeOK
<1>1. TypeOK /\ InTask /\ [Next]_vars => TypeOK' /\ InTask'
  BY TypeStep, InTaskStep
<1>2. QED BY <1>1, AtTheStart, PTL DEF Spec

\* A change is asked for at a team the user had during this task, however
\* often the handler runs again (Grant and Revoke of enterprise_roles.go).
THEOREM TeamIsAlwaysRecent == Spec => []TeamIsRecent
<1>1. TypeOK /\ InTask /\ TeamIsRecent /\ [Next]_vars => TypeOK' /\ InTask' /\ TeamIsRecent'
  BY TypeStep, InTaskStep, TeamStep
<1>2. QED BY <1>1, AtTheStart, PTL DEF Spec

\* A grant that reports success, and that Slack did not reject, was assigned
\* at a moment of its task (Grant of enterprise_roles.go).
THEOREM GrantsTakeEffect == Spec => []GrantTakesEffect
<1>1. TypeOK /\ InTask /\ GrantTakesEffect /\ [Next]_vars
      => TypeOK' /\ InTask' /\ GrantTakesEffect'
  BY TypeStep, InTaskStep, GrantStep
<1>2. QED BY <1>1, AtTheStart, PTL DEF Spec

\* A revoke that reports success, and that Slack did not reject, found or left
\* its user without the role at a team the user had during its task (Revoke of
\* enterprise_roles.go).
THEOREM RevokesTakeEffectAtTeam == Spec => []RevokeTakesEffectAtTeam
<1>1. TypeOK /\ InTask /\ TeamIsRecent /\ RevokeTakesEffectAtTeam /\ [Next]_vars
      => TypeOK' /\ InTask' /\ TeamIsRecent' /\ RevokeTakesEffectAtTeam'
  BY TypeStep, InTaskStep, TeamStep, RevokeStep
<1>2. QED BY <1>1, AtTheStart, PTL DEF Spec
=============================================================================
