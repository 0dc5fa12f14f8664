-------------------------- MODULE UserGroupProofs ---------------------------
(***************************************************************************)
(* What holds of UserGroup for any users, any workers, any number of       *)
(* tasks, attempts and edits.                                              *)
(***************************************************************************)
EXTENDS UserGroup, TLAPS

USE DEF NoTask

-----------------------------------------------------------------------------
(* The steps, as what they do to the worker that takes them. *)

LEMMA ObserveBusy ==
    ASSUME TypeOK, Observe, NEW w \in Workers
    PROVE  /\ pc[w] # "idle" => during'[w] = during[w] \cup {members'}
           /\ pc[w] = "idle" /\ pc'[w] = "idle" => during'[w] = during[w]
           /\ pc[w] = "idle" /\ pc'[w] # "idle" => during'[w] = {members'}
BY DEF Observe

LEMMA ObserveType ==
    ASSUME TypeOK, members' \subseteq Users, Observe
    PROVE  /\ had' \subseteq SUBSET Users
           /\ during' \in [Workers -> SUBSET SUBSET Users]
BY DEF TypeOK, Observe

\* A busy worker's user is a user, its request was made, and carrying it out
\* yields a list of users.
LEMMA BusyTask ==
    ASSUME TypeOK, TasksInFlight, NEW w \in Workers, pc[w] # "idle"
    PROVE  /\ task[w] \in Tasks
           /\ task[w].op \in {"grant", "revoke"}
           /\ task[w].user \in Users
           /\ <<task[w].op, task[w].user>> \in asked
           /\ \A m \in SUBSET Users : CarriedOut(task[w], m) \subseteq Users
<1>1. task[w] \in Tasks /\ <<task[w].op, task[w].user>> \in asked
  BY DEF TasksInFlight
<1>2. task[w].op \in {"grant", "revoke"} /\ task[w].user \in Users
  BY <1>1 DEF TypeOK
<1>3. QED BY <1>1, <1>2 DEF CarriedOut

\* The step of a worker ends its task, starts it over, or goes on to the
\* write with the new list; members is changed by a write only.
LEMMA StepShape ==
    ASSUME TypeOK, TasksInFlight, NEW w \in Workers, WorkerStep(w)
    PROVE  /\ pc[w] # "idle" /\ Observe
           /\ UNCHANGED <<task, bounds, asked, enabled>>
           /\ \/ \E how \in {"already", "ok", "error", "not_found"} :
                    /\ Finish(w, how)
                    /\ how = "already" => NothingToDo(task[w], members)
                    /\ how = "ok" => pc[w] = "write" /\ members' = body[w]
              \/ /\ tries' = [tries EXCEPT ![w] = @ + 1]
                 /\ pc' = [pc EXCEPT ![w] = "read"]
                 /\ body' = [body EXCEPT ![w] = {}]
                 /\ UNCHANGED outcome
              \/ /\ pc[w] = "read"
                 /\ body' = [body EXCEPT ![w] = CarriedOut(task[w], members)]
                 /\ pc' = [pc EXCEPT ![w] = "write"]
                 /\ UNCHANGED <<tries, outcome, members>>
           /\ \/ members' = members
              \/ pc[w] = "write" /\ members' = body[w]
<1>1. CASE Read(w)
  BY <1>1 DEF Read, Finish, bounds
<1>2. CASE Write(w)
  BY <1>2 DEF Write, Finish, bounds
<1>3. CASE WriteReplyLost(w)
  BY <1>3 DEF WriteReplyLost, RunAgain, Finish, bounds
<1>4. CASE CallUnavailable(w)
  BY <1>4 DEF CallUnavailable, RunAgain, Finish, bounds
<1>5. CASE CallRejected(w) \/ NoSuchSubteam(w)
  BY <1>5 DEF CallRejected, NoSuchSubteam, Finish, bounds
<1>6. QED BY <1>1, <1>2, <1>3, <1>4, <1>5 DEF WorkerStep

-----------------------------------------------------------------------------
(* Types, and the tasks in flight. *)

LEMMA TypeInit == Init => TypeOK /\ TasksInFlight
BY UserGroupAssumption DEF Init, TypeOK, TasksInFlight

LEMMA TypeStep ==
    TypeOK /\ TasksInFlight /\ [Next]_vars => TypeOK' /\ TasksInFlight'
<1> SUFFICES ASSUME TypeOK, TasksInFlight, [Next]_vars
             PROVE  TypeOK' /\ TasksInFlight'
  OBVIOUS
<1>1. ASSUME NEW w \in Workers, NEW t \in Tasks, Start(w, t)
      PROVE  TypeOK' /\ TasksInFlight'
  <2>1. t.op \in {"grant", "revoke"}
    BY UserGroupAssumption DEF Tasks
  <2>2. /\ had' \subseteq SUBSET Users
        /\ during' \in [Workers -> SUBSET SUBSET Users]
    BY <1>1, ObserveType DEF TypeOK, Start
  <2>3. TypeOK'
    <3>1. asked' \subseteq {"grant", "revoke"} \X Users
      BY <1>1, <2>1 DEF TypeOK, Start
    <3>2. task' \in [Workers -> Tasks \cup {NoTask}]
      BY <1>1 DEF TypeOK, Start
    <3>3. QED BY <1>1, <2>2, <3>1, <3>2 DEF TypeOK, Start
  <2>4. TasksInFlight'
    BY <1>1 DEF TypeOK, TasksInFlight, Start
  <2>5. QED BY <2>3, <2>4
<1>2. ASSUME NEW w \in Workers, WorkerStep(w) PROVE TypeOK' /\ TasksInFlight'
  <2>1. members' \subseteq Users /\ Observe
    BY <1>2, StepShape DEF TypeOK
  <2>2. /\ had' \subseteq SUBSET Users
        /\ during' \in [Workers -> SUBSET SUBSET Users]
    BY <2>1, ObserveType
  <2>3. CarriedOut(task[w], members) \subseteq Users
    BY <1>2, StepShape, BusyTask DEF TypeOK
  <2>4. UNCHANGED <<task, bounds, asked, enabled>>
    BY <1>2, StepShape
  <2>5. CASE \E how \in {"already", "ok", "error", "not_found"} : Finish(w, how)
    BY <2>1, <2>2, <2>4, <2>5 DEF TypeOK, TasksInFlight, Finish, bounds
  <2>6. CASE /\ tries' = [tries EXCEPT ![w] = @ + 1]
             /\ pc' = [pc EXCEPT ![w] = "read"]
             /\ body' = [body EXCEPT ![w] = {}]
             /\ UNCHANGED outcome
    <3>1. pc[w] # "idle"
      BY <1>2, StepShape
    <3>2. QED BY <2>1, <2>2, <2>4, <2>6, <3>1 DEF TypeOK, TasksInFlight, bounds
  <2>7. CASE /\ pc[w] = "read"
             /\ body' = [body EXCEPT ![w] = CarriedOut(task[w], members)]
             /\ pc' = [pc EXCEPT ![w] = "write"]
             /\ UNCHANGED <<tries, outcome, members>>
    BY <2>1, <2>2, <2>3, <2>4, <2>7 DEF TypeOK, TasksInFlight, bounds
  <2>8. QED BY <1>2, <2>5, <2>6, <2>7, StepShape
<1>3. CASE Crash
  <2>1. /\ had' \subseteq SUBSET Users
        /\ during' \in [Workers -> SUBSET SUBSET Users]
    BY <1>3, ObserveType DEF TypeOK, Crash
  <2>2. QED BY <1>3, <2>1 DEF TypeOK, TasksInFlight, Crash, bounds
<1>4. ASSUME NEW r \in {"grant", "revoke"} \X Users, AdminEdit(r)
      PROVE  TypeOK' /\ TasksInFlight'
  <2>1. members' \subseteq Users /\ r[2] \in Users
    BY <1>4 DEF TypeOK, AdminEdit
  <2>2. /\ had' \subseteq SUBSET Users
        /\ during' \in [Workers -> SUBSET SUBSET Users]
    BY <1>4, <2>1, ObserveType DEF AdminEdit
  <2>3. QED BY <1>4, <2>1, <2>2 DEF TypeOK, TasksInFlight, AdminEdit, handler
<1>5. CASE AdminToggle
  <2>1. /\ had' \subseteq SUBSET Users
        /\ during' \in [Workers -> SUBSET SUBSET Users]
    BY <1>5, ObserveType DEF TypeOK, AdminToggle
  <2>2. QED BY <1>5, <2>1 DEF TypeOK, TasksInFlight, AdminToggle, handler
<1>6. CASE UNCHANGED vars
  BY <1>6 DEF TypeOK, TasksInFlight, vars
<1>7. QED BY <1>1, <1>2, <1>3, <1>4, <1>5, <1>6 DEF Next

\* Slack's list holds users only: the guards of Grant and Revoke
\* (user_group.go:177, 226) keep the other principals from every call.
THEOREM TypeCorrect == Spec => [](TypeOK /\ TasksInFlight)
BY TypeInit, TypeStep, PTL DEF Spec

\* A busy worker works on a request that was made and has not answered yet,
\* through every retry, crash and step of the others.
THEOREM TasksStayInFlight == Spec => []TasksInFlight
BY TypeCorrect, PTL

-----------------------------------------------------------------------------
(* Writes are recent. *)

LEMMA RecentStep ==
    TypeOK /\ TasksInFlight /\ WritesAreRecent /\ [Next]_vars => WritesAreRecent'
<1> SUFFICES ASSUME TypeOK, TasksInFlight, WritesAreRecent, [Next]_vars,
                    NEW w \in Workers, pc'[w] = "write"
             PROVE  \E m \in during'[w] : body'[w] = CarriedOut(task'[w], m)
  BY DEF WritesAreRecent, CarriedOut
<1>1. CASE WorkerStep(w)
  <2>1. /\ body'[w] = CarriedOut(task[w], members)
        /\ members' = members /\ pc[w] # "idle" /\ task' = task /\ Observe
    BY <1>1, StepShape DEF TypeOK, Finish
  <2>2. members \in during'[w]
    BY <2>1, ObserveBusy
  <2>3. QED BY <2>1, <2>2
<1>2. CASE ~WorkerStep(w)
  <2>1. /\ pc[w] = "write" /\ body'[w] = body[w] /\ task'[w] = task[w]
        /\ Observe \/ UNCHANGED vars
    <3>1. ASSUME NEW v \in Workers, NEW t \in Tasks, Start(v, t)
          PROVE  /\ pc[w] = "write" /\ body'[w] = body[w] /\ task'[w] = task[w]
                 /\ Observe
      BY <3>1 DEF TypeOK, Start
    <3>2. ASSUME NEW v \in Workers, WorkerStep(v)
          PROVE  /\ pc[w] = "write" /\ body'[w] = body[w] /\ task'[w] = task[w]
                 /\ Observe
      <4>1. v # w
        BY <1>2, <3>2
      <4>2. QED BY <3>2, <4>1, StepShape DEF TypeOK, Finish
    <3>3. ~Crash
      BY DEF Crash
    <3>4. ASSUME NEW r \in {"grant", "revoke"} \X Users, AdminEdit(r) \/ AdminToggle
          PROVE  /\ pc[w] = "write" /\ body'[w] = body[w] /\ task'[w] = task[w]
                 /\ Observe
      BY <3>4 DEF AdminEdit, AdminToggle, handler
    <3>5. CASE AdminToggle
      BY <3>5 DEF AdminToggle, handler
    <3>6. CASE UNCHANGED vars
      BY <3>6 DEF vars
    <3>7. QED BY <3>1, <3>2, <3>3, <3>4, <3>5, <3>6 DEF Next
  <2>2. during[w] \subseteq during'[w]
    BY <2>1, ObserveBusy DEF vars
  <2>3. QED BY <2>1, <2>2 DEF WritesAreRecent
<1>3. QED BY <1>1, <1>2

\* A write carries the request out on a list no older than its task: with any
\* number of tasks at once, it undoes nothing that was done before it began.
THEOREM WritesAreAlwaysRecent == Spec => []WritesAreRecent
<1>1. Init => WritesAreRecent
  BY DEF Init, WritesAreRecent
<1>2. QED BY <1>1, TypeCorrect, RecentStep, PTL DEF Spec

-----------------------------------------------------------------------------
(* Success is real. *)

LEMMA CarriedOutIsDone ==
    ASSUME NEW t, t.op \in {"grant", "revoke"}, NEW m
    PROVE  NothingToDo(t, CarriedOut(t, m))
BY DEF NothingToDo, CarriedOut

LEMMA SuccessStep ==
    TypeOK /\ TasksInFlight /\ WritesAreRecent /\ SuccessIsReal /\ [Next]_vars
        => SuccessIsReal'
<1> SUFFICES ASSUME TypeOK, TasksInFlight, WritesAreRecent, SuccessIsReal,
                    [Next]_vars, NEW w \in Workers, outcome'[w] \in {"ok", "already"}
             PROVE  \E m \in during'[w] : NothingToDo(task'[w], m)
  BY DEF SuccessIsReal, NothingToDo
<1>1. CASE WorkerStep(w)
  <2>1. pc[w] # "idle" /\ Observe /\ task' = task /\ outcome[w] = "none"
    BY <1>1, StepShape DEF TasksInFlight
  <2>2. during'[w] = during[w] \cup {members'}
    BY <2>1, ObserveBusy
  <2>3. \/ NothingToDo(task[w], members) /\ members' = members
        \/ pc[w] = "write" /\ members' = body[w]
    BY <1>1, <2>1, StepShape DEF TypeOK, Finish
  <2>4. CASE NothingToDo(task[w], members) /\ members' = members
    BY <2>1, <2>2, <2>4
  <2>5. CASE pc[w] = "write" /\ members' = body[w]
    <3>1. PICK m \in during[w] : body[w] = CarriedOut(task[w], m)
      BY <2>5 DEF WritesAreRecent
    <3>2. NothingToDo(task[w], members')
      <4>1. task[w].op \in {"grant", "revoke"}
        BY <2>1, BusyTask
      <4>2. NothingToDo(task[w], CarriedOut(task[w], m))
        BY <4>1, CarriedOutIsDone
      <4>3. QED BY <2>5, <3>1, <4>2
    <3>3. QED BY <2>1, <2>2, <3>2
  <2>6. QED BY <2>3, <2>4, <2>5
<1>2. CASE ~WorkerStep(w)
  <2>1. /\ pc'[w] = pc[w] /\ outcome'[w] = outcome[w] /\ task'[w] = task[w]
        /\ Observe \/ UNCHANGED vars
    <3>1. ASSUME NEW v \in Workers, NEW t \in Tasks, Start(v, t)
          PROVE  /\ pc'[w] = pc[w] /\ outcome'[w] = outcome[w] /\ task'[w] = task[w]
                 /\ Observe
      BY <3>1 DEF TypeOK, Start
    <3>2. ASSUME NEW v \in Workers, WorkerStep(v)
          PROVE  /\ pc'[w] = pc[w] /\ outcome'[w] = outcome[w] /\ task'[w] = task[w]
                 /\ Observe
      <4>1. v # w
        BY <1>2, <3>2
      <4>2. QED BY <3>2, <4>1, StepShape DEF TypeOK, Finish
    <3>3. CASE Crash
      BY <3>3 DEF TypeOK, TasksInFlight, Crash
    <3>4. ASSUME NEW r \in {"grant", "revoke"} \X Users, AdminEdit(r)
          PROVE  UNCHANGED handler /\ Observe
      BY <3>4 DEF AdminEdit
    <3>5. CASE AdminToggle
      BY <3>5 DEF AdminToggle, handler
    <3>6. CASE UNCHANGED vars
      BY <3>6 DEF vars
    <3>7. QED BY <3>1, <3>2, <3>3, <3>4, <3>5, <3>6 DEF Next, handler
  <2>2. during[w] \subseteq during'[w]
    <3>1. CASE pc[w] = "idle"
      BY <2>1, <3>1, ObserveBusy DEF vars
    <3>2. CASE pc[w] # "idle"
      BY <2>1, <3>2, ObserveBusy DEF vars
    <3>3. QED BY <3>1, <3>2
  <2>3. QED BY <2>1, <2>2 DEF SuccessIsReal
<1>3. QED BY <1>1, <1>2

\* A grant or a revoke that reports success, also that there was nothing to
\* do, reports something that has been true while it ran.
THEOREM SuccessIsAlwaysReal == Spec => []SuccessIsReal
<1>1. Init => SuccessIsReal
  BY DEF Init, SuccessIsReal
<1>2. QED
  BY <1>1, TypeCorrect, WritesAreAlwaysRecent, SuccessStep, PTL DEF Spec

-----------------------------------------------------------------------------
(* Bystanders: for the induction the members, their history during a task and
   the lists about to be written must agree on them. *)

KeepsBystanders(list, requests) ==
    \A u \in Users :
        (\A r \in requests : r[2] # u) => (u \in list <=> u \in InitialMembers)

AllListsKeep ==
    /\ KeepsBystanders(members, asked)
    /\ \A w \in Workers : pc[w] = "write" => KeepsBystanders(body[w], asked)

LEMMA KeepsWithMore ==
    ASSUME NEW list, NEW a, NEW b, a \subseteq b, KeepsBystanders(list, a)
    PROVE  KeepsBystanders(list, b)
BY DEF KeepsBystanders

LEMMA KeepsNamed ==
    ASSUME NEW list, NEW a, NEW r \in a, KeepsBystanders(list, a)
    PROVE  KeepsBystanders(list \cup {r[2]}, a) /\ KeepsBystanders(list \ {r[2]}, a)
BY DEF KeepsBystanders

LEMMA AllListsStep ==
    TypeOK /\ TasksInFlight /\ AllListsKeep /\ [Next]_vars => AllListsKeep'
<1> SUFFICES ASSUME TypeOK, TasksInFlight, AllListsKeep, [Next]_vars
             PROVE  AllListsKeep'
  OBVIOUS
<1>1. ASSUME NEW w \in Workers, NEW t \in Tasks, Start(w, t) PROVE AllListsKeep'
  <2>1. asked \subseteq asked' /\ members' = members /\ body' = body
    BY <1>1 DEF Start
  <2>2. \A v \in Workers : pc'[v] = "write" => pc[v] = "write"
    BY <1>1 DEF TypeOK, Start
  <2>3. QED BY <2>1, <2>2, KeepsWithMore DEF AllListsKeep
<1>2. ASSUME NEW w \in Workers, WorkerStep(w) PROVE AllListsKeep'
  <2> DEFINE r == <<task[w].op, task[w].user>>
  <2>1. pc[w] # "idle" /\ r \in asked /\ asked' = asked /\ r[2] = task[w].user
    BY <1>2, StepShape, BusyTask
  <2>2. KeepsBystanders(members', asked')
    BY <1>2, <2>1, StepShape DEF AllListsKeep
  <2>3. KeepsBystanders(CarriedOut(task[w], members), asked)
    <3>1. /\ KeepsBystanders(members \cup {r[2]}, asked)
          /\ KeepsBystanders(members \ {r[2]}, asked)
      BY <2>1, KeepsNamed DEF AllListsKeep
    <3>2. QED BY <2>1, <3>1 DEF CarriedOut
  <2>4. ASSUME NEW v \in Workers, pc'[v] = "write"
        PROVE  KeepsBystanders(body'[v], asked')
    <3>1. CASE v = w
      <4>1. body'[w] = CarriedOut(task[w], members)
        BY <1>2, <2>4, <3>1, StepShape DEF TypeOK, Finish
      <4>2. QED BY <2>1, <2>3, <3>1, <4>1
    <3>2. CASE v # w
      <4>1. body'[v] = body[v] /\ pc[v] = "write"
        BY <1>2, <2>4, <3>2, StepShape DEF TypeOK, Finish
      <4>2. QED BY <2>1, <4>1 DEF AllListsKeep
    <3>3. QED BY <3>1, <3>2
  <2>5. QED BY <2>2, <2>4 DEF AllListsKeep
<1>3. CASE Crash
  BY <1>3 DEF AllListsKeep, Crash
<1>4. ASSUME NEW r \in {"grant", "revoke"} \X Users, AdminEdit(r)
      PROVE  AllListsKeep'
  <2>1. /\ asked \subseteq asked' /\ r \in asked'
        /\ members' = members \cup {r[2]} \/ members' = members \ {r[2]}
        /\ UNCHANGED <<pc, body>>
    BY <1>4 DEF AdminEdit, handler
  <2>2. KeepsBystanders(members, asked')
    BY <2>1, KeepsWithMore DEF AllListsKeep
  <2>3. KeepsBystanders(members', asked')
    <3>1. /\ KeepsBystanders(members \cup {r[2]}, asked')
          /\ KeepsBystanders(members \ {r[2]}, asked')
      BY <2>1, <2>2, KeepsNamed
    <3>2. QED BY <2>1, <3>1
  <2>4. QED BY <2>1, <2>3, KeepsWithMore DEF AllListsKeep
<1>5. CASE AdminToggle \/ UNCHANGED vars
  BY <1>5 DEF AllListsKeep, AdminToggle, handler, vars
<1>6. QED BY <1>1, <1>2, <1>3, <1>4, <1>5 DEF Next

\* However many tasks write whole lists over one another (user_group.go:208,
\* 264), a user nobody named keeps its membership.
THEOREM BystandersAreKept == Spec => []BystandersKept
<1>1. Init => AllListsKeep
  BY DEF Init, AllListsKeep, KeepsBystanders
<1>2. AllListsKeep => BystandersKept
  BY DEF AllListsKeep, KeepsBystanders, BystandersKept
<1>3. QED BY <1>1, <1>2, TypeCorrect, AllListsStep, PTL DEF Spec

-----------------------------------------------------------------------------
(* The group implements the abstract membership list. *)

\* What the group has been during a task it has been at all.
DuringIsHad ==
    /\ members \in had
    /\ \A w \in Workers : during[w] \subseteq had

LEMMA DuringIsHadStep == TypeOK /\ DuringIsHad /\ [Next]_vars => DuringIsHad'
<1> SUFFICES ASSUME TypeOK, DuringIsHad, [Next]_vars PROVE DuringIsHad'
  OBVIOUS
<1>1. Observe \/ UNCHANGED vars
  BY DEF Next, WorkerStep, Start, Read, Write, WriteReplyLost, CallUnavailable,
         CallRejected, NoSuchSubteam, Crash, AdminEdit, AdminToggle
<1>2. QED BY <1>1 DEF DuringIsHad, Observe, TypeOK, vars

\* With one worker and nobody else about, the list about to be written is the
\* request carried out on the members as they are.
Serial ==
    /\ edits = 0
    /\ \A w \in Workers : pc[w] = "write" => body[w] = CarriedOut(task[w], members)

LEMMA SerialStep ==
    ASSUME NEW w0, Workers = {w0}, MaxEdits = 0
    PROVE  TypeOK /\ TasksInFlight /\ Serial /\ [Next]_vars => Serial'
<1> SUFFICES ASSUME TypeOK, TasksInFlight, Serial, [Next]_vars PROVE Serial'
  OBVIOUS
<1>1. ASSUME NEW w \in Workers, NEW t \in Tasks, Start(w, t) PROVE Serial'
  BY <1>1 DEF TypeOK, Serial, Start, CarriedOut
<1>2. ASSUME NEW w \in Workers, WorkerStep(w) PROVE Serial'
  <2>1. edits' = 0
    BY <1>2, StepShape DEF Serial, bounds
  <2>2. ASSUME pc'[w] = "write"
        PROVE  body'[w] = CarriedOut(task[w], members) /\ members' = members
    BY <1>2, <2>2, StepShape DEF TypeOK, Finish
  <2>3. task' = task
    BY <1>2, StepShape
  <2>4. QED BY <2>1, <2>2, <2>3 DEF Serial, CarriedOut
<1>3. CASE Crash
  BY <1>3 DEF Serial, Crash, bounds
<1>4. /\ ~(\E r \in {"grant", "revoke"} \X Users : AdminEdit(r))
      /\ ~AdminToggle
  BY DEF Serial, AdminEdit, AdminToggle
<1>5. CASE UNCHANGED vars
  BY <1>5 DEF Serial, CarriedOut, vars
<1>6. QED BY <1>1, <1>2, <1>3, <1>4, <1>5 DEF Next

\* A step, as the abstract list sees it: a request is asked for, carried out
\* on a list the group has had (the members, when tasks run one after another),
\* or made by an administrator; or nothing happens to the group.
StepOfTheList ==
    \/ UNCHANGED <<members, had, asked>>
    \/ \E r \in {"grant", "revoke"} \X Users :
         /\ asked' = asked \cup {r}
         /\ UNCHANGED <<members, had>>
    \/ \E r \in asked : \E m \in had :
         /\ r \in {"grant", "revoke"} \X Users
         /\ Serial => m = members
         /\ members' = IF r[1] = "grant" THEN m \cup {r[2]} ELSE m \ {r[2]}
         /\ had' = had \cup {members'}
         /\ asked' = asked
    \/ \E r \in {"grant", "revoke"} \X Users :
         /\ asked' = asked \cup {r}
         /\ members' = IF r[1] = "grant" THEN members \cup {r[2]}
                                         ELSE members \ {r[2]}
         /\ had' = had \cup {members'}

LEMMA EveryStepOfTheList ==
    ASSUME TypeOK, TasksInFlight, WritesAreRecent, DuringIsHad, [Next]_vars
    PROVE  StepOfTheList
<1>1. members' = members /\ ~UNCHANGED vars => had' = had
  BY DEF DuringIsHad, Next, WorkerStep, Start, Read, Write, WriteReplyLost,
         CallUnavailable, CallRejected, NoSuchSubteam, Crash, AdminEdit,
         AdminToggle, Observe
<1>2. ASSUME NEW w \in Workers, NEW t \in Tasks, Start(w, t) PROVE StepOfTheList
  <2>1. members' = members /\ had' = had
    BY <1>1, <1>2 DEF Start, vars
  <2>2. CASE t.user \in Users
    <3>1. <<t.op, t.user>> \in {"grant", "revoke"} \X Users
      BY <2>2, UserGroupAssumption DEF Tasks
    <3>2. asked' = asked \cup {<<t.op, t.user>>}
      BY <1>2, <2>2 DEF Start
    <3>3. QED BY <2>1, <3>1, <3>2 DEF StepOfTheList
  <2>3. CASE t.user \notin Users
    BY <1>2, <2>1, <2>3 DEF Start, StepOfTheList
  <2>4. QED BY <2>2, <2>3
<1>3. ASSUME NEW w \in Workers, WorkerStep(w) PROVE StepOfTheList
  <2> DEFINE r == <<task[w].op, task[w].user>>
  <2>1. /\ r \in asked /\ asked' = asked /\ r \in {"grant", "revoke"} \X Users
        /\ r[1] = task[w].op /\ r[2] = task[w].user
    BY <1>3, StepShape, BusyTask
  <2>2. had' = had \cup {members'}
    BY <1>3, StepShape DEF Observe
  <2>3. CASE members' = members
    BY <2>1, <2>2, <2>3 DEF StepOfTheList, DuringIsHad
  <2>4. CASE pc[w] = "write" /\ members' = body[w]
    <3>1. PICK m \in during[w] : body[w] = CarriedOut(task[w], m)
      BY <2>4 DEF WritesAreRecent
    <3>2. m \in had /\ members \in had
      BY <3>1 DEF DuringIsHad
    <3>3. CASE Serial
      <4>1. members' = CarriedOut(task[w], members)
        BY <2>4, <3>3 DEF Serial
      <4>2. QED BY <2>1, <2>2, <3>2, <4>1 DEF StepOfTheList, CarriedOut
    <3>4. CASE ~Serial
      BY <2>1, <2>2, <2>4, <3>1, <3>2, <3>4 DEF StepOfTheList, CarriedOut
    <3>5. QED BY <3>3, <3>4
  <2>5. QED BY <1>3, <2>3, <2>4, StepShape
<1>4. CASE Crash \/ AdminToggle
  <2>1. UNCHANGED <<members, asked>>
    BY <1>4 DEF Crash, AdminToggle
  <2>2. had' = had
    BY <1>4, <2>1 DEF Crash, AdminToggle, Observe, DuringIsHad
  <2>3. QED BY <2>1, <2>2 DEF StepOfTheList
<1>5. ASSUME NEW r \in {"grant", "revoke"} \X Users, AdminEdit(r)
      PROVE  StepOfTheList
  BY <1>5 DEF AdminEdit, Observe, StepOfTheList
<1>6. CASE UNCHANGED vars
  BY <1>6 DEF vars, StepOfTheList
<1>7. QED BY <1>2, <1>3, <1>4, <1>5, <1>6 DEF Next

\* With any tasks at once, lost answers, retries and crashes: every write is
\* one request that was made, carried out on a list the group has had
\* (user_group.go:167-270).
THEOREM GroupImplementsMembership == Spec => ImplementsMembership
<1>1. Init => MembershipOf!Init /\ DuringIsHad
  BY DEF Init, MembershipOf!Init, DuringIsHad
<1>2. TypeOK /\ TasksInFlight /\ WritesAreRecent /\ DuringIsHad /\ [Next]_vars
        => [MembershipOf!Next]_(MembershipOf!vars)
  BY EveryStepOfTheList
  DEF StepOfTheList, MembershipOf!Next, MembershipOf!Requests, MembershipOf!Ask,
      MembershipOf!CarryOut, MembershipOf!AdminEdit, MembershipOf!Becomes,
      MembershipOf!Bases, MembershipOf!CarriedOut, MembershipOf!vars
<1>3. QED
  BY <1>1, <1>2, TypeCorrect, WritesAreAlwaysRecent, DuringIsHadStep, PTL
  DEF Spec, ImplementsMembership, MembershipOf!Spec

\* Tasks that run one after another, with lost answers, retries and crashes,
\* carry their requests out on the list as it is: the read-modify-write of
\* user_group.go:167-270 is then as good as one atomic step.
THEOREM SerialTasksAreAtomic ==
    ASSUME NEW w0, Workers = {w0}, MaxEdits = 0
    PROVE  Spec => ImplementsAtomicMembership
<1>1. Init => AtomicMembershipOf!Init /\ DuringIsHad /\ Serial
  BY DEF Init, AtomicMembershipOf!Init, DuringIsHad, Serial
<1>2. TypeOK /\ TasksInFlight /\ WritesAreRecent /\ DuringIsHad /\ Serial /\ [Next]_vars
        => [AtomicMembershipOf!Next]_(AtomicMembershipOf!vars)
  BY EveryStepOfTheList
  DEF StepOfTheList, AtomicMembershipOf!Next, AtomicMembershipOf!Requests,
      AtomicMembershipOf!Ask, AtomicMembershipOf!CarryOut,
      AtomicMembershipOf!AdminEdit, AtomicMembershipOf!Becomes,
      AtomicMembershipOf!Bases, AtomicMembershipOf!CarriedOut,
      AtomicMembershipOf!vars
<1>3. TypeOK /\ TasksInFlight /\ Serial /\ [Next]_vars => Serial'
  BY SerialStep
<1>4. QED
  BY <1>1, <1>2, <1>3, TypeCorrect, WritesAreAlwaysRecent, DuringIsHadStep, PTL
  DEF Spec, ImplementsAtomicMembership, AtomicMembershipOf!Spec
-----------------------------------------------------------------------------
(* How a task comes to its end. *)

\* The most calls the task of worker w may still make: two of each of the
\* attempts left, and those left of this attempt.
CallsLeft(w) ==
    CASE pc[w] = "idle" -> 0
      [] pc[w] = "read" -> 2 * (MaxAttempts - tries[w]) + 2
      [] pc[w] = "write" -> 2 * (MaxAttempts - tries[w]) + 1

CallsBounded ==
    \A w \in Workers : CallsLeft(w) \in 0..(2 * MaxAttempts + 2)

\* A call leaves fewer to make; no step of others leaves more.
CallsRunOut ==
    \A w \in Workers :
        /\ WorkerStep(w) => CallsLeft(w)' < CallsLeft(w)
        /\ pc[w] # "idle" => CallsLeft(w)' <= CallsLeft(w)

TriesBounded == \A w \in Workers : tries[w] <= MaxAttempts

LEMMA TriesAreCalls == TypeOK /\ TriesBounded => CallsBounded
<1> SUFFICES ASSUME TypeOK, TriesBounded, NEW w \in Workers
             PROVE  CallsLeft(w) \in 0..(2 * MaxAttempts + 2)
  BY DEF CallsBounded
<1>1. /\ pc[w] \in {"idle", "read", "write"} /\ tries[w] \in Nat
      /\ tries[w] <= MaxAttempts /\ MaxAttempts \in Nat
  BY UserGroupAssumption DEF TypeOK, TriesBounded
<1> QED
  BY <1>1 DEF CallsLeft

\* The step of a worker, to it and to the others.
LEMMA StepCounts ==
    ASSUME TypeOK, TriesBounded, NEW w \in Workers, WorkerStep(w)
    PROVE  /\ TriesBounded'
           /\ CallsLeft(w)' < CallsLeft(w)
           /\ CallsLeft(w)' <= CallsLeft(w)
           /\ \A v \in Workers \ {w} : CallsLeft(v)' = CallsLeft(v)
<1>0. /\ pc \in [Workers -> {"idle", "read", "write"}] /\ tries \in [Workers -> Nat]
      /\ MaxAttempts \in Nat
  BY UserGroupAssumption DEF TypeOK
<1>1. pc[w] \in {"read", "write"} /\ tries[w] <= MaxAttempts
  BY DEF WorkerStep, Read, Write, WriteReplyLost, CallUnavailable, CallRejected,
         NoSuchSubteam, TriesBounded
<1>2. \/ pc' = [pc EXCEPT ![w] = "idle"] /\ tries' = [tries EXCEPT ![w] = 0]
      \/ /\ tries[w] + 1 <= MaxAttempts
         /\ tries' = [tries EXCEPT ![w] = @ + 1]
         /\ pc' = [pc EXCEPT ![w] = "read"]
      \/ /\ pc[w] = "read"
         /\ pc' = [pc EXCEPT ![w] = "write"]
         /\ tries' = tries
  BY DEF WorkerStep, Read, Write, WriteReplyLost, CallUnavailable, CallRejected,
         NoSuchSubteam, Finish, RunAgain
<1>3. \A v \in Workers \ {w} : pc'[v] = pc[v] /\ tries'[v] = tries[v]
  BY <1>0, <1>2
<1>4. \/ pc'[w] = "idle" /\ tries'[w] = 0
      \/ /\ tries[w] + 1 <= MaxAttempts
         /\ pc'[w] = "read" /\ tries'[w] = tries[w] + 1
      \/ pc[w] = "read" /\ pc'[w] = "write" /\ tries'[w] = tries[w]
  BY <1>0, <1>2
<1>5. TriesBounded'
  <2>1. tries'[w] <= MaxAttempts
    BY <1>0, <1>1, <1>4
  <2> QED
    BY <1>3, <2>1 DEF TriesBounded
<1>6. CallsLeft(w)' < CallsLeft(w) /\ CallsLeft(w)' <= CallsLeft(w)
  BY <1>0, <1>1, <1>4 DEF CallsLeft
<1> QED
  BY <1>3, <1>5, <1>6 DEF CallsLeft

LEMMA NextCounts ==
    TypeOK /\ TriesBounded /\ [Next]_vars => TriesBounded' /\ [CallsRunOut]_vars
<1> SUFFICES ASSUME TypeOK, TriesBounded, [Next]_vars
             PROVE  TriesBounded' /\ (CallsRunOut \/ UNCHANGED vars)
  OBVIOUS
<1>0. /\ pc \in [Workers -> {"idle", "read", "write"}] /\ tries \in [Workers -> Nat]
      /\ MaxAttempts \in Nat
  BY UserGroupAssumption DEF TypeOK
<1>1. \A v \in Workers : WorkerStep(v) => CallsLeft(v)' < CallsLeft(v)
  BY StepCounts
<1>2. \A v \in Workers : CallsLeft(v) \in Nat
  BY TriesAreCalls, <1>0 DEF CallsBounded
<1>3. ASSUME \A v \in Workers : pc[v] # "idle" => CallsLeft(v)' <= CallsLeft(v)
      PROVE  CallsRunOut
  BY <1>1, <1>3 DEF CallsRunOut
<1>4. ASSUME NEW w \in Workers, WorkerStep(w) PROVE TriesBounded' /\ CallsRunOut
  <2>1. \A v \in Workers : v = w \/ CallsLeft(v)' = CallsLeft(v)
    BY <1>4, StepCounts
  <2>2. CallsLeft(w)' <= CallsLeft(w)
    BY <1>4, StepCounts
  <2>3. \A v \in Workers : CallsLeft(v)' <= CallsLeft(v)
    BY <1>2, <2>1, <2>2
  <2> QED
    BY <1>3, <1>4, <2>3, StepCounts
<1>5. ASSUME NEW w \in Workers, NEW t \in Tasks, Start(w, t)
      PROVE  TriesBounded' /\ CallsRunOut
  <2>1. /\ tries' = tries
        /\ \A v \in Workers : pc[v] # "idle" => pc'[v] = pc[v]
    BY <1>0, <1>5 DEF Start
  <2>2. \A v \in Workers : pc[v] # "idle" => CallsLeft(v)' = CallsLeft(v)
    BY <2>1 DEF CallsLeft
  <2> QED
    BY <1>2, <1>3, <2>1, <2>2 DEF TriesBounded
<1>6. CASE Crash
  <2>1. \A v \in Workers : pc'[v] = "idle" /\ tries'[v] = 0
    BY <1>6 DEF Crash
  <2>2. \A v \in Workers : CallsLeft(v)' = 0
    BY <2>1 DEF CallsLeft
  <2> QED
    BY <1>0, <1>2, <1>3, <2>1, <2>2 DEF TriesBounded
<1>7. CASE UNCHANGED <<pc, tries>>
  <2>1. \A v \in Workers : CallsLeft(v)' = CallsLeft(v)
    BY <1>7 DEF CallsLeft
  <2> QED
    BY <1>2, <1>3, <1>7, <2>1 DEF TriesBounded
<1> QED
  BY <1>4, <1>5, <1>6, <1>7 DEF Next, AdminEdit, AdminToggle, handler, vars

\* The safety half of "a task ends": it makes a bounded number of calls,
\* however they fail, each leaves it fewer to make, and neither other tasks
\* nor administrators give it more (the retryer's attempts, retry.go:78).
THEOREM TasksRunOut == Spec => []CallsBounded /\ [][CallsRunOut]_vars
<1>1. Init => TriesBounded
  BY UserGroupAssumption DEF Init, TriesBounded
<1> QED
  BY <1>1, TypeCorrect, NextCounts, TriesAreCalls, PTL DEF Spec
=============================================================================
