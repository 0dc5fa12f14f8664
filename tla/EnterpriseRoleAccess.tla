------------------------ MODULE EnterpriseRoleAccess -------------------------
(***************************************************************************)
(* Granting and revoking one enterprise role: Grant and Revoke of          *)
(* src/pkg/connector/enterprise_roles.go.                                  *)
(*                                                                         *)
(* Slack assigns a role to a user at an entity: a workspace, or the whole  *)
(* organization.  The connector's grants say nothing of entities: a sync   *)
(* emits the role of a user whatever the entity, and Grant and Revoke both *)
(* ask Slack for the user's team and take that for the entity.  The team   *)
(* may change between the two calls and from one task to the next; calls   *)
(* are made again when their answer is lost.                               *)
(***************************************************************************)
EXTENDS Naturals

CONSTANTS
    Users,         \* the users
    Teams,         \* the entities that users have for their team
    OtherEntities, \* the other ones
    Workers,       \* slots of the task runner
    MaxAttempts,   \* the retryer's MaxAttempts
    MaxTasks,      \* bound: tasks started
    MaxEdits       \* bound: edits by administrators

\* The empty id of a team.
NoTeam == "none"

ASSUME EnterpriseRoleAccessAssumption ==
    /\ Teams \cap OtherEntities = {}
    /\ NoTeam \notin Teams
    /\ MaxAttempts \in Nat
    /\ MaxTasks \in Nat
    /\ MaxEdits \in Nat

VARIABLES
    assigned,  \* Slack: the assignments of the role, pairs <<user, entity>>
    home,      \* Slack: user -> the team of its profile, or NoTeam
    known,     \* Slack: the users that exist (to users.info)
    pc,        \* worker -> the next call of its handler, or "idle"
    task,      \* worker -> its task (its last one when it is idle)
    team,      \* worker -> the team it was told
    tries,     \* worker -> the retryer's attempts
    outcome,   \* worker -> how its last task ended
    started,   \* tasks started
    edits,     \* edits made by administrators
    rejected,  \* history: worker -> Slack rejected the user, or the team, of
               \* its last task and answered ok
    during     \* history: worker -> the pairs <<assigned, home>> there have
               \* been since its task began (until it ended)

handler == <<pc, task, team, tries, outcome>>
vars == <<assigned, home, known, pc, task, team, tries, outcome, started,
          edits, rejected, during>>

Entities == Teams \cup OtherEntities
Tasks == [op : {"grant", "revoke"}, user : Users]
NoTask == [op |-> "none"]

\* Grants emits the role of u: an assignment of u, at whatever entity.
Emitted(u, a) == \E e \in Entities : <<u, e>> \in a

-----------------------------------------------------------------------------
Init ==
    /\ assigned \in SUBSET (Users \X Entities)
    /\ home \in [Users -> Teams \cup {NoTeam}]
    /\ known = Users
    /\ pc = [w \in Workers |-> "idle"]
    /\ task = [w \in Workers |-> NoTask]
    /\ team = [w \in Workers |-> NoTeam]
    /\ tries = [w \in Workers |-> 0]
    /\ outcome = [w \in Workers |-> "none"]
    /\ started = 0
    /\ edits = 0
    /\ rejected = [w \in Workers |-> FALSE]
    /\ during = [w \in Workers |-> {}]

\* The handler returns, and what it held is gone.
Finish(w, how) ==
    /\ pc' = [pc EXCEPT ![w] = "idle"]
    /\ outcome' = [outcome EXCEPT ![w] = how]
    /\ tries' = [tries EXCEPT ![w] = 0]
    /\ team' = [team EXCEPT ![w] = NoTeam]
    /\ UNCHANGED <<task, started, edits>>

\* Bug: a handler that runs again skips the first call.
RunAgain_KeepsTeam(w) ==
    IF tries[w] + 1 <= MaxAttempts
    THEN /\ tries' = [tries EXCEPT ![w] = @ + 1]
         /\ pc' = [pc EXCEPT ![w] = "change"]
         /\ UNCHANGED <<task, team, outcome, started, edits>>
    ELSE Finish(w, "error")

\* A call failed with Unavailable or DeadlineExceeded: the SDK runs the
\* whole handler again unless the attempts are spent.
RunAgain(w) ==
    IF tries[w] + 1 <= MaxAttempts
    THEN /\ tries' = [tries EXCEPT ![w] = @ + 1]
         /\ pc' = [pc EXCEPT ![w] = "info"]
         /\ team' = [team EXCEPT ![w] = NoTeam]
         /\ UNCHANGED <<task, outcome, started, edits>>
    ELSE Finish(w, "error")

\* History: what Slack has had during the task of each worker.
Observe ==
    during' = [w \in Workers |->
        IF pc[w] = "idle"
        THEN IF pc'[w] = "idle" THEN during[w] ELSE {<<assigned', home'>>}
        ELSE during[w] \cup {<<assigned', home'>>}]

-----------------------------------------------------------------------------
\* The runner hands a task to a free slot; no principal is refused.
Start(w, t) ==
    /\ pc[w] = "idle"
    /\ started < MaxTasks
    /\ started' = started + 1
    /\ task' = [task EXCEPT ![w] = t]
    /\ pc' = [pc EXCEPT ![w] = "info"]
    /\ outcome' = [outcome EXCEPT ![w] = "none"]
    /\ rejected' = [rejected EXCEPT ![w] = FALSE]
    /\ UNCHANGED <<assigned, home, known, team, tries, edits>>
    /\ Observe

\* getTeamIDForUser: the team of the moment; a user without one, and a user
\* Slack does not know, is an error.
Info(w) ==
    LET u == task[w].user IN
    /\ pc[w] = "info"
    /\ \/ /\ u \in known /\ home[u] # NoTeam
          /\ team' = [team EXCEPT ![w] = home[u]]
          /\ pc' = [pc EXCEPT ![w] = "change"]
          /\ UNCHANGED <<task, tries, outcome, started, edits>>
       \/ u \in known /\ home[u] = NoTeam /\ Finish(w, "no_team")
       \/ u \notin known /\ Finish(w, "not_found")
    /\ UNCHANGED <<assigned, home, known, rejected>>
    /\ Observe

\* Bug: Revoke calls Slack's method of Grant.
Applied_Same(w) == assigned' = assigned \cup {<<task[w].user, team[w]>>}

\* Bug: the arguments of the call are swapped.
Applied_Swapped(w) ==
    LET p == <<team[w], task[w].user>> IN
    assigned' = IF task[w].op = "grant" THEN assigned \cup {p} ELSE assigned \ {p}

\* Slack assigns or unassigns the role to the user at the team.
Applied(w) ==
    LET p == <<task[w].user, team[w]>> IN
    assigned' = IF task[w].op = "grant" THEN assigned \cup {p} ELSE assigned \ {p}

\* Slack carries the call out and its answer arrives...
Change(w) ==
    /\ pc[w] = "change"
    /\ Applied(w)
    /\ Finish(w, "ok")
    /\ UNCHANGED <<home, known, rejected>>
    /\ Observe

\* ... or is lost, or cannot be read...
ChangeReplyLost(w) ==
    /\ pc[w] = "change"
    /\ Applied(w)
    /\ RunAgain(w) \/ Finish(w, "error")
    /\ UNCHANGED <<home, known, rejected>>
    /\ Observe

\* ... or Slack answers ok and lists the user under rejected_users, or the
\* team under rejected_entities: the client looks at neither.
ChangeRejectedOk(w) ==
    /\ pc[w] = "change"
    /\ Finish(w, "ok")
    /\ rejected' = [rejected EXCEPT ![w] = TRUE]
    /\ UNCHANGED <<assigned, home, known>>
    /\ Observe

CallUnavailable(w) ==
    /\ pc[w] \in {"info", "change"}
    /\ RunAgain(w)
    /\ UNCHANGED <<assigned, home, known, rejected>>
    /\ Observe

\* Bug: the error of the call is dropped.
CallRejected_Swallowed(w) ==
    /\ pc[w] \in {"info", "change"}
    /\ Finish(w, "ok")
    /\ UNCHANGED <<assigned, home, known, rejected>>
    /\ Observe

\* A call fails for good.
CallRejected(w) ==
    /\ pc[w] \in {"info", "change"}
    /\ Finish(w, "error")
    /\ UNCHANGED <<assigned, home, known, rejected>>
    /\ Observe

-----------------------------------------------------------------------------
\* The process dies and comes back: the tasks that ran have no outcome.
Crash ==
    /\ \E w \in Workers : pc[w] # "idle"
    /\ outcome' = [w \in Workers |-> IF pc[w] = "idle" THEN outcome[w] ELSE "lost"]
    /\ pc' = [w \in Workers |-> "idle"]
    /\ tries' = [w \in Workers |-> 0]
    /\ team' = [w \in Workers |-> NoTeam]
    /\ UNCHANGED <<assigned, home, known, task, started, edits, rejected>>
    /\ Observe

\* An administrator assigns the role at some entity, or takes it away there,
\* moves a user to another team, or removes it for good, and its assignments
\* with it.
AdminAssign(p) ==
    /\ edits < MaxEdits
    /\ edits' = edits + 1
    /\ assigned' = IF p \in assigned THEN assigned \ {p} ELSE assigned \cup {p}
    /\ UNCHANGED <<home, known, handler, started, rejected>>
    /\ Observe

AdminMove(u, t) ==
    /\ edits < MaxEdits
    /\ edits' = edits + 1
    /\ home' = [home EXCEPT ![u] = t]
    /\ UNCHANGED <<assigned, known, handler, started, rejected>>
    /\ Observe

AdminDelete(u) ==
    /\ edits < MaxEdits
    /\ edits' = edits + 1
    /\ known' = known \ {u}
    /\ assigned' = {p \in assigned : p[1] # u}
    /\ UNCHANGED <<home, handler, started, rejected>>
    /\ Observe

WorkerStep(w) ==
    \/ Info(w) \/ Change(w) \/ ChangeReplyLost(w) \/ ChangeRejectedOk(w)
    \/ CallUnavailable(w) \/ CallRejected(w)

Next ==
    \/ \E w \in Workers : \E t \in Tasks : Start(w, t)
    \/ \E w \in Workers : WorkerStep(w)
    \/ Crash
    \/ \E p \in known \X Entities : AdminAssign(p)
    \/ \E u \in Users : \E t \in Teams \cup {NoTeam} : AdminMove(u, t)
    \/ \E u \in Users : AdminDelete(u)

Spec == Init /\ [][Next]_vars

-----------------------------------------------------------------------------
TypeOK ==
    /\ assigned \subseteq Users \X Entities
    /\ home \in [Users -> Teams \cup {NoTeam}]
    /\ known \subseteq Users
    /\ pc \in [Workers -> {"idle", "info", "change"}]
    /\ task \in [Workers -> Tasks \cup {NoTask}]
    /\ team \in [Workers -> Teams \cup {NoTeam}]
    /\ tries \in [Workers -> Nat]
    /\ outcome \in [Workers -> {"none", "ok", "no_team", "not_found", "error",
                               "lost"}]
    /\ started \in Nat
    /\ edits \in Nat
    /\ rejected \in [Workers -> BOOLEAN]
    /\ during \in [Workers -> SUBSET ((SUBSET (Users \X Entities))
                                      \X [Users -> Teams \cup {NoTeam}])]

\* The call goes to a team the user had during the task, also when the handler
\* runs again: never to none, nor to that of an earlier task.
TeamIsRecent ==
    \A w \in Workers : pc[w] = "change" =>
        /\ team[w] # NoTeam
        /\ \E d \in during[w] : d[2][task[w].user] = team[w]

\* A grant that reports success was assigned at a moment of its task.
GrantSucceeds(w) ==
    task[w].op = "grant" /\ outcome[w] = "ok" =>
        \E d \in during[w] : Emitted(task[w].user, d[1])

\* So it is when Slack says what it does...
GrantTakesEffect == \A w \in Workers : ~rejected[w] => GrantSucceeds(w)

\* ... and docs/connector.mdx:26, enterprise roles are provisioned, excepts
\* nothing: an answer that is ok and rejects the user is no success.
EveryGrantTakesEffect == \A w \in Workers : GrantSucceeds(w)

\* A revoke that reports success, unless Slack rejected it, took the role away
\* at a team its user had: at some moments of the task, perhaps not the same,
\* the team was the user's and the user did not have the role there.
RevokeTakesEffectAtTeam ==
    \A w \in Workers :
        task[w].op = "revoke" /\ outcome[w] = "ok" /\ ~rejected[w] =>
            \E t \in Teams :
                /\ \E d \in during[w] : d[2][task[w].user] = t
                /\ \E d \in during[w] : <<task[w].user, t>> \notin d[1]

\* docs/connector.mdx:26, enterprise roles are provisioned: a revoke that
\* reports success, and that Slack did not reject, leaves no grant a sync
\* would emit, at some moment.
RevokeTakesEffect ==
    \A w \in Workers :
        task[w].op = "revoke" /\ outcome[w] = "ok" /\ ~rejected[w] =>
            \E d \in during[w] : ~Emitted(task[w].user, d[1])
=============================================================================
