------------------------------ MODULE Accounts ------------------------------
(***************************************************************************)
(* The accounts of the organization as the connector makes, disables and   *)
(* enables them: CreateAccount (src/pkg/connector/user.go) and the actions *)
(* disable_user and enable_user (src/pkg/connector/actions.go), the latter *)
(* run by the SDK's action manager.                                        *)
(*                                                                         *)
(* An action's handler runs in a goroutine of its own and outlives the     *)
(* request that invoked it.  The request waits for it, for a while; gives  *)
(* up and answers with the state of the moment; or is cancelled, and notes *)
(* so in the action's record, against the handler, which may settle the    *)
(* record at the same time.  C1 polls a record whose id it was told.  The  *)
(* records are lost with the process, what the handlers did is not.        *)
(*                                                                         *)
(* CreateAccount invites a person to one workspace and then looks the      *)
(* account up in the whole organization: two calls, the second of which    *)
(* may fail when the first has been done, and neither is ever made again.  *)
(* The person may have an account already, of another workspace.           *)
(***************************************************************************)
EXTENDS Naturals

CONSTANTS
    People,           \* who may have an account
    Workspaces,       \* the workspaces of the organization
    InitialAccounts,  \* what an account may be at the start
    Invocations,      \* invocations of an action
    Creators,         \* tasks that create an account
    MaxEdits          \* bound: edits by administrators

AccountStates == {"none", "active", "disabled"}

ASSUME AccountsAssumption ==
    /\ InitialAccounts \subseteq AccountStates
    /\ MaxEdits \in Nat

VARIABLES
    account,    \* Slack: person -> its account
    teams,      \* Slack: person -> the workspaces it belongs to
    request,    \* invocation -> what is asked for
    call,       \* invocation -> where the request that invoked it is
    handler,    \* invocation -> where its handler is
    status,     \* invocation -> the status of its record, "none" without one
    cancelled,  \* invocation -> its FAILED comes from a cancellation only
    told,       \* invocation -> the statuses C1 was told with its id
    result,     \* history: invocation -> what its handler came to
    met,        \* history: invocation -> the account of its user has been
                \* what it asks for, before its handler ended
    creation,   \* creator -> where its task is
    profile,    \* creator -> the profile it was given
    answer,     \* creator -> what it was answered
    made,       \* history: creator -> the membership its invitation made, if
                \* it made one: it "stands", or was "undone" since
    edits       \* edits made by administrators

actions == <<request, call, handler, status, cancelled, told, result>>
creations == <<creation, profile, answer, made>>
vars == <<account, teams, request, call, handler, status, cancelled, told, result, met,
          creation, profile, answer, made, edits>>

\* An action names a user, or an empty one, or comes without a user_id or
\* without arguments: Nobody stands for the last three.
UserRequests == [op : {"enable", "disable"}, user : People]
Nobody == [op |-> "any"]
Requests == UserRequests \cup {Nobody}
NoRequest == [op |-> "none"]

\* A profile names a person, by mail, a workspace and channels of it, or lacks
\* one of them.
Invitations == [user : People, team : Workspaces]
Incomplete == [lacks |-> "something"]
Profiles == Invitations \cup {Incomplete}
NoProfile == [lacks |-> "all"]

\* Terminal statuses.
Settled(s) == s \in {"complete", "failed"}

\* What an account is when the request r is done.
Wanted(r) == IF r.op = "enable" THEN "active" ELSE "disabled"

-----------------------------------------------------------------------------
Init ==
    /\ account \in [People -> InitialAccounts]
    /\ teams \in [People -> SUBSET Workspaces]
    /\ \A p \in People : account[p] = "none" => teams[p] = {}
    /\ request = [i \in Invocations |-> NoRequest]
    /\ call = [i \in Invocations |-> "none"]
    /\ handler = [i \in Invocations |-> "none"]
    /\ status = [i \in Invocations |-> "none"]
    /\ cancelled = [i \in Invocations |-> FALSE]
    /\ told = [i \in Invocations |-> {}]
    /\ result = [i \in Invocations |-> "none"]
    /\ met = [i \in Invocations |-> FALSE]
    /\ creation = [c \in Creators |-> "idle"]
    /\ profile = [c \in Creators |-> NoProfile]
    /\ answer = [c \in Creators |-> "none"]
    /\ made = [c \in Creators |-> "none"]
    /\ edits = 0

\* History: each action's user has an account as the action makes it.
Observe ==
    met' = [i \in Invocations |->
        \/ met[i]
        \/ /\ handler[i] # "done"
           /\ request'[i] \in UserRequests
           /\ account'[request'[i].user] = Wanted(request'[i])]

Rest == UNCHANGED <<teams, creations, edits>> /\ Observe

-----------------------------------------------------------------------------
(* The request that invokes an action. *)

\* The record is made, the goroutine of the handler is started.
Invoke(i, r) ==
    /\ call[i] = "none"
    /\ request' = [request EXCEPT ![i] = r]
    /\ status' = [status EXCEPT ![i] = "pending"]
    /\ handler' = [handler EXCEPT ![i] = "spawned"]
    /\ call' = [call EXCEPT ![i] = "waiting"]
    /\ UNCHANGED <<account, cancelled, told, result>>
    /\ Rest

\* What C1 is told of an action, with its id: the status of its record, of
\* which pending and running both say that it is open.
Told(i) == told[i] \cup {IF status[i] \in {"pending", "running"} THEN "open" ELSE status[i]}

\* The handler is done or the inline wait is over: the request is answered
\* with the record as it is.
Return(i) ==
    /\ call[i] = "waiting"
    /\ call' = [call EXCEPT ![i] = "returned"]
    /\ told' = [told EXCEPT ![i] = Told(i)]
    /\ UNCHANGED <<account, request, handler, status, cancelled, result>>
    /\ Rest

\* The request is cancelled (its deadline, a shutdown) and the handler has not
\* closed its channel.
NoticeCancel(i) ==
    /\ call[i] = "waiting"
    /\ handler[i] # "done"
    /\ call' = [call EXCEPT ![i] = "cancelling"]
    /\ UNCHANGED <<account, request, handler, status, cancelled, told, result>>
    /\ Rest

\* Bug: the cancellation is recorded whatever the status is by now.
SetCancelled_Always(i) ==
    /\ call[i] = "cancelling"
    /\ call' = [call EXCEPT ![i] = "reading"]
    /\ status' = [status EXCEPT ![i] = "failed"]
    /\ cancelled' = [cancelled EXCEPT ![i] = TRUE]
    /\ UNCHANGED <<account, request, handler, told, result>>
    /\ Rest

\* Under the record's lock: the cancellation becomes a provisional failure
\* unless the record is settled by now.
SetCancelled(i) ==
    /\ call[i] = "cancelling"
    /\ call' = [call EXCEPT ![i] = "reading"]
    /\ IF Settled(status[i])
       THEN UNCHANGED <<status, cancelled>>
       ELSE /\ status' = [status EXCEPT ![i] = "failed"]
            /\ cancelled' = [cancelled EXCEPT ![i] = TRUE]
    /\ UNCHANGED <<account, request, handler, told, result>>
    /\ Rest

\* Bug: the id of a cancelled action is told with its status.
ReadAfterCancel_AsItIs(i) ==
    /\ call[i] = "reading"
    /\ call' = [call EXCEPT ![i] = "returned"]
    /\ told' = [told EXCEPT ![i] = Told(i)]
    /\ UNCHANGED <<account, request, handler, status, cancelled, result>>
    /\ Rest

\* Under the lock again: COMPLETE is answered as such, anything else as the
\* error of the request, without the id or the status.
ReadAfterCancel(i) ==
    /\ call[i] = "reading"
    /\ call' = [call EXCEPT ![i] = "returned"]
    /\ told' = [told EXCEPT ![i] = IF status[i] = "complete" THEN Told(i) ELSE @]
    /\ UNCHANGED <<account, request, handler, status, cancelled, result>>
    /\ Rest

\* C1 asks for the status of an action whose id it was told; an action whose
\* record is lost is not found.
Poll(i) ==
    /\ told[i] # {}
    /\ status[i] # "none"
    /\ told' = [told EXCEPT ![i] = Told(i)]
    /\ UNCHANGED <<account, request, call, handler, status, cancelled, result>>
    /\ Rest

-----------------------------------------------------------------------------
(* The goroutine of the handler. *)

\* RUNNING, unless a cancellation was faster; then the arguments are looked
\* at: without a user there is an error, or a panic, which is recovered into
\* one.
HandlerStarts(i) ==
    /\ handler[i] = "spawned"
    /\ status' = [status EXCEPT ![i] = IF @ = "pending" THEN "running" ELSE @]
    /\ handler' = [handler EXCEPT ![i] =
           IF request[i] = Nobody THEN "error" ELSE "calling"]
    /\ UNCHANGED <<account, request, call, cancelled, told, result>>
    /\ Rest

\* Slack changes the account, if there is one, and its answer arrives...
CallDone(i) ==
    /\ handler[i] = "calling"
    /\ account[request[i].user] # "none"
    /\ account' = [account EXCEPT ![request[i].user] = Wanted(request[i])]
    /\ handler' = [handler EXCEPT ![i] = "ok"]
    /\ UNCHANGED <<request, call, status, cancelled, told, result>>
    /\ Rest

\* ... or is lost, or cannot be read.
CallReplyLost(i) ==
    /\ handler[i] = "calling"
    /\ account[request[i].user] # "none"
    /\ account' = [account EXCEPT ![request[i].user] = Wanted(request[i])]
    /\ handler' = [handler EXCEPT ![i] = "error"]
    /\ UNCHANGED <<request, call, status, cancelled, told, result>>
    /\ Rest

\* Bug: the error of the call is dropped.
CallFails_Swallowed(i) ==
    /\ handler[i] = "calling"
    /\ handler' = [handler EXCEPT ![i] = "ok"]
    /\ UNCHANGED <<account, request, call, status, cancelled, told, result>>
    /\ Rest

\* The call fails, for now or for good: nobody makes it again.
CallFails(i) ==
    /\ handler[i] = "calling"
    /\ handler' = [handler EXCEPT ![i] = "error"]
    /\ UNCHANGED <<account, request, call, status, cancelled, told, result>>
    /\ Rest

\* Bug: a provisional failure is as final as any other one.
SetOutcome_CancelledStays(i) ==
    /\ handler[i] \in {"ok", "error"}
    /\ handler' = [handler EXCEPT ![i] = "published"]
    /\ result' = [result EXCEPT ![i] = IF handler[i] = "ok" THEN "complete" ELSE "failed"]
    /\ status' = [status EXCEPT ![i] = IF Settled(@) THEN @ ELSE result'[i]]
    /\ UNCHANGED <<account, request, call, cancelled, told>>
    /\ Rest

\* Under the record's lock: the handler's outcome settles the record, in the
\* place of a provisional failure too.
SetOutcome(i) ==
    /\ handler[i] \in {"ok", "error"}
    /\ handler' = [handler EXCEPT ![i] = "published"]
    /\ result' = [result EXCEPT ![i] = IF handler[i] = "ok" THEN "complete" ELSE "failed"]
    /\ status' = [status EXCEPT ![i] =
           IF Settled(@) /\ ~cancelled[i] THEN @ ELSE result'[i]]
    /\ cancelled' = [cancelled EXCEPT ![i] = FALSE]
    /\ UNCHANGED <<account, request, call, told>>
    /\ Rest

\* The goroutine ends and closes the channel the request waits for.
HandlerEnds(i) ==
    /\ handler[i] = "published"
    /\ handler' = [handler EXCEPT ![i] = "done"]
    /\ UNCHANGED <<account, request, call, status, cancelled, told, result>>
    /\ Rest

-----------------------------------------------------------------------------
(* The tasks that create an account: none of their calls is made again. *)

CreationRest == UNCHANGED <<actions, edits>> /\ Observe

\* Bug: the mail and the workspace of the profile change places.
StartCreation_Swapped(c, p) ==
    /\ creation[c] = "idle"
    /\ profile' = [profile EXCEPT ![c] =
           IF p = Incomplete THEN p ELSE [user |-> p.team, team |-> p.user]]
    /\ creation' = [creation EXCEPT ![c] = IF p = Incomplete THEN "done" ELSE "inviting"]
    /\ answer' = [answer EXCEPT ![c] = IF p = Incomplete THEN "refused" ELSE @]
    /\ UNCHANGED <<account, teams, made>>
    /\ CreationRest

\* A profile that lacks something is refused before any call.
StartCreation(c, p) ==
    /\ creation[c] = "idle"
    /\ profile' = [profile EXCEPT ![c] = p]
    /\ creation' = [creation EXCEPT ![c] = IF p = Incomplete THEN "done" ELSE "inviting"]
    /\ answer' = [answer EXCEPT ![c] = IF p = Incomplete THEN "refused" ELSE @]
    /\ UNCHANGED <<account, teams, made>>
    /\ CreationRest

\* Slack takes the person into the workspace of the profile, unless it is there
\* already, and makes an account only of a person who has none: one who has, in
\* other workspaces, keeps it as it is.
Invites(c) ==
    LET p == profile[c] IN
    /\ creation[c] = "inviting"
    /\ p.team \notin teams[p.user]
    /\ teams' = [teams EXCEPT ![p.user] = @ \cup {p.team}]
    /\ account' = [account EXCEPT ![p.user] = IF @ = "none" THEN "active" ELSE @]
    /\ made' = [made EXCEPT ![c] = "stands"]

\* The invitation is done, and said to be...
Invite(c) ==
    /\ Invites(c)
    /\ creation' = [creation EXCEPT ![c] = "looking_up"]
    /\ UNCHANGED <<profile, answer>>
    /\ CreationRest

\* ... or done, with its answer lost.
InviteReplyLost(c) ==
    /\ Invites(c)
    /\ creation' = [creation EXCEPT ![c] = "done"]
    /\ answer' = [answer EXCEPT ![c] = "error"]
    /\ UNCHANGED profile
    /\ CreationRest

\* Bug: an invitation to a workspace the person is in goes for done, as a
\* grant of a membership that is there does.
InviteFails_AlreadyThere(c) ==
    /\ creation[c] = "inviting"
    /\ IF profile[c].team \in teams[profile[c].user]
       THEN /\ creation' = [creation EXCEPT ![c] = "looking_up"]
            /\ UNCHANGED answer
       ELSE /\ creation' = [creation EXCEPT ![c] = "done"]
            /\ answer' = [answer EXCEPT ![c] = "error"]
    /\ UNCHANGED <<account, teams, profile, made>>
    /\ CreationRest

\* The invitation fails: the person is in the workspace, or the call does.
InviteFails(c) ==
    /\ creation[c] = "inviting"
    /\ creation' = [creation EXCEPT ![c] = "done"]
    /\ answer' = [answer EXCEPT ![c] = "error"]
    /\ UNCHANGED <<account, teams, profile, made>>
    /\ CreationRest

\* The account is found by its mail, whatever workspaces it is in by now, and
\* answered as the new one, of the workspace of the profile.
LookUp(c) ==
    /\ creation[c] = "looking_up"
    /\ account[profile[c].user] # "none"
    /\ creation' = [creation EXCEPT ![c] = "done"]
    /\ answer' = [answer EXCEPT ![c] = "created"]
    /\ UNCHANGED <<account, teams, profile, made>>
    /\ CreationRest

\* The lookup, or what is built from what it found, fails.
LookUpFails(c) ==
    /\ creation[c] = "looking_up"
    /\ creation' = [creation EXCEPT ![c] = "done"]
    /\ answer' = [answer EXCEPT ![c] = "error"]
    /\ UNCHANGED <<account, teams, profile, made>>
    /\ CreationRest

-----------------------------------------------------------------------------
(* The world around. *)

\* An administrator makes, disables or enables an account.
AdminEdit(p) ==
    /\ edits < MaxEdits
    /\ edits' = edits + 1
    /\ \E s \in {"active", "disabled"} \ {account[p]} :
          account' = [account EXCEPT ![p] = s]
    /\ UNCHANGED <<teams, actions, creations>>
    /\ Observe

\* An administrator, or a grant of the connector, takes somebody who has an
\* account into a workspace...
Joins(p, t) ==
    /\ edits < MaxEdits
    /\ edits' = edits + 1
    /\ account[p] # "none"
    /\ t \notin teams[p]
    /\ teams' = [teams EXCEPT ![p] = @ \cup {t}]
    /\ UNCHANGED <<account, actions, creations>>
    /\ Observe

\* ... or an administrator, or a revoke, takes a member out of one.
Leaves(p, t) ==
    /\ edits < MaxEdits
    /\ edits' = edits + 1
    /\ t \in teams[p]
    /\ teams' = [teams EXCEPT ![p] = @ \ {t}]
    /\ made' = [c \in Creators |->
           IF made[c] = "stands" /\ profile[c] = [user |-> p, team |-> t]
           THEN "undone" ELSE made[c]]
    /\ UNCHANGED <<account, actions, creation, profile, answer>>
    /\ Observe

\* The process ends and is started again: the records, the goroutines and the
\* calls in flight are gone; what was answered and done is not.
Crash ==
    /\ \/ \E i \in Invocations : status[i] # "none"
       \/ \E c \in Creators : creation[c] \in {"inviting", "looking_up"}
    /\ status' = [i \in Invocations |-> "none"]
    /\ cancelled' = [i \in Invocations |-> FALSE]
    /\ call' = [i \in Invocations |-> IF call[i] = "none" THEN "none" ELSE "returned"]
    /\ handler' = [i \in Invocations |-> IF handler[i] = "none" THEN "none" ELSE "done"]
    /\ creation' = [c \in Creators |-> IF creation[c] = "idle" THEN "idle" ELSE "done"]
    /\ answer' = [c \in Creators |->
           IF creation[c] \in {"inviting", "looking_up"} THEN "lost" ELSE answer[c]]
    /\ UNCHANGED <<account, teams, request, told, result, profile, made, edits>>
    /\ Observe

-----------------------------------------------------------------------------
RequestStep(i) == Return(i) \/ SetCancelled(i) \/ ReadAfterCancel(i)

HandlerStep(i) ==
    \/ HandlerStarts(i)
    \/ CallDone(i) \/ CallReplyLost(i) \/ CallFails(i)
    \/ SetOutcome(i) \/ HandlerEnds(i)

CreatorStep(c) ==
    \/ Invite(c) \/ InviteReplyLost(c) \/ InviteFails(c)
    \/ LookUp(c) \/ LookUpFails(c)

Next ==
    \/ \E i \in Invocations, r \in Requests : Invoke(i, r)
    \/ \E i \in Invocations : RequestStep(i) \/ NoticeCancel(i) \/ Poll(i) \/ HandlerStep(i)
    \/ \E c \in Creators, p \in Profiles : StartCreation(c, p)
    \/ \E c \in Creators : CreatorStep(c)
    \/ \E p \in People : AdminEdit(p)
    \/ \E p \in People, t \in Workspaces : Joins(p, t) \/ Leaves(p, t)
    \/ Crash

\* A request ends by its inline wait at the latest, a handler by the hour its
\* context is given, a call of a task by the timeout of the HTTP client.
Fairness ==
    /\ \A i \in Invocations : WF_vars(RequestStep(i)) /\ WF_vars(HandlerStep(i))
    /\ \A c \in Creators : WF_vars(CreatorStep(c))

Spec == Init /\ [][Next]_vars
FairSpec == Spec /\ Fairness

-----------------------------------------------------------------------------
Calls == {"none", "waiting", "cancelling", "reading", "returned"}
Handlers == {"none", "spawned", "calling", "ok", "error", "published", "done"}
Statuses == {"none", "pending", "running", "complete", "failed"}

\* The type invariant, of the variables that stand for code and of the history.
TypeOK ==
    /\ account \in [People -> AccountStates]
    /\ teams \in [People -> SUBSET Workspaces]
    /\ request \in [Invocations -> Requests \cup {NoRequest}]
    /\ call \in [Invocations -> Calls]
    /\ handler \in [Invocations -> Handlers]
    /\ status \in [Invocations -> Statuses]
    /\ cancelled \in [Invocations -> BOOLEAN]
    /\ told \in [Invocations -> SUBSET {"open", "complete", "failed"}]
    /\ result \in [Invocations -> {"none", "complete", "failed"}]
    /\ met \in [Invocations -> BOOLEAN]
    /\ creation \in [Creators -> {"idle", "inviting", "looking_up", "done"}]
    /\ profile \in [Creators -> Profiles \cup {NoProfile}]
    /\ answer \in [Creators -> {"none", "refused", "error", "created", "lost"}]
    /\ made \in [Creators -> {"none", "stands", "undone"}]
    /\ edits \in 0..MaxEdits

\* Whatever the race between a handler and the cancellation of the request
\* that invoked it, once the handler has settled the record, and as long as
\* the process lives, the record says what the handler came to
\* (setCancelled and setOutcome of actions/actions.go).
HandlersOutcomeStands ==
    \A i \in Invocations :
        handler[i] \in {"published", "done"} /\ status[i] # "none"
        => status[i] = result[i] /\ ~cancelled[i]

\* The actions as C1 sees them: each comes to one outcome, for good, and every
\* answer about it is that outcome, or that it is open while it is.  No answer
\* tells of a provisional failure, which may still become a success
\* (invokeRegisteredAction answers the error of the request without an id),
\* none takes an outcome back, and the actions do not disturb one another.
ActionsOf == INSTANCE InvokedActions WITH
    Actions <- Invocations, carriedOut <- met, outcome <- result

ImplementsActions == ActionsOf!Spec

\* An action of which C1 was told that it is complete was carried out: the
\* account has been what the action makes of it between the invocation and
\* the end of its handler (handleDisableUser, handleEnableUser).
CompleteIsReal ==
    \A i \in Invocations :
        "complete" \in told[i] => met[i]

\* A task that reports an account as created took the person into the workspace
\* itself, whatever account the person had before: it is never somebody else's
\* membership that the lookup, which is by mail alone, takes for the new one.
\* So no second task for a person and a workspace is a success as long as what
\* the first one did stands, be it that the first one succeeded, failed after
\* its invitation or was lost with the process (CreateAccount:
\* InviteUserToWorkspace, then GetUserByEmail).
CreatedByOwnInvitation ==
    \A c \in Creators :
        answer[c] = "created"
        => /\ made[c] # "none"
           /\ \A d \in Creators \ {c} :
                 made[d] = "stands" /\ profile[d] = profile[c] => made[c] = "undone"

\* An invoked action is answered, its handler ends, and its record does not
\* stay pending, running or provisionally failed: it comes to a final status,
\* or is lost with the process.
ActionsSettle ==
    \A i \in Invocations :
        (call[i] # "none")
        ~> (/\ call[i] = "returned"
            /\ status[i] = "none" \/ (Settled(status[i]) /\ ~cancelled[i]))
=============================================================================
