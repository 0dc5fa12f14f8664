--------------------------- MODULE AccountsProofs ---------------------------
(***************************************************************************)
(* Proofs about Accounts: the type invariant, that a record says what its  *)
(* handler came to, that C1 is never told of one action that it is         *)
(* complete and that it failed, that what C1 was told to be complete was   *)
(* carried out, that the actions are as C1 may rely on them                *)
(* (InvokedActions), and that a task that answers an account as created    *)
(* took the person into the workspace itself.                              *)
(***************************************************************************)
EXTENDS Accounts, TLAPS

Ended == {"published", "done"}

(***************************************************************************)
(* The inductive invariant, for one invocation: how far the handler, the   *)
(* record, the request and C1 may be apart.  A final status comes from the *)
(* handler only, so that a record is provisionally failed only before the  *)
(* handler has ended, and then C1 was not told the id.                     *)
(***************************************************************************)
NotInvoked(i) ==
    call[i] = "none" => /\ handler[i] = "none"
                        /\ status[i] = "none"
                        /\ ~cancelled[i]
                        /\ told[i] = {}

HandlerFacts(i) ==
    /\ handler[i] = "none" => call[i] = "none"
    /\ handler[i] # "none" => request[i] \in Requests
    /\ handler[i] = "calling" => request[i] \in UserRequests
    /\ handler[i] = "ok" => met[i]
    /\ result[i] = "complete" => met[i]

RecordFacts(i) ==
    /\ Settled(status[i]) /\ ~cancelled[i] => handler[i] \in Ended
    /\ cancelled[i] => /\ status[i] = "failed"
                       /\ handler[i] \notin Ended
                       /\ call[i] \in {"reading", "returned"}
                       /\ told[i] = {}
    /\ handler[i] \in Ended /\ status[i] # "none" => status[i] = result[i]

ToldFacts(i) ==
    /\ call[i] \in {"waiting", "cancelling", "reading"} => told[i] = {} /\ status[i] # "none"
    /\ "complete" \in told[i] => handler[i] \in Ended /\ result[i] = "complete"
    /\ "failed" \in told[i] => handler[i] \in Ended /\ result[i] = "failed"

ActionFacts(i) == NotInvoked(i) /\ HandlerFacts(i) /\ RecordFacts(i) /\ ToldFacts(i)

\* The inductive invariant, for one creation: what its invitation made is there
\* as long as it stands.
CreationFacts(c) ==
    /\ creation[c] \in {"inviting", "looking_up"} => profile[c] \in Invitations
    /\ creation[c] \in {"idle", "inviting"} => made[c] = "none"
    /\ creation[c] = "looking_up" \/ answer[c] = "created" => made[c] # "none"
    /\ answer[c] = "created" => creation[c] = "done"
    /\ made[c] # "none" => profile[c] \in Invitations
    /\ made[c] = "stands" => profile[c].team \in teams[profile[c].user]

\* Two tasks did not both make one membership that stands.
MadeOnce ==
    \A c, d \in Creators :
        made[c] = "stands" /\ made[d] = "stands" /\ c # d => profile[c] # profile[d]

IInv ==
    /\ TypeOK
    /\ \A i \in Invocations : ActionFacts(i)
    /\ \A c \in Creators : CreationFacts(c)
    /\ MadeOnce

-----------------------------------------------------------------------------
\* The history of what an action's user has had only grows.
LEMMA MetGrows ==
    ASSUME TypeOK, Observe
    PROVE  /\ met' \in [Invocations -> BOOLEAN]
           /\ \A i \in Invocations : met[i] => met'[i]
BY DEF TypeOK, Observe

\* What a handler makes of an account is one of its states.
LEMMA WantedIsThere ==
    ASSUME NEW r \in UserRequests
    PROVE  Wanted(r) \in AccountStates
BY DEF Wanted, AccountStates, UserRequests

\* The facts about creations stand when nobody leaves a workspace and no
\* creation moves.
LEMMA CreationsStand ==
    ASSUME IInv, UNCHANGED creations,
           \A p \in People : teams[p] \subseteq teams'[p]
    PROVE  (\A c \in Creators : CreationFacts(c)') /\ MadeOnce'
BY DEF IInv, creations, CreationFacts, MadeOnce, Invitations

\* The facts about actions stand when no action moves.
LEMMA ActionsStand ==
    ASSUME IInv, UNCHANGED <<request, actions>>, Observe
    PROVE  \A i \in Invocations : ActionFacts(i)'
BY MetGrows DEF IInv, actions, ActionFacts, NotInvoked, HandlerFacts, RecordFacts,
                ToldFacts, Settled, Ended

\* The initial states satisfy the invariant.
LEMMA InitIInv == Init => IInv
<1> SUFFICES ASSUME Init PROVE IInv
  OBVIOUS
<1>1. TypeOK
  <2>1. /\ account \in [People -> AccountStates]
        /\ teams \in [People -> SUBSET Workspaces]
        /\ edits \in 0..MaxEdits
    BY AccountsAssumption DEF Init
  <2>2. /\ request \in [Invocations -> Requests \cup {NoRequest}]
        /\ profile \in [Creators -> Profiles \cup {NoProfile}]
    BY DEF Init
  <2>3. /\ call \in [Invocations -> Calls]
        /\ handler \in [Invocations -> Handlers]
        /\ status \in [Invocations -> Statuses]
        /\ cancelled \in [Invocations -> BOOLEAN]
        /\ met \in [Invocations -> BOOLEAN]
        /\ told \in [Invocations -> SUBSET {"open", "complete", "failed"}]
        /\ result \in [Invocations -> {"none", "complete", "failed"}]
    BY DEF Init, Calls, Handlers, Statuses
  <2>4. /\ creation \in [Creators -> {"idle", "inviting", "looking_up", "done"}]
        /\ answer \in [Creators -> {"none", "refused", "error", "created", "lost"}]
        /\ made \in [Creators -> {"none", "stands", "undone"}]
    BY DEF Init
  <2>5. QED BY <2>1, <2>2, <2>3, <2>4 DEF TypeOK
<1>2. \A i \in Invocations : ActionFacts(i)
  BY DEF Init, ActionFacts, NotInvoked, HandlerFacts, RecordFacts, ToldFacts, Settled, Ended
<1>3. \A c \in Creators : CreationFacts(c)
  BY DEF Init, CreationFacts
<1>4. MadeOnce
  BY DEF Init, MadeOnce
<1>5. QED BY <1>1, <1>2, <1>3, <1>4 DEF IInv

-----------------------------------------------------------------------------
(* The steps of an action. *)

\* A step of the action i that changes no account: the facts about the other
\* actions stand, and it is enough to look at those about i.
LEMMA OwnFacts ==
    ASSUME IInv, Observe, NEW i \in Invocations,
           \A j \in Invocations \ {i} :
              /\ request'[j] = request[j] /\ call'[j] = call[j] /\ handler'[j] = handler[j]
              /\ status'[j] = status[j] /\ cancelled'[j] = cancelled[j]
              /\ told'[j] = told[j] /\ result'[j] = result[j],
           ActionFacts(i)'
    PROVE  \A j \in Invocations : ActionFacts(j)'
<1> SUFFICES ASSUME NEW j \in Invocations, j # i PROVE ActionFacts(j)'
  OBVIOUS
<1>1. met[j] => met'[j]
  BY MetGrows DEF IInv
<1>2. QED
  BY <1>1 DEF IInv, ActionFacts, NotInvoked, HandlerFacts, RecordFacts, ToldFacts, Settled, Ended

LEMMA InvokeStep ==
    ASSUME IInv, NEW i \in Invocations, NEW r \in Requests, Invoke(i, r)
    PROVE  TypeOK' /\ ActionFacts(i)'
<1>1. TypeOK'
  BY MetGrows DEF IInv, Invoke, Rest, creations, TypeOK, Calls, Handlers, Statuses
<1>2. ActionFacts(i)'
  BY MetGrows DEF IInv, TypeOK, Invoke, Rest, ActionFacts, NotInvoked, HandlerFacts,
                  RecordFacts, ToldFacts, Settled, Ended
<1>3. QED BY <1>1, <1>2

LEMMA RequestStepKeeps ==
    ASSUME IInv, NEW i \in Invocations, RequestStep(i) \/ NoticeCancel(i) \/ Poll(i)
    PROVE  TypeOK' /\ ActionFacts(i)'
<1>1. CASE Return(i)
  <2>0. status[i] # "none"
    BY <1>1 DEF IInv, Return, ActionFacts, ToldFacts
  <2>1. TypeOK'
    BY <1>1, <2>0, MetGrows DEF IInv, Return, Told, Rest, creations, TypeOK, Calls, Statuses
  <2>2. ActionFacts(i)'
    BY <1>1, MetGrows DEF IInv, TypeOK, Return, Told, Rest, ActionFacts, NotInvoked,
       HandlerFacts, RecordFacts, ToldFacts, Settled, Ended, Statuses
  <2>3. QED BY <2>1, <2>2
<1>2. CASE NoticeCancel(i)
  <2>1. TypeOK'
    BY <1>2, MetGrows DEF IInv, NoticeCancel, Rest, creations, TypeOK, Calls
  <2>2. ActionFacts(i)'
    BY <1>2, MetGrows DEF IInv, TypeOK, NoticeCancel, Rest, ActionFacts, NotInvoked,
       HandlerFacts, RecordFacts, ToldFacts, Settled, Ended
  <2>3. QED BY <2>1, <2>2
<1>3. CASE SetCancelled(i)
  <2>1. TypeOK'
    BY <1>3, MetGrows DEF IInv, SetCancelled, Rest, creations, TypeOK, Calls, Statuses
  <2>2. ActionFacts(i)'
    BY <1>3, MetGrows DEF IInv, TypeOK, SetCancelled, Rest, ActionFacts, NotInvoked,
       HandlerFacts, RecordFacts, ToldFacts, Settled, Ended
  <2>3. QED BY <2>1, <2>2
<1>4. CASE ReadAfterCancel(i)
  <2>1. TypeOK'
    BY <1>4, MetGrows DEF IInv, ReadAfterCancel, Told, Rest, creations, TypeOK, Calls, Statuses
  <2>2. ActionFacts(i)'
    BY <1>4, MetGrows DEF IInv, TypeOK, ReadAfterCancel, Told, Rest, ActionFacts, NotInvoked,
       HandlerFacts, RecordFacts, ToldFacts, Settled, Ended
  <2>3. QED BY <2>1, <2>2
<1>5. CASE Poll(i)
  <2>1. TypeOK'
    BY <1>5, MetGrows DEF IInv, Poll, Told, Rest, creations, TypeOK, Statuses
  <2>2. ActionFacts(i)'
    BY <1>5, MetGrows DEF IInv, TypeOK, Poll, Told, Rest, ActionFacts, NotInvoked,
       HandlerFacts, RecordFacts, ToldFacts, Settled, Ended, Statuses, Calls
  <2>3. QED BY <2>1, <2>2
<1>6. QED BY <1>1, <1>2, <1>3, <1>4, <1>5 DEF RequestStep

LEMMA HandlerStepKeeps ==
    ASSUME IInv, NEW i \in Invocations, HandlerStep(i)
    PROVE  TypeOK' /\ ActionFacts(i)'
<1>1. CASE HandlerStarts(i)
  <2>1. TypeOK'
    BY <1>1, MetGrows DEF IInv, HandlerStarts, Rest, creations, TypeOK, Handlers, Statuses
  <2>2. ActionFacts(i)'
    BY <1>1, MetGrows DEF IInv, TypeOK, HandlerStarts, Rest, ActionFacts, NotInvoked,
       HandlerFacts, RecordFacts, ToldFacts, Settled, Ended, Requests, Statuses
  <2>3. QED BY <2>1, <2>2
<1>2. CASE CallDone(i)
  <2>0. request[i] \in UserRequests /\ request[i].user \in People
    BY <1>2 DEF IInv, CallDone, ActionFacts, HandlerFacts, UserRequests
  <2>1. Wanted(request[i]) \in AccountStates
    BY <2>0, WantedIsThere
  <2>2. TypeOK'
    BY <1>2, <2>0, <2>1, MetGrows DEF IInv, CallDone, Rest, creations, TypeOK, Handlers
  <2>3. met'[i]
    BY <1>2, <2>0 DEF IInv, TypeOK, CallDone, Rest, Observe
  <2>4. ActionFacts(i)'
    BY <1>2, <2>3, MetGrows DEF IInv, TypeOK, CallDone, Rest, ActionFacts, NotInvoked,
       HandlerFacts, RecordFacts, ToldFacts, Settled, Ended
  <2>5. QED BY <2>2, <2>4
<1>3. CASE CallReplyLost(i)
  <2>0. request[i] \in UserRequests /\ request[i].user \in People
    BY <1>3 DEF IInv, CallReplyLost, ActionFacts, HandlerFacts, UserRequests
  <2>1. Wanted(request[i]) \in AccountStates
    BY <2>0, WantedIsThere
  <2>2. TypeOK'
    BY <1>3, <2>0, <2>1, MetGrows DEF IInv, CallReplyLost, Rest, creations, TypeOK, Handlers
  <2>3. met'[i]
    BY <1>3, <2>0 DEF IInv, TypeOK, CallReplyLost, Rest, Observe
  <2>4. ActionFacts(i)'
    BY <1>3, <2>3, MetGrows DEF IInv, TypeOK, CallReplyLost, Rest, ActionFacts, NotInvoked,
       HandlerFacts, RecordFacts, ToldFacts, Settled, Ended
  <2>5. QED BY <2>2, <2>4
<1>4. CASE CallFails(i)
  <2>1. TypeOK'
    BY <1>4, MetGrows DEF IInv, CallFails, Rest, creations, TypeOK, Handlers, Statuses
  <2>2. ActionFacts(i)'
    BY <1>4, MetGrows DEF IInv, TypeOK, CallFails, Rest, ActionFacts, NotInvoked,
       HandlerFacts, RecordFacts, ToldFacts, Settled, Ended
  <2>3. QED BY <2>1, <2>2
<1>5. CASE SetOutcome(i)
  <2>1. TypeOK'
    BY <1>5, MetGrows DEF IInv, SetOutcome, Rest, creations, TypeOK, Handlers, Statuses
  <2>2. ActionFacts(i)'
    BY <1>5, MetGrows DEF IInv, TypeOK, SetOutcome, Rest, ActionFacts, NotInvoked,
       HandlerFacts, RecordFacts, ToldFacts, Settled, Ended
  <2>3. QED BY <2>1, <2>2
<1>6. CASE HandlerEnds(i)
  <2>1. TypeOK'
    BY <1>6, MetGrows DEF IInv, HandlerEnds, Rest, creations, TypeOK, Handlers, Statuses
  <2>2. ActionFacts(i)'
    BY <1>6, MetGrows DEF IInv, TypeOK, HandlerEnds, Rest, ActionFacts, NotInvoked,
       HandlerFacts, RecordFacts, ToldFacts, Settled, Ended
  <2>3. QED BY <2>1, <2>2
<1>7. QED BY <1>1, <1>2, <1>3, <1>4, <1>5, <1>6 DEF HandlerStep

\* What such a step leaves alone: the creations, and the other actions.
LEMMA ActionStepFrame ==
    ASSUME IInv, NEW i \in Invocations,
           \/ \E r \in Requests : Invoke(i, r)
           \/ RequestStep(i) \/ NoticeCancel(i) \/ Poll(i)
           \/ HandlerStep(i)
    PROVE  /\ Observe
           /\ UNCHANGED <<teams, creations>>
           /\ \A j \in Invocations \ {i} :
                 /\ request'[j] = request[j] /\ call'[j] = call[j] /\ handler'[j] = handler[j]
                 /\ status'[j] = status[j] /\ cancelled'[j] = cancelled[j]
                 /\ told'[j] = told[j] /\ result'[j] = result[j]
<1>1. CASE \E r \in Requests : Invoke(i, r)
  BY <1>1 DEF IInv, TypeOK, Invoke, Rest
<1>2. CASE RequestStep(i)
  BY <1>2 DEF IInv, TypeOK, RequestStep, Return, SetCancelled, ReadAfterCancel, Rest
<1>3. CASE NoticeCancel(i) \/ Poll(i)
  BY <1>3 DEF IInv, TypeOK, NoticeCancel, Poll, Rest
<1>4. CASE HandlerStarts(i) \/ CallFails(i) \/ SetOutcome(i) \/ HandlerEnds(i)
  BY <1>4 DEF IInv, TypeOK, HandlerStarts, CallFails, SetOutcome, HandlerEnds, Rest
<1>5. CASE CallDone(i) \/ CallReplyLost(i)
  BY <1>5 DEF IInv, TypeOK, CallDone, CallReplyLost, Rest
<1>6. QED BY <1>1, <1>2, <1>3, <1>4, <1>5 DEF HandlerStep

LEMMA ActionStepKeepsIInv ==
    ASSUME IInv, NEW i \in Invocations,
           \/ \E r \in Requests : Invoke(i, r)
           \/ RequestStep(i) \/ NoticeCancel(i) \/ Poll(i)
           \/ HandlerStep(i)
    PROVE  IInv'
<1>1. TypeOK' /\ ActionFacts(i)'
  BY InvokeStep, RequestStepKeeps, HandlerStepKeeps
<1>2. \A j \in Invocations : ActionFacts(j)'
  BY <1>1, ActionStepFrame, OwnFacts
<1>3. (\A c \in Creators : CreationFacts(c)') /\ MadeOnce'
  BY ActionStepFrame, CreationsStand
<1>4. QED BY <1>1, <1>2, <1>3 DEF IInv

-----------------------------------------------------------------------------
(* The steps of a creation, and of the world around. *)

LEMMA CreationStepKeepsIInv ==
    ASSUME IInv, NEW c \in Creators,
           (\E p \in Profiles : StartCreation(c, p)) \/ CreatorStep(c)
    PROVE  IInv'
<1>1. Observe /\ UNCHANGED <<request, actions, edits>>
  BY DEF StartCreation, CreatorStep, Invite, InviteReplyLost, InviteFails, LookUp, LookUpFails,
         CreationRest, actions
<1>2. \A i \in Invocations : ActionFacts(i)'
  BY <1>1, ActionsStand
<1>3. ASSUME NEW p \in Profiles, StartCreation(c, p)
      PROVE  TypeOK' /\ (\A d \in Creators : CreationFacts(d)') /\ MadeOnce'
  <2>1. TypeOK'
    BY <1>1, <1>3, MetGrows DEF IInv, StartCreation, TypeOK, actions
  <2>2. \A d \in Creators : CreationFacts(d)'
    BY <1>3 DEF IInv, TypeOK, StartCreation, CreationFacts, Profiles, Invitations
  <2>3. MadeOnce'
    BY <1>3 DEF IInv, TypeOK, StartCreation, CreationFacts, MadeOnce
  <2>4. QED BY <2>1, <2>2, <2>3
<1>4. ASSUME Invite(c) \/ InviteReplyLost(c)
      PROVE  TypeOK' /\ (\A d \in Creators : CreationFacts(d)') /\ MadeOnce'
  <2>0. /\ profile[c] \in Invitations
        /\ profile[c].user \in People /\ profile[c].team \in Workspaces
    BY <1>4 DEF IInv, Invite, InviteReplyLost, Invites, CreationFacts, Invitations
  <2>1. TypeOK'
    BY <1>1, <1>4, <2>0, MetGrows DEF IInv, Invite, InviteReplyLost, Invites, TypeOK, actions,
                                      AccountStates
  <2>2. \A d \in Creators : CreationFacts(d)'
    BY <1>4, <2>0 DEF IInv, TypeOK, Invite, InviteReplyLost, Invites, CreationFacts, Invitations
  <2>3. MadeOnce'
    <3>1. \A d \in Creators : made[d] = "stands" => profile[d] # profile[c]
      BY <1>4 DEF IInv, Invite, InviteReplyLost, Invites, CreationFacts
    <3>2. QED BY <1>4, <3>1 DEF IInv, TypeOK, Invite, InviteReplyLost, Invites, MadeOnce
  <2>4. QED BY <2>1, <2>2, <2>3
<1>5. ASSUME InviteFails(c) \/ LookUp(c) \/ LookUpFails(c)
      PROVE  TypeOK' /\ (\A d \in Creators : CreationFacts(d)') /\ MadeOnce'
  <2>1. TypeOK'
    BY <1>1, <1>5, MetGrows DEF IInv, InviteFails, LookUp, LookUpFails, TypeOK, actions
  <2>2. \A d \in Creators : CreationFacts(d)'
    BY <1>5 DEF IInv, TypeOK, InviteFails, LookUp, LookUpFails, CreationFacts, Invitations
  <2>3. MadeOnce'
    BY <1>5 DEF IInv, InviteFails, LookUp, LookUpFails, MadeOnce
  <2>4. QED BY <2>1, <2>2, <2>3
<1>6. QED BY <1>2, <1>3, <1>4, <1>5 DEF IInv, CreatorStep

LEMMA AdminEditKeepsIInv ==
    ASSUME IInv, NEW p \in People, AdminEdit(p)
    PROVE  IInv'
<1>1. PICK s \in {"active", "disabled"} : account' = [account EXCEPT ![p] = s]
  BY DEF AdminEdit
<1>2. \A q \in People : teams[q] \subseteq teams'[q]
  BY DEF AdminEdit
<1>3. TypeOK'
  BY <1>1, MetGrows, AccountsAssumption
     DEF IInv, AdminEdit, TypeOK, actions, creations, AccountStates
<1>4. QED BY <1>2, <1>3, ActionsStand, CreationsStand DEF IInv, AdminEdit, actions

LEMMA JoinsKeepsIInv ==
    ASSUME IInv, NEW p \in People, NEW t \in Workspaces, Joins(p, t)
    PROVE  IInv'
<1>1. \A q \in People : teams[q] \subseteq teams'[q]
  BY DEF Joins, IInv, TypeOK
<1>2. TypeOK'
  BY MetGrows, AccountsAssumption DEF IInv, Joins, TypeOK, actions, creations
<1>3. QED BY <1>1, <1>2, ActionsStand, CreationsStand DEF IInv, Joins, actions

\* Of one who leaves a workspace no membership of that workspace stands.
LEMMA LeavesKeepsIInv ==
    ASSUME IInv, NEW p \in People, NEW t \in Workspaces, Leaves(p, t)
    PROVE  IInv'
<1>1. TypeOK'
  BY MetGrows, AccountsAssumption DEF IInv, Leaves, TypeOK, actions
<1>2. \A i \in Invocations : ActionFacts(i)'
  BY ActionsStand DEF Leaves, actions
<1>3. \A c \in Creators : made'[c] = "stands" =>
         made[c] = "stands" /\ profile[c] # [user |-> p, team |-> t]
  BY DEF IInv, TypeOK, Leaves
<1>4. ASSUME NEW c \in Creators PROVE CreationFacts(c)'
  <2>1. made'[c] = "stands" => profile'[c].team \in teams'[profile'[c].user]
    <3>1. SUFFICES ASSUME made'[c] = "stands"
                   PROVE  profile[c].team \in teams'[profile[c].user]
      BY DEF Leaves
    <3>2. profile[c] \in Invitations /\ profile[c].team \in teams[profile[c].user]
      BY <1>3, <3>1 DEF IInv, CreationFacts
    <3>3. profile[c].user # p \/ profile[c].team # t
      BY <1>3, <3>1, <3>2 DEF Invitations
    <3> QED
      BY <3>2, <3>3 DEF IInv, TypeOK, Leaves, Invitations
  <2>2. made'[c] # "none" <=> made[c] # "none"
    BY DEF IInv, TypeOK, Leaves
  <2> QED
    BY <2>1, <2>2 DEF IInv, Leaves, CreationFacts
<1>5. MadeOnce'
  BY <1>3 DEF IInv, Leaves, MadeOnce
<1>6. QED BY <1>1, <1>2, <1>4, <1>5 DEF IInv

LEMMA CrashKeepsIInv ==
    ASSUME IInv, Crash
    PROVE  IInv'
<1>1. Observe
  BY DEF Crash
<1>2. TypeOK'
  BY <1>1, MetGrows DEF IInv, Crash, TypeOK, Calls, Handlers, Statuses
<1>3. ASSUME NEW i \in Invocations PROVE ActionFacts(i)'
  BY <1>1, MetGrows DEF IInv, TypeOK, Crash, ActionFacts, NotInvoked, HandlerFacts, RecordFacts,
                        ToldFacts, Settled, Ended
<1>4. ASSUME NEW c \in Creators PROVE CreationFacts(c)'
  BY DEF IInv, TypeOK, Crash, CreationFacts
<1>5. MadeOnce'
  BY DEF IInv, Crash, MadeOnce
<1>6. QED BY <1>2, <1>3, <1>4, <1>5 DEF IInv

\* Every step keeps the invariant.
LEMMA NextKeepsIInv == IInv /\ [Next]_vars => IInv'
<1>1. ASSUME IInv, UNCHANGED vars PROVE IInv'
  BY <1>1 DEF vars, IInv, TypeOK, ActionFacts, NotInvoked, HandlerFacts, RecordFacts, ToldFacts,
              CreationFacts, MadeOnce, Invitations
<1>2. ASSUME IInv, Next PROVE IInv'
  BY <1>2, ActionStepKeepsIInv, CreationStepKeepsIInv, AdminEditKeepsIInv, JoinsKeepsIInv,
     LeavesKeepsIInv, CrashKeepsIInv DEF Next
<1>3. QED BY <1>1, <1>2

LEMMA AlwaysIInv == Spec => []IInv
<1>1. QED BY InitIInv, NextKeepsIInv, PTL DEF Spec

-----------------------------------------------------------------------------
\* The types of the variables, for any people, invocations and creations.
THEOREM TypeCorrect == Spec => []TypeOK
<1>1. IInv => TypeOK
  BY DEF IInv
<1>2. QED BY <1>1, AlwaysIInv, PTL

\* However a handler and the cancellation of its request race
\* (setCancelled, setOutcome), the handler's outcome is the one that stands.
THEOREM HandlersOutcomeAlwaysStands == Spec => []HandlersOutcomeStands
<1>1. IInv => HandlersOutcomeStands
  BY DEF IInv, HandlersOutcomeStands, ActionFacts, RecordFacts, Ended
<1>2. QED BY <1>1, AlwaysIInv, PTL

\* The two final answers about one action exclude each other.
SettledAnswersAgree ==
    \A i \in Invocations : ~ {"complete", "failed"} \subseteq told[i]

\* C1 is never told of one action that it is complete and that it failed
\* (invokeRegisteredAction, GetActionStatus).
THEOREM SettledAnswersAlwaysAgree == Spec => []SettledAnswersAgree
<1>1. IInv => SettledAnswersAgree
  BY DEF IInv, SettledAnswersAgree, ActionFacts, ToldFacts
<1>2. QED BY <1>1, AlwaysIInv, PTL

\* What C1 was told to be complete was carried out (handleDisableUser,
\* handleEnableUser).
THEOREM CompleteIsAlwaysReal == Spec => []CompleteIsReal
<1>1. IInv => CompleteIsReal
  BY DEF IInv, CompleteIsReal, ActionFacts, ToldFacts, HandlerFacts
<1>2. QED BY <1>1, AlwaysIInv, PTL

\* Any number of tasks, people and workspaces: a task that reports an account as
\* created took the person into the workspace itself, and no other task did
\* whose membership stands beside it (CreateAccount).
THEOREM AccountsAreCreatedByOwnInvitation == Spec => []CreatedByOwnInvitation
<1>1. IInv => CreatedByOwnInvitation
  <2> SUFFICES ASSUME IInv, NEW c \in Creators, answer[c] = "created"
               PROVE  /\ made[c] # "none"
                      /\ \A d \in Creators \ {c} :
                            made[d] = "stands" /\ profile[d] = profile[c] => made[c] = "undone"
    BY DEF CreatedByOwnInvitation
  <2>1. made[c] \in {"stands", "undone"}
    BY DEF IInv, TypeOK, CreationFacts
  <2>2. \A d \in Creators \ {c} :
           made[d] = "stands" /\ profile[d] = profile[c] => made[c] # "stands"
    BY DEF IInv, MadeOnce
  <2> QED
    BY <2>1, <2>2
<1>2. QED BY <1>1, AlwaysIInv, PTL

-----------------------------------------------------------------------------
(* The actions as C1 sees them. *)

\* What the refinement needs besides: an action has no outcome before its
\* handler has settled the record, and what its user has is observed.
OutcomeIsNew == \A i \in Invocations : handler[i] \notin Ended => result[i] = "none"

MetIsKnown ==
    \A i \in Invocations :
        /\ handler[i] # "done"
        /\ request[i] \in UserRequests
        /\ account[request[i].user] = Wanted(request[i])
        => met[i]

\* Every step of the module observes, and no handler begins again.
LEMMA HandlersEnd ==
    ASSUME IInv, Next
    PROVE  /\ Observe
           /\ \A i \in Invocations : /\ handler[i] = "done" => handler'[i] = "done"
                                     /\ handler[i] \in Ended => handler'[i] \in Ended
<1>1. ASSUME NEW i \in Invocations, NEW r \in Requests, Invoke(i, r)
      PROVE  Observe /\ handler' = [handler EXCEPT ![i] = "spawned"] /\ handler[i] = "none"
  BY <1>1 DEF Invoke, Rest, IInv, ActionFacts, NotInvoked
<1>2. ASSUME NEW i \in Invocations, RequestStep(i) \/ NoticeCancel(i) \/ Poll(i)
      PROVE  Observe /\ handler' = handler
  BY <1>2 DEF RequestStep, Return, SetCancelled, ReadAfterCancel, NoticeCancel, Poll, Rest
<1>3. ASSUME NEW i \in Invocations, HandlerStep(i)
      PROVE  /\ Observe
             /\ \/ handler[i] \notin Ended /\ \E h : handler' = [handler EXCEPT ![i] = h]
                \/ handler[i] = "published" /\ handler' = [handler EXCEPT ![i] = "done"]
  BY <1>3 DEF HandlerStep, HandlerStarts, CallDone, CallReplyLost, CallFails, SetOutcome,
              HandlerEnds, Rest, Ended
<1>4. ASSUME NEW c \in Creators, (\E p \in Profiles : StartCreation(c, p)) \/ CreatorStep(c)
      PROVE  Observe /\ handler' = handler
  BY <1>4 DEF StartCreation, CreatorStep, Invite, InviteReplyLost, InviteFails, LookUp,
              LookUpFails, CreationRest, actions
<1>5. ASSUME NEW p \in People,
             AdminEdit(p) \/ (\E t \in Workspaces : Joins(p, t) \/ Leaves(p, t))
      PROVE  Observe /\ handler' = handler
  BY <1>5 DEF AdminEdit, Joins, Leaves, actions
<1>6. ASSUME Crash
      PROVE  /\ Observe
             /\ handler' = [i \in Invocations |-> IF handler[i] = "none" THEN "none" ELSE "done"]
  BY <1>6 DEF Crash
<1> QED
  BY <1>1, <1>2, <1>3, <1>4, <1>5, <1>6 DEF Next, IInv, TypeOK, Ended

LEMMA ObservedFacts ==
    /\ Init => OutcomeIsNew /\ MetIsKnown
    /\ IInv /\ OutcomeIsNew /\ MetIsKnown /\ [Next]_vars => OutcomeIsNew' /\ MetIsKnown'
<1>1. Init => OutcomeIsNew /\ MetIsKnown
  BY DEF Init, OutcomeIsNew, MetIsKnown, NoRequest, UserRequests
<1>2. ASSUME IInv, OutcomeIsNew, MetIsKnown, Next PROVE MetIsKnown'
  BY <1>2, HandlersEnd DEF MetIsKnown, Observe, IInv, TypeOK
<1>3. ASSUME IInv, OutcomeIsNew, Next PROVE OutcomeIsNew'
  <2>1. \A i \in Invocations : handler'[i] \notin Ended => handler[i] \notin Ended
    BY <1>3, HandlersEnd
  <2>2. \/ result' = result
        \/ \E i \in Invocations : SetOutcome(i)
    BY <1>3 DEF Next, Invoke, RequestStep, Return, SetCancelled, ReadAfterCancel, NoticeCancel,
       Poll, HandlerStep, HandlerStarts, CallDone, CallReplyLost, CallFails, HandlerEnds,
       StartCreation, CreatorStep, Invite, InviteReplyLost, InviteFails, LookUp, LookUpFails,
       CreationRest, AdminEdit, Joins, Leaves, Crash, actions
  <2>3. CASE result' = result
    BY <1>3, <2>1, <2>3 DEF OutcomeIsNew
  <2>4. ASSUME NEW i \in Invocations, SetOutcome(i) PROVE OutcomeIsNew'
    BY <1>3, <2>1, <2>4 DEF OutcomeIsNew, SetOutcome, IInv, TypeOK, Ended
  <2> QED
    BY <2>2, <2>3, <2>4
<1>4. ASSUME OutcomeIsNew, MetIsKnown, UNCHANGED vars PROVE OutcomeIsNew' /\ MetIsKnown'
  BY <1>4 DEF OutcomeIsNew, MetIsKnown, vars
<1> QED
  BY <1>1, <1>2, <1>3, <1>4

\* An answer about an action tells its outcome, and that it is open as long
\* as it has none: the record holds no provisional failure.
LEMMA AnswerIsOutcome ==
    ASSUME IInv, OutcomeIsNew, NEW i \in Invocations, status[i] # "none", ~cancelled[i]
    PROVE  Told(i) = told[i] \cup {IF result[i] = "none" THEN "open" ELSE result[i]}
<1>1. status[i] \in Statuses /\ result[i] \in {"none", "complete", "failed"}
  BY DEF IInv, TypeOK
<1>2. CASE handler[i] \in Ended
  <2>1. status[i] = result[i]
    BY <1>2 DEF IInv, ActionFacts, RecordFacts
  <2> QED
    BY <1>1, <2>1 DEF Told
<1>3. CASE handler[i] \notin Ended
  <2>1. result[i] = "none"
    BY <1>3 DEF OutcomeIsNew
  <2>2. status[i] \in {"pending", "running"}
    BY <1>1, <1>3 DEF IInv, ActionFacts, RecordFacts, Settled, Statuses
  <2> QED
    BY <2>1, <2>2 DEF Told
<1> QED
  BY <1>2, <1>3

\* Of whoever is not at work on the handlers or the requests, nothing new is
\* observed: what an action asks for was seen when it became so.
LEMMA NothingNewIsObserved ==
    ASSUME IInv, MetIsKnown, Observe, UNCHANGED <<account, request>>
    PROVE  met' = met
<1>1. \A i \in Invocations : met'[i] = met[i]
  BY DEF MetIsKnown, Observe, IInv, TypeOK
<1> QED
  BY <1>1, MetGrows DEF IInv, TypeOK

\* A step that settles no record and answers nobody may carry actions out.
LEMMA QuietStep ==
    ASSUME IInv, Observe, UNCHANGED <<result, told>>
    PROVE  ActionsOf!CarryOut
<1> DEFINE done == {i \in Invocations : met'[i]}
<1>1. \A i \in Invocations : met'[i] = (met[i] \/ i \in done)
  BY MetGrows DEF IInv, TypeOK
<1>2. met' = [i \in Invocations |-> met[i] \/ i \in done]
  BY <1>1, MetGrows DEF IInv, TypeOK
<1>3. done \in SUBSET Invocations
  OBVIOUS
<1> QED
  BY <1>2, <1>3 DEF ActionsOf!CarryOut

\* A handler that settles its record gives the action its outcome.
LEMMA SettlingStep ==
    ASSUME IInv, OutcomeIsNew, MetIsKnown, NEW i \in Invocations, SetOutcome(i)
    PROVE  ActionsOf!ComeTo(i, "complete") \/ ActionsOf!ComeTo(i, "failed")
<1>1. met' = met
  BY NothingNewIsObserved DEF SetOutcome, Rest
<1>2. result[i] = "none"
  BY DEF SetOutcome, OutcomeIsNew, Ended
<1>3. handler[i] = "ok" => met[i]
  BY DEF IInv, ActionFacts, HandlerFacts
<1> QED
  BY <1>1, <1>2, <1>3 DEF SetOutcome, ActionsOf!ComeTo

\* An answer of the request, or to a poll, is the outcome.
LEMMA AnsweringStep ==
    ASSUME IInv, OutcomeIsNew, MetIsKnown, NEW i \in Invocations,
           UNCHANGED <<account, request, result>>, Observe, status[i] # "none", ~cancelled[i],
           told' = [told EXCEPT ![i] = Told(i)]
    PROVE  ActionsOf!Answer(i)
<1>1. met' = met
  BY NothingNewIsObserved
<1>2. Told(i) = told[i] \cup {IF result[i] = "none" THEN "open" ELSE result[i]}
  BY AnswerIsOutcome
<1> QED
  BY <1>1, <1>2 DEF ActionsOf!Answer

\* Every step is one of the actions as C1 sees them, or none.
LEMMA ActionsStep ==
    ASSUME IInv, OutcomeIsNew, MetIsKnown, Next
    PROVE  ActionsOf!Next
<1>0. Observe
  BY HandlersEnd
<1>1. CASE UNCHANGED <<result, told>>
  BY <1>0, <1>1, QuietStep DEF ActionsOf!Next
<1>2. ASSUME NEW i \in Invocations, SetOutcome(i) PROVE ActionsOf!Next
  BY <1>2, SettlingStep DEF ActionsOf!Next
<1>3. ASSUME NEW i \in Invocations, Return(i) PROVE ActionsOf!Next
  <2>1. status[i] # "none" /\ ~cancelled[i]
    BY <1>3 DEF Return, IInv, ActionFacts, RecordFacts, ToldFacts
  <2> QED
    BY <1>0, <1>3, <2>1, AnsweringStep DEF Return, ActionsOf!Next
<1>4. ASSUME NEW i \in Invocations, Poll(i) PROVE ActionsOf!Next
  <2>1. status[i] # "none" /\ ~cancelled[i]
    BY <1>4 DEF Poll, IInv, ActionFacts, RecordFacts
  <2> QED
    BY <1>0, <1>4, <2>1, AnsweringStep DEF Poll, ActionsOf!Next
<1>5. ASSUME NEW i \in Invocations, ReadAfterCancel(i) PROVE ActionsOf!Next
  <2>1. CASE status[i] = "complete"
    <3>1. ~cancelled[i]
      BY <2>1 DEF IInv, ActionFacts, RecordFacts
    <3> QED
      BY <1>0, <1>5, <2>1, <3>1, AnsweringStep DEF ReadAfterCancel, ActionsOf!Next
  <2>2. CASE status[i] # "complete"
    <3>1. UNCHANGED <<result, told>>
      BY <1>5, <2>2 DEF ReadAfterCancel, IInv, TypeOK
    <3> QED
      BY <1>1, <3>1
  <2> QED
    BY <2>1, <2>2
<1>6. \/ UNCHANGED <<result, told>>
      \/ \E i \in Invocations : SetOutcome(i) \/ Return(i) \/ Poll(i) \/ ReadAfterCancel(i)
  BY DEF Next, Invoke, RequestStep, SetCancelled, NoticeCancel, HandlerStep, HandlerStarts,
         CallDone, CallReplyLost, CallFails, HandlerEnds, StartCreation, CreatorStep, Invite,
         InviteReplyLost, InviteFails, LookUp, LookUpFails, CreationRest, AdminEdit, Joins,
         Leaves, Crash, actions
<1> QED
  BY <1>1, <1>2, <1>3, <1>4, <1>5, <1>6

\* Any number of invocations, cancelled, polled and cut off by a crash as they
\* may be: C1 can take the actions for what InvokedActions says, each with one
\* outcome that stands and that all answers agree on (invokeRegisteredAction,
\* setCancelled, setOutcome, GetActionStatus).
THEOREM AccountsImplementActions == Spec => ImplementsActions
<1>1. Init => ActionsOf!Init
  BY DEF Init, ActionsOf!Init
<1>2. IInv /\ OutcomeIsNew /\ MetIsKnown /\ [Next]_vars => [ActionsOf!Next]_(ActionsOf!vars)
  <2>1. ASSUME UNCHANGED vars PROVE UNCHANGED ActionsOf!vars
    BY <2>1 DEF vars, ActionsOf!vars
  <2> QED
    BY <2>1, ActionsStep
<1>3. Spec => [](OutcomeIsNew /\ MetIsKnown)
  BY AlwaysIInv, ObservedFacts, PTL DEF Spec
<1> QED
  BY <1>1, <1>2, <1>3, AlwaysIInv, PTL DEF Spec, ImplementsActions, ActionsOf!Spec
=============================================================================
