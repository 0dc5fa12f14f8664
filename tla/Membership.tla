----------------------------- MODULE Membership -----------------------------
(***************************************************************************)
(* What provisioning promises about one membership list (the members of an *)
(* IDP group or of a user group): whoever changes it carries out a request *)
(* somebody made, for one user, on the list as it is or, when the server   *)
(* can only be sent a whole list, on a list the group has had.             *)
(*                                                                         *)
(* A request may be carried out any number of times, at any moment after   *)
(* it was made: a task that is retried, or delivered again, does its work  *)
(* again.  How the list is read and written is no business of this module: *)
(* the connector's modules are checked, and proved, to implement it.       *)
(***************************************************************************)
EXTENDS Naturals

CONSTANTS
    Users,           \* the users of the organization
    InitialMembers,  \* the members before the connector starts
    InPlace          \* the requests ("grant", "revoke") the server carries
                     \* out itself, on the members of the moment

VARIABLES
    members,         \* the users that are members now
    had,             \* every list that members has been
    asked            \* the requests made so far, pairs <<"grant"/"revoke", user>>

vars == <<members, had, asked>>

Requests == {"grant", "revoke"} \X Users

\* The members once the request r is carried out on the list m.
CarriedOut(r, m) == IF r[1] = "grant" THEN m \cup {r[2]} ELSE m \ {r[2]}

\* The lists a request may be carried out on.
Bases(r) == IF r[1] \in InPlace THEN {members} ELSE had

Init ==
    /\ members = InitialMembers
    /\ had = {InitialMembers}
    /\ asked = {}

Becomes(list) ==
    /\ members' = list
    /\ had' = had \cup {list}

\* A task names a user: nothing has happened to the user yet.
Ask(r) ==
    /\ asked' = asked \cup {r}
    /\ UNCHANGED <<members, had>>

\* A request that was made is carried out.
CarryOut(r) ==
    /\ r \in asked
    /\ \E m \in Bases(r) : Becomes(CarriedOut(r, m))
    /\ UNCHANGED asked

\* An administrator changes the list by hand.
AdminEdit(r) ==
    /\ asked' = asked \cup {r}
    /\ Becomes(CarriedOut(r, members))

Next == \E r \in Requests : Ask(r) \/ CarryOut(r) \/ AdminEdit(r)

Spec == Init /\ [][Next]_vars
=============================================================================
