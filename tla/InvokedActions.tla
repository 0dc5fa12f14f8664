--------------------------- MODULE InvokedActions ---------------------------
(***************************************************************************)
(* What C1 may rely on about the connector actions it has invoked: each    *)
(* comes to one outcome, once and for good, to success only if what it     *)
(* asked for was carried out; and an answer about it, whoever gives it and *)
(* however often, is that outcome, or that it is open as long as it is.    *)
(*                                                                         *)
(* An action may stay open for ever, be answered about never, and be       *)
(* carried out but fail.  Who runs the actions, cancels them or keeps      *)
(* their records is no business of this module.                            *)
(***************************************************************************)
CONSTANT Actions

VARIABLES
    carriedOut,  \* action -> what it asks for has been so
    outcome,     \* action -> "none" as long as it is open, "complete", "failed"
    told         \* action -> the answers C1 was given about it

vars == <<carriedOut, outcome, told>>

Init ==
    /\ carriedOut = [a \in Actions |-> FALSE]
    /\ outcome = [a \in Actions |-> "none"]
    /\ told = [a \in Actions |-> {}]

\* The connector, or somebody else, makes it so: for all who ask for the same.
CarryOut ==
    /\ \E done \in SUBSET Actions :
          carriedOut' = [a \in Actions |-> carriedOut[a] \/ a \in done]
    /\ UNCHANGED <<outcome, told>>

\* Success needs what was asked for to have been so; a failure does not need
\* the contrary.
ComeTo(a, o) ==
    /\ outcome[a] = "none"
    /\ o = "complete" => carriedOut[a]
    /\ outcome' = [outcome EXCEPT ![a] = o]
    /\ UNCHANGED <<carriedOut, told>>

\* An answer to the request that invoked the action, or to a later question.
Answer(a) ==
    /\ told' = [told EXCEPT
           ![a] = @ \cup {IF outcome[a] = "none" THEN "open" ELSE outcome[a]}]
    /\ UNCHANGED <<carriedOut, outcome>>

Next ==
    \/ CarryOut
    \/ \E a \in Actions : ComeTo(a, "complete") \/ ComeTo(a, "failed") \/ Answer(a)

Spec == Init /\ [][Next]_vars
=============================================================================
