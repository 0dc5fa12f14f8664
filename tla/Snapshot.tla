------------------------------ MODULE Snapshot ------------------------------
(***************************************************************************)
(* What C1 may rely on of what a sync brings, though Slack changes while   *)
(* its lists are read: nothing that was not so at some moment of the sync, *)
(* and, when the sync is done, all that was so during the whole of it.     *)
(* What began or ended meanwhile may be there or not.                      *)
(*                                                                         *)
(* Pages, calls, phases and checkpoints are no business of this module.    *)
(***************************************************************************)
CONSTANT Facts

VARIABLES
    facts,      \* what is so now
    untouched,  \* what has been so ever since the sync began
    stored,     \* what the sync has put in its store
    done        \* the sync has come to its end

vars == <<facts, untouched, stored, done>>

Init ==
    /\ facts \in SUBSET Facts
    /\ untouched = facts
    /\ stored = {}
    /\ done = FALSE

\* Facts begin and end, whatever the sync does.
Change ==
    /\ facts' \in SUBSET Facts
    /\ untouched' = untouched \cap facts'
    /\ UNCHANGED <<stored, done>>

\* The sync stores some of what is so now, and may end with that.
Copy ==
    /\ ~done
    /\ stored \subseteq stored'
    /\ stored' \subseteq stored \cup facts
    /\ done' \in BOOLEAN
    /\ done' => untouched \subseteq stored'
    /\ UNCHANGED <<facts, untouched>>

\* A crash takes the sync back; what was stored stays.
GoBack ==
    /\ done
    /\ done' = FALSE
    /\ UNCHANGED <<facts, untouched, stored>>

Next == Change \/ Copy \/ GoBack

Spec == Init /\ [][Next]_vars
=============================================================================
