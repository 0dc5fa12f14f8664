--------------------------- MODULE MCScimListing ----------------------------
(***************************************************************************)
(* Instances of ScimListing for TLC: pages of two entries, six entries at  *)
(* the start, so that one more makes a fourth page, and the pages may be   *)
(* older and younger by turns; two fewer end at the edge of a page.  Users *)
(* are listed through the cache, which the bound on what is missed needs   *)
(* new entries to come last for; groups without it, new entries coming     *)
(* anywhere.                                                               *)
(***************************************************************************)
EXTENDS ScimListing

MCInitialPos == [x \in Ids |-> IF x <= 6 THEN x ELSE 0]

MCConfigs == {[listing |-> "users", cached |-> TRUE, appendOnly |-> TRUE],
              [listing |-> "groups", cached |-> FALSE, appendOnly |-> FALSE]}
=============================================================================
