---------------------------- MODULE MCUserGroup -----------------------------
(***************************************************************************)
(* Instances of UserGroup for TLC: two of the three users are members at   *)
(* the start.                                                              *)
(***************************************************************************)
EXTENDS UserGroup

CONSTANTS u1, u2

MCInitialMembers == {u1, u2}
=============================================================================
