----------------------- MODULE MCEnterpriseRoleSync -------------------------
(***************************************************************************)
(* Instances of EnterpriseRoleSync for TLC: four assignments, two of them  *)
(* of the same role, on different pages, and one of a role the connector   *)
(* does not know.                                                          *)
(***************************************************************************)
EXTENDS EnterpriseRoleSync

MCRoleAt == <<"Rl01", "Rl02", "Rl01", "Rl99">>
=============================================================================
