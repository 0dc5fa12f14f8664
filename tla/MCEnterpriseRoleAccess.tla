---------------------- MODULE MCEnterpriseRoleAccess ------------------------
(***************************************************************************)
(* Instances of EnterpriseRoleAccess for TLC: no step of one user's task   *)
(* reads or writes anything of another user, so that one user is enough.   *)
(***************************************************************************)
EXTENDS EnterpriseRoleAccess, TLC

WorkerSymmetry == Permutations(Workers)
=============================================================================
