------------------------- MODULE MCWorkspaceAccess --------------------------
(***************************************************************************)
(* Instances of WorkspaceAccess for TLC: one user, of any standing, and    *)
(* one principal that is no user.  No step touches the standing of a       *)
(* second user, so that one is enough; the workers are interchangeable.    *)
(***************************************************************************)
EXTENDS WorkspaceAccess, TLC

WorkerSymmetry == Permutations(Workers)
=============================================================================
