----------------------------- MODULE MCAccounts -----------------------------
(***************************************************************************)
(* Instance of Accounts for TLC: an action and two creations, for one      *)
(* workspace or two, meet on the account of one person, who may have one   *)
(* at the start, in some of the workspaces; an administrator edits it and  *)
(* moves the person in between.                                            *)
(***************************************************************************)
EXTENDS Accounts

MCInitialAccounts == {"none", "active"}
=============================================================================
