-------------------------- MODULE MCWorkspaceSync ---------------------------
(***************************************************************************)
(* Instance of WorkspaceSync for TLC: two workspaces on two pages, each    *)
(* with two users on two pages, and a user group of the second workspace.  *)
(***************************************************************************)
EXTENDS WorkspaceSync

MCGroups == {1}
MCTeamOf == <<2>>
MCInitialTeams == {{1, 2}}
MCInitialUsers == {<<"stranger", "guest">>}
MCInitialMembers == {{1}}
=============================================================================
