------------------------ MODULE MCWorkspaceBootstrap ------------------------
(***************************************************************************)
(* WorkspaceBootstrap for TLC.                                             *)
(***************************************************************************)
EXTENDS WorkspaceBootstrap, TLC
=============================================================================
