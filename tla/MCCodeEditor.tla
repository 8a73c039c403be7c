---------------------------- MODULE MCCodeEditor ----------------------------
(***************************************************************************)
(* CodeEditor for TLC.                                                     *)
(***************************************************************************)
EXTENDS CodeEditor, TLC
=============================================================================
