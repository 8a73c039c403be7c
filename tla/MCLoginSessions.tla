-------------------------- MODULE MCLoginSessions --------------------------
(***************************************************************************)
(* LoginSessions for TLC.                                                  *)
(***************************************************************************)
EXTENDS LoginSessions, TLC
=============================================================================
