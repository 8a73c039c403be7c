-------------------------- MODULE MCAndroidBuilds --------------------------
(***************************************************************************)
(* AndroidBuilds for TLC.                                                  *)
(***************************************************************************)
EXTENDS AndroidBuilds, TLC
=============================================================================
