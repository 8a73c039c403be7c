---------------------------- MODULE MCLabPlatform ----------------------------
(***************************************************************************)
(* LabPlatform for TLC.                                                    *)
(***************************************************************************)
EXTENDS LabPlatform, TLC

\* Session ids and request slots are interchangeable.
Symmetry == Permutations(Sessions) \cup Permutations(Requests)
=============================================================================
