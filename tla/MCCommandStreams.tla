-------------------------- MODULE MCCommandStreams --------------------------
(***************************************************************************)
(* Symmetry for the TLC runs of CommandStreams.                            *)
(***************************************************************************)
EXTENDS CommandStreams, TLC

(* The calls are interchangeable.  Used by the safety run only.            *)
Symmetry == Permutations(Requests)
=============================================================================
