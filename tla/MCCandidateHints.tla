-------------------------- MODULE MCCandidateHints --------------------------
(* An instance of CandidateHints for TLC. *)
EXTENDS CandidateHints, TLC

CONSTANTS a, b, c, f

Loop == (a :> 0) @@ (b :> 1) @@ (c :> 2)
=============================================================================
