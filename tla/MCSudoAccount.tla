--------------------------- MODULE MCSudoAccount ---------------------------
(* Instances of SudoAccount for TLC. *)
EXTENDS SudoAccount

CONSTANTS c1, c2, c3
=============================================================================
