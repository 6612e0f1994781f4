---------------------------- MODULE MCPerfRunner ----------------------------
(* Instances of PerfRunner for TLC. *)
EXTENDS PerfRunner

CONSTANTS th1, th2
=============================================================================
