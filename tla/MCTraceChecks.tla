---------------------------- MODULE MCTraceChecks ----------------------------
(* A small instance of TraceChecks for TLC. *)
EXTENDS TraceChecks

CONSTANTS a, b, c

SomeScopes == {{}, {a}, {b, c}}
=============================================================================
