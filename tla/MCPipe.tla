------------------------------- MODULE MCPipe -------------------------------
(* Pipe on a ring of two bytes with counters that wrap after two rounds. *)
EXTENDS Pipe

CONSTANTS a, b

MCByte == {a, b}
MCMessages == {<<a, b, b>>}
=============================================================================
