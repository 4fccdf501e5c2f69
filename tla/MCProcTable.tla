----------------------------- MODULE MCProcTable -----------------------------
(* ProcTable on a small table. *)
EXTENDS ProcTable
=============================================================================
