---------------------------- MODULE MCBufferCache ----------------------------
(* BufferCache with fewer buffers than blocks.  The first block is one under  *)
(* which others are asked for, as under an indirect block or a slot of the    *)
(* log.                                                                       *)
EXTENDS BufferCache, TLC

CONSTANTS Locals, k1, k2, k3

MCPtrs == Procs \X Locals
MCBlocks == {k1, k2, k3}
MCNested == {k1} \X {k2, k3}
Symmetry == Permutations(Procs) \cup Permutations({k2, k3}) \cup Permutations(Locals)
=============================================================================
