------------------------------ MODULE LogParams ------------------------------
(* The parameters of the log's admission protocol. *)
EXTENDS Integers, FiniteSets

CONSTANTS
  Procs,        \* processes that make FS system calls
  LogSize,      \* log.size: checksum block, header block and the data blocks
  MaxOpBlocks,  \* MAXOPBLOCKS, the slots begin_op reserves for a system call
  OpBlocks      \* the most distinct blocks a system call really logs

ASSUME GroupCommitAssumption ==
  /\ IsFiniteSet(Procs)
  /\ LogSize \in Nat /\ MaxOpBlocks \in Nat /\ OpBlocks \in Nat
  /\ OpBlocks <= MaxOpBlocks
  /\ MaxOpBlocks <= LogSize - 2

\* The data slots: the checksum and the header take one block each.
Cap == LogSize - 2
=============================================================================
