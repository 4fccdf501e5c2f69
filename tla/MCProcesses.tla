---------------------------- MODULE MCProcesses ----------------------------
(***************************************************************************)
(* What processes live on: processors (Scheduler), pages (Memory), the     *)
(* heap (Umalloc) and the terminal (Terminal).  part says of which a       *)
(* behaviour is; the others stay as they start, so the run has the sum of  *)
(* their states.                                                           *)
(*                                                                         *)
(* Memory has four programs: one that can be executed, one whose second    *)
(* segment is not page aligned, which exec finds out after allocating for  *)
(* it, one that reaches KERNBASE, and one whose end wraps around.          *)
(***************************************************************************)
EXTENDS Scheduler

CONSTANTS
  TermProcs, MAXARGS, NOFILE, NPIPE, INPUT_BUF, InputWrap, nbuf, CatBuf, Keys, MaxKeys, MaxFaults, \* of Terminal
  MemProcs, NPAGES, PGSIZE, NPTENTRIES, KTABLES, KERNBASE, ArgSizes, \* of Memory
  Requests, HeaderSize, MoreUnits, TOP                              \* of Umalloc

VARIABLES
  part,
  buf, r, w, e, tproc, count, typed, faults, tpanic,
  free, data, mproc, cur, txn, mpanic,
  heap, live, holes

tvars == <<buf, r, w, e, tproc, count, typed, faults, tpanic>>
mvars == <<free, data, mproc, cur, txn, mpanic>>
hvars == <<heap, live, holes>>

MCLines == {
  <<"w", "|", "w">>,
  <<"w", "&", ";", "w">>,
  <<"w", "<", "w", ">", "w">>,
  <<"w", "|", ")">>}

Segment(a, m, f) == [vaddr |-> a, memsz |-> m, filesz |-> f]
MCSteps == {3, -3}
MCImages == {<<Segment(0, 2, 1)>>, <<Segment(0, 2, 2), Segment(3, 1, 1)>>,
             <<Segment(0, 10, 1)>>, <<Segment(8, 13, 1)>>}

Term == INSTANCE Terminal WITH
  NPROC <- TermProcs, Wrap <- InputWrap, Lines <- MCLines, proc <- tproc, panic <- tpanic
Mem == INSTANCE Memory WITH
  NPROC <- MemProcs, Images <- MCImages, Steps <- MCSteps, proc <- mproc, panic <- mpanic

Heap == INSTANCE Umalloc

ASSUME PartsAssumption ==
  Term!TerminalAssumption /\ Mem!MemoryAssumption /\ Heap!HeapAssumption

\* Only the part that moves tells states apart.  Cells of the ring outside r..e,
\* headers of no block, and the pointer of a block in use are not read before
\* they are written.
View ==
  CASE part = "scheduler" -> <<part, vars>>
    [] part = "memory" -> <<part, mvars>>
    [] part = "heap" ->
         <<part, [a \in Heap!FreeList |-> heap.ptr[a]],
           [a \in Heap!FreeList \cup DOMAIN live |-> heap.size[a]],
           heap.freep, heap.brk, live, holes>>
    [] part = "terminal" ->
         <<part, r, Term!Between(r, w), Term!Between(w, e), tproc, count, typed, faults, tpanic>>

MCInit ==
  /\ part \in {"scheduler", "memory", "heap", "terminal"}
  /\ Init /\ Term!Init /\ Mem!Init /\ Heap!Init
MCNext ==
  \/ part = "scheduler" /\ Next /\ UNCHANGED <<part, tvars, mvars, hvars>>
  \/ part = "memory" /\ Mem!Next /\ UNCHANGED <<part, vars, tvars, hvars>>
  \/ part = "heap" /\ Heap!Next /\ UNCHANGED <<part, vars, tvars, mvars>>
  \/ part = "terminal" /\ Term!Next /\ UNCHANGED <<part, vars, mvars, hvars>>
\* A session may stop, when no more keys are typed; the other parts may not.
MCStopped == part = "terminal" /\ UNCHANGED <<part, vars, tvars, mvars, hvars>>
MCSpec == MCInit /\ [][MCNext \/ MCStopped]_<<part, vars, tvars, mvars, hvars>>

-----------------------------------------------------------------------------
(* The properties of the parts that are instantiated; those of Scheduler go  *)
(* by their own names.                                                       *)

\* consoleread sleeps only while no line is ready.
ReaderAwake == part = "terminal" => Term!ReaderAwake
\* The shell does what a line says, with no descriptor and no child too many,
\* and no process it starts hangs.
ShellSound == part = "terminal" => Term!ShellSound
\* The console's ring is a queue of finished lines and a line that is edited.
LineInputSpec == Term!LineInputSpec
\* At every page fork, sbrk and exec can fail at, each page is free or has one
\* owner, a process in user mode has its image, and exec leaves its transaction.
MemorySound == part = "memory" => Mem!MemorySound
\* fork gives the child a copy of its parent's memory.
ChildIsCopy == [][part = "memory" => Mem!ChildCopied]_mvars
\* malloc and free divide the heap without loss or overlap.
HeapSound == part = "heap" => Heap!HeapSound
=============================================================================
