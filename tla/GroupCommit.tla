----------------------------- MODULE GroupCommit -----------------------------
(***************************************************************************)
(* What the log of log.c promises about admission, without its sleeping    *)
(* processes, its blocks and its disk: which system calls are between      *)
(* begin_op and end_op, how many log slots they have taken, and when the   *)
(* group they form is committed.  LogAdmission.tla (the sleep/wakeup       *)
(* detail) and Log.tla (the disk and crash detail) both implement it.      *)
(***************************************************************************)
EXTENDS LogParams

VARIABLES
  active,      \* processes between begin_op and end_op; log.outstanding many
  used,        \* used[p]: slots appended to the log header by p's current call
  n,           \* log.lh.n
  committing   \* log.committing, and also the boot-time recovery

gcvars == <<active, used, n, committing>>

GroupTypeOK ==
  /\ active \in SUBSET Procs
  /\ used \in [Procs -> 0..OpBlocks]
  /\ n \in 0..Cap
  /\ committing \in BOOLEAN

Init ==
  /\ active = {}
  /\ used = [p \in Procs |-> 0]
  /\ n = 0
  /\ committing \in BOOLEAN

Begin(p) ==
  /\ p \notin active
  /\ ~committing
  /\ n + (Cardinality(active) + 1) * MaxOpBlocks <= Cap
  /\ active' = active \cup {p}
  /\ UNCHANGED <<used, n, committing>>

\* A log_write that passes the size check and takes a slot of its own; one
\* that is absorbed changes nothing here.
Append1(p) ==
  /\ p \in active
  /\ n < Cap
  /\ used[p] < OpBlocks
  /\ n' = n + 1
  /\ used' = [used EXCEPT ![p] = @ + 1]
  /\ UNCHANGED <<active, committing>>

\* The last system call of the group starts the commit.
End(p) ==
  /\ p \in active
  /\ active' = active \ {p}
  /\ used' = [used EXCEPT ![p] = 0]
  /\ committing' = (active = {p})
  /\ UNCHANGED n

\* Inside commit() or recover_from_log() the header may be reloaded or
\* cleared; it is empty when log.committing is reset.
Commit ==
  /\ committing
  /\ n' \in 0..Cap
  /\ committing' \in BOOLEAN
  /\ ~committing' => n' = 0
  /\ UNCHANGED <<active, used>>

\* Power loss and reboot: the in-memory log starts again from zero.
Crash ==
  /\ active' = {}
  /\ used' = [p \in Procs |-> 0]
  /\ n' = 0
  /\ committing' = TRUE

Next ==
  \/ \E p \in Procs : Begin(p) \/ Append1(p) \/ End(p)
  \/ Commit
  \/ Crash

Spec == Init /\ [][Next]_gcvars

-----------------------------------------------------------------------------
(* log.c:11 "The logging system only commits when there are no FS system    *)
(* calls active": while log.committing is set no process is between         *)
(* begin_op and end_op.                                                     *)
CommitExcludesCalls == committing => active = {}

\* The slots begin_op reserved that their owners have not taken yet.
UnspentOf(A, u) == {r \in A \X (1..MaxOpBlocks) : u[r[1]] < r[2]}
Unspent == UnspentOf(active, used)

(* The inductive form of begin_op's space test: the slots taken and the     *)
(* slots still reserved fit into the log together.                          *)
ReservationsFit == n + Cardinality(Unspent) <= Cap

(* log_write's size check, made without log.lock, never panics: as long as  *)
(* calls log fewer blocks than begin_op reserves for them, every active     *)
(* call finds a free slot, whatever the other active calls have taken.      *)
RoomForActive == (OpBlocks < MaxOpBlocks /\ active # {}) => n < Cap
=============================================================================
