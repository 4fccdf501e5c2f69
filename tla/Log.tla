--------------------------------- MODULE Log ---------------------------------
(***************************************************************************)
(* The checksummed redo log of log.c with its disk, its cached blocks and  *)
(* power loss: every bwrite of commit() and recover_from_log() is a step   *)
(* of its own, and Crash may come between any two of them.  begin_op's     *)
(* sleep loop is a guard here; LogAdmission.tla has its detail.  Slots are *)
(* numbered from 1: slot i is disk block log.start+1+i.                    *)
(***************************************************************************)
EXTENDS Integers, Sequences, FiniteSets, Functions

CONSTANTS
  Procs, LogSize, MaxOpBlocks, OpBlocks,   \* as in GroupCommit
  Home,        \* block numbers of home (non-log) blocks
  Data,        \* block contents
  Zero,        \* the content of a block of zeros, which mkfs writes
  DataWeight,  \* DataWeight[d]: the sum of (j+1)*d[j] over d's bytes
  BSize,       \* BSIZE
  LossyDisk    \* whether a write of a log block may fail unnoticed

ASSUME LogAssumption ==
  /\ IsFiniteSet(Procs)
  /\ LogSize \in Nat /\ MaxOpBlocks \in Nat /\ OpBlocks \in Nat
  /\ OpBlocks < MaxOpBlocks /\ MaxOpBlocks <= LogSize - 2
  /\ BSize \in Nat \ {0}
  /\ Home \subseteq Nat \ {0}
  /\ Zero \in Data
  /\ DataWeight \in [Data -> Nat] /\ DataWeight[Zero] = 0
  /\ LossyDisk \in BOOLEAN

VARIABLES
  dHome, dLog, dHead, dSum,  \* the disk: home blocks, slots, header, checksum
  cHome, cLog,               \* what bread returns for home blocks and slots
  lh,                        \* log.lh: the block numbers logged, lh.n = Len(lh)
  checksum,                  \* log.checksum
  active, used,              \* calls between begin_op and end_op, their slots
  phase, tail,               \* where commit() or recover_from_log() is
  stable, skipped, lost      \* history: the committed contents; whether a boot
                             \* refused a non-empty log; whether a write failed

disk == <<dHome, dLog, dHead, dSum>>
calls == <<active, used>>
history == <<stable, skipped, lost>>
vars == <<disk, cHome, cLog, lh, checksum, calls, phase, tail, history>>

Cap == LogSize - 2
Slots == 1..Cap

\* struct logheader as a disk block: block[] keeps old entries beyond n.
Header == [n : 0..Cap, block : [1..LogSize -> Nat]]

Phases == {"run", "commit", "write_log", "check_checksum", "write_head",
           "install", "recover", "panic"}

\* Mutant: log_write's absorption loop stops one entry early.
LoggedBlocks_short == {lh[i] : i \in 1..(Len(lh) - 1)}

LoggedBlocks == {lh[i] : i \in 1..Len(lh)}

Distinct(s) == \A i, j \in 1..Len(s) : s[i] = s[j] => i = j

LogTypeOK ==
  /\ dHome \in [Home -> Data] /\ cHome \in [Home -> Data]
  /\ dLog \in [Slots -> Data] /\ cLog \in [Slots -> Data]
  /\ dHead \in Header
  /\ lh \in Seq(Home) /\ Len(lh) <= Cap
  /\ active \in SUBSET Procs
  /\ used \in [Procs -> 0..OpBlocks]
  /\ phase \in Phases
  /\ tail \in 1..(Cap + 1)
  /\ stable \in [Home -> Data]
  /\ skipped \in BOOLEAN /\ lost \in BOOLEAN

-----------------------------------------------------------------------------
(* Checksums *)

\* Byte k of a 32-bit word, and the word's weight at byte offset off.
Byte(x, k) == (x \div 256^k) % 256
WordWeight(off, x) == SumFunction([k \in 0..3 |-> (off + k + 1) * Byte(x, k)])

HeaderWeight(h) ==
  WordWeight(0, h.n)
  + SumFunction([i \in 1..LogSize |-> WordWeight(4 * i, h.block[i])])

\* Block i of the log counted from the header, which is block 0.  The sums of
\* write_checksum and check_checksum start at log.start+1, the header, and so
\* end one slot before the last one.
LogBlockWeight(i) == IF i = 0 THEN HeaderWeight(dHead) ELSE DataWeight[cLog[i]]
CommitSum ==
  SumFunction([i \in 0..(Len(lh) - 1) |-> LogBlockWeight(i)]) % BSize

\* recover_from_log's sum, made before read_head: it runs over the slots of the
\* in-memory header.
RecoverySum ==
  SumFunction([i \in 1..Len(lh) |-> DataWeight[cLog[i]]]) % BSize

\* Mutant: only the low byte of the sum is stored.
SumBytes_low(s) == [k \in 0..3 |-> IF k = 0 THEN Byte(s, 0) ELSE 0]

\* The checksum block holds the four bytes of the sum, lowest first.
SumBytes(s) == [k \in 0..3 |-> Byte(s, k)]
SumOf(b) == b[0] + b[1] * 256 + b[2] * 65536 + b[3] * 16777216

-----------------------------------------------------------------------------
(* The in-memory state after power is restored, and a fresh image *)

\* bss is zero, the buffer cache is empty: bread returns what is on disk.
Init ==
  /\ dHome \in [Home -> Data]
  /\ dLog = [i \in Slots |-> Zero]
  /\ dHead = [n |-> 0, block |-> [i \in 1..LogSize |-> 0]]
  /\ dSum = SumBytes(0)
  /\ cHome = dHome /\ cLog = dLog
  /\ lh = <<>> /\ checksum = 0
  /\ active = {} /\ used = [p \in Procs |-> 0]
  /\ phase = "recover" /\ tail = 1
  /\ stable = dHome /\ skipped = FALSE /\ lost = FALSE

Crash ==
  /\ cHome' = dHome /\ cLog' = dLog
  /\ lh' = <<>> /\ checksum' = 0
  /\ active' = {} /\ used' = [p \in Procs |-> 0]
  /\ phase' = "recover" /\ tail' = 1
  /\ UNCHANGED <<disk, history>>

\* A clean buffer is recycled by bget; the next bread goes to the disk.
Evict(i) ==
  /\ cLog[i] # dLog[i]
  /\ cLog' = [cLog EXCEPT ![i] = dLog[i]]
  /\ UNCHANGED <<disk, cHome, lh, checksum, calls, phase, tail, history>>

-----------------------------------------------------------------------------
(* System calls *)

begin_op(p) ==
  /\ phase = "run"
  /\ p \notin active
  /\ Len(lh) + (Cardinality(active) + 1) * MaxOpBlocks <= Cap
  /\ active' = active \cup {p}
  /\ UNCHANGED <<disk, cHome, cLog, lh, checksum, used, phase, tail, history>>

\* Mutant: the block is written to its home at once (bwrite for log_write).
log_write_through(p, b, d) ==
  /\ phase = "run" /\ p \in active
  /\ b \in LoggedBlocks \/ used[p] < OpBlocks
  /\ cHome' = [cHome EXCEPT ![b] = d]
  /\ dHome' = [dHome EXCEPT ![b] = d]
  /\ lh' = IF b \in LoggedBlocks \/ Len(lh) >= Cap THEN lh ELSE Append(lh, b)
  /\ used' = IF lh' = lh THEN used ELSE [used EXCEPT ![p] = @ + 1]
  /\ UNCHANGED <<dLog, dHead, dSum, cLog, checksum, active, phase, tail, history>>

\* A call changes a cached block and passes it to log_write, which absorbs a
\* block that is logged already and appends a new one.
log_write(p, b, d) ==
  /\ phase = "run"
  /\ p \in active
  /\ b \in LoggedBlocks \/ used[p] < OpBlocks
  /\ phase' = IF Len(lh) >= Cap THEN "panic" ELSE "run"
  /\ cHome' = [cHome EXCEPT ![b] = d]
  /\ lh' = IF b \in LoggedBlocks \/ Len(lh) >= Cap THEN lh ELSE Append(lh, b)
  /\ used' = IF lh' = lh THEN used ELSE [used EXCEPT ![p] = @ + 1]
  /\ UNCHANGED <<disk, cLog, checksum, active, tail, history>>

\* Mutant: every end_op commits, whoever is still active.
end_op_eager(p) ==
  /\ phase = "run" /\ p \in active
  /\ active' = active \ {p}
  /\ used' = [used EXCEPT ![p] = 0]
  /\ phase' = "commit"
  /\ UNCHANGED <<disk, cHome, cLog, lh, checksum, tail, history>>

\* The last call of the group sets log.committing and calls commit().
end_op(p) ==
  /\ phase = "run"
  /\ p \in active
  /\ active' = active \ {p}
  /\ used' = [used EXCEPT ![p] = 0]
  /\ phase' = IF active = {p} THEN "commit" ELSE "run"
  /\ UNCHANGED <<disk, cHome, cLog, lh, checksum, tail, history>>

-----------------------------------------------------------------------------
(* commit() *)

commit ==
  /\ phase = "commit"
  /\ phase' = IF lh = <<>> THEN "run" ELSE "write_log"
  /\ tail' = 1
  /\ UNCHANGED <<disk, cHome, cLog, lh, checksum, calls, history>>

\* One bwrite of write_log.  ideintr ignores the status of a write, so a
\* failed one leaves the old slot on disk and the new one in the cache.
write_log ==
  /\ phase = "write_log" /\ tail <= Len(lh)
  /\ cLog' = [cLog EXCEPT ![tail] = cHome[lh[tail]]]
  /\ \/ dLog' = [dLog EXCEPT ![tail] = cHome[lh[tail]]] /\ UNCHANGED lost
     \/ LossyDisk /\ lost' = TRUE /\ UNCHANGED dLog
  /\ tail' = tail + 1
  /\ UNCHANGED <<dHome, dHead, dSum, cHome, lh, checksum, calls, phase, stable,
                 skipped>>

write_checksum ==
  /\ phase = "write_log" /\ tail > Len(lh)
  /\ checksum' = CommitSum
  /\ dSum' = SumBytes(CommitSum)
  /\ phase' = "check_checksum"
  /\ UNCHANGED <<dHome, dLog, dHead, cHome, cLog, lh, calls, tail, history>>

\* Mutant: the check sums the slots and not the blocks write_checksum summed.
check_checksum_slots ==
  /\ phase = "check_checksum"
  /\ phase' = IF checksum = RecoverySum THEN "write_head" ELSE "panic"
  /\ UNCHANGED <<disk, cHome, cLog, lh, checksum, calls, tail, history>>

check_checksum ==
  /\ phase = "check_checksum"
  /\ phase' = IF checksum = CommitSum THEN "write_head" ELSE "panic"
  /\ UNCHANGED <<disk, cHome, cLog, lh, checksum, calls, tail, history>>

\* Mutant: the count on disk is one too large.
HeadWith_long(s) ==
  [n |-> Len(s) + 1,
   block |-> [i \in 1..LogSize |-> IF i <= Len(s) THEN s[i] ELSE dHead.block[i]]]

\* The header block after write_head for in-memory header s.
HeadWith(s) ==
  [n |-> Len(s),
   block |-> [i \in 1..LogSize |-> IF i <= Len(s) THEN s[i] ELSE dHead.block[i]]]

\* The commit point.
write_head ==
  /\ phase = "write_head"
  /\ dHead' = HeadWith(lh)
  /\ stable' = cHome
  /\ phase' = "install" /\ tail' = 1
  /\ UNCHANGED <<dHome, dLog, dSum, cHome, cLog, lh, checksum, calls, skipped,
                 lost>>

\* One bwrite of install_trans, in commit() and in recover_from_log().
install_trans ==
  /\ phase = "install" /\ tail <= Len(lh)
  /\ cHome' = [cHome EXCEPT ![lh[tail]] = cLog[tail]]
  /\ dHome' = [dHome EXCEPT ![lh[tail]] = cLog[tail]]
  /\ tail' = tail + 1
  /\ UNCHANGED <<dLog, dHead, dSum, cLog, lh, checksum, calls, phase, history>>

\* Mutant: the log is cleared before its last block is installed.
clear_log_early ==
  /\ phase = "install" /\ tail >= Len(lh)
  /\ lh' = <<>>
  /\ dHead' = HeadWith(<<>>)
  /\ phase' = "run" /\ tail' = 1
  /\ UNCHANGED <<dHome, dLog, dSum, cHome, cLog, checksum, calls, history>>

\* log.lh.n = 0; write_head(), after which new calls are admitted.
clear_log ==
  /\ phase = "install" /\ tail > Len(lh)
  /\ lh' = <<>>
  /\ dHead' = HeadWith(<<>>)
  /\ phase' = "run" /\ tail' = 1
  /\ UNCHANGED <<dHome, dLog, dSum, cHome, cLog, checksum, calls, history>>

\* The test of recover_from_log and, if it succeeds, read_head.
recover_from_log ==
  /\ phase = "recover"
  /\ IF SumOf(dSum) = RecoverySum
     THEN /\ lh' = [i \in 1..dHead.n |-> dHead.block[i]]
          /\ phase' = "install"
          /\ UNCHANGED skipped
     ELSE /\ phase' = "run"
          /\ skipped' = (skipped \/ dHead.n > 0)
          /\ UNCHANGED lh
  /\ tail' = 1
  /\ UNCHANGED <<disk, cHome, cLog, checksum, calls, stable, lost>>

Commit == commit \/ write_log \/ write_checksum \/ check_checksum
          \/ write_head \/ install_trans \/ clear_log

Next ==
  \/ \E p \in Procs : begin_op(p) \/ end_op(p)
  \/ \E p \in Procs, b \in Home, d \in Data : log_write(p, b, d)
  \/ Commit
  \/ recover_from_log
  \/ \E i \in Slots : Evict(i)
  \/ Crash

Spec == Init /\ [][Next]_vars

-----------------------------------------------------------------------------
(* Properties.  "Sound" excludes what the two history flags record: a boot  *)
(* that refused a non-empty log, and a write that the disk lost.            *)
Sound == ~skipped /\ ~lost

(* At every moment, also between any two disk writes of commit() or of      *)
(* recover_from_log(), copying the slots named by the on-disk header to     *)
(* their home blocks yields exactly the last committed contents.            *)
Recoverable ==
  Sound =>
    /\ \A i \in 1..dHead.n : dLog[i] = stable[dHead.block[i]]
    /\ \A b \in Home :
         (\A i \in 1..dHead.n : dHead.block[i] # b) => dHome[b] = stable[b]

(* Until write_head commits a transaction, none of its updates is in a home *)
(* block on disk; and when the system has no transaction open, what calls   *)
(* read from the cache is the committed state.                              *)
NoUncommittedHome ==
  Sound =>
    /\ phase \in {"run", "commit", "write_log", "check_checksum", "write_head"}
         => dHome = stable
    /\ phase = "run" /\ lh = <<>> => cHome = stable

(* log_write's pinning: a cached home block that differs from the disk is in *)
(* the log header, so install_trans will write it and bget may not recycle   *)
(* it before that.                                                           *)
DirtyIsLogged == \A b \in Home : cHome[b] # dHome[b] => b \in LoggedBlocks

(* Log absorption: no home block takes two slots, so install_trans writes    *)
(* each home block once.                                                     *)
Absorbed == Distinct(lh)

(* The four bytes of the checksum block read back as log.checksum.           *)
DiskSumIsChecksum == phase = "check_checksum" => SumOf(dSum) = checksum

(* What a commit stores is exact: one slot for each block, however often and *)
(* by whichever calls it was logged, and a checksum that survives its way    *)
(* through single bytes.                                                     *)
LogExact == Absorbed /\ DiskSumIsChecksum

(* check_checksum and the size check of log_write never stop the kernel      *)
(* unless the disk really lost a write.                                      *)
NoFalseAlarm == phase = "panic" => lost

(* log.c:109-111 calls write_head "the true point at which the current       *)
(* transaction commits": whenever the system runs with no transaction open,  *)
(* after a commit or after a reboot, the home blocks hold what was committed.*)
CommittedSurvivesCrash == phase = "run" /\ lh = <<>> => lost \/ dHome = stable

(* README.md:10, on a mismatch the log will "prevent an incorrect data       *)
(* write": when check_checksum lets a commit go on, every slot it can read   *)
(* holds the content that was logged.                                        *)
ChecksumGuardsInstall ==
  [][phase = "check_checksum" /\ phase' = "write_head" =>
       \A i \in 1..Len(lh) : cLog[i] = cHome[lh[i]]]_vars

(* The log with its disk implements the admission protocol, across crashes.  *)
GC == INSTANCE GroupCommit WITH n <- Len(lh), committing <- (phase # "run")
GroupCommitSpec == GC!Spec
=============================================================================
