------------------------------ MODULE LogProofs ------------------------------
(***************************************************************************)
(* Theorems about Log: it implements GroupCommit, and its invariants, for  *)
(* any processes, blocks, contents, log size and checksum weights.  What   *)
(* the checksums evaluate to is never used: the proofs treat CommitSum and *)
(* RecoverySum as unknown values.  The two arguments need each other: the  *)
(* disk invariant uses that log_write finds room, which GroupCommit gives, *)
(* and a step implements GroupCommit because of the disk invariant.        *)
(***************************************************************************)
EXTENDS Log, TLAPS

\* The on-disk header names distinct home blocks.
HeadOK ==
  /\ \A i \in 1..dHead.n : dHead.block[i] \in Home
  /\ \A i, j \in 1..dHead.n : dHead.block[i] = dHead.block[j] => i = j

\* Without a lost write the cached slots are the slots on disk.
CacheOK == ~lost => cLog = dLog

BootOK == phase = "recover" => lh = <<>> /\ active = {} /\ cHome = dHome

\* Nothing the sum depends on changes between write_checksum and its check.
SumOK == phase = "check_checksum" /\ ~lost => checksum = CommitSum

BeforeCommitPoint ==
  phase \in {"run", "commit", "write_log", "check_checksum", "write_head"}

\* Up to the commit point the header is clear and the home blocks are the
\* committed ones; the slots written so far hold what is in the cache.
CommitOK ==
  Sound =>
    /\ BeforeCommitPoint => dHead.n = 0 /\ dHome = stable
    /\ phase = "write_log" =>
         \A i \in 1..Len(lh) : i < tail => dLog[i] = cHome[lh[i]]
    /\ phase \in {"check_checksum", "write_head"} =>
         \A i \in 1..Len(lh) : dLog[i] = cHome[lh[i]]
    /\ phase = "install" =>
         dHead.n = Len(lh) /\ \A i \in 1..Len(lh) : dHead.block[i] = lh[i]

\* The blocks install_trans has copied agree in cache and on disk.
InstallOK ==
  phase = "install" =>
    \A i \in 1..Len(lh) : i < tail =>
      /\ cHome[lh[i]] = dHome[lh[i]]
      /\ Sound => dHome[lh[i]] = stable[lh[i]]

DiskInv ==
  /\ HeadOK /\ CacheOK /\ BootOK /\ SumOK /\ CommitOK /\ InstallOK
  /\ Recoverable /\ DirtyIsLogged /\ Absorbed /\ NoFalseAlarm

\* What the step lemmas use of the admission protocol.
AdmissionFacts ==
  /\ phase # "run" => active = {}
  /\ active # {} => Len(lh) < Cap

-----------------------------------------------------------------------------
(* Facts about headers and sums *)

(* The checksum of the log only depends on the header block, the cached      *)
(* slots and the number of logged blocks.                                    *)
LEMMA SumFrame ==
  ASSUME UNCHANGED <<lh, dHead, cLog>>
  PROVE  CommitSum' = CommitSum
BY DEF CommitSum, LogBlockWeight

(* Appending a block that is not logged keeps the header free of duplicates. *)
LEMMA AppendDistinct ==
  ASSUME NEW S, NEW s \in Seq(S), NEW e \in S, Distinct(s),
         \A i \in 1..Len(s) : s[i] # e
  PROVE  /\ Append(s, e) \in Seq(S) /\ Len(Append(s, e)) = Len(s) + 1
         /\ Distinct(Append(s, e))
         /\ \A i \in 1..Len(s) : Append(s, e)[i] = s[i]
         /\ Append(s, e)[Len(s) + 1] = e
BY DEF Distinct

(* write_head stores the in-memory header: its length and its first entries. *)
LEMMA HeadWithType ==
  ASSUME NEW s \in Seq(Home), Len(s) <= Cap, dHead \in Header
  PROVE  /\ HeadWith(s) \in Header
         /\ HeadWith(s).n = Len(s)
         /\ \A i \in 1..Len(s) : HeadWith(s).block[i] = s[i]
<1>1. Len(s) \in 0..Cap /\ 1..Len(s) \subseteq 1..LogSize
  BY LogAssumption DEF Cap
<1>2. \A i \in 1..Len(s) : s[i] \in Nat
  <2> TAKE i \in 1..Len(s)
  <2>1. s[i] \in Home
    OBVIOUS
  <2> QED BY <2>1, LogAssumption, ZenonT(30)
<1> DEFINE blk == [i \in 1..LogSize |->
                    IF i <= Len(s) THEN s[i] ELSE dHead.block[i]]
<1>3. blk \in [1..LogSize -> Nat]
  <2>1. dHead.block \in [1..LogSize -> Nat]
    BY DEF Header
  <2>2. ASSUME NEW i \in 1..LogSize PROVE blk[i] \in Nat
    <3>1. CASE i <= Len(s)
      BY <1>2, <3>1
    <3>2. CASE ~(i <= Len(s))
      BY <2>1, <3>2, ZenonT(30)
    <3> QED BY <3>1, <3>2
  <2> QED BY <2>2
<1>4. HeadWith(s) = [n |-> Len(s), block |-> blk]
  BY DEF HeadWith
<1>5. \A i \in 1..Len(s) : blk[i] = s[i]
  BY <1>1
<1> HIDE DEF blk
<1> QED BY <1>1, <1>3, <1>4, <1>5 DEF Header
-----------------------------------------------------------------------------
(* One lemma for each action *)

(* begin_op changes nothing on disk or in the log. *)
LEMMA TypedHeader == LogTypeOK => lh \in Seq(Home) /\ Len(lh) <= Cap
BY DEF LogTypeOK

LEMMA BeginStep ==
  ASSUME LogTypeOK, DiskInv, AdmissionFacts, NEW p \in Procs, begin_op(p)
  PROVE  LogTypeOK' /\ DiskInv'
<1> USE DEF begin_op, disk, history
<1>1. LogTypeOK'
  BY DEF LogTypeOK
<1>2. SumOK' /\ BootOK' /\ NoFalseAlarm'
  BY DEF SumOK, BootOK, NoFalseAlarm, DiskInv
<1>3. HeadOK' /\ CacheOK' /\ CommitOK' /\ InstallOK' /\ Recoverable'
  BY DEF DiskInv, HeadOK, CacheOK, CommitOK, InstallOK, Recoverable, Sound,
         BeforeCommitPoint
<1>4. DirtyIsLogged' /\ Absorbed'
  BY DEF DiskInv, DirtyIsLogged, Absorbed, LoggedBlocks, Distinct
<1> QED BY <1>1, <1>2, <1>3, <1>4 DEF DiskInv

(* log_write keeps the disk invariant: it finds room for the block, changes
   only the cached copy and puts the block into the header. *)
LEMMA WriteStep ==
  ASSUME LogTypeOK, DiskInv, AdmissionFacts,
         NEW p \in Procs, NEW b \in Home, NEW d \in Data, log_write(p, b, d)
  PROVE  LogTypeOK' /\ DiskInv'
<1> USE DEF log_write, disk, history
<1>1. Len(lh) < Cap /\ phase = "run" /\ phase' = "run" /\ lh \in Seq(Home)
      /\ cHome \in [Home -> Data] /\ Distinct(lh)
  BY LogAssumption
  DEF LogTypeOK, AdmissionFacts, DiskInv, Absorbed, Cap
<1>2. cHome' \in [Home -> Data] /\ cHome'[b] = d
      /\ \A c \in Home : c # b => cHome'[c] = cHome[c]
  BY <1>1
<1>3. /\ lh' \in Seq(Home) /\ Len(lh') <= Cap /\ Distinct(lh')
      /\ used' \in [Procs -> 0..OpBlocks]
      /\ \A c \in LoggedBlocks \cup {b} : c \in LoggedBlocks'
  <2>1. CASE b \in LoggedBlocks
    BY <1>1, <2>1 DEF LogTypeOK, LoggedBlocks
  <2>2. CASE b \notin LoggedBlocks
    <3>1. lh' = Append(lh, b) /\ used[p] < OpBlocks
      BY <1>1, <2>2, LogAssumption DEF Cap, LogTypeOK
    <3>2. /\ lh' \in Seq(Home) /\ Len(lh') = Len(lh) + 1 /\ Distinct(lh')
          /\ \A i \in 1..Len(lh) : lh'[i] = lh[i]
          /\ lh'[Len(lh) + 1] = b
      BY <1>1, <2>2, <3>1, AppendDistinct DEF LoggedBlocks
    <3>3. Len(lh') <= Cap
      BY <1>1, <3>2, LogAssumption DEF Cap
    <3>4. used' \in [Procs -> 0..OpBlocks]
      BY <3>1, <3>2, LogAssumption DEF LogTypeOK
    <3>5. \A c \in LoggedBlocks \cup {b} : c \in LoggedBlocks'
      BY <1>1, <3>2 DEF LoggedBlocks
    <3> QED BY <3>2, <3>3, <3>4, <3>5
  <2> QED BY <2>1, <2>2
<1>4. LogTypeOK'
  BY <1>1, <1>2, <1>3 DEF LogTypeOK, Phases
<1>5. DirtyIsLogged'
  BY <1>2, <1>3 DEF DiskInv, DirtyIsLogged
<1>6. HeadOK' /\ CacheOK' /\ Recoverable' /\ Absorbed'
  BY <1>3 DEF DiskInv, HeadOK, CacheOK, Recoverable, Sound, Absorbed
<1>7. BootOK' /\ SumOK' /\ InstallOK' /\ NoFalseAlarm'
  BY <1>1 DEF BootOK, SumOK, InstallOK, NoFalseAlarm
<1>8. CommitOK'
  BY <1>1 DEF DiskInv, CommitOK, Sound, BeforeCommitPoint
<1> QED BY <1>4, <1>5, <1>6, <1>7, <1>8 DEF DiskInv

(* end_op changes nothing on disk or in the log. *)
LEMMA EndStep ==
  ASSUME LogTypeOK, DiskInv, AdmissionFacts, NEW p \in Procs, end_op(p)
  PROVE  LogTypeOK' /\ DiskInv'
<1> USE DEF end_op, disk, history
<1>1. LogTypeOK'
  BY LogAssumption DEF LogTypeOK, Phases, Cap
<1>2. SumOK' /\ BootOK' /\ NoFalseAlarm' /\ InstallOK'
  BY DEF SumOK, BootOK, NoFalseAlarm, InstallOK
<1>3. HeadOK' /\ CacheOK' /\ CommitOK' /\ Recoverable'
  BY DEF DiskInv, HeadOK, CacheOK, CommitOK, Recoverable, Sound,
         BeforeCommitPoint
<1>4. DirtyIsLogged' /\ Absorbed'
  BY DEF DiskInv, DirtyIsLogged, Absorbed, LoggedBlocks, Distinct
<1> QED BY <1>1, <1>2, <1>3, <1>4 DEF DiskInv

(* commit() starts writing slots with a clear header on disk. *)
LEMMA CommitStep ==
  ASSUME LogTypeOK, DiskInv, commit
  PROVE  LogTypeOK' /\ DiskInv'
<1> USE DEF commit, disk, calls, history
<1>1. LogTypeOK'
  BY LogAssumption DEF LogTypeOK, Phases, Cap
<1>2. SumOK' /\ BootOK' /\ NoFalseAlarm' /\ InstallOK'
  BY DEF SumOK, BootOK, NoFalseAlarm, InstallOK
<1>3. HeadOK' /\ CacheOK' /\ Recoverable'
  BY DEF DiskInv, HeadOK, CacheOK, Recoverable, Sound
<1>4. DirtyIsLogged' /\ Absorbed'
  BY DEF DiskInv, DirtyIsLogged, Absorbed, LoggedBlocks, Distinct
<1>5. CommitOK'
  <2>1. BeforeCommitPoint /\ BeforeCommitPoint' /\ Len(lh) \in Nat
    BY DEF BeforeCommitPoint, LogTypeOK
  <2> QED BY <2>1 DEF DiskInv, CommitOK, Sound
<1> QED BY <1>1, <1>2, <1>3, <1>4, <1>5 DEF DiskInv

(* One bwrite of write_log stores the cached block in its slot. *)
LEMMA WriteLogStep ==
  ASSUME LogTypeOK, DiskInv, write_log
  PROVE  LogTypeOK' /\ DiskInv'
<1> USE DEF write_log, calls
<1>1. /\ lh \in Seq(Home) /\ tail \in 1..Len(lh) /\ tail \in Slots
      /\ lh[tail] \in Home /\ Len(lh) \in Nat /\ Len(lh) <= Cap
  BY LogAssumption DEF LogTypeOK, Slots, Cap
<1>2. cHome[lh[tail]] \in Data
  BY <1>1 DEF LogTypeOK
<1>3. LogTypeOK'
  <2>1. tail' \in 1..(Cap + 1)
    BY <1>1, LogAssumption DEF Cap
  <2>2. cLog' \in [Slots -> Data] /\ dLog' \in [Slots -> Data]
        /\ lost' \in BOOLEAN
    BY <1>1, <1>2, ZenonT(30) DEF LogTypeOK
  <2> QED BY <2>1, <2>2 DEF LogTypeOK
<1>4. HeadOK' /\ BootOK' /\ SumOK' /\ InstallOK' /\ NoFalseAlarm'
  BY DEF DiskInv, HeadOK, BootOK, SumOK, InstallOK, NoFalseAlarm
<1>5. CacheOK'
  BY DEF DiskInv, CacheOK, LogTypeOK
<1>6. DirtyIsLogged' /\ Absorbed'
  BY DEF DiskInv, DirtyIsLogged, Absorbed, LoggedBlocks, Distinct
<1>7. CommitOK' /\ Recoverable'
  <2> SUFFICES ASSUME Sound' PROVE CommitOK' /\ Recoverable'
    BY DEF CommitOK, Recoverable
  <2>1. Sound /\ dLog' = [dLog EXCEPT ![tail] = cHome[lh[tail]]]
        /\ dHead.n = 0 /\ dHome = stable /\ dLog \in [Slots -> Data]
    <3>1. Sound /\ dLog' = [dLog EXCEPT ![tail] = cHome[lh[tail]]]
      BY DEF Sound
    <3>2. dHead.n = 0 /\ dHome = stable
      BY <3>1 DEF DiskInv, CommitOK, BeforeCommitPoint
    <3>3. dLog \in [Slots -> Data]
      BY DEF LogTypeOK
    <3> QED BY <3>1, <3>2, <3>3
  <2>2. ASSUME NEW i \in 1..Len(lh), i < tail' PROVE dLog'[i] = cHome[lh[i]]
    <3>1. CASE i = tail
      BY <1>1, <2>1, <3>1
    <3>2. CASE i # tail
      <4>1. i < tail /\ i \in Slots
        BY <1>1, <2>2, <3>2, LogAssumption DEF Cap, Slots
      <4>2. dLog[i] = cHome[lh[i]]
        BY <2>1, <4>1 DEF DiskInv, CommitOK
      <4> QED BY <2>1, <3>2, <4>1, <4>2
    <3> QED BY <3>1, <3>2
  <2>3. CommitOK'
    BY <2>1, <2>2 DEF CommitOK
  <2> QED BY <2>1, <2>3 DEF Recoverable
<1> QED BY <1>3, <1>4, <1>5, <1>6, <1>7 DEF DiskInv

(* write_checksum finds every slot written and stores the sum. *)
LEMMA WriteSumStep ==
  ASSUME LogTypeOK, DiskInv, write_checksum
  PROVE  LogTypeOK' /\ DiskInv'
<1> USE DEF write_checksum, calls, history
<1>1. LogTypeOK'
  BY DEF LogTypeOK, Phases
<1>2. HeadOK' /\ CacheOK' /\ BootOK' /\ InstallOK' /\ NoFalseAlarm'
  BY DEF DiskInv, HeadOK, CacheOK, BootOK, InstallOK, NoFalseAlarm
<1>3. SumOK'
  BY SumFrame DEF SumOK
<1>4. CommitOK' /\ Recoverable'
  BY DEF DiskInv, CommitOK, Recoverable, Sound, BeforeCommitPoint, LogTypeOK
<1>5. DirtyIsLogged' /\ Absorbed'
  BY DEF DiskInv, DirtyIsLogged, Absorbed, LoggedBlocks, Distinct
<1> QED BY <1>1, <1>2, <1>3, <1>4, <1>5 DEF DiskInv

(* check_checksum recomputes the same sum unless a write was lost. *)
LEMMA CheckSumStep ==
  ASSUME LogTypeOK, DiskInv, check_checksum
  PROVE  LogTypeOK' /\ DiskInv'
<1> USE DEF check_checksum, disk, calls, history
<1>1. LogTypeOK'
  BY DEF LogTypeOK, Phases
<1>2. HeadOK' /\ CacheOK' /\ BootOK' /\ InstallOK' /\ SumOK'
  BY DEF DiskInv, HeadOK, CacheOK, BootOK, InstallOK, SumOK
<1>3. NoFalseAlarm'
  BY DEF DiskInv, SumOK, NoFalseAlarm
<1>4. CommitOK' /\ Recoverable'
  BY DEF DiskInv, CommitOK, Recoverable, Sound, BeforeCommitPoint
<1>5. DirtyIsLogged' /\ Absorbed'
  BY DEF DiskInv, DirtyIsLogged, Absorbed, LoggedBlocks, Distinct
<1> QED BY <1>1, <1>2, <1>3, <1>4, <1>5 DEF DiskInv

(* The commit point: the new header and the slots describe the new contents. *)
LEMMA WriteHeadStep ==
  ASSUME LogTypeOK, DiskInv, write_head
  PROVE  LogTypeOK' /\ DiskInv'
<1> USE DEF write_head, calls
<1>1. lh \in Seq(Home) /\ Len(lh) \in Nat /\ Len(lh) <= Cap
      /\ \A i \in 1..Len(lh) : lh[i] \in Home
  BY DEF LogTypeOK
<1>2. dHead' \in Header /\ dHead'.n = Len(lh)
      /\ \A i \in 1..Len(lh) : dHead'.block[i] = lh[i]
  BY <1>1, HeadWithType DEF LogTypeOK
<1>3. LogTypeOK'
  BY <1>2, LogAssumption DEF LogTypeOK, Phases, Cap
<1>4. HeadOK'
  <2>1. \A i, j \in 1..Len(lh) : lh[i] = lh[j] => i = j
    BY DEF DiskInv, Absorbed, Distinct
  <2> HIDE DEF write_head
  <2> QED BY <1>1, <1>2, <2>1 DEF HeadOK
<1>5. CacheOK' /\ BootOK' /\ SumOK' /\ NoFalseAlarm'
  BY DEF DiskInv, CacheOK, BootOK, SumOK, NoFalseAlarm
<1>6. CommitOK'
  BY <1>2 DEF CommitOK, BeforeCommitPoint
<1>7. InstallOK'
  BY <1>1 DEF InstallOK
<1>8. DirtyIsLogged' /\ Absorbed'
  BY DEF DiskInv, DirtyIsLogged, Absorbed, LoggedBlocks, Distinct
<1>9. Recoverable'
  <2> SUFFICES ASSUME Sound'
               PROVE  /\ \A i \in 1..Len(lh) : dLog[i] = cHome[lh[i]]
                      /\ \A b \in Home : (\A i \in 1..Len(lh) : lh[i] # b)
                                          => dHome[b] = cHome[b]
    BY <1>1, <1>2 DEF Recoverable
  <2>1. \A i \in 1..Len(lh) : dLog[i] = cHome[lh[i]]
    BY DEF Sound, DiskInv, CommitOK
  <2>2. \A b \in Home : b \notin LoggedBlocks => dHome[b] = cHome[b]
    BY DEF DiskInv, DirtyIsLogged
  <2> QED BY <2>1, <2>2 DEF LoggedBlocks
<1> QED BY <1>3, <1>4, <1>5, <1>6, <1>7, <1>8, <1>9 DEF DiskInv

(* One bwrite of install_trans copies a committed slot to its home block. *)
LEMMA InstallStep ==
  ASSUME LogTypeOK, DiskInv, install_trans
  PROVE  LogTypeOK' /\ DiskInv'
<1> USE DEF install_trans, calls, history
<1> DEFINE h == lh[tail]
<1>1. /\ lh \in Seq(Home) /\ tail \in 1..Len(lh) /\ tail \in Slots
      /\ h \in Home /\ Len(lh) \in Nat /\ Len(lh) <= Cap
      /\ \A i \in 1..Len(lh) : lh[i] \in Home
      /\ \A i \in 1..Len(lh) : lh[i] = h => i = tail
  BY LogAssumption, SMTT(20)
  DEF LogTypeOK, Slots, Cap, DiskInv, Absorbed, Distinct
<1>2. /\ cHome' \in [Home -> Data] /\ dHome' \in [Home -> Data]
      /\ cHome'[h] = cLog[tail] /\ dHome'[h] = cLog[tail]
      /\ \A b \in Home : b # h => cHome'[b] = cHome[b] /\ dHome'[b] = dHome[b]
  BY <1>1 DEF LogTypeOK
<1>3. LogTypeOK'
  <2>1. tail' \in 1..(Cap + 1)
    BY <1>1, LogAssumption DEF Cap
  <2> QED BY <1>2, <2>1 DEF LogTypeOK
<1> HIDE DEF h
<1>4. HeadOK' /\ CacheOK' /\ BootOK' /\ SumOK' /\ NoFalseAlarm'
  BY DEF DiskInv, HeadOK, CacheOK, BootOK, SumOK, NoFalseAlarm
<1>5. CommitOK'
  BY DEF DiskInv, CommitOK, Sound, BeforeCommitPoint
<1>6. Absorbed' /\ LoggedBlocks' = LoggedBlocks
  BY DEF DiskInv, Absorbed, Distinct, LoggedBlocks
<1>7. DirtyIsLogged'
  BY <1>2, <1>6 DEF DiskInv, DirtyIsLogged
<1>8. Sound => cLog[tail] = stable[h]
  BY <1>1 DEF Sound, DiskInv, CacheOK, CommitOK, Recoverable, h
<1>9. InstallOK'
  <2> SUFFICES ASSUME NEW i \in 1..Len(lh), i < tail + 1
               PROVE  /\ cHome'[lh[i]] = dHome'[lh[i]]
                      /\ Sound => dHome'[lh[i]] = stable[lh[i]]
    BY DEF InstallOK, Sound
  <2>1. CASE i = tail
    BY <1>2, <1>8, <2>1 DEF h
  <2>2. CASE i # tail
    <3>1. i < tail /\ lh[i] # h /\ lh[i] \in Home
      BY <1>1, <2>2
    <3> QED BY <1>2, <3>1 DEF DiskInv, InstallOK
  <2> QED BY <2>1, <2>2
<1>10. Recoverable'
  <2> SUFFICES ASSUME Sound PROVE Recoverable'
    BY DEF Recoverable, Sound
  <2>1. dHead.n = Len(lh) /\ dHead.block[tail] = h
    BY <1>1 DEF DiskInv, CommitOK, h
  <2>2. ASSUME NEW b \in Home, \A i \in 1..dHead.n : dHead.block[i] # b
        PROVE  dHome'[b] = stable[b]
    <3>1. b # h /\ dHome[b] = stable[b]
      BY <1>1, <2>1, <2>2 DEF DiskInv, Recoverable
    <3> QED BY <1>2, <3>1
  <2> QED BY <2>2 DEF DiskInv, Recoverable
<1> QED BY <1>3, <1>4, <1>5, <1>6, <1>7, <1>9, <1>10 DEF DiskInv

(* Clearing the header finds every logged block installed. *)
LEMMA ClearStep ==
  ASSUME LogTypeOK, DiskInv, clear_log
  PROVE  LogTypeOK' /\ DiskInv'
<1>0. /\ phase = "install" /\ tail > Len(lh) /\ phase' = "run" /\ tail' = 1
      /\ lh' = <<>> /\ dHead' = HeadWith(<<>>)
      /\ dHome' = dHome /\ dLog' = dLog /\ dSum' = dSum /\ cHome' = cHome /\ cLog' = cLog
      /\ checksum' = checksum /\ active' = active /\ used' = used
      /\ stable' = stable /\ skipped' = skipped /\ lost' = lost
  BY DEF clear_log, calls, history
<1>1. dHead' \in Header /\ dHead'.n = 0 /\ lh' = <<>> /\ Len(lh') = 0
      /\ lh' \in Seq(Home) /\ LoggedBlocks' = {}
  <2>1. <<>> \in Seq(Home) /\ Len(<<>>) = 0 /\ Len(<<>>) <= Cap
    BY LogAssumption DEF Cap
  <2>2. HeadWith(<<>>) \in Header /\ HeadWith(<<>>).n = 0
    BY <2>1, HeadWithType, ZenonT(30) DEF LogTypeOK
  <2>3. LoggedBlocks' = {}
    BY <1>0 DEF LoggedBlocks
  <2> QED BY <1>0, <2>1, <2>2, <2>3
<1>2. LogTypeOK'
  <2>1. Cap \in Nat
    BY LogAssumption DEF Cap
  <2>2. /\ lh' \in Seq(Home) /\ Len(lh') <= Cap /\ dHead' \in Header
        /\ tail' \in 1..(Cap + 1) /\ phase' \in Phases
    BY <1>0, <1>1, <2>1 DEF Phases
  <2> QED BY <1>0, <2>2 DEF LogTypeOK
<1>3. ASSUME NEW b \in Home
      PROVE  cHome[b] = dHome[b] /\ (Sound => dHome[b] = stable[b])
  <2>1. CASE b \in LoggedBlocks
    <3>1. PICK i \in 1..Len(lh) : lh[i] = b
      BY <2>1 DEF LoggedBlocks
    <3>2. i < tail
      BY <1>0 DEF LogTypeOK
    <3> QED BY <1>0, <3>1, <3>2 DEF DiskInv, InstallOK
  <2>2. CASE b \notin LoggedBlocks
    <3>1. cHome[b] = dHome[b]
      BY <2>2 DEF DiskInv, DirtyIsLogged
    <3>2. ASSUME Sound PROVE dHome[b] = stable[b]
      <4>1. CommitOK /\ Recoverable
        BY DEF DiskInv
      <4>2. dHead.n = Len(lh) /\ \A i \in 1..Len(lh) : dHead.block[i] = lh[i]
        BY <1>0, <3>2, <4>1 DEF CommitOK
      <4>3. \A i \in 1..Len(lh) : lh[i] # b
        BY <2>2 DEF LoggedBlocks
      <4>4. \A i \in 1..dHead.n : dHead.block[i] # b
        BY <4>2, <4>3
      <4>5. QED
        BY <3>2, <4>1, <4>4 DEF Recoverable
    <3>3. QED
      BY <3>1, <3>2
  <2> QED BY <2>1, <2>2
<1>4. Sound => dHome = stable
  BY <1>3 DEF LogTypeOK
<1>5. HeadOK' /\ CacheOK' /\ BootOK' /\ SumOK' /\ NoFalseAlarm' /\ InstallOK'
  <2>1. HeadOK'
    BY <1>1 DEF HeadOK
  <2>2. CacheOK'
    BY <1>0 DEF DiskInv, CacheOK
  <2>3. BootOK' /\ SumOK' /\ NoFalseAlarm' /\ InstallOK'
    BY <1>0 DEF BootOK, SumOK, NoFalseAlarm, InstallOK
  <2> QED BY <2>1, <2>2, <2>3
<1>6. CommitOK' /\ Recoverable'
  <2>1. Sound' <=> Sound
    BY <1>0 DEF Sound
  <2>2. CommitOK'
    BY <1>0, <1>1, <1>4, <2>1 DEF CommitOK
  <2>3. Recoverable'
    BY <1>0, <1>1, <1>4, <2>1 DEF Recoverable
  <2> QED BY <2>2, <2>3
<1>7. DirtyIsLogged' /\ Absorbed'
  <2>1. DirtyIsLogged'
    BY <1>0, <1>3 DEF DirtyIsLogged
  <2>2. Absorbed'
    BY <1>1 DEF Absorbed, Distinct
  <2> QED BY <2>1, <2>2
<1> QED BY <1>2, <1>5, <1>6, <1>7 DEF DiskInv

(* recover_from_log either loads the header it will install, or runs on and
   records that it refused a non-empty log. *)
LEMMA RecoverStep ==
  ASSUME LogTypeOK, DiskInv, AdmissionFacts, recover_from_log
  PROVE  LogTypeOK' /\ DiskInv'
<1> USE DEF recover_from_log, disk, calls
<1>1. lh = <<>> /\ active = {} /\ cHome = dHome /\ dHead \in Header
  BY DEF DiskInv, BootOK, LogTypeOK
<1>2. HeadOK' /\ CacheOK' /\ BootOK' /\ SumOK' /\ NoFalseAlarm' /\ DirtyIsLogged'
  BY <1>1 DEF DiskInv, HeadOK, CacheOK, BootOK, SumOK, NoFalseAlarm,
              DirtyIsLogged
<1>3. Recoverable'
  BY ZenonT(30) DEF DiskInv, Recoverable, Sound
<1>4. CASE SumOf(dSum) = RecoverySum
  <2>1. dHead.n \in Nat /\ dHead.n <= Cap
    BY LogAssumption DEF LogTypeOK, Header, Cap
  <2>2. lh' \in [1..dHead.n -> Home]
    BY <1>4 DEF DiskInv, HeadOK
  <2>3. lh' \in Seq(Home) /\ Len(lh') = dHead.n
    BY <2>1, <2>2
  <2>0. /\ phase = "recover" /\ phase' = "install" /\ tail' = 1 /\ skipped' = skipped
        /\ lh' = [i \in 1..dHead.n |-> dHead.block[i]]
        /\ dHome' = dHome /\ dLog' = dLog /\ dHead' = dHead /\ dSum' = dSum
        /\ cHome' = cHome /\ cLog' = cLog /\ checksum' = checksum
        /\ active' = active /\ used' = used /\ stable' = stable /\ lost' = lost
    BY <1>4
  <2> HIDE DEF recover_from_log
  <2>4. LogTypeOK'
    <3>1. Cap \in Nat /\ Len(lh') <= Cap
      BY <2>1, <2>3, LogAssumption DEF Cap
    <3>2. tail' \in 1..(Cap + 1) /\ phase' \in Phases
      BY <2>0, <3>1 DEF Phases
    <3> QED BY <2>0, <2>3, <3>1, <3>2, ZenonT(30) DEF LogTypeOK
  <2>5. CommitOK' /\ Absorbed'
    <3>1. \A i \in 1..dHead.n : lh'[i] = dHead.block[i]
      BY <2>0
    <3>2. CommitOK'
      BY <2>0, <2>3, <3>1, ZenonT(30) DEF CommitOK, BeforeCommitPoint
    <3>3. Absorbed'
      BY <2>3, <3>1 DEF DiskInv, HeadOK, Absorbed, Distinct
    <3> QED BY <3>2, <3>3
  <2>6. InstallOK'
    BY <2>0, <2>3 DEF InstallOK
  <2> QED BY <1>2, <1>3, <2>4, <2>5, <2>6 DEF DiskInv
<1>5. CASE SumOf(dSum) # RecoverySum
  <2>1. LogTypeOK'
    <3>1. Cap \in Nat
      BY LogAssumption DEF Cap
    <3>2. tail' \in 1..(Cap + 1) /\ phase' \in Phases
      BY <1>5, <3>1 DEF Phases
    <3> QED BY <1>5, <3>2 DEF LogTypeOK
  <2>2. CommitOK'
    <3> SUFFICES ASSUME Sound' PROVE dHead.n = 0 /\ dHome = stable
      BY <1>5 DEF CommitOK, BeforeCommitPoint
    <3>1. Sound /\ dHead.n = 0
      <4>1. Sound /\ ~(dHead.n > 0)
        BY <1>5, Zenon DEF Sound
      <4> QED BY <1>1, <4>1, LogAssumption DEF Header, Cap
    <3>2. \A b \in Home : dHome[b] = stable[b]
      BY <3>1 DEF DiskInv, Recoverable
    <3> QED BY <3>1, <3>2 DEF LogTypeOK
  <2>3. InstallOK' /\ Absorbed'
    BY <1>1, <1>5 DEF InstallOK, Absorbed, Distinct
  <2> QED BY <1>2, <1>3, <2>1, <2>2, <2>3 DEF DiskInv
<1> QED BY <1>4, <1>5

(* A slot can differ from its cached copy only after a lost write. *)
LEMMA EvictStep ==
  ASSUME LogTypeOK, DiskInv, NEW k \in Slots, Evict(k)
  PROVE  LogTypeOK' /\ DiskInv'
<1> USE DEF Evict, disk, calls, history
<1>1. lost
  BY DEF DiskInv, CacheOK
<1>2. LogTypeOK'
  BY DEF LogTypeOK
<1>3. HeadOK' /\ CacheOK' /\ BootOK' /\ SumOK' /\ NoFalseAlarm'
  BY <1>1 DEF DiskInv, HeadOK, CacheOK, BootOK, SumOK, NoFalseAlarm
<1>4. CommitOK' /\ InstallOK' /\ Recoverable'
  BY <1>1 DEF DiskInv, CommitOK, InstallOK, Recoverable, Sound
<1>5. DirtyIsLogged' /\ Absorbed'
  BY DEF DiskInv, DirtyIsLogged, Absorbed, LoggedBlocks, Distinct
<1> QED BY <1>2, <1>3, <1>4, <1>5 DEF DiskInv

(* Power loss forgets the cache and the in-memory log, never the disk. *)
LEMMA CrashStep ==
  ASSUME LogTypeOK, DiskInv, Crash
  PROVE  LogTypeOK' /\ DiskInv'
<1> USE DEF Crash, disk, history
<1>1. LogTypeOK'
  BY LogAssumption DEF LogTypeOK, Phases, Cap
<1>2. HeadOK' /\ CacheOK' /\ BootOK' /\ SumOK' /\ NoFalseAlarm' /\ InstallOK'
  BY DEF DiskInv, HeadOK, CacheOK, BootOK, SumOK, NoFalseAlarm, InstallOK
<1>3. CommitOK' /\ Recoverable'
  BY DEF DiskInv, CommitOK, Recoverable, Sound, BeforeCommitPoint
<1>4. DirtyIsLogged' /\ Absorbed'
  BY DEF DirtyIsLogged, Absorbed, Distinct
<1> QED BY <1>1, <1>2, <1>3, <1>4 DEF DiskInv
(* Stuttering keeps the disk invariant. *)
LEMMA StutterStep ==
  ASSUME LogTypeOK, DiskInv, UNCHANGED vars
  PROVE  LogTypeOK' /\ DiskInv'
<1> USE DEF vars, disk, calls, history
<1>1. LogTypeOK'
  BY DEF LogTypeOK
<1>2. HeadOK' /\ CacheOK' /\ BootOK' /\ NoFalseAlarm' /\ InstallOK'
  BY DEF DiskInv, HeadOK, CacheOK, BootOK, NoFalseAlarm, InstallOK, Sound
<1>3. SumOK'
  BY SumFrame DEF DiskInv, SumOK
<1>4. CommitOK' /\ Recoverable'
  BY DEF DiskInv, CommitOK, Recoverable, Sound, BeforeCommitPoint
<1>5. DirtyIsLogged' /\ Absorbed'
  BY DEF DiskInv, DirtyIsLogged, Absorbed, LoggedBlocks, Distinct
<1> QED BY <1>1, <1>2, <1>3, <1>4, <1>5 DEF DiskInv

-----------------------------------------------------------------------------
(* The whole invariant *)

GCP == INSTANCE GroupCommitProofs
         WITH n <- Len(lh), committing <- (phase # "run")

IInv == LogTypeOK /\ DiskInv /\ GCP!Inv

-----------------------------------------------------------------------------
(* Log implements GroupCommit *)

(* The constants of Log satisfy GroupCommit's assumption. *)
LEMMA InstanceAssumption == GCP!GroupCommitAssumption
BY LogAssumption DEF GCP!GroupCommitAssumption, IsFiniteSet, GCP!IsFiniteSet

(* The two instances of GroupCommit have the same initial states. *)
LEMMA SameInit == GCP!Init <=> GC!Init
BY DEF GCP!Init, GC!Init

(* The two instances of GroupCommit have the same steps. *)
LEMMA SameNext == [GCP!Next]_(GCP!gcvars) <=> [GC!Next]_(GC!gcvars)
BY DEF GCP!Next, GC!Next, GCP!Crash, GC!Crash, GCP!Commit, GC!Commit,
       GCP!Begin, GC!Begin, GCP!End, GC!End, GCP!Append1, GC!Append1,
       GCP!Cap, GC!Cap, GCP!Cardinality, GC!Cardinality, GCP!gcvars, GC!gcvars

(* A fresh image with power just on maps to an empty group.                  *)
LEMMA RefineInit == Init => GCP!Init
BY DEF Init, GCP!Init

(* Every step of the log is a step of the admission protocol or leaves it    *)
(* alone: only commit and recovery touch the header while no call is active. *)
LEMMA RefineStep ==
  ASSUME LogTypeOK, DiskInv, AdmissionFacts, [Next]_vars
  PROVE  [GCP!Next]_(GCP!gcvars)
<1> USE DEF calls, GCP!gcvars
<1>1. ASSUME NEW p \in Procs, begin_op(p) PROVE GCP!Begin(p)
  BY <1>1 DEF begin_op, GCP!Begin, Cap, GCP!Cap, GCP!Cardinality, Cardinality
<1>2. ASSUME NEW p \in Procs, end_op(p) PROVE GCP!End(p)
  BY <1>2 DEF end_op, GCP!End
<1>3. ASSUME NEW p \in Procs, NEW b \in Home, NEW d \in Data, log_write(p, b, d)
      PROVE  GCP!Append1(p) \/ UNCHANGED GCP!gcvars
  <2>1. Len(lh) < Cap /\ phase' = phase /\ lh \in Seq(Home)
    BY <1>3, LogAssumption DEF log_write, AdmissionFacts, Cap, LogTypeOK
  <2>2. CASE b \in LoggedBlocks
    BY <1>3, <2>1, <2>2 DEF log_write
  <2>3. CASE b \notin LoggedBlocks
    <3>1. lh' = Append(lh, b) /\ Len(lh') = Len(lh) + 1
      BY <1>3, <2>1, <2>3, LogAssumption DEF log_write, Cap
    <3>2. lh' # lh
      BY <2>1, <3>1
    <3> QED BY <1>3, <2>1, <2>3, <3>1, <3>2 DEF log_write, GCP!Append1, GCP!Cap, Cap
  <2> QED BY <2>2, <2>3
<1>4. CASE Commit \/ recover_from_log
  <2>1. LogTypeOK' /\ phase # "run" /\ UNCHANGED <<active, used>>
    <3>1. LogTypeOK'
      BY <1>4, CommitStep, WriteLogStep, WriteSumStep, CheckSumStep,
         WriteHeadStep, InstallStep, ClearStep, RecoverStep, Zenon DEF Commit
    <3>2. ASSUME commit \/ write_log \/ write_checksum \/ check_checksum
          PROVE  phase # "run" /\ UNCHANGED <<active, used>>
      BY <3>2 DEF commit, write_log, write_checksum, check_checksum, calls
    <3>3. ASSUME write_head \/ install_trans \/ clear_log \/ recover_from_log
          PROVE  phase # "run" /\ UNCHANGED <<active, used>>
      BY <3>3 DEF write_head, install_trans, clear_log, recover_from_log, calls
    <3> QED BY <1>4, <3>1, <3>2, <3>3, Zenon DEF Commit
  <2>2. Len(lh') \in 0..GCP!Cap
    <3>1. (LogTypeOK => lh \in Seq(Home) /\ Len(lh) <= Cap)'
      BY TypedHeader, PTL
    <3>2. lh' \in Seq(Home) /\ Len(lh') <= Cap
      BY <2>1, <3>1, Zenon
    <3> QED BY <3>2, LogAssumption DEF GCP!Cap, Cap
  <2>3. phase' = "run" => Len(lh') = 0
    BY <1>4 DEF Commit, commit, write_log, write_checksum, check_checksum,
        write_head, install_trans, clear_log, recover_from_log, DiskInv, BootOK
  <2>4. GCP!Commit
    BY <2>1, <2>2, <2>3 DEF GCP!Commit
  <2> QED BY <2>4 DEF GCP!Next
<1>5. ASSUME NEW k \in Slots, Evict(k) PROVE UNCHANGED GCP!gcvars
  BY <1>5 DEF Evict
<1>6. CASE Crash
  <2>1. GCP!Crash
    BY <1>6 DEF Crash, GCP!Crash
  <2> QED BY <2>1 DEF GCP!Next
<1>7. CASE UNCHANGED vars
  BY <1>7 DEF vars
<1> QED BY <1>1, <1>2, <1>3, <1>4, <1>5, <1>6, <1>7 DEF Next, GCP!Next
-----------------------------------------------------------------------------
(* The inductive invariant *)

(* GroupCommit's invariant gives the step lemmas their admission facts. *)
LEMMA InvFacts == GCP!Inv => AdmissionFacts
<1>1. GCP!Inv => GCP!RoomForActive
  BY GCP!InvRoom, InstanceAssumption DEF GCP!GroupCommitAssumption
<1>2. GCP!Inv => GCP!CommitExcludesCalls
  BY DEF GCP!Inv
<1> QED BY <1>1, <1>2, LogAssumption
        DEF AdmissionFacts, GCP!RoomForActive, GCP!CommitExcludesCalls,
            GCP!Cap, Cap

(* A fresh image satisfies the inductive invariant. *)
LEMMA IInvInit == Init => IInv
<1> SUFFICES ASSUME Init PROVE IInv
  OBVIOUS
<1>1. GCP!Inv
  BY RefineInit, GCP!InitInv, InstanceAssumption DEF GCP!GroupCommitAssumption
<1>2. LogTypeOK
  <2>1. dHead \in Header
    BY LogAssumption DEF Init, Header, Cap
  <2>2. dLog \in [Slots -> Data] /\ used \in [Procs -> 0..OpBlocks]
    BY LogAssumption DEF Init
  <2>3. lh \in Seq(Home) /\ Len(lh) <= Cap /\ tail \in 1..(Cap + 1)
    BY LogAssumption DEF Init, Cap
  <2> QED BY <2>1, <2>2, <2>3, ZenonT(30) DEF Init, LogTypeOK, Phases
<1>3. DiskInv
  BY DEF Init, DiskInv, HeadOK, CacheOK, BootOK, SumOK, CommitOK, InstallOK,
         Recoverable, DirtyIsLogged, Absorbed, NoFalseAlarm, Distinct,
         BeforeCommitPoint
<1> QED BY <1>1, <1>2, <1>3 DEF IInv

(* Every step preserves the inductive invariant. *)
LEMMA IInvStep == IInv /\ [Next]_vars => IInv'
<1> SUFFICES ASSUME IInv, [Next]_vars PROVE IInv'
  OBVIOUS
<1>1. LogTypeOK /\ DiskInv /\ AdmissionFacts
  BY InvFacts DEF IInv
<1>2. GCP!Inv'
  <2>1. [GCP!Next]_(GCP!gcvars)
    BY <1>1, RefineStep
  <2> QED BY <2>1, GCP!StepInv, InstanceAssumption
          DEF IInv, GCP!GroupCommitAssumption
<1>3. ASSUME UNCHANGED vars PROVE LogTypeOK' /\ DiskInv'
  BY <1>1, <1>3, StutterStep
<1>4. ASSUME Next PROVE LogTypeOK' /\ DiskInv'
  BY <1>1, <1>4, BeginStep, WriteStep, EndStep, CommitStep, WriteLogStep,
     WriteSumStep, CheckSumStep, WriteHeadStep, InstallStep, ClearStep,
     RecoverStep, EvictStep, CrashStep
  DEF Next, Commit
<1> QED BY <1>2, <1>3, <1>4 DEF IInv

(* The inductive invariant holds in every reachable state of the log.        *)
THEOREM LogInvariance == Spec => []IInv
BY IInvInit, IInvStep, PTL DEF Spec

(* Type correctness of the log, its disk and its cache.                      *)
THEOREM LogTypeCorrect == Spec => []LogTypeOK
<1>1. IInv => LogTypeOK
  BY DEF IInv
<1> QED BY <1>1, LogInvariance, PTL

(* Crash safety up to what recovery accepts: between any two disk writes the *)
(* disk replays to the committed contents, for every checksum function,      *)
(* unless a boot refused a non-empty log or a write was lost.                *)
THEOREM LogRecoverable == Spec => []Recoverable
<1>1. IInv => Recoverable
  BY DEF IInv, DiskInv
<1> QED BY <1>1, LogInvariance, PTL

(* No update reaches a home block before the commit point, and with no       *)
(* transaction open the cache is the committed state.                        *)
THEOREM LogNoUncommittedHome == Spec => []NoUncommittedHome
<1>1. IInv => NoUncommittedHome
  <2> SUFFICES ASSUME IInv, Sound
               PROVE  /\ BeforeCommitPoint => dHome = stable
                      /\ phase = "run" /\ lh = <<>> => cHome = stable
    BY DEF NoUncommittedHome, BeforeCommitPoint
  <2>1. BeforeCommitPoint => dHome = stable
    BY DEF IInv, DiskInv, CommitOK
  <2>2. ASSUME phase = "run", lh = <<>> PROVE cHome = dHome
    <3>1. LoggedBlocks = {}
      BY <2>2 DEF LoggedBlocks
    <3> QED BY <3>1 DEF IInv, DiskInv, DirtyIsLogged, LogTypeOK
  <2> QED BY <2>1, <2>2 DEF BeforeCommitPoint
<1> QED BY <1>1, LogInvariance, PTL

(* A modified cached block is in the log header, so it is pinned until       *)
(* install_trans has written it; this holds on a lossy disk and across       *)
(* refused recoveries as well.                                               *)
THEOREM LogDirtyIsLogged == Spec => []DirtyIsLogged
<1>1. IInv => DirtyIsLogged
  BY DEF IInv, DiskInv
<1> QED BY <1>1, LogInvariance, PTL

(* The checksum test stops a commit only if the disk lost a write, and       *)
(* log_write's size test never does.                                         *)
THEOREM LogNoFalseAlarm == Spec => []NoFalseAlarm
<1>1. IInv => NoFalseAlarm
  BY DEF IInv, DiskInv
<1> QED BY <1>1, LogInvariance, PTL

(* The log implements the group-commit protocol, whatever crashes happen and *)
(* whatever the checksums are.                                               *)
THEOREM LogRefinesGroupCommit == Spec => GroupCommitSpec
<1>1. Init => GC!Init
  BY RefineInit, SameInit
<1>2. IInv /\ [Next]_vars => [GC!Next]_(GC!gcvars)
  BY RefineStep, SameNext, InvFacts DEF IInv
<1> QED BY <1>1, <1>2, LogInvariance, PTL DEF Spec, GroupCommitSpec, GC!Spec
=============================================================================
