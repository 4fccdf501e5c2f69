-------------------------- MODULE GroupCommitProofs --------------------------
(***************************************************************************)
(* Theorems about GroupCommit, for any set of processes and any log size.  *)
(* The invariant is ReservationsFit: a begin_op that is admitted adds the  *)
(* MaxOpBlocks slots it may use, a new log block turns one reserved slot   *)
(* into a taken one, and end_op gives the unspent slots back.              *)
(***************************************************************************)
EXTENDS GroupCommit, FiniteSetTheorems, TLAPS

Inv == GroupTypeOK /\ CommitExcludesCalls /\ ReservationsFit

(* The reserved slots are finitely many, at most MaxOpBlocks for each        *)
(* active call: what begin_op's product (outstanding+1)*MAXOPBLOCKS counts.  *)
LEMMA UnspentBound ==
  ASSUME NEW A \in SUBSET Procs, NEW u \in [Procs -> 0..OpBlocks]
  PROVE  /\ IsFiniteSet(A) /\ Cardinality(A) \in Nat
         /\ IsFiniteSet(UnspentOf(A, u)) /\ Cardinality(UnspentOf(A, u)) \in Nat
         /\ Cardinality(UnspentOf(A, u)) <= Cardinality(A) * MaxOpBlocks
<1> DEFINE B == A \X (1..MaxOpBlocks)
           U == UnspentOf(A, u)
<1>1. IsFiniteSet(A) /\ Cardinality(A) \in Nat
  BY FS_Subset, FS_CardinalityType, GroupCommitAssumption
<1>2. IsFiniteSet(1..MaxOpBlocks) /\ Cardinality(1..MaxOpBlocks) = MaxOpBlocks
  BY FS_Interval, GroupCommitAssumption
<1>3. IsFiniteSet(B) /\ Cardinality(B) = Cardinality(A) * MaxOpBlocks
  BY <1>1, <1>2, FS_Product, ZenonT(30)
<1>4. U \in SUBSET B
  BY DEF UnspentOf
<1>5. IsFiniteSet(U) /\ Cardinality(U) <= Cardinality(B)
  <2> HIDE DEF U, B
  <2> QED BY <1>3, <1>4, FS_Subset
<1>6. Cardinality(U) \in Nat
  BY <1>5, FS_CardinalityType
<1> QED BY <1>1, <1>3, <1>5, <1>6

(* begin_op's test makes room for a whole reservation.                       *)
LEMMA BeginFits ==
  ASSUME Inv, NEW p \in Procs, Begin(p)
  PROVE  ReservationsFit'
<1> USE DEF Inv, GroupTypeOK
<1>1. active' \in SUBSET Procs /\ used' = used /\ n' = n
  BY DEF Begin
<1>2. IsFiniteSet(active) /\ Cardinality(active') = Cardinality(active) + 1
  BY UnspentBound, FS_AddElement DEF Begin
<1>3. Cardinality(Unspent') <= Cardinality(active') * MaxOpBlocks
      /\ Cardinality(Unspent') \in Nat
  BY <1>1, UnspentBound DEF Unspent
<1>4. n + Cardinality(active') * MaxOpBlocks <= Cap
  BY <1>2 DEF Begin
<1>5. Cardinality(active') * MaxOpBlocks \in Nat
  <2>1. Cardinality(active') \in Nat
    BY <1>1, UnspentBound
  <2> QED BY <2>1, GroupCommitAssumption
<1> QED BY <1>1, <1>3, <1>4, <1>5, GroupCommitAssumption
        DEF ReservationsFit, Cap

(* A slot that is taken was reserved by the call that takes it.              *)
LEMMA AppendFits ==
  ASSUME Inv, NEW p \in Procs, Append1(p)
  PROVE  ReservationsFit'
<1> USE DEF Inv, GroupTypeOK
<1> DEFINE r == <<p, used[p] + 1>>
<1>1. r \in Unspent
  BY GroupCommitAssumption DEF Append1, Unspent, UnspentOf
<1>2. Unspent' = Unspent \ {r}
  <2>1. ASSUME NEW q \in Procs, NEW k \in 1..MaxOpBlocks
        PROVE  <<q, k>> \in Unspent' <=> <<q, k>> \in Unspent \ {r}
    BY GroupCommitAssumption DEF Append1, Unspent, UnspentOf
  <2>2. Unspent' \subseteq Procs \X (1..MaxOpBlocks)
        /\ Unspent \subseteq Procs \X (1..MaxOpBlocks)
    BY DEF Append1, Unspent, UnspentOf
  <2> QED BY <2>1, <2>2
<1>3. IsFiniteSet(Unspent) /\ Cardinality(Unspent) \in Nat
  BY UnspentBound DEF Unspent
<1>4. Cardinality(Unspent') = Cardinality(Unspent) - 1
  <2> HIDE DEF r
  <2> QED BY <1>1, <1>2, <1>3, FS_RemoveElement
<1> QED BY <1>3, <1>4, GroupCommitAssumption DEF Append1, ReservationsFit, Cap

(* end_op only gives reserved slots back.                                    *)
LEMMA EndFits ==
  ASSUME Inv, NEW p \in Procs, End(p)
  PROVE  ReservationsFit'
<1> USE DEF Inv, GroupTypeOK
<1>1. Unspent' \in SUBSET Unspent
  BY DEF End, Unspent, UnspentOf
<1>2. IsFiniteSet(Unspent) /\ Cardinality(Unspent) \in Nat
  BY UnspentBound DEF Unspent
<1>3. Cardinality(Unspent') <= Cardinality(Unspent)
      /\ Cardinality(Unspent') \in Nat
  BY <1>1, <1>2, FS_Subset, FS_CardinalityType
<1> QED BY <1>2, <1>3, GroupCommitAssumption DEF End, ReservationsFit, Cap

(* With no call active nothing is reserved.                                  *)
LEMMA IdleFits ==
  ASSUME active' = {}, n' \in 0..Cap
  PROVE  ReservationsFit'
<1>1. Unspent' = {}
  BY DEF Unspent, UnspentOf
<1> QED BY <1>1, FS_EmptySet, GroupCommitAssumption DEF ReservationsFit, Cap

(* The invariant holds initially. *)
LEMMA InitInv == Init => Inv
<1> SUFFICES ASSUME Init PROVE Inv
  OBVIOUS
<1>1. Unspent = {}
  BY DEF Init, Unspent, UnspentOf
<1> QED BY <1>1, FS_EmptySet, GroupCommitAssumption
        DEF Init, Inv, GroupTypeOK, CommitExcludesCalls, ReservationsFit, Cap

(* Every step preserves the invariant. *)
LEMMA StepInv == Inv /\ [Next]_gcvars => Inv'
<1> SUFFICES ASSUME Inv, [Next]_gcvars PROVE Inv'
  OBVIOUS
<1> USE DEF Inv
<1>1. ASSUME NEW p \in Procs, Begin(p) PROVE Inv'
  <2>1. GroupTypeOK' /\ CommitExcludesCalls'
    BY <1>1 DEF Begin, GroupTypeOK, CommitExcludesCalls
  <2> QED BY <1>1, <2>1, BeginFits
<1>2. ASSUME NEW p \in Procs, Append1(p) PROVE Inv'
  <2>1. GroupTypeOK' /\ CommitExcludesCalls'
    BY <1>2, GroupCommitAssumption
    DEF Append1, GroupTypeOK, CommitExcludesCalls, Cap
  <2> QED BY <1>2, <2>1, AppendFits
<1>3. ASSUME NEW p \in Procs, End(p) PROVE Inv'
  <2>1. GroupTypeOK' /\ CommitExcludesCalls'
    BY <1>3, GroupCommitAssumption DEF End, GroupTypeOK, CommitExcludesCalls
  <2> QED BY <1>3, <2>1, EndFits
<1>4. CASE Commit
  <2>1. GroupTypeOK' /\ CommitExcludesCalls' /\ active' = {}
    BY <1>4 DEF Commit, GroupTypeOK, CommitExcludesCalls
  <2> QED BY <2>1, IdleFits DEF GroupTypeOK
<1>5. CASE Crash
  <2>1. GroupTypeOK' /\ CommitExcludesCalls' /\ active' = {}
    BY <1>5, GroupCommitAssumption
    DEF Crash, GroupTypeOK, CommitExcludesCalls, Cap
  <2> QED BY <2>1, IdleFits DEF GroupTypeOK
<1>6. CASE UNCHANGED gcvars
  BY <1>6 DEF gcvars, GroupTypeOK, CommitExcludesCalls, ReservationsFit, Unspent
<1> QED BY <1>1, <1>2, <1>3, <1>4, <1>5, <1>6 DEF Next

(* The whole invariant holds in every reachable state.                       *)
THEOREM Invariance == Spec => []Inv
BY InitInv, StepInv, PTL DEF Spec

(* Type correctness of the group-commit protocol of log.c.                   *)
THEOREM TypeCorrect == Spec => []GroupTypeOK
<1>1. Inv => GroupTypeOK
  BY DEF Inv
<1> QED BY <1>1, Invariance, PTL

(* log.c:11: a commit never runs while a system call is between begin_op and *)
(* end_op, for any number of processes.                                      *)
THEOREM CommitAlone == Spec => []CommitExcludesCalls
<1>1. Inv => CommitExcludesCalls
  BY DEF Inv
<1> QED BY <1>1, Invariance, PTL

(* The last reserved slot of an active call is unspent if the call logs      *)
(* fewer blocks than MaxOpBlocks, so the header is not full.                 *)
LEMMA InvRoom == Inv => RoomForActive
<1> SUFFICES ASSUME Inv, OpBlocks < MaxOpBlocks, NEW p \in active
             PROVE  n < Cap
  BY DEF RoomForActive
<1> USE DEF Inv, GroupTypeOK
<1>1. <<p, MaxOpBlocks>> \in Unspent
  BY GroupCommitAssumption DEF Unspent, UnspentOf
<1>2. IsFiniteSet(Unspent) /\ Cardinality(Unspent) \in Nat
  BY UnspentBound DEF Unspent
<1>3. Cardinality(Unspent) # 0
  BY <1>1, <1>2, FS_EmptySet
<1> QED BY <1>2, <1>3, GroupCommitAssumption DEF ReservationsFit, Cap

(* An active call finds a free slot, so log_write's "too big a transaction"  *)
(* is unreachable for any log size and any number of processes.              *)
THEOREM RoomAlways == Spec => []RoomForActive
BY Invariance, InvRoom, PTL
=============================================================================
