------------------------- MODULE LogAdmissionProofs -------------------------
(***************************************************************************)
(* Theorems about LogAdmission, for any set of processes and any log size: *)
(* begin_op, log_write and end_op implement GroupCommit, count right, lose *)
(* no wakeup and reach no panic, as long as a call logs fewer blocks than  *)
(* begin_op reserves for it (log_write tests the size before absorption,   *)
(* so it needs one slot more than it takes).                               *)
(*                                                                         *)
(* A panic would leave log.outstanding wrong and make log_write fail where *)
(* GroupCommit has room, and room follows from GroupCommit's reservations, *)
(* so the invariant has both levels.  That a sleeper has a waker needs     *)
(* more than the counters: the log is empty when nobody uses it, or        *)
(* begin_op would wait for space that nobody frees.                        *)
(***************************************************************************)
EXTENDS LogAdmission, FiniteSetTheorems, TLAPS

GCP == INSTANCE GroupCommitProofs WITH active <- Active

Spare == OpBlocks < MaxOpBlocks

Committers == {p \in Procs : pc[p] \in {"commit", "finish"}}
OneCommitter ==
  /\ committing <=> Committers # {}
  /\ \A p, q \in Committers : p = q
Counted == outstanding = Cardinality(Active)
EmptyWhenUnused ==
  /\ outstanding = 0 /\ ~committing => n = 0
  /\ \A p \in Procs : pc[p] = "finish" => n = 0

IInv ==
  /\ AdmissionTypeOK /\ Counted /\ OneCommitter /\ EmptyWhenUnused
  /\ SleeperHasWaker /\ NoPanic /\ GCP!Inv

-----------------------------------------------------------------------------
(* The constants satisfy GroupCommit's assumption. *)
LEMMA InstanceAssumption == GCP!GroupCommitAssumption
BY GroupCommitAssumption DEF GCP!GroupCommitAssumption, IsFiniteSet, GCP!IsFiniteSet

(* The two instances of GroupCommit have the same initial states and steps.  *)
LEMMA SameInit == GCP!Init <=> GC!Init
BY DEF GCP!Init, GC!Init

(* The two instances of GroupCommit have the same steps. *)
LEMMA SameNext == [GCP!Next]_(GCP!gcvars) <=> [GC!Next]_(GC!gcvars)
BY DEF GCP!Next, GC!Next, GCP!Crash, GC!Crash, GCP!Commit, GC!Commit,
       GCP!Begin, GC!Begin, GCP!End, GC!End, GCP!Append1, GC!Append1,
       GCP!Cap, GC!Cap, GCP!Cardinality, GC!Cardinality, GCP!gcvars, GC!gcvars

(* A set of processes is finite, so it can be counted. *)
LEMMA ProcsFinite ==
  ASSUME NEW A \in SUBSET Procs
  PROVE  IsFiniteSet(A) /\ Cardinality(A) \in Nat /\ Cardinality(A) \in 0..Cardinality(Procs)
BY FS_Subset, FS_CardinalityType, GroupCommitAssumption

(* In particular the processes between begin_op and end_op. *)
LEMMA ActiveFinite == IsFiniteSet(Active) /\ Cardinality(Active) \in Nat
<1>1. Active \in SUBSET Procs
  BY DEF Active
<1> QED BY <1>1, ProcsFinite

(* What GroupCommit's invariant says of the slots: an active call finds one. *)
LEMMA Room == Spare /\ GCP!Inv => (Active # {} => n < Cap) /\ (committing => Active = {})
<1>1. GCP!Inv => GCP!RoomForActive
  BY GCP!InvRoom, InstanceAssumption DEF GCP!GroupCommitAssumption
<1>2. GCP!Inv => GCP!CommitExcludesCalls
  BY DEF GCP!Inv
<1> QED BY <1>1, <1>2 DEF GCP!RoomForActive, GCP!CommitExcludesCalls, GCP!Cap, Cap, Spare

-----------------------------------------------------------------------------
(* LogAdmission implements GroupCommit *)

(* At boot no call is active and the log is empty. *)
LEMMA RefineInit == Init => GCP!Init
BY ZenonT(30) DEF Init, GCP!Init, Active

(* Every step is a step of GroupCommit or leaves it alone.                   *)
LEMMA RefineStep ==
  ASSUME Spare, IInv, [Next]_vars
  PROVE  [GCP!Next]_(GCP!gcvars)
<1> USE DEF GCP!gcvars
<1>0. /\ AdmissionTypeOK /\ Counted /\ OneCommitter /\ NoPanic
      /\ (Active # {} => n < Cap) /\ (committing => Active = {})
  BY Room DEF IInv
<1>1. ASSUME NEW p \in Procs, Call(p) \/ kill(p) PROVE UNCHANGED GCP!gcvars
  BY <1>0, <1>1 DEF Call, kill, Active, AdmissionTypeOK
<1>2. ASSUME NEW p \in Procs, begin_op(p) PROVE GCP!Begin(p) \/ UNCHANGED GCP!gcvars
  <2>1. CASE MustWait
    BY <1>0, <1>2, <2>1 DEF begin_op, Active, AdmissionTypeOK
  <2>2. CASE ~MustWait
    <3>1. Active' = Active \cup {p} /\ p \notin Active
      BY <1>0, <1>2, <2>2 DEF begin_op, Active, AdmissionTypeOK
    <3>2. GCP!Cardinality(Active) = outstanding
      BY <1>0 DEF Counted, Cardinality, GCP!Cardinality
    <3>3. (outstanding + 1) * MaxOpBlocks \in Int /\ n \in Int /\ Cap \in Int
      BY <1>0, ActiveFinite, GroupCommitAssumption DEF AdmissionTypeOK, Counted, Cap
    <3>4. n + (outstanding + 1) * MaxOpBlocks <= Cap
      BY <2>2, <3>3 DEF MustWait
    <3> QED BY <1>2, <2>2, <3>1, <3>2, <3>4
            DEF begin_op, MustWait, GCP!Begin, Cap, GCP!Cap
  <2> QED BY <2>1, <2>2
<1>3. ASSUME NEW p \in Procs, log_write_check(p) PROVE UNCHANGED GCP!gcvars
  <2>1. p \in Active
    BY <1>3 DEF log_write_check, Active
  <2>2. n < Cap /\ outstanding >= 1
    BY <1>0, <2>1, ActiveFinite, FS_EmptySet DEF Counted
  <2>3. ~(n >= Cap \/ outstanding < 1)
    BY <1>0, <2>2, ActiveFinite, GroupCommitAssumption DEF AdmissionTypeOK, Counted, Cap
  <2>4. pc' = [pc EXCEPT ![p] = "append"]
    BY <1>3, <2>3 DEF log_write_check
  <2> QED BY <1>0, <1>3, <2>4 DEF log_write_check, Active, AdmissionTypeOK
<1>4. ASSUME NEW p \in Procs, log_write_append(p)
      PROVE  GCP!Append1(p) \/ UNCHANGED GCP!gcvars
  <2>1. p \in Active /\ Active' = Active
    BY <1>0, <1>4 DEF log_write_append, Active, AdmissionTypeOK
  <2> QED BY <1>0, <1>4, <2>1 DEF log_write_append, GCP!Append1, GCP!Cap, Cap
<1>5. ASSUME NEW p \in Procs, end_op(p) PROVE GCP!End(p)
  <2>1. p \in Active /\ ~committing
    BY <1>0, <1>5 DEF end_op, Active
  <2>2. Active' = Active \ {p}
    BY <1>0, <1>5, <2>1 DEF end_op, Active, WakeAll, AdmissionTypeOK
  <2>3. outstanding = 1 <=> Active = {p}
    BY <1>0, <2>1, ActiveFinite, FS_Singleton DEF Counted
  <2> QED BY <1>5, <2>1, <2>2, <2>3 DEF end_op, GCP!End
<1>6. ASSUME NEW p \in Procs, commit(p) \/ end_commit(p) PROVE GCP!Commit
  <2>1. committing /\ n \in 0..Cap /\ Cap \in Nat
    BY <1>0, <1>6, GroupCommitAssumption
    DEF commit, end_commit, OneCommitter, Committers, AdmissionTypeOK, Cap
  <2>2. Active' = Active
    BY <1>0, <1>6 DEF commit, end_commit, Active, WakeAll, AdmissionTypeOK
  <2>3. n' = 0
    BY <1>6 DEF commit, end_commit, IInv, EmptyWhenUnused
  <2>4. committing' \in BOOLEAN /\ UNCHANGED <<Active, used>>
    BY <1>0, <1>6, <2>2, ZenonT(30) DEF commit, end_commit, AdmissionTypeOK
  <2>5. n' \in 0..GCP!Cap
    BY <2>1, <2>3 DEF GCP!Cap, Cap
  <2> QED BY <2>1, <2>3, <2>4, <2>5 DEF GCP!Commit
<1>7. CASE UNCHANGED vars
  BY <1>7 DEF vars, Active
<1>8. ASSUME NEW p \in Procs, begin_op(p) \/ log_write_append(p) \/ end_op(p) \/ commit(p) \/ end_commit(p)
      PROVE  GCP!Next \/ UNCHANGED GCP!gcvars
  BY <1>2, <1>4, <1>5, <1>6, <1>8 DEF GCP!Next
<1> QED BY <1>1, <1>3, <1>7, <1>8 DEF Next, Proceed

-----------------------------------------------------------------------------
(* The inductive invariant *)

Labels == {"idle", "begin", "asleep", "inop", "append", "commit", "finish", "panic"}

(* What a step may disturb beyond the group: the conjuncts of IInv that are  *)
(* not GroupCommit's.                                                        *)
Local ==
  /\ pc \in [Procs -> Labels] /\ Counted /\ OneCommitter /\ EmptyWhenUnused
  /\ SleeperHasWaker /\ NoPanic

(* The types follow from those of GroupCommit and from the count. *)
LEMMA LocalInv == GCP!Inv' /\ Local' => IInv'
<1> SUFFICES ASSUME GCP!Inv', Local' PROVE AdmissionTypeOK'
  BY DEF IInv, Local
<1>1. Active' \in SUBSET Procs
  BY DEF Active
<1>2. outstanding' \in 0..Cardinality(Procs)
  BY <1>1, ProcsFinite DEF Local, Counted
<1> QED BY <1>2 DEF AdmissionTypeOK, Local, Labels, GCP!Inv, GCP!GroupTypeOK, GCP!Cap, Cap

(* The kernel boots into the invariant. *)
LEMMA InitInv == Init => IInv
<1> SUFFICES ASSUME Init PROVE IInv
  OBVIOUS
<1>1. GCP!Inv
  BY RefineInit, GCP!InitInv, InstanceAssumption DEF GCP!GroupCommitAssumption
<1>2. Active = {} /\ Committers = {}
  BY DEF Init, Active, Committers
<1>3. Cardinality(Active) = 0 /\ Cardinality(Procs) \in Nat
  BY <1>2, FS_EmptySet, FS_CardinalityType, GroupCommitAssumption
<1>4. AdmissionTypeOK
  <2>1. 0 \in 0..OpBlocks /\ 0 \in 0..Cap /\ 0 \in 0..Cardinality(Procs)
    BY <1>3, GroupCommitAssumption DEF Cap
  <2> QED BY <2>1, ZenonT(30) DEF Init, AdmissionTypeOK
<1> QED BY <1>1, <1>2, <1>3, <1>4
        DEF Init, IInv, Counted, OneCommitter, EmptyWhenUnused, SleeperHasWaker, NoPanic

(* begin_op: who sleeps has somebody to wait for, since an unused log is     *)
(* empty and one reservation fits into it.                                   *)
LEMMA BeginStep ==
  ASSUME IInv, NEW p \in Procs, begin_op(p)
  PROVE  Local'
<1> USE DEF IInv, AdmissionTypeOK
<1>0. outstanding \in Nat /\ Committers' = Committers
  BY ActiveFinite DEF Counted, begin_op, Committers
<1>1. CASE MustWait
  <2>1. outstanding = 0 /\ ~committing => n = 0
    BY DEF EmptyWhenUnused
  <2>2. outstanding > 0 \/ committing
    <3> SUFFICES ASSUME outstanding = 0, ~committing PROVE FALSE
      BY <1>0
    <3>1. (outstanding + 1) * MaxOpBlocks = MaxOpBlocks
      BY GroupCommitAssumption
    <3> QED BY <1>1, <2>1, <3>1, GroupCommitAssumption DEF MustWait, Cap
  <2>3. Active' = Active
    BY <1>1 DEF begin_op, Active
  <2> QED BY <1>0, <1>1, <2>2, <2>3
          DEF begin_op, Local, Labels, Counted, OneCommitter, EmptyWhenUnused, SleeperHasWaker, NoPanic
<1>2. CASE ~MustWait
  <2>1. Active' = Active \cup {p} /\ p \notin Active
    BY <1>2 DEF begin_op, Active
  <2>2. Cardinality(Active') = Cardinality(Active) + 1
    BY <2>1, ActiveFinite, FS_AddElement
  <2>3. outstanding' = outstanding + 1 /\ outstanding' > 0
    BY <1>0, <1>2 DEF begin_op
  <2> QED BY <1>0, <1>2, <2>2, <2>3
          DEF begin_op, Local, Labels, Counted, OneCommitter, EmptyWhenUnused, SleeperHasWaker, NoPanic
<1> QED BY <1>1, <1>2

(* log_write's two halves: the call stays active. *)
LEMMA WriteStep ==
  ASSUME Spare, IInv, NEW p \in Procs, log_write_check(p) \/ log_write_append(p)
  PROVE  Local'
<1> USE DEF IInv, AdmissionTypeOK
<1>1. p \in Active /\ outstanding \in Nat /\ outstanding >= 1 /\ n < Cap
  <2>1. p \in Active
    BY DEF log_write_check, log_write_append, Active
  <2> QED BY <2>1, Room, ActiveFinite, FS_EmptySet DEF Counted
<1>2. ~(n >= Cap \/ outstanding < 1)
  BY <1>1, GroupCommitAssumption DEF Cap
<1>3. \/ pc' = [pc EXCEPT ![p] = "append"] \/ pc' = [pc EXCEPT ![p] = "inop"]
  BY <1>2 DEF log_write_check, log_write_append
<1>4. outstanding' = outstanding /\ committing' = committing /\ ~committing
  BY <1>1, Room DEF log_write_check, log_write_append
<1>5. pc[p] \in {"inop", "append"}
  BY <1>1 DEF Active
<1>6. Active' = Active /\ Committers' = Committers
  BY <1>3, <1>5 DEF Active, Committers
<1>7. \A q \in Procs : pc[q] # "finish"
  BY <1>4 DEF OneCommitter, Committers
<1> QED BY <1>1, <1>3, <1>4, <1>6, <1>7
        DEF Local, Labels, Counted, OneCommitter, EmptyWhenUnused, SleeperHasWaker, NoPanic

(* end_op: the last call leaves through commit(), the others wake everybody. *)
LEMMA EndStep ==
  ASSUME Spare, IInv, NEW p \in Procs, end_op(p)
  PROVE  Local'
<1> USE DEF IInv, AdmissionTypeOK
<1>1. p \in Active /\ ~committing /\ Committers = {}
  BY Room DEF end_op, Active, OneCommitter
<1>2. Active' = Active \ {p}
  BY <1>1 DEF end_op, Active, WakeAll
<1>3. Cardinality(Active') = Cardinality(Active) - 1 /\ outstanding \in Nat /\ outstanding # 0
  BY <1>1, <1>2, ActiveFinite, FS_RemoveElement, FS_EmptySet, ZenonT(30) DEF Counted
<1>4. Counted' /\ pc' \in [Procs -> Labels] /\ NoPanic'
  BY <1>1, <1>3 DEF Counted, end_op, WakeAll, Labels, NoPanic
<1>5. CASE outstanding = 1
  <2>1. pc' = [pc EXCEPT ![p] = "commit"] /\ committing' = TRUE
    BY <1>1, <1>5, ZenonT(30) DEF end_op
  <2>2. Committers' = {p}
    BY <1>1, <2>1 DEF Committers
  <2>3. \A q \in Procs : pc'[q] # "finish"
    BY <1>1, <2>1 DEF Committers
  <2> QED BY <1>4, <2>1, <2>2, <2>3 DEF Local, OneCommitter, EmptyWhenUnused, SleeperHasWaker
<1>6. CASE outstanding # 1
  <2>1. pc' = WakeAll(p, "idle") /\ committing' = FALSE /\ outstanding' # 0 /\ outstanding' \in Nat
    BY <1>1, <1>3, <1>6 DEF end_op
  <2>2. Committers' = {}
    BY <1>1, <2>1 DEF Committers, WakeAll
  <2> QED BY <1>4, <2>1, <2>2 DEF Local, OneCommitter, EmptyWhenUnused, SleeperHasWaker, Committers
<1> QED BY <1>5, <1>6

(* commit() empties the header before end_op takes log.committing back and   *)
(* wakes everybody.                                                          *)
LEMMA CommitStep ==
  ASSUME IInv, NEW p \in Procs, commit(p) \/ end_commit(p)
  PROVE  Local'
<1> USE DEF IInv, AdmissionTypeOK
<1>1. committing /\ Committers = {p}
  BY DEF commit, end_commit, OneCommitter, Committers
<1>2. Active' = Active /\ outstanding' = outstanding /\ n' = 0
  BY DEF commit, end_commit, Active, WakeAll, EmptyWhenUnused
<1>3. Counted' /\ EmptyWhenUnused' /\ pc' \in [Procs -> Labels] /\ NoPanic'
  BY <1>2 DEF commit, end_commit, Counted, EmptyWhenUnused, WakeAll, Labels, NoPanic
<1>4. CASE commit(p)
  <2>1. Committers' = Committers /\ committing' = committing
    BY <1>1, <1>4 DEF commit, Committers
  <2> QED BY <1>1, <1>3, <2>1 DEF Local, OneCommitter, SleeperHasWaker
<1>5. CASE end_commit(p)
  <2>1. Committers' = {} /\ committing' = FALSE
    BY <1>1, <1>5 DEF end_commit, Committers, WakeAll
  <2>2. \A q \in Procs : pc'[q] # "asleep"
    BY <1>5 DEF end_commit, WakeAll
  <2> QED BY <1>3, <2>1, <2>2 DEF Local, OneCommitter, SleeperHasWaker
<1> QED BY <1>4, <1>5

(* Every step preserves the invariant. *)
LEMMA StepInv == ASSUME Spare PROVE IInv /\ [Next]_vars => IInv'
<1> SUFFICES ASSUME IInv, [Next]_vars PROVE IInv'
  OBVIOUS
<1>1. GCP!Inv'
  <2>1. [GCP!Next]_(GCP!gcvars)
    BY RefineStep
  <2> QED BY <2>1, GCP!StepInv, InstanceAssumption DEF IInv, GCP!GroupCommitAssumption
<1>2. ASSUME NEW p \in Procs, Call(p) \/ kill(p) PROVE Local'
  <2>1. Active' = Active /\ Committers' = Committers
    BY <1>2 DEF IInv, AdmissionTypeOK, Call, kill, Active, Committers
  <2> QED BY <1>2, <2>1
          DEF Call, kill, IInv, AdmissionTypeOK, Local, Labels, Counted, OneCommitter,
              EmptyWhenUnused, SleeperHasWaker, NoPanic
<1>3. ASSUME UNCHANGED vars PROVE Local'
  BY <1>3 DEF vars, IInv, AdmissionTypeOK, Local, Labels, Counted, OneCommitter, Committers,
              EmptyWhenUnused, SleeperHasWaker, NoPanic, Active
<1>4. Local'
  BY <1>2, <1>3, BeginStep, WriteStep, EndStep, CommitStep DEF Next, Proceed
<1> QED BY <1>1, <1>4, LocalInv

-----------------------------------------------------------------------------
(* The whole invariant holds in every reachable state. *)
THEOREM AdmissionInvariance == ASSUME Spare PROVE Spec => []IInv
BY InitInv, StepInv, PTL DEF Spec

(* log.outstanding and log.committing say what the processes are doing, and  *)
(* at most one of them commits, for any number of processes.                 *)
THEOREM AdmissionCounts == ASSUME Spare PROVE Spec => []CountersAgree
<1>1. IInv => CountersAgree
  <2> SUFFICES ASSUME IInv PROVE Cardinality(Committers) <= 1
    BY DEF IInv, CountersAgree, Counted, OneCommitter, Committers
  <2>1. Committers = {} \/ \E p \in Committers : Committers = {p}
    BY DEF IInv, OneCommitter
  <2>2. ASSUME NEW p \in Committers, Committers = {p} PROVE Cardinality(Committers) = 1
    BY <2>2, FS_Singleton
  <2>3. ASSUME Committers = {} PROVE Cardinality(Committers) = 0
    BY <2>3, FS_EmptySet
  <2> QED BY <2>1, <2>2, <2>3
<1> QED BY <1>1, AdmissionInvariance, PTL

(* None of the panics of log_write and end_op is reached, although log_write *)
(* tests the size without log.lock.                                          *)
THEOREM AdmissionNoPanic == ASSUME Spare PROVE Spec => []NoPanic
<1>1. IInv => NoPanic
  BY DEF IInv
<1> QED BY <1>1, AdmissionInvariance, PTL

(* begin_op never sleeps with nobody left to wake it.                        *)
THEOREM AdmissionNoLostWakeup == ASSUME Spare PROVE Spec => []SleeperHasWaker
<1>1. IInv => SleeperHasWaker
  BY DEF IInv
<1> QED BY <1>1, AdmissionInvariance, PTL

(* The processes with their sleeps, wakeups and unlocked test implement the  *)
(* group-commit protocol.                                                    *)
THEOREM AdmissionRefinesGroupCommit == ASSUME Spare PROVE Spec => GroupCommitSpec
<1>1. Init => GC!Init
  BY RefineInit, SameInit
<1>2. IInv /\ [Next]_vars => [GC!Next]_(GC!gcvars)
  BY RefineStep, SameNext
<1> QED BY <1>1, <1>2, AdmissionInvariance, PTL DEF Spec, GroupCommitSpec, GC!Spec
=============================================================================
