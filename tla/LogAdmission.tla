---------------------------- MODULE LogAdmission ----------------------------
(***************************************************************************)
(* begin_op, log_write and end_op of log.c as the processes execute them:  *)
(* one step per critical section of log.lock, plus the size check that     *)
(* log_write makes before it takes the lock.  sleep(&log, &log.lock) puts  *)
(* the process to sleep in the same step that releases the lock, which is  *)
(* what sleep() of proc.c guarantees.  The disk work of commit() is one    *)
(* step here; Log.tla has its detail.                                      *)
(***************************************************************************)
EXTENDS LogParams

VARIABLES
  pc,           \* what each process is doing
  used,         \* used[p]: slots taken by p's current system call
  n,            \* log.lh.n
  outstanding,  \* log.outstanding
  committing    \* log.committing

vars == <<pc, used, n, outstanding, committing>>

Active == {p \in Procs : pc[p] \in {"inop", "append"}}

AdmissionTypeOK ==
  /\ pc \in [Procs -> {"idle", "begin", "asleep", "inop", "append",
                       "commit", "finish", "panic"}]
  /\ used \in [Procs -> 0..OpBlocks]
  /\ n \in 0..Cap
  /\ outstanding \in 0..Cardinality(Procs)
  /\ committing \in BOOLEAN

Init ==
  /\ pc = [p \in Procs |-> "idle"]
  /\ used = [p \in Procs |-> 0]
  /\ n = 0
  /\ outstanding = 0
  /\ committing = FALSE

\* wakeup(&log), with p itself going to label next.
WakeAll(p, next) ==
  [q \in Procs |-> IF q = p THEN next
                   ELSE IF pc[q] = "asleep" THEN "begin" ELSE pc[q]]

Call(p) ==
  /\ pc[p] = "idle"
  /\ pc' = [pc EXCEPT ![p] = "begin"]
  /\ UNCHANGED <<used, n, outstanding, committing>>

\* Mutants: the blocks of the call itself are not counted; log.committing is
\* not tested.
MustWait_unreserved == committing \/ n + outstanding * MaxOpBlocks > Cap
MustWait_space_only == n + (outstanding + 1) * MaxOpBlocks > Cap

\* begin_op's two reasons to sleep.
MustWait == committing \/ n + (outstanding + 1) * MaxOpBlocks > Cap

\* One round of begin_op's loop under log.lock.
begin_op(p) ==
  /\ pc[p] = "begin"
  /\ pc' = [pc EXCEPT ![p] = IF MustWait THEN "asleep" ELSE "inop"]
  /\ outstanding' = IF MustWait THEN outstanding ELSE outstanding + 1
  /\ UNCHANGED <<used, n, committing>>

\* kill() makes a sleeper runnable; begin_op does not look at p->killed and
\* tests its condition again.
kill(p) ==
  /\ pc[p] = "asleep"
  /\ pc' = [pc EXCEPT ![p] = "begin"]
  /\ UNCHANGED <<used, n, outstanding, committing>>

\* The two panics of log_write, tested before log.lock is taken.
log_write_check(p) ==
  /\ pc[p] = "inop"
  /\ pc' = [pc EXCEPT ![p] =
              IF n >= Cap \/ outstanding < 1 THEN "panic" ELSE "append"]
  /\ UNCHANGED <<used, n, outstanding, committing>>

\* Under the lock: a block that is in the header already is absorbed, a new
\* one takes the next slot.
log_write_append(p) ==
  /\ pc[p] = "append"
  /\ \/ used[p] < OpBlocks /\ n' = n + 1 /\ used' = [used EXCEPT ![p] = @ + 1]
     \/ n > 0 /\ UNCHANGED <<n, used>>
  /\ pc' = [pc EXCEPT ![p] = "inop"]
  /\ UNCHANGED <<outstanding, committing>>

\* Mutant: log.outstanding is not decremented for the last call.
end_op_stuck(p) ==
  /\ pc[p] = "inop"
  /\ outstanding' = IF outstanding = 1 THEN 1 ELSE outstanding - 1
  /\ used' = [used EXCEPT ![p] = 0]
  /\ committing' = (committing \/ outstanding = 1)
  /\ pc' = IF outstanding = 1 THEN [pc EXCEPT ![p] = "commit"] ELSE WakeAll(p, "idle")
  /\ UNCHANGED n

end_op(p) ==
  /\ pc[p] = "inop"
  /\ outstanding' = outstanding - 1
  /\ used' = [used EXCEPT ![p] = 0]
  /\ committing' = (committing \/ outstanding = 1)
  /\ pc' = IF committing THEN [pc EXCEPT ![p] = "panic"]
           ELSE IF outstanding = 1 THEN [pc EXCEPT ![p] = "commit"]
           ELSE WakeAll(p, "idle")
  /\ UNCHANGED n

\* commit() runs without log.lock and leaves an empty header.
commit(p) ==
  /\ pc[p] = "commit"
  /\ n' = 0
  /\ pc' = [pc EXCEPT ![p] = "finish"]
  /\ UNCHANGED <<used, outstanding, committing>>

\* Mutant: end_op forgets the wakeup(&log) after commit().
end_commit_silent(p) ==
  /\ pc[p] = "finish"
  /\ committing' = FALSE
  /\ pc' = [pc EXCEPT ![p] = "idle"]
  /\ UNCHANGED <<used, n, outstanding>>

end_commit(p) ==
  /\ pc[p] = "finish"
  /\ committing' = FALSE
  /\ pc' = WakeAll(p, "idle")
  /\ UNCHANGED <<used, n, outstanding>>

Proceed(p) ==
  \/ begin_op(p) \/ log_write_append(p) \/ commit(p) \/ end_commit(p)

Next ==
  \E p \in Procs :
    Call(p) \/ kill(p) \/ log_write_check(p) \/ end_op(p) \/ Proceed(p)

\* A process that can run is scheduled again (the scheduler of proc.c scans
\* the whole table), and a system call logs finitely many blocks before it
\* reaches end_op.
Fairness ==
  \A p \in Procs : WF_vars(Proceed(p)) /\ SF_vars(end_op(p))

Spec == Init /\ [][Next]_vars /\ Fairness

-----------------------------------------------------------------------------
(* None of the panics of begin_op, log_write and end_op is reached: not     *)
(* "too big a transaction" (although the check is made on an lh.n that may  *)
(* grow before the lock is taken), "log_write outside of trans", nor        *)
(* "log.committing".                                                        *)
NoPanic == \A p \in Procs : pc[p] # "panic"

(* log.outstanding counts the processes between begin_op and end_op, and    *)
(* log.committing is set exactly while one process is in commit().          *)
CountersAgree ==
  /\ AdmissionTypeOK
  /\ outstanding = Cardinality(Active)
  /\ committing <=> \E p \in Procs : pc[p] \in {"commit", "finish"}
  /\ Cardinality({p \in Procs : pc[p] \in {"commit", "finish"}}) <= 1

(* No lost wakeup: whenever a process sleeps in begin_op some call is still *)
(* active or committing, so an end_op that wakes it is still to come.       *)
SleeperHasWaker ==
  (\E p \in Procs : pc[p] = "asleep") => outstanding > 0 \/ committing

(* A process that sleeps in begin_op is woken, whatever the other calls do. *)
SleeperWoken == \A p \in Procs : pc[p] = "asleep" ~> pc[p] = "begin"

(* The admission protocol implements GroupCommit: a slot is appended only   *)
(* while one is free, and commit starts with no call active.  What          *)
(* GroupCommitProofs proves of GroupCommit (CommitExcludesCalls,            *)
(* ReservationsFit, RoomForActive) then holds of it too.                    *)
GC == INSTANCE GroupCommit WITH active <- Active
GroupCommitSpec == GC!Spec
=============================================================================
