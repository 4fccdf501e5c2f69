------------------------------ MODULE ProcTable ------------------------------
(***************************************************************************)
(* The life of processes in proc.c: allocproc, fork, exit, wait, kill and  *)
(* the sleep and wakeup they rest on.  A step is a critical section of     *)
(* ptable.lock, or an assignment made without it (fork's error paths).     *)
(* Slots are the entries of ptable.proc in table order; slot 1 is initproc *)
(* and 0 stands for the null parent.  RUNNABLE stands for RUNNING as well: *)
(* Scheduler.tla has the processors.                                       *)
(***************************************************************************)
EXTENDS Integers, FiniteSets, FiniteSetsExt

CONSTANTS
  NPROC,     \* table size
  MaxPid,    \* bound on the pids handed out
  KillPids   \* the arguments kill is called with

ASSUME ProcAssumption ==
  NPROC \in Nat \ {0} /\ MaxPid \in Nat \ {0} /\ KillPids \subseteq Nat

Slots == 1..NPROC
initproc == 1

VARIABLES
  state, parent, pid, killed, chan,  \* struct proc, one per slot
  nextpid,
  pc,       \* what the process of a slot executes
  np,       \* np[p]: the slot fork allocated for p
  early,    \* history: the slots kill() marked while they held no process yet
  panicked

links == <<parent, pid, nextpid>>
vars == <<state, links, killed, early, chan, pc, np, panicked>>

States == {"UNUSED", "EMBRYO", "SLEEPING", "RUNNABLE", "ZOMBIE"}

ProcTypeOK ==
  /\ state \in [Slots -> States]
  /\ parent \in [Slots -> 0..NPROC]
  /\ pid \in [Slots -> 0..MaxPid]
  /\ killed \in [Slots -> BOOLEAN]
  /\ chan \in [Slots -> {"none", "io", "child"}]
  /\ \A p \in Slots : state[p] = "SLEEPING" <=> chan[p] # "none"
  /\ nextpid \in 1..(MaxPid + 1)
  /\ pc \in [Slots -> {"user", "call", "fork", "wait", "exit"}]
  /\ np \in [Slots -> 0..NPROC]
  /\ panicked \in BOOLEAN

\* userinit
Init ==
  /\ state = [p \in Slots |-> IF p = initproc THEN "RUNNABLE" ELSE "UNUSED"]
  /\ parent = [p \in Slots |-> 0]
  /\ pid = [p \in Slots |-> IF p = initproc THEN 1 ELSE 0]
  /\ killed = [p \in Slots |-> FALSE]
  /\ chan = [p \in Slots |-> "none"]
  /\ nextpid = 2
  /\ pc = [p \in Slots |-> "user"]
  /\ np = [p \in Slots |-> 0]
  /\ early = {}
  /\ panicked = FALSE

Runs(p, label) == state[p] = "RUNNABLE" /\ pc[p] = label /\ ~panicked
Children(p) == {q \in Slots : parent[q] = p}
Zombies(p) == {q \in Children(p) : state[q] = "ZOMBIE"}

\* Mutant: sleep() returns without resetting chan.
Unslept_not(W) == chan

\* chan once sleep() has resumed in the processes of W.
Unslept(W) == [q \in Slots |-> IF q \in W THEN "none" ELSE chan[q]]

-----------------------------------------------------------------------------
(* Sleeping in a system call *)

\* A system call, which a killed process no longer makes, sleeps on a channel
\* that is not a process, and is woken; sleep() resets chan when it resumes.
sleep(p) ==
  /\ (Runs(p, "user") /\ ~killed[p]) \/ Runs(p, "call")
  /\ pc' = [pc EXCEPT ![p] = "call"]
  /\ state' = [state EXCEPT ![p] = "SLEEPING"]
  /\ chan' = [chan EXCEPT ![p] = "io"]
  /\ UNCHANGED <<links, killed, early, np, panicked>>

wakeup(p) ==
  /\ state[p] = "SLEEPING" /\ chan[p] = "io" /\ ~panicked
  /\ state' = [state EXCEPT ![p] = "RUNNABLE"]
  /\ chan' = Unslept({p})
  /\ UNCHANGED <<links, killed, early, pc, np, panicked>>

call_returns(p) ==
  /\ Runs(p, "call")
  /\ pc' = [pc EXCEPT ![p] = "user"]
  /\ UNCHANGED <<state, links, killed, early, chan, np, panicked>>

-----------------------------------------------------------------------------
(* fork *)

FreeSlots == {q \in Slots : state[q] = "UNUSED"}

\* Mutant: nextpid is not advanced.
Allotted_same == nextpid

Allotted == nextpid + 1

\* The scan of allocproc; without a free slot fork returns -1.
allocproc(p) ==
  LET q == Min(FreeSlots) IN
  /\ Runs(p, "user") /\ ~killed[p]
  /\ FreeSlots # {} /\ nextpid <= MaxPid
  /\ state' = [state EXCEPT ![q] = "EMBRYO"]
  /\ pid' = [pid EXCEPT ![q] = nextpid]
  /\ nextpid' = Allotted
  /\ np' = [np EXCEPT ![p] = q]
  /\ pc' = [pc EXCEPT ![p] = "fork"]
  /\ UNCHANGED <<parent, killed, early, chan, panicked>>

\* kalloc or copyuvm fails.  The slot keeps its pid and its killed flag.
fork_fails(p) ==
  /\ Runs(p, "fork")
  /\ state' = [state EXCEPT ![np[p]] = "UNUSED"]
  /\ np' = [np EXCEPT ![p] = 0]
  /\ pc' = [pc EXCEPT ![p] = "user"]
  /\ UNCHANGED <<links, killed, early, chan, panicked>>

fork(p) ==
  /\ Runs(p, "fork")
  /\ parent' = [parent EXCEPT ![np[p]] = p]
  /\ state' = [state EXCEPT ![np[p]] = "RUNNABLE"]
  /\ pc' = [pc EXCEPT ![p] = "user", ![np[p]] = "user"]
  /\ np' = [np EXCEPT ![p] = 0]
  /\ UNCHANGED <<pid, nextpid, killed, early, chan, panicked>>

-----------------------------------------------------------------------------
(* exit, wait, kill *)

\* A process calls exit, or trap() makes it exit because it was killed; it
\* closes its files (what it sleeps for there is left out).  init.c never calls exit.
exit_begins(p) ==
  /\ Runs(p, "user")
  /\ p # initproc \/ killed[p]
  /\ panicked' = (p = initproc)
  /\ pc' = [pc EXCEPT ![p] = "exit"]
  /\ UNCHANGED <<state, links, killed, early, chan, np>>

\* Mutant: nobody is woken.
wakeup1_none(W) == {}

\* wakeup1(chan) for the processes of W that sleep in wait().
wakeup1(W) == {q \in W : state[q] = "SLEEPING" /\ chan[q] = "child"}

\* Mutant: children are not passed to init.
Reparented_not(p) == parent

Reparented(p) == [q \in Slots |-> IF parent[q] = p THEN initproc ELSE parent[q]]

\* Mutant: init is not told of the zombies it inherits.
Told_parent(p) == {parent[p]}

\* Whom exit() wakes: the parent, and init if it inherits a zombie.
Told(p) == {parent[p]} \cup (IF Zombies(p) = {} THEN {} ELSE {initproc})

exit(p) ==
  LET woken == wakeup1(Told(p) \cap Slots) IN
  /\ Runs(p, "exit")
  /\ parent' = Reparented(p)
  /\ state' = [q \in Slots |-> IF q = p THEN "ZOMBIE"
                               ELSE IF q \in woken THEN "RUNNABLE" ELSE state[q]]
  /\ chan' = Unslept(woken)
  /\ UNCHANGED <<pid, nextpid, killed, early, pc, np, panicked>>

wait_begins(p) ==
  /\ Runs(p, "user") /\ ~killed[p]
  /\ pc' = [pc EXCEPT ![p] = "wait"]
  /\ UNCHANGED <<state, links, killed, early, chan, np, panicked>>

\* Mutant: the flag is left to the next process.
Reaped_killed(z) == killed

\* The flags once slot z is free again.
Reaped(z) == [killed EXCEPT ![z] = FALSE]

\* One scan of wait(): reap the first zombie child, give up, or sleep.
wait(p) ==
  LET z == Min(Zombies(p)) IN
  /\ Runs(p, "wait")
  /\ IF Zombies(p) # {}
     THEN /\ pid' = [pid EXCEPT ![z] = 0]
          /\ parent' = [parent EXCEPT ![z] = 0]
          /\ killed' = Reaped(z)
          /\ early' = early \ {z}
          /\ state' = [state EXCEPT ![z] = "UNUSED"]
          /\ pc' = [pc EXCEPT ![p] = "user", ![z] = "user"]
          /\ UNCHANGED chan
     ELSE IF Children(p) = {} \/ killed[p]
     THEN /\ pc' = [pc EXCEPT ![p] = "user"]
          /\ UNCHANGED <<pid, parent, killed, early, state, chan>>
     ELSE /\ state' = [state EXCEPT ![p] = "SLEEPING"]
          /\ chan' = [chan EXCEPT ![p] = "child"]
          /\ UNCHANGED <<pid, parent, killed, early, pc>>
  /\ UNCHANGED <<nextpid, np, panicked>>

\* Mutant: a sleeper is marked but stays asleep.
Roused_not(q) == state[q]

Roused(q) == IF state[q] = "SLEEPING" THEN "RUNNABLE" ELSE state[q]

\* The first slot with that pid, whatever its state.
kill(p, k) ==
  LET found == {q \in Slots : pid[q] = k}
      q == Min(found) IN
  /\ Runs(p, "user") /\ ~killed[p]
  /\ found # {}
  /\ killed' = [killed EXCEPT ![q] = TRUE]
  /\ early' = IF state[q] \in {"UNUSED", "EMBRYO"} THEN early \cup {q} ELSE early
  /\ state' = [state EXCEPT ![q] = Roused(q)]
  /\ chan' = Unslept({q} \cap {r \in Slots : Roused(r) # state[r]})
  /\ UNCHANGED <<links, pc, np, panicked>>

Step(p) ==
  fork_fails(p) \/ fork(p) \/ exit(p) \/ wait(p) \/ (killed[p] /\ exit_begins(p))

Next ==
  \E p \in Slots :
    \/ sleep(p) \/ wakeup(p) \/ call_returns(p)
    \/ allocproc(p) \/ fork_fails(p) \/ fork(p)
    \/ exit_begins(p) \/ exit(p) \/ wait_begins(p) \/ wait(p)
    \/ \E k \in KillPids : kill(p, k)

\* A process that can run is scheduled, as scheduler() scans the whole table.
Fairness == \A p \in Slots : WF_vars(Step(p))

Spec == Init /\ [][Next]_vars /\ Fairness

-----------------------------------------------------------------------------
(* A zombie or living process always has a parent that can still reap it:   *)
(* exit() hands children to init before it becomes a zombie itself.         *)
ParentCanReap ==
  \A p \in Slots \ {initproc} :
    state[p] \notin {"UNUSED", "EMBRYO"} =>
      /\ parent[p] \in Slots \ {p}
      /\ state[parent[p]] \notin {"UNUSED", "EMBRYO", "ZOMBIE"}

(* No lost wakeup between exit() and wait(): a process asleep in wait() has  *)
(* a child, none of its children is a zombie, and it was not killed.         *)
WaiterHasReason ==
  \A p \in Slots : state[p] = "SLEEPING" /\ chan[p] = "child" =>
    Children(p) # {} /\ Zombies(p) = {} /\ ~killed[p]

(* The killed flag of one process never passes to the next in its slot: a   *)
(* slot without a process is marked only if kill() was called with the pid  *)
(* it has by then (0, that of a failed fork, or that of a fork still under  *)
(* way), as kill() does not look at the state.                              *)
FlagIsOwn ==
  \A p \in Slots : state[p] \in {"UNUSED", "EMBRYO"} /\ killed[p] => p \in early

(* Slots in use have different pids, an unused slot is nobody's child, and   *)
(* the slot fork() fills stays its own, although its error paths release     *)
(* the slot without ptable.lock.                                             *)
TableConsistent ==
  /\ ProcTypeOK /\ FlagIsOwn
  /\ \A p, q \in Slots : p # q /\ {state[p], state[q]} \cap {"UNUSED"} = {} =>
       pid[p] # pid[q] /\ pid[p] # 0
  /\ \A p \in Slots : state[p] = "UNUSED" => parent[p] = 0
  /\ \A p \in Slots : pc[p] = "fork" => state[np[p]] = "EMBRYO"
  /\ \A p, q \in Slots : np[p] = np[q] /\ np[p] # 0 => p = q

(* wait() by a process that has a zombie child returns.                      *)
WaitReturns ==
  \A p \in Slots : pc[p] = "wait" /\ Zombies(p) # {} ~> pc[p] # "wait" \/ panicked

(* A process killed in wait() exits: kill() makes it runnable, wait()        *)
(* returns -1 or a child, and trap() calls exit().                           *)
KilledDies ==
  \A p \in Slots : killed[p] /\ state[p] # "UNUSED" /\ pc[p] = "wait"
                     ~> state[p] = "ZOMBIE" \/ panicked

(* proc.c:476 "Kill the process with the given pid": a slot that allocproc   *)
(* hands out is not killed, as nobody can have killed that process yet.      *)
KilledByPid ==
  [][\A p \in Slots : state[p] = "UNUSED" /\ state'[p] = "EMBRYO" => ~killed'[p]]_vars
=============================================================================
