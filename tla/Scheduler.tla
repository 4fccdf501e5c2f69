------------------------------ MODULE Scheduler ------------------------------
(***************************************************************************)
(* Processors, spin locks and the switch between processes: spinlock.c,    *)
(* scheduler, sched, yield, forkret, sleep and wakeup of proc.c, and the   *)
(* timer branch of trap(), with sys_sleep (which an interrupt wakes), wait *)
(* (which sleeps on ptable.lock itself), exit and kill as the clients.     *)
(*                                                                         *)
(* A thread is a process or the scheduler loop of a processor.  todo[t] is *)
(* what its kernel stack still has to execute; an interrupt pushes its     *)
(* handler on the stack of the thread it interrupts.  A step is what a     *)
(* processor does between two points where others can interfere.           *)
(***************************************************************************)
EXTENDS Integers, Sequences, FiniteSets, FiniteSetsExt

CONSTANTS
  NPROC, NCPU,
  Wrap,      \* ticks counts modulo Wrap (2^32 in the code)
  Naps       \* the arguments of sys_sleep

ASSUME SchedulerAssumption ==
  NPROC \in Nat \ {0} /\ NCPU \in Nat \ {0} /\ Wrap \in Nat \ {0} /\ Naps \subseteq 0..(Wrap - 1)

Procs == 1..NPROC
CPUs == 1..NCPU
initproc == 1                     \* the parent of all others
Threads == Procs \cup {-c : c \in CPUs}
NoCPU == 0

VARIABLES
  state, chan, killed,            \* struct proc
  cproc, ncli, intena,            \* struct cpu
  ie,                             \* FL_IF of each processor
  lock,                           \* the processor that holds ptable.lock, tickslock
  ticks, ticks0, n,               \* ticks, and the locals of sys_sleep
  todo,
  slept,                          \* history: ticks since sys_sleep read ticks0, up to n
  panicked

proc == <<state, chan, killed>>
cpu == <<cproc, ncli, intena, ie>>
clock == <<ticks, ticks0, n, slept>>
vars == <<proc, cpu, clock, lock, todo, panicked>>

-----------------------------------------------------------------------------
(* Kernel code as the operations still to be executed. *)

Op(name, arg) == <<<<name, arg>>>>
acquire(l) == Op("acquire", l)
release(l) == Op("release", l)
exit == acquire("ptable") \o Op("exit", 0)
user == Op("user", 0)
syscall(body) == body \o Op("sysret", 0) \o user

\* Mutant: lk is released before ptable.lock is taken.
sleep_gap(ch, lk) ==
  IF lk = "ptable" THEN Op("sleep", ch)
  ELSE release(lk) \o acquire("ptable") \o Op("sleep", ch) \o release("ptable") \o acquire(lk)

sleep(ch, lk) ==
  IF lk = "ptable" THEN Op("sleep", ch)
  ELSE acquire("ptable") \o release(lk) \o Op("sleep", ch) \o release("ptable") \o acquire(lk)

\* trap() for the timer: processor 1 is the one with cpuid() 0.
timer(c, from) ==
  IF c = 1 THEN acquire("ticks") \o Op("tick", 0) \o acquire("ptable") \o Op("wakeup1", "ticks")
                \o release("ticks") \o Op("trap", from)
  ELSE Op("trap", from)

Init ==
  /\ state = [p \in Procs |-> "RUNNABLE"]
  /\ chan = [p \in Procs |-> "none"]
  /\ killed = [p \in Procs |-> FALSE]
  /\ cproc = [c \in CPUs |-> 0]
  /\ ncli = [c \in CPUs |-> 0]
  /\ intena = [c \in CPUs |-> FALSE]
  /\ ie = [c \in CPUs |-> FALSE]
  /\ lock = [l \in {"ptable", "ticks"} |-> NoCPU]
  /\ ticks = 0
  /\ ticks0 = [p \in Procs |-> 0] /\ n = [p \in Procs |-> 0] /\ slept = [p \in Procs |-> 0]
  /\ todo = [t \in Threads |-> IF t < 0 THEN Op("loop", 0)
                               ELSE release("ptable") \o Op("trapret", "kernel") \o user]
  /\ panicked = FALSE

Thread(c) == IF cproc[c] = 0 THEN -c ELSE cproc[c]
At(c, name) == ~panicked /\ todo[Thread(c)][1][1] = name
Arg(c) == todo[Thread(c)][1][2]
Then(c, ops) == todo' = [todo EXCEPT ![Thread(c)] = ops \o Tail(@)]
Panic(others) == panicked' = TRUE /\ UNCHANGED others

-----------------------------------------------------------------------------
(* spinlock.c *)

\* Mutant: interrupts stay on.
pushcli_on(c) ==
  /\ intena' = IF ncli[c] = 0 THEN [intena EXCEPT ![c] = ie[c]] ELSE intena
  /\ ncli' = [ncli EXCEPT ![c] = @ + 1]
  /\ ie' = ie

pushcli(c) ==
  /\ intena' = IF ncli[c] = 0 THEN [intena EXCEPT ![c] = ie[c]] ELSE intena
  /\ ncli' = [ncli EXCEPT ![c] = @ + 1]
  /\ ie' = [ie EXCEPT ![c] = FALSE]

\* acquire: pushcli and, if the lock is free, the xchg that takes it; else the
\* processor spins with interrupts off.
Acquire(c) ==
  /\ At(c, "acquire")
  /\ IF lock[Arg(c)] = c THEN Panic(<<cpu, lock, todo>>)
     ELSE /\ pushcli(c)
          /\ IF lock[Arg(c)] = NoCPU
             THEN lock' = [lock EXCEPT ![Arg(c)] = c] /\ Then(c, <<>>)
             ELSE lock' = lock /\ Then(c, Op("spin", Arg(c)))
          /\ UNCHANGED <<cproc, panicked>>
  /\ UNCHANGED <<proc, clock>>

Spin(c) ==
  /\ At(c, "spin") /\ lock[Arg(c)] = NoCPU
  /\ lock' = [lock EXCEPT ![Arg(c)] = c]
  /\ Then(c, <<>>)
  /\ UNCHANGED <<proc, cpu, clock, panicked>>

popcli(c) ==
  /\ ncli' = [ncli EXCEPT ![c] = @ - 1]
  /\ ie' = [ie EXCEPT ![c] = ncli[c] = 1 /\ intena[c]]

\* release(l), which ends with popcli, and then ops.  popcli panics when
\* interrupts are on or ncli is 0.
Released(c, l, ops) ==
  IF lock[l] # c \/ ie[c] \/ ncli[c] < 1
  THEN Panic(<<ncli, ie, lock, todo>>)
  ELSE /\ lock' = [lock EXCEPT ![l] = NoCPU]
       /\ popcli(c)
       /\ Then(c, ops)
       /\ UNCHANGED panicked

Release(c) ==
  /\ At(c, "release")
  /\ Released(c, Arg(c), <<>>)
  /\ UNCHANGED <<proc, cproc, intena, clock>>

-----------------------------------------------------------------------------
(* scheduler() and sched() *)

\* sti() at the top of the loop.
Loop(c) ==
  /\ At(c, "loop")
  /\ ie' = [ie EXCEPT ![c] = TRUE]
  /\ Then(c, acquire("ptable") \o Op("scan", 1))
  /\ UNCHANGED <<proc, cproc, ncli, intena, clock, lock, panicked>>

\* Mutant: p->state is set to RUNNING after the switch.
Chosen_late(p) == state

\* The state of the process the scheduler switches to.
Chosen(p) == [state EXCEPT ![p] = "RUNNING"]

\* The scan from slot Arg(c) on; a switch leaves ptable.lock to the process.
Scan(c) ==
  LET found == {p \in Procs : p >= Arg(c) /\ state[p] = "RUNNABLE"}
      p == Min(found) IN
  /\ At(c, "scan")
  /\ IF found = {}
     THEN Released(c, "ptable", Op("loop", 0)) /\ UNCHANGED <<state, cproc>>
     ELSE /\ cproc' = [cproc EXCEPT ![c] = p]
          /\ state' = Chosen(p)
          /\ Then(c, Op("scan", p + 1))
          /\ UNCHANGED <<ncli, ie, lock, panicked>>
  /\ UNCHANGED <<chan, killed, intena, clock>>

\* Mutant: intena is left as the scheduler has it.
SavedIntena_dropped(c) == FALSE

\* What sched() restores when the process runs again, maybe elsewhere.
SavedIntena(c) == intena[c]

\* sched(), the states of processes being s.
sched(c, s) ==
  IF lock["ptable"] # c \/ ncli[c] # 1 \/ ie[c] THEN Panic(<<state, cproc, todo>>)
  ELSE /\ state' = s
       /\ todo' = [todo EXCEPT ![cproc[c]] = Op("resume", SavedIntena(c)) \o Tail(@)]
       /\ cproc' = [cproc EXCEPT ![c] = 0]
       /\ UNCHANGED panicked

\* sched() returns, and sleep() resets chan.
Resume(c) ==
  /\ At(c, "resume")
  /\ intena' = [intena EXCEPT ![c] = Arg(c)]
  /\ chan' = [chan EXCEPT ![cproc[c]] = "none"]
  /\ Then(c, <<>>)
  /\ UNCHANGED <<state, killed, cproc, ncli, ie, clock, lock, panicked>>

Yield(c) ==
  /\ At(c, "yield")
  /\ sched(c, [state EXCEPT ![cproc[c]] = "RUNNABLE"])
  /\ UNCHANGED <<chan, killed, ncli, intena, ie, clock, lock>>

Sleep(c) ==
  /\ At(c, "sleep")
  /\ chan' = [chan EXCEPT ![cproc[c]] = Arg(c)]
  /\ sched(c, [state EXCEPT ![cproc[c]] = "SLEEPING"])
  /\ UNCHANGED <<killed, ncli, intena, ie, clock, lock>>

Woken(ch) == [p \in Procs |-> IF state[p] = "SLEEPING" /\ chan[p] = ch THEN "RUNNABLE" ELSE state[p]]

\* wakeup1 and the release that ends wakeup.
Wakeup1(c) ==
  /\ At(c, "wakeup1")
  /\ state' = Woken(Arg(c))
  /\ Released(c, "ptable", <<>>)
  /\ UNCHANGED <<chan, killed, cproc, intena, clock>>

-----------------------------------------------------------------------------
(* Interrupts and system calls *)

\* The interrupt gate turns interrupts off.
Interrupt(c) ==
  /\ ie[c] /\ ~panicked
  /\ ie' = [ie EXCEPT ![c] = FALSE]
  /\ todo' = [todo EXCEPT ![Thread(c)] =
                timer(c, IF At(c, "user") THEN "user" ELSE "kernel") \o @]
  /\ UNCHANGED <<proc, cproc, ncli, intena, clock, lock, panicked>>

\* Mutant: ticks does not wrap.
NextTick_wide == ticks + 1

NextTick == (ticks + 1) % Wrap

Tick(c) ==
  /\ At(c, "tick")
  /\ ticks' = NextTick
  /\ slept' = [p \in Procs |-> IF slept[p] < n[p] THEN slept[p] + 1 ELSE slept[p]]
  /\ Then(c, <<>>)
  /\ UNCHANGED <<proc, cpu, ticks0, n, lock, panicked>>

Dies(c) == cproc[c] # 0 /\ killed[cproc[c]] /\ Arg(c) = "user"
Yields(c) == At(c, "trap") /\ cproc[c] # 0 /\ state[cproc[c]] = "RUNNING"

\* The end of trap(): exit if killed, yield on the clock tick, test again and
\* return from the interrupt.
Trap(c) ==
  /\ At(c, "trap") \/ At(c, "iret") \/ At(c, "trapret")
  /\ Then(c, IF Dies(c) THEN exit \o Op("iret", Arg(c))
             ELSE IF Yields(c)
             THEN acquire("ptable") \o Op("yield", 0) \o release("ptable") \o Op("iret", Arg(c))
             ELSE <<>>)
  /\ ie' = [ie EXCEPT ![c] = ~Dies(c) /\ ~Yields(c)]
  /\ UNCHANGED <<proc, cproc, ncli, intena, clock, lock, panicked>>

\* System calls: init waits for its children or kills one, the others sleep
\* or exit.  A process that was killed exits instead.
Syscall(c) ==
  LET p == cproc[c]
      Call(body) == todo' = [todo EXCEPT ![p] = body]
  IN
  /\ At(c, "user")
  /\ \/ /\ killed[p] \/ p # initproc
        /\ Call(exit) /\ UNCHANGED n
     \/ /\ ~killed[p] /\ p = initproc
        /\ \/ Call(syscall(acquire("ptable") \o Op("wait", 0)))
           \/ \E q \in Procs \ {p} : Call(syscall(acquire("ptable") \o Op("kill", q)))
        /\ UNCHANGED n
     \/ /\ ~killed[p] /\ p # initproc
        /\ \E k \in Naps :
             /\ n' = [n EXCEPT ![p] = k]
             /\ Call(syscall(acquire("ticks") \o Op("sys_sleep", TRUE) \o release("ticks")))
  /\ UNCHANGED <<proc, cpu, ticks, ticks0, slept, lock, panicked>>

Sysret(c) ==
  /\ At(c, "sysret")
  /\ Then(c, IF killed[cproc[c]] THEN exit ELSE <<>>)
  /\ UNCHANGED <<proc, cpu, clock, lock, panicked>>

\* Mutant: the deadline is computed in advance and compared.
Elapsed_deadline(start, k) == ticks >= (start + k) % Wrap

\* Unsigned subtraction.
Elapsed(start, k) == (ticks - start) % Wrap >= k

\* One round of sys_sleep's loop; the first one reads ticks0.
sys_sleep(c) ==
  LET p == cproc[c]
      start == IF Arg(c) THEN ticks ELSE ticks0[p]
      done == Elapsed(start, n[p]) \/ killed[p] IN
  /\ At(c, "sys_sleep")
  /\ Then(c, IF done THEN <<>> ELSE sleep("ticks", "ticks") \o Op("sys_sleep", FALSE))
  /\ n' = [n EXCEPT ![p] = IF done THEN 0 ELSE @]
  /\ ticks0' = [ticks0 EXCEPT ![p] = IF done THEN 0 ELSE start]
  /\ slept' = [slept EXCEPT ![p] = IF done \/ Arg(c) THEN 0 ELSE @]
  /\ UNCHANGED <<proc, cpu, ticks, lock, panicked>>

\* One scan of wait(): ptable.lock is kept over the sleep.
wait(c) ==
  LET kids == {q \in Procs \ {initproc} : state[q] # "UNUSED"}
      zombies == {q \in kids : state[q] = "ZOMBIE"}
      Reap(f, v) == [q \in Procs |-> IF zombies # {} /\ q = Min(zombies) THEN v ELSE f[q]] IN
  /\ At(c, "wait")
  /\ state' = Reap(state, "UNUSED")
  /\ killed' = Reap(killed, FALSE)
  /\ IF zombies # {} \/ kids = {} THEN Released(c, "ptable", <<>>)
     ELSE /\ Then(c, sleep("child", "ptable") \o Op("wait", 0))
          /\ UNCHANGED <<ncli, ie, lock, panicked>>
  /\ UNCHANGED <<chan, cproc, intena, clock>>

Exit(c) ==
  /\ At(c, "exit")
  /\ sched(c, [Woken("child") EXCEPT ![cproc[c]] = "ZOMBIE"])
  /\ UNCHANGED <<chan, killed, ncli, intena, ie, clock, lock>>

kill(c) ==
  LET q == Arg(c) IN
  /\ At(c, "kill")
  /\ killed' = [killed EXCEPT ![q] = state[q] # "UNUSED"]
  /\ state' = [state EXCEPT ![q] = IF @ = "SLEEPING" THEN "RUNNABLE" ELSE @]
  /\ Released(c, "ptable", <<>>)
  /\ UNCHANGED <<chan, cproc, intena, clock>>

Step(c) ==
  \/ Acquire(c) \/ Spin(c) \/ Release(c) \/ Loop(c) \/ Scan(c) \/ Resume(c)
  \/ Yield(c) \/ Sleep(c) \/ Wakeup1(c) \/ Tick(c) \/ Trap(c)
  \/ Syscall(c) \/ Sysret(c) \/ sys_sleep(c) \/ wait(c) \/ Exit(c) \/ kill(c)

Next == \E c \in CPUs : Step(c) \/ Interrupt(c)

Spec == Init /\ [][Next]_vars

-----------------------------------------------------------------------------
Pending(t, name) == \E i \in DOMAIN todo[t] : todo[t][i][1] = name
Held(c) == {l \in DOMAIN lock : lock[l] = c}

\* Types of the scheduler; ticks stays within its width.
SchedulerTypeOK ==
  /\ state \in [Procs -> {"UNUSED", "SLEEPING", "RUNNABLE", "RUNNING", "ZOMBIE"}]
  /\ chan \in [Procs -> {"none", "ticks", "child"}]
  /\ killed \in [Procs -> BOOLEAN]
  /\ cproc \in [CPUs -> 0..NPROC]
  /\ ncli \in [CPUs -> 0..2] /\ intena \in [CPUs -> BOOLEAN] /\ ie \in [CPUs -> BOOLEAN]
  /\ lock \in [{"ptable", "ticks"} -> 0..NCPU]
  /\ ticks \in 0..(Wrap - 1)
  /\ ticks0 \in [Procs -> 0..(Wrap - 1)] /\ n \in [Procs -> Naps \cup {0}]

(* None of the panics of spinlock.c and sched() is reached: no processor    *)
(* takes a lock it holds (its interrupt handler included), releases one it  *)
(* does not hold, or switches with another lock held or interrupts on.      *)
NoPanic == ~panicked

(* A kernel stack is used by one processor at a time.  A process that is    *)
(* not RUNNING is still on its stack only while its processor holds         *)
(* ptable.lock, so neither another scheduler nor wait() can take it over.   *)
StackHasOneUser ==
  /\ \A c, d \in CPUs : cproc[c] # 0 /\ cproc[c] = cproc[d] => c = d
  /\ \A c \in CPUs : cproc[c] # 0 /\ state[cproc[c]] # "RUNNING" => lock["ptable"] = c
  /\ \A p \in Procs : state[p] = "RUNNING" => \E c \in CPUs : cproc[c] = p

(* spinlock.c:103 "it takes two popcli to undo two pushcli": whatever       *)
(* processor a process continues on, ncli is the number of locks the        *)
(* processor holds or spins for, interrupts are off while it is not 0, and  *)
(* once it is 0 a process has them on unless it is in a handler or has just *)
(* come from fork (forkret goes on with what the scheduler had).            *)
InterruptsFollowLocks ==
  \A c \in CPUs :
    /\ ncli[c] = Cardinality(Held(c)) + (IF At(c, "spin") THEN 1 ELSE 0) \/ panicked
    /\ ie[c] => ncli[c] = 0
    /\ ncli[c] = 0 /\ cproc[c] # 0 /\ ~Pending(cproc[c], "trapret") =>
         (ie[c] <=> ~Pending(cproc[c], "trap") /\ ~Pending(cproc[c], "iret"))

(* Context switches, locks and interrupt flags fit together on all           *)
(* processors.                                                               *)
SwitchingSafe == SchedulerTypeOK /\ NoPanic /\ StackHasOneUser /\ InterruptsFollowLocks

(* No lost wakeup: a process asleep in sys_sleep whose time has come is     *)
(* about to be woken, and init asleep in wait() has a child still to exit.  *)
NoLostWakeup ==
  /\ \A p \in Procs : state[p] = "SLEEPING" /\ chan[p] = "ticks" /\ Elapsed(ticks0[p], n[p]) =>
       \E t \in Threads : Pending(t, "wakeup1")
  /\ state[initproc] = "SLEEPING" => \E q \in Procs \ {initproc} : state[q] \notin {"UNUSED", "ZOMBIE"}

(* sys_sleep(n) returns after n ticks at the earliest, also when ticks      *)
(* wraps around in between, unless the process was killed.                  *)
SleptEnough == \A p \in Procs : n[p] # 0 /\ n'[p] = 0 => slept[p] >= n[p] \/ killed[p]
SleepsLongEnough == [][SleptEnough]_vars
=============================================================================
