--------------------------- MODULE SchedulerProofs ---------------------------
(***************************************************************************)
(* Processors, spin locks and interrupts for any number of processes and   *)
(* processors: no panic, one user of a kernel stack, interrupts as the     *)
(* locks demand, no lost wakeup, and sys_sleep that sleeps long enough.    *)
(* SchedulerSteps has the invariant of switching and its steps; here are   *)
(* the invariant of sleeping, and what the two show.                       *)
(***************************************************************************)
EXTENDS SchedulerSteps

\* A leaf that names no prover is Zenon's.
USE Zenon

-----------------------------------------------------------------------------
(* The invariant of sleeping *)

Wakes(S) == \E o \in S : o[1] = "wakeup1"
Coming == \E t \in Threads : Wakes(Range(todo[t]))

\* On the way into sleep(&ticks), from the test of the loop in sys_sleep on.
Napping(p) ==
  \/ state[p] = "RUNNING" /\ Has(Range(todo[p]), "sleep", "ticks")
  \/ state[p] = "SLEEPING" /\ chan[p] = "ticks"
NapInv == \A p \in Procs : Napping(p) => ~Elapsed(ticks0[p], n[p]) \/ Coming

KidAlive == \E q \in Procs \ {initproc} : state[q] \notin {"UNUSED", "ZOMBIE"}

\* init waits for its children only, and while it has one that runs.
Waits(S) == \A o \in S : o[1] \notin {"exit", "sys_sleep"} /\ (o[1] = "sleep" => o[2] = "child")
InitInv ==
  /\ ~killed[initproc] /\ state[initproc] \notin {"UNUSED", "ZOMBIE"}
  /\ Waits(Range(todo[initproc]))
  /\ state[initproc] = "SLEEPING" => chan[initproc] = "child" /\ KidAlive
  /\ Has(Range(todo[initproc]), "sleep", "child") => KidAlive

\* slept counts what ticks - ticks0 is, until the sleep is long enough.
Sleeps(S) == \E o \in S : o[1] = "sys_sleep"
CountInv ==
  /\ slept \in [Procs -> Nat]
  /\ \A p \in Procs :
       /\ n[p] # 0 => Sleeps(Range(todo[p]))
       /\ Has(Range(todo[p]), "sys_sleep", FALSE) /\ slept[p] < n[p] =>
            (ticks - ticks0[p]) % Wrap = slept[p]

SleepInv == NapInv /\ InitInv /\ CountInv

\* What a step leaves of them.
NapsKept(S, T) == (Has(T, "sleep", "ticks") => Has(S, "sleep", "ticks")) /\ (Wakes(S) => Wakes(T))
SysKept(S, T) == /\ Sleeps(S) => Sleeps(T)
                 /\ Has(T, "sys_sleep", FALSE) => Has(S, "sys_sleep", FALSE)
StatesKept ==
  /\ \A p \in Procs : state'[p] = "SLEEPING" => state[p] = "SLEEPING" /\ chan'[p] = chan[p]
  /\ \A p \in Procs : state'[p] = "RUNNING" =>
       state[p] = "RUNNING" \/ \A e \in Range(todo'[p]) : e[1] # "sleep"
InitKept ==
  /\ killed'[initproc] = killed[initproc] /\ state'[initproc] \notin {"UNUSED", "ZOMBIE"}
  /\ KidAlive => KidAlive'

LEMMA KeepsAll ==
  ASSUME NEW S \in SUBSET Ops, NEW T \in SUBSET Ops, Keeps(S, T)
  PROVE  /\ NapsKept(S, T) /\ SysKept(S, T)
         /\ Has(T, "sleep", "child") => Has(S, "sleep", "child")
         /\ Waits(S) /\ ~Exits(T) => Waits(T)
<1>1. \A o \in T : o[1] \in {"sleep", "sys_sleep"} => o \in S
  BY DEF Keeps
<1>2. \A o \in S : o[1] \in {"wakeup1", "sys_sleep"} => o \in T
  BY DEF Keeps
<1>3. NapsKept(S, T)
  BY <1>1, <1>2 DEF NapsKept, Has, Wakes
<1>4. SysKept(S, T)
  BY <1>1, <1>2 DEF SysKept, Has, Sleeps
<1>5. Has(T, "sleep", "child") => Has(S, "sleep", "child")
  BY <1>1 DEF Has
<1>6. Waits(S) /\ ~Exits(T) => Waits(T)
  BY <1>1 DEF Waits, Exits
<1> QED BY <1>3, <1>4, <1>5, <1>6

LEMMA RangeOps == CpuOK => \A t \in Threads : Range(todo[t]) \in SUBSET Ops
BY SMT DEF CpuOK, Range, Stacks

LEMMA NapKept ==
  ASSUME NapInv, StatesKept, \A t \in Threads : NapsKept(Range(todo[t]), Range(todo'[t])), clock' = clock
  PROVE  NapInv'
<1>1. Coming => Coming'
  BY DEF Coming, NapsKept
<1>2. ASSUME NEW p \in Procs, Napping(p)'
      PROVE  Napping(p)
  <2>1. CASE state'[p] = "RUNNING" /\ Has(Range(todo'[p]), "sleep", "ticks")
    <3>1. state[p] = "RUNNING"
      BY <2>1 DEF StatesKept, Has
    <3>2. Has(Range(todo[p]), "sleep", "ticks")
      BY <2>1, InitIn DEF NapsKept
    <3> QED BY <3>1, <3>2 DEF Napping
  <2>2. CASE state'[p] = "SLEEPING" /\ chan'[p] = "ticks"
    BY <2>2 DEF StatesKept, Napping
  <2> QED BY <1>2, <2>1, <2>2 DEF Napping
<1>3. \A p \in Procs : Elapsed(ticks0[p], n[p])' <=> Elapsed(ticks0[p], n[p])
  BY DEF Elapsed, clock
<1> QED BY <1>1, <1>2, <1>3 DEF NapInv

LEMMA CountKept ==
  ASSUME CountInv, \A p \in Procs : SysKept(Range(todo[p]), Range(todo'[p])), clock' = clock
  PROVE  CountInv'
BY DEF CountInv, SysKept, clock

LEMMA InitKeeps ==
  ASSUME InitInv, StatesKept, InitKept, Waits(Range(todo'[initproc])),
         Has(Range(todo'[initproc]), "sleep", "child") => Has(Range(todo[initproc]), "sleep", "child")
  PROVE  InitInv'
BY InitIn DEF InitInv, StatesKept, InitKept

\* The steps that do not touch what sleeping is about.
LEMMA Quiet ==
  ASSUME SwitchInv, SwitchInv', SleepInv, TodoKept, clock' = clock, StatesKept, InitKept
  PROVE  SleepInv'
<1>1. \A t \in Threads : /\ Range(todo[t]) \in SUBSET Ops /\ Range(todo'[t]) \in SUBSET Ops
                         /\ Keeps(Range(todo[t]), Range(todo'[t]))
  <2>1. \A t \in Threads : Range(todo[t]) \in SUBSET Ops
    BY RangeOps DEF SwitchInv
  <2>2. todo' \in [Threads -> Stacks]
    BY DEF SwitchInv, CpuOK
  <2>3. \A t \in Threads : Range(todo'[t]) \in SUBSET Ops
    BY <2>2, SMT DEF Range, Stacks
  <2> QED BY <2>1, <2>3 DEF TodoKept
<1>2. \A t \in Threads : /\ NapsKept(Range(todo[t]), Range(todo'[t]))
                         /\ SysKept(Range(todo[t]), Range(todo'[t]))
  BY <1>1, KeepsAll
<1>3. NapInv'
  BY <1>2, NapKept DEF SleepInv
<1>4. CountInv'
  BY <1>2, CountKept, InitIn DEF SleepInv
<1>5. Waits(Range(todo'[initproc]))
  <2>1. ~Exits(Range(todo[initproc])) /\ ~killed[initproc] /\ Waits(Range(todo[initproc]))
    BY DEF SleepInv, InitInv, Waits, Exits
  <2>2. ~Exits(Range(todo'[initproc]))
    BY <2>1 DEF TodoKept
  <2> QED BY <1>1, <2>1, <2>2, InitIn, KeepsAll
<1>6. Has(Range(todo'[initproc]), "sleep", "child") => Has(Range(todo[initproc]), "sleep", "child")
  BY <1>1, InitIn, KeepsAll
<1>7. InitInv'
  BY <1>5, <1>6, InitKeeps DEF SleepInv
<1> QED BY <1>3, <1>4, <1>7 DEF SleepInv

LEMMA SameProcs ==
  ASSUME SleepInv, proc' = proc
  PROVE  StatesKept /\ InitKept
BY DEF SleepInv, InitInv, StatesKept, InitKept, KidAlive, proc

\* A process on its way into sleep() holds a lock.
LEMMA NapHolds ==
  ASSUME SwitchInv, NEW p \in Procs, state[p] = "RUNNING", NEW ch, Has(Range(todo[p]), "sleep", ch)
  PROVE  \E d \in CPUs : /\ cproc[d] = p /\ Thread(d) = p /\ Held(d) # {}
                         /\ ch = "child" => "ptable" \in Held(d)
<1>1. PICK d \in CPUs : cproc[d] = p
  BY DEF SwitchInv, OnCpu
<1>2. p # 0 /\ Thread(d) = p
  BY <1>1, SchedulerAssumption, SMT DEF Thread, Procs
<1>3. PICK x \in Ctx : Fits(x, todo[p], p, Held(d), ncli[d], ie[d], intena[d])
  BY <1>1, <1>2 DEF SwitchInv, CpuFits
<1>4. PICK s : s = todo[p]
  OBVIOUS
<1>5. PICK f \in Range(s) : f[1] = "sleep" /\ f[2] = ch
  BY <1>4 DEF Has
<1>6. \E v \in Stacks : f \in Range(v) /\ Runs(v, x)
  <2>1. s \in Stacks /\ s # <<>>
    BY <1>3, <1>4 DEF Fits
  <2>2. s[1] \in Ops /\ Tail(s) \in Stacks /\ s = Cons(s[1], Tail(s))
    BY <2>1, StackFacts
  <2>3. CASE Runs(s, x)
    BY <1>5, <2>1, <2>3
  <2>4. CASE s[1][1] = "spin" /\ Runs(Cons(<<"acquire", s[1][2]>>, Tail(s)), x)
    <3>1. Range(s) = {s[1]} \cup Range(Tail(s))
      BY <2>2, ConsFacts
    <3>2. f \in Range(Tail(s))
      BY <1>5, <2>4, <3>1
    <3>3. PICK b \in Ops : b = <<"acquire", s[1][2]>>
      <4>1. s[1][2] \in Args /\ "acquire" \in Names
        BY <2>2, OpFacts DEF Names
      <4> QED BY <4>1, OpFacts, SMT
    <3>4. Range(Cons(b, Tail(s))) = {b} \cup Range(Tail(s)) /\ Cons(b, Tail(s)) \in Stacks
      BY <2>2, ConsFacts
    <3> QED BY <2>4, <3>2, <3>3, <3>4
  <2> QED BY <1>3, <1>4, <2>3, <2>4 DEF Fits
<1>7. PICK v \in Stacks : f \in Range(v) /\ Runs(v, x)
  BY <1>6
<1>8. Tells(Range(v), x) /\ x.kind # "end"
  BY <1>3, <1>7, RunsTells DEF Fits
<1>9. x.nap = ch /\ x.nap # "no"
  BY <1>5, <1>7, <1>8 DEF Tells
<1>10. PICK b \in Ops, y \in Ctx : Trans(x, b, y)
  BY <1>7, <1>8, Pop
<1>11. x.held # {} /\ (ch = "child" => "ptable" \in x.held)
  BY <1>9, <1>10 DEF Trans, Ctx
<1> QED BY <1>1, <1>2, <1>3, <1>11 DEF Fits

\* Nothing in a process that does not run is on its way into sleep().
LEMMA ReadyNoSleep ==
  ASSUME SwitchInv, NEW p \in Procs, state[p] \in Ready
  PROVE  \A e \in Range(todo[p]) : e[1] # "sleep"
BY ParkedFacts DEF SwitchInv, ProcFits

\* wakeup1 finds nobody between the test and the switch: it has both locks.
LEMMA Wakeup1Sleep ==
  ASSUME SwitchInv, SleepInv, NEW c \in CPUs, Wakeup1(c)
  PROVE  SleepInv'
<1>1. /\ CpuOK /\ DataOK /\ Held(c) = Locks /\ state' = Woken("ticks") /\ Thread(c) \in Threads
      /\ chan' = chan /\ killed' = killed /\ clock' = clock
  BY Wakeup1Step DEF SwitchInv, Wakeup1
<1>2. PICK o \in Ops, r \in Stacks : /\ o[1] = "wakeup1" /\ Range(todo[Thread(c)]) = {o} \cup Range(r)
                                     /\ todo' = [todo EXCEPT ![Thread(c)] = r]
  BY Wakeup1Step
<1>3. /\ todo'[Thread(c)] = r /\ \A t \in Threads \ {Thread(c)} : todo'[t] = todo[t]
      /\ \A e \in Range(r) : e[1] # "sleep"
  <2>1. \A e \in Range(todo[Thread(c)]) : e[1] # "sleep"
    BY Wakeup1Step
  <2> QED BY <1>1, <1>2, <2>1 DEF CpuOK
<1>4. \A p \in Procs : /\ state'[p] = "RUNNING" => state[p] = "RUNNING"
                       /\ state'[p] = "SLEEPING" => state[p] = "SLEEPING" /\ chan[p] # "ticks"
                       /\ state'[p] \notin Ready => state'[p] = state[p]
  BY <1>1, WokenFacts
<1>5. NapInv'
  <2>1. ASSUME NEW p \in Procs, Napping(p)'
        PROVE  FALSE
    <3>1. state[p] = "RUNNING" /\ Has(Range(todo'[p]), "sleep", "ticks")
      BY <1>1, <1>4, <2>1 DEF Napping
    <3>2. p # Thread(c) /\ p \in Threads
      BY <1>3, <3>1, InitIn DEF Has
    <3>3. Has(Range(todo[p]), "sleep", "ticks")
      BY <1>3, <3>1, <3>2
    <3>4. PICK d \in CPUs : Thread(d) = p /\ Held(d) # {}
      BY <3>1, <3>3, NapHolds
    <3>5. d # c /\ Held(d) \in SUBSET Locks
      BY <1>1, <3>2, <3>4, HeldFacts
    <3>6. Held(c) \cap Held(d) = {}
      BY <1>1, <3>5, HeldFacts
    <3> QED BY <1>1, <3>4, <3>5, <3>6
  <2> QED BY <2>1 DEF NapInv
<1>6. \A t \in Threads : \A e : e[1] # "wakeup1" => (e \in Range(todo'[t]) <=> e \in Range(todo[t]))
  BY <1>2, <1>3
<1>7. CountInv'
  <2>1. \A p \in Procs : SysKept(Range(todo[p]), Range(todo'[p]))
    BY <1>6, InitIn DEF SysKept, Sleeps, Has
  <2> QED BY <1>1, <2>1, CountKept DEF SleepInv
<1>8. InitInv'
  <2>1. InitInv
    BY DEF SleepInv
  <2>2. Waits(Range(todo'[initproc]))
    BY <1>3, <1>2, <2>1, InitIn DEF InitInv, Waits
  <2>3. Has(Range(todo'[initproc]), "sleep", "child") => Has(Range(todo[initproc]), "sleep", "child")
    BY <1>6, InitIn DEF Has
  <2>4. StatesKept
    BY <1>1, <1>4 DEF StatesKept
  <2>5. KidAlive => KidAlive'
    BY <1>4 DEF KidAlive, Ready
  <2>6. InitKept
    BY <1>1, <1>4, <2>1, <2>5, InitIn DEF InitKept, InitInv, Ready
  <2> QED BY <2>1, <2>2, <2>3, <2>4, <2>6, InitKeeps
<1> QED BY <1>5, <1>7, <1>8 DEF SleepInv

\* Reading the clock one tick later, in its width.
LEMMA TickCount ==
  ASSUME NEW m \in Nat \ {0}, NEW a \in Int, NEW b \in Int, NEW k \in Nat, (a - b) % m = k, k + 1 < m
  PROVE  (((a + 1) % m) - b) % m = k + 1
<1>1. \A d \in Int : \E q \in Int : d = q * m + (d % m)
  <2>1. ASSUME NEW d \in Int
        PROVE  \E q \in Int : d = q * m + (d % m)
    <3>1. PICK q \in Int : d \div m = q
      BY SMT
    <3>2. PICK r \in Int : d % m = r
      BY SMT
    <3>3. d % m = d - m * (d \div m)
      BY SMT
    <3>4. r = d - m * q
      BY <3>1, <3>2, <3>3
    <3>5. d = q * m + r
      BY <3>4, SMT
    <3> QED BY <3>2, <3>5
  <2> QED BY <2>1
<1>2. PICK q \in Int : a - b = q * m + k
  <2>1. PICK d \in Int : d = a - b
    BY SMT
  <2> QED BY <1>1, <2>1
<1>3. PICK e \in Int : e = a + 1
  BY SMT
<1>4. PICK f \in Int : f = e % m
  BY <1>3, SMT
<1>5. PICK t \in Int : e = t * m + f
  BY <1>1, <1>4
<1>6. f - b = (q - t) * m + (k + 1)
  BY <1>2, <1>3, <1>5, SMT
<1>7. \A u \in Int, r \in 0..(m - 1) : (u * m + r) % m = r
  BY SMT
<1>8. q - t \in Int /\ k + 1 \in 0..(m - 1)
  BY SMT
<1>9. ((q - t) * m + (k + 1)) % m = k + 1
  BY <1>7, <1>8
<1>10. (f - b) % m = k + 1
  BY <1>6, <1>9
<1> QED BY <1>3, <1>4, <1>10

\* The tick, with its wakeup1 still to come.
LEMMA TickSleep ==
  ASSUME SwitchInv, SleepInv, NEW c \in CPUs, Tick(c)
  PROVE  SleepInv'
<1>1. /\ SwitchInv' /\ TodoKept /\ proc' = proc /\ n' = n /\ ticks0' = ticks0 /\ ticks' = (ticks + 1) % Wrap
      /\ slept' = [p \in Procs |-> IF slept[p] < n[p] THEN slept[p] + 1 ELSE slept[p]]
  BY TickStep DEF Tick, NextTick
<1>2. Coming'
  BY TickStep DEF Coming, Wakes
<1>3. NapInv'
  BY <1>2 DEF NapInv
<1>4. \A t \in Threads : Range(todo[t]) \in SUBSET Ops /\ Range(todo'[t]) \in SUBSET Ops
  <2>1. \A t \in Threads : Range(todo[t]) \in SUBSET Ops
    BY RangeOps DEF SwitchInv
  <2>2. todo' \in [Threads -> Stacks]
    BY <1>1 DEF SwitchInv, CpuOK
  <2> QED BY <2>1, <2>2, SMT DEF Range, Stacks
<1>5. \A t \in Threads : Keeps(Range(todo[t]), Range(todo'[t]))
  BY <1>1 DEF TodoKept
<1>6. InitInv'
  <2>1. InitInv /\ ~Exits(Range(todo[initproc])) /\ ~killed[initproc] /\ Waits(Range(todo[initproc]))
    BY DEF SleepInv, InitInv, Waits, Exits
  <2>2. ~Exits(Range(todo'[initproc]))
    BY <1>1, <2>1 DEF TodoKept
  <2>3. /\ Waits(Range(todo'[initproc]))
        /\ Has(Range(todo'[initproc]), "sleep", "child") => Has(Range(todo[initproc]), "sleep", "child")
    BY <1>4, <1>5, <2>1, <2>2, InitIn, KeepsAll
  <2>4. StatesKept /\ InitKept
    BY <1>1, SameProcs
  <2> QED BY <2>1, <2>3, <2>4, InitKeeps
<1>7. CountInv'
  <2>1. CountInv /\ DataOK
    BY DEF SleepInv, SwitchInv
  <2>2. slept' \in [Procs -> Nat]
    BY <1>1, <2>1, SMT DEF CountInv
  <2>3. ASSUME NEW p \in Procs
        PROVE  /\ n'[p] # 0 => Sleeps(Range(todo'[p]))
               /\ Has(Range(todo'[p]), "sys_sleep", FALSE) /\ slept'[p] < n'[p] =>
                    (ticks' - ticks0'[p]) % Wrap = slept'[p]
    <3>1. SysKept(Range(todo[p]), Range(todo'[p]))
      BY <1>4, <1>5, InitIn, KeepsAll
    <3>2. n'[p] # 0 => Sleeps(Range(todo'[p]))
      BY <1>1, <2>1, <3>1 DEF CountInv, SysKept
    <3>3. ASSUME Has(Range(todo'[p]), "sys_sleep", FALSE), slept'[p] < n'[p]
          PROVE  (ticks' - ticks0'[p]) % Wrap = slept'[p]
      <4>0. slept[p] \in Nat /\ n[p] \in 0..(Wrap - 1)
        <5>1. slept[p] \in Nat /\ n[p] \in Naps \cup {0}
          BY <2>1 DEF CountInv, DataOK
        <5>2. \A v \in Naps \cup {0} : v \in 0..(Wrap - 1)
          BY SchedulerAssumption, SMT
        <5> QED BY <5>1, <5>2
      <4>1. PICK k \in Nat, m \in Nat : k = slept[p] /\ m = n[p]
        BY <4>0, SMT
      <4>2. slept'[p] = IF k < m THEN k + 1 ELSE k
        BY <1>1, <4>1
      <4>3. k < m /\ slept'[p] = k + 1 /\ k + 1 < m
        BY <1>1, <3>3, <4>1, <4>2
      <4>4. (ticks - ticks0[p]) % Wrap = k
        BY <2>1, <3>1, <3>3, <4>1, <4>3 DEF CountInv, SysKept
      <4>5. m < Wrap /\ Wrap \in Nat \ {0} /\ ticks \in Int /\ ticks0[p] \in Int
        BY <2>1, <4>0, <4>1, SchedulerAssumption, SMT DEF DataOK
      <4>6. k + 1 < Wrap
        BY <4>3, <4>5, SMT
      <4>7. (((ticks + 1) % Wrap) - ticks0[p]) % Wrap = k + 1
        BY <4>4, <4>5, <4>6, TickCount
      <4> QED BY <1>1, <4>3, <4>7
    <3> QED BY <3>2, <3>3
  <2> QED BY <2>2, <2>3 DEF CountInv
<1> QED BY <1>3, <1>6, <1>7 DEF SleepInv

\* sleep(): the process was already on the way.
LEMMA SleepSleep ==
  ASSUME SwitchInv, SleepInv, NEW c \in CPUs, Sleep(c)
  PROVE  SleepInv'
<1>1. PICK p \in Procs : p = cproc[c]
  BY SleepStep
<1>2. /\ CpuOK /\ DataOK /\ p \in Threads /\ state[p] = "RUNNING" /\ state' = [state EXCEPT ![p] = "SLEEPING"]
      /\ chan' = [chan EXCEPT ![p] = Arg(c)] /\ Has(Range(todo[p]), "sleep", Arg(c))
      /\ killed' = killed /\ clock' = clock
  BY <1>1, SleepStep, InitIn DEF SwitchInv, Sleep
<1>3. PICK o \in Ops, r \in Stacks : o[1] = "sleep" /\ Left(c, r) /\ Range(todo[p]) = {o} \cup Range(r)
  BY <1>1, SleepStep, SMT
<1>4. PICK s \in Stacks, a \in Ops : /\ todo' = [todo EXCEPT ![p] = s] /\ a[1] = "resume"
                                     /\ Range(s) = {a} \cup Range(r)
  BY <1>1, <1>3 DEF Left
<1>5. todo'[p] = s /\ \A t \in Threads \ {p} : todo'[t] = todo[t]
  BY <1>2, <1>4 DEF CpuOK
<1>6. \A t \in Threads : \A e : /\ e \in Range(todo'[t]) /\ e[1] # "resume" => e \in Range(todo[t])
                                /\ e \in Range(todo[t]) /\ e[1] # "sleep" => e \in Range(todo'[t])
  BY <1>3, <1>4, <1>5
<1>7. NapInv'
  <2>1. Coming => Coming'
    BY <1>6 DEF Coming, Wakes
  <2>2. ASSUME NEW q \in Procs, Napping(q)'
        PROVE  Napping(q)
    <3>1. CASE q = p
      BY <1>2, <2>2, <3>1 DEF Napping, DataOK
    <3>2. CASE q # p
      <4>1. state'[q] = state[q] /\ chan'[q] = chan[q] /\ todo'[q] = todo[q]
        BY <1>2, <1>5, <3>2, InitIn DEF DataOK
      <4> QED BY <2>2, <4>1 DEF Napping
    <3> QED BY <3>1, <3>2
  <2>3. \A q \in Procs : Elapsed(ticks0[q], n[q])' <=> Elapsed(ticks0[q], n[q])
    BY <1>2 DEF Elapsed, clock
  <2> QED BY <2>1, <2>2, <2>3 DEF NapInv, SleepInv
<1>8. CountInv'
  <2>1. \A q \in Procs : SysKept(Range(todo[q]), Range(todo'[q]))
    BY <1>6, InitIn DEF SysKept, Sleeps, Has
  <2> QED BY <1>2, <2>1, CountKept DEF SleepInv
<1>9. InitInv'
  <2>1. InitInv
    BY DEF SleepInv
  <2>2. Waits(Range(todo'[initproc]))
    BY <1>3, <1>4, <1>5, <2>1, InitIn DEF InitInv, Waits
  <2>3. KidAlive => KidAlive'
    BY <1>2 DEF KidAlive, DataOK
  <2>4. Has(Range(todo'[initproc]), "sleep", "child") => KidAlive'
    <3>1. Has(Range(todo'[initproc]), "sleep", "child") => Has(Range(todo[initproc]), "sleep", "child")
      BY <1>6, InitIn DEF Has
    <3> QED BY <2>1, <2>3, <3>1 DEF InitInv
  <2>5. ~killed'[initproc] /\ state'[initproc] \notin {"UNUSED", "ZOMBIE"}
    BY <1>2, <2>1, InitIn DEF InitInv, DataOK
  <2>6. state'[initproc] = "SLEEPING" => chan'[initproc] = "child" /\ KidAlive'
    <3>1. CASE p = initproc
      <4>1. Arg(c) = "child"
        BY <1>2, <2>1, <3>1 DEF InitInv, Waits, Has
      <4>2. chan'[initproc] = "child"
        BY <1>2, <3>1, <4>1 DEF DataOK
      <4> QED BY <1>2, <2>1, <2>3, <3>1, <4>1, <4>2 DEF InitInv
    <3>2. CASE p # initproc
      <4>1. state'[initproc] = state[initproc] /\ chan'[initproc] = chan[initproc]
        BY <1>2, <3>2, InitIn DEF DataOK
      <4> QED BY <2>1, <2>3, <4>1 DEF InitInv
    <3> QED BY <3>1, <3>2
  <2> QED BY <2>2, <2>4, <2>5, <2>6 DEF InitInv
<1> QED BY <1>7, <1>8, <1>9 DEF SleepInv

\* A system call begins with n = 0, whatever its argument was before.
LEMMA SyscallCount ==
  ASSUME SwitchInv, SleepInv, NEW c \in CPUs, Syscall(c)
  PROVE  n[cproc[c]] = 0 /\ \A q \in Procs : q # cproc[c] => n'[q] = n[q]
<1>1. PICK p \in Procs : p = cproc[c] /\ \A e \in Range(todo[p]) : e[1] = "user"
  BY SyscallStep
<1>2. n[p] = 0
  BY <1>1 DEF SleepInv, CountInv, Sleeps
<1>3. PICK s : Called(p, s)
  BY <1>1, SyscallStep
<1>4. n' = n \/ \E k \in Naps : n' = [n EXCEPT ![p] = k]
  BY <1>3 DEF Called
<1>5. DataOK
  BY DEF SwitchInv
<1> QED BY <1>1, <1>2, <1>4, <1>5 DEF DataOK

LEMMA SyscallSleep ==
  ASSUME SwitchInv, SleepInv, NEW c \in CPUs, Syscall(c)
  PROVE  SleepInv'
<1>1. PICK p \in Procs : p = cproc[c] /\ \A e \in Range(todo[p]) : e[1] = "user"
  BY SyscallStep
<1>2. PICK s \in Stacks : Called(p, s) /\ todo' = [todo EXCEPT ![p] = s]
  BY <1>1, SyscallStep
<1>3. /\ CpuOK /\ DataOK /\ proc' = proc /\ ticks' = ticks /\ ticks0' = ticks0 /\ slept' = slept
      /\ p \in Threads
  BY InitIn DEF SwitchInv, Syscall
<1>4. todo'[p] = s /\ \A t \in Threads \ {p} : todo'[t] = todo[t]
  BY <1>2, <1>3 DEF CpuOK
<1>5. \A q \in Procs : q # p => n'[q] = n[q]
  BY <1>1, SyscallCount
<1>6. /\ \A e \in Range(s) : e[1] \notin {"sleep", "wakeup1"} /\ (e[1] = "sys_sleep" => e[2] # FALSE)
      /\ p = initproc => \A e \in Range(s) : e[1] # "sys_sleep"
      /\ n'[p] # 0 => Sleeps(Range(s))
      /\ p = initproc /\ ~killed[p] => \A e \in Range(s) : e[1] # "exit"
  <2>1. n[p] = 0
    BY <1>1, SyscallCount
  <2> QED BY <1>2, <2>1 DEF Called, Has, Sleeps
<1>7. NapInv'
  <2>1. Coming => Coming'
    <3>1. ASSUME Coming PROVE Coming'
      <4>1. PICK t \in Threads : Wakes(Range(todo[t]))
        BY <3>1 DEF Coming
      <4>2. t # p
        BY <1>1, <4>1 DEF Wakes
      <4> QED BY <1>4, <4>1, <4>2 DEF Coming
    <3> QED BY <3>1
  <2>2. ASSUME NEW q \in Procs, Napping(q)'
        PROVE  Napping(q) /\ q # p
    <3>1. state' = state /\ chan' = chan
      BY <1>3 DEF proc
    <3>2. q # p
      BY <1>1, <1>4, <1>6, <2>2, <3>1, SyscallStep DEF Napping, Has
    <3> QED BY <1>4, <2>2, <3>1, <3>2, InitIn DEF Napping
  <2>3. \A q \in Procs : q # p => (Elapsed(ticks0[q], n[q])' <=> Elapsed(ticks0[q], n[q]))
    BY <1>3, <1>5 DEF Elapsed
  <2> QED BY <2>1, <2>2, <2>3 DEF NapInv, SleepInv
<1>8. CountInv'
  <2>1. CountInv
    BY DEF SleepInv
  <2>2. ASSUME NEW q \in Procs
        PROVE  /\ n'[q] # 0 => Sleeps(Range(todo'[q]))
               /\ Has(Range(todo'[q]), "sys_sleep", FALSE) /\ slept'[q] < n'[q] =>
                    (ticks' - ticks0'[q]) % Wrap = slept'[q]
    <3>1. CASE q = p
      BY <1>4, <1>6, <3>1 DEF Has
    <3>2. CASE q # p
      <4>1. todo'[q] = todo[q] /\ n'[q] = n[q]
        BY <1>4, <1>5, <3>2, InitIn
      <4> QED BY <1>3, <2>1, <4>1 DEF CountInv
    <3> QED BY <3>1, <3>2
  <2> QED BY <1>3, <2>1, <2>2 DEF CountInv
<1>9. InitInv'
  <2>1. InitInv /\ StatesKept /\ InitKept
    BY <1>3, SameProcs DEF SleepInv
  <2>2. /\ Waits(Range(todo'[initproc]))
        /\ Has(Range(todo'[initproc]), "sleep", "child") => Has(Range(todo[initproc]), "sleep", "child")
    <3>1. CASE p = initproc
      BY <1>4, <1>6, <2>1, <3>1 DEF InitInv, Waits, Has
    <3>2. CASE p # initproc
      BY <1>4, <2>1, <3>2, InitIn DEF InitInv
    <3> QED BY <3>1, <3>2
  <2> QED BY <2>1, <2>2, InitKeeps
<1> QED BY <1>7, <1>8, <1>9 DEF SleepInv

\* sys_sleep goes to sleep before the time has come.
LEMMA SysSleepSleep ==
  ASSUME SwitchInv, SleepInv, NEW c \in CPUs, sys_sleep(c)
  PROVE  SleepInv'
<1>1. PICK p \in Procs : p = cproc[c]
  BY SysSleepStep
<1>2. /\ CpuOK /\ DataOK /\ p \in Threads /\ proc' = proc /\ ticks' = ticks /\ Arg(c) \in BOOLEAN
      /\ n' = [n EXCEPT ![p] = IF Fin(c) THEN 0 ELSE n[p]]
      /\ ticks0' = [ticks0 EXCEPT ![p] = IF Fin(c) THEN 0 ELSE Start(c)]
      /\ slept' = [slept EXCEPT ![p] = IF Fin(c) \/ Arg(c) THEN 0 ELSE slept[p]]
      /\ state[p] = "RUNNING"
  BY <1>1, SysSleepStep, InitIn DEF SwitchInv
<1>0. PICK o \in Ops, r \in Stacks, s \in Stacks :
        /\ o[1] = "sys_sleep" /\ o[2] = Arg(c)
        /\ Range(todo[cproc[c]]) = {o} \cup Range(r) /\ \A e \in Range(r) : e[1] # "sleep"
        /\ todo' = [todo EXCEPT ![cproc[c]] = s]
        /\ Fin(c) => s = r
        /\ ~Fin(c) => \E M \in SUBSET Ops :
                        /\ Range(s) = M \cup Range(r) /\ Has(M, "sys_sleep", FALSE)
                        /\ \A e \in M : e[1] \notin {"wakeup1", "exit"}
  BY SysSleepStep
<1>3. /\ o[1] = "sys_sleep" /\ o[2] = Arg(c) /\ Range(todo[p]) = {o} \cup Range(r)
      /\ (\A e \in Range(r) : e[1] # "sleep") /\ (Fin(c) => s = r)
  BY <1>0, <1>1
<1>4. todo'[p] = s /\ \A t \in Threads \ {p} : todo'[t] = todo[t]
  <2>1. todo' = [todo EXCEPT ![p] = s]
    BY <1>0, <1>1
  <2> QED BY <1>2, <2>1 DEF CpuOK
<1>5. \A q \in Procs : q # p => /\ n'[q] = n[q] /\ ticks0'[q] = ticks0[q] /\ slept'[q] = slept[q]
                                /\ todo'[q] = todo[q]
  BY <1>2, <1>4, InitIn DEF DataOK, SleepInv, CountInv
<1>6. Range(r) \subseteq Range(s) /\ (~Fin(c) => Sleeps(Range(s)))
  BY <1>0 DEF Has, Sleeps
<1>7. state' = state /\ chan' = chan /\ killed' = killed
  BY <1>2 DEF proc
<1>8. CountInv /\ InitInv /\ NapInv /\ p # initproc
  BY <1>3 DEF SleepInv, InitInv, Waits
<1>9. ~Fin(c) => n'[p] = n[p] /\ ticks0'[p] = Start(c) /\ ~Elapsed(Start(c), n[p])
  BY <1>1, <1>2 DEF DataOK, Fin
<1>10. NapInv'
  <2>1. Coming => Coming'
    <3>1. \A t \in Threads : Wakes(Range(todo[t])) => Wakes(Range(todo'[t]))
      BY <1>3, <1>4, <1>6 DEF Wakes
    <3> QED BY <3>1 DEF Coming
  <2>2. ASSUME NEW q \in Procs, Napping(q)'
        PROVE  ~Elapsed(ticks0[q], n[q])' \/ Coming'
    <3>1. CASE q = p
      <4>1. ~Fin(c)
        BY <1>2, <1>3, <1>4, <1>7, <2>2, <3>1 DEF Napping, Has
      <4>2. ~Elapsed(ticks0[p], n[p])'
        BY <1>2, <1>9, <4>1 DEF Elapsed
      <4> QED BY <3>1, <4>2
    <3>2. CASE q # p
      <4>1. Napping(q)
        BY <1>5, <1>7, <2>2, <3>2 DEF Napping
      <4>2. Elapsed(ticks0[q], n[q])' <=> Elapsed(ticks0[q], n[q])
        BY <1>2, <1>5, <3>2 DEF Elapsed
      <4> QED BY <1>8, <2>1, <4>1, <4>2 DEF NapInv
    <3> QED BY <3>1, <3>2
  <2> QED BY <2>2 DEF NapInv
<1>11. CountInv'
  <2>1. slept' \in [Procs -> Nat]
    BY <1>2, <1>8 DEF CountInv
  <2>2. ASSUME NEW q \in Procs
        PROVE  /\ n'[q] # 0 => Sleeps(Range(todo'[q]))
               /\ Has(Range(todo'[q]), "sys_sleep", FALSE) /\ slept'[q] < n'[q] =>
                    (ticks' - ticks0'[q]) % Wrap = slept'[q]
    <3>1. CASE q # p
      BY <1>2, <1>5, <1>8, <3>1 DEF CountInv
    <3>2. CASE q = p /\ Fin(c)
      <4>1. n'[p] = 0 /\ slept'[p] = 0
        BY <1>2, <1>8, <3>2 DEF DataOK, CountInv
      <4> QED BY <3>2, <4>1, SMT
    <3>3. CASE q = p /\ ~Fin(c) /\ Arg(c)
      <4>1. ticks0'[p] = ticks /\ slept'[p] = 0
        BY <1>2, <1>8, <1>9, <3>3 DEF CountInv, Start
      <4>2. (ticks - ticks) % Wrap = 0
        <5>1. Wrap \in Nat \ {0} /\ ticks \in Int
          BY <1>2, SchedulerAssumption, SMT DEF DataOK
        <5> QED BY <5>1, SMT
      <4>3. ticks' = ticks /\ Sleeps(Range(todo'[q]))
        BY <1>2, <1>4, <1>6, <3>3
      <4>4. ticks0'[q] = ticks /\ slept'[q] = 0
        BY <3>3, <4>1
      <4> QED BY <4>2, <4>3, <4>4
    <3>4. CASE q = p /\ ~Fin(c) /\ ~Arg(c)
      <4>1. ticks0'[p] = ticks0[p] /\ slept'[p] = slept[p] /\ n'[p] = n[p]
        BY <1>1, <1>2, <1>8, <1>9, <3>4 DEF CountInv, Start
      <4>2. Has(Range(todo[p]), "sys_sleep", FALSE)
        <5>1. Arg(c) = FALSE
          BY <1>2, <3>4
        <5>2. o \in Range(todo[p]) /\ o[1] = "sys_sleep" /\ o[2] = FALSE
          BY <1>3, <5>1
        <5> QED BY <5>2 DEF Has
      <4>3. ticks' = ticks /\ Sleeps(Range(todo'[q]))
        BY <1>2, <1>4, <1>6, <3>4
      <4> QED BY <1>8, <3>4, <4>1, <4>2, <4>3 DEF CountInv
    <3> QED BY <3>1, <3>2, <3>3, <3>4
  <2> QED BY <2>1, <2>2 DEF CountInv
<1>12. InitInv'
  <2>1. StatesKept /\ InitKept /\ todo'[initproc] = todo[initproc]
    BY <1>2, <1>5, <1>8, SameProcs, InitIn
  <2> QED BY <1>8, <2>1, InitKeeps DEF InitInv
<1> QED BY <1>10, <1>11, <1>12 DEF SleepInv

\* exit() wakes init, which sleeps if at all, as ptable.lock is held.
LEMMA ExitSleep ==
  ASSUME SwitchInv, SleepInv, NEW c \in CPUs, Exit(c)
  PROVE  SleepInv'
<1>1. PICK p \in Procs : p = cproc[c]
  BY ExitStep
<1>2. /\ SwitchInv' /\ TodoKept /\ "ptable" \in Held(c) /\ Exits(Range(todo[p])) /\ CpuOK /\ DataOK
      /\ state' = [Woken("child") EXCEPT ![p] = "ZOMBIE"] /\ InitInv
      /\ chan' = chan /\ killed' = killed /\ clock' = clock
  BY <1>1, ExitStep DEF SwitchInv, SleepInv, Exit
<1>3. p # initproc
  BY <1>2 DEF InitInv, Waits, Exits
<1>4. \A q \in Procs : Woken("child")[q] = IF state[q] = "SLEEPING" /\ chan[q] = "child" THEN "RUNNABLE" ELSE state[q]
  BY DEF Woken
<1>5. state'[p] = "ZOMBIE" /\ \A q \in Procs : q # p => state'[q] = Woken("child")[q]
  <2>1. Woken("child") \in [Procs -> {"UNUSED", "SLEEPING", "RUNNABLE", "RUNNING", "ZOMBIE"}]
    BY <1>2, WokenFacts
  <2> QED BY <1>2, <2>1
<1>6. StatesKept
  BY <1>2, <1>4, <1>5 DEF StatesKept
<1>7. state'[initproc] \notin {"UNUSED", "ZOMBIE", "SLEEPING"}
  BY <1>2, <1>3, <1>4, <1>5, InitIn DEF InitInv
<1>8. ~Has(Range(todo[initproc]), "sleep", "child")
  <2>1. SUFFICES ASSUME Has(Range(todo[initproc]), "sleep", "child") PROVE FALSE
    OBVIOUS
  <2>2. state[initproc] = "RUNNING"
    <3>1. state[initproc] \notin Ready
      BY <2>1, ReadyNoSleep, InitIn DEF Has
    <3>2. state[initproc] \in {"UNUSED", "SLEEPING", "RUNNABLE", "RUNNING", "ZOMBIE"}
      BY <1>2, InitIn DEF DataOK
    <3> QED BY <1>2, <3>1, <3>2 DEF Ready, InitInv
  <2>3. PICK d \in CPUs : cproc[d] = initproc /\ "ptable" \in Held(d)
    BY <2>1, <2>2, NapHolds, InitIn
  <2>4. d # c
    BY <1>1, <1>3, <2>3
  <2> QED BY <1>2, <2>3, <2>4, HeldFacts
<1>9. \A t \in Threads : /\ Range(todo[t]) \in SUBSET Ops /\ Range(todo'[t]) \in SUBSET Ops
                         /\ Keeps(Range(todo[t]), Range(todo'[t]))
  <2>1. \A t \in Threads : Range(todo[t]) \in SUBSET Ops
    BY <1>2, RangeOps
  <2>2. todo' \in [Threads -> Stacks]
    BY <1>2 DEF SwitchInv, CpuOK
  <2>3. \A t \in Threads : Range(todo'[t]) \in SUBSET Ops
    BY <2>2, SMT DEF Range, Stacks
  <2> QED BY <1>2, <2>1, <2>3 DEF TodoKept
<1>10. \A t \in Threads : NapsKept(Range(todo[t]), Range(todo'[t])) /\ SysKept(Range(todo[t]), Range(todo'[t]))
  BY <1>9, KeepsAll
<1>11. NapInv' /\ CountInv'
  BY <1>2, <1>6, <1>10, NapKept, CountKept, InitIn DEF SleepInv
<1>12. InitInv'
  <2>1. ~Exits(Range(todo[initproc])) /\ ~killed[initproc] /\ Waits(Range(todo[initproc]))
    BY <1>2 DEF InitInv, Waits, Exits
  <2>2. ~Exits(Range(todo'[initproc]))
    BY <1>2, <2>1 DEF TodoKept
  <2>3. Waits(Range(todo'[initproc])) /\ ~Has(Range(todo'[initproc]), "sleep", "child")
    BY <1>8, <1>9, <2>1, <2>2, InitIn, KeepsAll
  <2> QED BY <1>2, <1>7, <2>1, <2>3 DEF InitInv
<1> QED BY <1>11, <1>12 DEF SleepInv

LEMMA ThreeOps ==
  ASSUME NEW a \in Ops, NEW b \in Ops, NEW d \in Ops
  PROVE  Range(App(Snoc(One(a), b), One(d))) = {a, b, d}
<1>0. <<d>> \in Stacks
  BY SMT DEF Stacks
<1>1. PICK q \in Stacks : q = One(d)
  BY <1>0 DEF One
<1>2. Range(q) = {d}
  BY <1>1, SMT DEF One, Range
<1>3. App(Snoc(One(a), b), q) = Cons(a, Cons(b, q))
  BY Lists, SMT
<1>4. PICK r \in Stacks : r = Cons(b, q) /\ Range(r) = {b} \cup Range(q)
  BY ConsFacts
<1>5. Range(Cons(a, r)) = {a} \cup Range(r)
  BY ConsFacts
<1>6. Range(Cons(a, r)) = {a, b, d}
  BY <1>2, <1>4, <1>5
<1> QED BY <1>1, <1>3, <1>4, <1>6

LEMMA InitSleep == Init => SleepInv
<1> SUFFICES ASSUME Init PROVE SleepInv
  OBVIOUS
<1>1. /\ state = [p \in Procs |-> "RUNNABLE"] /\ killed = [p \in Procs |-> FALSE]
      /\ n = [p \in Procs |-> 0] /\ slept = [p \in Procs |-> 0]
  BY DEF Init
<1>2. NapInv
  BY <1>1, InitSwitch, ReadyNoSleep DEF NapInv, Napping
<1>3. CountInv
  BY <1>1, SMT DEF CountInv
<1>4. InitInv
  <2>1. todo[initproc] = release("ptable") \o Op("trapret", "kernel") \o user
    BY InitIn, SchedulerAssumption, SMT DEF Init, initproc
  <2>2. PICK a \in Ops, b \in Ops, d \in Ops :
          a = <<"release", "ptable">> /\ b = <<"trapret", "kernel">> /\ d = <<"user", 0>>
    BY OpFacts DEF Names, Args
  <2>3. \A o \in Range(todo[initproc]) : o[1] \in {"release", "trapret", "user"}
    <3>1. todo[initproc] = App(Snoc(One(a), b), One(d))
      BY <2>1, <2>2 DEF release, Op, user, App, Snoc, One
    <3>2. Range(todo[initproc]) = {a, b, d}
      BY <3>1, ThreeOps
    <3> QED BY <2>2, <3>2, SMT
  <2>4. Waits(Range(todo[initproc])) /\ ~Has(Range(todo[initproc]), "sleep", "child")
    BY <2>3 DEF Waits, Has
  <2> QED BY <1>1, <2>4, InitIn DEF InitInv
<1> QED BY <1>2, <1>3, <1>4 DEF SleepInv

LEMMA SleepImplies == SwitchInv /\ SleepInv => NoLostWakeup
<1> SUFFICES ASSUME SwitchInv, SleepInv PROVE NoLostWakeup
  OBVIOUS
<1>1. ASSUME NEW p \in Procs, state[p] = "SLEEPING", chan[p] = "ticks", Elapsed(ticks0[p], n[p])
      PROVE  \E t \in Threads : Pending(t, "wakeup1")
  <2>1. PICK t \in Threads : Wakes(Range(todo[t]))
    BY <1>1 DEF SleepInv, NapInv, Napping, Coming
  <2>2. CpuOK
    BY DEF SwitchInv
  <2> QED BY <2>1, <2>2, PendingIn DEF Wakes
<1>2. state[initproc] = "SLEEPING" => \E q \in Procs \ {initproc} : state[q] \notin {"UNUSED", "ZOMBIE"}
  BY DEF SleepInv, InitInv, KidAlive
<1> QED BY <1>1, <1>2 DEF NoLostWakeup

\* wait() sleeps while there is a child that is no zombie.
LEMMA WaitSleep ==
  ASSUME FirstIn, SwitchInv, SleepInv, NEW c \in CPUs, wait(c)
  PROVE  SleepInv'
<1>1. SwitchInv' /\ Reaped /\ CpuOK /\ DataOK /\ InitInv
  BY WaitStep DEF SwitchInv, SleepInv
<1>2. StatesKept /\ InitKept
  <2>1. KidAlive => KidAlive'
    BY <1>1 DEF Reaped, KidAlive
  <2>2. killed'[initproc] = killed[initproc] /\ state'[initproc] = state[initproc]
    BY <1>1, InitIn DEF Reaped, InitInv
  <2>3. StatesKept
    BY <1>1 DEF Reaped, StatesKept
  <2> QED BY <1>1, <2>1, <2>2, <2>3 DEF InitKept, InitInv
<1>3. clock' = clock
  BY <1>1 DEF Reaped
<1>4. CASE TodoKept
  BY <1>1, <1>2, <1>3, <1>4, Quiet
<1>5. CASE ~TodoKept
  <2>1. PICK p \in Procs : p = cproc[c]
    BY WaitStep
  <2>2. PICK r \in Stacks, s \in Stacks, o \in Ops, M \in SUBSET Ops :
          /\ o[1] = "wait" /\ Range(todo[p]) = {o} \cup Range(r)
          /\ todo' = [todo EXCEPT ![p] = s] /\ Range(s) = M \cup Range(r)
          /\ \A e \in M : e[1] = "wait" \/ (e[1] = "sleep" /\ e[2] = "child")
    BY <1>5, <2>1, WaitStep, SMT
  <2>3. todo'[p] = s /\ \A t \in Threads \ {p} : todo'[t] = todo[t]
    BY <1>1, <2>2, InitIn DEF CpuOK
  <2>4. \A t \in Threads : NapsKept(Range(todo[t]), Range(todo'[t])) /\ SysKept(Range(todo[t]), Range(todo'[t]))
    <3>1. NapsKept(Range(todo[p]), Range(s))
      BY <2>2 DEF NapsKept, Has, Wakes
    <3>2. SysKept(Range(todo[p]), Range(s))
      BY <2>2 DEF SysKept, Has, Sleeps
    <3>3. \A S : NapsKept(S, S) /\ SysKept(S, S)
      BY DEF NapsKept, SysKept
    <3> QED BY <2>3, <3>1, <3>2, <3>3
  <2>5. NapInv' /\ CountInv'
    BY <1>2, <1>3, <2>4, NapKept, CountKept, InitIn DEF SleepInv
  <2>6. KidAlive'
    <3>1. Zombies = {} /\ Kids # {}
      BY <1>5, WaitStep
    <3>2. KidAlive
      BY <3>1 DEF Zombies, Kids, KidAlive
    <3> QED BY <1>2, <3>2 DEF InitKept
  <2>7. Waits(Range(todo'[initproc]))
    <3>1. CASE p = initproc
      BY <1>1, <2>2, <2>3, <3>1 DEF InitInv, Waits
    <3>2. CASE p # initproc
      BY <1>1, <2>3, <3>2, InitIn DEF InitInv
    <3> QED BY <3>1, <3>2
  <2>8. InitInv'
    BY <1>1, <1>2, <2>6, <2>7, InitIn DEF InitInv, StatesKept, InitKept
  <2> QED BY <2>5, <2>8 DEF SleepInv
<1> QED BY <1>4, <1>5

\* The steps after which no more processes sleep, and the pending operations
\* that sleeping is about are the same.
LEMMA QuietSteps ==
  ASSUME FirstIn, SwitchInv, SleepInv, NEW c \in CPUs,
         \/ Acquire(c) \/ Spin(c) \/ Release(c) \/ Loop(c) \/ Scan(c) \/ Resume(c) \/ Yield(c)
         \/ Trap(c) \/ Interrupt(c) \/ Sysret(c) \/ kill(c)
  PROVE  SleepInv' /\ n' = n
<1>0. DataOK /\ InitInv
  BY DEF SwitchInv, SleepInv
<1>1. CASE Acquire(c) \/ Spin(c) \/ Release(c) \/ Loop(c) \/ Trap(c) \/ Interrupt(c) \/ Sysret(c)
  <2>1. SwitchInv' /\ TodoKept
    BY <1>1, AcquireStep, SpinStep, ReleaseStep, LoopStep, TrapStep, InterruptStep, SysretStep
  <2>2. proc' = proc /\ clock' = clock
    BY <1>1 DEF Acquire, Spin, Release, Loop, Trap, Interrupt, Sysret
  <2> QED BY <2>1, <2>2, SameProcs, Quiet DEF clock
<1>2. CASE Scan(c)
  <2>1. SwitchInv' /\ TodoKept /\ chan' = chan /\ killed' = killed /\ clock' = clock
    BY <1>2, ScanStep DEF Scan
  <2>2. CASE state' = state
    BY <1>0, <2>1, <2>2, SameProcs, Quiet DEF proc, clock
  <2>3. CASE state' # state
    <3>1. PICK p \in Procs : /\ state[p] = "RUNNABLE" /\ state' = [state EXCEPT ![p] = "RUNNING"]
                             /\ \A e \in Range(todo'[p]) : e[1] # "sleep"
      BY <1>2, <2>3, ScanStep
    <3>2. state'[p] = "RUNNING" /\ \A q \in Procs : q # p => state'[q] = state[q]
      BY <1>0, <3>1 DEF DataOK
    <3>3. StatesKept
      BY <2>1, <3>1, <3>2 DEF StatesKept
    <3>4. InitKept
      BY <1>0, <2>1, <3>2, InitIn DEF InitKept, KidAlive, InitInv
    <3> QED BY <2>1, <3>3, <3>4, Quiet DEF clock
  <2> QED BY <2>2, <2>3
<1>3. CASE Resume(c)
  <2>1. /\ SwitchInv' /\ TodoKept /\ cproc[c] \in Procs /\ state[cproc[c]] = "RUNNING"
        /\ chan' = [chan EXCEPT ![cproc[c]] = "none"] /\ state' = state /\ killed' = killed /\ clock' = clock
    BY <1>3, ResumeStep DEF Resume
  <2>2. StatesKept
    BY <1>0, <2>1 DEF StatesKept, DataOK
  <2>3. InitKept
    BY <1>0, <2>1 DEF InitKept, KidAlive, InitInv
  <2> QED BY <2>1, <2>2, <2>3, Quiet DEF clock
<1>4. CASE Yield(c)
  <2>1. PICK p \in Procs : p = cproc[c] /\ state' = [state EXCEPT ![p] = "RUNNABLE"]
    BY <1>4, YieldStep
  <2>2. SwitchInv' /\ TodoKept /\ chan' = chan /\ killed' = killed /\ clock' = clock
    BY <1>4, YieldStep DEF Yield
  <2>3. state'[p] = "RUNNABLE" /\ \A q \in Procs : q # p => state'[q] = state[q]
    BY <1>0, <2>1 DEF DataOK
  <2>4. state[p] = "RUNNING"
    <3>1. OnCpu /\ CpuOK
      BY DEF SwitchInv
    <3>2. p # 0
      BY SchedulerAssumption, SMT DEF Procs
    <3> QED BY <2>1, <3>1, <3>2 DEF OnCpu
  <2>5. StatesKept
    BY <2>2, <2>3 DEF StatesKept
  <2>6. InitKept
    BY <1>0, <2>2, <2>3, <2>4, InitIn DEF InitKept, KidAlive, InitInv
  <2> QED BY <2>2, <2>5, <2>6, Quiet DEF clock
<1>5. CASE kill(c)
  <2>1. PICK q \in Procs \ {initproc} : q = Arg(c)
    BY <1>5, KillStep
  <2>2. /\ SwitchInv' /\ TodoKept /\ chan' = chan /\ clock' = clock
        /\ killed' = [killed EXCEPT ![q] = state[q] # "UNUSED"]
        /\ state' = [state EXCEPT ![q] = IF state[q] = "SLEEPING" THEN "RUNNABLE" ELSE state[q]]
    BY <1>5, <2>1, KillStep DEF kill
  <2>3. /\ state'[q] = IF state[q] = "SLEEPING" THEN "RUNNABLE" ELSE state[q]
        /\ \A p \in Procs : p # q => state'[p] = state[p] /\ killed'[p] = killed[p]
    BY <1>0, <2>2 DEF DataOK
  <2>4. StatesKept
    BY <2>2, <2>3, SMT DEF StatesKept
  <2>5. InitKept
    BY <1>0, <2>2, <2>3, InitIn, SMT DEF InitKept, KidAlive, InitInv
  <2> QED BY <2>2, <2>4, <2>5, Quiet DEF clock
<1> QED BY <1>1, <1>2, <1>3, <1>4, <1>5

-----------------------------------------------------------------------------
(* Conclusions *)

LEMMA SwitchNext == FirstIn /\ SwitchInv /\ [Next]_vars => SwitchInv'
<1> SUFFICES ASSUME FirstIn, SwitchInv, [Next]_vars PROVE SwitchInv'
  OBVIOUS
<1>1. CASE UNCHANGED vars
  <2>1. /\ state' = state /\ chan' = chan /\ killed' = killed /\ cproc' = cproc /\ ncli' = ncli
        /\ intena' = intena /\ ie' = ie /\ lock' = lock /\ ticks' = ticks /\ ticks0' = ticks0
        /\ n' = n /\ todo' = todo /\ panicked' = panicked
    BY <1>1 DEF vars, proc, cpu, clock
  <2>2. DataOK' /\ CpuOK'
    BY <2>1 DEF SwitchInv, DataOK, CpuOK
  <2>3. \A c \in CPUs : Thread(c)' = Thread(c) /\ Held(c)' = Held(c)
    BY <2>1 DEF Thread, Held
  <2>4. OnCpu' /\ ProcFits' /\ LoopFits'
    BY <2>1 DEF SwitchInv, OnCpu, ProcFits, LoopFits
  <2>5. CpuFits'
    BY <2>1, <2>3 DEF SwitchInv, CpuFits
  <2> QED BY <2>2, <2>4, <2>5 DEF SwitchInv
<1>2. CASE Next
  <2>1. PICK c \in CPUs : Step(c) \/ Interrupt(c)
    BY <1>2 DEF Next
  <2>2. CASE Acquire(c) \/ Spin(c) \/ Release(c) \/ Loop(c)
    BY <2>2, AcquireStep, SpinStep, ReleaseStep, LoopStep
  <2>3. CASE Scan(c) \/ Resume(c) \/ Yield(c) \/ Sleep(c)
    BY <2>3, ScanStep, ResumeStep, YieldStep, SleepStep
  <2>4. CASE Wakeup1(c) \/ Tick(c) \/ Trap(c) \/ Interrupt(c)
    BY <2>4, Wakeup1Step, TickStep, TrapStep, InterruptStep
  <2>5. CASE Syscall(c) \/ Sysret(c) \/ sys_sleep(c)
    BY <2>5, SyscallStep, SysretStep, SysSleepStep
  <2>6. CASE wait(c) \/ Exit(c) \/ kill(c)
    BY <2>6, WaitStep, ExitStep, KillStep
  <2> QED BY <2>1, <2>2, <2>3, <2>4, <2>5, <2>6 DEF Step
<1> QED BY <1>1, <1>2

LEMMA SleepNext == FirstIn /\ SwitchInv /\ SleepInv /\ [Next]_vars => SleepInv'
<1> SUFFICES ASSUME FirstIn, SwitchInv, SleepInv, [Next]_vars PROVE SleepInv'
  OBVIOUS
<1>1. CASE UNCHANGED vars
  <2>1. proc' = proc /\ clock' = clock /\ todo' = todo
    BY <1>1 DEF vars
  <2>2. TodoKept
    BY <2>1 DEF TodoKept, Keeps
  <2>3. StatesKept /\ InitKept
    BY <2>1, SameProcs
  <2>4. SwitchInv'
    BY <1>1, SwitchNext
  <2> QED BY <2>1, <2>2, <2>3, <2>4, Quiet
<1>2. CASE Next
  <2>1. PICK c \in CPUs : Step(c) \/ Interrupt(c)
    BY <1>2 DEF Next
  <2>2. CASE \/ Acquire(c) \/ Spin(c) \/ Release(c) \/ Loop(c) \/ Scan(c) \/ Resume(c) \/ Yield(c)
             \/ Trap(c) \/ Interrupt(c) \/ Sysret(c) \/ kill(c)
    BY <2>2, QuietSteps
  <2>3. CASE Sleep(c) \/ Wakeup1(c) \/ Tick(c)
    BY <2>3, SleepSleep, Wakeup1Sleep, TickSleep
  <2>4. CASE Syscall(c) \/ sys_sleep(c) \/ wait(c) \/ Exit(c)
    BY <2>4, SyscallSleep, SysSleepSleep, WaitSleep, ExitSleep
  <2> QED BY <2>1, <2>2, <2>3, <2>4 DEF Step
<1> QED BY <1>1, <1>2

\* n changes where sys_sleep begins and where it ends.
LEMMA SleepEnds == FirstIn /\ SwitchInv /\ SleepInv /\ [Next]_vars => SleptEnough
<1> SUFFICES ASSUME FirstIn, SwitchInv, SleepInv, [Next]_vars, NEW p \in Procs, n[p] # 0, n'[p] = 0
             PROVE  slept[p] >= n[p] \/ killed[p]
  BY DEF SleptEnough
<1>1. n' # n
  OBVIOUS
<1>2. PICK c \in CPUs : Step(c) \/ Interrupt(c)
  BY <1>1 DEF Next, vars, clock
<1>3. CASE Sleep(c) \/ Wakeup1(c) \/ Tick(c) \/ wait(c) \/ Exit(c)
  BY <1>1, <1>3 DEF Sleep, Wakeup1, Tick, wait, Exit, clock
<1>4. CASE Syscall(c)
  BY <1>4, SyscallCount, SMT
<1>5. CASE sys_sleep(c)
  <2>1. DataOK /\ CountInv
    BY DEF SwitchInv, SleepInv
  <2>2. p = cproc[c] /\ Fin(c)
    <3>1. cproc[c] \in Procs /\ n' = [n EXCEPT ![cproc[c]] = IF Fin(c) THEN 0 ELSE n[cproc[c]]]
      BY <1>5, SysSleepStep
    <3> QED BY <2>1, <3>1 DEF DataOK
  <2>3. Arg(c) \in BOOLEAN
    BY <1>5, SysSleepStep
  <2>4. n[p] \in 0..(Wrap - 1) /\ slept[p] \in Nat
    <3>1. n[p] \in Naps \cup {0} /\ slept[p] \in Nat
      BY <2>1 DEF DataOK, CountInv
    <3>2. \A v \in Naps \cup {0} : v \in 0..(Wrap - 1)
      BY SchedulerAssumption, SMT
    <3> QED BY <3>1, <3>2
  <2>5. ASSUME ~killed[p]
        PROVE  slept[p] >= n[p]
    <3>1. Elapsed(Start(c), n[p])
      BY <2>2, <2>5 DEF Fin
    <3>2. ~Arg(c)
      <4>1. SUFFICES ASSUME Arg(c) PROVE FALSE
        OBVIOUS
      <4>2. (ticks - ticks) % Wrap >= n[p]
        BY <3>1, <4>1 DEF Elapsed, Start
      <4>3. Wrap \in Nat \ {0} /\ ticks \in Int
        BY <2>1, SchedulerAssumption, SMT DEF DataOK
      <4>4. (ticks - ticks) % Wrap = 0
        BY <4>3, SMT
      <4> QED BY <2>4, <4>2, <4>4, SMT
    <3>3. (ticks - ticks0[p]) % Wrap >= n[p]
      BY <2>2, <3>1, <3>2 DEF Elapsed, Start
    <3>4. Has(Range(todo[p]), "sys_sleep", FALSE)
      <4>1. PICK o \in Range(todo[cproc[c]]) : o[1] = "sys_sleep" /\ o[2] = Arg(c)
        BY <1>5, SysSleepStep
      <4>2. Arg(c) = FALSE
        BY <2>3, <3>2
      <4>3. o \in Range(todo[p])
        BY <2>2
      <4> QED BY <4>1, <4>2, <4>3 DEF Has
    <3>5. slept[p] < n[p] => (ticks - ticks0[p]) % Wrap = slept[p]
      BY <2>1, <3>4 DEF CountInv
    <3>6. PICK a \in Nat, b \in Nat : a = slept[p] /\ b = n[p]
      BY <2>4, SMT
    <3> QED BY <3>3, <3>5, <3>6, SMT
  <2> QED BY <2>5
<1>6. CASE \/ Acquire(c) \/ Spin(c) \/ Release(c) \/ Loop(c) \/ Scan(c) \/ Resume(c) \/ Yield(c)
           \/ Trap(c) \/ Interrupt(c) \/ Sysret(c) \/ kill(c)
  BY <1>1, <1>6, QuietSteps
<1> QED BY <1>2, <1>3, <1>4, <1>5, <1>6 DEF Step

LockSizes ==
  /\ Cardinality({}) = 0 /\ Cardinality({"ptable"}) = 1 /\ Cardinality({"ticks"}) = 1
  /\ Cardinality(Locks) = 2

LEMMA SwitchImplies == LockSizes /\ SwitchInv => SwitchingSafe
<1> SUFFICES ASSUME LockSizes, SwitchInv PROVE SwitchingSafe
  OBVIOUS
<1>1. DataOK /\ CpuOK /\ OnCpu /\ CpuFits
  BY DEF SwitchInv
<1>2. SchedulerTypeOK /\ NoPanic /\ StackHasOneUser
  BY <1>1 DEF DataOK, CpuOK, OnCpu, SchedulerTypeOK, NoPanic, StackHasOneUser, Locks
<1>3. ASSUME NEW c \in CPUs
      PROVE  /\ ncli[c] = Cardinality(Held(c)) + (IF At(c, "spin") THEN 1 ELSE 0) \/ panicked
             /\ ie[c] => ncli[c] = 0
             /\ ncli[c] = 0 /\ cproc[c] # 0 /\ ~Pending(cproc[c], "trapret") =>
                  (ie[c] <=> ~Pending(cproc[c], "trap") /\ ~Pending(cproc[c], "iret"))
  <2>1. PICK x \in Ctx : Fits(x, todo[Thread(c)], cproc[c], Held(c), ncli[c], ie[c], intena[c])
    BY <1>1 DEF CpuFits
  <2>2. PICK s : s = todo[Thread(c)]
    OBVIOUS
  <2>3. /\ x.held = Held(c) /\ x.kind # "end" /\ (cproc[c] = 0 <=> x.kind = "loop")
        /\ Flags(x, ncli[c], ie[c]) /\ s \in Stacks /\ s # <<>>
        /\ \/ Runs(s, x) /\ ncli[c] = Count(Held(c))
           \/ /\ s[1][1] = "spin" /\ Runs(Cons(<<"acquire", s[1][2]>>, Tail(s)), x)
              /\ ncli[c] = Count(Held(c)) + 1
    BY <2>1, <2>2 DEF Fits
  <2>4. Count(Held(c)) = Cardinality(Held(c)) /\ Count(Held(c)) \in Nat
    <3>1. Held(c) \in SUBSET Locks
      BY <1>1, HeldFacts
    <3>2. Held(c) \in {{}, {"ptable"}, {"ticks"}, Locks}
      BY <3>1 DEF Locks
    <3>3. /\ Count({}) = 0 /\ Count({"ptable"}) = 1 /\ Count({"ticks"}) = 1 /\ Count(Locks) = 2
      BY SMT DEF Count, Locks
    <3> QED BY <3>2, <3>3, SMT DEF LockSizes
  <2>5. CASE Runs(s, x) /\ ncli[c] = Count(Held(c))
    <3>1. Tells(Range(s), x)
      BY <2>5, RunsTells
    <3>2. ~At(c, "spin")
      <4>1. PICK o \in Ops, y \in Ctx : o = s[1] /\ Trans(x, o, y)
        BY <2>3, <2>5, Pop
      <4>2. o[1] # "spin"
        BY <4>1 DEF Trans
      <4> QED BY <2>2, <4>1, <4>2 DEF At
    <3>3. ncli[c] = Cardinality(Held(c)) + (IF At(c, "spin") THEN 1 ELSE 0)
      BY <2>4, <2>5, <3>2, SMT
    <3>4. ie[c] => ncli[c] = 0
      BY <2>3 DEF Flags
    <3>5. ASSUME ncli[c] = 0, cproc[c] # 0, ~Pending(cproc[c], "trapret")
          PROVE  ie[c] <=> ~Pending(cproc[c], "trap") /\ ~Pending(cproc[c], "iret")
      <4>1. Thread(c) = cproc[c] /\ cproc[c] \in Threads
        BY <1>1, <3>5, ThreadFacts
      <4>2. \A a : Pending(cproc[c], a) <=> \E o \in Range(s) : o[1] = a
        BY <1>1, <2>2, <4>1, PendingIn
      <4>3. x.kind # "start"
        BY <3>1, <3>5, <4>2 DEF Tells
      <4>4. x.kind = "base"
        BY <2>3, <3>5, <4>3 DEF Ctx
      <4>5. ie[c] <=> ~x.irq
        BY <2>3, <3>5, <4>4 DEF Flags
      <4>6. x.irq <=> Pending(cproc[c], "trap") \/ Pending(cproc[c], "iret")
        BY <3>1, <4>2 DEF Tells
      <4> QED BY <4>5, <4>6
    <3> QED BY <3>3, <3>4, <3>5
  <2>6. CASE s[1][1] = "spin" /\ ncli[c] = Count(Held(c)) + 1
    <3>1. At(c, "spin") /\ ncli[c] # 0
      BY <1>1, <2>2, <2>4, <2>6, SMT DEF At, CpuOK
    <3>2. ie[c] => ncli[c] = 0
      BY <2>3 DEF Flags
    <3> QED BY <2>4, <2>6, <3>1, <3>2
  <2> QED BY <2>3, <2>5, <2>6
<1>4. InterruptsFollowLocks
  BY <1>3 DEF InterruptsFollowLocks
<1> QED BY <1>2, <1>4 DEF SwitchingSafe

F == INSTANCE FiniteSetTheorems

LEMMA MinIn == FirstIn
<1> SUFFICES ASSUME NEW S \in SUBSET Procs, S # {} PROVE Min(S) \in S
  BY DEF FirstIn
<1>1. F!IsWellFoundedOn(F!OpToRel(<, Nat), Nat)
  BY F!NatLessThanWellFounded
<1>2. S \subseteq Nat
  BY SchedulerAssumption, SMT DEF Procs
<1>3. PICK x \in S : \A y \in S : ~(<<y, x>> \in F!OpToRel(<, Nat))
  BY <1>1, <1>2, F!WFMin
<1>4. ASSUME NEW y \in S PROVE x <= y
  <2>1. ~(<<y, x>> \in {ss \in Nat \X Nat : ss[1] < ss[2]})
    BY <1>3 DEF F!OpToRel
  <2>2. x \in Nat /\ y \in Nat
    BY <1>2
  <2> QED BY <2>1, <2>2, SMT
<1> QED BY <1>3, <1>4 DEF Min

LEMMA LocksCounted == LockSizes
<1>1. \A S : F!Cardinality(S) = Cardinality(S)
  BY DEF Cardinality, F!Cardinality
<1>2. /\ F!IsFiniteSet({"ticks"}) /\ F!Cardinality({"ticks"}) = 1
      /\ F!Cardinality({"ptable"}) = 1
  BY F!FS_Singleton
<1>3. Locks = {"ticks"} \cup {"ptable"} /\ "ptable" \notin {"ticks"}
  BY DEF Locks
<1>4. F!Cardinality(Locks) = 2
  BY <1>2, <1>3, F!FS_AddElement, SMT
<1> QED BY <1>1, <1>2, <1>4, F!FS_EmptySet DEF LockSizes

LEMMA SleepInvariant == Spec => [](SwitchInv /\ SleepInv)
<1>1. Init => SwitchInv /\ SleepInv
  BY InitSwitch, InitSleep
<1>2. (SwitchInv /\ SleepInv) /\ [Next]_vars => (SwitchInv /\ SleepInv)'
  BY MinIn, SwitchNext, SleepNext
<1> QED BY <1>1, <1>2, PTL DEF Spec

(* For any number of processes and processors, no panic of spinlock.c and   *)
(* sched() is reached, a kernel stack has one user, and ncli, intena and    *)
(* the interrupt flag follow the locks held, over every switch, interrupt   *)
(* and migration of a process.                                              *)
THEOREM SchedulerSwitchingSafe == Spec => []SwitchingSafe
<1>1. SwitchInv /\ [Next]_vars => SwitchInv'
  BY MinIn, SwitchNext
<1>2. SwitchInv => SwitchingSafe
  BY LocksCounted, SwitchImplies
<1> QED BY <1>1, <1>2, InitSwitch, PTL DEF Spec

(* No wakeup is lost, for any number of processes and processors, any width *)
(* of ticks and any arguments of sys_sleep: sleep() takes ptable.lock before *)
(* it releases its caller's lock, so the wakeup1 of a tick, which needs both *)
(* tickslock and ptable.lock, and that of exit() come before the test in the *)
(* sleeper's loop or after it is SLEEPING.                                   *)
THEOREM SchedulerNoLostWakeup == Spec => []NoLostWakeup
BY SleepInvariant, SleepImplies, PTL

(* sys_sleep(n) returns after n ticks or because its process was killed:    *)
(* the unsigned ticks - ticks0 is the number of ticks that have passed, also *)
(* when ticks wraps around, as long as the process sleeps, because n is less *)
(* than 2^32.                                                                *)
THEOREM SchedulerSleepsLongEnough == Spec => SleepsLongEnough
<1>1. (SwitchInv /\ SleepInv) /\ [Next]_vars => [SleptEnough]_vars
  BY MinIn, SleepEnds
<1> QED BY <1>1, SleepInvariant, PTL DEF Spec, SleepsLongEnough
=============================================================================
