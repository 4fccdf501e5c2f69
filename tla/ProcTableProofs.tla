--------------------------- MODULE ProcTableProofs ---------------------------
(***************************************************************************)
(* Theorems about ProcTable, for a process table of any size: every        *)
(* process has a parent that can reap it, wait() misses no exit, and the   *)
(* table stays consistent.                                                 *)
(*                                                                         *)
(* The three need each other and four facts more: initproc neither exits   *)
(* without a panic nor has a parent, a slot without a process has no       *)
(* parent, a fork under way has a slot of its own, and pids are below      *)
(* nextpid.                                                                *)
(***************************************************************************)
EXTENDS ProcTable, WellFoundedInduction, TLAPS

\* The state of initproc.
InitLives ==
  /\ state[initproc] \in {"RUNNABLE", "SLEEPING"}
  /\ parent[initproc] = 0
  /\ pc[initproc] = "exit" => panicked

\* The slots fork() is filling.
ForksApart ==
  /\ \A p \in Slots : pc[p] = "fork" =>
       np[p] \in Slots /\ state[np[p]] = "EMBRYO" /\ state[p] = "RUNNABLE"
  /\ \A p \in Slots : np[p] # 0 => pc[p] = "fork"
  /\ \A p, q \in Slots : np[p] = np[q] /\ np[p] # 0 => p = q

NoProcess == {"UNUSED", "EMBRYO"}
Orphaned == \A p \in Slots : state[p] \in NoProcess => parent[p] = 0

PidsApart ==
  /\ \A p \in Slots : pid[p] < nextpid /\ (state[p] # "UNUSED" => pid[p] # 0)
  /\ \A p, q \in Slots : p # q /\ state[p] # "UNUSED" /\ state[q] # "UNUSED" => pid[p] # pid[q]

IInv ==
  /\ ProcTypeOK /\ InitLives /\ ForksApart /\ Orphaned /\ PidsApart
  /\ ParentCanReap /\ WaiterHasReason /\ FlagIsOwn

-----------------------------------------------------------------------------
(* The scans of allocproc, wait and kill find an element of the set they     *)
(* look for: the table is a set of numbers, and each has a least element.    *)
LEMMA MinIn ==
  ASSUME NEW S \in SUBSET Slots, S # {}
  PROVE  Min(S) \in S
<1>1. IsWellFoundedOn(OpToRel(<, Nat), Nat)
  BY NatLessThanWellFounded
<1>2. S \subseteq Nat
  BY ProcAssumption DEF Slots
<1>3. PICK x \in S : \A y \in S : ~(<<y, x>> \in OpToRel(<, Nat))
  BY <1>1, <1>2, WFMin
<1>4. ASSUME NEW y \in S PROVE x <= y
  <2>1. ~(<<y, x>> \in {ss \in Nat \X Nat : ss[1] < ss[2]})
    BY <1>3 DEF OpToRel
  <2>2. x \in Nat /\ y \in Nat
    BY <1>2
  <2> QED BY <2>1, <2>2
<1> QED BY <1>3, <1>4 DEF Min

(* initproc is a slot, and the null parent is none. *)
LEMMA InitSlot == initproc \in Slots /\ 0 \notin Slots
BY ProcAssumption DEF Slots, initproc

(* userinit leaves the table in order. *)
LEMMA InitInv == Init => IInv
<1> SUFFICES ASSUME Init PROVE IInv
  OBVIOUS
<1>1. initproc \in Slots /\ 0 \notin Slots
  BY InitSlot
<1>2. ProcTypeOK
  <2>1. 0 \in 0..NPROC /\ 0 \in 0..MaxPid /\ 1 \in 0..MaxPid /\ 2 \in 1..(MaxPid + 1)
    BY ProcAssumption
  <2> QED BY <2>1, ZenonT(30) DEF Init, ProcTypeOK, States
<1>3. InitLives /\ ForksApart /\ Orphaned
  BY <1>1 DEF Init, InitLives, ForksApart, Orphaned, NoProcess
<1>4. PidsApart
  BY <1>1 DEF Init, PidsApart
<1>5. ParentCanReap /\ WaiterHasReason /\ FlagIsOwn
  BY <1>1 DEF Init, ParentCanReap, WaiterHasReason, FlagIsOwn
<1> QED BY <1>2, <1>3, <1>4, <1>5 DEF IInv

(* A system call that sleeps and wakes up changes nobody's family. *)
LEMMA CallStep ==
  ASSUME IInv, NEW p \in Slots, sleep(p) \/ wakeup(p) \/ call_returns(p) \/ wait_begins(p)
  PROVE  IInv'
<1> USE DEF IInv, Runs, links
<1>0. /\ pc[p] # "fork" /\ state[p] \in {"RUNNABLE", "SLEEPING"}
      /\ pc'[p] \notin {"fork", "exit"} \/ pc' = pc
      /\ \A q \in Slots \ {p} : pc'[q] = pc[q] /\ state'[q] = state[q]
      /\ state'[p] \in {"RUNNABLE", "SLEEPING"}
      /\ UNCHANGED <<parent, pid, nextpid, killed, early, np, panicked>>
  BY DEF sleep, wakeup, call_returns, wait_begins, ForksApart, ProcTypeOK
<1>1. ProcTypeOK'
  BY DEF ProcTypeOK, States, sleep, wakeup, call_returns, wait_begins, Unslept
<1>2. InitLives'
  BY <1>0, InitSlot DEF InitLives
<1>3. ForksApart'
  BY <1>0 DEF ForksApart, ProcTypeOK
<1>4. Orphaned' /\ PidsApart' /\ FlagIsOwn'
  BY <1>0 DEF Orphaned, NoProcess, PidsApart, FlagIsOwn
<1>5. ParentCanReap'
  BY <1>0 DEF ProcTypeOK, ParentCanReap
<1>6. WaiterHasReason'
  BY <1>0 DEF ProcTypeOK, WaiterHasReason, Children, Zombies, sleep, wakeup, call_returns, wait_begins, Unslept
<1> QED BY <1>1, <1>2, <1>3, <1>4, <1>5, <1>6

(* allocproc takes a slot that nobody uses and gives it a new pid. *)
LEMMA AllocStep ==
  ASSUME IInv, NEW p \in Slots, allocproc(p)
  PROVE  IInv'
<1> USE DEF IInv
<1> DEFINE q == Min(FreeSlots)
<1>0. q \in Slots /\ state[q] = "UNUSED" /\ state[p] = "RUNNABLE" /\ pc[p] = "user"
  BY MinIn DEF allocproc, FreeSlots, Runs
<1> HIDE DEF q
<1>1. /\ state' = [state EXCEPT ![q] = "EMBRYO"] /\ pid' = [pid EXCEPT ![q] = nextpid]
      /\ nextpid' = nextpid + 1 /\ nextpid <= MaxPid
      /\ np' = [np EXCEPT ![p] = q] /\ pc' = [pc EXCEPT ![p] = "fork"]
      /\ UNCHANGED <<parent, killed, early, chan, panicked>>
  BY DEF allocproc, Allotted, q
<1>2. nextpid \in Nat /\ nextpid > 0 /\ q # p /\ q # initproc /\ 0 \notin Slots
  <2>1. nextpid \in Nat /\ nextpid > 0
    BY ProcAssumption DEF ProcTypeOK
  <2>2. q # p /\ q # initproc
    BY <1>0 DEF InitLives
  <2> QED BY <2>1, <2>2, InitSlot
<1>3. ProcTypeOK'
  <2>1. nextpid' \in 1..(MaxPid + 1) /\ nextpid \in 0..MaxPid /\ q \in 0..NPROC
    BY <1>0, <1>1, <1>2, ProcAssumption DEF ProcTypeOK, Slots
  <2> QED BY <1>0, <1>1, <2>1 DEF ProcTypeOK, States
<1>4. InitLives'
  BY <1>0, <1>1, <1>2, InitSlot DEF InitLives, ProcTypeOK
<1>5. ForksApart'
  BY <1>0, <1>1, <1>2 DEF ForksApart, ProcTypeOK
<1>6. Orphaned' /\ FlagIsOwn'
  BY <1>0, <1>1 DEF Orphaned, NoProcess, FlagIsOwn, ProcTypeOK
<1>7. PidsApart'
  <2>1. \A r \in Slots : pid[r] \in Int
    BY DEF ProcTypeOK
  <2> QED BY <1>0, <1>1, <1>2, <2>1 DEF PidsApart, ProcTypeOK
<1>8. ParentCanReap'
  BY <1>0, <1>1 DEF ParentCanReap, ProcTypeOK
<1>9. WaiterHasReason'
  BY <1>0, <1>1 DEF WaiterHasReason, Children, Zombies, ProcTypeOK
<1> QED BY <1>3, <1>4, <1>5, <1>6, <1>7, <1>8, <1>9

(* fork ends with a child, or without one and with its slot free again. *)
LEMMA ForkStep ==
  ASSUME IInv, NEW p \in Slots, fork(p) \/ fork_fails(p)
  PROVE  IInv'
<1> USE DEF IInv, links
<1> DEFINE q == np[p]
<1>0. /\ q \in Slots /\ state[q] = "EMBRYO" /\ state[p] = "RUNNABLE" /\ pc[p] = "fork"
      /\ p # q /\ q # initproc /\ parent[q] = 0 /\ pc[q] # "fork" /\ chan[q] = "none" /\ 0 \notin Slots
  <2>1. initproc \in Slots /\ 0 \notin Slots
    BY InitSlot
  <2>2. state[p] = "RUNNABLE" /\ pc[p] = "fork"
    BY DEF fork, fork_fails, Runs
  <2>3. q \in Slots /\ state[q] = "EMBRYO"
    BY <2>2 DEF ForksApart
  <2>4. p # q /\ q # initproc /\ parent[q] = 0
    BY <2>1, <2>2, <2>3 DEF InitLives, Orphaned, NoProcess
  <2>5. pc[q] # "fork" /\ chan[q] = "none"
    BY <2>3 DEF ForksApart, ProcTypeOK
  <2> QED BY <2>1, <2>2, <2>3, <2>4, <2>5
<1>1. \A r \in Slots \ {p} : np[r] # q
  BY <1>0 DEF ForksApart
<1> HIDE DEF q
<1>2. CASE fork(p)
  <2>1. /\ parent' = [parent EXCEPT ![q] = p] /\ state' = [state EXCEPT ![q] = "RUNNABLE"]
        /\ pc' = [pc EXCEPT ![p] = "user", ![q] = "user"] /\ np' = [np EXCEPT ![p] = 0]
        /\ UNCHANGED <<pid, nextpid, killed, early, chan, panicked>>
    BY <1>2 DEF fork, q
  <2>2. ProcTypeOK'
    <3>1. p \in 0..NPROC /\ 0 \in 0..NPROC
      BY ProcAssumption DEF Slots
    <3> QED BY <1>0, <2>1, <3>1 DEF ProcTypeOK, States
  <2>3. InitLives'
    BY <1>0, <2>1, InitSlot DEF InitLives, ProcTypeOK
  <2>4. ForksApart'
    BY <1>0, <1>1, <2>1 DEF ForksApart, ProcTypeOK
  <2>5. Orphaned' /\ PidsApart' /\ FlagIsOwn'
    BY <1>0, <2>1 DEF Orphaned, NoProcess, PidsApart, FlagIsOwn, ProcTypeOK
  <2>6. ParentCanReap'
    BY <1>0, <2>1 DEF ParentCanReap, ProcTypeOK
  <2>7. WaiterHasReason'
    <3> SUFFICES ASSUME NEW s \in Slots, state'[s] = "SLEEPING", chan'[s] = "child"
                 PROVE  Children(s)' # {} /\ Zombies(s)' = {} /\ ~killed'[s]
      BY DEF WaiterHasReason
    <3>1. s # p /\ s # q /\ state[s] = "SLEEPING" /\ chan[s] = "child"
      BY <1>0, <2>1 DEF ProcTypeOK
    <3>2. Children(s)' = Children(s) /\ Zombies(s)' = Zombies(s)
      BY <1>0, <2>1, <3>1 DEF Children, Zombies, ProcTypeOK
    <3> QED BY <2>1, <3>1, <3>2 DEF WaiterHasReason
  <2> QED BY <2>2, <2>3, <2>4, <2>5, <2>6, <2>7
<1>3. CASE fork_fails(p)
  <2>1. /\ state' = [state EXCEPT ![q] = "UNUSED"] /\ np' = [np EXCEPT ![p] = 0]
        /\ pc' = [pc EXCEPT ![p] = "user"]
        /\ UNCHANGED <<parent, pid, nextpid, killed, early, chan, panicked>>
    BY <1>3 DEF fork_fails, q
  <2>2. ProcTypeOK'
    <3>1. 0 \in 0..NPROC
      BY ProcAssumption
    <3> QED BY <1>0, <2>1, <3>1 DEF ProcTypeOK, States
  <2>3. InitLives'
    BY <1>0, <2>1, InitSlot DEF InitLives, ProcTypeOK
  <2>4. ForksApart'
    BY <1>0, <1>1, <2>1 DEF ForksApart, ProcTypeOK
  <2>5. Orphaned' /\ PidsApart' /\ FlagIsOwn'
    BY <1>0, <2>1 DEF Orphaned, NoProcess, PidsApart, FlagIsOwn, ProcTypeOK
  <2>6. ParentCanReap'
    BY <1>0, <2>1 DEF ParentCanReap, ProcTypeOK
  <2>7. WaiterHasReason'
    BY <1>0, <2>1 DEF WaiterHasReason, Children, Zombies, ProcTypeOK
  <2> QED BY <2>2, <2>3, <2>4, <2>5, <2>6, <2>7
<1> QED BY <1>2, <1>3

(* exit hands its children to init, which is told if one is a zombie, and    *)
(* its parent is told that it is one itself.                                 *)
LEMMA ExitStep ==
  ASSUME IInv, NEW p \in Slots, exit(p)
  PROVE  IInv'
<1> USE DEF IInv
<1> DEFINE woken == wakeup1(Told(p) \cap Slots)
<1>0. state[p] = "RUNNABLE" /\ pc[p] = "exit" /\ p # initproc /\ initproc \in Slots /\ 0 \notin Slots
  BY InitSlot DEF exit, Runs, InitLives
<1>1. woken \subseteq Slots /\ \A q \in woken : state[q] = "SLEEPING" /\ chan[q] = "child"
  BY DEF wakeup1
<1>2. ASSUME NEW q \in Slots, state[q] = "SLEEPING", chan[q] = "child",
             q = parent[p] \/ (q = initproc /\ Zombies(p) # {})
      PROVE  q \in woken
  BY <1>2 DEF wakeup1, Told
<1> HIDE DEF woken
<1>3. /\ parent' = [q \in Slots |-> IF parent[q] = p THEN initproc ELSE parent[q]]
      /\ state' = [q \in Slots |-> IF q = p THEN "ZOMBIE"
                                   ELSE IF q \in woken THEN "RUNNABLE" ELSE state[q]]
      /\ chan' = [q \in Slots |-> IF q \in woken THEN "none" ELSE chan[q]]
      /\ UNCHANGED <<pid, nextpid, killed, early, pc, np, panicked>>
  BY DEF exit, woken, Reparented, Unslept
<1>4. ProcTypeOK'
  <2>1. initproc \in 0..NPROC
    BY <1>0, ProcAssumption DEF Slots
  <2> QED BY <1>0, <1>1, <1>3, <2>1 DEF ProcTypeOK, States
<1>5. InitLives'
  BY <1>0, <1>1, <1>3 DEF InitLives
<1>6. ForksApart'
  BY <1>0, <1>1, <1>3 DEF ForksApart, ProcTypeOK
<1>7. Orphaned' /\ PidsApart' /\ FlagIsOwn'
  BY <1>0, <1>1, <1>3 DEF Orphaned, NoProcess, PidsApart, FlagIsOwn, ProcTypeOK
<1>8. ParentCanReap'
  <2> SUFFICES ASSUME NEW q \in Slots \ {initproc}, state'[q] \notin NoProcess
               PROVE  parent'[q] \in Slots \ {q} /\ state'[parent'[q]] \notin NoProcess \cup {"ZOMBIE"}
    BY DEF ParentCanReap, NoProcess
  <2>1. state[q] \notin NoProcess
    BY <1>0, <1>1, <1>3 DEF NoProcess
  <2>2. parent[q] \in Slots \ {q} /\ state[parent[q]] \in {"SLEEPING", "RUNNABLE"}
    BY <2>1 DEF ParentCanReap, NoProcess, ProcTypeOK, States
  <2> QED BY <1>0, <1>1, <1>3, <2>2 DEF InitLives, NoProcess
<1>9. WaiterHasReason'
  <2> SUFFICES ASSUME NEW s \in Slots, state'[s] = "SLEEPING", chan'[s] = "child"
               PROVE  Children(s)' # {} /\ Zombies(s)' = {} /\ ~killed'[s]
    BY DEF WaiterHasReason
  <2>1. s \notin woken /\ s # p /\ state[s] = "SLEEPING" /\ chan[s] = "child"
    BY <1>3
  <2>2. Children(s) # {} /\ Zombies(s) = {} /\ ~killed[s]
    BY <2>1 DEF WaiterHasReason
  <2>3. Children(s)' # {}
    BY <1>3, <2>1, <2>2 DEF Children
  <2>4. ASSUME NEW q \in Slots, parent'[q] = s, state'[q] = "ZOMBIE" PROVE FALSE
    <3>1. CASE q = p
      <4>1. parent[p] # p
        BY <1>0 DEF ParentCanReap
      <4>2. parent[p] = s
        BY <1>3, <2>4, <3>1, <4>1
      <4> QED BY <1>2, <2>1, <4>2
    <3>2. CASE q # p
      <4>1. state[q] = "ZOMBIE"
        BY <1>3, <2>4, <3>2
      <4>2. parent[q] # s
        BY <2>2, <4>1 DEF Zombies, Children
      <4>3. parent[q] = p /\ s = initproc
        BY <1>3, <2>4, <4>2
      <4>4. q \in Zombies(p)
        BY <4>1, <4>3 DEF Zombies, Children
      <4> QED BY <1>2, <2>1, <4>3, <4>4
    <3> QED BY <3>1, <3>2
  <2>5. Zombies(s)' = {}
    BY <2>4 DEF Zombies, Children
  <2> QED BY <1>3, <2>2, <2>3, <2>5
<1> QED BY <1>4, <1>5, <1>6, <1>7, <1>8, <1>9

(* exit begins, and init does not get far. *)
LEMMA ExitBeginsStep ==
  ASSUME IInv, NEW p \in Slots, exit_begins(p)
  PROVE  IInv'
<1> USE DEF IInv, links
<1>0. state[p] = "RUNNABLE" /\ pc[p] = "user" /\ initproc \in Slots
  BY InitSlot DEF exit_begins, Runs
<1>1. /\ panicked' = (p = initproc) /\ pc' = [pc EXCEPT ![p] = "exit"]
      /\ UNCHANGED <<state, parent, pid, nextpid, killed, early, chan, np>>
  BY DEF exit_begins
<1>2. ~panicked
  BY DEF exit_begins, Runs
<1>3. ProcTypeOK'
  BY <1>1 DEF ProcTypeOK
<1>4. InitLives'
  BY <1>0, <1>1, <1>2, ZenonT(30) DEF InitLives, ProcTypeOK
<1>5. ForksApart'
  BY <1>0, <1>1 DEF ForksApart, ProcTypeOK
<1>6. Orphaned' /\ PidsApart' /\ FlagIsOwn'
  BY <1>1 DEF Orphaned, PidsApart, FlagIsOwn
<1>7. ParentCanReap' /\ WaiterHasReason'
  BY <1>1 DEF ParentCanReap, WaiterHasReason, Children, Zombies
<1> QED BY <1>3, <1>4, <1>5, <1>6, <1>7

(* wait reaps a zombie, which is nobody's parent, or sleeps for a child. *)
LEMMA WaitStep ==
  ASSUME IInv, NEW p \in Slots, wait(p)
  PROVE  IInv'
<1> USE DEF IInv
<1>0. state[p] = "RUNNABLE" /\ pc[p] = "wait" /\ initproc \in Slots /\ 0 \notin Slots
  BY InitSlot DEF wait, Runs
<1>1. CASE Zombies(p) # {}
  <2> DEFINE z == Min(Zombies(p))
  <2>1. z \in Zombies(p)
    <3>1. Zombies(p) \in SUBSET Slots
      BY DEF Zombies, Children
    <3> QED BY <1>1, <3>1, MinIn
  <2> HIDE DEF z
  <2>2. z \in Slots /\ parent[z] = p /\ state[z] = "ZOMBIE" /\ z # p /\ z # initproc
    BY <1>0, <2>1 DEF Zombies, Children, InitLives
  <2>3. /\ pid' = [pid EXCEPT ![z] = 0] /\ parent' = [parent EXCEPT ![z] = 0]
        /\ killed' = [killed EXCEPT ![z] = FALSE] /\ early' = early \ {z}
        /\ state' = [state EXCEPT ![z] = "UNUSED"]
        /\ pc' = [pc EXCEPT ![p] = "user", ![z] = "user"]
        /\ UNCHANGED <<chan, nextpid, np, panicked>>
    BY <1>1 DEF wait, Reaped, z
  <2>4. ProcTypeOK'
    <3>1. 0 \in 0..NPROC /\ 0 \in 0..MaxPid
      BY ProcAssumption
    <3> QED BY <2>2, <2>3, <3>1 DEF ProcTypeOK, States
  <2>5. InitLives'
    BY <1>0, <2>2, <2>3 DEF InitLives, ProcTypeOK
  <2>6. ForksApart'
    BY <1>0, <2>2, <2>3 DEF ForksApart, ProcTypeOK
  <2>7. Orphaned' /\ FlagIsOwn'
    BY <2>2, <2>3 DEF Orphaned, NoProcess, FlagIsOwn, ProcTypeOK
  <2>8. PidsApart'
    <3>1. nextpid > 0 /\ nextpid \in Int
      BY ProcAssumption DEF ProcTypeOK
    <3> QED BY <2>2, <2>3, <3>1 DEF PidsApart, ProcTypeOK
  <2>9. ParentCanReap'
    <3>1. \A q \in Slots : parent[q] # z
      BY <1>0, <2>2 DEF ParentCanReap, Orphaned, NoProcess, InitLives
    <3> QED BY <2>2, <2>3, <3>1 DEF ParentCanReap, ProcTypeOK
  <2>10. WaiterHasReason'
    <3> SUFFICES ASSUME NEW s \in Slots, state'[s] = "SLEEPING", chan'[s] = "child"
                 PROVE  Children(s)' # {} /\ Zombies(s)' = {} /\ ~killed'[s]
      BY DEF WaiterHasReason
    <3>1. s # p /\ s # z /\ state[s] = "SLEEPING" /\ chan[s] = "child"
      BY <1>0, <2>2, <2>3 DEF ProcTypeOK
    <3>2. Children(s)' = Children(s) /\ Zombies(s)' = Zombies(s)
      BY <1>0, <2>2, <2>3, <3>1 DEF Children, Zombies, ProcTypeOK
    <3> QED BY <2>3, <3>1, <3>2 DEF WaiterHasReason, ProcTypeOK
  <2> QED BY <2>4, <2>5, <2>6, <2>7, <2>8, <2>9, <2>10
<1>2. CASE Zombies(p) = {} /\ (Children(p) = {} \/ killed[p])
  <2>1. /\ pc' = [pc EXCEPT ![p] = "user"]
        /\ UNCHANGED <<pid, parent, killed, early, state, chan, nextpid, np, panicked>>
    BY <1>2 DEF wait
  <2>2. ProcTypeOK'
    BY <2>1 DEF ProcTypeOK
  <2>3. InitLives' /\ ForksApart'
    BY <1>0, <2>1 DEF InitLives, ForksApart, ProcTypeOK
  <2> QED BY <2>1, <2>2, <2>3
          DEF Orphaned, PidsApart, FlagIsOwn, ParentCanReap, WaiterHasReason, Children, Zombies
<1>3. CASE Zombies(p) = {} /\ Children(p) # {} /\ ~killed[p]
  <2>1. /\ state' = [state EXCEPT ![p] = "SLEEPING"] /\ chan' = [chan EXCEPT ![p] = "child"]
        /\ UNCHANGED <<pid, parent, killed, early, pc, nextpid, np, panicked>>
    BY <1>3 DEF wait
  <2>2. ProcTypeOK'
    BY <2>1 DEF ProcTypeOK, States
  <2>3. InitLives' /\ ForksApart'
    BY <1>0, <2>1 DEF InitLives, ForksApart, ProcTypeOK
  <2>4. Orphaned' /\ PidsApart' /\ FlagIsOwn'
    BY <1>0, <2>1 DEF Orphaned, NoProcess, PidsApart, FlagIsOwn, ProcTypeOK
  <2>5. ParentCanReap'
    BY <1>0, <2>1 DEF ParentCanReap, ProcTypeOK
  <2>6. WaiterHasReason'
    BY <1>0, <1>3, <2>1 DEF WaiterHasReason, Children, Zombies, ProcTypeOK
  <2> QED BY <2>2, <2>3, <2>4, <2>5, <2>6
<1> QED BY <1>1, <1>2, <1>3

(* kill marks a slot and makes a sleeper runnable. *)
LEMMA KillStep ==
  ASSUME IInv, NEW p \in Slots, NEW k \in KillPids, kill(p, k)
  PROVE  IInv'
<1> USE DEF IInv, links
<1> DEFINE found == {q \in Slots : pid[q] = k}
           v == Min(found)
<1>0. v \in Slots /\ initproc \in Slots
  <2>1. found \in SUBSET Slots /\ found # {}
    BY DEF kill
  <2> HIDE DEF found
  <2>2. v \in found
    BY <2>1, MinIn
  <2> QED BY <2>1, <2>2, InitSlot
<1> HIDE DEF v
<1>1. /\ killed' = [killed EXCEPT ![v] = TRUE]
      /\ early' = IF state[v] \in {"UNUSED", "EMBRYO"} THEN early \cup {v} ELSE early
      /\ state' = [state EXCEPT ![v] = IF state[v] = "SLEEPING" THEN "RUNNABLE" ELSE state[v]]
      /\ UNCHANGED <<parent, pid, nextpid, pc, np, panicked>>
  BY DEF kill, v, Roused
<1>2. chan' = IF state[v] = "SLEEPING" THEN [chan EXCEPT ![v] = "none"] ELSE chan
  <2>1. chan' = Unslept({v} \cap {r \in Slots : Roused(r) # state[r]})
    BY DEF kill, v
  <2> QED BY <1>0, <2>1, ZenonT(30) DEF Unslept, Roused, ProcTypeOK
<1>3. ProcTypeOK'
  BY <1>0, <1>1, <1>2 DEF ProcTypeOK, States
<1>4. InitLives'
  BY <1>0, <1>1 DEF InitLives, ProcTypeOK
<1>5. ForksApart'
  BY <1>0, <1>1 DEF ForksApart, ProcTypeOK
<1>6. Orphaned' /\ PidsApart' /\ FlagIsOwn'
  BY <1>0, <1>1 DEF Orphaned, NoProcess, PidsApart, FlagIsOwn, ProcTypeOK
<1>7. ParentCanReap'
  BY <1>0, <1>1 DEF ParentCanReap, ProcTypeOK
<1>8. WaiterHasReason'
  BY <1>0, <1>1, <1>2 DEF WaiterHasReason, Children, Zombies, ProcTypeOK
<1> QED BY <1>3, <1>4, <1>5, <1>6, <1>7, <1>8

(* Every step preserves the invariant. *)
LEMMA StepInv == IInv /\ [Next]_vars => IInv'
<1> SUFFICES ASSUME IInv, [Next]_vars PROVE IInv'
  OBVIOUS
<1>1. ASSUME UNCHANGED vars PROVE IInv'
  BY <1>1 DEF vars, links, IInv, ProcTypeOK, InitLives, ForksApart, Orphaned, PidsApart,
              ParentCanReap, WaiterHasReason, FlagIsOwn, Children, Zombies
<1> QED BY <1>1, CallStep, AllocStep, ForkStep, ExitStep, ExitBeginsStep, WaitStep, KillStep DEF Next

-----------------------------------------------------------------------------
(* The whole invariant holds in every reachable state. *)
THEOREM ProcInvariance == Spec => []IInv
BY InitInv, StepInv, PTL DEF Spec

(* No process is left without a parent that can reap it, for any table size: *)
(* exit hands children on before it gives up its own place.                  *)
THEOREM NoOrphans == Spec => []ParentCanReap
<1>1. IInv => ParentCanReap
  BY DEF IInv
<1> QED BY <1>1, ProcInvariance, PTL

(* No wakeup is lost between exit and wait, nor one for a zombie that init   *)
(* inherits, nor kill's.                                                     *)
THEOREM WaitMissesNoExit == Spec => []WaiterHasReason
<1>1. IInv => WaiterHasReason
  BY DEF IInv
<1> QED BY <1>1, ProcInvariance, PTL

(* Pids are unique, free slots are nobody's children, each fork has its own  *)
(* slot and a killed flag does not pass to the next process, for any table   *)
(* size.                                                                     *)
THEOREM TableStaysConsistent == Spec => []TableConsistent
<1>1. IInv => TableConsistent
  BY ZenonT(30) DEF IInv, TableConsistent, PidsApart, Orphaned, NoProcess, ForksApart
<1> QED BY <1>1, ProcInvariance, PTL
=============================================================================
