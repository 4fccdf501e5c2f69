--------------------------- MODULE SchedulerSteps ----------------------------
(***************************************************************************)
(* The invariant of switching, for any number of processes and processors: *)
(* what the rest of each kernel stack relies on agrees with the locks, the *)
(* interrupt flags and the states of the processes; and every step keeps   *)
(* it.                                                                     *)
(***************************************************************************)
EXTENDS Scheduler, TLAPS

\* A leaf that names no prover is Zenon's.
USE Zenon

Locks == {"ptable", "ticks"}
Names == {"acquire", "spin", "release", "tick", "wakeup1", "trap", "iret", "trapret", "resume",
          "yield", "sleep", "wait", "kill", "sysret", "sys_sleep", "user", "exit", "loop", "scan"}
Args == {"ptable", "ticks", "child", "user", "kernel"} \cup BOOLEAN \cup Nat
Ops == Names \X Args
Stacks == Seq(Ops)

(* What a thread relies on before it executes the rest of its stack: the    *)
(* locks it holds, whether it is in an interrupt handler (irq), in one      *)
(* between Tick and Wakeup1 (tock), in sleep() before the switch (nap is    *)
(* then the channel), and what it is (kind): a process that comes from fork *)
(* or one that has been in user space, or a scheduler loop; "end" when      *)
(* nothing is left.                                                         *)
Ctx == [held : SUBSET Locks, irq : BOOLEAN, tock : BOOLEAN, nap : {"no", "ticks", "child"},
        kind : {"start", "base", "loop", "end"}]
K(h, i, t, s, k) == [held |-> h, irq |-> i, tock |-> t, nap |-> s, kind |-> k]
Leads(y, h, i, t, s, k) == y.held = h /\ y.irq = i /\ y.tock = t /\ y.nap = s /\ y.kind = k

\* A process outside handlers and outside sleep().
Plain(x) == ~x.irq /\ ~x.tock /\ x.nap = "no" /\ x.kind = "base"
\* The same, in a handler or not, and the scheduler loop.
Calm(x) == ~x.tock /\ x.nap = "no"

\* The operation o, executed with x, leaves y to the next one.  sleep() holds a
\* lock from its caller's test to the switch.
Trans(x, o, y) ==
  LET a == o[2] IN
  /\ x.kind # "end"
  /\ x.tock => x.irq /\ x.held # {}
  /\ x.nap = "ticks" => x.held # {}
  /\ x.nap = "child" => "ptable" \in x.held
  /\ \/ /\ o[1] = "acquire" /\ a \in Locks \ x.held
        /\ Leads(y, x.held \cup {a}, x.irq, x.tock, x.nap, x.kind)
     \/ /\ o[1] = "release" /\ a \in x.held
        /\ Leads(y, x.held \ {a}, x.irq, x.tock, x.nap, x.kind)
     \/ /\ o[1] = "tick" /\ x.held = {"ticks"} /\ x.irq /\ Calm(x)
        /\ Leads(y, x.held, TRUE, TRUE, "no", x.kind)
     \/ /\ o[1] = "wakeup1" /\ a = "ticks" /\ x.held = Locks /\ x.irq /\ x.tock /\ x.nap = "no"
        /\ Leads(y, {"ticks"}, TRUE, FALSE, "no", x.kind)
     \/ /\ o[1] \in {"trap", "iret"} /\ x.held = {} /\ x.irq /\ Calm(x)
        /\ a = "user" => x.kind = "base"
        /\ Leads(y, {}, FALSE, FALSE, "no", x.kind)
     \/ /\ o[1] = "trapret" /\ a = "kernel" /\ x.held = {} /\ ~x.irq /\ Calm(x) /\ x.kind = "start"
        /\ Leads(y, {}, FALSE, FALSE, "no", "base")
     \/ /\ o[1] = "resume" /\ x.held = {"ptable"} /\ Calm(x)
        /\ (x.irq /\ a = FALSE /\ x.kind # "loop") \/ (~x.irq /\ a = TRUE /\ x.kind = "base")
        /\ Leads(y, x.held, x.irq, FALSE, "no", x.kind)
     \/ /\ o[1] = "yield" /\ x.held = {"ptable"} /\ x.irq /\ Calm(x) /\ x.kind # "loop"
        /\ Leads(y, x.held, TRUE, FALSE, "no", x.kind)
     \/ /\ o[1] = "sleep" /\ x.held = {"ptable"} /\ a \in {"ticks", "child"} /\ x.nap = a
        /\ ~x.irq /\ ~x.tock /\ x.kind = "base"
        /\ Leads(y, x.held, FALSE, FALSE, "no", "base")
     \/ /\ o[1] = "wait" /\ x.held = {"ptable"} /\ Plain(x)
        /\ Leads(y, {}, FALSE, FALSE, "no", "base")
     \/ /\ o[1] = "kill" /\ a \in Procs \ {initproc} /\ x.held = {"ptable"} /\ Plain(x)
        /\ Leads(y, {}, FALSE, FALSE, "no", "base")
     \/ /\ o[1] = "sysret" /\ x.held = {} /\ Plain(x)
        /\ Leads(y, {}, FALSE, FALSE, "no", "base")
     \/ /\ o[1] = "sys_sleep" /\ a \in BOOLEAN /\ x.held = {"ticks"} /\ Plain(x)
        /\ Leads(y, x.held, FALSE, FALSE, "no", "base")
     \/ /\ o[1] = "user" /\ x.held = {} /\ Plain(x)
        /\ Leads(y, {}, FALSE, FALSE, "no", "end")
     \/ /\ o[1] = "exit" /\ x.held = {"ptable"} /\ Calm(x) /\ x.kind = "base"
        /\ \/ Leads(y, {}, x.irq, FALSE, "no", "base")
           \/ ~x.irq /\ Leads(y, {}, FALSE, FALSE, "no", "end")
     \/ /\ o[1] = "loop" /\ x.held = {} /\ ~x.irq /\ Calm(x) /\ x.kind = "loop"
        /\ Leads(y, {}, FALSE, FALSE, "no", "end")
     \/ /\ o[1] = "scan" /\ a \in Nat /\ x.held = {"ptable"} /\ ~x.irq /\ Calm(x) /\ x.kind = "loop"
        /\ Leads(y, {}, FALSE, FALSE, "no", "end")

\* What the operations S of a stack tell of the context it is executed with.
Tells(S, x) ==
  /\ x.irq <=> \E o \in S : o[1] \in {"trap", "iret"}
  /\ x.kind = "start" <=> \E o \in S : o[1] = "trapret"
  /\ x.tock => \E o \in S : o[1] = "wakeup1"
  /\ \A o \in S : o[1] = "sleep" => x.nap = o[2] /\ x.nap # "no"

Rest(s, i) == {s[j] : j \in i..Len(s)}
Done(x) == x.kind = "end" /\ ~x.irq /\ Calm(x)

\* The contexts a[i] in which the operations of s are executed.
Path(a, s) ==
  /\ a \in [1..(Len(s) + 1) -> Ctx]
  /\ \A i \in 1..Len(s) : Trans(a[i], s[i], a[i + 1])
  /\ \A i \in 1..(Len(s) + 1) : Tells(Rest(s, i), a[i])
  /\ Done(a[Len(s) + 1])
Runs(s, x) == s \in Stacks /\ \E a : Path(a, s) /\ a[1] = x

Cons(o, s) == <<o>> \o s

-----------------------------------------------------------------------------
(* Stacks *)

LEMMA ConsFacts ==
  ASSUME NEW o \in Ops, NEW s \in Stacks
  PROVE  /\ Cons(o, s) \in Stacks /\ Cons(o, s) # <<>> /\ Len(Cons(o, s)) = Len(s) + 1
         /\ Cons(o, s)[1] = o /\ Tail(Cons(o, s)) = s
         /\ \A i \in 1..Len(s) : Cons(o, s)[i + 1] = s[i]
         /\ Range(Cons(o, s)) = {o} \cup Range(s) /\ Len(s) \in Nat
<1>1. /\ Cons(o, s) \in Stacks /\ Cons(o, s) # <<>> /\ Len(Cons(o, s)) = Len(s) + 1
      /\ Cons(o, s)[1] = o
      /\ \A i \in 1..Len(s) : Cons(o, s)[i + 1] = s[i] /\ Len(s) \in Nat
  BY SMT DEF Cons, Stacks
<1>2. Tail(Cons(o, s)) = s
  BY SMT DEF Cons, Stacks
<1>3. Range(Cons(o, s)) = {o} \cup Range(s)
  <2>1. DOMAIN Cons(o, s) = 1..(Len(s) + 1) /\ DOMAIN s = 1..Len(s) /\ Len(s) \in Nat
    BY <1>1, SMT DEF Stacks
  <2>2. ASSUME NEW e \in Range(Cons(o, s))
        PROVE  e \in {o} \cup Range(s)
    <3>1. PICK i \in 1..(Len(s) + 1) : e = Cons(o, s)[i]
      BY <2>1 DEF Range
    <3>2. CASE i = 1
      BY <1>1, <3>1, <3>2
    <3>3. CASE i # 1
      <4>1. i - 1 \in 1..Len(s) /\ (i - 1) + 1 = i
        BY <2>1, <3>3, SMT
      <4>2. e = s[i - 1]
        BY <1>1, <3>1, <4>1
      <4> QED BY <2>1, <4>1, <4>2 DEF Range
    <3> QED BY <3>2, <3>3
  <2>3. ASSUME NEW e \in {o} \cup Range(s)
        PROVE  e \in Range(Cons(o, s))
    <3>1. CASE e = o
      BY <1>1, <2>1, <3>1, SMT DEF Range
    <3>2. CASE e \in Range(s)
      <4>1. PICK i \in 1..Len(s) : e = s[i]
        BY <2>1, <3>2 DEF Range
      <4>2. i + 1 \in 1..(Len(s) + 1) /\ e = Cons(o, s)[i + 1]
        BY <1>1, <2>1, <4>1, SMT
      <4> QED BY <2>1, <4>2 DEF Range
    <3> QED BY <2>3, <3>1, <3>2
  <2> QED BY <2>2, <2>3
<1> QED BY <1>1, <1>2, <1>3, SMT

LEMMA OpFacts ==
  /\ \A a \in Names, b \in Args : <<a, b>> \in Ops /\ <<a, b>>[1] = a /\ <<a, b>>[2] = b
  /\ \A a \in Names, b \in Args : \E o \in Ops : o = <<a, b>> /\ o[1] = a /\ o[2] = b
  /\ \A o \in Ops : o[1] \in Names /\ o[2] \in Args /\ o = <<o[1], o[2]>>
  /\ Locks \subseteq Args
<1>1. \A a \in Names, b \in Args : <<a, b>> \in Ops /\ <<a, b>>[1] = a /\ <<a, b>>[2] = b
  BY DEF Ops
<1>2. \A o \in Ops : o[1] \in Names /\ o[2] \in Args /\ o = <<o[1], o[2]>>
  BY SMT DEF Ops
<1>3. Locks \subseteq Args
  BY DEF Locks, Args
<1> QED BY <1>1, <1>2, <1>3

LEMMA KnownOps ==
  /\ \A l \in Locks : <<"acquire", l>> \in Ops /\ <<"release", l>> \in Ops
  /\ <<"tick", 0>> \in Ops /\ <<"wakeup1", "ticks">> \in Ops /\ <<"exit", 0>> \in Ops
  /\ <<"sleep", "ticks">> \in Ops /\ <<"sys_sleep", FALSE>> \in Ops
  /\ <<"trap", "user">> \in Ops /\ <<"trap", "kernel">> \in Ops
<1>1. {"acquire", "release", "tick", "wakeup1", "exit", "sleep", "sys_sleep", "trap"} \subseteq Names
  BY DEF Names
<1>2. {"ticks", "user", "kernel", FALSE} \subseteq Args /\ 0 \in Args /\ Locks \subseteq Args
  BY OpFacts, SMT DEF Args
<1>3. \A w \in Names, i \in Args : <<w, i>> \in Ops
  BY OpFacts
<1> QED BY <1>1, <1>2, <1>3

LEMMA StackFacts ==
  ASSUME NEW s \in Stacks, s # <<>>
  PROVE  s[1] \in Ops /\ Tail(s) \in Stacks /\ s = Cons(s[1], Tail(s))
BY SMT DEF Cons, Stacks

LEMMA Assoc ==
  ASSUME NEW q \in Stacks, NEW r \in Stacks, NEW s \in Stacks
  PROVE  (q \o r) \o s = q \o (r \o s) /\ q \o r \in Stacks
BY SMT DEF Stacks

(* Operations one after the other, as the code writes them. *)
One(o) == <<o>>
App(q, r) == q \o r
Snoc(q, o) == q \o <<o>>

LEMMA AppFacts ==
  ASSUME NEW q \in Stacks, NEW o \in Ops, NEW r \in Stacks
  PROVE  /\ One(o) \in Stacks /\ Snoc(q, o) \in Stacks /\ Cons(o, r) \in Stacks
         /\ App(Snoc(q, o), r) = App(q, Cons(o, r)) /\ App(One(o), r) = Cons(o, r)
<1>1. <<o>> \in Stacks
  BY SMT DEF Stacks
<1>2. q \o <<o>> \in Stacks /\ (q \o <<o>>) \o r = q \o (<<o>> \o r)
  <2>1. PICK w \in Stacks : w = <<o>>
    BY <1>1
  <2>2. q \o w \in Stacks
    BY Assoc
  <2>3. (q \o w) \o r = q \o (w \o r)
    BY SMT DEF Stacks
  <2> QED BY <2>1, <2>2, <2>3
<1>3. <<o>> \o r \in Stacks
  BY <1>1, Assoc
<1> QED BY <1>1, <1>2, <1>3 DEF One, App, Snoc, Cons

LEMMA OneFacts ==
  ASSUME NEW o \in Ops
  PROVE  One(o) \in Stacks /\ \A r \in Stacks : Cons(o, r) \in Stacks /\ App(One(o), r) = Cons(o, r)
<1>1. <<>> \in Stacks
  BY SMT DEF Stacks
<1> QED BY <1>1, AppFacts

LEMMA SnocFacts ==
  ASSUME NEW q \in Stacks, NEW o \in Ops
  PROVE  /\ Snoc(q, o) \in Stacks
         /\ \A r \in Stacks : Cons(o, r) \in Stacks /\ App(Snoc(q, o), r) = App(q, Cons(o, r))
BY AppFacts

LEMMA Lists ==
  ASSUME NEW a \in Ops, NEW b \in Ops, NEW s \in Stacks
  PROVE  /\ App(Snoc(One(a), b), s) = Cons(a, Cons(b, s))
         /\ \A c \in Ops : App(Snoc(Snoc(One(a), b), c), s) = Cons(a, Cons(b, Cons(c, s)))
         /\ \A c, d \in Ops :
              App(Snoc(Snoc(Snoc(One(a), b), c), d), s) = Cons(a, Cons(b, Cons(c, Cons(d, s))))
<1>1. PICK q : q = Snoc(One(a), b)
  OBVIOUS
<1>2. q \in Stacks /\ \A r \in Stacks : App(q, r) = Cons(a, Cons(b, r))
  <2>1. One(a) \in Stacks /\ \A r \in Stacks : App(One(a), r) = Cons(a, r)
    BY OneFacts
  <2>2. q \in Stacks /\ \A r \in Stacks : Cons(b, r) \in Stacks /\ App(q, r) = App(One(a), Cons(b, r))
    BY <1>1, <2>1, SnocFacts
  <2> QED BY <2>1, <2>2
<1>3. \A c \in Ops : /\ Snoc(q, c) \in Stacks
                    /\ \A r \in Stacks : App(Snoc(q, c), r) = Cons(a, Cons(b, Cons(c, r)))
  BY <1>2, SnocFacts
<1>4. ASSUME NEW c \in Ops, NEW d \in Ops
      PROVE  App(Snoc(Snoc(q, c), d), s) = Cons(a, Cons(b, Cons(c, Cons(d, s))))
  <2>1. PICK v \in Stacks : /\ v = Snoc(q, c)
                            /\ \A r \in Stacks : App(v, r) = Cons(a, Cons(b, Cons(c, r)))
    BY <1>3
  <2>2. App(Snoc(v, d), s) = App(v, Cons(d, s)) /\ Cons(d, s) \in Stacks
    BY AppFacts
  <2> QED BY <2>1, <2>2
<1> QED BY <1>1, <1>2, <1>3, <1>4

AllOps(a, b, c, d, e, f) == {a, b, c, d, e, f} \in SUBSET Ops

LEMMA SixOps ==
  ASSUME NEW a, NEW b, NEW c, NEW d, NEW e, NEW f, AllOps(a, b, c, d, e, f), NEW s \in Stacks
  PROVE  App(Snoc(Snoc(Snoc(Snoc(Snoc(One(a), b), c), d), e), f), s)
           = Cons(a, Cons(b, Cons(c, Cons(d, Cons(e, Cons(f, s))))))
<1>1. a \in Ops /\ b \in Ops /\ c \in Ops /\ d \in Ops /\ e \in Ops /\ f \in Ops
  BY DEF AllOps
<1>2. PICK q : q = Snoc(Snoc(Snoc(One(a), b), c), d)
  OBVIOUS
<1>3. q \in Stacks /\ \A r \in Stacks : App(q, r) = Cons(a, Cons(b, Cons(c, Cons(d, r))))
  <2>1. One(a) \in Stacks /\ \A r \in Stacks : App(One(a), r) = Cons(a, r)
    BY <1>1, OneFacts
  <2>2. PICK v, w : v = Snoc(One(a), b) /\ w = Snoc(v, c) /\ q = Snoc(w, d)
    BY <1>2
  <2>3. v \in Stacks /\ \A r \in Stacks : App(v, r) = Cons(a, Cons(b, r))
    <3>1. b \in Ops /\ One(a) \in Stacks /\ v = Snoc(One(a), b)
      BY <1>1, <2>1, <2>2
    <3>2. v \in Stacks /\ \A r \in Stacks : Cons(b, r) \in Stacks /\ App(v, r) = App(One(a), Cons(b, r))
      BY <3>1, SnocFacts
    <3> QED BY <2>1, <3>2
  <2>4. w \in Stacks /\ \A r \in Stacks : App(w, r) = Cons(a, Cons(b, Cons(c, r)))
    <3>1. c \in Ops /\ v \in Stacks /\ w = Snoc(v, c)
      BY <1>1, <2>2, <2>3
    <3>2. w \in Stacks /\ \A r \in Stacks : Cons(c, r) \in Stacks /\ App(w, r) = App(v, Cons(c, r))
      BY <3>1, SnocFacts
    <3> QED BY <2>3, <3>2
  <2>5. d \in Ops /\ w \in Stacks /\ q = Snoc(w, d)
    BY <1>1, <2>2, <2>4
  <2>6. q \in Stacks /\ \A r \in Stacks : Cons(d, r) \in Stacks /\ App(q, r) = App(w, Cons(d, r))
    BY <2>5, SnocFacts
  <2> QED BY <2>4, <2>6
<1>4. Cons(f, s) \in Stacks /\ Cons(e, Cons(f, s)) \in Stacks
  BY <1>1, OneFacts
<1>5. App(q, Cons(e, Cons(f, s))) = Cons(a, Cons(b, Cons(c, Cons(d, Cons(e, Cons(f, s))))))
  BY <1>3, <1>4
<1>6. Snoc(q, e) \in Stacks /\ App(Snoc(q, e), Cons(f, s)) = App(q, Cons(e, Cons(f, s)))
  <2>1. e \in Ops /\ q \in Stacks /\ Cons(f, s) \in Stacks
    BY <1>1, <1>3, <1>4
  <2> QED BY <2>1, SnocFacts
<1>7. App(Snoc(Snoc(q, e), f), s) = App(Snoc(q, e), Cons(f, s))
  BY <1>1, <1>6, SnocFacts
<1>8. Snoc(Snoc(Snoc(Snoc(Snoc(One(a), b), c), d), e), f) = Snoc(Snoc(q, e), f)
  BY <1>2
<1> QED BY <1>5, <1>6, <1>7, <1>8

\* sleep(&ticks, &tickslock) and the next round of sys_sleep.
LEMMA NapOps ==
  ASSUME NEW s \in Stacks
  PROVE  (sleep("ticks", "ticks") \o Op("sys_sleep", FALSE)) \o s
           = Cons(<<"acquire", "ptable">>, Cons(<<"release", "ticks">>, Cons(<<"sleep", "ticks">>,
               Cons(<<"release", "ptable">>, Cons(<<"acquire", "ticks">>,
                 Cons(<<"sys_sleep", FALSE>>, s))))))
<1>1. PICK a \in Ops, b \in Ops, c \in Ops, d \in Ops, e \in Ops, f \in Ops :
        /\ a = <<"acquire", "ptable">> /\ b = <<"release", "ticks">> /\ c = <<"sleep", "ticks">>
        /\ d = <<"release", "ptable">> /\ e = <<"acquire", "ticks">>
        /\ f = <<"sys_sleep", FALSE>>
  BY KnownOps DEF Locks
<1>2. App(Snoc(Snoc(Snoc(Snoc(Snoc(One(a), b), c), d), e), f), s)
        = Cons(a, Cons(b, Cons(c, Cons(d, Cons(e, Cons(f, s))))))
  <2>1. AllOps(a, b, c, d, e, f)
    BY DEF AllOps
  <2> QED BY <2>1, SixOps, SMT
<1>3. (sleep("ticks", "ticks") \o Op("sys_sleep", FALSE)) \o s
        = App(Snoc(Snoc(Snoc(Snoc(Snoc(One(a), b), c), d), e), f), s)
  BY <1>1 DEF App, Snoc, One, sleep, acquire, release, Op
<1> QED BY <1>1, <1>2, <1>3, ZenonT(30)

-----------------------------------------------------------------------------
(* Contexts *)

LEMMA TellsBack ==
  ASSUME NEW S \in SUBSET Ops, NEW o \in Ops, NEW x \in Ctx, NEW y \in Ctx,
         Tells(S, y), Trans(x, o, y)
  PROVE  Tells({o} \cup S, x)
<1>1. x.irq <=> \E e \in {o} \cup S : e[1] \in {"trap", "iret"}
  <2>1. CASE o[1] \in {"trap", "iret"}
    BY <2>1 DEF Trans
  <2>2. CASE o[1] \notin {"trap", "iret"}
    <3>1. x.irq <=> y.irq
      BY <2>2 DEF Trans, Leads, Plain
    <3> QED BY <2>2, <3>1 DEF Tells
  <2> QED BY <2>1, <2>2
<1>2. x.kind = "start" <=> \E e \in {o} \cup S : e[1] = "trapret"
  <2>1. CASE o[1] = "trapret"
    BY <2>1 DEF Trans
  <2>2. CASE o[1] # "trapret"
    <3>1. x.kind = "start" <=> y.kind = "start"
      BY <2>2 DEF Trans, Leads, Plain
    <3> QED BY <2>2, <3>1 DEF Tells
  <2> QED BY <2>1, <2>2
<1>3. x.tock => \E e \in {o} \cup S : e[1] = "wakeup1"
  <2>1. x.tock => o[1] = "wakeup1" \/ y.tock
    BY DEF Trans, Leads, Plain, Calm
  <2> QED BY <2>1 DEF Tells
<1>4. ASSUME NEW e \in {o} \cup S, e[1] = "sleep"
      PROVE  x.nap = e[2] /\ x.nap # "no"
  <2>1. CASE e = o
    BY <1>4, <2>1 DEF Trans
  <2>2. CASE e \in S
    <3>1. y.nap = e[2] /\ y.nap # "no"
      BY <1>4, <2>2 DEF Tells
    <3>2. x.nap = y.nap
      BY <3>1 DEF Trans, Leads
    <3> QED BY <3>1, <3>2
  <2> QED BY <2>1, <2>2
<1> QED BY <1>1, <1>2, <1>3, <1>4 DEF Tells

(* The context after the last operation. *)
LEMMA RunsNothing ==
  ASSUME NEW x \in Ctx, Done(x)
  PROVE  Runs(<<>>, x)
<1> DEFINE a == [i \in 1..1 |-> x]
<1>1. <<>> \in Stacks /\ Len(<<>>) = 0
  BY SMT DEF Stacks
<1>2. Rest(<<>>, 1) = {}
  BY <1>1, SMT DEF Rest
<1>3. Tells({}, x)
  BY DEF Tells, Done, Calm
<1>4. Path(a, <<>>) /\ a[1] = x
  BY <1>1, <1>2, <1>3, SMT DEF Path
<1> QED BY <1>1, <1>4 DEF Runs

LEMMA RestFacts ==
  ASSUME NEW o \in Ops, NEW s \in Stacks
  PROVE  /\ Rest(Cons(o, s), 1) = {o} \cup Rest(s, 1)
         /\ \A i \in 1..(Len(s) + 1) : Rest(Cons(o, s), i + 1) = Rest(s, i)
         /\ Rest(s, 1) = Range(s) /\ Rest(s, 1) \in SUBSET Ops
<1>1. /\ Cons(o, s) \in Stacks /\ Len(Cons(o, s)) = Len(s) + 1 /\ Len(s) \in Nat
      /\ Cons(o, s)[1] = o
      /\ \A i \in 1..Len(s) : Cons(o, s)[i + 1] = s[i]
      /\ Range(Cons(o, s)) = {o} \cup Range(s)
  BY ConsFacts DEF Stacks
<1>2. \A r \in Stacks : Rest(r, 1) = Range(r) /\ Rest(r, 1) \in SUBSET Ops
  BY SMT DEF Rest, Range, Stacks
<1>3. ASSUME NEW i \in 1..(Len(s) + 1)
      PROVE  Rest(Cons(o, s), i + 1) = Rest(s, i)
  <2>1. ASSUME NEW e \in Rest(Cons(o, s), i + 1)
        PROVE  e \in Rest(s, i)
    <3>1. PICK j \in (i + 1)..(Len(s) + 1) : e = Cons(o, s)[j]
      BY <1>1 DEF Rest
    <3>2. j - 1 \in 1..Len(s) /\ j - 1 \in i..Len(s) /\ (j - 1) + 1 = j
      BY <1>1, SMT
    <3>3. e = s[j - 1]
      BY <1>1, <3>1, <3>2
    <3> QED BY <3>2, <3>3 DEF Rest
  <2>2. ASSUME NEW e \in Rest(s, i)
        PROVE  e \in Rest(Cons(o, s), i + 1)
    <3>1. PICK j \in i..Len(s) : e = s[j]
      BY DEF Rest
    <3>2. j \in 1..Len(s) /\ j + 1 \in (i + 1)..(Len(s) + 1)
      BY <1>1, SMT
    <3>3. e = Cons(o, s)[j + 1]
      BY <1>1, <3>1, <3>2
    <3> QED BY <1>1, <3>2, <3>3 DEF Rest
  <2> QED BY <2>1, <2>2
<1> QED BY <1>1, <1>2, <1>3

LEMMA Push ==
  ASSUME NEW o \in Ops, NEW s, NEW x \in Ctx, NEW y \in Ctx, Trans(x, o, y), Runs(s, y)
  PROVE  Runs(Cons(o, s), x) /\ Range(Cons(o, s)) = {o} \cup Range(s) /\ Cons(o, s) \in Stacks
<1>1. s \in Stacks
  BY DEF Runs
<1>2. PICK a : Path(a, s) /\ a[1] = y
  BY DEF Runs
<1> DEFINE m == Len(s)
           b == [i \in 1..(m + 2) |-> IF i = 1 THEN x ELSE a[i - 1]]
           r == Cons(o, s)
<1>3. /\ r \in Stacks /\ Len(r) = m + 1 /\ m \in Nat /\ r[1] = o
      /\ \A i \in 1..m : r[i + 1] = s[i]
  BY <1>1, ConsFacts
<1>4. /\ a \in [1..(m + 1) -> Ctx] /\ Done(a[m + 1])
      /\ \A i \in 1..m : Trans(a[i], s[i], a[i + 1])
      /\ \A i \in 1..(m + 1) : Tells(Rest(s, i), a[i])
  BY <1>2 DEF Path
<1>5. b \in [1..(m + 2) -> Ctx] /\ b[1] = x /\ \A i \in 1..(m + 1) : b[i + 1] = a[i]
  BY <1>3, <1>4, SMT
<1>6. ASSUME NEW i \in 1..(m + 1)
      PROVE  Trans(b[i], r[i], b[i + 1])
  <2>1. CASE i = 1
    BY <1>2, <1>3, <1>5, <2>1
  <2>2. CASE i # 1
    <3>0. i - 1 \in 1..m /\ i = (i - 1) + 1
      BY <1>3, <2>2, SMT
    <3>1. PICK j \in 1..m : i = j + 1
      BY <3>0
    <3>2. b[i] = a[j] /\ r[i] = s[j] /\ b[i + 1] = a[j + 1]
      BY <1>3, <1>5, <3>1, SMT
    <3> QED BY <1>4, <3>2
  <2> QED BY <2>1, <2>2
<1>7. ASSUME NEW i \in 1..(m + 2)
      PROVE  Tells(Rest(r, i), b[i])
  <2>1. CASE i = 1
    <3>1. Tells(Rest(s, 1), y) /\ Rest(s, 1) \in SUBSET Ops /\ Rest(r, 1) = {o} \cup Rest(s, 1)
      BY <1>1, <1>2, <1>3, <1>4, RestFacts, SMT
    <3> QED BY <1>5, <2>1, <3>1, TellsBack, SMT
  <2>2. CASE i # 1
    <3>1. PICK j \in 1..(m + 1) : i = j + 1
      BY <1>3, <2>2, SMT
    <3>2. b[i] = a[j] /\ Rest(r, i) = Rest(s, j)
      BY <1>1, <1>5, <3>1, RestFacts
    <3> QED BY <1>4, <3>2
  <2> QED BY <2>1, <2>2
<1>8. Done(b[m + 2])
  BY <1>3, <1>4, <1>5, SMT
<1>9. Path(b, r)
  <2> HIDE DEF b, m, r
  <2>1. Len(r) + 1 = m + 2
    BY <1>3, SMT
  <2> QED BY <1>3, <1>5, <1>6, <1>7, <1>8, <2>1 DEF Path
<1>10. Range(Cons(o, s)) = {o} \cup Range(s)
  BY <1>1, ConsFacts
<1> QED BY <1>3, <1>5, <1>9, <1>10 DEF Runs

LEMMA Pop ==
  ASSUME NEW s, NEW x \in Ctx, x.kind # "end", Runs(s, x)
  PROVE  /\ s \in Stacks /\ s # <<>> /\ s[1] \in Ops /\ Tail(s) \in Stacks
         /\ s = Cons(s[1], Tail(s)) /\ Range(s) = {s[1]} \cup Range(Tail(s))
         /\ \E y \in Ctx : Trans(x, s[1], y) /\ Runs(Tail(s), y)
<1>1. s \in Stacks
  BY DEF Runs
<1>2. PICK a : Path(a, s) /\ a[1] = x
  BY DEF Runs
<1>3. s # <<>>
  BY <1>2, SMT DEF Path, Done
<1>4. s[1] \in Ops /\ Tail(s) \in Stacks /\ s = Cons(s[1], Tail(s))
  BY <1>1, <1>3, StackFacts
<1>5. PICK o \in Ops, r \in Stacks : o = s[1] /\ r = Tail(s)
  BY <1>4
<1> DEFINE m == Len(r)
           b == [i \in 1..(m + 1) |-> a[i + 1]]
<1>6. /\ s = Cons(o, r) /\ Len(s) = m + 1 /\ m \in Nat
      /\ \A i \in 1..m : s[i + 1] = r[i]
      /\ Range(s) = {o} \cup Range(r)
  <2>1. s = Cons(o, r)
    BY <1>4, <1>5
  <2>2. /\ Len(Cons(o, r)) = m + 1 /\ m \in Nat
        /\ \A i \in 1..m : Cons(o, r)[i + 1] = r[i]
        /\ Range(Cons(o, r)) = {o} \cup Range(r)
    BY ConsFacts
  <2> QED BY <2>1, <2>2
<1>7. /\ a \in [1..(m + 2) -> Ctx] /\ Done(a[m + 2])
      /\ \A i \in 1..(m + 1) : Trans(a[i], s[i], a[i + 1])
      /\ \A i \in 1..(m + 2) : Tells(Rest(s, i), a[i])
  <2>1. Len(s) + 1 = m + 2
    BY <1>6, SMT
  <2> QED BY <1>2, <1>6, <2>1 DEF Path
<1>8. b \in [1..(m + 1) -> Ctx] /\ \A i \in 1..(m + 1) : b[i] = a[i + 1]
  BY <1>6, <1>7, SMT
<1>9. \A i \in 1..m : Trans(b[i], r[i], b[i + 1])
  <2> TAKE i \in 1..m
  <2>1. i + 1 \in 1..(m + 1) /\ b[i] = a[i + 1] /\ b[i + 1] = a[(i + 1) + 1] /\ s[i + 1] = r[i]
    BY <1>6, <1>8, SMT
  <2> QED BY <1>7, <2>1
<1>10. \A i \in 1..(m + 1) : Tells(Rest(r, i), b[i])
  <2> TAKE i \in 1..(m + 1)
  <2>1. i + 1 \in 1..(m + 2) /\ Rest(s, i + 1) = Rest(r, i) /\ b[i] = a[i + 1]
    BY <1>6, <1>8, RestFacts, SMT
  <2> QED BY <1>7, <2>1
<1>11. Path(b, r)
  <2> HIDE DEF b
  <2>1. Done(b[m + 1])
    BY <1>6, <1>7, <1>8, SMT
  <2> QED BY <1>8, <1>9, <1>10, <2>1 DEF Path
<1>12. b[1] \in Ctx /\ Trans(x, o, b[1]) /\ Runs(r, b[1])
  <2>1. 1 \in 1..(m + 1) /\ 1 + 1 = 2
    BY <1>6, SMT
  <2>2. b[1] \in Ctx /\ b[1] = a[1 + 1]
    BY <1>8, <2>1
  <2>3. Trans(a[1], s[1], a[1 + 1])
    BY <1>7, <2>1
  <2> HIDE DEF b
  <2> QED BY <1>2, <1>5, <1>11, <2>2, <2>3 DEF Runs
<1> QED BY <1>1, <1>3, <1>4, <1>5, <1>6, <1>12

LEMMA RunsTells ==
  ASSUME NEW s, NEW x \in Ctx, Runs(s, x)
  PROVE  s \in Stacks /\ Tells(Range(s), x) /\ (x.kind = "end" => s = <<>>)
<1>1. s \in Stacks /\ Len(s) \in Nat
  BY SMT DEF Runs, Stacks
<1>2. PICK a : Path(a, s) /\ a[1] = x
  BY DEF Runs
<1>3. Rest(s, 1) = Range(s)
  BY <1>1, SMT DEF Rest, Range, Stacks
<1>4. Tells(Range(s), x)
  BY <1>1, <1>2, <1>3, SMT DEF Path
<1>5. ASSUME x.kind = "end", s # <<>>
      PROVE  FALSE
  <2>1. 1 \in 1..Len(s)
    BY <1>1, <1>5, SMT DEF Stacks
  <2>2. Trans(x, s[1], a[2])
    BY <1>2, <2>1, SMT DEF Path
  <2> QED BY <1>5, <2>2 DEF Trans
<1> QED BY <1>1, <1>4, <1>5

-----------------------------------------------------------------------------
(* The invariant of switching *)

\* The number of locks in h: what ncli counts.
Count(h) == (IF "ptable" \in h THEN 1 ELSE 0) + (IF "ticks" \in h THEN 1 ELSE 0)

\* Interrupts are on only outside locks and handlers, and there they are on in
\* a process that has been in user space; intena says what to go back to.
Flags(x, nc, on) == (on => nc = 0 /\ ~x.irq) /\ (nc = 0 /\ ~x.irq /\ x.kind = "base" => on)
Saved(x, nc, en) == nc # 0 => (x.irq => ~en) /\ (~x.irq /\ x.kind = "base" => en)

\* A processor with context x: s is the stack it executes, cp the process or 0,
\* h the locks it holds, nc, on and en its ncli, interrupt flag and intena.  One
\* that spins has counted the lock it does not have yet.
Fits(x, s, cp, h, nc, on, en) ==
  /\ s \in Stacks /\ s # <<>>
  /\ x.held = h /\ x.kind # "end" /\ (cp = 0 <=> x.kind = "loop")
  /\ Flags(x, nc, on) /\ (s[1][1] = "resume" \/ Saved(x, nc, en))
  /\ \/ Runs(s, x) /\ nc = Count(h)
     \/ s[1][1] = "spin" /\ Runs(Cons(<<"acquire", s[1][2]>>, Tail(s)), x) /\ nc = Count(h) + 1
CpuFits ==
  \A c \in CPUs : \E x \in Ctx :
    Fits(x, todo[Thread(c)], cproc[c], Held(c), ncli[c], ie[c], intena[c])

\* Where sched() and the scheduler leave a stack, and how it is continued.
Switched(i, k) == K({"ptable"}, i, FALSE, "no", k)
Parked(s) ==
  \/ s[1][1] = "resume" /\ \E i \in BOOLEAN, k \in {"start", "base"} : Runs(s, Switched(i, k))
  \/ s[1][1] = "release" /\ Runs(s, Switched(FALSE, "start"))
Ready == {"RUNNABLE", "SLEEPING"}
ProcFits == \A p \in Procs : state[p] \in Ready => Parked(todo[p])
LoopFits == \A c \in CPUs : cproc[c] # 0 => Runs(todo[-c], Switched(FALSE, "loop"))

OnCpu ==
  /\ \A c, d \in CPUs : cproc[c] # 0 /\ cproc[c] = cproc[d] => c = d
  /\ \A c \in CPUs : cproc[c] # 0 => state[cproc[c]] = "RUNNING"
  /\ \A p \in Procs : state[p] = "RUNNING" => \E c \in CPUs : cproc[c] = p

DataOK ==
  /\ state \in [Procs -> {"UNUSED", "SLEEPING", "RUNNABLE", "RUNNING", "ZOMBIE"}]
  /\ chan \in [Procs -> {"none", "ticks", "child"}]
  /\ killed \in [Procs -> BOOLEAN]
  /\ ticks \in 0..(Wrap - 1)
  /\ ticks0 \in [Procs -> 0..(Wrap - 1)] /\ n \in [Procs -> Naps \cup {0}]
CpuOK ==
  /\ cproc \in [CPUs -> 0..NPROC]
  /\ ncli \in [CPUs -> 0..2] /\ intena \in [CPUs -> BOOLEAN] /\ ie \in [CPUs -> BOOLEAN]
  /\ lock \in [Locks -> 0..NCPU]
  /\ todo \in [Threads -> Stacks] /\ panicked = FALSE

SwitchInv == DataOK /\ CpuOK /\ OnCpu /\ CpuFits /\ ProcFits /\ LoopFits

-----------------------------------------------------------------------------
(* Locks, threads and what the first operation of a stack finds *)

LEMMA CountFacts ==
  ASSUME NEW h \in SUBSET Locks
  PROVE  /\ Count(h) \in 0..2 /\ (Count(h) = 0 <=> h = {}) /\ Count(Locks) = 2
         /\ Count({"ptable"}) = 1 /\ Count({"ticks"}) = 1
         /\ \A l \in Locks \ h : Count(h \cup {l}) = Count(h) + 1
         /\ \A l \in h : Count(h \ {l}) = Count(h) - 1
BY SMT DEF Count, Locks

LEMMA KFacts ==
  ASSUME NEW h \in SUBSET Locks, NEW i \in BOOLEAN, NEW k \in {"start", "base", "loop", "end"},
         NEW a \in {"no", "ticks", "child"}, NEW t \in BOOLEAN
  PROVE  K(h, i, t, a, k) \in Ctx /\ Leads(K(h, i, t, a, k), h, i, t, a, k)
BY DEF K, Ctx, Leads

LEMMA ThreadFacts ==
  ASSUME CpuOK, OnCpu, NEW c \in CPUs
  PROVE  /\ Thread(c) \in Threads /\ -c \in Threads
         /\ cproc[c] = 0 => Thread(c) = -c /\ Thread(c) \notin Procs
         /\ cproc[c] # 0 => Thread(c) = cproc[c] /\ Thread(c) \in Procs
         /\ \A d \in CPUs : Thread(d) = Thread(c) => d = c
         /\ \A d \in CPUs : Thread(c) = -d => d = c /\ cproc[c] = 0
<1>1. CPUs \subseteq Nat \ {0} /\ Procs \subseteq Nat \ {0} /\ cproc[c] \in 0..NPROC
  BY SchedulerAssumption, SMT DEF CpuOK, CPUs, Procs
<1>2. cproc[c] # 0 => cproc[c] \in Procs
  BY <1>1, SchedulerAssumption, SMT DEF Procs
<1>3. -c \in Threads /\ -c \notin Procs
  BY <1>1, SMT DEF Threads
<1>4. ASSUME NEW d \in CPUs, Thread(d) = Thread(c)
      PROVE  d = c
  <2>1. cproc[d] # 0 => cproc[d] \in Procs
    BY SchedulerAssumption, SMT DEF CpuOK, Procs, CPUs
  <2> QED BY <1>1, <1>2, <1>4, <2>1, SMT DEF Thread, OnCpu
<1>5. ASSUME NEW d \in CPUs, Thread(c) = -d
      PROVE  d = c /\ cproc[c] = 0
  BY <1>1, <1>2, <1>5, SMT DEF Thread
<1> QED BY <1>2, <1>3, <1>4, <1>5 DEF Thread, Threads

LEMMA HeldFacts ==
  ASSUME CpuOK, NEW c \in CPUs
  PROVE  /\ Held(c) = {l \in Locks : lock[l] = c} /\ Held(c) \in SUBSET Locks
         /\ c # NoCPU /\ \A d \in CPUs \ {c} : Held(c) \cap Held(d) = {}
<1>1. DOMAIN lock = Locks
  BY DEF CpuOK
<1> QED BY <1>1, SchedulerAssumption, SMT DEF Held, CPUs, NoCPU

LEMMA FitsCount ==
  ASSUME NEW x \in Ctx, NEW s, NEW cp, NEW h, NEW nc, NEW on, NEW en,
         Fits(x, s, cp, h, nc, on, en)
  PROVE  nc \in 0..2 /\ h \in SUBSET Locks
<1>1. h \in SUBSET Locks
  BY DEF Fits, Ctx
<1>2. CASE nc = Count(h)
  BY <1>1, <1>2, CountFacts
<1>3. CASE s[1][1] = "spin" /\ Runs(Cons(<<"acquire", s[1][2]>>, Tail(s)), x) /\ nc = Count(h) + 1
  <2>1. s[1] \in Ops /\ Tail(s) \in Stacks
    BY StackFacts DEF Fits
  <2>2. PICK o \in Ops : o = <<"acquire", s[1][2]>> /\ o[1] = "acquire"
    <3>1. "acquire" \in Names
      BY DEF Names
    <3> QED BY <2>1, <3>1, OpFacts, SMT
  <2>3. Cons(o, Tail(s))[1] = o
    BY <2>1, ConsFacts
  <2>4. x.kind # "end"
    BY DEF Fits
  <2>5. PICK y \in Ctx : Trans(x, o, y)
    BY <1>3, <2>2, <2>3, <2>4, Pop, SMT
  <2>6. o[2] \in Locks \ h
    <3>1. x.held = h
      BY DEF Fits
    <3> QED BY <2>2, <2>5, <3>1 DEF Trans
  <2>7. PICK l \in Locks \ h : l = o[2]
    BY <2>6
  <2>8. Count(h \cup {l}) = Count(h) + 1 /\ Count(h \cup {l}) \in 0..2 /\ Count(h) \in 0..2
    <3>1. h \cup {l} \in SUBSET Locks
      BY <1>1
    <3> QED BY <1>1, <3>1, CountFacts
  <2> QED BY <1>1, <1>3, <2>8
<1> QED BY <1>1, <1>2, <1>3 DEF Fits

\* Processor c executes o, the first operation of its stack, with the context x.
Frame(c, x, y, o, r) ==
  /\ todo[Thread(c)] = Cons(o, r) /\ todo[Thread(c)][1] = o /\ Tail(todo[Thread(c)]) = r
  /\ Range(todo[Thread(c)]) = {o} \cup Range(r)
  /\ Trans(x, o, y) /\ Runs(r, y) /\ Tells({o} \cup Range(r), x)
  /\ Held(c) = x.held /\ ncli[c] = Count(x.held)
  /\ x.kind # "end" /\ (cproc[c] = 0 <=> x.kind = "loop")
  /\ Flags(x, ncli[c], ie[c]) /\ (o[1] = "resume" \/ Saved(x, ncli[c], intena[c]))

LEMMA AtOp ==
  ASSUME SwitchInv, NEW c \in CPUs, todo[Thread(c)][1][1] # "spin"
  PROVE  \E x \in Ctx, y \in Ctx, o \in Ops, r \in Stacks : Frame(c, x, y, o, r)
<1>1. PICK x \in Ctx : Fits(x, todo[Thread(c)], cproc[c], Held(c), ncli[c], ie[c], intena[c])
  BY DEF SwitchInv, CpuFits
<1>2. PICK s : s = todo[Thread(c)]
  OBVIOUS
<1>3. /\ Runs(s, x) /\ ncli[c] = Count(Held(c)) /\ x.held = Held(c) /\ x.kind # "end"
      /\ cproc[c] = 0 <=> x.kind = "loop"
      /\ Flags(x, ncli[c], ie[c]) /\ (s[1][1] = "resume" \/ Saved(x, ncli[c], intena[c]))
  BY <1>1, <1>2 DEF Fits
<1>4. /\ s[1] \in Ops /\ Tail(s) \in Stacks
      /\ s = Cons(s[1], Tail(s)) /\ Range(s) = {s[1]} \cup Range(Tail(s))
      /\ \E y \in Ctx : Trans(x, s[1], y) /\ Runs(Tail(s), y)
  BY <1>3, Pop
<1>5. Tells(Range(s), x)
  BY <1>3, RunsTells
<1>6. PICK y \in Ctx : Trans(x, s[1], y) /\ Runs(Tail(s), y)
  BY <1>4
<1>7. Frame(c, x, y, s[1], Tail(s))
  BY <1>2, <1>3, <1>4, <1>5, <1>6 DEF Frame
<1> QED BY <1>4, <1>7

(* A stack that can be executed makes its processor fit. *)
LEMMA NewFits ==
  ASSUME NEW y \in Ctx, NEW s, NEW cp, NEW h, NEW nc, NEW on, NEW en,
         Runs(s, y), y.kind # "end", cp = 0 <=> y.kind = "loop", h = y.held, nc = Count(h),
         Flags(y, nc, on), s[1][1] = "resume" \/ Saved(y, nc, en)
  PROVE  Fits(y, s, cp, h, nc, on, en)
BY Pop DEF Fits

\* A step of processor c that switches no stacks.
Local(c, s, nc, on, en) ==
  /\ cproc' = cproc /\ panicked' = FALSE
  /\ todo' = [todo EXCEPT ![Thread(c)] = s]
  /\ ncli' = [ncli EXCEPT ![c] = nc]
  /\ ie' = [ie EXCEPT ![c] = on]
  /\ intena' = [intena EXCEPT ![c] = en]
  /\ lock' \in [Locks -> 0..NCPU] /\ \A d \in CPUs \ {c} : Held(d)' = Held(d)

\* No process starts or stops running, and none that is over comes back.
StateKept ==
  \A p \in Procs : /\ state'[p] = "RUNNING" <=> state[p] = "RUNNING"
                   /\ state'[p] \in Ready => state[p] \in Ready

LEMMA LocalStep ==
  ASSUME SwitchInv, NEW c \in CPUs, NEW s, NEW nc, NEW on \in BOOLEAN, NEW en \in BOOLEAN,
         NEW y \in Ctx, Local(c, s, nc, on, en), Fits(y, s, cproc[c], Held(c)', nc, on, en),
         StateKept, DataOK'
  PROVE  SwitchInv'
<1>1. /\ CpuOK /\ OnCpu /\ CpuFits /\ ProcFits /\ LoopFits
      /\ cproc' = cproc /\ panicked' = FALSE /\ todo' = [todo EXCEPT ![Thread(c)] = s]
      /\ ncli' = [ncli EXCEPT ![c] = nc] /\ ie' = [ie EXCEPT ![c] = on]
      /\ intena' = [intena EXCEPT ![c] = en]
      /\ lock' \in [Locks -> 0..NCPU] /\ \A d \in CPUs \ {c} : Held(d)' = Held(d)
  BY DEF SwitchInv, Local
<1>2. /\ Thread(c) \in Threads /\ s \in Stacks /\ nc \in 0..2
      /\ \A d \in CPUs : Thread(d) \in Threads /\ Thread(d)' = Thread(d)
      /\ \A d \in CPUs : Thread(d) = Thread(c) => d = c
  <2>1. s \in Stacks
    BY DEF Fits
  <2>2. nc \in 0..2
    BY FitsCount
  <2>3. \A d \in CPUs : Thread(d)' = Thread(d)
    BY <1>1 DEF Thread
  <2> QED BY <1>1, <2>1, <2>2, <2>3, ThreadFacts
<1>3. CpuOK'
  <2>1. todo' \in [Threads -> Stacks]
    BY <1>1, <1>2 DEF CpuOK
  <2> QED BY <1>1, <1>2, <2>1 DEF CpuOK
<1>4. OnCpu'
  <2>1. \A d \in CPUs : cproc[d] # 0 => cproc[d] \in Procs
    BY <1>1, ThreadFacts
  <2> QED BY <1>1, <2>1 DEF OnCpu, StateKept
<1>5. CpuFits'
  <2>1. ASSUME NEW d \in CPUs
        PROVE  \E x \in Ctx : Fits(x, todo'[Thread(d)], cproc[d], Held(d)', ncli'[d], ie'[d], intena'[d])
    <3>1. CASE d = c
      <4>1. todo'[Thread(d)] = s /\ ncli'[d] = nc /\ ie'[d] = on /\ intena'[d] = en
        BY <1>1, <1>2, <3>1 DEF CpuOK
      <4> QED BY <3>1, <4>1
    <3>2. CASE d # c
      <4>1. /\ todo'[Thread(d)] = todo[Thread(d)] /\ ncli'[d] = ncli[d] /\ ie'[d] = ie[d]
            /\ intena'[d] = intena[d] /\ Held(d)' = Held(d)
        BY <1>1, <1>2, <3>2 DEF CpuOK
      <4>2. \E x \in Ctx : Fits(x, todo[Thread(d)], cproc[d], Held(d), ncli[d], ie[d], intena[d])
        BY <1>1 DEF CpuFits
      <4> QED BY <4>1, <4>2
    <3> QED BY <3>1, <3>2
  <2> QED BY <1>1, <1>2, <2>1 DEF CpuFits
<1>6. ProcFits'
  <2>1. ASSUME NEW p \in Procs, state'[p] \in Ready
        PROVE  Parked(todo'[p])
    <3>1. state[p] \in Ready /\ state[p] # "RUNNING" /\ p \in Threads
      BY <2>1 DEF StateKept, Ready, Threads
    <3>2. p # Thread(c)
      BY <1>1, <3>1, ThreadFacts DEF OnCpu
    <3>3. todo'[p] = todo[p]
      BY <1>1, <3>1, <3>2 DEF CpuOK
    <3> QED BY <1>1, <3>1, <3>3 DEF ProcFits
  <2> QED BY <2>1 DEF ProcFits
<1>7. LoopFits'
  <2>1. ASSUME NEW d \in CPUs, cproc[d] # 0
        PROVE  Runs(todo'[-d], Switched(FALSE, "loop"))
    <3>1. -d \in Threads /\ -d # Thread(c)
      BY <1>1, <2>1, ThreadFacts
    <3>2. todo'[-d] = todo[-d]
      BY <1>1, <3>1 DEF CpuOK
    <3> QED BY <1>1, <2>1, <3>2 DEF LoopFits
  <2> QED BY <1>1, <2>1 DEF LoopFits
<1> QED BY <1>3, <1>4, <1>5, <1>6, <1>7 DEF SwitchInv

LEMMA LockTaken ==
  ASSUME CpuOK, NEW c \in CPUs, NEW l \in Locks, lock[l] = NoCPU, lock' = [lock EXCEPT ![l] = c]
  PROVE  /\ lock' \in [Locks -> 0..NCPU] /\ Held(c)' = Held(c) \cup {l}
         /\ \A d \in CPUs \ {c} : Held(d)' = Held(d)
<1>1. DOMAIN lock = Locks /\ DOMAIN lock' = Locks /\ lock' \in [Locks -> 0..NCPU]
  BY SchedulerAssumption, SMT DEF CpuOK, CPUs
<1>2. \A d \in CPUs : d # NoCPU
  BY SchedulerAssumption, SMT DEF CPUs, NoCPU
<1> QED BY <1>1, <1>2 DEF Held, CpuOK

LEMMA LockFreed ==
  ASSUME CpuOK, NEW c \in CPUs, NEW l \in Held(c), lock' = [lock EXCEPT ![l] = NoCPU]
  PROVE  /\ lock' \in [Locks -> 0..NCPU] /\ Held(c)' = Held(c) \ {l}
         /\ \A d \in CPUs \ {c} : Held(d)' = Held(d)
<1>1. DOMAIN lock = Locks /\ DOMAIN lock' = Locks /\ lock' \in [Locks -> 0..NCPU] /\ lock[l] = c
  BY SchedulerAssumption, SMT DEF CpuOK, CPUs, NoCPU, Held
<1>2. \A d \in CPUs : d # NoCPU
  BY SchedulerAssumption, SMT DEF CPUs, NoCPU
<1> QED BY <1>1, <1>2 DEF Held, CpuOK

LEMMA SameData ==
  ASSUME DataOK, proc' = proc, <<ticks, ticks0, n>>' = <<ticks, ticks0, n>>
  PROVE  DataOK' /\ StateKept
BY DEF DataOK, StateKept, proc

LEMMA SameCpu ==
  ASSUME CpuOK, NEW c \in CPUs
  PROVE  /\ ncli = [ncli EXCEPT ![c] = ncli[c]] /\ ie = [ie EXCEPT ![c] = ie[c]]
         /\ intena = [intena EXCEPT ![c] = intena[c]]
         /\ ncli[c] \in 0..2 /\ ie[c] \in BOOLEAN /\ intena[c] \in BOOLEAN
         /\ cproc[c] \in 0..NPROC /\ panicked = FALSE
BY DEF CpuOK

LEMMA Nothing ==
  ASSUME NEW s \in Stacks
  PROVE  <<>> \o s = s /\ \A a, b : Op(a, b) \o s = Cons(<<a, b>>, s)
BY SMT DEF Stacks, Op, Cons

-----------------------------------------------------------------------------
(* What the operations leave of the marks of sleeping *)

Marked == {"sleep", "sys_sleep", "wakeup1"}
Keeps(S, T) ==
  \A o \in Ops : /\ o[1] \in {"sleep", "sys_sleep"} => (o \in S <=> o \in T)
                 /\ o[1] = "wakeup1" /\ o \in S => o \in T
Has(S, a, b) == \E o \in S : o[1] = a /\ o[2] = b
Exits(S) == \E o \in S : o[1] = "exit"
MayExit(c) == cproc[c] # initproc \/ killed[initproc]

\* The pending operations that sleeping is about stay, and init does not exit
\* unless it is killed.
TodoKept ==
  /\ \A t \in Threads : Keeps(Range(todo[t]), Range(todo'[t]))
  /\ ~killed[initproc] /\ ~Exits(Range(todo[initproc])) => ~Exits(Range(todo'[initproc]))

LEMMA LocalKept ==
  ASSUME SwitchInv, NEW c \in CPUs, NEW o, NEW r, Range(todo[Thread(c)]) = {o} \cup Range(r),
         NEW s, todo' = [todo EXCEPT ![Thread(c)] = s], NEW M, Range(s) = M \cup Range(r),
         o[1] \notin Marked, \A e \in M : e[1] \notin {"sleep", "sys_sleep"},
         Exits(M) => MayExit(c)
  PROVE  TodoKept
<1>1. CpuOK /\ Thread(c) \in Threads /\ initproc \in Threads
  BY ThreadFacts, SchedulerAssumption, SMT DEF SwitchInv, initproc, Threads, Procs
<1>2. Thread(c) = initproc => cproc[c] = initproc
  <2>1. initproc \in Procs
    BY SchedulerAssumption, SMT DEF initproc, Procs
  <2> QED BY <2>1, ThreadFacts DEF SwitchInv
<1>4. todo'[Thread(c)] = s /\ \A t \in Threads \ {Thread(c)} : todo'[t] = todo[t]
  BY <1>1 DEF CpuOK
<1>5. Keeps(Range(todo[Thread(c)]), Range(s))
  BY DEF Keeps, Marked
<1>6. \A t \in Threads : Keeps(Range(todo[t]), Range(todo'[t]))
  <2>1. \A S : Keeps(S, S)
    BY DEF Keeps
  <2> QED BY <1>4, <1>5, <2>1
<1>7. ASSUME ~killed[initproc], ~Exits(Range(todo[initproc]))
      PROVE  ~Exits(Range(todo'[initproc]))
  <2>1. CASE Thread(c) = initproc
    BY <1>2, <1>4, <1>7, <2>1 DEF Exits, MayExit
  <2>2. CASE Thread(c) # initproc
    BY <1>1, <1>4, <1>7, <2>2
  <2> QED BY <2>1, <2>2
<1> QED BY <1>6, <1>7 DEF TodoKept

LEMMA PoppedKept ==
  ASSUME SwitchInv, NEW c \in CPUs, NEW o, NEW r, Range(todo[Thread(c)]) = {o} \cup Range(r),
         todo' = [todo EXCEPT ![Thread(c)] = r], o[1] \notin Marked
  PROVE  TodoKept
<1>1. PICK M : M = {}
  OBVIOUS
<1>2. Range(r) = M \cup Range(r) /\ ~Exits(M) /\ \A e \in M : e[1] \notin {"sleep", "sys_sleep"}
  BY <1>1 DEF Exits
<1> QED BY <1>2, LocalKept

-----------------------------------------------------------------------------
(* spinlock.c *)

LEMMA AcquireStep ==
  ASSUME SwitchInv, NEW c \in CPUs, Acquire(c)
  PROVE  SwitchInv' /\ TodoKept
<1>1. PICK x \in Ctx, y \in Ctx, o \in Ops, r \in Stacks : Frame(c, x, y, o, r)
  BY AtOp DEF Acquire, At
<1>2. o[1] = "acquire" /\ Arg(c) = o[2]
  BY <1>1 DEF Acquire, At, Arg, Frame
<1>3. PICK l \in Locks \ x.held : l = o[2]
  BY <1>1, <1>2 DEF Frame, Trans
<1>4. Leads(y, x.held \cup {l}, x.irq, x.tock, x.nap, x.kind)
  BY <1>1, <1>2, <1>3 DEF Frame, Trans
<1>5. lock[l] # c /\ CpuOK /\ DataOK
  <2>1. CpuOK /\ DataOK
    BY DEF SwitchInv
  <2> QED BY <1>1, <1>3, <2>1, HeldFacts, SMT DEF Frame
<1>6. PICK en \in BOOLEAN : en = IF ncli[c] = 0 THEN ie[c] ELSE intena[c]
  BY <1>5, SameCpu
<1>7. /\ intena' = [intena EXCEPT ![c] = en] /\ ncli' = [ncli EXCEPT ![c] = ncli[c] + 1]
      /\ ie' = [ie EXCEPT ![c] = FALSE] /\ cproc' = cproc /\ panicked' = FALSE
      /\ proc' = proc /\ <<ticks, ticks0, n>>' = <<ticks, ticks0, n>>
      /\ IF lock[l] = NoCPU
         THEN lock' = [lock EXCEPT ![l] = c] /\ todo' = [todo EXCEPT ![Thread(c)] = r]
         ELSE lock' = lock /\ todo' = [todo EXCEPT ![Thread(c)] = Cons(<<"spin", l>>, r)]
  <2>1. /\ pushcli(c)
        /\ IF lock[l] = NoCPU
           THEN lock' = [lock EXCEPT ![l] = c] /\ Then(c, <<>>)
           ELSE lock' = lock /\ Then(c, Op("spin", l))
        /\ cproc' = cproc /\ panicked' = panicked /\ proc' = proc /\ clock' = clock
    BY <1>2, <1>3, <1>5 DEF Acquire
  <2>2. <<>> \o r = r /\ Op("spin", l) \o r = Cons(<<"spin", l>>, r) /\ Tail(todo[Thread(c)]) = r
    <3>1. <<>> \o r = r
      BY Nothing
    <3> QED BY <1>1, <3>1 DEF Frame, Op, Cons
  <2>3. /\ Then(c, <<>>) => todo' = [todo EXCEPT ![Thread(c)] = r]
        /\ Then(c, Op("spin", l)) => todo' = [todo EXCEPT ![Thread(c)] = Cons(<<"spin", l>>, r)]
    BY <2>2 DEF Then
  <2>4. /\ intena' = [intena EXCEPT ![c] = en] /\ ncli' = [ncli EXCEPT ![c] = ncli[c] + 1]
        /\ ie' = [ie EXCEPT ![c] = FALSE]
    BY <1>5, <1>6, <2>1, SameCpu DEF pushcli
  <2> QED BY <1>5, <2>1, <2>3, <2>4, SameCpu DEF clock
<1>8. /\ x.held \in SUBSET Locks /\ Held(c) = x.held /\ ncli[c] = Count(x.held)
      /\ x.kind # "end" /\ (cproc[c] = 0 <=> x.kind = "loop")
      /\ Flags(x, ncli[c], ie[c]) /\ Saved(x, ncli[c], intena[c])
      /\ Count(x.held \cup {l}) = ncli[c] + 1 /\ ncli[c] \in 0..2
  <2>1. x.held \in SUBSET Locks
    BY DEF Ctx
  <2> QED BY <1>1, <1>2, <1>3, <1>5, <2>1, CountFacts, SameCpu, SMT DEF Frame
<1>9. y.held = x.held \cup {l} /\ y.irq = x.irq /\ y.kind = x.kind
  BY <1>4 DEF Leads
<1>10. \A z \in {x, y} : Flags(z, ncli[c] + 1, FALSE) /\ Saved(z, ncli[c] + 1, en)
  BY <1>6, <1>8, <1>9, SMT DEF Flags, Saved
<1>11. DataOK' /\ StateKept
  BY <1>5, <1>7, SameData
<1>12. CASE lock[l] = NoCPU
  <2>1. /\ lock' \in [Locks -> 0..NCPU] /\ Held(c)' = y.held
        /\ \A d \in CPUs \ {c} : Held(d)' = Held(d)
    BY <1>5, <1>7, <1>8, <1>9, <1>12, LockTaken
  <2>2. Local(c, r, ncli[c] + 1, FALSE, en)
    BY <1>7, <1>12, <2>1 DEF Local
  <2>3. Runs(r, y)
    BY <1>1 DEF Frame
  <2>4. Fits(y, r, cproc[c], Held(c)', ncli[c] + 1, FALSE, en)
    <3>1. /\ Flags(y, ncli[c] + 1, FALSE) /\ Saved(y, ncli[c] + 1, en)
          /\ ncli[c] + 1 = Count(y.held) /\ y.kind # "end" /\ (cproc[c] = 0 <=> y.kind = "loop")
      BY <1>8, <1>9, <1>10
    <3> QED BY <2>1, <2>3, <3>1, NewFits
  <2>5. SwitchInv'
    BY <1>11, <2>2, <2>4, LocalStep
  <2>6. TodoKept
    <3>1. Range(todo[Thread(c)]) = {o} \cup Range(r) /\ o[1] \notin Marked
      BY <1>1, <1>2 DEF Frame, Marked
    <3>2. todo' = [todo EXCEPT ![Thread(c)] = r]
      BY <1>7, <1>12
    <3> QED BY <3>1, <3>2, PoppedKept
  <2> QED BY <2>5, <2>6
<1>13. CASE lock[l] # NoCPU
  <2> DEFINE e == <<"spin", l>>
             s == Cons(e, r)
  <2>1. /\ e \in Ops /\ e[1] = "spin" /\ e[2] = l
        /\ <<"acquire", l>> = o
    <3>1. l \in Args /\ o = <<o[1], o[2]>> /\ "spin" \in Names
      BY OpFacts, SMT DEF Names
    <3> QED BY <1>2, <1>3, <3>1, OpFacts
  <2>2. s \in Stacks /\ s # <<>> /\ s[1] = e /\ Tail(s) = r /\ Range(s) = {e} \cup Range(r)
    BY <2>1, ConsFacts
  <2> HIDE DEF e, s
  <2>3. Runs(Cons(<<"acquire", s[1][2]>>, Tail(s)), x)
    <3>1. Cons(o, r) = Cons(<<"acquire", s[1][2]>>, Tail(s))
      BY <2>1, <2>2
    <3>2. Runs(Cons(o, r), x)
      BY <1>1, Push DEF Frame
    <3> QED BY <3>1, <3>2
  <2>4. lock' = lock /\ Held(c)' = x.held /\ \A d \in CPUs : Held(d)' = Held(d)
    BY <1>7, <1>8, <1>13 DEF Held
  <2>5. Local(c, s, ncli[c] + 1, FALSE, en)
    BY <1>5, <1>7, <1>13, <2>4 DEF Local, CpuOK, s, e
  <2>6. Fits(x, s, cproc[c], Held(c)', ncli[c] + 1, FALSE, en)
    BY <1>8, <1>10, <2>1, <2>2, <2>3, <2>4 DEF Fits
  <2>7. SwitchInv'
    BY <1>11, <2>5, <2>6, LocalStep
  <2>8. TodoKept
    <3>1. todo' = [todo EXCEPT ![Thread(c)] = s]
      BY <1>7, <1>13 DEF s, e
    <3>2. PICK M : M = {e}
      OBVIOUS
    <3>3. /\ ~Exits(M) /\ \A f \in M : f[1] \notin {"sleep", "sys_sleep"}
          /\ Range(s) = M \cup Range(r) /\ o[1] \notin Marked
          /\ Range(todo[Thread(c)]) = {o} \cup Range(r)
      BY <1>1, <1>2, <2>1, <2>2, <3>2 DEF Exits, Frame, Marked
    <3> QED BY <3>1, <3>3, LocalKept
  <2> QED BY <2>7, <2>8
<1> QED BY <1>12, <1>13

LEMMA SpinStep ==
  ASSUME SwitchInv, NEW c \in CPUs, Spin(c)
  PROVE  SwitchInv' /\ TodoKept
<1>1. PICK x \in Ctx : Fits(x, todo[Thread(c)], cproc[c], Held(c), ncli[c], ie[c], intena[c])
  BY DEF SwitchInv, CpuFits
<1>2. PICK s : s = todo[Thread(c)]
  OBVIOUS
<1>3. s \in Stacks /\ s # <<>> /\ s[1][1] = "spin" /\ CpuOK /\ DataOK
  BY <1>1, <1>2 DEF Fits, Spin, At, SwitchInv
<1>4. PICK e \in Ops, r \in Stacks : e = s[1] /\ r = Tail(s) /\ s = Cons(e, r)
  BY <1>3, StackFacts
<1>5. ~Runs(s, x)
  <2>1. ASSUME Runs(s, x)
        PROVE  FALSE
    <3>1. PICK y \in Ctx : Trans(x, s[1], y)
      BY <1>1, <2>1, Pop DEF Fits
    <3> QED BY <1>3, <3>1 DEF Trans
  <2> QED BY <2>1
<1>6. PICK o \in Ops : o = <<"acquire", e[2]>> /\ o[1] = "acquire" /\ o[2] = e[2]
  <2>1. "acquire" \in Names
    BY DEF Names
  <2> QED BY <2>1, OpFacts
<1>7. /\ Runs(Cons(o, r), x) /\ ncli[c] = Count(x.held) + 1 /\ x.held = Held(c)
      /\ x.kind # "end" /\ (cproc[c] = 0 <=> x.kind = "loop")
      /\ Flags(x, ncli[c], ie[c]) /\ Saved(x, ncli[c], intena[c])
  BY <1>1, <1>2, <1>3, <1>4, <1>5, <1>6 DEF Fits
<1>8. PICK y \in Ctx : Trans(x, o, y) /\ Runs(r, y)
  <2>1. PICK q : q = Cons(o, r) /\ q[1] = o /\ Tail(q) = r
    BY ConsFacts
  <2>2. Runs(q, x) /\ x.kind # "end"
    BY <1>7, <2>1
  <2>3. \E y \in Ctx : Trans(x, q[1], y) /\ Runs(Tail(q), y)
    BY <2>2, Pop
  <2> QED BY <2>1, <2>3
<1>9. PICK l \in Locks \ x.held : l = e[2]
  BY <1>6, <1>8 DEF Trans
<1>10. y.held = x.held \cup {l} /\ y.irq = x.irq /\ y.kind = x.kind
  BY <1>6, <1>8, <1>9 DEF Trans, Leads
<1>11. /\ lock[l] = NoCPU /\ lock' = [lock EXCEPT ![l] = c]
       /\ todo' = [todo EXCEPT ![Thread(c)] = r]
       /\ proc' = proc /\ cpu' = cpu /\ clock' = clock /\ panicked' = panicked
  <2>1. Arg(c) = l
    BY <1>2, <1>4, <1>9 DEF Arg
  <2>2. <<>> \o r = r
    BY Nothing
  <2> QED BY <1>2, <1>4, <2>1, <2>2 DEF Spin, Then
<1>12. /\ lock' \in [Locks -> 0..NCPU] /\ Held(c)' = y.held
       /\ \A d \in CPUs \ {c} : Held(d)' = Held(d)
  BY <1>3, <1>7, <1>10, <1>11, LockTaken
<1>13. Local(c, r, ncli[c], ie[c], intena[c]) /\ ie[c] \in BOOLEAN /\ intena[c] \in BOOLEAN
  BY <1>3, <1>11, <1>12, SameCpu DEF Local, cpu
<1>14. Fits(y, r, cproc[c], Held(c)', ncli[c], ie[c], intena[c])
  <2>1. ncli[c] = Count(y.held)
    BY <1>7, <1>9, <1>10, CountFacts, SMT DEF Ctx
  <2>2. Flags(y, ncli[c], ie[c]) /\ Saved(y, ncli[c], intena[c])
    BY <1>7, <1>10 DEF Flags, Saved
  <2>3. Runs(r, y) /\ y.kind # "end" /\ (cproc[c] = 0 <=> y.kind = "loop")
    BY <1>7, <1>8, <1>10
  <2> QED BY <1>12, <2>1, <2>2, <2>3, NewFits
<1>15. SwitchInv'
  <2>1. DataOK' /\ StateKept
    BY <1>3, <1>11, SameData DEF clock
  <2> QED BY <1>13, <1>14, <2>1, LocalStep, SMT
<1>16. TodoKept
  <2>0. Range(Cons(e, r)) = {e} \cup Range(r)
    BY ConsFacts
  <2>1. Range(todo[Thread(c)]) = {e} \cup Range(r)
    BY <1>2, <1>4, <2>0
  <2>2. e[1] \notin Marked
    BY <1>3, <1>4 DEF Marked
  <2> QED BY <1>11, <2>1, <2>2, PoppedKept
<1> QED BY <1>15, <1>16

(* release(l) as the last thing a step does, with s still to be executed. *)
LEMMA ReleasedStep ==
  ASSUME SwitchInv, NEW c \in CPUs, NEW x \in Ctx, NEW y, NEW o, NEW r, Frame(c, x, y, o, r),
         o[1] # "resume", NEW l \in x.held, NEW ops, NEW s, s = ops \o r, Released(c, l, ops),
         NEW z \in Ctx, Runs(s, z), z.held = x.held \ {l}, z.irq = x.irq, z.kind = x.kind,
         cproc' = cproc, intena' = intena, DataOK', StateKept
  PROVE  SwitchInv' /\ todo' = [todo EXCEPT ![Thread(c)] = s]
<1>1. /\ CpuOK /\ x.held \in SUBSET Locks /\ Held(c) = x.held /\ ncli[c] = Count(x.held)
      /\ x.kind # "end" /\ (cproc[c] = 0 <=> x.kind = "loop")
      /\ Flags(x, ncli[c], ie[c]) /\ Saved(x, ncli[c], intena[c])
      /\ Tail(todo[Thread(c)]) = r
  BY DEF Frame, SwitchInv, Ctx
<1>2. /\ lock[l] = c /\ l \in Held(c) /\ ncli[c] \in 1..2 /\ ~ie[c] /\ panicked = FALSE
      /\ ie[c] \in BOOLEAN /\ intena[c] \in BOOLEAN
  <2>1. Count(x.held) \in 0..2 /\ Count(x.held) # 0
    BY <1>1, CountFacts
  <2>2. lock[l] = c
    BY <1>1, HeldFacts, SMT
  <2>3. ncli[c] \in 1..2 /\ ncli[c] # 0
    BY <1>1, <2>1, SMT
  <2>4. ~ie[c]
    BY <1>1, <2>3 DEF Flags
  <2> QED BY <1>1, <2>2, <2>3, <2>4, SameCpu
<1>3. /\ lock' = [lock EXCEPT ![l] = NoCPU] /\ ncli' = [ncli EXCEPT ![c] = ncli[c] - 1]
      /\ ie' = [ie EXCEPT ![c] = (ncli[c] = 1 /\ intena[c])]
      /\ todo' = [todo EXCEPT ![Thread(c)] = s] /\ panicked' = FALSE
  <2>1. ~(lock[l] # c \/ ie[c] \/ ncli[c] < 1)
    BY <1>2, SMT
  <2>2. /\ lock' = [lock EXCEPT ![l] = NoCPU] /\ ncli' = [ncli EXCEPT ![c] = ncli[c] - 1]
        /\ ie' = [ie EXCEPT ![c] = (ncli[c] = 1 /\ intena[c])] /\ Then(c, ops) /\ panicked' = panicked
    BY <2>1 DEF Released, popcli
  <2>3. todo' = [todo EXCEPT ![Thread(c)] = s]
    BY <1>1, <2>2 DEF Then
  <2> QED BY <1>2, <2>2, <2>3
<1>4. PICK on \in BOOLEAN : on = (ncli[c] = 1 /\ intena[c])
  OBVIOUS
<1>5. /\ lock' \in [Locks -> 0..NCPU] /\ Held(c)' = z.held
      /\ \A d \in CPUs \ {c} : Held(d)' = Held(d)
  BY <1>1, <1>2, <1>3, LockFreed
<1>6. Local(c, s, ncli[c] - 1, on, intena[c])
  <2>1. intena' = [intena EXCEPT ![c] = intena[c]]
    BY <1>1, SameCpu
  <2> QED BY <1>3, <1>4, <1>5, <2>1 DEF Local
<1>7. Fits(z, s, cproc[c], Held(c)', ncli[c] - 1, on, intena[c])
  <2>1. ncli[c] - 1 = Count(z.held)
    BY <1>1, CountFacts, SMT
  <2>2. Flags(z, ncli[c] - 1, on) /\ Saved(z, ncli[c] - 1, intena[c])
    BY <1>1, <1>2, <1>4, SMT DEF Flags, Saved
  <2>3. z.kind # "end" /\ (cproc[c] = 0 <=> z.kind = "loop")
    BY <1>1
  <2> QED BY <1>5, <2>1, <2>2, <2>3, NewFits
<1> QED BY <1>2, <1>3, <1>4, <1>6, <1>7, LocalStep

LetGo(c, x, r, l, ops, s, z) ==
  /\ l \in x.held /\ s = ops \o r /\ Released(c, l, ops)
  /\ Runs(s, z) /\ z.held = x.held \ {l} /\ z.irq = x.irq /\ z.kind = x.kind
  /\ cproc' = cproc /\ intena' = intena

LEMMA LetGoStep ==
  ASSUME SwitchInv, NEW c \in CPUs, NEW x \in Ctx, NEW y, NEW o, NEW r, Frame(c, x, y, o, r),
         o[1] # "resume", NEW l, NEW ops, NEW s, NEW z \in Ctx, LetGo(c, x, r, l, ops, s, z),
         DataOK', StateKept
  PROVE  SwitchInv' /\ todo' = [todo EXCEPT ![Thread(c)] = s]
<1>1. PICK k \in x.held : k = l
  BY DEF LetGo
<1>2. z.held = x.held \ {k} /\ z.irq = x.irq /\ z.kind = x.kind
  BY <1>1 DEF LetGo
<1>3. /\ Released(c, k, ops) /\ s = ops \o r /\ Runs(s, z)
      /\ cproc' = cproc /\ intena' = intena
  BY <1>1 DEF LetGo
<1>4. SwitchInv'
  BY <1>2, <1>3, ReleasedStep
<1>5. Then(c, ops)
  BY <1>3, <1>4 DEF Released, popcli, Panic, SwitchInv, CpuOK
<1>6. todo' = [todo EXCEPT ![Thread(c)] = s]
  BY <1>3, <1>5 DEF Then, Frame
<1> QED BY <1>4, <1>6

LEMMA ReleaseStep ==
  ASSUME SwitchInv, NEW c \in CPUs, Release(c)
  PROVE  SwitchInv' /\ TodoKept
<1>1. PICK x \in Ctx, y \in Ctx, o \in Ops, r \in Stacks : Frame(c, x, y, o, r)
  BY AtOp DEF Release, At
<1>2. o[1] = "release" /\ Arg(c) = o[2]
  BY <1>1 DEF Release, At, Arg, Frame
<1>3. o[2] \in x.held /\ Leads(y, x.held \ {o[2]}, x.irq, x.tock, x.nap, x.kind)
  BY <1>1, <1>2 DEF Frame, Trans
<1>4. /\ Released(c, o[2], <<>>) /\ cproc' = cproc /\ intena' = intena
      /\ proc' = proc /\ clock' = clock
  BY <1>2 DEF Release
<1>5. DataOK' /\ StateKept
  BY <1>4, SameData DEF clock, SwitchInv
<1>6. <<>> \o r = r /\ Runs(r, y)
  BY <1>1, Nothing DEF Frame
<1>7. SwitchInv' /\ todo' = [todo EXCEPT ![Thread(c)] = r]
  <2>1. LetGo(c, x, r, o[2], <<>>, r, y)
    BY <1>3, <1>4, <1>6 DEF LetGo, Leads
  <2>2. o[1] # "resume"
    BY <1>2
  <2> QED BY <1>1, <1>5, <2>1, <2>2, LetGoStep
<1>8. TodoKept
  BY <1>1, <1>2, <1>7, PoppedKept DEF Frame, Marked
<1> QED BY <1>7, <1>8

-----------------------------------------------------------------------------
(* Steps that leave the locks alone *)

LEMMA SoftStep ==
  ASSUME SwitchInv, NEW c \in CPUs, NEW x \in Ctx, NEW y, NEW o, NEW r, Frame(c, x, y, o, r),
         NEW s, NEW z \in Ctx, Runs(s, z), z.held = x.held,
         z.kind # "end", z.kind = "loop" <=> x.kind = "loop",
         NEW on \in BOOLEAN, NEW en \in BOOLEAN,
         Flags(z, ncli[c], on), s[1][1] = "resume" \/ Saved(z, ncli[c], en),
         todo' = [todo EXCEPT ![Thread(c)] = s], ie' = [ie EXCEPT ![c] = on],
         intena' = [intena EXCEPT ![c] = en],
         cproc' = cproc, ncli' = ncli, lock' = lock, panicked' = panicked, DataOK', StateKept
  PROVE  SwitchInv'
<1>1. /\ CpuOK /\ Held(c) = x.held /\ ncli[c] = Count(x.held)
      /\ cproc[c] = 0 <=> x.kind = "loop"
  BY DEF Frame, SwitchInv
<1>2. \A d \in CPUs : Held(d)' = Held(d)
  BY DEF Held
<1>3. Local(c, s, ncli[c], on, en)
  <2>1. ncli' = [ncli EXCEPT ![c] = ncli[c]] /\ panicked = FALSE
    BY <1>1, SameCpu
  <2> QED BY <1>1, <1>2, <2>1 DEF Local, CpuOK
<1>4. Fits(z, s, cproc[c], Held(c)', ncli[c], on, en)
  BY <1>1, <1>2, NewFits
<1> QED BY <1>3, <1>4, LocalStep

Soft(c, x, s, z, on, en) ==
  /\ Runs(s, z) /\ z.held = x.held /\ z.kind # "end" /\ (z.kind = "loop" <=> x.kind = "loop")
  /\ on \in BOOLEAN /\ en \in BOOLEAN /\ Flags(z, ncli[c], on) /\ Saved(z, ncli[c], en)
  /\ todo' = [todo EXCEPT ![Thread(c)] = s] /\ ie' = [ie EXCEPT ![c] = on]
  /\ intena' = [intena EXCEPT ![c] = en]
  /\ cproc' = cproc /\ ncli' = ncli /\ lock' = lock /\ panicked' = panicked

LEMMA SoftGo ==
  ASSUME SwitchInv, NEW c \in CPUs, NEW x \in Ctx, NEW y, NEW o, NEW r, Frame(c, x, y, o, r),
         NEW s, NEW z \in Ctx, NEW on, NEW en, Soft(c, x, s, z, on, en), DataOK', StateKept
  PROVE  SwitchInv'
<1>1. /\ Runs(s, z) /\ z.held = x.held /\ z.kind # "end" /\ (z.kind = "loop" <=> x.kind = "loop")
      /\ on \in BOOLEAN /\ en \in BOOLEAN /\ Flags(z, ncli[c], on) /\ Saved(z, ncli[c], en)
      /\ todo' = [todo EXCEPT ![Thread(c)] = s] /\ ie' = [ie EXCEPT ![c] = on]
      /\ intena' = [intena EXCEPT ![c] = en]
      /\ cproc' = cproc /\ ncli' = ncli /\ lock' = lock /\ panicked' = panicked
  BY DEF Soft
<1> QED BY <1>1, SoftStep

LEMMA LoopStep ==
  ASSUME SwitchInv, NEW c \in CPUs, Loop(c)
  PROVE  SwitchInv' /\ TodoKept
<1>1. PICK x \in Ctx, y \in Ctx, o \in Ops, r \in Stacks : Frame(c, x, y, o, r)
  BY AtOp DEF Loop, At
<1>2. o[1] = "loop"
  BY <1>1 DEF Loop, At, Frame
<1>3. /\ x.held = {} /\ ~x.irq /\ Calm(x) /\ x.kind = "loop"
      /\ Leads(y, {}, FALSE, FALSE, "no", "end")
  BY <1>1, <1>2 DEF Frame, Trans
<1>4. PICK z \in Ctx : Leads(z, {"ptable"}, FALSE, FALSE, "no", "loop")
  BY KFacts DEF Locks
<1>5. PICK a \in Ops, b \in Ops : a = <<"acquire", "ptable">> /\ b = <<"scan", 1>>
  BY OpFacts DEF Names, Args
<1>6. Trans(x, a, z) /\ Trans(z, b, y)
  <2>1. Trans(x, a, z)
    <3>1. x.irq = FALSE /\ x.tock = FALSE /\ x.nap = "no"
      BY <1>3 DEF Ctx, Calm
    <3> QED BY <1>3, <1>4, <1>5, <3>1 DEF Trans, Leads, Locks
  <2>2. Trans(z, b, y)
    <3>1. b[1] = "scan" /\ b[2] = 1 /\ 1 \in Nat
      BY <1>5
    <3> QED BY <1>3, <1>4, <3>1 DEF Trans, Leads, Calm
  <2> QED BY <2>1, <2>2
<1>7. PICK s : s = Cons(a, Cons(b, r))
  OBVIOUS
<1>8. Runs(s, x) /\ Range(s) = {a, b} \cup Range(r)
  <2>1. Runs(Cons(b, r), z) /\ Range(Cons(b, r)) = {b} \cup Range(r)
    BY <1>1, <1>6, Push DEF Frame
  <2> QED BY <1>6, <1>7, <2>1, Push, SMT
<1>9. /\ todo' = [todo EXCEPT ![Thread(c)] = s] /\ ie' = [ie EXCEPT ![c] = TRUE]
      /\ cproc' = cproc /\ ncli' = ncli /\ intena' = intena /\ lock' = lock
      /\ panicked' = panicked /\ proc' = proc /\ clock' = clock
  <2>1. (acquire("ptable") \o Op("scan", 1)) \o r = s
    <3>1. App(Snoc(One(a), b), r) = s
      BY <1>7, Lists, SMT
    <3> QED BY <1>5, <3>1 DEF App, Snoc, One, acquire, Op
  <2> QED BY <1>1, <2>1 DEF Loop, Then, Frame
<1>10. /\ DataOK' /\ StateKept /\ intena' = [intena EXCEPT ![c] = intena[c]]
       /\ intena[c] \in BOOLEAN /\ ncli[c] = 0
  BY <1>1, <1>3, <1>9, SameData, SameCpu, CountFacts DEF clock, SwitchInv, Frame
<1>11. SwitchInv'
  <2>1. Flags(x, ncli[c], TRUE) /\ Saved(x, ncli[c], intena[c])
    BY <1>3, <1>10 DEF Flags, Saved
  <2> QED BY <1>1, <1>3, <1>8, <1>9, <1>10, <2>1, SoftStep
<1>12. TodoKept
  <2>1. PICK M : M = {a, b}
    OBVIOUS
  <2>2. /\ ~Exits(M) /\ \A e \in M : e[1] \notin {"sleep", "sys_sleep"}
        /\ Range(s) = M \cup Range(r) /\ o[1] \notin Marked
        /\ Range(todo[Thread(c)]) = {o} \cup Range(r)
    BY <1>1, <1>2, <1>5, <1>8, <2>1, SMT DEF Exits, Frame, Marked
  <2> QED BY <1>9, <2>2, LocalKept
<1> QED BY <1>11, <1>12

LEMMA ResumeStep ==
  ASSUME SwitchInv, NEW c \in CPUs, Resume(c)
  PROVE  SwitchInv' /\ TodoKept /\ cproc[c] \in Procs /\ state[cproc[c]] = "RUNNING"
<1>1. PICK x \in Ctx, y \in Ctx, o \in Ops, r \in Stacks : Frame(c, x, y, o, r)
  BY AtOp DEF Resume, At
<1>2. o[1] = "resume" /\ Arg(c) = o[2]
  BY <1>1 DEF Resume, At, Arg, Frame
<1>3. /\ x.held = {"ptable"} /\ x.kind # "loop"
      /\ (x.irq /\ o[2] = FALSE) \/ (~x.irq /\ o[2] = TRUE)
      /\ Leads(y, x.held, x.irq, FALSE, "no", x.kind)
  BY <1>1, <1>2 DEF Frame, Trans
<1>4. PICK en \in BOOLEAN : en = o[2]
  BY <1>3
<1>5. /\ CpuOK /\ DataOK /\ OnCpu /\ Runs(r, y) /\ Flags(x, ncli[c], ie[c])
      /\ cproc[c] # 0 /\ x.kind # "end"
  BY <1>1, <1>3 DEF Frame, SwitchInv
<1>6. cproc[c] \in Procs /\ state[cproc[c]] = "RUNNING"
  BY <1>5, ThreadFacts DEF OnCpu
<1>7. /\ todo' = [todo EXCEPT ![Thread(c)] = r] /\ intena' = [intena EXCEPT ![c] = en]
      /\ cproc' = cproc /\ ncli' = ncli /\ ie' = [ie EXCEPT ![c] = ie[c]] /\ lock' = lock
      /\ panicked' = panicked /\ ie[c] \in BOOLEAN
  BY <1>1, <1>2, <1>4, <1>5, Nothing, SameCpu DEF Resume, Then, Frame
<1>8. DataOK' /\ StateKept
  BY <1>5, <1>6 DEF Resume, DataOK, StateKept, clock
<1>9. y.held = x.held /\ y.irq = x.irq /\ y.kind = x.kind
  BY <1>3 DEF Leads
<1>10. SwitchInv'
  <2>1. Flags(y, ncli[c], ie[c]) /\ Saved(y, ncli[c], en)
    BY <1>3, <1>4, <1>5, <1>9 DEF Flags, Saved
  <2>2. /\ Runs(r, y) /\ y.held = x.held /\ y.kind # "end" /\ (y.kind = "loop" <=> x.kind = "loop")
        /\ ie[c] \in BOOLEAN
    BY <1>5, <1>7, <1>9
  <2>3. Soft(c, x, r, y, ie[c], en)
    BY <1>7, <2>1, <2>2 DEF Soft
  <2> QED BY <1>1, <1>8, <2>3, SoftGo
<1>11. TodoKept
  BY <1>1, <1>2, <1>7, PoppedKept DEF Frame, Marked
<1> QED BY <1>6, <1>10, <1>11

-----------------------------------------------------------------------------
(* Interrupts *)

(* The handler of the timer fits on the stack of what it interrupts. *)
LEMMA TimerRuns ==
  ASSUME NEW c \in CPUs, NEW x \in Ctx, NEW s, Runs(s, x), NEW z \in Ctx,
         Leads(x, {}, FALSE, FALSE, "no", x.kind), x.kind # "end",
         Leads(z, {}, TRUE, FALSE, "no", x.kind),
         NEW from \in {"user", "kernel"}, from = "user" => x.kind = "base"
  PROVE  /\ Runs(timer(c, from) \o s, z)
         /\ \E M \in SUBSET Ops : /\ Range(timer(c, from) \o s) = M \cup Range(s)
                                  /\ \A e \in M : e[1] \notin {"sleep", "sys_sleep", "exit"}
<1>1. PICK f \in Ops : f = <<"trap", from>>
  BY KnownOps
<1>2. Trans(z, f, x)
  BY <1>1 DEF Trans, Leads, Calm
<1>3. Runs(Cons(f, s), z) /\ Range(Cons(f, s)) = {f} \cup Range(s) /\ s \in Stacks
  BY <1>2, Push, SMT DEF Runs
<1>4. CASE c # 1
  <2>1. timer(c, from) \o s = Cons(f, s)
    BY <1>1, <1>4 DEF timer, Op, Cons
  <2>2. {f} \in SUBSET Ops /\ \A e \in {f} : e[1] \notin {"sleep", "sys_sleep", "exit"}
    BY <1>1, SMT
  <2> QED BY <1>3, <2>1, <2>2
<1>5. CASE c = 1
  <2>1. PICK z1 \in Ctx, z2 \in Ctx, z3 \in Ctx :
          /\ Leads(z1, {"ticks"}, TRUE, FALSE, "no", x.kind)
          /\ Leads(z2, {"ticks"}, TRUE, TRUE, "no", x.kind)
          /\ Leads(z3, Locks, TRUE, TRUE, "no", x.kind)
    <3>1. /\ x.kind \in {"start", "base", "loop", "end"} /\ {"ticks"} \in SUBSET Locks
          /\ Locks \in SUBSET Locks
      BY DEF Ctx, Locks
    <3>2. \E z1 \in Ctx : Leads(z1, {"ticks"}, TRUE, FALSE, "no", x.kind)
      BY <3>1, KFacts
    <3>3. \E z2 \in Ctx : Leads(z2, {"ticks"}, TRUE, TRUE, "no", x.kind)
      BY <3>1, KFacts
    <3>4. \E z3 \in Ctx : Leads(z3, Locks, TRUE, TRUE, "no", x.kind)
      BY <3>1, KFacts
    <3> QED BY <3>2, <3>3, <3>4
  <2>2. PICK a \in Ops, b \in Ops, d \in Ops, w \in Ops, e \in Ops :
          /\ a = <<"acquire", "ticks">> /\ b = <<"tick", 0>> /\ d = <<"acquire", "ptable">>
          /\ w = <<"wakeup1", "ticks">> /\ e = <<"release", "ticks">>
    BY KnownOps DEF Locks
  <2>3. Trans(z1, e, z)
    BY <2>1, <2>2 DEF Trans, Leads
  <2>4. Trans(z3, w, z1)
    BY <2>1, <2>2 DEF Trans, Leads, Locks
  <2>5. Trans(z2, d, z3)
    BY <2>1, <2>2 DEF Trans, Leads, Locks
  <2>6. Trans(z1, b, z2)
    BY <2>1, <2>2 DEF Trans, Leads, Calm
  <2>7. Trans(z, a, z1)
    BY <2>1, <2>2 DEF Trans, Leads, Locks
  <2>8. PICK s1, s2, s3, s4, s5 : /\ s1 = Cons(e, Cons(f, s)) /\ s2 = Cons(w, s1)
                                  /\ s3 = Cons(d, s2) /\ s4 = Cons(b, s3) /\ s5 = Cons(a, s4)
    OBVIOUS
  <2>9. Runs(s1, z1) /\ Range(s1) = {e, f} \cup Range(s)
    BY <1>3, <2>3, <2>8, Push, SMT
  <2>10. Runs(s2, z3) /\ Range(s2) = {w, e, f} \cup Range(s)
    BY <2>4, <2>8, <2>9, Push, SMT
  <2>11. Runs(s3, z2) /\ Range(s3) = {d, w, e, f} \cup Range(s)
    BY <2>5, <2>8, <2>10, Push, SMT
  <2>12. Runs(s4, z1) /\ Range(s4) = {b, d, w, e, f} \cup Range(s)
    BY <2>6, <2>8, <2>11, Push, SMT
  <2>13. Runs(s5, z) /\ Range(s5) = {a, b, d, w, e, f} \cup Range(s)
    BY <2>7, <2>8, <2>12, Push, SMT
  <2>14. timer(c, from) \o s = s5
    <3>1. timer(c, from) \o s = App(Snoc(Snoc(Snoc(Snoc(Snoc(One(a), b), d), w), e), f), s)
      BY <1>1, <1>5, <2>2 DEF timer, acquire, release, Op, App, Snoc, One
    <3>2. App(Snoc(Snoc(Snoc(Snoc(Snoc(One(a), b), d), w), e), f), s)
            = Cons(a, Cons(b, Cons(d, Cons(w, Cons(e, Cons(f, s))))))
      <4>1. AllOps(a, b, d, w, e, f)
        BY DEF AllOps
      <4> QED BY <1>3, <4>1, SixOps, SMT
    <3> QED BY <2>8, <3>1, <3>2
  <2>15. /\ {a, b, d, w, e, f} \in SUBSET Ops
         /\ \A g \in {a, b, d, w, e, f} : g[1] \notin {"sleep", "sys_sleep", "exit"}
    BY <1>1, <2>2, SMT
  <2> QED BY <2>13, <2>14, <2>15
<1> QED BY <1>4, <1>5

LEMMA InterruptStep ==
  ASSUME SwitchInv, NEW c \in CPUs, Interrupt(c)
  PROVE  SwitchInv' /\ TodoKept
<1>1. CpuOK /\ DataOK /\ ie[c]
  BY DEF SwitchInv, Interrupt
<1>2. todo[Thread(c)][1][1] # "spin"
  <2>1. PICK x \in Ctx : Fits(x, todo[Thread(c)], cproc[c], Held(c), ncli[c], ie[c], intena[c])
    BY DEF SwitchInv, CpuFits
  <2>2. ncli[c] = 0 /\ Count(Held(c)) \in 0..2
    <3>1. ncli[c] = 0
      BY <1>1, <2>1 DEF Fits, Flags
    <3>2. Held(c) \in SUBSET Locks
      BY <2>1, FitsCount
    <3> QED BY <3>1, <3>2, CountFacts
  <2>3. Runs(todo[Thread(c)], x) /\ x.kind # "end"
    BY <2>1, <2>2, SMT DEF Fits
  <2>4. PICK y \in Ctx : Trans(x, todo[Thread(c)][1], y)
    BY <2>3, Pop
  <2> QED BY <2>4 DEF Trans
<1>3. PICK x \in Ctx, y \in Ctx, o \in Ops, r \in Stacks : Frame(c, x, y, o, r)
  BY <1>2, AtOp
<1>4. /\ ncli[c] = 0 /\ x.held = {} /\ ~x.irq /\ x.kind # "end"
  BY <1>1, <1>3, CountFacts, SMT DEF Frame, Flags, Ctx
<1>5. Leads(x, {}, FALSE, FALSE, "no", x.kind)
  <2>1. ~x.tock /\ x.nap # "ticks" /\ x.nap # "child"
    BY <1>3, <1>4 DEF Frame, Trans
  <2> QED BY <1>4, <2>1 DEF Leads, Ctx
<1>6. PICK z \in Ctx : Leads(z, {}, TRUE, FALSE, "no", x.kind)
  <2>1. x.kind \in {"start", "base", "loop"}
    BY <1>4 DEF Ctx
  <2> QED BY <2>1, KFacts
<1>7. PICK from \in {"user", "kernel"} : from = IF At(c, "user") THEN "user" ELSE "kernel"
  OBVIOUS
<1>8. from = "user" => x.kind = "base"
  BY <1>3, <1>7 DEF At, Frame, Trans, Plain
<1>9. PICK s : s = timer(c, from) \o todo[Thread(c)]
  OBVIOUS
<1>10. Runs(todo[Thread(c)], x)
  BY <1>3, Push DEF Frame
<1>11. PICK M \in SUBSET Ops : /\ Range(s) = M \cup Range(todo[Thread(c)])
                               /\ \A e \in M : e[1] \notin {"sleep", "sys_sleep", "exit"}
  <2>1. PICK q : q = todo[Thread(c)]
    OBVIOUS
  <2>2. \E M \in SUBSET Ops : /\ Range(timer(c, from) \o q) = M \cup Range(q)
                              /\ \A e \in M : e[1] \notin {"sleep", "sys_sleep", "exit"}
    <3>1. Runs(q, x) /\ x.kind # "end" /\ (from = "user" => x.kind = "base")
      BY <1>4, <1>8, <1>10, <2>1
    <3> QED BY <1>5, <1>6, <3>1, TimerRuns
  <2> QED BY <1>9, <2>1, <2>2
<1>12. Runs(s, z)
  BY <1>4, <1>5, <1>6, <1>8, <1>9, <1>10, TimerRuns
<1>13. /\ todo' = [todo EXCEPT ![Thread(c)] = s] /\ ie' = [ie EXCEPT ![c] = FALSE]
       /\ cproc' = cproc /\ ncli' = ncli /\ intena' = intena /\ lock' = lock
       /\ panicked' = panicked /\ proc' = proc /\ clock' = clock
  BY <1>7, <1>9 DEF Interrupt
<1>14. SwitchInv'
  <2>1. Flags(z, ncli[c], FALSE) /\ Saved(z, ncli[c], intena[c])
    BY <1>4, <1>6 DEF Flags, Saved, Leads
  <2>2. DataOK' /\ StateKept /\ intena' = [intena EXCEPT ![c] = intena[c]] /\ intena[c] \in BOOLEAN
    BY <1>1, <1>13, SameData, SameCpu DEF clock
  <2>3. z.held = x.held /\ z.kind = x.kind
    BY <1>4, <1>6 DEF Leads
  <2> QED BY <1>3, <1>4, <1>12, <1>13, <2>1, <2>2, <2>3, SoftStep
<1>15. TodoKept
  <2>1. o[1] \notin Marked \cup {"exit"}
    BY <1>3, <1>4 DEF Frame, Trans, Locks, Marked
  <2>2. Range(s) = (M \cup {o}) \cup Range(r) /\ ~Exits(M \cup {o})
    BY <1>3, <1>11, <2>1 DEF Frame, Exits
  <2>3. \A e \in M \cup {o} : e[1] \notin {"sleep", "sys_sleep"}
    BY <1>11, <2>1 DEF Marked
  <2> QED BY <1>3, <1>13, <2>1, <2>2, <2>3, LocalKept DEF Frame
<1> QED BY <1>14, <1>15

LEMMA TickStep ==
  ASSUME SwitchInv, NEW c \in CPUs, Tick(c)
  PROVE  SwitchInv' /\ TodoKept /\ \E t \in Threads : \E e \in Range(todo'[t]) : e[1] = "wakeup1"
<1>1. PICK x \in Ctx, y \in Ctx, o \in Ops, r \in Stacks : Frame(c, x, y, o, r)
  BY AtOp DEF Tick, At
<1>2. o[1] = "tick"
  BY <1>1 DEF Tick, At, Frame
<1>3. x.irq /\ Leads(y, x.held, TRUE, TRUE, "no", x.kind)
  BY <1>1, <1>2 DEF Frame, Trans
<1>4. /\ CpuOK /\ DataOK /\ OnCpu /\ Runs(r, y) /\ Flags(x, ncli[c], ie[c])
      /\ Saved(x, ncli[c], intena[c]) /\ x.kind # "end"
  BY <1>1, <1>2 DEF Frame, SwitchInv
<1>5. /\ todo' = [todo EXCEPT ![Thread(c)] = r] /\ cpu' = cpu /\ proc' = proc
      /\ lock' = lock /\ panicked' = panicked /\ ticks' = (ticks + 1) % Wrap
      /\ ticks0' = ticks0 /\ n' = n
  BY <1>1, Nothing DEF Tick, Then, Frame, NextTick
<1>6. /\ cproc' = cproc /\ ncli' = ncli /\ ie' = [ie EXCEPT ![c] = ie[c]]
      /\ intena' = [intena EXCEPT ![c] = intena[c]] /\ ie[c] \in BOOLEAN /\ intena[c] \in BOOLEAN
  BY <1>4, <1>5, SameCpu DEF cpu
<1>7. DataOK' /\ StateKept
  <2>1. ticks' \in 0..(Wrap - 1)
    BY <1>4, <1>5, SchedulerAssumption, SMT DEF DataOK
  <2> QED BY <1>4, <1>5, <2>1 DEF DataOK, StateKept, proc
<1>8. y.held = x.held /\ y.kind = x.kind /\ y.irq /\ y.tock
  BY <1>3 DEF Leads
<1>9. SwitchInv'
  <2>1. Flags(y, ncli[c], ie[c]) /\ Saved(y, ncli[c], intena[c])
    BY <1>3, <1>4, <1>8 DEF Flags, Saved
  <2>2. Soft(c, x, r, y, ie[c], intena[c])
    BY <1>4, <1>5, <1>6, <1>8, <2>1 DEF Soft
  <2> QED BY <1>1, <1>7, <2>2, SoftGo
<1>10. TodoKept
  BY <1>1, <1>2, <1>5, PoppedKept DEF Frame, Marked
<1>11. \E e \in Range(r) : e[1] = "wakeup1"
  BY <1>4, <1>8, RunsTells DEF Tells
<1>12. Thread(c) \in Threads /\ todo'[Thread(c)] = r
  BY <1>4, <1>5, ThreadFacts DEF CpuOK
<1> QED BY <1>9, <1>10, <1>11, <1>12

\* exit() is called with the context x, and if it came back would leave y.
LEMMA ExitRuns ==
  ASSUME NEW x \in Ctx, x.held = {}, Calm(x), x.kind = "base",
         NEW y \in Ctx, NEW r \in Stacks, Runs(r, y),
         \/ Leads(y, {}, x.irq, FALSE, "no", "base")
         \/ ~x.irq /\ Leads(y, {}, FALSE, FALSE, "no", "end")
  PROVE  /\ Runs(exit \o r, x) /\ Range(exit \o r) = {<<"acquire", "ptable">>, <<"exit", 0>>} \cup Range(r)
<1>1. PICK a \in Ops, b \in Ops : a = <<"acquire", "ptable">> /\ b = <<"exit", 0>>
  BY KnownOps DEF Locks
<1>2. PICK z \in Ctx : Leads(z, {"ptable"}, x.irq, FALSE, "no", "base")
  <2>1. x.irq \in BOOLEAN /\ {"ptable"} \in SUBSET Locks
    BY DEF Ctx, Locks
  <2> QED BY <2>1, KFacts
<1>3. Trans(x, a, z)
  <2>1. x.tock = FALSE /\ x.nap = "no"
    BY DEF Ctx, Calm
  <2> QED BY <1>1, <1>2, <2>1 DEF Trans, Leads, Locks
<1>4. Trans(z, b, y)
  <2>1. z.held = {"ptable"} /\ Calm(z) /\ z.kind = "base" /\ z.irq = x.irq /\ b[1] = "exit"
    BY <1>1, <1>2 DEF Leads, Calm
  <2> QED BY <2>1 DEF Trans, Calm
<1>5. Runs(Cons(b, r), z) /\ Range(Cons(b, r)) = {b} \cup Range(r)
  BY <1>4, Push
<1>6. Runs(Cons(a, Cons(b, r)), x) /\ Range(Cons(a, Cons(b, r))) = {a} \cup Range(Cons(b, r))
  BY <1>3, <1>5, Push
<1>7. exit \o r = Cons(a, Cons(b, r))
  <2>1. App(Snoc(One(a), b), r) = Cons(a, Cons(b, r))
    BY Lists, SMT
  <2> QED BY <1>1, <2>1 DEF App, Snoc, One, exit, acquire, Op
<1> QED BY <1>1, <1>5, <1>6, <1>7

LEMMA TrapStep ==
  ASSUME SwitchInv, NEW c \in CPUs, Trap(c)
  PROVE  SwitchInv' /\ TodoKept
<1>1. PICK x \in Ctx, y \in Ctx, o \in Ops, r \in Stacks : Frame(c, x, y, o, r)
  BY AtOp DEF Trap, At
<1>2. o[1] \in {"trap", "iret", "trapret"} /\ Arg(c) = o[2]
  BY <1>1 DEF Trap, At, Arg, Frame
<1>3. /\ x.held = {} /\ x.tock = FALSE /\ x.nap = "no" /\ x.kind # "end"
      /\ y.irq = FALSE /\ y.held = {} /\ y.kind # "end" /\ (y.kind = "loop" <=> x.kind = "loop")
      /\ o[1] = "trapret" => ~x.irq /\ o[2] = "kernel"
      /\ o[1] # "trapret" => x.irq /\ (o[2] = "user" => x.kind = "base") /\ y.kind = x.kind
  BY <1>1, <1>2 DEF Frame, Trans, Leads, Calm, Ctx
<1>4. /\ CpuOK /\ DataOK /\ Runs(r, y) /\ ncli[c] = 0 /\ (cproc[c] = 0 <=> x.kind = "loop")
      /\ intena[c] \in BOOLEAN /\ intena = [intena EXCEPT ![c] = intena[c]]
  <2>1. Count(x.held) = 0
    BY <1>3, CountFacts DEF Ctx
  <2> QED BY <1>1, <2>1, SameCpu DEF Frame, SwitchInv
<1>5. /\ cproc' = cproc /\ ncli' = ncli /\ intena' = intena /\ lock' = lock
      /\ panicked' = panicked /\ proc' = proc /\ clock' = clock
      /\ ie' = [ie EXCEPT ![c] = ~Dies(c) /\ ~Yields(c)]
  BY DEF Trap
<1>6. DataOK' /\ StateKept
  BY <1>4, <1>5, SameData DEF clock
<1>7. Range(todo[Thread(c)]) = {o} \cup Range(r) /\ o[1] \notin Marked
  BY <1>1, <1>2 DEF Frame, Marked
<1>8. PICK b \in Ops : b = <<"iret", o[2]>> /\ b[1] = "iret" /\ b[2] = o[2]
  <2>1. "iret" \in Names
    BY DEF Names
  <2> QED BY <2>1, OpFacts
<1>9. ASSUME x.irq
      PROVE  Runs(Cons(b, r), x) /\ Range(Cons(b, r)) = {b} \cup Range(r) /\ Cons(b, r) \in Stacks
  <2>1. o[1] \in {"trap", "iret"}
    BY <1>2, <1>3, <1>9
  <2>2. Trans(x, b, y)
    BY <1>1, <1>8, <2>1 DEF Frame, Trans
  <2> QED BY <1>4, <2>2, Push
<1>10. ASSUME NEW s, x.irq, Runs(s, x), todo' = [todo EXCEPT ![Thread(c)] = s],
              Dies(c) \/ Yields(c)
       PROVE  SwitchInv'
  <2>1. Flags(x, ncli[c], FALSE) /\ Saved(x, ncli[c], intena[c])
    BY <1>4, <1>10 DEF Flags, Saved
  <2>2. ie' = [ie EXCEPT ![c] = FALSE]
    BY <1>5, <1>10
  <2> QED BY <1>1, <1>3, <1>4, <1>5, <1>6, <1>10, <2>1, <2>2, SoftStep
<1>11. CASE Dies(c)
  <2>1. cproc[c] # 0 /\ killed[cproc[c]] /\ o[2] = "user"
    BY <1>2, <1>11 DEF Dies
  <2>2. x.irq /\ x.kind = "base" /\ Calm(x)
    BY <1>2, <1>3, <2>1 DEF Calm
  <2>3. PICK s : s = exit \o Cons(b, r)
    OBVIOUS
  <2>4. Runs(Cons(b, r), x) /\ Range(Cons(b, r)) = {b} \cup Range(r) /\ Cons(b, r) \in Stacks
    BY <1>9, <2>2
  <2>5. Leads(x, {}, x.irq, FALSE, "no", "base")
    BY <1>3, <2>2 DEF Leads
  <2>6. Runs(s, x) /\ Range(s) = {<<"acquire", "ptable">>, <<"exit", 0>>} \cup Range(Cons(b, r))
    BY <1>3, <2>2, <2>3, <2>4, <2>5, ExitRuns
  <2>7. todo' = [todo EXCEPT ![Thread(c)] = s]
    <3>1. (exit \o <<b>>) \o r = exit \o (<<b>> \o r)
      <4>1. exit \in Stacks /\ <<b>> \in Stacks
        BY OpFacts, SMT DEF exit, acquire, Op, Stacks, Names, Args
      <4>2. PICK v \in Stacks, w \in Stacks : v = exit /\ w = <<b>>
        BY <4>1
      <4>3. (v \o w) \o r = v \o (w \o r)
        BY Assoc
      <4> QED BY <4>2, <4>3
    <3>2. (exit \o Op("iret", Arg(c))) \o r = s
      BY <1>2, <1>8, <2>3, <3>1 DEF Op, Cons
    <3>3. Then(c, exit \o Op("iret", Arg(c)))
      BY <1>11 DEF Trap
    <3> QED BY <1>1, <3>2, <3>3 DEF Then, Frame
  <2>8. SwitchInv'
    BY <1>10, <1>11, <2>2, <2>6, <2>7
  <2>9. TodoKept
    <3>1. PICK M : M = {<<"acquire", "ptable">>, <<"exit", 0>>, b}
      OBVIOUS
    <3>2. Range(s) = M \cup Range(r) /\ \A e \in M : e[1] \notin {"sleep", "sys_sleep"}
      BY <1>8, <2>4, <2>6, <3>1, SMT
    <3>3. Exits(M) => MayExit(c)
      BY <2>1 DEF MayExit
    <3> QED BY <1>7, <2>7, <3>2, <3>3, LocalKept
  <2> QED BY <2>8, <2>9
<1>12. CASE ~Dies(c) /\ Yields(c)
  <2>1. o[1] = "trap" /\ x.irq /\ x.irq = TRUE /\ x.kind \in {"start", "base"}
    BY <1>1, <1>2, <1>3, <1>4, <1>12 DEF Yields, At, Frame, Ctx
  <2>2. PICK a \in Ops, d \in Ops, e \in Ops :
          a = <<"acquire", "ptable">> /\ d = <<"yield", 0>> /\ e = <<"release", "ptable">>
    BY OpFacts DEF Names, Args
  <2>3. PICK z \in Ctx : Leads(z, {"ptable"}, TRUE, FALSE, "no", x.kind)
    <3>1. {"ptable"} \in SUBSET Locks
      BY DEF Locks
    <3> QED BY <2>1, <3>1, KFacts
  <2>4. Trans(z, e, x)
    BY <1>3, <2>1, <2>2, <2>3 DEF Trans, Leads
  <2>5. Trans(z, d, z)
    BY <2>1, <2>2, <2>3 DEF Trans, Leads, Calm
  <2>6. Trans(x, a, z)
    BY <1>3, <2>1, <2>2, <2>3 DEF Trans, Leads, Locks
  <2>7. PICK s1, s2, s : /\ s1 = Cons(e, Cons(b, r)) /\ s2 = Cons(d, s1) /\ s = Cons(a, s2)
    OBVIOUS
  <2>8. Runs(s1, z) /\ Range(s1) = {e, b} \cup Range(r)
    BY <1>9, <2>1, <2>4, <2>7, Push, SMT
  <2>9. Runs(s2, z) /\ Range(s2) = {d, e, b} \cup Range(r)
    BY <2>5, <2>7, <2>8, Push, SMT
  <2>10. Runs(s, x) /\ Range(s) = {a, d, e, b} \cup Range(r)
    BY <2>6, <2>7, <2>9, Push, SMT
  <2>11. todo' = [todo EXCEPT ![Thread(c)] = s]
    <3>1. App(Snoc(Snoc(Snoc(One(a), d), e), b), r) = s
      BY <2>7, Lists, SMT
    <3>2. (acquire("ptable") \o Op("yield", 0) \o release("ptable") \o Op("iret", Arg(c))) \o r = s
      BY <1>2, <1>8, <2>2, <3>1 DEF App, Snoc, One, acquire, release, Op
    <3>3. Then(c, acquire("ptable") \o Op("yield", 0) \o release("ptable") \o Op("iret", Arg(c)))
      BY <1>12 DEF Trap
    <3> QED BY <1>1, <3>2, <3>3 DEF Then, Frame
  <2>12. SwitchInv'
    BY <1>10, <1>12, <2>1, <2>10, <2>11
  <2>13. TodoKept
    <3>1. PICK M : M = {a, d, e, b}
      OBVIOUS
    <3>2. /\ Range(s) = M \cup Range(r) /\ ~Exits(M)
          /\ \A f \in M : f[1] \notin {"sleep", "sys_sleep"}
      BY <1>8, <2>2, <2>10, <3>1, SMT DEF Exits
    <3> QED BY <1>7, <2>11, <3>2, LocalKept
  <2> QED BY <2>12, <2>13
<1>13. CASE ~Dies(c) /\ ~Yields(c)
  <2>1. todo' = [todo EXCEPT ![Thread(c)] = r]
    BY <1>1, <1>13, Nothing DEF Trap, Then, Frame
  <2>2. ie' = [ie EXCEPT ![c] = TRUE]
    BY <1>5, <1>13
  <2>3. Flags(y, ncli[c], TRUE) /\ Saved(y, ncli[c], intena[c]) /\ y.held = x.held
    BY <1>3, <1>4 DEF Flags, Saved
  <2>4. SwitchInv'
    BY <1>1, <1>3, <1>4, <1>5, <1>6, <2>1, <2>2, <2>3, SoftStep
  <2>5. TodoKept
    BY <1>7, <2>1, PoppedKept
  <2> QED BY <2>4, <2>5
<1> QED BY <1>11, <1>12, <1>13

-----------------------------------------------------------------------------
(* System calls *)

LEMMA SysretStep ==
  ASSUME SwitchInv, NEW c \in CPUs, Sysret(c)
  PROVE  SwitchInv' /\ TodoKept
<1>1. PICK x \in Ctx, y \in Ctx, o \in Ops, r \in Stacks : Frame(c, x, y, o, r)
  BY AtOp DEF Sysret, At
<1>2. o[1] = "sysret"
  BY <1>1 DEF Sysret, At, Frame
<1>3. /\ x.held = {} /\ ~x.irq /\ Calm(x) /\ x.kind = "base" /\ x.irq = FALSE
      /\ Leads(y, {}, FALSE, FALSE, "no", "base")
  BY <1>1, <1>2 DEF Frame, Trans, Plain, Calm, Ctx
<1>4. /\ CpuOK /\ DataOK /\ Runs(r, y)
      /\ Flags(x, ncli[c], ie[c]) /\ Saved(x, ncli[c], intena[c])
      /\ Range(todo[Thread(c)]) = {o} \cup Range(r) /\ o[1] \notin Marked
  BY <1>1, <1>2 DEF Frame, SwitchInv, Marked
<1>5. /\ cproc' = cproc /\ ncli' = ncli /\ lock' = lock /\ panicked' = panicked
      /\ ie' = [ie EXCEPT ![c] = ie[c]] /\ intena' = [intena EXCEPT ![c] = intena[c]]
      /\ ie[c] \in BOOLEAN /\ intena[c] \in BOOLEAN /\ DataOK' /\ StateKept
  BY <1>4, SameCpu, SameData DEF Sysret, cpu, clock
<1>6. ASSUME NEW s, NEW z \in {x, y}, Runs(s, z), todo' = [todo EXCEPT ![Thread(c)] = s]
      PROVE  SwitchInv'
  <2>1. /\ z \in Ctx /\ z.held = x.held /\ z.kind # "end" /\ (z.kind = "loop" <=> x.kind = "loop")
        /\ Flags(z, ncli[c], ie[c]) /\ Saved(z, ncli[c], intena[c])
    BY <1>3, <1>4 DEF Leads, Flags, Saved
  <2> QED BY <1>1, <1>5, <1>6, <2>1, SoftStep
<1>7. CASE killed[cproc[c]]
  <2>1. PICK s : s = exit \o r
    OBVIOUS
  <2>2. /\ Runs(s, x) /\ Range(s) = {<<"acquire", "ptable">>, <<"exit", 0>>} \cup Range(r)
    BY <1>3, <1>4, <2>1, ExitRuns
  <2>3. todo' = [todo EXCEPT ![Thread(c)] = s]
    BY <1>1, <1>7, <2>1 DEF Sysret, Then, Frame
  <2>4. PICK M : M = {<<"acquire", "ptable">>, <<"exit", 0>>}
    OBVIOUS
  <2>5. /\ Range(s) = M \cup Range(r) /\ \A e \in M : e[1] \notin {"sleep", "sys_sleep"}
        /\ Exits(M) => MayExit(c)
    BY <1>7, <2>2, <2>4, SMT DEF MayExit
  <2>6. TodoKept
    BY <1>4, <2>3, <2>5, LocalKept
  <2> QED BY <1>6, <2>2, <2>3, <2>6
<1>8. CASE ~killed[cproc[c]]
  <2>1. todo' = [todo EXCEPT ![Thread(c)] = r]
    BY <1>1, <1>8, Nothing DEF Sysret, Then, Frame
  <2>2. TodoKept
    BY <1>4, <2>1, PoppedKept
  <2> QED BY <1>4, <1>6, <2>1, <2>2
<1> QED BY <1>7, <1>8

(* A step that runs ops and then releases ptable.lock. *)
LEMMA DoneStep ==
  ASSUME SwitchInv, NEW c \in CPUs, NEW x \in Ctx, NEW y \in Ctx, NEW o, NEW r \in Stacks,
         Frame(c, x, y, o, r), o[1] # "resume", "ptable" \in x.held,
         y.held = x.held \ {"ptable"}, y.irq = x.irq, y.kind = x.kind,
         Released(c, "ptable", <<>>), cproc' = cproc, intena' = intena, DataOK', StateKept
  PROVE  SwitchInv' /\ todo' = [todo EXCEPT ![Thread(c)] = r]
<1>1. Runs(r, y) /\ <<>> \o r = r
  BY Nothing DEF Frame
<1>2. LetGo(c, x, r, "ptable", <<>>, r, y)
  BY <1>1 DEF LetGo
<1> QED BY <1>2, LetGoStep, SMT

LEMMA KillStep ==
  ASSUME SwitchInv, NEW c \in CPUs, kill(c)
  PROVE  /\ SwitchInv' /\ TodoKept /\ Arg(c) \in Procs \ {initproc}
<1>1. PICK x \in Ctx, y \in Ctx, o \in Ops, r \in Stacks : Frame(c, x, y, o, r)
  BY AtOp DEF kill, At
<1>2. o[1] = "kill" /\ Arg(c) = o[2]
  BY <1>1 DEF kill, At, Frame, Arg
<1>3. /\ x.held = {"ptable"} /\ ~x.irq /\ x.irq = FALSE /\ x.kind = "base"
      /\ Leads(y, {}, FALSE, FALSE, "no", "base")
  BY <1>1, <1>2 DEF Frame, Trans, Plain, Ctx
<1>4. PICK q \in Procs \ {initproc} : q = o[2]
  BY <1>1, <1>2 DEF Frame, Trans
<1>5. /\ killed' = [killed EXCEPT ![q] = (state[q] # "UNUSED")]
      /\ state' = [state EXCEPT ![q] = IF state[q] = "SLEEPING" THEN "RUNNABLE" ELSE state[q]]
      /\ Released(c, "ptable", <<>>) /\ chan' = chan /\ cproc' = cproc /\ intena' = intena
      /\ clock' = clock
  BY <1>2, <1>4 DEF kill
<1>6. DataOK' /\ StateKept
  <2>1. DataOK
    BY DEF SwitchInv
  <2>2. killed' \in [Procs -> BOOLEAN]
    BY <1>5, <2>1 DEF DataOK
  <2>3. /\ state' \in [Procs -> {"UNUSED", "SLEEPING", "RUNNABLE", "RUNNING", "ZOMBIE"}]
        /\ StateKept
    BY <1>5, <2>1 DEF DataOK, StateKept, Ready
  <2> QED BY <1>5, <2>1, <2>2, <2>3 DEF DataOK, clock
<1>7. SwitchInv' /\ todo' = [todo EXCEPT ![Thread(c)] = r]
  <2>1. /\ y.held = x.held \ {"ptable"} /\ y.irq = x.irq /\ y.kind = x.kind
        /\ o[1] # "resume" /\ "ptable" \in x.held
    BY <1>2, <1>3 DEF Leads
  <2> QED BY <1>1, <1>5, <1>6, <2>1, DoneStep, SMT
<1>8. TodoKept
  BY <1>1, <1>2, <1>7, PoppedKept DEF Frame, Marked
<1> QED BY <1>2, <1>4, <1>7, <1>8

LEMMA WokenFacts ==
  ASSUME DataOK, NEW ch, NEW p \in Procs
  PROVE  /\ Woken(ch) \in [Procs -> {"UNUSED", "SLEEPING", "RUNNABLE", "RUNNING", "ZOMBIE"}]
         /\ Woken(ch)[p] = "RUNNING" <=> state[p] = "RUNNING"
         /\ Woken(ch)[p] \in Ready <=> state[p] \in Ready
         /\ Woken(ch)[p] = "SLEEPING" => state[p] = "SLEEPING" /\ chan[p] # ch
         /\ Woken(ch)[p] \notin Ready => Woken(ch)[p] = state[p]
BY DEF Woken, DataOK, Ready

\* wakeup1 runs with both locks, and ends what Tick has begun.
LEMMA Wakeup1Step ==
  ASSUME SwitchInv, NEW c \in CPUs, Wakeup1(c)
  PROVE  /\ SwitchInv' /\ Arg(c) = "ticks" /\ Held(c) = Locks
         /\ state' = Woken("ticks") /\ Thread(c) \in Threads
         /\ \E o \in Ops, r \in Stacks :
              /\ o[1] = "wakeup1" /\ Range(todo[Thread(c)]) = {o} \cup Range(r)
              /\ todo' = [todo EXCEPT ![Thread(c)] = r]
         /\ \A e \in Range(todo[Thread(c)]) : e[1] # "sleep"
<1>1. PICK x \in Ctx, y \in Ctx, o \in Ops, r \in Stacks : Frame(c, x, y, o, r)
  BY AtOp DEF Wakeup1, At
<1>2. o[1] = "wakeup1" /\ Arg(c) = o[2]
  BY <1>1 DEF Wakeup1, At, Frame, Arg
<1>3. /\ o[2] = "ticks" /\ x.held = Locks /\ x.irq /\ x.irq = TRUE /\ x.nap = "no"
      /\ Leads(y, {"ticks"}, TRUE, FALSE, "no", x.kind)
  BY <1>1, <1>2 DEF Frame, Trans, Ctx
<1>4. /\ state' = Woken("ticks") /\ Released(c, "ptable", <<>>)
      /\ chan' = chan /\ killed' = killed /\ cproc' = cproc /\ intena' = intena /\ clock' = clock
  BY <1>2, <1>3 DEF Wakeup1
<1>5. DataOK' /\ StateKept
  <2>1. DataOK
    BY DEF SwitchInv
  <2>2. initproc \in Procs
    BY SchedulerAssumption, SMT DEF initproc, Procs
  <2>3. state' \in [Procs -> {"UNUSED", "SLEEPING", "RUNNABLE", "RUNNING", "ZOMBIE"}]
    BY <1>4, <2>1, <2>2, WokenFacts
  <2>4. StateKept
    BY <1>4, <2>1, WokenFacts DEF StateKept
  <2> QED BY <1>4, <2>1, <2>3, <2>4 DEF DataOK, clock
<1>6. SwitchInv' /\ todo' = [todo EXCEPT ![Thread(c)] = r]
  <2>1. /\ y.held = x.held \ {"ptable"} /\ y.irq = x.irq /\ y.kind = x.kind
        /\ o[1] # "resume" /\ "ptable" \in x.held
    BY <1>2, <1>3 DEF Leads, Locks
  <2> QED BY <1>1, <1>4, <1>5, <2>1, DoneStep, SMT
<1>7. Thread(c) \in Threads
  BY ThreadFacts DEF SwitchInv
<1>8. \A e \in Range(todo[Thread(c)]) : e[1] # "sleep"
  BY <1>1, <1>3 DEF Frame, Tells
<1>9. Range(todo[Thread(c)]) = {o} \cup Range(r) /\ Held(c) = Locks
  BY <1>1, <1>3 DEF Frame
<1> QED BY <1>2, <1>3, <1>4, <1>6, <1>7, <1>8, <1>9

\* The return from a system call, and user space.
LEMMA UserRuns ==
  ASSUME NEW x \in Ctx, Leads(x, {}, FALSE, FALSE, "no", "base")
  PROVE  /\ Runs(<<>>, K({}, FALSE, FALSE, "no", "end")) /\ user \in Stacks
         /\ \E u \in Ops, v \in Ops :
              /\ u = <<"sysret", 0>> /\ v = <<"user", 0>>
              /\ Runs(Cons(u, user), x) /\ Range(Cons(u, user)) = {u, v}
<1>1. PICK y \in Ctx : y = K({}, FALSE, FALSE, "no", "end") /\ Leads(y, {}, FALSE, FALSE, "no", "end")
  BY KFacts
<1>2. Runs(<<>>, y)
  BY <1>1, RunsNothing DEF Done, Calm, Leads
<1>3. PICK u \in Ops, v \in Ops : u = <<"sysret", 0>> /\ v = <<"user", 0>>
  BY OpFacts DEF Names, Args
<1>4. Trans(x, v, y) /\ Trans(x, u, x)
  BY <1>1, <1>3 DEF Trans, Leads, Plain
<1>5. <<>> \in Stacks /\ Range(<<>>) = {}
  BY SMT DEF Stacks, Range
<1>6. Runs(Cons(v, <<>>), x) /\ Range(Cons(v, <<>>)) = {v} /\ Cons(v, <<>>) \in Stacks
  BY <1>2, <1>4, <1>5, Push
<1>7. user = Cons(v, <<>>)
  <2>1. <<v>> \in Stacks /\ <<v>> \o <<>> = <<v>>
    BY SMT DEF Stacks
  <2> QED BY <1>3, <2>1 DEF user, Op, Cons
<1>8. Runs(Cons(u, user), x) /\ Range(Cons(u, user)) = {u, v}
  BY <1>4, <1>6, <1>7, Push, SMT
<1> QED BY <1>1, <1>2, <1>3, <1>6, <1>7, <1>8

\* The system calls of the model, from user space with the context x.
LEMMA CallRuns ==
  ASSUME NEW x \in Ctx, Leads(x, {}, FALSE, FALSE, "no", "base"),
         NEW l \in Locks, NEW e \in Ops, NEW x1 \in Ctx, NEW x2 \in Ctx,
         Leads(x1, {l}, FALSE, FALSE, "no", "base"), Trans(x1, e, x2)
  PROVE  /\ x2 = x => /\ Runs(syscall(acquire(l) \o <<e>>), x)
                      /\ Range(syscall(acquire(l) \o <<e>>))
                           = {<<"acquire", l>>, e, <<"sysret", 0>>, <<"user", 0>>}
         /\ x2 = x1 => /\ Runs(syscall(acquire(l) \o <<e>> \o release(l)), x)
                       /\ Range(syscall(acquire(l) \o <<e>> \o release(l)))
                            = {<<"acquire", l>>, e, <<"release", l>>, <<"sysret", 0>>, <<"user", 0>>}
<1>1. PICK u \in Ops, v \in Ops : /\ u = <<"sysret", 0>> /\ v = <<"user", 0>>
                                  /\ Runs(Cons(u, user), x) /\ Range(Cons(u, user)) = {u, v}
  BY UserRuns
<1>2. user \in Stacks
  BY UserRuns
<1>3. PICK a \in Ops, b \in Ops : /\ a = <<"acquire", l>> /\ b = <<"release", l>>
                                  /\ a[1] = "acquire" /\ a[2] = l /\ b[1] = "release" /\ b[2] = l
  <2>1. l \in Args /\ "acquire" \in Names /\ "release" \in Names
    BY OpFacts DEF Names
  <2>2. \E a \in Ops : a = <<"acquire", l>> /\ a[1] = "acquire" /\ a[2] = l
    BY <2>1, OpFacts
  <2>3. \E b \in Ops : b = <<"release", l>> /\ b[1] = "release" /\ b[2] = l
    BY <2>1, OpFacts
  <2> QED BY <2>2, <2>3
<1>4. Trans(x, a, x1)
  BY <1>3 DEF Trans, Leads
<1>5. Trans(x1, b, x)
  BY <1>3 DEF Trans, Leads
<1>6. ASSUME x2 = x
      PROVE  /\ Runs(syscall(acquire(l) \o <<e>>), x)
             /\ Range(syscall(acquire(l) \o <<e>>)) = {a, e, u, v}
  <2>1. PICK s1 : s1 = Cons(e, Cons(u, user)) /\ Runs(s1, x1) /\ Range(s1) = {e, u, v}
    BY <1>1, <1>6, Push, SMT
  <2>2. PICK s : s = Cons(a, s1) /\ Runs(s, x) /\ Range(s) = {a, e, u, v}
    BY <1>4, <2>1, Push, SMT
  <2>3. App(Snoc(Snoc(One(a), e), u), user) = s
    BY <1>2, <2>1, <2>2, Lists, SMT
  <2>4. syscall(acquire(l) \o <<e>>) = s
    BY <1>1, <1>3, <2>3 DEF App, Snoc, One, syscall, acquire, Op
  <2> QED BY <2>2, <2>4
<1>7. ASSUME x2 = x1
      PROVE  /\ Runs(syscall(acquire(l) \o <<e>> \o release(l)), x)
             /\ Range(syscall(acquire(l) \o <<e>> \o release(l))) = {a, e, b, u, v}
  <2>1. PICK s1 : s1 = Cons(b, Cons(u, user)) /\ Runs(s1, x1) /\ Range(s1) = {b, u, v}
    BY <1>1, <1>5, Push, SMT
  <2>2. PICK s2 : s2 = Cons(e, s1) /\ Runs(s2, x1) /\ Range(s2) = {e, b, u, v}
    BY <1>7, <2>1, Push, SMT
  <2>3. PICK s : s = Cons(a, s2) /\ Runs(s, x) /\ Range(s) = {a, e, b, u, v}
    BY <1>4, <2>2, Push, SMT
  <2>4. App(Snoc(Snoc(Snoc(One(a), e), b), u), user) = s
    BY <1>2, <2>1, <2>2, <2>3, Lists, SMT
  <2>5. syscall(acquire(l) \o <<e>> \o release(l)) = s
    BY <1>1, <1>3, <2>4 DEF App, Snoc, One, syscall, acquire, release, Op
  <2> QED BY <2>3, <2>5
<1> QED BY <1>1, <1>3, <1>6, <1>7

\* The stack of process p after a system call of user space.
Called(p, s) ==
  /\ \A e \in Range(s) : e[1] \notin {"sleep", "wakeup1"} /\ (e[1] = "sys_sleep" => e[2] # FALSE)
  /\ \/ n' = n /\ \A e \in Range(s) : e[1] # "sys_sleep"
     \/ p # initproc /\ (\E k \in Naps : n' = [n EXCEPT ![p] = k]) /\ Has(Range(s), "sys_sleep", TRUE)
  /\ p = initproc /\ ~killed[p] => \A e \in Range(s) : e[1] # "exit"

LEMMA SyscallStep ==
  ASSUME SwitchInv, NEW c \in CPUs, Syscall(c)
  PROVE  /\ SwitchInv' /\ cproc[c] \in Procs /\ state[cproc[c]] = "RUNNING"
         /\ \A e \in Range(todo[cproc[c]]) : e[1] = "user"
         /\ \E s \in Stacks : Called(cproc[c], s) /\ todo' = [todo EXCEPT ![cproc[c]] = s]
<1>1. PICK x \in Ctx, y \in Ctx, o \in Ops, r \in Stacks : Frame(c, x, y, o, r)
  BY AtOp DEF Syscall, At
<1>2. o[1] = "user"
  BY <1>1 DEF Syscall, At, Frame
<1>3. /\ Leads(x, {}, FALSE, FALSE, "no", "base") /\ y.kind = "end"
  BY <1>1, <1>2 DEF Frame, Trans, Plain, Leads, Ctx
<1>4. PICK p \in Procs : p = cproc[c] /\ Thread(c) = p /\ state[p] = "RUNNING"
  <2>1. cproc[c] # 0 /\ CpuOK /\ OnCpu
    BY <1>1, <1>3 DEF Frame, SwitchInv, Leads
  <2>2. Thread(c) = cproc[c] /\ Thread(c) \in Procs
    BY <2>1, ThreadFacts
  <2> QED BY <2>1, <2>2 DEF OnCpu
<1>5. \A e \in Range(todo[p]) : e[1] = "user"
  <2>1. r = <<>>
    BY <1>1, <1>3, RunsTells DEF Frame
  <2>2. Range(r) = {}
    BY <2>1, SMT DEF Range
  <2> QED BY <1>1, <1>2, <1>4, <2>2 DEF Frame
<1>6. /\ CpuOK /\ DataOK /\ Flags(x, ncli[c], ie[c]) /\ Saved(x, ncli[c], intena[c])
  BY <1>1, <1>2 DEF Frame, SwitchInv
<1>7. /\ cproc' = cproc /\ ncli' = ncli /\ lock' = lock /\ panicked' = panicked
      /\ ie' = [ie EXCEPT ![c] = ie[c]] /\ intena' = [intena EXCEPT ![c] = intena[c]]
      /\ ie[c] \in BOOLEAN /\ intena[c] \in BOOLEAN
      /\ proc' = proc /\ ticks' = ticks /\ ticks0' = ticks0
  BY <1>6, SameCpu DEF Syscall, cpu
<1>8. ASSUME NEW s, Runs(s, x), todo' = [todo EXCEPT ![p] = s], Called(p, s)
      PROVE  SwitchInv' /\ s \in Stacks
  <2>1. n' \in [Procs -> Naps \cup {0}]
    BY <1>6, <1>8 DEF DataOK, Called
  <2>2. DataOK' /\ StateKept
    BY <1>6, <1>7, <2>1 DEF DataOK, StateKept, proc
  <2>3. x.kind # "end" /\ todo' = [todo EXCEPT ![Thread(c)] = s]
    BY <1>3, <1>4, <1>8 DEF Leads
  <2>4. SwitchInv'
    <3>1. PICK on \in BOOLEAN, en \in BOOLEAN :
            /\ ie' = [ie EXCEPT ![c] = on] /\ intena' = [intena EXCEPT ![c] = en]
            /\ Flags(x, ncli[c], on) /\ Saved(x, ncli[c], en)
      BY <1>6, <1>7
    <3>2. Runs(s, x) /\ cproc' = cproc /\ ncli' = ncli /\ lock' = lock /\ panicked' = panicked
      BY <1>7, <1>8
    <3> QED BY <1>1, <2>2, <2>3, <3>1, <3>2, SoftStep
  <2> QED BY <1>8, <2>4 DEF Runs
<1>9. SUFFICES \E s : Runs(s, x) /\ todo' = [todo EXCEPT ![p] = s] /\ Called(p, s)
  BY <1>4, <1>5, <1>8
<1>10. PICK x1 \in Ctx, x2 \in Ctx : /\ Leads(x1, {"ptable"}, FALSE, FALSE, "no", "base")
                                     /\ Leads(x2, {"ticks"}, FALSE, FALSE, "no", "base")
  BY KFacts DEF Locks
<1>11. ASSUME killed[p] \/ p # initproc, todo' = [todo EXCEPT ![p] = exit], n' = n
       PROVE  \E s : Runs(s, x) /\ todo' = [todo EXCEPT ![p] = s] /\ Called(p, s)
  <2>1. PICK z \in Ctx : Runs(<<>>, z) /\ Leads(z, {}, FALSE, FALSE, "no", "end")
    BY <1>3, UserRuns, KFacts
  <2>2. <<>> \in Stacks /\ Range(<<>>) = {} /\ x.irq = FALSE /\ x.held = {} /\ x.kind = "base" /\ Calm(x)
    BY <1>3, SMT DEF Stacks, Range, Leads, Calm
  <2>3. PICK q \in Stacks : q = <<>> /\ Range(q) = {} /\ Runs(q, z)
    BY <2>1, <2>2
  <2>4. Runs(exit \o q, x) /\ Range(exit \o q) = {<<"acquire", "ptable">>, <<"exit", 0>>} \cup Range(q)
    BY <2>1, <2>2, <2>3, ExitRuns
  <2>5. exit \o q = exit
    <3>1. exit \in Stacks
      BY OpFacts, SMT DEF exit, acquire, Op, Stacks, Names, Args
    <3> QED BY <2>3, <3>1, SMT DEF Stacks
  <2>6. \A e \in Range(exit) : e[1] \in {"acquire", "exit"}
    BY <2>3, <2>4, <2>5, SMT
  <2>7. Called(p, exit)
    BY <1>11, <2>6 DEF Called
  <2> QED BY <1>11, <2>4, <2>5, <2>7
<1>12. ASSUME NEW e \in Ops, e[1] \in {"wait", "kill"}, Trans(x1, e, x), n' = n,
              todo' = [todo EXCEPT ![p] = syscall(acquire("ptable") \o <<e>>)]
       PROVE  \E s : Runs(s, x) /\ todo' = [todo EXCEPT ![p] = s] /\ Called(p, s)
  <2>1. PICK s : s = syscall(acquire("ptable") \o <<e>>)
    OBVIOUS
  <2>2. Runs(s, x) /\ Range(s) = {<<"acquire", "ptable">>, e, <<"sysret", 0>>, <<"user", 0>>}
    BY <1>3, <1>10, <1>12, <2>1, CallRuns DEF Locks
  <2>3. \A f \in Range(s) : f[1] \in {"acquire", "wait", "kill", "sysret", "user"}
    BY <1>12, <2>2, SMT
  <2>4. Called(p, s)
    BY <1>12, <2>3 DEF Called
  <2> QED BY <1>12, <2>1, <2>2, <2>4
<1>13. ASSUME NEW k \in Naps, p # initproc, n' = [n EXCEPT ![p] = k],
              todo' = [todo EXCEPT ![p] =
                         syscall(acquire("ticks") \o Op("sys_sleep", TRUE) \o release("ticks"))]
       PROVE  \E s : Runs(s, x) /\ todo' = [todo EXCEPT ![p] = s] /\ Called(p, s)
  <2>1. PICK e \in Ops : e = <<"sys_sleep", TRUE>> /\ e[1] = "sys_sleep" /\ e[2] = TRUE
    <3>1. "sys_sleep" \in Names /\ TRUE \in Args
      BY DEF Names, Args
    <3> QED BY <3>1, OpFacts
  <2>2. PICK s : s = syscall(acquire("ticks") \o <<e>> \o release("ticks"))
    OBVIOUS
  <2>3. Trans(x2, e, x2)
    BY <1>10, <2>1 DEF Trans, Leads, Plain
  <2>4. /\ Runs(s, x)
        /\ Range(s) = {<<"acquire", "ticks">>, e, <<"release", "ticks">>, <<"sysret", 0>>, <<"user", 0>>}
    BY <1>3, <1>10, <2>2, <2>3, CallRuns DEF Locks
  <2>5. \A f \in Range(s) \ {e} : f[1] \in {"acquire", "release", "sysret", "user"}
    BY <2>4, SMT
  <2>6. e \in Range(s)
    BY <2>4
  <2>7. Called(p, s)
    <3>1. \A f \in Range(s) : f[1] \notin {"sleep", "wakeup1"} /\ (f[1] = "sys_sleep" => f[2] # FALSE)
      BY <2>1, <2>5
    <3> QED BY <1>13, <2>1, <2>6, <3>1 DEF Called, Has
  <2>8. todo' = [todo EXCEPT ![p] = s]
    BY <1>13, <2>1, <2>2 DEF Op
  <2> QED BY <2>4, <2>7, <2>8
<1>14. CASE /\ ~killed[p] /\ p = initproc
            /\ todo' = [todo EXCEPT ![p] = syscall(acquire("ptable") \o Op("wait", 0))] /\ n' = n
  <2>0. "wait" \in Names /\ 0 \in Args
    BY DEF Names, Args
  <2>1. PICK e \in Ops : e = <<"wait", 0>> /\ e[1] = "wait"
    BY <2>0, OpFacts
  <2>2. Trans(x1, e, x)
    BY <1>3, <1>10, <2>1 DEF Trans, Leads, Plain
  <2> QED BY <1>12, <1>14, <2>1, <2>2 DEF Op
<1>15. ASSUME NEW q \in Procs \ {p}, p = initproc, n' = n,
              todo' = [todo EXCEPT ![p] = syscall(acquire("ptable") \o Op("kill", q))]
       PROVE  \E s : Runs(s, x) /\ todo' = [todo EXCEPT ![p] = s] /\ Called(p, s)
  <2>0. "kill" \in Names /\ q \in Args
    BY SMT DEF Names, Args, Procs
  <2>1. PICK e \in Ops : e = <<"kill", q>> /\ e[1] = "kill" /\ e[2] = q
    BY <2>0, OpFacts
  <2>2. Trans(x1, e, x)
    BY <1>3, <1>10, <1>15, <2>1 DEF Trans, Leads, Plain
  <2> QED BY <1>12, <1>15, <2>1, <2>2 DEF Op
<1> QED BY <1>4, <1>11, <1>13, <1>14, <1>15 DEF Syscall

\* A round of sys_sleep that does not end: sleep(&ticks, &tickslock) and the next round.
LEMMA NapRuns ==
  ASSUME NEW x \in Ctx, NEW y \in Ctx, NEW r \in Stacks, Runs(r, y),
         Leads(x, {"ticks"}, FALSE, FALSE, "no", "base"), Leads(y, {"ticks"}, FALSE, FALSE, "no", "base")
  PROVE  \E s \in Stacks, z \in Ctx, M \in SUBSET Ops :
           /\ s = (sleep("ticks", "ticks") \o Op("sys_sleep", FALSE)) \o r
           /\ Runs(s, z) /\ Leads(z, {"ticks"}, FALSE, FALSE, "ticks", "base")
           /\ Range(s) = M \cup Range(r) /\ Has(M, "sys_sleep", FALSE)
           /\ \A e \in M : e[1] \notin {"wakeup1", "exit"}
<1>1. PICK z0 \in Ctx, z1 \in Ctx, z2 \in Ctx, z3 \in Ctx, z4 \in Ctx :
        /\ Leads(z0, {"ticks"}, FALSE, FALSE, "ticks", "base")
        /\ Leads(z1, Locks, FALSE, FALSE, "ticks", "base")
        /\ Leads(z2, {"ptable"}, FALSE, FALSE, "ticks", "base")
        /\ Leads(z3, {"ptable"}, FALSE, FALSE, "no", "base")
        /\ Leads(z4, {}, FALSE, FALSE, "no", "base")
  BY KFacts DEF Locks
<1>2. PICK a \in Ops, b \in Ops, d \in Ops, e \in Ops, f \in Ops, g \in Ops :
        /\ a = <<"acquire", "ptable">> /\ b = <<"release", "ticks">> /\ d = <<"sleep", "ticks">>
        /\ e = <<"release", "ptable">> /\ f = <<"acquire", "ticks">> /\ g = <<"sys_sleep", FALSE>>
  BY OpFacts DEF Names, Args
<1>3. Trans(x, g, y)
  BY <1>2 DEF Trans, Leads, Plain
<1>4. Trans(z4, f, x)
  BY <1>1, <1>2 DEF Trans, Leads, Locks
<1>5. Trans(z3, e, z4)
  BY <1>1, <1>2 DEF Trans, Leads
<1>6. Trans(z2, d, z3)
  BY <1>1, <1>2 DEF Trans, Leads
<1>7. Trans(z1, b, z2)
  BY <1>1, <1>2 DEF Trans, Leads, Locks
<1>8. Trans(z0, a, z1)
  BY <1>1, <1>2 DEF Trans, Leads, Locks
<1>9. PICK s1, s2, s3, s4, s5, s : /\ s1 = Cons(g, r) /\ s2 = Cons(f, s1) /\ s3 = Cons(e, s2)
                                   /\ s4 = Cons(d, s3) /\ s5 = Cons(b, s4) /\ s = Cons(a, s5)
  OBVIOUS
<1>10. Runs(s1, x) /\ Range(s1) = {g} \cup Range(r)
  BY <1>3, <1>9, Push
<1>11. Runs(s2, z4) /\ Range(s2) = {f, g} \cup Range(r)
  BY <1>4, <1>9, <1>10, Push, SMT
<1>12. Runs(s3, z3) /\ Range(s3) = {e, f, g} \cup Range(r)
  BY <1>5, <1>9, <1>11, Push, SMT
<1>13. Runs(s4, z2) /\ Range(s4) = {d, e, f, g} \cup Range(r)
  BY <1>6, <1>9, <1>12, Push, SMT
<1>14. Runs(s5, z1) /\ Range(s5) = {b, d, e, f, g} \cup Range(r)
  BY <1>7, <1>9, <1>13, Push, SMT
<1>15. Runs(s, z0) /\ Range(s) = {a, b, d, e, f, g} \cup Range(r) /\ s \in Stacks
  BY <1>8, <1>9, <1>14, Push, SMT
<1>16. (sleep("ticks", "ticks") \o Op("sys_sleep", FALSE)) \o r = s
  BY <1>2, <1>9, NapOps
<1>17. PICK M \in SUBSET Ops : M = {a, b, d, e, f, g}
  OBVIOUS
<1>18. /\ Range(s) = M \cup Range(r) /\ Has(M, "sys_sleep", FALSE)
       /\ \A h \in M : h[1] \notin {"wakeup1", "exit"}
  BY <1>2, <1>15, <1>17, SMT DEF Has
<1> QED BY <1>1, <1>15, <1>16, <1>18

\* One round of sys_sleep: from where it counts, and whether it ends.
Start(c) == IF Arg(c) THEN ticks ELSE ticks0[cproc[c]]
Fin(c) == Elapsed(Start(c), n[cproc[c]]) \/ killed[cproc[c]]

LEMMA SysSleepStep ==
  ASSUME SwitchInv, NEW c \in CPUs, sys_sleep(c)
  PROVE  /\ SwitchInv' /\ cproc[c] \in Procs /\ state[cproc[c]] = "RUNNING" /\ Arg(c) \in BOOLEAN
         /\ n' = [n EXCEPT ![cproc[c]] = IF Fin(c) THEN 0 ELSE n[cproc[c]]]
         /\ ticks0' = [ticks0 EXCEPT ![cproc[c]] = IF Fin(c) THEN 0 ELSE Start(c)]
         /\ slept' = [slept EXCEPT ![cproc[c]] = IF Fin(c) \/ Arg(c) THEN 0 ELSE slept[cproc[c]]]
         /\ proc' = proc /\ ticks' = ticks
         /\ \E o \in Ops, r \in Stacks, s \in Stacks :
              /\ o[1] = "sys_sleep" /\ o[2] = Arg(c)
              /\ Range(todo[cproc[c]]) = {o} \cup Range(r) /\ \A e \in Range(r) : e[1] # "sleep"
              /\ todo' = [todo EXCEPT ![cproc[c]] = s]
              /\ Fin(c) => s = r
              /\ ~Fin(c) => \E M \in SUBSET Ops :
                              /\ Range(s) = M \cup Range(r) /\ Has(M, "sys_sleep", FALSE)
                              /\ \A e \in M : e[1] \notin {"wakeup1", "exit"}
<1>1. PICK x \in Ctx, y \in Ctx, o \in Ops, r \in Stacks : Frame(c, x, y, o, r)
  BY AtOp DEF sys_sleep, At
<1>2. o[1] = "sys_sleep" /\ o[2] = Arg(c)
  BY <1>1 DEF sys_sleep, At, Arg, Frame
<1>3. /\ Leads(x, {"ticks"}, FALSE, FALSE, "no", "base") /\ o[2] \in BOOLEAN
      /\ Leads(y, {"ticks"}, FALSE, FALSE, "no", "base")
  BY <1>1, <1>2 DEF Frame, Trans, Plain, Leads, Ctx
<1>4. PICK p \in Procs : p = cproc[c] /\ Thread(c) = p /\ state[p] = "RUNNING"
  <2>1. cproc[c] # 0 /\ CpuOK /\ OnCpu
    BY <1>1, <1>3 DEF Frame, SwitchInv, Leads
  <2>2. Thread(c) = cproc[c] /\ Thread(c) \in Procs
    BY <2>1, ThreadFacts
  <2> QED BY <2>1, <2>2 DEF OnCpu
<1>5. /\ CpuOK /\ DataOK /\ Flags(x, ncli[c], ie[c]) /\ Saved(x, ncli[c], intena[c])
      /\ Runs(r, y) /\ Range(todo[p]) = {o} \cup Range(r)
  BY <1>1, <1>2, <1>4 DEF Frame, SwitchInv
<1>6. /\ cproc' = cproc /\ ncli' = ncli /\ lock' = lock /\ panicked' = panicked
      /\ proc' = proc /\ ticks' = ticks /\ cpu' = cpu
      /\ n' = [n EXCEPT ![p] = IF Fin(c) THEN 0 ELSE n[p]]
      /\ ticks0' = [ticks0 EXCEPT ![p] = IF Fin(c) THEN 0 ELSE Start(c)]
      /\ slept' = [slept EXCEPT ![p] = IF Fin(c) \/ Arg(c) THEN 0 ELSE slept[p]]
      /\ Then(c, IF Fin(c) THEN <<>> ELSE sleep("ticks", "ticks") \o Op("sys_sleep", FALSE))
  BY <1>4 DEF sys_sleep, Fin, Start, cpu
<1>7. Start(c) \in 0..(Wrap - 1)
  BY <1>4, <1>5 DEF Start, DataOK
<1>8. DataOK' /\ StateKept
  <2>1. 0 \in 0..(Wrap - 1)
    BY SchedulerAssumption, SMT
  <2>2. n' \in [Procs -> Naps \cup {0}]
    BY <1>5, <1>6 DEF DataOK
  <2>3. ticks0' \in [Procs -> 0..(Wrap - 1)]
    BY <1>5, <1>6, <1>7, <2>1 DEF DataOK
  <2> QED BY <1>5, <1>6, <2>2, <2>3 DEF DataOK, StateKept, proc
<1>9. ASSUME NEW s, NEW z \in Ctx, Runs(s, z), todo' = [todo EXCEPT ![p] = s],
             NEW a, Leads(z, {"ticks"}, FALSE, FALSE, a, "base")
      PROVE  SwitchInv'
  <2>1. /\ z.held = x.held /\ z.kind # "end" /\ (z.kind = "loop" <=> x.kind = "loop")
        /\ Flags(z, ncli[c], ie[c]) /\ Saved(z, ncli[c], intena[c])
    BY <1>3, <1>5, <1>9 DEF Leads, Flags, Saved
  <2>2. PICK on \in BOOLEAN, en \in BOOLEAN :
          /\ ie' = [ie EXCEPT ![c] = on] /\ intena' = [intena EXCEPT ![c] = en]
          /\ Flags(z, ncli[c], on) /\ Saved(z, ncli[c], en)
    BY <1>5, <1>6, <2>1, SameCpu DEF cpu
  <2>3. todo' = [todo EXCEPT ![Thread(c)] = s]
    BY <1>4, <1>9
  <2>4. Runs(s, z) /\ cproc' = cproc /\ ncli' = ncli /\ lock' = lock /\ panicked' = panicked
    BY <1>6, <1>9
  <2>5. Soft(c, x, s, z, on, en)
    BY <2>1, <2>2, <2>3, <2>4 DEF Soft
  <2> QED BY <1>1, <1>8, <2>5, SoftGo
<1>10. \A e \in Range(r) : e[1] # "sleep"
  BY <1>3, <1>5, RunsTells DEF Tells, Leads
<1>11. CASE Fin(c)
  <2>1. todo' = [todo EXCEPT ![p] = r]
    BY <1>1, <1>4, <1>6, <1>11, Nothing DEF Then, Frame
  <2>2. SwitchInv'
    BY <1>3, <1>5, <1>9, <2>1
  <2> QED BY <1>2, <1>3, <1>4, <1>5, <1>6, <1>10, <1>11, <2>1, <2>2
<1>12. CASE ~Fin(c)
  <2>1. PICK s \in Stacks, z \in Ctx, M \in SUBSET Ops :
           /\ s = (sleep("ticks", "ticks") \o Op("sys_sleep", FALSE)) \o r
           /\ Runs(s, z) /\ Leads(z, {"ticks"}, FALSE, FALSE, "ticks", "base")
           /\ Range(s) = M \cup Range(r) /\ Has(M, "sys_sleep", FALSE)
           /\ \A e \in M : e[1] \notin {"wakeup1", "exit"}
    BY <1>3, <1>5, NapRuns
  <2>2. todo' = [todo EXCEPT ![p] = s]
    BY <1>1, <1>4, <1>6, <1>12, <2>1 DEF Then, Frame
  <2>3. SwitchInv'
    BY <1>9, <2>1, <2>2
  <2>4. \E M1 \in SUBSET Ops : /\ Range(s) = M1 \cup Range(r) /\ Has(M1, "sys_sleep", FALSE)
                               /\ \A h \in M1 : h[1] \notin {"wakeup1", "exit"}
    BY <2>1
  <2> QED BY <1>2, <1>3, <1>4, <1>5, <1>6, <1>10, <1>12, <2>1, <2>2, <2>3, <2>4, ZenonT(30)
<1> QED BY <1>11, <1>12

LEMMA InitIn == initproc \in Procs /\ initproc \in Threads /\ Procs \subseteq Threads
BY SchedulerAssumption, SMT DEF initproc, Procs, Threads

-----------------------------------------------------------------------------
(* Switches *)

\* Processor c leaves the stack s behind and continues with np, a process or 0.
Switch(c, np, s) ==
  /\ cproc' = [cproc EXCEPT ![c] = np] /\ todo' = [todo EXCEPT ![Thread(c)] = s]
  /\ ncli' = ncli /\ ie' = ie /\ intena' = intena /\ lock' = lock /\ panicked' = panicked
  /\ \A q \in Procs : q # cproc[c] /\ q # np =>
       /\ state'[q] = "RUNNING" <=> state[q] = "RUNNING"
       /\ state'[q] \in Ready => state[q] \in Ready
  /\ cproc[c] # 0 => /\ np = 0 /\ state'[cproc[c]] # "RUNNING"
                     /\ state'[cproc[c]] \in Ready => Parked(s)
  /\ cproc[c] = 0 => /\ np # 0 /\ state[np] # "RUNNING" /\ state'[np] = "RUNNING"
                     /\ Runs(s, Switched(FALSE, "loop"))

Continued(c, np) == IF np = 0 THEN -c ELSE np

LEMMA SwitchStep ==
  ASSUME SwitchInv, NEW c \in CPUs, NEW np \in 0..NPROC, NEW s \in Stacks, NEW z \in Ctx,
         Switch(c, np, s), DataOK',
         Fits(z, todo[Continued(c, np)], np, Held(c), ncli[c], ie[c], intena[c])
  PROVE  SwitchInv'
<1>1. /\ CpuOK /\ OnCpu /\ CpuFits /\ ProcFits /\ LoopFits
      /\ cproc' = [cproc EXCEPT ![c] = np] /\ todo' = [todo EXCEPT ![Thread(c)] = s]
      /\ ncli' = ncli /\ ie' = ie /\ intena' = intena /\ lock' = lock /\ panicked' = panicked
  BY DEF SwitchInv, Switch
<1>2. /\ \A d \in CPUs : cproc[d] # 0 => cproc[d] \in Procs /\ state[cproc[d]] = "RUNNING"
      /\ np # 0 => np \in Procs
      /\ \A d \in CPUs : Thread(d) \in Threads /\ -d \in Threads /\ -d \notin Procs
      /\ Procs \subseteq Threads /\ Procs \subseteq Nat \ {0} /\ CPUs \subseteq Nat \ {0}
  <2>1. \A d \in CPUs : cproc[d] # 0 => cproc[d] \in Procs /\ state[cproc[d]] = "RUNNING"
    BY <1>1, ThreadFacts DEF OnCpu
  <2>2. /\ np # 0 => np \in Procs
        /\ Procs \subseteq Threads /\ Procs \subseteq Nat \ {0} /\ CPUs \subseteq Nat \ {0}
    BY SchedulerAssumption, SMT DEF Procs, CPUs, Threads
  <2>3. \A d \in CPUs : Thread(d) \in Threads /\ -d \in Threads
    BY <1>1, ThreadFacts
  <2>4. \A d \in CPUs : -d \notin Procs
    BY <2>2, SMT
  <2> QED BY <2>1, <2>2, <2>3, <2>4
<1>3. /\ cproc'[c] = np /\ \A d \in CPUs \ {c} : cproc'[d] = cproc[d]
      /\ todo'[Thread(c)] = s /\ \A t \in Threads \ {Thread(c)} : todo'[t] = todo[t]
  BY <1>1, <1>2 DEF CpuOK
<1>4. /\ Thread(c)' = Continued(c, np) /\ \A d \in CPUs \ {c} : Thread(d)' = Thread(d)
  BY <1>3 DEF Thread, Continued
<1>5. CpuOK'
  <2>1. cproc' \in [CPUs -> 0..NPROC]
    BY <1>1 DEF CpuOK
  <2>2. todo' \in [Threads -> Stacks]
    BY <1>1, <1>2 DEF CpuOK
  <2> QED BY <1>1, <2>1, <2>2 DEF CpuOK
<1>6. OnCpu'
  <2>1. ASSUME NEW d \in CPUs \ {c}, cproc[d] # 0
        PROVE  cproc[d] # np /\ state'[cproc[d]] = "RUNNING"
    <3>1. cproc[d] \in Procs /\ state[cproc[d]] = "RUNNING"
      BY <1>2, <2>1
    <3>2. cproc[d] # cproc[c]
      BY <1>1, <2>1 DEF OnCpu
    <3>3. cproc[d] # np
      BY <2>1, <3>1 DEF Switch
    <3> QED BY <3>1, <3>2, <3>3 DEF Switch
  <2>2. ASSUME NEW q \in Procs, state'[q] = "RUNNING"
        PROVE  \E d \in CPUs : cproc'[d] = q
    <3>1. CASE q = np
      BY <1>3, <3>1
    <3>2. CASE q # np
      <4>1. q # cproc[c]
        BY <1>2, <2>2, <3>2 DEF Switch
      <4>2. PICK d \in CPUs : cproc[d] = q
        BY <1>1, <2>2, <3>2, <4>1 DEF OnCpu, Switch
      <4> QED BY <1>3, <4>1, <4>2
    <3> QED BY <3>1, <3>2
  <2>3. np # 0 => state'[np] = "RUNNING"
    BY DEF Switch
  <2>4. \A d, e \in CPUs : cproc'[d] # 0 /\ cproc'[d] = cproc'[e] => d = e
    BY <1>1, <1>3, <2>1, SMT DEF OnCpu
  <2>5. \A d \in CPUs : cproc'[d] # 0 => state'[cproc'[d]] = "RUNNING"
    BY <1>3, <2>1, <2>3
  <2> QED BY <2>2, <2>4, <2>5 DEF OnCpu
<1>7. CpuFits'
  <2>1. \A d \in CPUs : Held(d)' = Held(d)
    BY <1>1 DEF Held
  <2>2. ASSUME NEW d \in CPUs
        PROVE  \E x \in Ctx : Fits(x, todo'[Thread(d)'], cproc'[d], Held(d)', ncli[d], ie[d], intena[d])
    <3>1. CASE d = c
      <4>1. Continued(c, np) # Thread(c) /\ Continued(c, np) \in Threads
        BY <1>2 DEF Continued, Thread, Switch
      <4>2. todo'[Thread(c)'] = todo[Continued(c, np)]
        BY <1>3, <1>4, <4>1
      <4> QED BY <1>3, <2>1, <3>1, <4>2
    <3>2. CASE d # c
      <4>1. Thread(d) # Thread(c)
        BY <1>1, <3>2, ThreadFacts
      <4>2. todo'[Thread(d)'] = todo[Thread(d)] /\ cproc'[d] = cproc[d]
        BY <1>2, <1>3, <1>4, <3>2, <4>1
      <4>3. \E x \in Ctx : Fits(x, todo[Thread(d)], cproc[d], Held(d), ncli[d], ie[d], intena[d])
        BY <1>1 DEF CpuFits
      <4> QED BY <2>1, <4>2, <4>3
    <3> QED BY <3>1, <3>2
  <2> QED BY <1>1, <2>2 DEF CpuFits
<1>8. ProcFits'
  <2>1. ASSUME NEW q \in Procs, state'[q] \in Ready
        PROVE  Parked(todo'[q])
    <3>1. CASE q = cproc[c]
      <4>1. Thread(c) = q /\ cproc[c] # 0
        BY <1>2, <3>1 DEF Thread
      <4> QED BY <1>3, <2>1, <3>1, <4>1 DEF Switch
    <3>2. CASE q # cproc[c]
      <4>1. q # Thread(c) /\ q \in Threads
        BY <1>2, <3>2 DEF Thread
      <4>2. q # np
        BY <1>2, <2>1, <3>2 DEF Switch, Ready
      <4>3. state[q] \in Ready /\ todo'[q] = todo[q]
        BY <1>3, <2>1, <3>2, <4>1, <4>2 DEF Switch
      <4> QED BY <1>1, <4>3 DEF ProcFits
    <3> QED BY <3>1, <3>2
  <2> QED BY <2>1 DEF ProcFits
<1>9. LoopFits'
  <2>1. ASSUME NEW d \in CPUs, cproc'[d] # 0
        PROVE  Runs(todo'[-d], Switched(FALSE, "loop"))
    <3>1. CASE d = c
      <4>1. cproc[c] = 0
        BY <1>3, <2>1, <3>1 DEF Switch
      <4>2. Thread(c) = -c /\ Runs(s, Switched(FALSE, "loop"))
        BY <4>1 DEF Switch, Thread
      <4> QED BY <1>3, <3>1, <4>2
    <3>2. CASE d # c
      <4>1. -d # Thread(c) /\ -d \in Threads
        BY <1>1, <3>2, ThreadFacts
      <4>2. todo'[-d] = todo[-d] /\ cproc[d] # 0
        BY <1>3, <2>1, <3>2, <4>1
      <4> QED BY <1>1, <4>2 DEF LoopFits
    <3> QED BY <3>1, <3>2
  <2> QED BY <2>1 DEF LoopFits
<1> QED BY <1>5, <1>6, <1>7, <1>8, <1>9 DEF SwitchInv

LEMMA SwitchedFacts ==
  ASSUME NEW i \in BOOLEAN, NEW k \in {"start", "base", "loop"}
  PROVE  /\ Switched(i, k) \in Ctx /\ Leads(Switched(i, k), {"ptable"}, i, FALSE, "no", k)
         /\ \A y \in Ctx : Leads(y, {"ptable"}, i, FALSE, "no", k) => y = Switched(i, k)
<1>1. {"ptable"} \in SUBSET Locks
  BY DEF Locks
<1>2. Switched(i, k) \in Ctx /\ Leads(Switched(i, k), {"ptable"}, i, FALSE, "no", k)
  BY <1>1, KFacts DEF Switched
<1>3. \A y \in Ctx : Leads(y, {"ptable"}, i, FALSE, "no", k) => y = Switched(i, k)
  BY SMT DEF Switched, K, Leads, Ctx
<1> QED BY <1>2, <1>3

LEMMA ParkedFacts ==
  ASSUME NEW s, Parked(s)
  PROVE  /\ s \in Stacks /\ \A e \in Range(s) : e[1] # "sleep"
         /\ \E i \in BOOLEAN, k \in {"start", "base"} :
              Runs(s, Switched(i, k)) /\ (s[1][1] = "resume" \/ (i = FALSE /\ k = "start"))
<1>1. PICK i \in BOOLEAN, k \in {"start", "base"} :
        Runs(s, Switched(i, k)) /\ (s[1][1] = "resume" \/ (i = FALSE /\ k = "start"))
  BY DEF Parked
<1>2. PICK x \in Ctx : x = Switched(i, k) /\ x.nap = "no"
  BY SwitchedFacts DEF Leads
<1>3. s \in Stacks
  BY <1>1 DEF Runs
<1>4. Tells(Range(s), x)
  BY <1>1, <1>2, RunsTells
<1>5. \A e \in Range(s) : e[1] # "sleep"
  BY <1>2, <1>4 DEF Tells
<1> QED BY <1>1, <1>3, <1>5

\* A processor that comes from the scheduler or from sched().
LEMMA SwitchFits ==
  ASSUME SwitchInv, NEW c \in CPUs, NEW s, NEW i \in BOOLEAN, NEW k \in {"start", "base", "loop"},
         Runs(s, Switched(i, k)), NEW np, np = 0 <=> k = "loop",
         s[1][1] = "resume" \/ (i = FALSE /\ k # "base"), Held(c) = {"ptable"}, ncli[c] = 1, ie[c] = FALSE
  PROVE  \E z \in Ctx : Fits(z, s, np, Held(c), ncli[c], ie[c], intena[c])
<1>1. PICK z \in Ctx : z = Switched(i, k) /\ Leads(z, {"ptable"}, i, FALSE, "no", k)
  BY SwitchedFacts
<1>2. /\ Runs(s, z) /\ z.kind # "end" /\ (np = 0 <=> z.kind = "loop") /\ Held(c) = z.held
      /\ Flags(z, ncli[c], ie[c]) /\ (s[1][1] = "resume" \/ Saved(z, ncli[c], intena[c]))
  BY <1>1, SMT DEF Leads, Flags, Saved
<1>3. ncli[c] = Count(Held(c))
  <2>1. {"ptable"} \in SUBSET Locks
    BY DEF Locks
  <2> QED BY <2>1, CountFacts
<1> QED BY <1>2, <1>3, NewFits

\* The scan of scheduler() ends: the loop goes on.
LEMMA ScanEnds ==
  ASSUME SwitchInv, NEW c \in CPUs, NEW x \in Ctx, NEW y \in Ctx, NEW o \in Ops, NEW r \in Stacks,
         Frame(c, x, y, o, r), o[1] = "scan", Leads(x, {"ptable"}, FALSE, FALSE, "no", "loop"),
         Leads(y, {}, FALSE, FALSE, "no", "end"), Released(c, "ptable", Op("loop", 0)),
         cproc' = cproc, intena' = intena, DataOK', StateKept
  PROVE  SwitchInv' /\ TodoKept
<1>1. PICK z \in Ctx : Leads(z, {}, FALSE, FALSE, "no", "loop")
  BY KFacts DEF Locks
<1>2. PICK a \in Ops : a = <<"loop", 0>> /\ a[1] = "loop"
  <2>1. PICK w, i : w = "loop" /\ i = 0 /\ w \in Names /\ i \in Args
    BY DEF Names, Args
  <2>2. PICK a \in Ops : a = <<w, i>> /\ a[1] = w
    BY <2>1, OpFacts, SMT
  <2> QED BY <2>1, <2>2
<1>3. Trans(z, a, y)
  BY <1>1, <1>2 DEF Trans, Leads, Calm
<1>4. PICK s, ops : s = Cons(a, r) /\ ops = Op("loop", 0) /\ s = ops \o r
  BY <1>2 DEF Op, Cons
<1>5. Runs(s, z) /\ Range(s) = {a} \cup Range(r)
  BY <1>3, <1>4, Push DEF Frame
<1>6. PICK l \in x.held : l = "ptable"
  BY DEF Leads
<1>7. SwitchInv' /\ todo' = [todo EXCEPT ![Thread(c)] = s]
  <2>1. z.held = x.held \ {l} /\ z.irq = x.irq /\ z.kind = x.kind
    BY <1>1, <1>6 DEF Leads
  <2>2. Released(c, l, ops) /\ s = ops \o r /\ o[1] # "resume" /\ Runs(s, z)
    BY <1>4, <1>5, <1>6
  <2>3. SwitchInv'
    BY <2>1, <2>2, ReleasedStep
  <2>4. panicked' = FALSE
    BY <2>3 DEF SwitchInv, CpuOK
  <2>5. Then(c, ops)
    BY <2>2, <2>4 DEF Released, popcli, Panic
  <2> QED BY <2>2, <2>3, <2>5 DEF Then, Frame
<1>8. TodoKept
  <2>1. PICK M : M = {a}
    OBVIOUS
  <2>2. Range(s) = M \cup Range(r) /\ ~Exits(M) /\ \A e \in M : e[1] \notin {"sleep", "sys_sleep"}
    BY <1>2, <1>5, <2>1 DEF Exits
  <2>3. o[1] \notin Marked /\ Range(todo[Thread(c)]) = {o} \cup Range(r)
    BY DEF Marked, Frame
  <2>4. todo' = [todo EXCEPT ![Thread(c)] = s]
    BY <1>7
  <2> QED BY <2>2, <2>3, <2>4, LocalKept
<1> QED BY <1>7, <1>8

LEMMA LoneLock ==
  ASSUME CpuOK, NEW c \in CPUs, Held(c) = {"ptable"}
  PROVE  lock["ptable"] = c
<1>1. "ptable" \in Held(c)
  OBVIOUS
<1>2. "ptable" \in {l \in Locks : lock[l] = c}
  BY <1>1, HeldFacts
<1> QED BY <1>2

LEMMA OneNotZero == 1 # 0
BY SMT

LEMMA ResumeTrans ==
  ASSUME NEW y, NEW a, NEW i \in BOOLEAN, NEW k \in {"start", "base"}, a[1] = "resume",
         Leads(y, {"ptable"}, i, FALSE, "no", k),
         (i /\ a[2] = FALSE) \/ (~i /\ a[2] = TRUE /\ k = "base")
  PROVE  Trans(y, a, y)
<1>1. /\ y.held = {"ptable"} /\ y.irq = i /\ y.tock = FALSE /\ y.nap = "no" /\ y.kind = k
      /\ k # "end" /\ k # "loop"
  BY DEF Leads
<1>2. Leads(y, y.held, y.irq, FALSE, "no", y.kind) /\ Calm(y)
  BY <1>1 DEF Leads, Calm
<1>3. (y.irq /\ a[2] = FALSE /\ y.kind # "loop") \/ (~y.irq /\ a[2] = TRUE /\ y.kind = "base")
  BY <1>1
<1> QED BY <1>1, <1>2, <1>3 DEF Trans

\* The process of c stops running, with the states S, in a context it can go on from.
Leaves(c, S, x, y) ==
  /\ \A q \in Procs : q # cproc[c] => /\ S[q] = "RUNNING" <=> state[q] = "RUNNING"
                                      /\ S[q] \in Ready => state[q] \in Ready
  /\ S[cproc[c]] # "RUNNING"
  /\ S[cproc[c]] \in Ready => /\ Leads(y, {"ptable"}, x.irq, FALSE, "no", x.kind)
                              /\ x.irq \/ x.kind = "base"
\* Its stack: sched() has to return, and then r.
Left(c, r) ==
  \E s \in Stacks : /\ todo' = [todo EXCEPT ![Thread(c)] = s] /\ Thread(c) = cproc[c]
                    /\ \E a \in Ops : a[1] = "resume" /\ Range(s) = {a} \cup Range(r)

\* sched(), called with ptable.lock alone; the process goes on with r.
LEMMA SchedStep ==
  ASSUME SwitchInv, NEW c \in CPUs, NEW x \in Ctx, NEW y \in Ctx, NEW o \in Ops, NEW r \in Stacks,
         Frame(c, x, y, o, r), o[1] # "resume", x.held = {"ptable"}, x.kind \in {"start", "base"},
         NEW S, sched(c, S), ncli' = ncli, ie' = ie, intena' = intena, lock' = lock, DataOK',
         Leaves(c, S, x, y)
  PROVE  SwitchInv' /\ state' = S /\ Left(c, r)
<1>1. /\ CpuOK /\ OnCpu /\ LoopFits /\ Held(c) = {"ptable"} /\ ncli[c] = Count(x.held)
      /\ Flags(x, ncli[c], ie[c]) /\ Saved(x, ncli[c], intena[c]) /\ cproc[c] # 0
      /\ Tail(todo[Thread(c)]) = r /\ Runs(r, y)
  BY DEF SwitchInv, Frame
<1>2. /\ ncli[c] = 1 /\ ie[c] = FALSE /\ lock["ptable"] = c /\ intena[c] \in BOOLEAN
  <2>1. ncli[c] = 1
    BY <1>1, CountFacts DEF Locks
  <2>2. lock["ptable"] = c
    BY <1>1, LoneLock
  <2>3. ie[c] \in BOOLEAN /\ intena[c] \in BOOLEAN
    BY <1>1, SameCpu
  <2>4. ~ie[c]
    BY <1>1, <2>1, OneNotZero DEF Flags
  <2> QED BY <2>1, <2>2, <2>3, <2>4
<1>3. PICK p \in Procs : p = cproc[c] /\ Thread(c) = p /\ state[p] = "RUNNING"
  <2>1. Thread(c) = cproc[c] /\ Thread(c) \in Procs
    BY <1>1, ThreadFacts
  <2>2. state[cproc[c]] = "RUNNING"
    BY <1>1 DEF OnCpu
  <2> QED BY <2>1, <2>2
<1>4. PICK en \in BOOLEAN : en = intena[c] /\ (x.irq => ~en) /\ (~x.irq /\ x.kind = "base" => en)
  <2>1. ncli[c] # 0
    BY <1>2, OneNotZero
  <2> QED BY <1>1, <1>2, <2>1 DEF Saved
<1>5. PICK a \in Ops : a = <<"resume", en>> /\ a[1] = "resume" /\ a[2] = en
  <2>1. PICK w, i : w = "resume" /\ i = en /\ w \in Names /\ i \in Args
    BY DEF Names, Args
  <2>2. PICK a \in Ops : a = <<w, i>> /\ a[1] = w /\ a[2] = i
    BY <2>1, OpFacts, SMT
  <2> QED BY <2>1, <2>2
<1>6. PICK s : s = Cons(a, r) /\ s \in Stacks /\ Range(s) = {a} \cup Range(r) /\ s[1] = a
  BY ConsFacts
<1>7. /\ state' = S /\ todo' = [todo EXCEPT ![p] = s] /\ cproc' = [cproc EXCEPT ![c] = 0]
      /\ panicked' = panicked
  <2>1. /\ state' = S /\ cproc' = [cproc EXCEPT ![c] = 0] /\ panicked' = panicked
        /\ todo' = [todo EXCEPT ![cproc[c]] = Op("resume", intena[c]) \o Tail(todo[cproc[c]])]
    <3>1. ~(lock["ptable"] # c \/ ncli[c] # 1 \/ ie[c])
      BY <1>2
    <3> QED BY <3>1 DEF sched, SavedIntena
  <2>2. Op("resume", intena[c]) \o r = s
    BY <1>4, <1>5, <1>6 DEF Op, Cons
  <2> QED BY <1>1, <1>3, <2>1, <2>2
<1>8. state'[p] \in Ready => Parked(s)
  <2>1. ASSUME S[p] \in Ready
        PROVE  Parked(s)
    <3>1. PICK i \in BOOLEAN, k \in {"start", "base"} : i = x.irq /\ k = x.kind
      BY DEF Ctx
    <3>2. y = Switched(i, k) /\ Leads(y, {"ptable"}, i, FALSE, "no", k)
      <4>1. Leads(y, {"ptable"}, i, FALSE, "no", k)
        BY <1>3, <2>1, <3>1 DEF Leaves
      <4>2. y = Switched(i, k)
        BY <4>1, SwitchedFacts
      <4> QED BY <4>1, <4>2
    <3>3. (i /\ a[2] = FALSE) \/ (~i /\ a[2] = TRUE /\ k = "base")
      BY <1>3, <1>4, <1>5, <2>1, <3>1 DEF Leaves
    <3>4. Trans(y, a, y)
      BY <1>5, <3>2, <3>3, ResumeTrans
    <3>5. Runs(s, y)
      BY <1>1, <1>6, <3>4, Push
    <3>6. s[1][1] = "resume"
      BY <1>5, <1>6
    <3> QED BY <3>1, <3>2, <3>5, <3>6 DEF Parked
  <2> QED BY <1>7, <2>1
<1>9. PICK z \in Ctx : Fits(z, todo[-c], 0, Held(c), ncli[c], ie[c], intena[c])
  <2>1. Runs(todo[-c], Switched(FALSE, "loop"))
    BY <1>1 DEF LoopFits
  <2> QED BY <1>1, <1>2, <2>1, SwitchFits
<1>10. Switch(c, 0, s)
  <2>1. \A q \in Procs : q # p => /\ state'[q] = "RUNNING" <=> state[q] = "RUNNING"
                                  /\ state'[q] \in Ready => state[q] \in Ready
    BY <1>3, <1>7 DEF Leaves
  <2>2. state'[p] # "RUNNING"
    BY <1>3, <1>7 DEF Leaves
  <2> QED BY <1>1, <1>3, <1>7, <1>8, <2>1, <2>2 DEF Switch
<1>11. SwitchInv'
  <2>1. Continued(c, 0) = -c /\ 0 \in 0..NPROC
    BY SchedulerAssumption, SMT DEF Continued
  <2> QED BY <1>6, <1>9, <1>10, <2>1, SwitchStep
<1>12. /\ todo' = [todo EXCEPT ![Thread(c)] = s] /\ Thread(c) = cproc[c]
       /\ \E b \in Ops : b[1] = "resume" /\ Range(s) = {b} \cup Range(r)
  BY <1>3, <1>5, <1>6, <1>7
<1> QED BY <1>3, <1>6, <1>7, <1>11, <1>12 DEF Left

\* The stack that sched() leaves keeps the marks of sleeping, unless it is sleep's.
LEMMA SchedKept ==
  ASSUME SwitchInv, NEW c \in CPUs, NEW o, NEW r, Range(todo[Thread(c)]) = {o} \cup Range(r),
         o[1] \notin Marked, Left(c, r)
  PROVE  TodoKept
<1>0. PICK s, a : /\ todo' = [todo EXCEPT ![Thread(c)] = s]
                  /\ a[1] = "resume" /\ Range(s) = {a} \cup Range(r)
  BY DEF Left
<1>1. PICK M : M = {a}
  OBVIOUS
<1>2. Range(s) = M \cup Range(r) /\ ~Exits(M) /\ \A e \in M : e[1] \notin {"sleep", "sys_sleep"}
  BY <1>0, <1>1 DEF Exits
<1> QED BY <1>0, <1>2, LocalKept

LEMMA YieldStep ==
  ASSUME SwitchInv, NEW c \in CPUs, Yield(c)
  PROVE  /\ SwitchInv' /\ TodoKept /\ cproc[c] \in Procs
         /\ state' = [state EXCEPT ![cproc[c]] = "RUNNABLE"]
<1>1. PICK x \in Ctx, y \in Ctx, o \in Ops, r \in Stacks : Frame(c, x, y, o, r)
  BY AtOp DEF Yield, At
<1>2. o[1] = "yield"
  BY <1>1 DEF Yield, At, Frame
<1>3. /\ x.held = {"ptable"} /\ x.irq /\ x.irq = TRUE /\ x.kind \in {"start", "base"}
      /\ Leads(y, {"ptable"}, x.irq, FALSE, "no", x.kind)
  BY <1>1, <1>2 DEF Frame, Trans, Ctx, Leads
<1>4. CpuOK /\ DataOK /\ OnCpu /\ cproc[c] # 0 /\ Range(todo[Thread(c)]) = {o} \cup Range(r)
  BY <1>1, <1>3 DEF Frame, SwitchInv
<1>5. PICK p \in Procs : p = cproc[c]
  BY <1>4, ThreadFacts
<1>6. PICK S : S = [state EXCEPT ![p] = "RUNNABLE"] /\ sched(c, S)
  BY <1>5 DEF Yield
<1>7. /\ chan' = chan /\ killed' = killed /\ clock' = clock
      /\ ncli' = ncli /\ ie' = ie /\ intena' = intena /\ lock' = lock
  BY DEF Yield
<1>8. DataOK'
  <2>1. state' = S \/ state' = state
    BY <1>6 DEF sched, Panic
  <2>2. state' \in [Procs -> {"UNUSED", "SLEEPING", "RUNNABLE", "RUNNING", "ZOMBIE"}]
    BY <1>4, <1>6, <2>1 DEF DataOK
  <2> QED BY <1>4, <1>7, <2>2 DEF DataOK, clock
<1>9. Leaves(c, S, x, y)
  BY <1>3, <1>4, <1>5, <1>6 DEF Leaves, DataOK
<1>10. SwitchInv' /\ state' = S /\ Left(c, r)
  <2>1. o[1] # "resume" /\ sched(c, S)
    BY <1>2, <1>6
  <2> QED BY <1>1, <1>3, <1>7, <1>8, <1>9, <2>1, SchedStep
<1>11. TodoKept
  <2>1. o[1] \notin Marked
    BY <1>2 DEF Marked
  <2> QED BY <1>4, <1>10, <2>1, SchedKept
<1> QED BY <1>5, <1>6, <1>10, <1>11

\* sleep() after it has given up the lock of its caller.
LEMMA SleepStep ==
  ASSUME SwitchInv, NEW c \in CPUs, Sleep(c)
  PROVE  /\ SwitchInv' /\ cproc[c] \in Procs /\ state[cproc[c]] = "RUNNING"
         /\ state' = [state EXCEPT ![cproc[c]] = "SLEEPING"]
         /\ chan' = [chan EXCEPT ![cproc[c]] = Arg(c)] /\ Has(Range(todo[cproc[c]]), "sleep", Arg(c))
         /\ \E o \in Ops, r \in Stacks : /\ o[1] = "sleep" /\ Left(c, r)
                                         /\ Range(todo[cproc[c]]) = {o} \cup Range(r)
<1>1. PICK x \in Ctx, y \in Ctx, o \in Ops, r \in Stacks : Frame(c, x, y, o, r)
  BY AtOp DEF Sleep, At
<1>2. o[1] = "sleep" /\ Arg(c) = o[2]
  BY <1>1 DEF Sleep, At, Frame, Arg
<1>3. /\ x.held = {"ptable"} /\ x.kind \in {"start", "base"} /\ x.kind = "base" /\ x.irq = FALSE
      /\ Leads(y, {"ptable"}, x.irq, FALSE, "no", x.kind) /\ o[2] \in {"ticks", "child"}
  BY <1>1, <1>2 DEF Frame, Trans, Ctx, Leads
<1>4. CpuOK /\ DataOK /\ OnCpu /\ cproc[c] # 0 /\ Range(todo[Thread(c)]) = {o} \cup Range(r)
  BY <1>1, <1>3 DEF Frame, SwitchInv
<1>5. PICK p \in Procs : p = cproc[c] /\ Thread(c) = p /\ state[p] = "RUNNING"
  BY <1>4, ThreadFacts, SMT DEF OnCpu
<1>6. PICK S : S = [state EXCEPT ![p] = "SLEEPING"] /\ sched(c, S)
  BY <1>5 DEF Sleep
<1>7. /\ chan' = [chan EXCEPT ![p] = o[2]] /\ killed' = killed /\ clock' = clock
      /\ ncli' = ncli /\ ie' = ie /\ intena' = intena /\ lock' = lock
  BY <1>2, <1>5 DEF Sleep
<1>8. DataOK'
  <2>1. state' = S \/ state' = state
    BY <1>6 DEF sched, Panic
  <2>2. state' \in [Procs -> {"UNUSED", "SLEEPING", "RUNNABLE", "RUNNING", "ZOMBIE"}]
    BY <1>4, <1>6, <2>1 DEF DataOK
  <2>3. chan' \in [Procs -> {"none", "ticks", "child"}]
    BY <1>3, <1>4, <1>7 DEF DataOK
  <2> QED BY <1>4, <1>7, <2>2, <2>3 DEF DataOK, clock
<1>9. Leaves(c, S, x, y)
  <2>1. S[p] = "SLEEPING" /\ S = [state EXCEPT ![cproc[c]] = "SLEEPING"]
    BY <1>4, <1>5, <1>6 DEF DataOK
  <2>2. S[cproc[c]] # "RUNNING"
    BY <1>5, <2>1
  <2>3. \A q \in Procs : q # cproc[c] => S[q] = state[q]
    BY <1>4, <2>1 DEF DataOK
  <2> QED BY <1>3, <2>2, <2>3 DEF Leaves
<1>10. SwitchInv' /\ state' = S /\ Left(c, r)
  <2>1. o[1] # "resume" /\ sched(c, S)
    BY <1>2, <1>6
  <2> QED BY <1>1, <1>3, <1>7, <1>8, <1>9, <2>1, SchedStep
<1>11. Has(Range(todo[p]), "sleep", Arg(c))
  BY <1>2, <1>4, <1>5 DEF Has
<1> QED BY <1>2, <1>4, <1>5, <1>6, <1>7, <1>10, <1>11

\* exit() at its sched(), with ptable.lock.
LEMMA ExitStep ==
  ASSUME SwitchInv, NEW c \in CPUs, Exit(c)
  PROVE  /\ SwitchInv' /\ TodoKept /\ cproc[c] \in Procs /\ "ptable" \in Held(c)
         /\ Exits(Range(todo[cproc[c]]))
         /\ state' = [Woken("child") EXCEPT ![cproc[c]] = "ZOMBIE"]
<1>1. PICK x \in Ctx, y \in Ctx, o \in Ops, r \in Stacks : Frame(c, x, y, o, r)
  BY AtOp DEF Exit, At
<1>2. o[1] = "exit"
  BY <1>1 DEF Exit, At, Frame
<1>3. x.held = {"ptable"} /\ x.kind \in {"start", "base"}
  BY <1>1, <1>2 DEF Frame, Trans
<1>4. /\ CpuOK /\ DataOK /\ OnCpu /\ cproc[c] # 0 /\ Range(todo[Thread(c)]) = {o} \cup Range(r)
      /\ "ptable" \in Held(c)
  BY <1>1, <1>3 DEF Frame, SwitchInv
<1>5. PICK p \in Procs : p = cproc[c] /\ Thread(c) = p
  BY <1>4, ThreadFacts
<1>6. PICK S : S = [Woken("child") EXCEPT ![p] = "ZOMBIE"] /\ sched(c, S)
  BY <1>5 DEF Exit
<1>7. /\ chan' = chan /\ killed' = killed /\ clock' = clock
      /\ ncli' = ncli /\ ie' = ie /\ intena' = intena /\ lock' = lock
  BY DEF Exit
<1>8. PICK w : w = Woken("child")
  OBVIOUS
<1>9. /\ w \in [Procs -> {"UNUSED", "SLEEPING", "RUNNABLE", "RUNNING", "ZOMBIE"}]
      /\ \A q \in Procs : /\ w[q] = "RUNNING" <=> state[q] = "RUNNING"
                          /\ w[q] \in Ready => state[q] \in Ready
  BY <1>4, <1>5, <1>8, WokenFacts
<1>10. /\ S \in [Procs -> {"UNUSED", "SLEEPING", "RUNNABLE", "RUNNING", "ZOMBIE"}]
       /\ S[p] = "ZOMBIE" /\ \A q \in Procs : q # p => S[q] = w[q]
  BY <1>6, <1>8, <1>9
<1>11. DataOK'
  <2>1. state' = S \/ state' = state
    BY <1>6 DEF sched, Panic
  <2>2. state' \in [Procs -> {"UNUSED", "SLEEPING", "RUNNABLE", "RUNNING", "ZOMBIE"}]
    BY <1>4, <1>10, <2>1 DEF DataOK
  <2> QED BY <1>4, <1>7, <2>2 DEF DataOK, clock
<1>12. Leaves(c, S, x, y)
  BY <1>5, <1>9, <1>10 DEF Leaves, Ready
<1>13. SwitchInv' /\ state' = S /\ Left(c, r)
  <2>1. o[1] # "resume" /\ sched(c, S)
    BY <1>2, <1>6
  <2> QED BY <1>1, <1>3, <1>7, <1>11, <1>12, <2>1, SchedStep
<1>14. TodoKept
  <2>1. o[1] \notin Marked
    BY <1>2 DEF Marked
  <2> QED BY <1>4, <1>13, <2>1, SchedKept
<1>15. Exits(Range(todo[p]))
  BY <1>2, <1>4, <1>5 DEF Exits
<1> QED BY <1>4, <1>5, <1>6, <1>13, <1>14, <1>15

-----------------------------------------------------------------------------
(* wait() and scheduler(), which take the first of some processes *)

\* Proved below, from the library on finite sets, which the steps do without.
FirstIn == \A S \in SUBSET Procs : S # {} => Min(S) \in S

Kids == {q \in Procs \ {initproc} : state[q] # "UNUSED"}
Zombies == {q \in Kids : state[q] = "ZOMBIE"}

\* wait() frees at most a slot of a zombie.
Reaped ==
  /\ \A q \in Procs : \/ state'[q] = state[q] /\ killed'[q] = killed[q]
                      \/ q # initproc /\ state[q] = "ZOMBIE" /\ state'[q] = "UNUSED"
  /\ chan' = chan /\ clock' = clock

LEMMA WaitData ==
  ASSUME FirstIn, SwitchInv, NEW c \in CPUs, wait(c)
  PROVE  DataOK' /\ StateKept /\ Reaped
<1>1. /\ state' = [q \in Procs |-> IF Zombies # {} /\ q = Min(Zombies) THEN "UNUSED" ELSE state[q]]
      /\ killed' = [q \in Procs |-> IF Zombies # {} /\ q = Min(Zombies) THEN FALSE ELSE killed[q]]
      /\ chan' = chan /\ clock' = clock
  BY DEF wait, Zombies, Kids
<1>2. DataOK /\ (Zombies # {} => Min(Zombies) \in Zombies)
  <2>1. Zombies \in SUBSET Procs
    BY DEF Zombies, Kids
  <2> QED BY <2>1 DEF SwitchInv, FirstIn
<1>3. PICK m : m = Min(Zombies)
  OBVIOUS
<1>4. /\ state' = [q \in Procs |-> IF Zombies # {} /\ q = m THEN "UNUSED" ELSE state[q]]
      /\ killed' = [q \in Procs |-> IF Zombies # {} /\ q = m THEN FALSE ELSE killed[q]]
      /\ Zombies # {} => state[m] = "ZOMBIE" /\ m # initproc
  BY <1>1, <1>2, <1>3 DEF Zombies, Kids
<1>5. killed' \in [Procs -> BOOLEAN]
  BY <1>2, <1>4 DEF DataOK
<1>6. /\ state' \in [Procs -> {"UNUSED", "SLEEPING", "RUNNABLE", "RUNNING", "ZOMBIE"}]
      /\ StateKept
  BY <1>2, <1>4 DEF DataOK, StateKept, Ready
<1>7. Reaped
  <2>1. ASSUME NEW q \in Procs
        PROVE  \/ state'[q] = state[q] /\ killed'[q] = killed[q]
               \/ q # initproc /\ state[q] = "ZOMBIE" /\ state'[q] = "UNUSED"
    <3>1. CASE Zombies # {} /\ q = m
      BY <1>4, <3>1
    <3>2. CASE ~(Zombies # {} /\ q = m)
      BY <1>4, <3>2
    <3> QED BY <3>1, <3>2
  <2> QED BY <1>1, <2>1 DEF Reaped
<1> QED BY <1>1, <1>2, <1>5, <1>6, <1>7 DEF DataOK, clock

LEMMA WaitStep ==
  ASSUME FirstIn, SwitchInv, NEW c \in CPUs, wait(c)
  PROVE  /\ SwitchInv' /\ Reaped /\ cproc[c] \in Procs
         /\ \/ TodoKept
            \/ /\ Zombies = {} /\ Kids # {}
               /\ \E r \in Stacks, s \in Stacks, o \in Ops, M \in SUBSET Ops :
                    /\ o[1] = "wait" /\ Range(todo[cproc[c]]) = {o} \cup Range(r)
                    /\ todo' = [todo EXCEPT ![cproc[c]] = s] /\ Range(s) = M \cup Range(r)
                    /\ \A e \in M : e[1] = "wait" \/ (e[1] = "sleep" /\ e[2] = "child")
<1>1. PICK x \in Ctx, y \in Ctx, o \in Ops, r \in Stacks : Frame(c, x, y, o, r)
  BY AtOp DEF wait, At
<1>2. o[1] = "wait"
  BY <1>1 DEF wait, At, Frame
<1>3. /\ x.held = {"ptable"} /\ ~x.irq /\ x.irq = FALSE /\ x.kind = "base" /\ Plain(x)
      /\ Leads(y, {}, FALSE, FALSE, "no", "base")
  BY <1>1, <1>2 DEF Frame, Trans, Plain, Ctx
<1>4. PICK p \in Procs : p = cproc[c] /\ Thread(c) = p /\ state[p] = "RUNNING"
  <2>1. cproc[c] # 0 /\ CpuOK /\ OnCpu
    BY <1>1, <1>3 DEF Frame, SwitchInv
  <2> QED BY <2>1, ThreadFacts DEF OnCpu
<1>5. /\ CpuOK /\ Flags(x, ncli[c], ie[c]) /\ Saved(x, ncli[c], intena[c])
      /\ Runs(r, y) /\ Range(todo[p]) = {o} \cup Range(r)
  BY <1>1, <1>2, <1>4 DEF Frame, SwitchInv
<1>6. /\ IF Zombies # {} \/ Kids = {} THEN Released(c, "ptable", <<>>)
         ELSE /\ Then(c, sleep("child", "ptable") \o Op("wait", 0))
              /\ ncli' = ncli /\ ie' = ie /\ lock' = lock /\ panicked' = panicked
      /\ cproc' = cproc /\ intena' = intena
  BY DEF wait, Zombies, Kids
<1>7. DataOK' /\ StateKept /\ Reaped
  BY WaitData
<1>8. CASE Zombies # {} \/ Kids = {}
  <2>1. SwitchInv' /\ todo' = [todo EXCEPT ![Thread(c)] = r]
    <3>1. /\ y.held = x.held \ {"ptable"} /\ y.irq = x.irq /\ y.kind = x.kind
          /\ o[1] # "resume" /\ "ptable" \in x.held
      BY <1>2, <1>3 DEF Leads
    <3>2. Released(c, "ptable", <<>>) /\ cproc' = cproc /\ intena' = intena
      BY <1>6, <1>8
    <3> QED BY <1>1, <1>7, <3>1, <3>2, DoneStep, SMT
  <2>2. TodoKept
    BY <1>1, <1>2, <2>1, PoppedKept DEF Frame, Marked
  <2> QED BY <1>4, <1>7, <2>1, <2>2
<1>9. CASE Zombies = {} /\ Kids # {}
  <2>1. /\ Then(c, sleep("child", "ptable") \o Op("wait", 0))
        /\ cproc' = cproc /\ intena' = intena
        /\ ncli' = ncli /\ ie' = ie /\ lock' = lock /\ panicked' = panicked
    BY <1>6, <1>9
  <2>2. PICK z \in Ctx : Leads(z, {"ptable"}, FALSE, FALSE, "child", "base")
    BY KFacts DEF Locks
  <2>3. PICK a \in Ops : a = <<"sleep", "child">> /\ a[1] = "sleep" /\ a[2] = "child"
    <3>1. PICK w, i : w = "sleep" /\ i = "child" /\ w \in Names /\ i \in Args
      BY DEF Names, Args
    <3>2. PICK a \in Ops : a = <<w, i>> /\ a[1] = w /\ a[2] = i
      BY <3>1, OpFacts, SMT
    <3> QED BY <3>1, <3>2
  <2>4. PICK b \in Ops : b = <<"wait", 0>> /\ b[1] = "wait"
    <3>1. PICK w, i : w = "wait" /\ i = 0 /\ w \in Names /\ i \in Args
      BY DEF Names, Args
    <3>2. PICK b \in Ops : b = <<w, i>> /\ b[1] = w
      BY <3>1, OpFacts
    <3> QED BY <3>1, <3>2
  <2>5. Trans(x, b, y)
    BY <1>3, <2>4 DEF Trans, Leads, Plain
  <2>6. Trans(z, a, x)
    <3>1. Leads(x, {"ptable"}, FALSE, FALSE, "no", "base")
      BY <1>3 DEF Leads, Plain, Ctx
    <3> QED BY <2>2, <2>3, <3>1 DEF Trans, Leads
  <2>7. PICK s1, s : s1 = Cons(b, r) /\ s = Cons(a, s1)
    OBVIOUS
  <2>8. Runs(s1, x) /\ Range(s1) = {b} \cup Range(r)
    BY <1>5, <2>5, <2>7, Push
  <2>9. Runs(s, z) /\ Range(s) = {a, b} \cup Range(r) /\ s \in Stacks
    BY <2>6, <2>7, <2>8, Push, SMT
  <2>10. todo' = [todo EXCEPT ![Thread(c)] = s]
    <3>1. App(Snoc(One(a), b), r) = s
      BY <2>7, Lists, SMT
    <3>2. (sleep("child", "ptable") \o Op("wait", 0)) \o r = s
      BY <2>3, <2>4, <3>1 DEF App, Snoc, One, sleep, Op
    <3> QED BY <1>1, <2>1, <3>2 DEF Then, Frame
  <2>11. SwitchInv'
    <3>1. /\ z.held = x.held /\ z.kind # "end" /\ (z.kind = "loop" <=> x.kind = "loop")
          /\ Flags(z, ncli[c], ie[c]) /\ Saved(z, ncli[c], intena[c])
      BY <1>3, <1>5, <2>2 DEF Leads, Flags, Saved
    <3>2. PICK on \in BOOLEAN, en \in BOOLEAN :
            /\ ie' = [ie EXCEPT ![c] = on] /\ intena' = [intena EXCEPT ![c] = en]
            /\ Flags(z, ncli[c], on) /\ Saved(z, ncli[c], en)
      BY <1>5, <2>1, <3>1, SameCpu
    <3>3. Runs(s, z) /\ cproc' = cproc /\ ncli' = ncli /\ lock' = lock /\ panicked' = panicked
      BY <2>1, <2>9
    <3>4. Soft(c, x, s, z, on, en)
      BY <2>10, <3>1, <3>2, <3>3 DEF Soft
    <3> QED BY <1>1, <1>7, <3>4, SoftGo
  <2>12. PICK M \in SUBSET Ops : M = {a, b}
    OBVIOUS
  <2>13. /\ Range(s) = M \cup Range(r)
         /\ \A e \in M : e[1] = "wait" \/ (e[1] = "sleep" /\ e[2] = "child")
    BY <2>3, <2>4, <2>9, <2>12
  <2> QED BY <1>2, <1>4, <1>5, <1>7, <1>9, <2>9, <2>10, <2>11, <2>13
<1> QED BY <1>8, <1>9

\* scheduler(): the scan ends, or finds a process.
LEMMA ScanStep ==
  ASSUME FirstIn, SwitchInv, NEW c \in CPUs, Scan(c)
  PROVE  /\ SwitchInv' /\ TodoKept
         /\ \/ state' = state
            \/ \E p \in Procs : /\ state[p] = "RUNNABLE" /\ state' = [state EXCEPT ![p] = "RUNNING"]
                                /\ \A e \in Range(todo'[p]) : e[1] # "sleep"
<1>1. PICK x \in Ctx, y \in Ctx, o \in Ops, r \in Stacks : Frame(c, x, y, o, r)
  BY AtOp DEF Scan, At
<1>2. o[1] = "scan" /\ Arg(c) = o[2]
  BY <1>1 DEF Scan, At, Frame, Arg
<1>3. /\ Leads(x, {"ptable"}, FALSE, FALSE, "no", "loop") /\ o[2] \in Nat
      /\ Leads(y, {}, FALSE, FALSE, "no", "end")
  BY <1>1, <1>2 DEF Frame, Trans, Calm, Leads, Ctx
<1>4. /\ CpuOK /\ DataOK /\ OnCpu /\ ProcFits /\ cproc[c] = 0 /\ Thread(c) = -c /\ Runs(r, y)
      /\ Range(todo[Thread(c)]) = {o} \cup Range(r) /\ Tail(todo[Thread(c)]) = r
      /\ Held(c) = {"ptable"} /\ Flags(x, ncli[c], ie[c]) /\ ncli[c] = Count(x.held)
  BY <1>1, <1>3 DEF Frame, SwitchInv, Leads, Thread
<1>5. ncli[c] = 1 /\ ie[c] = FALSE /\ x.held = {"ptable"}
  <2>1. ncli[c] = 1 /\ x.held = {"ptable"}
    BY <1>3, <1>4, CountFacts DEF Leads, Locks
  <2> QED BY <1>4, <2>1, SameCpu, SMT DEF Flags
<1>6. PICK found \in SUBSET Procs : found = {p \in Procs : p >= Arg(c) /\ state[p] = "RUNNABLE"}
  OBVIOUS
<1>7. PICK p : p = Min(found) /\ (found # {} => p \in Procs /\ state[p] = "RUNNABLE")
  BY <1>6 DEF FirstIn
<1>8. /\ IF found = {}
         THEN Released(c, "ptable", Op("loop", 0)) /\ state' = state /\ cproc' = cproc
         ELSE /\ cproc' = [cproc EXCEPT ![c] = p] /\ state' = [state EXCEPT ![p] = "RUNNING"]
              /\ Then(c, Op("scan", p + 1))
              /\ ncli' = ncli /\ ie' = ie /\ lock' = lock /\ panicked' = panicked
      /\ chan' = chan /\ killed' = killed /\ intena' = intena /\ clock' = clock
  BY <1>6, <1>7 DEF Scan, Chosen
<1>9. CASE found = {}
  <2>1. /\ Released(c, "ptable", Op("loop", 0)) /\ cproc' = cproc /\ intena' = intena
        /\ state' = state /\ proc' = proc /\ <<ticks, ticks0, n>>' = <<ticks, ticks0, n>>
    BY <1>8, <1>9 DEF proc, clock
  <2>2. DataOK' /\ StateKept
    BY <1>4, <2>1, SameData
  <2>3. SwitchInv' /\ TodoKept
    BY <1>1, <1>2, <1>3, <2>1, <2>2, ScanEnds
  <2> QED BY <2>1, <2>3
<1>10. CASE found # {}
  <2>1. /\ cproc' = [cproc EXCEPT ![c] = p] /\ state' = [state EXCEPT ![p] = "RUNNING"]
        /\ Then(c, Op("scan", p + 1)) /\ p \in Procs /\ state[p] = "RUNNABLE"
        /\ ncli' = ncli /\ ie' = ie /\ lock' = lock /\ panicked' = panicked
        /\ chan' = chan /\ killed' = killed /\ intena' = intena /\ clock' = clock
    BY <1>7, <1>8, <1>10
  <2>2. p \in 1..NPROC /\ p \in 0..NPROC /\ p # 0 /\ p + 1 \in Nat /\ p # -c /\ p \in Threads
    BY <2>1, SchedulerAssumption, SMT DEF Procs, CPUs, Threads
  <2>3. PICK a \in Ops : a = <<"scan", p + 1>> /\ a[1] = "scan" /\ a[2] \in Nat
    <3>1. PICK w, i : w = "scan" /\ i = p + 1 /\ w \in Names /\ i \in Args /\ i \in Nat
      BY <2>2 DEF Names, Args
    <3>2. PICK a \in Ops : a = <<w, i>> /\ a[1] = w /\ a[2] = i
      BY <3>1, OpFacts, SMT
    <3> QED BY <3>1, <3>2
  <2>4. PICK s : s = Cons(a, r)
    OBVIOUS
  <2>5. PICK z \in Ctx : z = Switched(FALSE, "loop") /\ Leads(z, {"ptable"}, FALSE, FALSE, "no", "loop")
    BY SwitchedFacts
  <2>6. Trans(z, a, y)
    BY <1>3, <2>3, <2>5 DEF Trans, Leads, Calm
  <2>7. Runs(s, z) /\ Range(s) = {a} \cup Range(r) /\ s \in Stacks
    BY <1>4, <2>4, <2>6, Push
  <2>8. todo' = [todo EXCEPT ![Thread(c)] = s]
    <3>1. Op("scan", p + 1) \o r = s
      BY <2>3, <2>4 DEF Op, Cons
    <3> QED BY <1>4, <2>1, <3>1 DEF Then
  <2>9. DataOK'
    BY <1>4, <2>1 DEF DataOK, clock
  <2>10. Parked(todo[p])
    BY <1>4, <2>1 DEF ProcFits, Ready
  <2>11. PICK i \in BOOLEAN, k \in {"start", "base"} :
           /\ Runs(todo[p], Switched(i, k))
           /\ todo[p][1][1] = "resume" \/ (i = FALSE /\ k = "start")
    BY <2>10, ParkedFacts
  <2>12. PICK z1 \in Ctx : Fits(z1, todo[p], p, Held(c), ncli[c], ie[c], intena[c])
    BY <1>4, <1>5, <2>2, <2>11, SwitchFits
  <2>13. Switch(c, p, s)
    <3>1. \A q \in Procs : q # p => state'[q] = state[q]
      BY <1>4, <2>1 DEF DataOK
    <3>2. state[p] # "RUNNING" /\ state'[p] = "RUNNING"
      BY <1>4, <2>1 DEF DataOK
    <3> QED BY <1>4, <2>1, <2>2, <2>5, <2>7, <2>8, <3>1, <3>2 DEF Switch
  <2>14. Continued(c, p) = p
    BY <2>2 DEF Continued
  <2>15. SwitchInv'
    BY <2>2, <2>7, <2>9, <2>12, <2>13, <2>14, SwitchStep
  <2>16. TodoKept
    <3>1. PICK M : M = {a}
      OBVIOUS
    <3>2. Range(s) = M \cup Range(r) /\ ~Exits(M) /\ \A e \in M : e[1] \notin {"sleep", "sys_sleep"}
      BY <2>3, <2>7, <3>1 DEF Exits
    <3>3. o[1] \notin Marked /\ Range(todo[Thread(c)]) = {o} \cup Range(r)
      BY <1>2, <1>4 DEF Marked
    <3> QED BY <2>8, <3>2, <3>3, LocalKept
  <2>17. \A e \in Range(todo'[p]) : e[1] # "sleep"
    <3>1. todo'[p] = todo[p]
      BY <1>4, <2>2, <2>8 DEF CpuOK
    <3> QED BY <2>10, <3>1, ParkedFacts
  <2> QED BY <2>1, <2>15, <2>16, <2>17
<1> QED BY <1>9, <1>10

-----------------------------------------------------------------------------
(* The invariant of switching *)

LEMMA InitSwitch == Init => SwitchInv
<1> SUFFICES ASSUME Init PROVE SwitchInv
  OBVIOUS
<1>1. PICK e1 \in Ctx, e2 \in Ctx, e3 \in Ctx, e4 \in Ctx, e5 \in Ctx :
        /\ e1 = Switched(FALSE, "start") /\ Leads(e1, {"ptable"}, FALSE, FALSE, "no", "start")
        /\ Leads(e2, {}, FALSE, FALSE, "no", "start") /\ Leads(e3, {}, FALSE, FALSE, "no", "base")
        /\ Leads(e4, {}, FALSE, FALSE, "no", "end") /\ Leads(e5, {}, FALSE, FALSE, "no", "loop")
  BY SwitchedFacts, KFacts DEF Locks
<1>2. PICK a \in Ops, b \in Ops, d \in Ops, e \in Ops :
        /\ a = <<"release", "ptable">> /\ b = <<"trapret", "kernel">> /\ d = <<"user", 0>>
        /\ e = <<"loop", 0>>
  BY OpFacts DEF Names, Args
<1>3. Trans(e1, a, e2) /\ Trans(e2, b, e3) /\ Trans(e3, d, e4) /\ Trans(e5, e, e4)
  <2>1. Trans(e1, a, e2)
    BY <1>1, <1>2 DEF Trans, Leads
  <2>2. Trans(e2, b, e3)
    BY <1>1, <1>2 DEF Trans, Leads, Calm
  <2>3. Trans(e3, d, e4)
    BY <1>1, <1>2 DEF Trans, Leads, Plain
  <2>4. Trans(e5, e, e4)
    BY <1>1, <1>2 DEF Trans, Leads, Calm
  <2> QED BY <2>1, <2>2, <2>3, <2>4
<1>4. PICK q \in Stacks : q = <<>> /\ Runs(q, e4)
  <2>1. <<>> \in Stacks
    BY SMT DEF Stacks
  <2>2. Done(e4)
    BY <1>1 DEF Done, Calm, Leads
  <2>3. Runs(<<>>, e4)
    BY <2>2, RunsNothing
  <2> QED BY <2>1, <2>3
<1>5. PICK s1, s2, s, v : s1 = Cons(d, q) /\ s2 = Cons(b, s1) /\ s = Cons(a, s2) /\ v = Cons(e, q)
  OBVIOUS
<1>6. Runs(s1, e3)
  BY <1>3, <1>4, <1>5, Push
<1>7. Runs(s2, e2)
  BY <1>3, <1>5, <1>6, Push
<1>8. Runs(s, e1) /\ s \in Stacks /\ s[1][1] = "release"
  <2>1. s[1] = a
    BY <1>5, <1>7, ConsFacts DEF Runs
  <2> QED BY <1>2, <1>3, <1>5, <1>7, <2>1, Push, SMT
<1>9. Runs(v, e5) /\ v \in Stacks
  BY <1>3, <1>4, <1>5, Push
<1>10. release("ptable") \o Op("trapret", "kernel") \o user = s /\ Op("loop", 0) = v
  <2>1. \A t \in Ops : One(t) \in Stacks /\ App(One(t), q) = One(t)
    BY <1>4, SMT DEF One, App, Stacks
  <2>2. App(Snoc(Snoc(One(a), b), d), q) = s
    BY <1>5, Lists, SMT
  <2>3. Snoc(Snoc(One(a), b), d) \in Stacks
    BY <2>1, AppFacts
  <2>4. App(Snoc(Snoc(One(a), b), d), q) = Snoc(Snoc(One(a), b), d)
    BY <1>4, <2>3, SMT DEF App, Stacks
  <2>5. release("ptable") \o Op("trapret", "kernel") \o user = s
    BY <1>2, <2>2, <2>4 DEF Snoc, One, release, Op, user
  <2>6. One(e) = v
    BY <1>4, <1>5, <2>1, AppFacts, SMT
  <2> QED BY <1>2, <2>5, <2>6 DEF One, Op
<1>11. /\ todo \in [Threads -> Stacks]
       /\ \A p \in Procs : todo[p] = s /\ p \in Threads
       /\ \A c \in CPUs : todo[-c] = v /\ -c \in Threads
  <2>1. todo = [t \in Threads |-> IF t < 0 THEN v ELSE s]
    BY <1>10 DEF Init
  <2>2. \A p \in Procs : p \in Threads /\ ~(p < 0)
    BY SchedulerAssumption, SMT DEF Procs, Threads
  <2>3. \A c \in CPUs : -c \in Threads /\ -c < 0
    BY SchedulerAssumption, SMT DEF CPUs, Threads
  <2> QED BY <1>8, <1>9, <2>1, <2>2, <2>3
<1>12. DataOK
  BY SchedulerAssumption, SMT DEF Init, DataOK
<1>13. /\ cproc = [c \in CPUs |-> 0] /\ ncli = [c \in CPUs |-> 0] /\ intena = [c \in CPUs |-> FALSE]
       /\ ie = [c \in CPUs |-> FALSE] /\ lock = [l \in Locks |-> NoCPU] /\ panicked = FALSE
  BY DEF Init, Locks
<1>14. CpuOK
  BY <1>11, <1>13, SchedulerAssumption, SMT DEF CpuOK, NoCPU
<1>15. OnCpu /\ LoopFits
  BY <1>13 DEF OnCpu, LoopFits, Init
<1>16. ProcFits
  BY <1>1, <1>8, <1>11 DEF ProcFits, Parked
<1>17. CpuFits
  <2>1. ASSUME NEW c \in CPUs
        PROVE  \E x \in Ctx : Fits(x, todo[Thread(c)], cproc[c], Held(c), ncli[c], ie[c], intena[c])
    <3>1. Held(c) = {} /\ Thread(c) = -c
      BY <1>13, <1>14, HeldFacts DEF Thread
    <3>2. Count(Held(c)) = 0
      BY <3>1, CountFacts
    <3>3. /\ e5.kind # "end" /\ (cproc[c] = 0 <=> e5.kind = "loop") /\ Held(c) = e5.held
          /\ Flags(e5, ncli[c], ie[c]) /\ Saved(e5, ncli[c], intena[c]) /\ ncli[c] = 0
      BY <1>1, <1>13, <3>1 DEF Leads, Flags, Saved
    <3>4. Runs(todo[Thread(c)], e5)
      BY <1>9, <1>11, <3>1
    <3> QED BY <3>2, <3>3, <3>4, NewFits
  <2> QED BY <2>1 DEF CpuFits
<1> QED BY <1>12, <1>14, <1>15, <1>16, <1>17 DEF SwitchInv

LEMMA PendingIn ==
  ASSUME CpuOK, NEW t \in Threads, NEW a
  PROVE  Pending(t, a) <=> \E o \in Range(todo[t]) : o[1] = a
<1>1. todo[t] \in Stacks
  BY DEF CpuOK
<1> QED BY <1>1 DEF Pending, Range
=============================================================================
