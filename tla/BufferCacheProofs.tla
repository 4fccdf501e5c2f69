-------------------------- MODULE BufferCacheProofs --------------------------
(***************************************************************************)
(* The buffer cache for any number of buffers, processes, blocks and read  *)
(* errors: it stays consistent, serves its disk queue, and implements a    *)
(* store that hands out each block to one process at a time.               *)
(***************************************************************************)
EXTENDS BufferCache, FiniteSetTheorems, WellFoundedInduction, TLAPS

Labels == {"idle", "lock", "wait", "use", "iderw", "io", "test", "unref"}
HoldsLock == {"use", "iderw", "io", "test"}
BufRec == [blockno : Blocks \cup {None}, valid : BOOLEAN, dirty : BOOLEAN,
           refcnt : 0..Cardinality(Ptrs), data : Vals, owner : Ptrs \cup {None}]
Users(m, b) == {p \in Ptrs : m[p] = b}

Types ==
  /\ CacheTypeOK
  /\ lru \in Seq(Bufs) /\ idequeue \in Seq(Bufs)
  /\ pc \in [Ptrs -> Labels]

\* A block has one buffer, counted by those who use it.
Names ==
  /\ \A a, b \in Bufs : buf[a].blockno = buf[b].blockno /\ buf[a].blockno # None => a = b
  /\ \A b \in Bufs : buf[b].refcnt = Cardinality(Users(mine, b))
  /\ \A p \in Ptrs : /\ mine[p] = 0 <=> pc[p] = "idle"
                     /\ mine[p] # 0 => buf[mine[p]].blockno # None

\* The sleep lock of a buffer is held through the pointer its owner field names.
Locks ==
  /\ \A p \in Ptrs : pc[p] \in HoldsLock => buf[mine[p]].owner = p
  /\ \A b \in Bufs : \A p \in Ptrs : buf[b].owner = p => mine[p] = b /\ pc[p] \in HoldsLock
  /\ \A p \in Ptrs : pc[p] = "wait" => buf[mine[p]].owner # None

\* What the flags of a buffer tell its holder.
Flags ==
  /\ \A b \in Bufs : buf[b].dirty => buf[b].valid
  /\ \A p \in Ptrs :
       /\ pc[p] = "use" => buf[mine[p]].valid
       /\ pc[p] = "iderw" => ~buf[mine[p]].valid \/ buf[mine[p]].dirty
       /\ pc[p] = "io" => mine[p] \in Range(idequeue)
       /\ pc[p] = "test" =>
            mine[p] \in Range(idequeue) \/ (buf[mine[p]].valid /\ ~buf[mine[p]].dirty)

\* What is queued is served, and a clean buffer is what the disk holds.
Served ==
  /\ DiskServesQueue
  /\ \A b \in Range(idequeue) : ~buf[b].valid \/ buf[b].dirty

Clean ==
  \A b \in Bufs : buf[b].valid /\ ~buf[b].dirty /\ buf[b].blockno # None =>
    buf[b].data = disk[buf[b].blockno] \/ faults > 0

IInv == Types /\ Names /\ Locks /\ Flags /\ Served /\ Clean /\ PanicOnlyWhenFull

-----------------------------------------------------------------------------
(* Sets, lists and counts *)

LEMMA Constants ==
  /\ NBUF \in Nat \ {0} /\ MaxFaults \in Nat /\ IsFiniteSet(Ptrs) /\ Vals # {}
  /\ (\A p \in Ptrs : p[1] \in Procs)
  /\ None \notin Procs /\ None \notin Ptrs /\ None \notin Blocks /\ 0 \notin Bufs
<1>1. 0 \notin Bufs
  BY CacheAssumption DEF Bufs
<1> QED BY <1>1, CacheAssumption, Zenon

(* bget's backward scan: a set of places has a last one. *)
LEMMA MaxIn ==
  ASSUME NEW S \in SUBSET Bufs, S # {}
  PROVE  Max(S) \in S
<1> DEFINE T == {n \in Nat : \E s \in S : s + n = NBUF}
<1>1. NBUF \in Nat /\ S \subseteq 1..NBUF
  BY Constants, Zenon DEF Bufs
<1>2. T \subseteq Nat /\ T # {}
  <2>1. PICK s \in S : TRUE
    BY Zenon
  <2>2. NBUF - s \in Nat /\ s + (NBUF - s) = NBUF
    BY <1>1
  <2>3. NBUF - s \in T
    BY <2>2, Zenon
  <2> QED BY <2>3, Zenon
<1>3. IsWellFoundedOn(OpToRel(<, Nat), Nat)
  BY NatLessThanWellFounded, Zenon
<1>4. PICK n \in T : \A m \in T : ~(<<m, n>> \in OpToRel(<, Nat))
  BY <1>2, <1>3, WFMin, Zenon
<1>5. PICK x \in S : x + n = NBUF
  BY Zenon
<1>6. ASSUME NEW y \in S
      PROVE  y <= x
  <2>1. NBUF - y \in T
    <3>1. NBUF - y \in Nat /\ y + (NBUF - y) = NBUF
      BY <1>1
    <3> QED BY <3>1, Zenon
  <2>2. ~(<<NBUF - y, n>> \in {ss \in Nat \X Nat : ss[1] < ss[2]})
    BY <1>4, <2>1, Zenon DEF OpToRel
  <2>3. ~(NBUF - y < n)
    BY <1>2, <2>1, <2>2, Zenon
  <2> QED BY <1>1, <1>5, <2>3
<1> QED BY <1>6, Zenon DEF Max

(* Moving a buffer to the front of the list keeps every buffer in it. *)
LEMMA MovedToFacts ==
  ASSUME lru \in Seq(Bufs), Len(lru) = NBUF, Range(lru) = Bufs, NEW b \in Bufs
  PROVE  MovedTo(b) \in Seq(Bufs) /\ Len(MovedTo(b)) = NBUF /\ Range(MovedTo(b)) = Bufs
<1> DEFINE i == CHOOSE i \in Bufs : lru[i] = b
<1>1. DOMAIN lru = Bufs /\ NBUF \in Nat
  BY Constants DEF Bufs
<1>2. \E x \in Bufs : lru[x] = b
  BY <1>1, ZenonT(30) DEF Range
<1>3. i \in Bufs /\ lru[i] = b
  BY <1>2, Zenon
<1> HIDE DEF i
<1>4. i \in 1..NBUF
  BY <1>3, Zenon DEF Bufs
<1> DEFINE front == SubSeq(lru, 1, i - 1)
           back == SubSeq(lru, i + 1, NBUF)
           t == front \o back
<1>5. /\ front \in Seq(Bufs) /\ Len(front) = i - 1
      /\ \A j \in 1..(i - 1) : front[j] = lru[j]
  BY <1>1, <1>4
<1>6. /\ back \in Seq(Bufs) /\ Len(back) = NBUF - i
      /\ \A j \in 1..(NBUF - i) : back[j] = lru[j + i]
  BY <1>1, <1>4
<1> HIDE DEF front, back
<1>7. /\ t \in Seq(Bufs) /\ Len(t) = NBUF - 1
      /\ \A j \in 1..(i - 1) : t[j] = front[j]
      /\ \A j \in 1..(NBUF - i) : t[(i - 1) + j] = back[j]
  <2>1. t \in Seq(Bufs) /\ Len(t) = Len(front) + Len(back)
    BY <1>5, <1>6
  <2>2. /\ \A j \in 1..Len(front) : t[j] = front[j]
        /\ \A j \in 1..Len(back) : t[Len(front) + j] = back[j]
    BY <1>5, <1>6
  <2> HIDE DEF t
  <2>3. Len(t) = NBUF - 1
    BY <1>1, <1>4, <1>5, <1>6, <2>1
  <2> QED BY <1>5, <1>6, <2>1, <2>2, <2>3, Zenon
<1> HIDE DEF t
<1> DEFINE m == <<b>> \o t
<1>8. MovedTo(b) = m
  BY Zenon DEF MovedTo, i, t, front, back
<1>9. /\ m \in Seq(Bufs) /\ Len(m) = NBUF /\ m[1] = b
      /\ \A j \in 1..(NBUF - 1) : m[j + 1] = t[j]
  BY <1>1, <1>7
<1> HIDE DEF m
<1>10. ASSUME NEW x \in Bufs
       PROVE  \E j \in 1..NBUF : m[j] = x
  <2>1. PICK j \in 1..NBUF : lru[j] = x
    BY <1>1, ZenonT(30) DEF Range, Bufs
  <2>2. CASE j = i
    BY <1>1, <1>3, <1>4, <1>9, <2>1, <2>2
  <2>3. CASE j < i
    <3>1. j \in 1..(i - 1) /\ j \in 1..(NBUF - 1) /\ j + 1 \in 1..NBUF
      BY <1>1, <1>4, <2>3
    <3>2. m[j + 1] = x
      BY <1>5, <1>7, <1>9, <2>1, <3>1, Zenon
    <3> QED BY <3>1, <3>2, Zenon
  <2>4. CASE j > i
    <3>1. PICK n \in 1..(NBUF - i) : j = n + i
      <4>1. j - i \in 1..(NBUF - i) /\ j = (j - i) + i
        BY <1>1, <1>4, <2>4
      <4> QED BY <4>1, Zenon
    <3>2. (i - 1) + n \in 1..(NBUF - 1) /\ ((i - 1) + n) + 1 = j
      BY <1>1, <1>4, <3>1
    <3>3. t[(i - 1) + n] = lru[j]
      BY <1>6, <1>7, <3>1, Zenon
    <3>4. m[j] = x
      BY <1>9, <2>1, <3>2, <3>3, Zenon
    <3> QED BY <3>4, Zenon
  <2> QED BY <1>1, <1>4, <2>2, <2>3, <2>4
<1>11. Range(m) = Bufs
  <2>1. DOMAIN m = 1..NBUF
    BY <1>9
  <2>2. \A j \in 1..NBUF : m[j] \in Bufs
    BY <1>9, <2>1
  <2>3. Range(m) = {m[j] : j \in 1..NBUF}
    BY <2>1, Zenon DEF Range
  <2>4. Bufs \subseteq {m[j] : j \in 1..NBUF}
    BY <1>10, Zenon
  <2> QED BY <2>2, <2>3, <2>4, Zenon
<1> QED BY <1>8, <1>9, <1>11, Zenon

LEMMA SetOfSeq ==
  ASSUME NEW S, NEW q \in Seq(S)
  PROVE  Range(q) = {q[i] : i \in 1..Len(q)} /\ Range(q) \subseteq S
<1>1. DOMAIN q = 1..Len(q)
  OBVIOUS
<1>2. \A i \in 1..Len(q) : q[i] \in S
  OBVIOUS
<1> QED BY <1>1, <1>2, Zenon DEF Range

LEMMA Injectivity ==
  ASSUME NEW S, NEW q \in Seq(S)
  PROVE  IsInjective(q) <=> \A i, j \in 1..Len(q) : q[i] = q[j] => i = j
<1>1. DOMAIN q = 1..Len(q)
  OBVIOUS
<1> QED BY <1>1, Zenon DEF IsInjective

LEMMA AppendFacts ==
  ASSUME NEW S, NEW q \in Seq(S), IsInjective(q), NEW b \in S, b \notin Range(q)
  PROVE  /\ Append(q, b) \in Seq(S) /\ IsInjective(Append(q, b))
         /\ Range(Append(q, b)) = Range(q) \cup {b} /\ Append(q, b) # <<>>
         /\ IF q = <<>> THEN Append(q, b) = <<b>>
            ELSE Append(q, b) # <<b>> /\ Head(Append(q, b)) = Head(q)
<1> DEFINE t == Append(q, b)
<1>1. /\ t \in Seq(S) /\ Len(t) = Len(q) + 1 /\ Len(q) \in Nat
      /\ \A i \in 1..Len(q) : t[i] = q[i]
      /\ t[Len(q) + 1] = b
  OBVIOUS
<1>2. t # <<>> /\ IF q = <<>> THEN t = <<b>> ELSE t # <<b>> /\ Head(t) = Head(q)
  <2>1. CASE q = <<>>
    BY <2>1
  <2>2. CASE q # <<>>
    <3>1. Len(q) # 0
      BY <2>2
    <3>2. Len(<<b>>) = 1 /\ Len(t) # 1 /\ Len(t) # 0
      BY <1>1, <3>1
    <3>3. Head(t) = t[1] /\ Head(q) = q[1] /\ 1 \in 1..Len(q)
      BY <1>1, <2>2, <3>1, <3>2
    <3> HIDE DEF t
    <3> QED BY <1>1, <2>2, <3>2, <3>3
  <2> QED BY <2>1, <2>2, Zenon
<1> HIDE DEF t
<1>3. \A i \in 1..Len(q) : q[i] # b
  BY SetOfSeq
<1>4. Range(t) = Range(q) \cup {b}
  <2>1. Range(t) = {t[i] : i \in 1..(Len(q) + 1)} /\ Range(q) = {q[i] : i \in 1..Len(q)}
    BY <1>1, SetOfSeq, Zenon
  <2>2. \A i \in 1..(Len(q) + 1) : t[i] \in Range(q) \cup {b}
    <3> SUFFICES ASSUME NEW i \in 1..(Len(q) + 1)
                 PROVE  t[i] \in Range(q) \cup {b}
      BY Zenon
    <3>1. i \in 1..Len(q) \/ i = Len(q) + 1
      BY <1>1
    <3> QED BY <1>1, <2>1, <3>1, Zenon
  <2>3. \A i \in 1..Len(q) : i \in 1..(Len(q) + 1) /\ Len(q) + 1 \in 1..(Len(q) + 1)
    BY <1>1
  <2>4. Len(q) + 1 \in 1..(Len(q) + 1)
    BY <1>1
  <2> QED BY <1>1, <2>1, <2>2, <2>3, <2>4
<1>5. IsInjective(t)
  <2>1. \A i, j \in 1..Len(q) : q[i] = q[j] => i = j
    BY Injectivity, Zenon
  <2>2. ASSUME NEW i \in 1..Len(t), NEW j \in 1..Len(t), t[i] = t[j]
        PROVE  i = j
    <3>1. (i \in 1..Len(q) \/ i = Len(q) + 1) /\ (j \in 1..Len(q) \/ j = Len(q) + 1)
      BY <1>1
    <3> QED BY <1>1, <1>3, <2>1, <2>2, <3>1, Zenon
  <2> QED BY <1>1, <2>2, Injectivity, Zenon
<1> QED BY <1>1, <1>2, <1>4, <1>5, Zenon DEF t

LEMMA TailFacts ==
  ASSUME NEW S, NEW q \in Seq(S), IsInjective(q), q # <<>>
  PROVE  /\ Head(q) \in Range(q)
         /\ Tail(q) \in Seq(S) /\ IsInjective(Tail(q))
         /\ Range(Tail(q)) = Range(q) \ {Head(q)}
         /\ Tail(q) # <<>> => Head(Tail(q)) \in Range(q) \ {Head(q)}
<1> DEFINE t == Tail(q)
<1>1. /\ t \in Seq(S) /\ Len(t) = Len(q) - 1 /\ Len(q) \in Nat \ {0}
      /\ \A i \in 1..(Len(q) - 1) : t[i] = q[i + 1]
      /\ Head(q) = q[1]
  OBVIOUS
<1>2. t # <<>> => Head(t) = t[1] /\ Len(t) \in Nat \ {0}
  BY <1>1
<1> HIDE DEF t
<1>3. \A i, j \in 1..Len(q) : q[i] = q[j] => i = j
  BY Injectivity, Zenon
<1>4. 1 \in 1..Len(q) /\ \A i \in 1..(Len(q) - 1) : i + 1 \in 1..Len(q) /\ i + 1 # 1
  BY <1>1
<1>5. Range(t) = {t[i] : i \in 1..(Len(q) - 1)} /\ Range(q) = {q[i] : i \in 1..Len(q)}
  BY <1>1, SetOfSeq, Zenon
<1>6. Head(q) \in Range(q)
  BY <1>1, <1>4, <1>5, Zenon
<1>7. Range(t) = Range(q) \ {Head(q)}
  <2>1. \A i \in 1..(Len(q) - 1) : t[i] \in Range(q) \ {Head(q)}
    BY <1>1, <1>3, <1>4, <1>5
  <2>2. ASSUME NEW i \in 1..Len(q), i # 1
        PROVE  q[i] \in Range(t)
    <3>1. i - 1 \in 1..(Len(q) - 1) /\ (i - 1) + 1 = i
      BY <1>1, <2>2
    <3>2. t[i - 1] = q[i]
      BY <1>1, <3>1, Zenon
    <3> QED BY <1>5, <3>1, <3>2, Zenon
  <2>3. Range(t) \subseteq Range(q) \ {Head(q)}
    BY <1>5, <2>1, Zenon
  <2>4. ASSUME NEW x \in Range(q), x # Head(q)
        PROVE  x \in Range(t)
    <3>1. PICK i \in 1..Len(q) : x = q[i]
      BY <1>5, Zenon
    <3>2. i # 1
      BY <1>1, <2>4, <3>1, Zenon
    <3> QED BY <2>2, <3>1, <3>2, Zenon
  <2> QED BY <2>3, <2>4, Zenon
<1>8. IsInjective(t)
  <2>1. ASSUME NEW i \in 1..Len(t), NEW j \in 1..Len(t), t[i] = t[j]
        PROVE  i = j
    <3>1. /\ i \in 1..(Len(q) - 1) /\ j \in 1..(Len(q) - 1)
          /\ i + 1 \in 1..Len(q) /\ j + 1 \in 1..Len(q)
      BY <1>1
    <3>2. q[i + 1] = q[j + 1]
      BY <1>1, <2>1, <3>1, Zenon
    <3>3. i + 1 = j + 1
      BY <1>3, <3>1, <3>2, Zenon
    <3> QED BY <3>1, <3>3
  <2> QED BY <1>1, <2>1, Injectivity, Zenon
<1>9. t # <<>> => Head(t) \in Range(t)
  <2> SUFFICES ASSUME t # <<>>
               PROVE  Head(t) \in Range(t)
    BY Zenon
  <2>1. 1 \in 1..(Len(q) - 1)
    BY <1>1, <1>2
  <2> QED BY <1>2, <1>5, <2>1, Zenon
<1> QED BY <1>1, <1>6, <1>7, <1>8, <1>9, Zenon DEF t

(* refcnt counts the users: one more after bget, one fewer after brelse. *)
LEMMA UserFacts ==
  ASSUME NEW m \in [Ptrs -> 0..NBUF], NEW b
  PROVE  /\ IsFiniteSet(Users(m, b)) /\ Cardinality(Users(m, b)) \in 0..Cardinality(Ptrs)
         /\ Cardinality(Users(m, b)) = 0 <=> Users(m, b) = {}
<1>1. IsFiniteSet(Users(m, b)) /\ Cardinality(Users(m, b)) <= Cardinality(Ptrs)
  <2>1. Users(m, b) \in SUBSET Ptrs
    BY Zenon DEF Users
  <2> QED BY <2>1, Constants, FS_Subset, Zenon
<1>2. Cardinality(Users(m, b)) \in Nat /\ Cardinality(Ptrs) \in Nat
  BY <1>1, Constants, FS_CardinalityType, Zenon
<1> QED BY <1>1, <1>2, FS_EmptySet

LEMMA UserEnters ==
  ASSUME mine \in [Ptrs -> 0..NBUF], NEW p \in Ptrs, mine[p] = 0, NEW b \in Bufs,
         mine' = [mine EXCEPT ![p] = b]
  PROVE  /\ Cardinality(Users(mine', b)) = Cardinality(Users(mine, b)) + 1
         /\ \A a \in Bufs \ {b} : Users(mine', a) = Users(mine, a)
<1>1. 0 \notin Bufs
  BY Constants, Zenon
<1>2. p \notin Users(mine, b) /\ Users(mine', b) = Users(mine, b) \cup {p}
  BY <1>1, Zenon DEF Users
<1>3. IsFiniteSet(Users(mine, b))
  BY UserFacts, Zenon
<1>4. \A a \in Bufs \ {b} : Users(mine', a) = Users(mine, a)
  BY <1>1, Zenon DEF Users
<1>5. Cardinality(Users(mine, b) \cup {p}) = Cardinality(Users(mine, b)) + 1
  BY <1>2, <1>3, FS_AddElement, ZenonT(30)
<1> QED BY <1>2, <1>4, <1>5, ZenonT(30)

LEMMA UserLeaves ==
  ASSUME mine \in [Ptrs -> 0..NBUF], NEW p \in Ptrs, NEW b \in Bufs, mine[p] = b,
         mine' = [mine EXCEPT ![p] = 0]
  PROVE  /\ Cardinality(Users(mine', b)) = Cardinality(Users(mine, b)) - 1
         /\ \A a \in Bufs \ {b} : Users(mine', a) = Users(mine, a)
<1>1. 0 \notin Bufs
  BY Constants, Zenon
<1>2. p \in Users(mine, b) /\ Users(mine', b) = Users(mine, b) \ {p}
  BY <1>1, Zenon DEF Users
<1>3. IsFiniteSet(Users(mine, b))
  BY UserFacts, Zenon
<1>4. \A a \in Bufs \ {b} : Users(mine', a) = Users(mine, a)
  BY <1>1, Zenon DEF Users
<1>5. Cardinality(Users(mine, b) \ {p}) = Cardinality(Users(mine, b)) - 1
  BY <1>2, <1>3, FS_RemoveElement, ZenonT(30)
<1> QED BY <1>2, <1>4, <1>5, ZenonT(30)

-----------------------------------------------------------------------------
(* The invariant *)

LEMMA InitInv ==
  ASSUME Init
  PROVE  IInv
<1>1. /\ \A b \in Bufs : /\ buf[b] \in BufRec /\ buf[b].blockno = None /\ ~buf[b].valid
                         /\ ~buf[b].dirty /\ buf[b].refcnt = 0 /\ buf[b].owner = None
      /\ buf = [b \in Bufs |-> buf[b]]
  <2>1. Cardinality(Ptrs) \in Nat /\ (CHOOSE v \in Vals : TRUE) \in Vals
    BY Constants, FS_CardinalityType, Zenon
  <2> QED BY <2>1 DEF Init, BufRec
<1>2. /\ idequeue = <<>> /\ cmd = None /\ panic = None /\ faults = 0
      /\ disk \in [Blocks -> Vals] /\ lru = [i \in Bufs |-> NBUF + 1 - i]
  BY Constants, Zenon DEF Init
<1>3. pc \in [Ptrs -> Labels] /\ mine \in [Ptrs -> 0..NBUF]
      /\ \A p \in Ptrs : pc[p] = "idle" /\ mine[p] = 0
  BY Constants DEF Init, Labels
<1>4. lru \in Seq(Bufs) /\ Len(lru) = NBUF /\ Range(lru) = Bufs
  <2>1. NBUF \in Nat /\ Bufs = 1..NBUF /\ \A i \in Bufs : NBUF + 1 - i \in Bufs
    BY Constants DEF Bufs
  <2>2. lru \in Seq(Bufs) /\ Len(lru) = NBUF
    BY <1>2, <2>1
  <2>3. \A b \in Bufs : NBUF + 1 - b \in Bufs /\ lru[NBUF + 1 - b] = b
    BY <1>2, <2>1
  <2>4. Bufs \subseteq {lru[i] : i \in 1..Len(lru)}
    BY <2>1, <2>2, <2>3, Zenon
  <2>5. Range(lru) = {lru[i] : i \in 1..Len(lru)} /\ Range(lru) \subseteq Bufs
    BY <2>2, SetOfSeq, Zenon
  <2> QED BY <2>2, <2>4, <2>5, Zenon
<1>5. idequeue \in Seq(Bufs) /\ IsInjective(idequeue) /\ Range(idequeue) = {}
  BY <1>2 DEF IsInjective, Range
<1>6. Types
  <2>1. faults \in 0..MaxFaults
    BY <1>2, Constants
  <2>2. buf \in [Bufs -> BufRec]
    BY <1>1, Zenon
  <2> QED BY <1>2, <1>3, <1>4, <1>5, <2>1, <2>2, Zenon DEF Types, CacheTypeOK, BufRec
<1>7. Names
  <2>1. \A b \in Bufs : Users(mine, b) = {}
    BY <1>3, Constants, Zenon DEF Users
  <2> QED BY <1>1, <1>3, <2>1, FS_EmptySet, ZenonT(30) DEF Names
<1>8. Locks /\ Flags
  BY <1>1, <1>3, Constants, Zenon DEF Locks, Flags, HoldsLock
<1>9. Served /\ Clean /\ PanicOnlyWhenFull
  BY <1>1, <1>2, <1>5, Zenon DEF Served, DiskServesQueue, Clean, PanicOnlyWhenFull
<1> QED BY <1>6, <1>7, <1>8, <1>9, Zenon DEF IInv

\* What the actions need of the types.
LEMMA TypeFacts ==
  ASSUME Types
  PROVE  /\ buf \in [Bufs -> BufRec] /\ mine \in [Ptrs -> 0..NBUF] /\ pc \in [Ptrs -> Labels]
         /\ idequeue \in Seq(Bufs) /\ IsInjective(idequeue) /\ Range(idequeue) \subseteq Bufs
         /\ \A p \in Ptrs : mine[p] # 0 => mine[p] \in Bufs
<1>1. mine \in [Ptrs -> 0..NBUF]
  BY Zenon DEF Types, CacheTypeOK
<1>2. \A p \in Ptrs : mine[p] # 0 => mine[p] \in Bufs
  BY <1>1, Constants DEF Bufs
<1> QED BY <1>1, <1>2, Zenon DEF Types, CacheTypeOK, BufRec

(* Steps that only move processes: between acquiresleep's test and its     *)
(* sleep, and between iderw's sleep and its test.                          *)
LEMMA MoveStep ==
  ASSUME IInv, UNCHANGED <<buf, lru, idequeue, disk, cmd, mine, faults, panic>>,
         NEW p \in Ptrs, NEW label \in Labels, pc' = [pc EXCEPT ![p] = label],
         \/ pc[p] = "lock" /\ label = "wait" /\ buf[mine[p]].owner # None
         \/ pc[p] = "wait" /\ label = "lock"
         \/ pc[p] = "io" /\ label = "test"
         \/ pc[p] = "test" /\ label = "use" /\ buf[mine[p]].valid /\ ~buf[mine[p]].dirty
         \/ pc[p] = "test" /\ label = "io" /\ ~(buf[mine[p]].valid /\ ~buf[mine[p]].dirty)
  PROVE  IInv'
<1>1. Types /\ Names /\ Locks /\ Flags /\ Served /\ Clean /\ PanicOnlyWhenFull
  BY Zenon DEF IInv
<1>2. pc' \in [Ptrs -> Labels] /\ pc'[p] = label /\ \A q \in Ptrs \ {p} : pc'[q] = pc[q]
  BY <1>1, TypeFacts, Zenon
<1>3. pc[p] # "idle" /\ label # "idle" /\ (pc[p] \in HoldsLock <=> label \in HoldsLock)
  BY Zenon DEF HoldsLock
<1>4. Types'
  BY <1>1, <1>2, ZenonT(30) DEF Types, CacheTypeOK, Bufs
<1>5. Names'
  <2>1. \A b \in Bufs : Users(mine', b) = Users(mine, b)
    BY Zenon DEF Users
  <2> QED BY <1>1, <1>2, <1>3, <2>1, Zenon DEF Names
<1>6. Locks'
  BY <1>1, <1>2, <1>3 DEF Locks
<1>7. Flags'
  BY <1>1, <1>2, Zenon DEF Flags, Range
<1>8. Served'
  <2>1. ASSUME NEW b \in Range(idequeue)
        PROVE  \E q \in Ptrs : buf[b].owner = q /\ mine[q] = b /\ pc'[q] \in {"io", "test"}
    <3>1. PICK q \in Ptrs : buf[b].owner = q /\ mine[q] = b /\ pc[q] \in {"io", "test"}
      BY <1>1, Zenon DEF Served, DiskServesQueue
    <3>2. q = p => pc'[q] \in {"io", "test"}
      BY <1>1, <1>2, <3>1, Zenon DEF Served
    <3> QED BY <1>2, <3>1, <3>2, Zenon
  <2> QED BY <1>1, <2>1 DEF Served, DiskServesQueue, idestart, Range
<1>9. Clean' /\ PanicOnlyWhenFull'
  BY <1>1, Zenon DEF Clean, PanicOnlyWhenFull, Dirty
<1> QED BY <1>4, <1>5, <1>6, <1>7, <1>8, <1>9, Zenon DEF IInv

LEMMA StutterStep ==
  ASSUME IInv, UNCHANGED vars
  PROVE  IInv'
<1>1. UNCHANGED <<buf, lru, idequeue, disk, cmd, pc, mine, faults, panic>>
  BY Zenon DEF vars
<1>2. Types' /\ Locks' /\ Flags' /\ Clean' /\ PanicOnlyWhenFull'
  BY <1>1 DEF IInv, Types, CacheTypeOK, Locks, Flags, Clean, PanicOnlyWhenFull, Dirty, Range
<1>3. Names'
  BY <1>1, Zenon DEF IInv, Names, Users
<1>4. Served'
  BY <1>1 DEF IInv, Served, DiskServesQueue, idestart, Range
<1> QED BY <1>2, <1>3, <1>4, Zenon DEF IInv

LEMMA AcquireStep ==
  ASSUME IInv, NEW p \in Ptrs, acquiresleep(p)
  PROVE  IInv'
<1>1. Types /\ Names /\ Locks /\ Flags /\ Served /\ Clean /\ PanicOnlyWhenFull
  BY Zenon DEF IInv
<1>2. /\ buf \in [Bufs -> BufRec] /\ pc \in [Ptrs -> Labels] /\ Range(idequeue) \subseteq Bufs
      /\ pc[p] = "lock" /\ mine[p] \in Bufs
  BY <1>1, TypeFacts, Zenon DEF acquiresleep, At, Names
<1>3. UNCHANGED <<lru, idequeue, disk, cmd, mine, faults, panic>> /\ panic = None
  BY Zenon DEF acquiresleep, At
<1>4. CASE Locked(mine[p])
  <2>1. buf' = buf /\ pc' = [pc EXCEPT ![p] = "wait"]
    BY <1>4, Zenon DEF acquiresleep, Goto
  <2>2. "wait" \in Labels /\ buf[mine[p]].owner # None
    BY <1>4, Zenon DEF Labels, Locked
  <2> QED BY <1>2, <1>3, <2>1, <2>2, MoveStep, ZenonT(30)
<1>5. CASE ~Locked(mine[p])
  <2>1. PICK b \in Bufs : b = mine[p]
    BY <1>2, Zenon
  <2> DEFINE label == IF buf[b].valid THEN "use" ELSE "iderw"
  <2>2. buf' = [buf EXCEPT ![b].owner = p] /\ pc' = [pc EXCEPT ![p] = label]
    BY <1>5, <2>1, Zenon DEF acquiresleep, Goto
  <2>3. label \in Labels /\ label \in HoldsLock /\ (label = "use" <=> buf[b].valid)
        /\ label \notin {"idle", "io", "test", "wait"} /\ (label = "iderw" => ~buf[b].valid)
    BY Zenon DEF Labels, HoldsLock
  <2> HIDE DEF label
  <2>4. /\ pc' \in [Ptrs -> Labels] /\ pc'[p] = label
        /\ \A q \in Ptrs \ {p} : pc'[q] = pc[q]
    BY <1>2, <2>2, <2>3, Zenon
  <2>5. /\ buf' \in [Bufs -> BufRec]
        /\ buf'[b].owner = p /\ \A a \in Bufs \ {b} : buf'[a] = buf[a]
        /\ \A a \in Bufs : /\ buf'[a].blockno = buf[a].blockno /\ buf'[a].valid = buf[a].valid
                           /\ buf'[a].dirty = buf[a].dirty /\ buf'[a].refcnt = buf[a].refcnt
                           /\ buf'[a].data = buf[a].data
    BY <1>2, <2>2 DEF BufRec
  <2>6. \A q \in Ptrs : mine[q] = b => pc[q] \notin HoldsLock
    BY <1>1, <1>5, <2>1, Constants, Zenon DEF Locks, Locked
  <2>7. \A q \in Ptrs : pc[q] # "idle" => mine[q] \in Bufs
    BY <1>1, TypeFacts, Zenon DEF Names
  <2>8. Types'
    BY <1>1, <1>3, <2>4, <2>5, Zenon DEF Types, CacheTypeOK, BufRec
  <2>9. Names'
    <3>1. \A a \in Bufs : Users(mine', a) = Users(mine, a)
      BY <1>3, Zenon DEF Users
    <3> QED BY <1>1, <1>2, <1>3, <2>3, <2>4, <2>5, <2>7, <3>1 DEF Names
  <2>10. Locks'
    <3>1. ASSUME NEW q \in Ptrs, pc'[q] \in HoldsLock
          PROVE  buf'[mine[q]].owner = q
      <4>1. CASE q = p
        BY <2>1, <2>5, <4>1, Zenon
      <4>2. CASE q # p
        <5>1. pc[q] \in HoldsLock /\ mine[q] \in Bufs \ {b}
          BY <2>4, <2>6, <2>7, <3>1, <4>2, Zenon DEF HoldsLock
        <5> QED BY <1>1, <2>5, <5>1, Zenon DEF Locks
      <4> QED BY <4>1, <4>2, Zenon
    <3>2. ASSUME NEW a \in Bufs, NEW q \in Ptrs, buf'[a].owner = q
          PROVE  mine[q] = a /\ pc'[q] \in HoldsLock
      <4>1. CASE a = b
        BY <2>1, <2>3, <2>4, <2>5, <3>2, <4>1, Zenon
      <4>2. CASE a # b
        <5>1. mine[q] = a /\ pc[q] \in HoldsLock
          BY <1>1, <2>5, <3>2, <4>2, Zenon DEF Locks
        <5> QED BY <2>1, <2>4, <4>2, <5>1, Zenon
      <4> QED BY <4>1, <4>2, Zenon
    <3>3. ASSUME NEW q \in Ptrs, pc'[q] = "wait"
          PROVE  buf'[mine[q]].owner # None
      <4>1. pc[q] = "wait" /\ mine[q] \in Bufs
        BY <2>3, <2>4, <2>7, <3>3, Zenon
      <4> QED BY <1>1, <2>5, <4>1, Constants DEF Locks
    <3> QED BY <1>3, <3>1, <3>2, <3>3, Zenon DEF Locks
  <2>11. Flags'
    <3>1. ASSUME NEW q \in Ptrs
          PROVE  /\ pc'[q] = "use" => buf'[mine[q]].valid
                 /\ pc'[q] = "iderw" => ~buf'[mine[q]].valid \/ buf'[mine[q]].dirty
                 /\ pc'[q] = "io" => mine[q] \in Range(idequeue)
                 /\ pc'[q] = "test" =>
                      mine[q] \in Range(idequeue) \/ (buf'[mine[q]].valid /\ ~buf'[mine[q]].dirty)
      <4>1. CASE q = p
        BY <2>1, <2>3, <2>4, <2>5, <4>1, Zenon
      <4>2. CASE q # p
        <5>1. pc'[q] = pc[q]
          BY <2>4, <4>2, Zenon
        <5> QED BY <1>1, <2>5, <2>7, <5>1, Zenon DEF Flags
      <4> QED BY <4>1, <4>2, Zenon
    <3> QED BY <1>1, <1>3, <2>5, <3>1, Zenon DEF Flags, Range
  <2>12. Served'
    <3>1. ASSUME NEW a \in Range(idequeue)
          PROVE  \E q \in Ptrs : buf'[a].owner = q /\ mine[q] = a /\ pc'[q] \in {"io", "test"}
      <4>1. PICK q \in Ptrs : buf[a].owner = q /\ mine[q] = a /\ pc[q] \in {"io", "test"}
        BY <1>1, Zenon DEF Served, DiskServesQueue
      <4>2. q # p /\ a \in Bufs \ {b}
        BY <1>2, <2>1, <2>6, <4>1, Zenon DEF HoldsLock
      <4> QED BY <2>4, <2>5, <4>1, <4>2, Zenon
    <3>2. idequeue # <<>> => Head(idequeue) \in Bufs
      BY <1>1, TypeFacts, TailFacts, Zenon
    <3>3. idequeue # <<>> => cmd = idestart(buf', Head(idequeue))
      BY <1>1, <2>5, <3>2, Zenon DEF Served, DiskServesQueue, idestart
    <3> QED BY <1>1, <1>2, <1>3, <2>5, <3>1, <3>3 DEF Served, DiskServesQueue, Range, idestart
  <2>13. Clean' /\ PanicOnlyWhenFull'
    BY <1>1, <1>3, <2>5, Zenon DEF Clean, PanicOnlyWhenFull
  <2> QED BY <2>8, <2>9, <2>10, <2>11, <2>12, <2>13, Zenon DEF IInv
<1> QED BY <1>4, <1>5, Zenon

(* bwrite, brelse and iderw find that their caller holds the sleep lock. *)
LEMMA HolderHolds ==
  ASSUME Locks, NEW p \in Ptrs, pc[p] \in HoldsLock
  PROVE  holdingsleep(p, mine[p])
<1>1. buf[mine[p]].owner = p /\ p # None
  BY Constants, Zenon DEF Locks
<1> QED BY <1>1, Zenon DEF holdingsleep, Locked

\* The holder changes its buffer and marks it dirty.
Changes(p, v, label) ==
  /\ pc[p] = "use" /\ panic = None
  /\ buf' = [buf EXCEPT ![mine[p]].data = v, ![mine[p]].dirty = TRUE]
  /\ pc' = [pc EXCEPT ![p] = label]
  /\ UNCHANGED <<lru, idequeue, disk, cmd, mine, faults, panic>>

LEMMA ChangeStep ==
  ASSUME IInv, NEW p \in Ptrs, NEW v \in Vals, NEW label \in {"use", "iderw"},
         Changes(p, v, label)
  PROVE  IInv'
<1>0. UNCHANGED <<lru, idequeue, disk, cmd, mine, faults, panic>> /\ panic = None /\ pc[p] = "use"
  BY Zenon DEF Changes
<1>1. Types /\ Names /\ Locks /\ Flags /\ Served /\ Clean /\ PanicOnlyWhenFull
  BY Zenon DEF IInv
<1>2. /\ buf \in [Bufs -> BufRec] /\ pc \in [Ptrs -> Labels] /\ Range(idequeue) \subseteq Bufs
      /\ mine[p] \in Bufs
  BY <1>0, <1>1, TypeFacts, Zenon DEF Names
<1>3. PICK b \in Bufs : b = mine[p]
  BY <1>2, Zenon
<1>4. /\ pc' \in [Ptrs -> Labels] /\ pc'[p] = label
      /\ \A q \in Ptrs \ {p} : pc'[q] = pc[q]
  BY <1>2, Zenon DEF Labels, Changes
<1>5. /\ buf' \in [Bufs -> BufRec]
      /\ buf'[b].dirty /\ \A a \in Bufs \ {b} : buf'[a] = buf[a]
      /\ \A a \in Bufs : /\ buf'[a].blockno = buf[a].blockno /\ buf'[a].valid = buf[a].valid
                         /\ buf'[a].refcnt = buf[a].refcnt /\ buf'[a].owner = buf[a].owner
  BY <1>2, <1>3 DEF BufRec, Changes
<1>6. \A q \in Ptrs : pc[q] # "idle" => mine[q] \in Bufs
  BY <1>1, TypeFacts, Zenon DEF Names
<1>7. buf[b].valid /\ buf[b].owner = p
  BY <1>0, <1>1, <1>3, Zenon DEF Flags, Locks, HoldsLock
<1>8. \A q \in Ptrs \ {p} : pc[q] \in HoldsLock => mine[q] \in Bufs \ {b}
  BY <1>1, <1>6, <1>7, Zenon DEF Locks, HoldsLock
<1>9. b \notin Range(idequeue)
  BY <1>0, <1>1, <1>7, Zenon DEF Served, DiskServesQueue
<1>10. Types'
  BY <1>0, <1>1, <1>4, <1>5, Zenon DEF Types, CacheTypeOK, BufRec
<1>11. Names'
  <2>1. \A a \in Bufs : Users(mine', a) = Users(mine, a)
    BY <1>0, Zenon DEF Users
  <2>2. \A a \in Bufs : buf'[a].refcnt = Cardinality(Users(mine', a))
    BY <1>1, <1>5, <2>1 DEF Names
  <2>3. \A a, c \in Bufs : buf'[a].blockno = buf'[c].blockno /\ buf'[a].blockno # None => a = c
    BY <1>1, <1>5 DEF Names
  <2>4. \A q \in Ptrs : /\ mine[q] = 0 <=> pc'[q] = "idle"
                        /\ mine[q] # 0 => buf[mine[q]].blockno # None
    BY <1>0, <1>1, <1>4, Zenon DEF Names
  <2>5. \A q \in Ptrs : mine[q] # 0 => mine[q] \in Bufs
    BY <1>1, <1>6, Zenon DEF Names
  <2> QED BY <1>0, <1>5, <2>2, <2>3, <2>4, <2>5, Zenon DEF Names
<1>12. Locks'
  <2>1. \A q \in Ptrs : /\ pc'[q] \in HoldsLock <=> pc[q] \in HoldsLock
                        /\ pc'[q] = "wait" => pc[q] = "wait"
    BY <1>0, <1>4, Zenon DEF HoldsLock
  <2>2. \A q \in Ptrs : pc[q] \in HoldsLock => mine[q] \in Bufs
    BY <1>6, Zenon DEF HoldsLock
  <2>3. \A q \in Ptrs : pc'[q] \in HoldsLock => buf'[mine[q]].owner = q
    BY <1>1, <1>5, <2>1, <2>2, Zenon DEF Locks
  <2>4. \A a \in Bufs : \A q \in Ptrs : buf'[a].owner = q => mine[q] = a /\ pc'[q] \in HoldsLock
    BY <1>1, <1>5, <2>1 DEF Locks
  <2>5. \A q \in Ptrs : pc'[q] = "wait" => buf'[mine[q]].owner # None
    BY <1>1, <1>5, <1>6, <2>1 DEF Locks
  <2> QED BY <1>0, <2>3, <2>4, <2>5, Zenon DEF Locks
<1>13. Flags'
  <2>1. ASSUME NEW q \in Ptrs
        PROVE  /\ pc'[q] = "use" => buf'[mine[q]].valid
               /\ pc'[q] = "iderw" => ~buf'[mine[q]].valid \/ buf'[mine[q]].dirty
               /\ pc'[q] = "io" => mine[q] \in Range(idequeue)
               /\ pc'[q] = "test" =>
                    mine[q] \in Range(idequeue) \/ (buf'[mine[q]].valid /\ ~buf'[mine[q]].dirty)
    <3>1. CASE q = p
      BY <1>3, <1>4, <1>5, <1>7, <3>1, Zenon
    <3>2. CASE q # p
      <4>1. pc'[q] = pc[q]
        BY <1>4, <3>2, Zenon
      <4>2. pc[q] \in HoldsLock => buf'[mine[q]] = buf[mine[q]]
        BY <1>5, <1>8, <3>2, Zenon
      <4> QED BY <1>1, <4>1, <4>2, Zenon DEF Flags, HoldsLock
    <3> QED BY <3>1, <3>2, Zenon
  <2>2. \A a \in Bufs : buf'[a].dirty => buf'[a].valid
    BY <1>1, <1>5, <1>7, Zenon DEF Flags
  <2> QED BY <1>0, <2>1, <2>2, Zenon DEF Flags, Range
<1>14. Served'
  <2>1. \A a \in Range(idequeue) : buf'[a] = buf[a]
    BY <1>2, <1>5, <1>9, Zenon
  <2>2. ASSUME NEW a \in Range(idequeue)
        PROVE  \E q \in Ptrs : buf'[a].owner = q /\ mine[q] = a /\ pc'[q] \in {"io", "test"}
    <3>1. PICK q \in Ptrs : buf[a].owner = q /\ mine[q] = a /\ pc[q] \in {"io", "test"}
      BY <1>1, Zenon DEF Served, DiskServesQueue
    <3> QED BY <1>0, <1>4, <2>1, <3>1, Zenon
  <2>3. idequeue # <<>> => Head(idequeue) \in Range(idequeue)
    BY <1>1, TypeFacts, TailFacts, Zenon
  <2>4. idequeue # <<>> => cmd = idestart(buf', Head(idequeue))
    BY <1>1, <2>1, <2>3, Zenon DEF Served, DiskServesQueue, idestart
  <2> QED BY <1>0, <1>1, <2>1, <2>2, <2>4 DEF Served, DiskServesQueue, Range, idestart
<1>15. Clean'
  BY <1>0, <1>1, <1>5, Zenon DEF Clean
<1>16. PanicOnlyWhenFull'
  BY <1>0, Zenon DEF PanicOnlyWhenFull
<1> QED BY <1>10, <1>11, <1>12, <1>13, <1>14, <1>15, <1>16, Zenon DEF IInv

LEMMA WriteChanges ==
  ASSUME Types, Locks, NEW p \in Ptrs, NEW v \in Vals, bwrite(p, v) \/ log_write(p, v)
  PROVE  \E label \in {"use", "iderw"} : Changes(p, v, label)
<1>1. pc[p] = "use"
  BY Zenon DEF bwrite, log_write, At
<1>2. pc \in [Ptrs -> Labels]
  BY TypeFacts, Zenon
<1>3. [pc EXCEPT ![p] = "use"] = pc
  BY <1>1, <1>2, Zenon
<1>4. holdingsleep(p, mine[p])
  BY <1>1, HolderHolds, Zenon DEF HoldsLock
<1> QED BY <1>3, <1>4, Zenon DEF bwrite, log_write, Goto, At, Changes

LEMMA WriteStep ==
  ASSUME IInv, NEW p \in Ptrs, NEW v \in Vals, bwrite(p, v) \/ log_write(p, v)
  PROVE  IInv'
BY WriteChanges, ChangeStep, Zenon DEF IInv

LEMMA ReleaseStep ==
  ASSUME IInv, NEW p \in Ptrs, releasesleep(p)
  PROVE  IInv'
<1>1. Types /\ Names /\ Locks /\ Flags /\ Served /\ Clean /\ PanicOnlyWhenFull
  BY Zenon DEF IInv
<1>2. /\ buf \in [Bufs -> BufRec] /\ pc \in [Ptrs -> Labels] /\ Range(idequeue) \subseteq Bufs
      /\ pc[p] = "use" /\ mine[p] \in Bufs
  BY <1>1, TypeFacts, Zenon DEF releasesleep, At, Names
<1>3. UNCHANGED <<lru, idequeue, disk, cmd, mine, faults, panic>> /\ panic = None
  BY <1>1, <1>2, HolderHolds, Zenon DEF releasesleep, At, HoldsLock
<1>4. PICK b \in Bufs : b = mine[p] /\ buf' = [buf EXCEPT ![b].owner = None] /\ pc' = Wakes(p)
  BY <1>1, <1>2, HolderHolds, Zenon DEF releasesleep, HoldsLock
<1>5. /\ pc' \in [Ptrs -> Labels] /\ pc'[p] = "unref"
      /\ \A q \in Ptrs \ {p} :
           pc'[q] = IF pc[q] = "wait" /\ mine[q] = b THEN "lock" ELSE pc[q]
  BY <1>2, <1>4, Zenon DEF Wakes, Woken, Labels
<1>6. /\ buf' \in [Bufs -> BufRec]
      /\ buf'[b].owner = None /\ \A a \in Bufs \ {b} : buf'[a] = buf[a]
      /\ \A a \in Bufs : /\ buf'[a].blockno = buf[a].blockno /\ buf'[a].valid = buf[a].valid
                         /\ buf'[a].dirty = buf[a].dirty /\ buf'[a].refcnt = buf[a].refcnt
                         /\ buf'[a].data = buf[a].data
  BY <1>2, <1>4 DEF BufRec
<1>7. \A q \in Ptrs : pc[q] # "idle" => mine[q] \in Bufs
  BY <1>1, TypeFacts, Zenon DEF Names
<1>8. buf[b].owner = p
  BY <1>1, <1>2, <1>4, Zenon DEF Locks, HoldsLock
<1>9. \A q \in Ptrs \ {p} : pc[q] \in HoldsLock => mine[q] \in Bufs \ {b}
  BY <1>1, <1>7, <1>8, Zenon DEF Locks, HoldsLock
<1>10. b \notin Range(idequeue)
  BY <1>1, <1>2, <1>8, Zenon DEF Served, DiskServesQueue
<1>11. \A q \in Ptrs : pc'[q] \in HoldsLock => pc[q] = pc'[q] /\ q # p
  BY <1>5, Zenon DEF HoldsLock
<1>12. Types'
  BY <1>1, <1>3, <1>5, <1>6, Zenon DEF Types, CacheTypeOK, BufRec
<1>13. Names'
  <2>1. \A a \in Bufs : Users(mine', a) = Users(mine, a)
    BY <1>3, Zenon DEF Users
  <2>2. \A q \in Ptrs : pc'[q] = "idle" <=> pc[q] = "idle"
    BY <1>2, <1>5, Zenon
  <2>3. \A a \in Bufs : buf'[a].refcnt = Cardinality(Users(mine', a))
    BY <1>1, <1>6, <2>1 DEF Names
  <2>4. \A a, c \in Bufs : buf'[a].blockno = buf'[c].blockno /\ buf'[a].blockno # None => a = c
    BY <1>1, <1>6 DEF Names
  <2>5. \A q \in Ptrs : mine[q] # 0 => mine[q] \in Bufs /\ buf'[mine[q]].blockno # None
    BY <1>1, <1>6, <1>7, Zenon DEF Names
  <2>6. \A q \in Ptrs : mine[q] = 0 <=> pc'[q] = "idle"
    BY <1>1, <2>2, Zenon DEF Names
  <2> QED BY <1>3, <2>3, <2>4, <2>5, <2>6, Zenon DEF Names
<1>14. Locks'
  <2>1. ASSUME NEW q \in Ptrs, pc'[q] \in HoldsLock
        PROVE  buf'[mine[q]].owner = q
    <3>1. pc[q] \in HoldsLock /\ mine[q] \in Bufs \ {b}
      BY <1>9, <1>11, <2>1, Zenon
    <3> QED BY <1>1, <1>6, <3>1, Zenon DEF Locks
  <2>2. ASSUME NEW a \in Bufs, NEW q \in Ptrs, buf'[a].owner = q
        PROVE  mine[q] = a /\ pc'[q] \in HoldsLock
    <3>1. a # b
      BY <1>6, <2>2, Constants, Zenon
    <3>2. mine[q] = a /\ pc[q] \in HoldsLock
      BY <1>1, <1>6, <2>2, <3>1, Zenon DEF Locks
    <3> QED BY <1>4, <1>5, <3>1, <3>2, Zenon
  <2>3. ASSUME NEW q \in Ptrs, pc'[q] = "wait"
        PROVE  buf'[mine[q]].owner # None
    <3>1. pc[q] = "wait" /\ mine[q] \in Bufs \ {b}
      BY <1>5, <1>7, <2>3, Zenon
    <3> QED BY <1>1, <1>6, <3>1, Zenon DEF Locks
  <2> QED BY <1>3, <2>1, <2>2, <2>3, Zenon DEF Locks
<1>15. Flags'
  <2>1. ASSUME NEW q \in Ptrs
        PROVE  /\ pc'[q] = "use" => buf'[mine[q]].valid
               /\ pc'[q] = "iderw" => ~buf'[mine[q]].valid \/ buf'[mine[q]].dirty
               /\ pc'[q] = "io" => mine[q] \in Range(idequeue)
               /\ pc'[q] = "test" =>
                    mine[q] \in Range(idequeue) \/ (buf'[mine[q]].valid /\ ~buf'[mine[q]].dirty)
    BY <1>1, <1>6, <1>9, <1>11 DEF Flags, HoldsLock
  <2> QED BY <1>1, <1>3, <1>6, <2>1, Zenon DEF Flags, Range
<1>16. Served'
  <2>1. \A a \in Range(idequeue) : buf'[a] = buf[a]
    BY <1>2, <1>6, <1>10, Zenon
  <2>2. ASSUME NEW a \in Range(idequeue)
        PROVE  \E q \in Ptrs : buf'[a].owner = q /\ mine[q] = a /\ pc'[q] \in {"io", "test"}
    <3>1. PICK q \in Ptrs : buf[a].owner = q /\ mine[q] = a /\ pc[q] \in {"io", "test"}
      BY <1>1, Zenon DEF Served, DiskServesQueue
    <3> QED BY <1>2, <1>5, <2>1, <3>1, Zenon
  <2>3. idequeue # <<>> => Head(idequeue) \in Range(idequeue)
    BY <1>1, TypeFacts, TailFacts, Zenon
  <2>4. idequeue # <<>> => cmd = idestart(buf', Head(idequeue))
    BY <1>1, <2>1, <2>3, Zenon DEF Served, DiskServesQueue, idestart
  <2> QED BY <1>1, <1>3, <2>1, <2>2, <2>4 DEF Served, DiskServesQueue, Range, idestart
<1>17. Clean' /\ PanicOnlyWhenFull'
  BY <1>1, <1>3, <1>6, Zenon DEF Clean, PanicOnlyWhenFull
<1> QED BY <1>12, <1>13, <1>14, <1>15, <1>16, <1>17, Zenon DEF IInv

LEMMA BrelseStep ==
  ASSUME IInv, NEW p \in Ptrs, brelse(p)
  PROVE  IInv'
<1>1. Types /\ Names /\ Locks /\ Flags /\ Served /\ Clean /\ PanicOnlyWhenFull
  BY Zenon DEF IInv
<1>2. /\ buf \in [Bufs -> BufRec] /\ pc \in [Ptrs -> Labels] /\ mine \in [Ptrs -> 0..NBUF]
      /\ Range(idequeue) \subseteq Bufs /\ pc[p] = "unref" /\ mine[p] \in Bufs
  BY <1>1, TypeFacts, Zenon DEF brelse, At, Names
<1>3. UNCHANGED <<idequeue, disk, cmd, faults, panic>> /\ panic = None
  BY Zenon DEF brelse, At
<1>4. PICK b \in Bufs : b = mine[p]
  BY <1>2, Zenon
<1>5. /\ mine' = [mine EXCEPT ![p] = 0] /\ pc' = [pc EXCEPT ![p] = "idle"]
      /\ lru' = MovedTo(b) \/ lru' = lru
      /\ buf' = [buf EXCEPT ![b].refcnt = @ - 1]
  BY <1>4, Zenon DEF brelse, Goto, Unref
<1>6. /\ pc' \in [Ptrs -> Labels] /\ mine' \in [Ptrs -> 0..NBUF]
      /\ pc'[p] = "idle" /\ mine'[p] = 0
      /\ \A q \in Ptrs \ {p} : pc'[q] = pc[q] /\ mine'[q] = mine[q]
  BY <1>2, <1>5, Constants DEF Labels
<1>7. /\ buf' = [a \in Bufs |-> buf'[a]]
      /\ buf'[b].refcnt = buf[b].refcnt - 1 /\ \A a \in Bufs \ {b} : buf'[a] = buf[a]
      /\ buf'[b] = [buf[b] EXCEPT !.refcnt = buf[b].refcnt - 1]
      /\ \A a \in Bufs : /\ buf'[a].blockno = buf[a].blockno /\ buf'[a].valid = buf[a].valid
                         /\ buf'[a].dirty = buf[a].dirty /\ buf'[a].data = buf[a].data
                         /\ buf'[a].owner = buf[a].owner
  BY <1>2, <1>5, ZenonT(30) DEF BufRec
<1>8. /\ Cardinality(Users(mine', b)) = Cardinality(Users(mine, b)) - 1
      /\ \A a \in Bufs \ {b} : Users(mine', a) = Users(mine, a)
  BY <1>2, <1>4, <1>5, UserLeaves, ZenonT(30)
<1>9. \A a \in Bufs : buf'[a].refcnt = Cardinality(Users(mine', a))
  <2>1. \A a \in Bufs : buf[a].refcnt = Cardinality(Users(mine, a))
    BY <1>1, Zenon DEF Names
  <2> QED BY <1>7, <1>8, <2>1, ZenonT(30)
<1>10. \A q \in Ptrs : pc[q] # "idle" => mine[q] \in Bufs
  BY <1>1, TypeFacts, Zenon DEF Names
<1>11. \A q \in Ptrs : pc'[q] \in HoldsLock \cup {"wait"} => q # p /\ pc'[q] = pc[q] /\ mine'[q] = mine[q]
  BY <1>6, Zenon DEF HoldsLock
<1>12. Types'
  <2>1. Cardinality(Users(mine', b)) \in 0..Cardinality(Ptrs)
    BY <1>6, UserFacts, Zenon
  <2>2. buf'[b] \in BufRec
    BY <1>2, <1>7, <1>9, <2>1, Zenon DEF BufRec
  <2>3. buf' \in [Bufs -> BufRec]
    BY <1>2, <1>7, <2>2, Zenon
  <2>4. lru' \in Seq(Bufs) /\ Len(lru') = NBUF /\ Range(lru') = Bufs
    BY <1>1, <1>5, MovedToFacts DEF Types, CacheTypeOK
  <2> QED BY <1>1, <1>3, <1>6, <2>3, <2>4, Zenon DEF Types, CacheTypeOK, BufRec
<1>13. Names'
  BY <1>1, <1>6, <1>7, <1>9, <1>10 DEF Names
<1>14. Locks'
  <2>1. ASSUME NEW a \in Bufs, NEW q \in Ptrs, buf'[a].owner = q
        PROVE  mine'[q] = a /\ pc'[q] \in HoldsLock
    <3>1. mine[q] = a /\ pc[q] \in HoldsLock
      BY <1>1, <1>7, <2>1 DEF Locks
    <3>2. q # p
      BY <1>2, <3>1, Zenon DEF HoldsLock
    <3> QED BY <1>6, <3>1, <3>2, Zenon
  <2>2. \A q \in Ptrs : pc[q] \in HoldsLock \cup {"wait"} => mine[q] \in Bufs
    BY <1>10, Zenon DEF HoldsLock
  <2> QED BY <1>1, <1>7, <1>11, <2>1, <2>2 DEF Locks
<1>15. Flags'
  <2>1. ASSUME NEW q \in Ptrs
        PROVE  /\ pc'[q] = "use" => buf'[mine'[q]].valid
               /\ pc'[q] = "iderw" => ~buf'[mine'[q]].valid \/ buf'[mine'[q]].dirty
               /\ pc'[q] = "io" => mine'[q] \in Range(idequeue)
               /\ pc'[q] = "test" =>
                    mine'[q] \in Range(idequeue) \/ (buf'[mine'[q]].valid /\ ~buf'[mine'[q]].dirty)
    BY <1>1, <1>7, <1>10, <1>11 DEF Flags, HoldsLock
  <2> QED BY <1>1, <1>3, <1>7, <2>1 DEF Flags, Range
<1>16. Served'
  <2>1. ASSUME NEW a \in Range(idequeue)
        PROVE  \E q \in Ptrs : buf'[a].owner = q /\ mine'[q] = a /\ pc'[q] \in {"io", "test"}
    <3>1. PICK q \in Ptrs : buf[a].owner = q /\ mine[q] = a /\ pc[q] \in {"io", "test"}
      BY <1>1, Zenon DEF Served, DiskServesQueue
    <3> QED BY <1>2, <1>6, <1>7, <3>1, Zenon
  <2>2. idequeue # <<>> => Head(idequeue) \in Range(idequeue)
    BY <1>1, TypeFacts, TailFacts, Zenon
  <2>3. idequeue # <<>> => cmd = idestart(buf', Head(idequeue))
    BY <1>1, <1>2, <1>7, <2>2, Zenon DEF Served, DiskServesQueue, idestart
  <2>4. cmd = None <=> idequeue = <<>>
    BY <1>1, Zenon DEF Served, DiskServesQueue
  <2>5. DiskServesQueue'
    BY <1>3, <2>1, <2>3, <2>4 DEF DiskServesQueue, Range, idestart
  <2>6. \A a \in Range(idequeue) : ~buf'[a].valid \/ buf'[a].dirty
    BY <1>1, <1>2, <1>7, Zenon DEF Served
  <2> QED BY <1>3, <2>5, <2>6, Zenon DEF Served, Range
<1>17. Clean' /\ PanicOnlyWhenFull'
  BY <1>1, <1>3, <1>7, Zenon DEF Clean, PanicOnlyWhenFull
<1> QED BY <1>12, <1>13, <1>14, <1>15, <1>16, <1>17, Zenon DEF IInv

LEMMA IderwStep ==
  ASSUME IInv, NEW p \in Ptrs, iderw(p)
  PROVE  IInv'
<1>1. Types /\ Names /\ Locks /\ Flags /\ Served /\ Clean /\ PanicOnlyWhenFull
  BY Zenon DEF IInv
<1>2. /\ buf \in [Bufs -> BufRec] /\ pc \in [Ptrs -> Labels]
      /\ idequeue \in Seq(Bufs) /\ IsInjective(idequeue) /\ Range(idequeue) \subseteq Bufs
      /\ pc[p] = "iderw" /\ mine[p] \in Bufs
  BY <1>1, TypeFacts, Zenon DEF iderw, At, Names
<1>3. PICK b \in Bufs : b = mine[p]
  BY <1>2, Zenon
<1>4. buf[b].owner = p /\ (~buf[b].valid \/ buf[b].dirty)
  BY <1>1, <1>2, <1>3, Zenon DEF Locks, Flags, HoldsLock
<1>5. b \notin Range(idequeue)
  BY <1>1, <1>2, <1>4, Zenon DEF Served, DiskServesQueue
<1>6. /\ idequeue' = Append(idequeue, b)
      /\ cmd' = Start(idequeue', b)
      /\ pc' = [pc EXCEPT ![p] = "io"]
      /\ UNCHANGED <<buf, lru, disk, mine, faults, panic>> /\ panic = None
  <2>1. holdingsleep(p, b)
    BY <1>1, <1>2, <1>3, HolderHolds, Zenon DEF HoldsLock
  <2> QED BY <1>3, <1>4, <2>1, Zenon DEF iderw, Goto, At
<1>7. /\ idequeue' \in Seq(Bufs) /\ IsInjective(idequeue')
      /\ Range(idequeue') = Range(idequeue) \cup {b} /\ idequeue' # <<>>
      /\ IF idequeue = <<>> THEN idequeue' = <<b>>
         ELSE idequeue' # <<b>> /\ Head(idequeue') = Head(idequeue)
  BY <1>2, <1>5, <1>6, AppendFacts
<1>8. /\ pc' \in [Ptrs -> Labels] /\ pc'[p] = "io"
      /\ \A q \in Ptrs \ {p} : pc'[q] = pc[q]
  BY <1>2, <1>6, Zenon DEF Labels
<1>9. Types'
  BY <1>1, <1>2, <1>6, <1>7, <1>8, Zenon DEF Types, CacheTypeOK
<1>10. Names'
  <2>1. \A a \in Bufs : Users(mine', a) = Users(mine, a)
    BY <1>6, Zenon DEF Users
  <2>2. \A q \in Ptrs : pc'[q] = "idle" <=> pc[q] = "idle"
    BY <1>2, <1>8, Zenon
  <2> QED BY <1>1, <1>6, <2>1, <2>2, Zenon DEF Names
<1>11. Locks'
  <2>1. \A q \in Ptrs : /\ pc'[q] \in HoldsLock <=> pc[q] \in HoldsLock
                        /\ pc'[q] = "wait" <=> pc[q] = "wait"
    BY <1>2, <1>8, Zenon DEF HoldsLock
  <2> QED BY <1>1, <1>6, <2>1, ZenonT(30) DEF Locks
<1>12. Flags'
  <2>1. ASSUME NEW q \in Ptrs
        PROVE  /\ pc'[q] = "use" => buf[mine[q]].valid
               /\ pc'[q] = "iderw" => ~buf[mine[q]].valid \/ buf[mine[q]].dirty
               /\ pc'[q] = "io" => mine[q] \in Range(idequeue')
               /\ pc'[q] = "test" =>
                    mine[q] \in Range(idequeue') \/ (buf[mine[q]].valid /\ ~buf[mine[q]].dirty)
    <3>1. CASE q = p
      BY <1>3, <1>7, <1>8, <3>1, Zenon
    <3>2. CASE q # p
      <4>1. pc'[q] = pc[q]
        BY <1>8, <3>2, Zenon
      <4> QED BY <1>1, <1>7, <4>1, Zenon DEF Flags
    <3> QED BY <3>1, <3>2, ZenonT(30)
  <2> QED BY <1>1, <1>6, <2>1, ZenonT(30) DEF Flags
<1>13. Served'
  <2>1. ASSUME NEW a \in Range(idequeue')
        PROVE  /\ \E q \in Ptrs : buf[a].owner = q /\ mine[q] = a /\ pc'[q] \in {"io", "test"}
               /\ ~buf[a].valid \/ buf[a].dirty
    <3>1. CASE a = b
      BY <1>3, <1>4, <1>8, <3>1, Zenon
    <3>2. CASE a # b
      <4>1. a \in Range(idequeue)
        BY <1>7, <3>2, Zenon
      <4>2. PICK q \in Ptrs : buf[a].owner = q /\ mine[q] = a /\ pc[q] \in {"io", "test"}
        BY <1>1, <4>1, Zenon DEF Served, DiskServesQueue
      <4> QED BY <1>1, <1>2, <1>8, <4>1, <4>2, Zenon DEF Served
    <3> QED BY <3>1, <3>2, Zenon
  <2>2. cmd' = idestart(buf, Head(idequeue'))
    <3>1. CASE idequeue = <<>>
      <4>1. idequeue' = <<b>> /\ Head(<<b>>) = b
        BY <1>7, <3>1
      <4> QED BY <1>6, <4>1, Zenon DEF Start
    <3>2. CASE idequeue # <<>>
      BY <1>1, <1>6, <1>7, <3>2, Zenon DEF Start, Served, DiskServesQueue
    <3> QED BY <3>1, <3>2, Zenon
  <2>3. cmd' # None
    <3>1. Head(idequeue') \in Bufs
      <4>1. Head(idequeue') \in Range(idequeue')
        BY <1>7, TailFacts, Zenon
      <4> QED BY <1>2, <1>7, <4>1, Zenon
    <3>2. idestart(buf, Head(idequeue')) \in [blockno : Blocks \cup {None}, write : BOOLEAN, data : Vals]
      BY <1>2, <3>1, Zenon DEF idestart, BufRec
    <3> QED BY <2>2, <3>2, CacheAssumption, Zenon
  <2>4. DiskServesQueue'
    BY <1>6, <1>7, <2>1, <2>2, <2>3, Zenon DEF DiskServesQueue, idestart
  <2> QED BY <1>6, <2>1, <2>4, Zenon DEF Served
<1>14. Clean' /\ PanicOnlyWhenFull'
  BY <1>1, <1>6, Zenon DEF Clean, PanicOnlyWhenFull
<1> QED BY <1>9, <1>10, <1>11, <1>12, <1>13, <1>14, Zenon DEF IInv

LEMMA IntrStep ==
  ASSUME IInv, NEW fails \in BOOLEAN, ideintr(fails)
  PROVE  IInv'
<1>1. Types /\ Names /\ Locks /\ Flags /\ Served /\ Clean /\ PanicOnlyWhenFull
  BY Zenon DEF IInv
<1>2. /\ buf \in [Bufs -> BufRec] /\ pc \in [Ptrs -> Labels] /\ disk \in [Blocks -> Vals]
      /\ idequeue \in Seq(Bufs) /\ IsInjective(idequeue) /\ Range(idequeue) \subseteq Bufs
  BY <1>1, TypeFacts, Zenon DEF Types, CacheTypeOK
<1>3. cmd # None /\ panic = None /\ UNCHANGED <<lru, mine, panic>> /\ idequeue # <<>>
  BY <1>1, Zenon DEF ideintr, Served, DiskServesQueue
<1>4. PICK b \in Range(idequeue) : b = Head(idequeue)
  BY <1>2, <1>3, TailFacts, Zenon
<1>5. b \in Bufs /\ cmd = [blockno |-> buf[b].blockno, write |-> buf[b].dirty, data |-> buf[b].data]
  BY <1>1, <1>2, <1>3, <1>4, Zenon DEF Served, DiskServesQueue, idestart
<1>6. PICK o \in Ptrs : buf[b].owner = o /\ mine[o] = b /\ pc[o] \in {"io", "test"}
  BY <1>1, Zenon DEF Served, DiskServesQueue
<1>7. buf[b].blockno \in Blocks /\ buf[b].blockno # None
  BY <1>1, <1>2, <1>5, <1>6 DEF Names, BufRec
<1> DEFINE k == buf[b].blockno
           new == IF fails \/ buf[b].dirty THEN buf[b].data ELSE disk[k]
<1>8. /\ buf' = [[buf EXCEPT ![b].data = new] EXCEPT ![b].valid = TRUE, ![b].dirty = FALSE]
      /\ disk' = IF buf[b].dirty THEN [disk EXCEPT ![k] = buf[b].data] ELSE disk
      /\ idequeue' = Tail(idequeue)
      /\ cmd' = NextCmd(buf', idequeue')
      /\ pc' = Woken(b, "io", "test")
      /\ faults' = IF fails THEN faults + 1 ELSE faults
      /\ fails => ~buf[b].dirty /\ faults < MaxFaults
  BY <1>4, <1>5, Zenon DEF ideintr
<1>9. new \in Vals
  BY <1>2, <1>5, <1>7, Zenon DEF BufRec
<1>10. /\ buf' \in [Bufs -> BufRec]
       /\ buf'[b].valid /\ ~buf'[b].dirty /\ buf'[b].data = new
       /\ \A a \in Bufs \ {b} : buf'[a] = buf[a]
       /\ \A a \in Bufs : /\ buf'[a].blockno = buf[a].blockno /\ buf'[a].owner = buf[a].owner
                          /\ buf'[a].refcnt = buf[a].refcnt
  <2> HIDE DEF new
  <2> QED BY <1>2, <1>5, <1>8, <1>9, ZenonT(30) DEF BufRec
<1>11. /\ idequeue' \in Seq(Bufs) /\ IsInjective(idequeue')
       /\ Range(idequeue') = Range(idequeue) \ {b}
       /\ idequeue' # <<>> => Head(idequeue') \in Range(idequeue) \ {b}
  BY <1>2, <1>3, <1>4, <1>8, TailFacts, Zenon
<1>12. /\ pc' \in [Ptrs -> Labels]
       /\ \A q \in Ptrs : pc'[q] = IF pc[q] = "io" /\ mine[q] = b THEN "test" ELSE pc[q]
  BY <1>2, <1>8, Zenon DEF Woken, Labels
<1>13. \A q \in Ptrs : /\ pc'[q] \in HoldsLock <=> pc[q] \in HoldsLock
                       /\ pc'[q] = "wait" <=> pc[q] = "wait"
                       /\ pc'[q] = "idle" <=> pc[q] = "idle"
  BY <1>12, Zenon DEF HoldsLock
<1>14. \A q \in Ptrs : pc[q] # "idle" => mine[q] \in Bufs
  BY <1>1, TypeFacts, Zenon DEF Names
<1>15. /\ disk' \in [Blocks -> Vals]
       /\ \A j \in Blocks : j # k => disk'[j] = disk[j]
       /\ disk'[k] = IF buf[b].dirty THEN buf[b].data ELSE disk[k]
  BY <1>2, <1>5, <1>7, <1>8, Zenon DEF BufRec
<1>16. faults' \in 0..MaxFaults /\ (faults > 0 => faults' > 0) /\ (fails => faults' > 0)
  <2>1. faults \in 0..MaxFaults
    BY <1>1, Zenon DEF Types, CacheTypeOK
  <2> QED BY <1>8, <2>1, Constants
<1>17. Types'
  <2>1. lru' = lru /\ Len(lru) = NBUF /\ Range(lru) = Bufs /\ lru \in Seq(Bufs)
    BY <1>1, <1>3, Zenon DEF Types, CacheTypeOK
  <2>2. mine' = mine /\ mine \in [Ptrs -> 0..NBUF]
    BY <1>1, <1>3, Zenon DEF Types, CacheTypeOK
  <2>3. CacheTypeOK'
    BY <1>10, <1>11, <1>15, <1>16, <2>1, <2>2 DEF CacheTypeOK, BufRec, Range
  <2> QED BY <1>11, <1>12, <2>1, <2>3, Zenon DEF Types
<1>18. Names'
  <2>1. \A a, c \in Bufs : buf'[a].blockno = buf'[c].blockno /\ buf'[a].blockno # None => a = c
    BY <1>1, <1>10 DEF Names
  <2>2. \A a \in Bufs : buf'[a].refcnt = Cardinality(Users(mine, a))
    BY <1>1, <1>10, Zenon DEF Names
  <2>3. \A q \in Ptrs : mine[q] # 0 => buf'[mine[q]].blockno # None
    BY <1>1, <1>10, <1>14, Zenon DEF Names
  <2>4. \A q \in Ptrs : mine[q] = 0 <=> pc'[q] = "idle"
    BY <1>1, <1>13, Zenon DEF Names
  <2> QED BY <1>3, <2>1, <2>2, <2>3, <2>4, Zenon DEF Names, Users
<1>19. Locks'
  <2>1. \A q \in Ptrs : pc[q] \in HoldsLock \cup {"wait"} => mine[q] \in Bufs
    BY <1>14, Zenon DEF HoldsLock
  <2> QED BY <1>1, <1>3, <1>10, <1>13, <2>1 DEF Locks
<1>20. Flags'
  <2>1. ASSUME NEW q \in Ptrs, pc[q] \in HoldsLock
        PROVE  mine[q] \in Bufs /\ (mine[q] = b => q = o)
    BY <1>1, <1>6, <1>14, <2>1, Zenon DEF Locks, HoldsLock
  <2>2. ASSUME NEW q \in Ptrs
        PROVE  /\ pc'[q] = "use" => buf'[mine[q]].valid
               /\ pc'[q] = "iderw" => ~buf'[mine[q]].valid \/ buf'[mine[q]].dirty
               /\ pc'[q] = "io" => mine[q] \in Range(idequeue')
               /\ pc'[q] = "test" =>
                    mine[q] \in Range(idequeue') \/ (buf'[mine[q]].valid /\ ~buf'[mine[q]].dirty)
    <3>1. CASE q = o
      <4>1. pc'[q] = "test"
        BY <1>6, <1>12, <3>1, Zenon
      <4> QED BY <1>6, <1>10, <3>1, <4>1, Zenon
    <3>2. CASE q # o /\ pc[q] \in HoldsLock
      <4>1. mine[q] \in Bufs \ {b} /\ pc'[q] = pc[q]
        BY <1>12, <2>1, <3>2, Zenon
      <4> QED BY <1>1, <1>10, <1>11, <4>1, ZenonT(30) DEF Flags
    <3>3. CASE pc[q] \notin HoldsLock
      BY <1>13, <3>3, Zenon DEF HoldsLock
    <3> QED BY <3>1, <3>2, <3>3, Zenon
  <2>3. \A a \in Bufs : buf'[a].dirty => buf'[a].valid
    BY <1>1, <1>10, Zenon DEF Flags
  <2> QED BY <1>3, <2>2, <2>3, Zenon DEF Flags
<1>21. Served'
  <2>1. ASSUME NEW a \in Range(idequeue')
        PROVE  /\ \E q \in Ptrs : buf'[a].owner = q /\ mine[q] = a /\ pc'[q] \in {"io", "test"}
               /\ ~buf'[a].valid \/ buf'[a].dirty
    <3>1. a \in Range(idequeue) /\ a \in Bufs \ {b}
      BY <1>2, <1>11, Zenon
    <3>2. PICK q \in Ptrs : buf[a].owner = q /\ mine[q] = a /\ pc[q] \in {"io", "test"}
      BY <1>1, <3>1, Zenon DEF Served, DiskServesQueue
    <3> QED BY <1>1, <1>10, <1>12, <3>1, <3>2, Zenon DEF Served
  <2>2. idequeue' # <<>> => cmd' = idestart(buf', Head(idequeue')) /\ cmd' # None
    <3> SUFFICES ASSUME idequeue' # <<>>
                 PROVE  cmd' = idestart(buf', Head(idequeue')) /\ cmd' # None
      BY Zenon
    <3>1. cmd' = idestart(buf', Head(idequeue')) /\ Head(idequeue') \in Bufs
      BY <1>2, <1>8, <1>11, Zenon DEF NextCmd
    <3>2. idestart(buf', Head(idequeue')) \in [blockno : Blocks \cup {None}, write : BOOLEAN, data : Vals]
      BY <1>10, <3>1, Zenon DEF idestart, BufRec
    <3> QED BY <3>1, <3>2, CacheAssumption, Zenon
  <2>3. idequeue' = <<>> => cmd' = None
    BY <1>8, Zenon DEF NextCmd
  <2>4. DiskServesQueue'
    BY <1>3, <2>1, <2>2, <2>3, Zenon DEF DiskServesQueue, idestart
  <2> QED BY <2>1, <2>4, Zenon DEF Served
<1>22. Clean'
  <2> SUFFICES ASSUME NEW a \in Bufs, buf'[a].valid, ~buf'[a].dirty, buf'[a].blockno # None
               PROVE  buf'[a].data = disk'[buf'[a].blockno] \/ faults' > 0
    BY Zenon DEF Clean
  <2>1. CASE a = b
    BY <1>10, <1>15, <1>16, <2>1, Zenon
  <2>2. CASE a # b
    <3>1. buf'[a] = buf[a]
      BY <1>10, <2>2, Zenon
    <3>2. buf[a].blockno # k /\ buf[a].blockno \in Blocks
      BY <1>1, <1>2, <1>5, <1>7, <2>2, <3>1, Zenon DEF Names, BufRec
    <3>3. disk'[buf[a].blockno] = disk[buf[a].blockno]
      BY <1>15, <3>2, Zenon
    <3> QED BY <1>1, <1>16, <3>1, <3>3, Zenon DEF Clean
  <2> QED BY <2>1, <2>2, Zenon
<1>23. PanicOnlyWhenFull'
  BY <1>3, Zenon DEF PanicOnlyWhenFull
<1> QED BY <1>17, <1>18, <1>19, <1>20, <1>21, <1>22, <1>23, Zenon DEF IInv

-----------------------------------------------------------------------------
(* bget, and the conclusions *)

(* bget finds no buffer only when each is pinned or in use. *)
LEMMA NoBuffers ==
  ASSUME Types, Names, Recyclable = {}
  PROVE  Cardinality({b \in Dirty : buf[b].refcnt = 0}) + Cardinality({p \in Ptrs : mine[p] # 0}) >= NBUF
<1> DEFINE Idle == {b \in Dirty : buf[b].refcnt = 0}
           H == {p \in Ptrs : mine[p] # 0}
           T == {mine[p] : p \in H}
           f == [p \in H |-> mine[p]]
<1>1. NBUF \in Nat /\ IsFiniteSet(Bufs) /\ Cardinality(Bufs) = NBUF
  BY Constants, FS_Interval DEF Bufs
<1>2. IsFiniteSet(Idle)
  <2>1. Idle \in SUBSET Bufs
    BY Zenon DEF Dirty
  <2> QED BY <1>1, <2>1, FS_Subset, Zenon
<1>3. IsFiniteSet(H)
  <2>1. H \in SUBSET Ptrs
    BY Zenon
  <2> QED BY <2>1, Constants, FS_Subset, Zenon
<1>4. IsFiniteSet(T) /\ Cardinality(T) <= Cardinality(H)
  <2>1. f \in Surjection(H, T)
    BY Zenon DEF Surjection
  <2> HIDE DEF f, H, T
  <2> QED BY <1>3, <2>1, FS_Surjection, Zenon
<1>5. Bufs \subseteq Idle \cup T
  <2> SUFFICES ASSUME NEW b \in Bufs, b \notin Idle
               PROVE  b \in T
    BY Zenon
  <2>1. PICK i \in Bufs : lru[i] = b
    <3>1. DOMAIN lru = Bufs /\ Range(lru) = Bufs
      BY Constants DEF Types, CacheTypeOK, Bufs
    <3> QED BY <3>1, Zenon DEF Range
  <2>2. buf[b].refcnt # 0
    BY <2>1, Zenon DEF Recyclable, Dirty
  <2>3. PICK p \in Ptrs : mine[p] = b
    <3>1. Users(mine, b) # {}
      BY <2>2, TypeFacts, UserFacts DEF Names
    <3> QED BY <3>1, Zenon DEF Users
  <2> QED BY <2>3, Constants, Zenon
<1>6. IsFiniteSet(Idle \cup T)
      /\ Cardinality(Idle \cup T) = Cardinality(Idle) + Cardinality(T) - Cardinality(Idle \cap T)
  <2> HIDE DEF Idle, T
  <2> QED BY <1>2, <1>4, FS_Union, Zenon
<1>7. NBUF <= Cardinality(Idle \cup T)
  <2> HIDE DEF Idle, T
  <2> QED BY <1>1, <1>5, <1>6, FS_Subset, Zenon
<1>8. /\ Cardinality(Idle \cap T) \in Nat /\ Cardinality(Idle) \in Nat
      /\ Cardinality(T) \in Nat /\ Cardinality(H) \in Nat
  <2>1. Idle \cap T \in SUBSET Idle
    BY Zenon
  <2> HIDE DEF Idle, H, T
  <2> QED BY <1>2, <1>3, <1>4, <2>1, FS_Subset, FS_CardinalityType, Zenon
<1>9. Cardinality(Idle) + Cardinality(H) >= NBUF
  <2> HIDE DEF Idle, H, T
  <2> QED BY <1>1, <1>4, <1>6, <1>7, <1>8
<1> QED BY <1>9, Zenon

\* What bget does to the buffer it finds for block k: a hit counts one more
\* user; a miss takes a buffer that nobody uses and that is not pinned.
FindsBuffer(p, b, k) ==
  /\ mine' = [mine EXCEPT ![p] = b] /\ pc' = [pc EXCEPT ![p] = "lock"]
  /\ UNCHANGED <<lru, idequeue, disk, cmd, faults, panic>>
  /\ buf' = [a \in Bufs |-> IF a = b THEN buf'[b] ELSE buf[a]]
  /\ buf'[b] \in [blockno : {k}, valid : BOOLEAN, dirty : {buf[b].dirty},
                  refcnt : {buf[b].refcnt + 1}, data : {buf[b].data}, owner : {buf[b].owner}]
  /\ \/ buf[b].blockno = k /\ buf'[b].valid = buf[b].valid
     \/ /\ ~buf'[b].valid /\ ~buf[b].dirty /\ Users(mine, b) = {}
        /\ \A a \in Bufs : buf[a].blockno # k

LEMMA BgetFinds ==
  ASSUME IInv, NEW p \in Ptrs, NEW k \in Blocks, bget(p, k)
  PROVE  \/ IInv' /\ UNCHANGED <<buf, lru, idequeue, disk, cmd, pc, mine, faults>>
         \/ \E b \in Bufs : FindsBuffer(p, b, k)
<1>1. Types /\ Names /\ Locks /\ Flags /\ Served /\ Clean /\ PanicOnlyWhenFull
  BY Zenon DEF IInv
<1>2. /\ buf \in [Bufs -> BufRec] /\ lru \in Seq(Bufs) /\ Len(lru) = NBUF
  BY <1>1, TypeFacts, Zenon DEF Types, CacheTypeOK
<1>3. CASE Cached(k) = {} /\ Recyclable = {}
  <2>1. panic' = "bget" /\ UNCHANGED <<buf, lru, idequeue, disk, cmd, pc, mine, faults>>
    BY <1>3, Zenon DEF bget
  <2>2. Cardinality({b \in Dirty : buf[b].refcnt = 0}) + Cardinality({q \in Ptrs : mine[q] # 0}) >= NBUF
    BY <1>1, <1>3, NoBuffers, Zenon
  <2>3. PanicOnlyWhenFull'
    BY <2>1, <2>2, Zenon DEF PanicOnlyWhenFull, Dirty
  <2>4. Types' /\ Names' /\ Locks' /\ Flags' /\ Served' /\ Clean'
    BY <1>1, <2>1 DEF Types, CacheTypeOK, Names, Locks, Flags, Served, DiskServesQueue, idestart,
                      Clean, Users
  <2> QED BY <2>1, <2>3, <2>4, Zenon DEF IInv
<1>4. CASE Cached(k) # {}
  <2>1. PICK b \in Cached(k) : b = CHOOSE a \in Cached(k) : TRUE
    BY <1>4, Zenon
  <2>2. /\ b \in Bufs /\ buf[b].blockno = k /\ buf[b] \in BufRec
        /\ buf' = Hit(b) /\ mine' = [mine EXCEPT ![p] = b] /\ pc' = [pc EXCEPT ![p] = "lock"]
        /\ UNCHANGED <<lru, idequeue, disk, cmd, faults, panic>>
    BY <1>2, <1>4, <2>1, Zenon DEF bget, Cached, Goto
  <2>3. /\ buf' = [a \in Bufs |-> IF a = b THEN buf'[b] ELSE buf[a]]
        /\ buf'[b] = [buf[b] EXCEPT !.refcnt = buf[b].refcnt + 1]
    BY <1>2, <2>2, ZenonT(30) DEF Hit
  <2>4. FindsBuffer(p, b, k)
    BY <2>2, <2>3, Zenon DEF FindsBuffer, BufRec
  <2> QED BY <2>2, <2>4, Zenon
<1>5. CASE Cached(k) = {} /\ Recyclable # {}
  <2>1. PICK i \in Recyclable : i = Max(Recyclable)
    BY <1>5, MaxIn, ZenonT(30) DEF Recyclable
  <2>2. i \in Bufs /\ buf[lru[i]].refcnt = 0 /\ ~buf[lru[i]].dirty
    BY <2>1, Zenon DEF Recyclable
  <2>3. PICK b \in Bufs : b = lru[i]
    BY <1>2, <2>2, Constants DEF Bufs
  <2>4. /\ buf' = Recycled(b, k) /\ mine' = [mine EXCEPT ![p] = b] /\ pc' = [pc EXCEPT ![p] = "lock"]
        /\ UNCHANGED <<lru, idequeue, disk, cmd, faults, panic>>
    BY <1>5, <2>1, <2>3, Zenon DEF bget, Goto
  <2>5. /\ buf' = [a \in Bufs |-> IF a = b THEN buf'[b] ELSE buf[a]]
        /\ buf'[b] = [buf[b] EXCEPT !.blockno = k, !.refcnt = 1, !.valid = FALSE]
    BY <1>2, <2>3, <2>4, ZenonT(30) DEF Recycled
  <2>6. Users(mine, b) = {} /\ \A a \in Bufs : buf[a].blockno # k
    BY <1>1, <1>5, <2>2, <2>3, TypeFacts, UserFacts, Zenon DEF Names, Cached
  <2>7. buf[b].refcnt + 1 = 1 /\ buf[b] \in BufRec /\ ~buf[b].dirty
    BY <1>2, <2>2, <2>3
  <2>8. FindsBuffer(p, b, k)
    BY <2>4, <2>5, <2>6, <2>7, ZenonT(30) DEF FindsBuffer, BufRec
  <2> QED BY <2>8, Zenon
<1> QED BY <1>3, <1>4, <1>5, Zenon

LEMMA FindStep ==
  ASSUME IInv, NEW p \in Ptrs, NEW k \in Blocks, NEW b \in Bufs, At(p, "idle"), FindsBuffer(p, b, k)
  PROVE  IInv'
<1>1. Types /\ Names /\ Locks /\ Flags /\ Served /\ Clean
  BY Zenon DEF IInv
<1>2. /\ buf \in [Bufs -> BufRec] /\ pc \in [Ptrs -> Labels] /\ mine \in [Ptrs -> 0..NBUF]
      /\ idequeue \in Seq(Bufs) /\ Range(idequeue) \subseteq Bufs
      /\ \A q \in Ptrs : mine[q] # 0 => mine[q] \in Bufs
  BY <1>1, TypeFacts, Zenon
<1>3. pc[p] = "idle" /\ panic = None /\ mine[p] = 0
  BY <1>1, Zenon DEF At, Names
<1>4. UNCHANGED <<lru, idequeue, disk, cmd, faults, panic>>
  BY Zenon DEF FindsBuffer
<1>5. /\ \A a \in Bufs \ {b} : buf'[a] = buf[a]
      /\ buf'[b].blockno = k /\ buf'[b].valid \in BOOLEAN /\ buf'[b].dirty = buf[b].dirty
      /\ buf'[b].refcnt = buf[b].refcnt + 1 /\ buf'[b].data = buf[b].data
      /\ buf'[b].owner = buf[b].owner
  BY Zenon DEF FindsBuffer
<1>6. \/ buf[b].blockno = k /\ buf'[b].valid = buf[b].valid
      \/ /\ ~buf'[b].valid /\ ~buf[b].dirty /\ Users(mine, b) = {}
         /\ \A a \in Bufs : buf[a].blockno # k
  BY Zenon DEF FindsBuffer
<1>7. /\ mine' \in [Ptrs -> 0..NBUF] /\ mine'[p] = b
      /\ \A q \in Ptrs \ {p} : mine'[q] = mine[q]
      /\ mine' = [mine EXCEPT ![p] = b]
  BY <1>2, Constants DEF FindsBuffer, Bufs
<1>8. /\ pc' \in [Ptrs -> Labels] /\ pc'[p] = "lock"
      /\ \A q \in Ptrs \ {p} : pc'[q] = pc[q]
  BY <1>2, Zenon DEF FindsBuffer, Labels
<1>9. /\ Cardinality(Users(mine', b)) = Cardinality(Users(mine, b)) + 1
      /\ \A a \in Bufs \ {b} : Users(mine', a) = Users(mine, a)
  BY <1>2, <1>3, <1>7, UserEnters, ZenonT(30)
<1>10. buf'[b].refcnt = Cardinality(Users(mine', b)) /\ buf'[b].refcnt \in 0..Cardinality(Ptrs)
  <2>1. buf[b].refcnt = Cardinality(Users(mine, b))
    BY <1>1, Zenon DEF Names
  <2>2. Cardinality(Users(mine', b)) \in 0..Cardinality(Ptrs)
    BY <1>7, UserFacts, ZenonT(30)
  <2> QED BY <1>5, <1>9, <2>1, <2>2, Zenon
<1>11. buf' \in [Bufs -> BufRec]
  <2>1. buf[b] \in BufRec /\ \A a \in Bufs : buf[a] \in BufRec
    BY <1>2, Zenon
  <2>2. buf'[b] \in BufRec
    BY <1>10, <2>1, Zenon DEF FindsBuffer, BufRec
  <2>3. buf' = [a \in Bufs |-> IF a = b THEN buf'[b] ELSE buf[a]]
    BY Zenon DEF FindsBuffer
  <2> QED BY <2>1, <2>2, <2>3, Zenon
<1>12. Types'
  BY <1>1, <1>4, <1>7, <1>8, <1>11, ZenonT(30) DEF Types, CacheTypeOK, BufRec
<1>13. k # None
  BY Constants, Zenon
<1>14. Names'
  <2>1. \A a, c \in Bufs : buf'[a].blockno = buf'[c].blockno /\ buf'[a].blockno # None => a = c
    <3>1. \A a \in Bufs \ {b} : buf[a].blockno # k
      BY <1>1, <1>6, <1>13, Zenon DEF Names
    <3> QED BY <1>1, <1>5, <3>1 DEF Names
  <2>2. \A a \in Bufs : buf'[a].refcnt = Cardinality(Users(mine', a))
    BY <1>1, <1>5, <1>9, <1>10 DEF Names
  <2>3. ASSUME NEW q \in Ptrs
        PROVE  /\ mine'[q] = 0 <=> pc'[q] = "idle"
               /\ mine'[q] # 0 => buf'[mine'[q]].blockno # None
    <3>1. CASE q = p
      BY <1>5, <1>7, <1>8, <1>13, <3>1, Constants, Zenon
    <3>2. CASE q # p
      <4>1. mine'[q] = mine[q] /\ pc'[q] = pc[q]
        BY <1>7, <1>8, <3>2, Zenon
      <4>2. mine[q] # 0 => buf'[mine[q]].blockno # None
        BY <1>1, <1>2, <1>5, <1>13, Zenon DEF Names
      <4> QED BY <1>1, <4>1, <4>2, Zenon DEF Names
    <3> QED BY <3>1, <3>2, Zenon
  <2> QED BY <2>1, <2>2, <2>3, Zenon DEF Names
<1>15. \A q \in Ptrs \ {p} : pc[q] # "idle" => mine[q] \in Bufs
  BY <1>1, <1>2, Zenon DEF Names
<1>16. \A a \in Bufs : buf'[a].owner = buf[a].owner
  BY <1>5, Zenon
<1>17. \A a \in Bufs : \A q \in Ptrs : buf[a].owner = q => q # p
  BY <1>1, <1>3, Zenon DEF Locks, HoldsLock
<1>18. \A a \in Bufs : Users(mine, a) # {} =>
         /\ buf'[a].blockno = buf[a].blockno /\ buf'[a].valid = buf[a].valid
         /\ buf'[a].dirty = buf[a].dirty /\ buf'[a].data = buf[a].data
  BY <1>5, <1>6, Zenon
<1>19. \A q \in Ptrs : mine[q] \in Bufs => Users(mine, mine[q]) # {}
  BY Zenon DEF Users
<1>20. Locks'
  <2>1. \A q \in Ptrs : pc'[q] \in HoldsLock \cup {"wait"} =>
          q # p /\ mine'[q] = mine[q] /\ pc'[q] = pc[q] /\ mine[q] \in Bufs
    BY <1>7, <1>8, <1>15, Zenon DEF HoldsLock
  <2>2. \A q \in Ptrs : pc'[q] \in HoldsLock => buf'[mine'[q]].owner = q
    BY <1>1, <1>16, <2>1 DEF Locks
  <2>3. \A a \in Bufs : \A q \in Ptrs : buf'[a].owner = q => mine'[q] = a /\ pc'[q] \in HoldsLock
    BY <1>1, <1>7, <1>8, <1>16, <1>17 DEF Locks
  <2>4. \A q \in Ptrs : pc'[q] = "wait" => buf'[mine'[q]].owner # None
    BY <1>1, <1>16, <2>1, Zenon DEF Locks
  <2> QED BY <2>2, <2>3, <2>4, Zenon DEF Locks
<1>21. Flags'
  <2>1. \A a \in Bufs : buf'[a].dirty => buf'[a].valid
    <3>1. buf'[b].dirty => buf'[b].valid
      BY <1>1, <1>5, <1>6, ZenonT(30) DEF Flags
    <3> QED BY <1>1, <1>5, <3>1, Zenon DEF Flags
  <2>2. ASSUME NEW q \in Ptrs
        PROVE  /\ pc'[q] = "use" => buf'[mine'[q]].valid
               /\ pc'[q] = "iderw" => ~buf'[mine'[q]].valid \/ buf'[mine'[q]].dirty
               /\ pc'[q] = "io" => mine'[q] \in Range(idequeue)
               /\ pc'[q] = "test" =>
                    mine'[q] \in Range(idequeue) \/ (buf'[mine'[q]].valid /\ ~buf'[mine'[q]].dirty)
    <3>1. CASE q = p \/ pc[q] = "idle"
      BY <1>8, <3>1, Zenon
    <3>2. CASE q # p /\ pc[q] # "idle"
      <4>1. mine'[q] = mine[q] /\ pc'[q] = pc[q] /\ mine[q] \in Bufs
        BY <1>7, <1>8, <1>15, <3>2, Zenon
      <4>2. buf'[mine[q]].valid = buf[mine[q]].valid /\ buf'[mine[q]].dirty = buf[mine[q]].dirty
        BY <1>18, <1>19, <4>1, Zenon
      <4> QED BY <1>1, <4>1, <4>2, Zenon DEF Flags
    <3> QED BY <3>1, <3>2, Zenon
  <2> QED BY <1>4, <2>1, <2>2, Zenon DEF Flags
<1>22. Served'
  <2>1. ASSUME NEW a \in Range(idequeue)
        PROVE  /\ a \in Bufs /\ Users(mine, a) # {}
               /\ \E q \in Ptrs : buf'[a].owner = q /\ mine'[q] = a /\ pc'[q] \in {"io", "test"}
               /\ ~buf'[a].valid \/ buf'[a].dirty
    <3>1. PICK q \in Ptrs : buf[a].owner = q /\ mine[q] = a /\ pc[q] \in {"io", "test"}
      BY <1>1, <2>1, Zenon DEF Served, DiskServesQueue
    <3>2. a \in Bufs /\ q # p /\ Users(mine, a) # {}
      BY <1>2, <1>3, <1>19, <2>1, <3>1, Zenon
    <3>3. mine'[q] = a /\ pc'[q] = pc[q] /\ buf'[a].owner = q
      BY <1>7, <1>8, <1>16, <3>1, <3>2, Zenon
    <3> QED BY <1>1, <1>18, <2>1, <3>1, <3>2, <3>3, Zenon DEF Served
  <2>2. idequeue # <<>> => cmd = idestart(buf', Head(idequeue))
    <3> SUFFICES ASSUME idequeue # <<>>
                 PROVE  cmd = idestart(buf', Head(idequeue))
      BY Zenon
    <3>1. PICK a \in Range(idequeue) : a = Head(idequeue)
      BY <1>1, <1>2, TailFacts, TypeFacts, Zenon
    <3>2. cmd = idestart(buf, a)
      BY <1>1, <3>1, Zenon DEF Served, DiskServesQueue
    <3> QED BY <1>18, <2>1, <3>1, <3>2, Zenon DEF idestart
  <2>3. cmd = None <=> idequeue = <<>>
    BY <1>1, Zenon DEF Served, DiskServesQueue
  <2>4. DiskServesQueue'
    BY <1>4, <2>1, <2>2, <2>3, Zenon DEF DiskServesQueue, idestart
  <2> QED BY <1>4, <2>1, <2>4, Zenon DEF Served
<1>23. Clean'
  <2> SUFFICES ASSUME NEW a \in Bufs, buf'[a].valid, ~buf'[a].dirty, buf'[a].blockno # None
               PROVE  buf'[a].data = disk[buf'[a].blockno] \/ faults > 0
    BY <1>4, Zenon DEF Clean
  <2>1. /\ buf[a].valid /\ ~buf[a].dirty /\ buf[a].blockno = buf'[a].blockno
        /\ buf[a].data = buf'[a].data
    BY <1>5, <1>6, Zenon
  <2> QED BY <1>1, <2>1, Zenon DEF Clean
<1>24. PanicOnlyWhenFull'
  BY <1>3, <1>4, Zenon DEF PanicOnlyWhenFull
<1> QED BY <1>12, <1>14, <1>20, <1>21, <1>22, <1>23, <1>24, Zenon DEF IInv

LEMMA BgetStep ==
  ASSUME IInv, NEW p \in Ptrs, NEW k \in Blocks, bget(p, k)
  PROVE  IInv'
<1>1. CASE IInv'
  BY <1>1, Zenon
<1>2. CASE \E b \in Bufs : FindsBuffer(p, b, k)
  <2>1. At(p, "idle")
    BY Zenon DEF bget
  <2> QED BY <1>2, <2>1, FindStep, Zenon
<1> QED BY <1>1, <1>2, BgetFinds, Zenon

LEMMA StepInv ==
  ASSUME IInv, [Next]_vars
  PROVE  IInv'
<1>1. ASSUME NEW p \in Ptrs, iderw_test(p)
      PROVE  IInv'
  <2>1. /\ pc[p] = "test"
        /\ pc' = [pc EXCEPT ![p] = IF buf[mine[p]].valid /\ ~buf[mine[p]].dirty THEN "use" ELSE "io"]
        /\ UNCHANGED <<buf, lru, idequeue, disk, cmd, mine, faults, panic>>
    BY <1>1, Zenon DEF iderw_test, At, Goto
  <2>2. CASE buf[mine[p]].valid /\ ~buf[mine[p]].dirty
    <3>1. pc' = [pc EXCEPT ![p] = "use"] /\ "use" \in Labels
      BY <2>1, <2>2, Zenon DEF Labels
    <3> QED BY <2>1, <2>2, <3>1, MoveStep, ZenonT(30)
  <2>3. CASE ~(buf[mine[p]].valid /\ ~buf[mine[p]].dirty)
    <3>1. pc' = [pc EXCEPT ![p] = "io"] /\ "io" \in Labels
      BY <2>1, <2>3, ZenonT(30) DEF Labels
    <3> QED BY <2>1, <2>3, <3>1, MoveStep, ZenonT(30)
  <2> QED BY <2>2, <2>3, Zenon
<1>2. ASSUME NEW p \in Ptrs, kill(p)
      PROVE  IInv'
  <2>1. /\ pc[p] = "wait" \/ pc[p] = "io"
        /\ pc' = [pc EXCEPT ![p] = IF pc[p] = "wait" THEN "lock" ELSE "test"]
        /\ UNCHANGED <<buf, lru, idequeue, disk, cmd, mine, faults, panic>>
    BY <1>2, Zenon DEF kill, At, Goto
  <2>2. CASE pc[p] = "wait"
    <3>1. pc' = [pc EXCEPT ![p] = "lock"] /\ "lock" \in Labels
      BY <2>1, <2>2, Zenon DEF Labels
    <3> QED BY <2>1, <2>2, <3>1, MoveStep, ZenonT(30)
  <2>3. CASE pc[p] = "io"
    <3>1. pc' = [pc EXCEPT ![p] = "test"] /\ "test" \in Labels
      BY <2>1, <2>3, Zenon DEF Labels
    <3> QED BY <2>1, <2>3, <3>1, MoveStep, ZenonT(30)
  <2> QED BY <2>1, <2>2, <2>3, Zenon
<1>3. ASSUME NEW p \in Ptrs, Step(p)
      PROVE  IInv'
  BY <1>1, <1>3, AcquireStep, IderwStep, ReleaseStep, BrelseStep, Zenon DEF Step
<1>4. CASE UNCHANGED vars
  BY <1>4, StutterStep, Zenon
<1> QED BY <1>2, <1>3, <1>4, BgetStep, WriteStep, IntrStep, Zenon DEF Next

LEMMA CacheInvariance == Spec => []IInv
<1>1. Init => IInv
  BY InitInv, Zenon
<1>2. IInv /\ [Next]_vars => IInv'
  BY StepInv, Zenon
<1> QED BY <1>1, <1>2, PTL DEF Spec

(* However processes interleave bget, brelse and the disk, with any number  *)
(* of buffers, of which a process may hold several, and of read errors: a   *)
(* block is in one buffer at most, refcnt counts the calls of bget without  *)
(* their brelse, and the only panic is bget's, when the buffers in use and  *)
(* those the log pins and nobody uses are all there are.                    *)
THEOREM CacheStaysConsistent == Spec => []CacheConsistent
<1>1. IInv => CacheConsistent
  <2> SUFFICES ASSUME IInv
               PROVE  CacheConsistent
    BY Zenon
  <2>1. Types /\ Names /\ PanicOnlyWhenFull
    BY Zenon DEF IInv
  <2>2. ASSUME NEW k \in Blocks
        PROVE  Cardinality(Cached(k)) <= 1
    <3>1. CASE Cached(k) = {}
      BY <3>1, FS_EmptySet
    <3>2. CASE Cached(k) # {}
      <4>1. PICK b \in Cached(k) : TRUE
        BY <3>2, Zenon
      <4>2. Cached(k) = {b}
        BY <2>1, <4>1, Constants DEF Names, Cached
      <4>3. Cardinality({b}) = 1
        BY FS_Singleton, Zenon
      <4> QED BY <4>2, <4>3
    <3> QED BY <3>1, <3>2, Zenon
  <2>3. \A b \in Bufs : buf[b].refcnt = Cardinality({p \in Ptrs : mine[p] = b})
    BY <2>1, Zenon DEF Names, Users
  <2> QED BY <2>1, <2>2, <2>3, ZenonT(30) DEF CacheConsistent, OneBufferPerBlock, Types
<1> QED BY <1>1, CacheInvariance, PTL

(* The disk executes the request of the first buffer in idequeue and none   *)
(* else, and a process asleep in acquiresleep or iderw waits for a lock     *)
(* that is held or for a request that is queued: its wakeup is to come.     *)
THEOREM CacheServesQueue == Spec => []QueueServed
<1>1. IInv => QueueServed
  BY Zenon DEF IInv, QueueServed, Served, SleepersHaveCause, Flags, Locks
<1> QED BY <1>1, CacheInvariance, PTL

-----------------------------------------------------------------------------
(* What the users of blocks see *)

\* The process that holds a sleep lock through pointer o.
Holder(o) == IF o = None THEN None ELSE o[1]

\* The buffer of a block shows its contents and its user; a block without a
\* buffer is what the disk holds.
Shown ==
  /\ \A b \in Bufs : buf[b].blockno # None =>
       /\ Content(buf[b].blockno) = IF buf[b].valid THEN buf[b].data ELSE disk[buf[b].blockno]
       /\ User(buf[b].blockno) = Holder(buf[b].owner)
  /\ \A k \in Blocks : (\A b \in Bufs : buf[b].blockno # k) => Content(k) = disk[k] /\ User(k) = None
  /\ \A k \in Blocks : Content(k) \in Vals

LEMMA Shows == IInv => Shown
<1> SUFFICES ASSUME IInv
             PROVE  Shown
  BY Zenon
<1>1. Types /\ Names /\ buf \in [Bufs -> BufRec] /\ disk \in [Blocks -> Vals]
  BY TypeFacts, Zenon DEF IInv, Types, CacheTypeOK
<1>2. ASSUME NEW b \in Bufs, buf[b].blockno # None
      PROVE  /\ Content(buf[b].blockno) = IF buf[b].valid THEN buf[b].data ELSE disk[buf[b].blockno]
             /\ User(buf[b].blockno) = Holder(buf[b].owner)
  <2>1. Cached(buf[b].blockno) = {b}
    BY <1>1, <1>2, Zenon DEF Names, Cached
  <2>2. (CHOOSE a \in {b} : TRUE) = b
    BY Zenon
  <2> QED BY <2>1, <2>2 DEF Content, User, Locked, Holder
<1>3. ASSUME NEW k \in Blocks, \A b \in Bufs : buf[b].blockno # k
      PROVE  Content(k) = disk[k] /\ User(k) = None
  <2>1. Cached(k) = {}
    BY <1>3, Zenon DEF Cached
  <2> QED BY <2>1, Zenon DEF Content, User
<1>4. ASSUME NEW k \in Blocks
      PROVE  Content(k) \in Vals
  <2>1. CASE \E b \in Bufs : buf[b].blockno = k
    <3>1. PICK b \in Bufs : buf[b].blockno = k
      BY <2>1, Zenon
    <3>2. Content(k) = IF buf[b].valid THEN buf[b].data ELSE disk[k]
      BY <1>2, <3>1, Constants, Zenon
    <3> QED BY <1>1, <3>2, Zenon DEF BufRec
  <2>2. CASE \A b \in Bufs : buf[b].blockno # k
    BY <1>1, <1>3, <2>2, Zenon
  <2> QED BY <2>1, <2>2, Zenon
<1> QED BY <1>2, <1>3, <1>4, Zenon DEF Shown

(* A step that leaves the buffer of a block alone does not change the block. *)
LEMMA SameBlock ==
  ASSUME Shown, Shown', NEW k \in Blocks, disk'[k] = disk[k],
         \A b \in Bufs : /\ buf'[b].blockno = k <=> buf[b].blockno = k
                         /\ buf[b].blockno = k => /\ buf'[b].valid = buf[b].valid
                                                  /\ buf'[b].data = buf[b].data
                                                  /\ buf'[b].owner = buf[b].owner
  PROVE  Content(k)' = Content(k) /\ User(k)' = User(k)
<1>1. CASE \E b \in Bufs : buf[b].blockno = k
  <2>1. PICK b \in Bufs : buf[b].blockno = k /\ buf'[b].blockno = k
    BY <1>1, Zenon
  <2>2. /\ Content(k) = IF buf[b].valid THEN buf[b].data ELSE disk[k]
        /\ User(k) = Holder(buf[b].owner)
    BY <2>1, Constants DEF Shown
  <2>3. /\ Content(k)' = IF buf'[b].valid THEN buf'[b].data ELSE disk'[k]
        /\ User(k)' = Holder(buf'[b].owner)
    BY <2>1, Constants DEF Shown
  <2> QED BY <2>1, <2>2, <2>3
<1>2. CASE \A b \in Bufs : buf[b].blockno # k
  <2>1. Content(k) = disk[k] /\ User(k) = None
    BY <1>2, Zenon DEF Shown
  <2>2. Content(k)' = disk'[k] /\ User(k)' = None
    BY <1>2, Zenon DEF Shown
  <2> QED BY <2>1, <2>2, Zenon
<1> QED BY <1>1, <1>2, Zenon

content == [k \in Blocks |-> Content(k)]
user == [k \in Blocks |-> User(k)]

(* A step that changes one block is one of the store's if it takes, gives,  *)
(* changes or damages that block.                                           *)
LEMMA OneBlock ==
  ASSUME NEW k \in Blocks,
         \A j \in Blocks \ {k} : Content(j)' = Content(j) /\ User(j)' = User(j)
  PROVE  /\ content' = [content EXCEPT ![k] = Content(k)']
         /\ user' = [user EXCEPT ![k] = User(k)']
         /\ Content(k)' = Content(k) => content' = content
         /\ User(k)' = User(k) => user' = user
BY ZenonT(30) DEF content, user

LEMMA StoreSteps ==
  ASSUME NEW p \in Procs, NEW k \in Blocks
  PROVE  /\ /\ user[k] = None
            /\ user' = [user EXCEPT ![k] = p] /\ content' = content /\ faults' = faults
            => BS!Take(p, k)
         /\ /\ user[k] = p /\ \E v \in Vals : content' = [content EXCEPT ![k] = v]
            /\ user' = user /\ faults' = faults
            => BS!Change(p, k)
         /\ /\ user[k] = p /\ user' = [user EXCEPT ![k] = None]
            /\ content' = content /\ faults' = faults
            => BS!Give(p, k)
BY Zenon DEF BS!Take, BS!Change, BS!Give, content, user

LEMMA StoreDamage ==
  ASSUME NEW k \in Blocks, faults' \in faults..MaxFaults, faults' > 0,
         \E v \in Vals : content' = [content EXCEPT ![k] = v], user' = user
  PROVE  BS!Damage(k)
BY ZenonT(30) DEF BS!Damage, content, user

(* Steps that change no block, its flags and its lock included. *)
LEMMA QuietBlocks ==
  ASSUME Shown, Shown', UNCHANGED <<disk, faults>>,
         \A b \in Bufs : /\ buf'[b].blockno = buf[b].blockno /\ buf'[b].valid = buf[b].valid
                         /\ buf'[b].data = buf[b].data /\ buf'[b].owner = buf[b].owner
  PROVE  UNCHANGED <<content, user, faults>>
<1>1. ASSUME NEW k \in Blocks
      PROVE  Content(k)' = Content(k) /\ User(k)' = User(k)
  BY SameBlock, Zenon
<1> QED BY <1>1, Zenon DEF content, user

LEMMA AcquireTakes ==
  ASSUME IInv, Shown, Shown', NEW p \in Ptrs, acquiresleep(p)
  PROVE  UNCHANGED <<content, user, faults>> \/ \E k \in Blocks : BS!Take(p[1], k)
<1>1. Types /\ Names /\ Locks
  BY Zenon DEF IInv
<1>2. /\ buf \in [Bufs -> BufRec] /\ pc[p] = "lock" /\ mine[p] \in Bufs
      /\ UNCHANGED <<disk, faults>>
  BY <1>1, TypeFacts, Zenon DEF acquiresleep, At, Names
<1>3. CASE Locked(mine[p])
  <2>1. buf' = buf
    BY <1>3, Zenon DEF acquiresleep
  <2> QED BY <1>2, <2>1, QuietBlocks, Zenon
<1>4. CASE ~Locked(mine[p])
  <2>1. PICK b \in Bufs : b = mine[p]
    BY <1>2, Zenon
  <2>2. buf' = [buf EXCEPT ![b].owner = p] /\ buf[b].owner = None
    BY <1>4, <2>1, Zenon DEF acquiresleep, Locked
  <2>3. PICK k \in Blocks : k = buf[b].blockno /\ k # None
    BY <1>1, <1>2, <2>1, Constants, Zenon DEF Names, BufRec
  <2>4. /\ \A a \in Bufs \ {b} : buf'[a] = buf[a]
        /\ buf'[b].blockno = k /\ buf'[b].valid = buf[b].valid /\ buf'[b].data = buf[b].data
        /\ buf'[b].owner = p
    BY <1>2, <2>2, <2>3, Zenon DEF BufRec
  <2>5. \A a \in Bufs \ {b} : buf[a].blockno # k /\ buf'[a].blockno # k
    BY <1>1, <2>3, <2>4 DEF Names
  <2>6. ASSUME NEW j \in Blocks \ {k}
        PROVE  Content(j)' = Content(j) /\ User(j)' = User(j)
    <3>1. \A a \in Bufs : /\ buf'[a].blockno = j <=> buf[a].blockno = j
                          /\ buf[a].blockno = j => buf'[a] = buf[a]
      BY <2>3, <2>4, Zenon
    <3> QED BY <1>2, <3>1, SameBlock, Zenon
  <2>7. Content(k)' = Content(k) /\ User(k) = None /\ User(k)' = p[1]
    <3>1. Content(k) = (IF buf[b].valid THEN buf[b].data ELSE disk[k]) /\ User(k) = Holder(buf[b].owner)
      BY <2>3, Zenon DEF Shown
    <3>2. Content(k)' = (IF buf'[b].valid THEN buf'[b].data ELSE disk'[k]) /\ User(k)' = Holder(buf'[b].owner)
      BY <2>3, <2>4, Zenon DEF Shown
    <3> QED BY <1>2, <2>2, <2>4, <3>1, <3>2, Constants, Zenon DEF Holder
  <2>8. content' = content /\ user' = [user EXCEPT ![k] = p[1]] /\ user[k] = None
    <3>1. user[k] = User(k)
      BY Zenon DEF user
    <3> QED BY <2>6, <2>7, <3>1, OneBlock, Zenon
  <2>9. BS!Take(p[1], k)
    BY <1>2, <2>8, Constants, StoreSteps, ZenonT(30)
  <2> QED BY <2>9, Zenon
<1> QED BY <1>3, <1>4, Zenon

LEMMA WriteChangesBlock ==
  ASSUME IInv, Shown, Shown', NEW p \in Ptrs, NEW v \in Vals, NEW label \in {"use", "iderw"},
         Changes(p, v, label)
  PROVE  \E k \in Blocks : BS!Change(p[1], k)
<1>1. Types /\ Names /\ Locks /\ Flags
  BY Zenon DEF IInv
<1>2. /\ buf \in [Bufs -> BufRec] /\ pc[p] = "use" /\ mine[p] \in Bufs
      /\ UNCHANGED <<disk, faults>>
  BY <1>1, TypeFacts, Zenon DEF Changes, Names
<1>3. PICK b \in Bufs : b = mine[p] /\ buf[b].owner = p /\ buf[b].valid
  BY <1>1, <1>2, Zenon DEF Locks, Flags, HoldsLock
<1>4. PICK k \in Blocks : k = buf[b].blockno /\ k # None
  BY <1>1, <1>2, <1>3, Constants, Zenon DEF Names, BufRec
<1>5. buf' = [buf EXCEPT ![b].data = v, ![b].dirty = TRUE]
  BY <1>3, Zenon DEF Changes
<1>6. /\ \A a \in Bufs \ {b} : buf'[a] = buf[a]
      /\ buf'[b].blockno = k /\ buf'[b].valid /\ buf'[b].data = v /\ buf'[b].owner = p
  BY <1>2, <1>3, <1>4, <1>5 DEF BufRec
<1>7. ASSUME NEW j \in Blocks \ {k}
      PROVE  Content(j)' = Content(j) /\ User(j)' = User(j)
  <2>1. \A a \in Bufs : /\ buf'[a].blockno = j <=> buf[a].blockno = j
                        /\ buf[a].blockno = j => buf'[a] = buf[a]
    BY <1>4, <1>6, Zenon
  <2> QED BY <1>2, <2>1, SameBlock, Zenon
<1>8. Content(k)' = v /\ User(k) = p[1] /\ User(k)' = p[1]
  <2>1. User(k) = Holder(buf[b].owner)
    BY <1>4, Zenon DEF Shown
  <2>2. Content(k)' = (IF buf'[b].valid THEN buf'[b].data ELSE disk'[k]) /\ User(k)' = Holder(buf'[b].owner)
    BY <1>4, <1>6, Zenon DEF Shown
  <2> QED BY <1>3, <1>6, <2>1, <2>2, Constants, Zenon DEF Holder
<1>9. user[k] = p[1] /\ content' = [content EXCEPT ![k] = v] /\ user' = user
  <2>1. user[k] = User(k)
    BY Zenon DEF user
  <2> QED BY <1>7, <1>8, <2>1, OneBlock, Zenon
<1>10. BS!Change(p[1], k)
  BY <1>2, <1>9, Constants, StoreSteps, ZenonT(30)
<1> QED BY <1>10, Zenon

LEMMA ReleaseGives ==
  ASSUME IInv, Shown, Shown', NEW p \in Ptrs, releasesleep(p)
  PROVE  \E k \in Blocks : BS!Give(p[1], k)
<1>1. Types /\ Names /\ Locks
  BY Zenon DEF IInv
<1>2. /\ buf \in [Bufs -> BufRec] /\ pc[p] = "use" /\ mine[p] \in Bufs
      /\ UNCHANGED <<disk, faults>>
  BY <1>1, TypeFacts, Zenon DEF releasesleep, At, Names
<1>3. PICK b \in Bufs : b = mine[p] /\ buf[b].owner = p /\ holdingsleep(p, b)
  BY <1>1, <1>2, HolderHolds, Zenon DEF Locks, HoldsLock
<1>4. PICK k \in Blocks : k = buf[b].blockno /\ k # None
  BY <1>1, <1>2, <1>3, Constants DEF Names, BufRec
<1>5. buf' = [buf EXCEPT ![b].owner = None]
  BY <1>3, Zenon DEF releasesleep
<1>6. /\ \A a \in Bufs \ {b} : buf'[a] = buf[a]
      /\ buf'[b].blockno = k /\ buf'[b].valid = buf[b].valid /\ buf'[b].data = buf[b].data
      /\ buf'[b].owner = None
  BY <1>2, <1>4, <1>5, Zenon DEF BufRec
<1>7. ASSUME NEW j \in Blocks \ {k}
      PROVE  Content(j)' = Content(j) /\ User(j)' = User(j)
  <2>1. \A a \in Bufs : /\ buf'[a].blockno = j <=> buf[a].blockno = j
                        /\ buf[a].blockno = j => buf'[a] = buf[a]
    BY <1>4, <1>6, Zenon
  <2> QED BY <1>2, <2>1, SameBlock, Zenon
<1>8. Content(k)' = Content(k) /\ User(k) = p[1] /\ User(k)' = None
  <2>1. Content(k) = (IF buf[b].valid THEN buf[b].data ELSE disk[k]) /\ User(k) = Holder(buf[b].owner)
    BY <1>4, Zenon DEF Shown
  <2>2. Content(k)' = (IF buf'[b].valid THEN buf'[b].data ELSE disk'[k]) /\ User(k)' = Holder(buf'[b].owner)
    BY <1>4, <1>6, Zenon DEF Shown
  <2> QED BY <1>2, <1>3, <1>6, <2>1, <2>2, Constants, Zenon DEF Holder
<1>9. user[k] = p[1] /\ user' = [user EXCEPT ![k] = None] /\ content' = content
  <2>1. user[k] = User(k)
    BY Zenon DEF user
  <2> QED BY <1>7, <1>8, <2>1, OneBlock, Zenon
<1>10. BS!Give(p[1], k)
  BY <1>2, <1>9, Constants, StoreSteps, ZenonT(30)
<1> QED BY <1>10, Zenon

(* bget recycles a buffer that is neither used nor dirty: its old block is  *)
(* what the disk holds, unless the buffer missed a read error.              *)
LEMMA FindKeepsBlocks ==
  ASSUME IInv, Shown, Shown', NEW p \in Ptrs, NEW k \in Blocks, NEW b \in Bufs,
         FindsBuffer(p, b, k)
  PROVE  UNCHANGED <<content, user, faults>> \/ \E j \in Blocks : BS!Damage(j)
<1>1. Types /\ Names /\ Locks /\ Clean
  BY Zenon DEF IInv
<1>2. /\ buf \in [Bufs -> BufRec] /\ disk \in [Blocks -> Vals] /\ faults \in 0..MaxFaults
      /\ UNCHANGED <<disk, faults>>
  BY <1>1, TypeFacts, Zenon DEF FindsBuffer, Types, CacheTypeOK
<1>3. /\ \A a \in Bufs \ {b} : buf'[a] = buf[a]
      /\ buf'[b].blockno = k /\ buf'[b].data = buf[b].data /\ buf'[b].owner = buf[b].owner
  BY Zenon DEF FindsBuffer
<1>4. CASE buf[b].blockno = k /\ buf'[b].valid = buf[b].valid
  BY <1>2, <1>3, <1>4, QuietBlocks, Zenon
<1>5. CASE /\ ~buf'[b].valid /\ ~buf[b].dirty /\ Users(mine, b) = {}
           /\ \A a \in Bufs : buf[a].blockno # k
  <2>1. buf[b].owner = None
    BY <1>1, <1>2, <1>5 DEF Locks, Users, BufRec
  <2>2. Content(k)' = Content(k) /\ User(k)' = User(k)
    <3>1. Content(k) = disk[k] /\ User(k) = None
      BY <1>5, Zenon DEF Shown
    <3>2. Content(k)' = (IF buf'[b].valid THEN buf'[b].data ELSE disk'[k]) /\ User(k)' = Holder(buf'[b].owner)
      BY <1>3, Constants, Zenon DEF Shown
    <3> QED BY <1>2, <1>3, <1>5, <2>1, <3>1, <3>2, Zenon DEF Holder
  <2>3. ASSUME NEW j \in Blocks \ {k}, j # buf[b].blockno
        PROVE  Content(j)' = Content(j) /\ User(j)' = User(j)
    <3>1. \A a \in Bufs : /\ buf'[a].blockno = j <=> buf[a].blockno = j
                          /\ buf[a].blockno = j => buf'[a] = buf[a]
      BY <1>3, <2>3, Zenon
    <3> QED BY <1>2, <3>1, SameBlock, Zenon
  <2>4. CASE buf[b].blockno = None
    <3>1. \A j \in Blocks : Content(j)' = Content(j) /\ User(j)' = User(j)
      BY <2>2, <2>3, <2>4, Constants, Zenon
    <3> QED BY <1>2, <3>1, Zenon DEF content, user
  <2>5. CASE buf[b].blockno # None
    <3>1. PICK j \in Blocks : j = buf[b].blockno /\ j # None
      BY <1>2, <2>5, Zenon DEF BufRec
    <3>2. \A i \in Blocks \ {j} : Content(i)' = Content(i) /\ User(i)' = User(i)
      BY <2>2, <2>3, <3>1, Zenon
    <3>3. Content(j) = (IF buf[b].valid THEN buf[b].data ELSE disk[j]) /\ User(j) = None
      BY <2>1, <3>1, Zenon DEF Shown, Holder
    <3>4. Content(j)' = disk[j] /\ User(j)' = None
      <4>1. \A a \in Bufs : buf'[a].blockno # j
        BY <1>1, <1>3, <1>5, <3>1, Zenon DEF Names
      <4> QED BY <1>2, <4>1, Zenon DEF Shown
    <3>5. user' = user /\ content' = [content EXCEPT ![j] = disk[j]]
          /\ (Content(j) = disk[j] => content' = content)
      BY <3>2, <3>3, <3>4, OneBlock, Zenon
    <3>6. Content(j) = disk[j] \/ faults > 0
      BY <1>1, <1>5, <3>1, <3>3, Zenon DEF Clean
    <3>7. CASE Content(j) = disk[j]
      BY <1>2, <3>5, <3>7, Zenon
    <3>8. CASE faults > 0
      <4>1. faults' \in faults..MaxFaults /\ faults' > 0
        BY <1>2, <3>8, Constants
      <4>2. BS!Damage(j)
        BY <1>2, <3>5, <4>1, StoreDamage, ZenonT(30)
      <4> QED BY <4>2, Zenon
    <3> QED BY <3>6, <3>7, <3>8, Zenon
  <2> QED BY <2>4, <2>5, Zenon
<1> QED BY <1>4, <1>5, Zenon DEF FindsBuffer

(* ideintr writes what the block already shows, or fetches it; only a read  *)
(* that fails shows something else.                                         *)
LEMMA IntrKeepsBlocks ==
  ASSUME IInv, Shown, Shown', NEW fails \in BOOLEAN, ideintr(fails)
  PROVE  UNCHANGED <<content, user, faults>> \/ \E j \in Blocks : BS!Damage(j)
<1>1. Types /\ Names /\ Flags /\ Served
  BY Zenon DEF IInv
<1>2. /\ buf \in [Bufs -> BufRec] /\ disk \in [Blocks -> Vals] /\ faults \in 0..MaxFaults
      /\ idequeue \in Seq(Bufs) /\ IsInjective(idequeue) /\ Range(idequeue) \subseteq Bufs
  BY <1>1, TypeFacts, Zenon DEF Types, CacheTypeOK
<1>3. cmd # None /\ idequeue # <<>>
  BY <1>1, Zenon DEF ideintr, Served, DiskServesQueue
<1>4. PICK b \in Range(idequeue) : b = Head(idequeue)
  BY <1>2, <1>3, TailFacts, Zenon
<1>5. /\ b \in Bufs /\ (~buf[b].valid \/ buf[b].dirty) /\ (buf[b].dirty => buf[b].valid)
      /\ cmd = [blockno |-> buf[b].blockno, write |-> buf[b].dirty, data |-> buf[b].data]
  BY <1>1, <1>2, <1>3, <1>4, Zenon DEF Served, DiskServesQueue, idestart, Flags
<1>6. PICK o \in Ptrs : mine[o] = b
  BY <1>1, Zenon DEF Served, DiskServesQueue
<1>7. PICK k \in Blocks : k = buf[b].blockno /\ k # None
  BY <1>1, <1>2, <1>5, <1>6, Constants, Zenon DEF Names, BufRec
<1> DEFINE new == IF fails \/ buf[b].dirty THEN buf[b].data ELSE disk[k]
<1>8. /\ buf' = [[buf EXCEPT ![b].data = new] EXCEPT ![b].valid = TRUE, ![b].dirty = FALSE]
      /\ disk' = IF buf[b].dirty THEN [disk EXCEPT ![k] = buf[b].data] ELSE disk
      /\ faults' = IF fails THEN faults + 1 ELSE faults
      /\ fails => ~buf[b].dirty /\ faults < MaxFaults
  BY <1>4, <1>5, <1>7, Zenon DEF ideintr
<1>9. /\ \A a \in Bufs \ {b} : buf'[a] = buf[a]
      /\ buf'[b].blockno = k /\ buf'[b].valid /\ buf'[b].data = new
      /\ buf'[b].owner = buf[b].owner
  <2> HIDE DEF new
  <2> QED BY <1>2, <1>5, <1>7, <1>8, Zenon DEF BufRec
<1>10. \A j \in Blocks \ {k} : disk'[j] = disk[j]
  BY <1>2, <1>8, Zenon
<1>11. ASSUME NEW j \in Blocks \ {k}
       PROVE  Content(j)' = Content(j) /\ User(j)' = User(j)
  <2>1. \A a \in Bufs : /\ buf'[a].blockno = j <=> buf[a].blockno = j
                        /\ buf[a].blockno = j => buf'[a] = buf[a]
    BY <1>7, <1>9, Zenon
  <2> QED BY <1>10, <2>1, SameBlock, Zenon
<1>12. Content(k) = (IF buf[b].valid THEN buf[b].data ELSE disk[k]) /\ User(k) = Holder(buf[b].owner)
  BY <1>5, <1>7, Zenon DEF Shown
<1>13. Content(k)' = new /\ User(k)' = Holder(buf[b].owner)
  <2>1. Content(k)' = (IF buf'[b].valid THEN buf'[b].data ELSE disk'[k]) /\ User(k)' = Holder(buf'[b].owner)
    BY <1>5, <1>7, <1>9, Zenon DEF Shown
  <2> QED BY <1>9, <2>1, Zenon
<1>14. user' = user /\ content' = [content EXCEPT ![k] = new]
       /\ (new = Content(k) => content' = content)
  <2> HIDE DEF new
  <2> QED BY <1>11, <1>12, <1>13, OneBlock, Zenon
<1>15. CASE fails
  <2>1. new \in Vals
    BY <1>2, <1>5, <1>15, Zenon DEF BufRec
  <2>2. faults' \in faults..MaxFaults /\ faults' > 0
    BY <1>2, <1>8, <1>15, Constants
  <2>3. BS!Damage(k)
    <3> HIDE DEF new
    <3> QED BY <1>14, <2>1, <2>2, StoreDamage, ZenonT(30)
  <2> QED BY <2>3, Zenon
<1>16. CASE ~fails
  <2>1. new = Content(k)
    BY <1>5, <1>12, <1>16, Zenon
  <2> QED BY <1>8, <1>14, <1>16, <2>1, Zenon
<1> QED BY <1>15, <1>16, Zenon

LEMMA StepRefines ==
  ASSUME IInv, IInv', [Next]_vars
  PROVE  [BS!Next]_(BS!svars)
<1>1. Shown /\ Shown'
  <2>1. (IInv => Shown)'
    BY Shows, PTL
  <2> QED BY <2>1, Shows, Zenon
<1>2. UNCHANGED <<content, user, faults>> => UNCHANGED BS!svars
  BY Zenon DEF BS!svars, content, user
<1>3. ASSUME UNCHANGED <<buf, disk, faults>>
      PROVE  UNCHANGED BS!svars
  BY <1>1, <1>2, <1>3, QuietBlocks, Zenon
<1>4. ASSUME NEW p \in Ptrs, NEW k \in Blocks, bget(p, k)
      PROVE  UNCHANGED BS!svars \/ \E j \in Blocks : BS!Damage(j)
  <2>1. CASE UNCHANGED <<buf, lru, idequeue, disk, cmd, pc, mine, faults>>
    BY <1>3, <2>1, Zenon
  <2>2. CASE \E b \in Bufs : FindsBuffer(p, b, k)
    BY <1>1, <1>2, <2>2, FindKeepsBlocks, Zenon
  <2> QED BY <1>4, <2>1, <2>2, BgetFinds, Zenon
<1>5. ASSUME NEW p \in Ptrs, NEW v \in Vals, bwrite(p, v) \/ log_write(p, v)
      PROVE  \E k \in Blocks : BS!Change(p[1], k)
  <2>1. PICK label \in {"use", "iderw"} : Changes(p, v, label)
    BY <1>5, WriteChanges, Zenon DEF IInv
  <2> QED BY <1>1, <2>1, WriteChangesBlock, Zenon
<1>6. ASSUME NEW p \in Ptrs, brelse(p)
      PROVE  UNCHANGED BS!svars
  <2>1. /\ buf \in [Bufs -> BufRec] /\ mine[p] \in Bufs
    BY <1>6, TypeFacts, Zenon DEF IInv, Names, brelse, At
  <2>2. buf' = Unref(mine[p]) /\ UNCHANGED <<disk, faults>>
    BY <1>6, Zenon DEF brelse
  <2>3. \A b \in Bufs : /\ buf'[b].blockno = buf[b].blockno /\ buf'[b].valid = buf[b].valid
                        /\ buf'[b].data = buf[b].data /\ buf'[b].owner = buf[b].owner
    BY <2>1, <2>2, Zenon DEF Unref, BufRec
  <2> QED BY <1>1, <1>2, <2>2, <2>3, QuietBlocks, Zenon
<1>7. ASSUME NEW p \in Ptrs, Step(p) \/ kill(p)
      PROVE  UNCHANGED BS!svars \/ \E k \in Blocks : BS!Take(p[1], k) \/ BS!Give(p[1], k)
  <2>1. CASE acquiresleep(p)
    BY <1>1, <1>2, <2>1, AcquireTakes, Zenon
  <2>2. CASE releasesleep(p)
    BY <1>1, <2>2, ReleaseGives, Zenon
  <2>3. CASE iderw(p) \/ iderw_test(p) \/ kill(p)
    <3>1. UNCHANGED <<buf, disk, faults>>
      BY <2>3, Zenon DEF iderw, iderw_test, kill
    <3> QED BY <1>3, <3>1, Zenon
  <2> QED BY <1>6, <1>7, <2>1, <2>2, <2>3, Zenon DEF Step
<1>8. ASSUME NEW fails \in BOOLEAN, ideintr(fails)
      PROVE  UNCHANGED BS!svars \/ \E j \in Blocks : BS!Damage(j)
  BY <1>1, <1>2, <1>8, IntrKeepsBlocks, Zenon
<1>9. CASE UNCHANGED vars
  BY <1>3, <1>9, Zenon DEF vars
<1> QED BY <1>4, <1>5, <1>7, <1>8, <1>9, Constants, Zenon DEF Next, BS!Next

(* bio.c hands out each block to one process at a time with what its        *)
(* previous user left in it or the disk holds, however its buffers are      *)
(* recycled, and until the first read error, which ideintr does not report. *)
THEOREM CacheImplementsBlockStore == Spec => BlockStoreSpec
<1>1. Init => BS!Init
  <2> SUFFICES ASSUME Init
               PROVE  BS!Init
    BY Zenon
  <2>1. Shown
    BY InitInv, Shows, Zenon
  <2>2. \A k \in Blocks : \A b \in Bufs : buf[b].blockno # k
    BY Constants, Zenon DEF Init
  <2>3. \A k \in Blocks : Content(k) \in Vals /\ User(k) = None
    BY <2>1, <2>2, Zenon DEF Shown
  <2>4. faults = 0
    BY Zenon DEF Init
  <2> QED BY <2>3, <2>4, Zenon DEF BS!Init
<1>2. IInv /\ IInv' /\ [Next]_vars => [BS!Next]_(BS!svars)
  BY StepRefines, Zenon
<1> QED BY <1>1, <1>2, CacheInvariance, PTL DEF Spec, BlockStoreSpec, BS!Spec
=============================================================================
