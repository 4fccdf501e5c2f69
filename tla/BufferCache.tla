----------------------------- MODULE BufferCache -----------------------------
(***************************************************************************)
(* bio.c, sleeplock.c and ide.c together: processes that read, modify,     *)
(* write and release blocks through NBUF buffers, and the disk interrupt.  *)
(* A process has a few variables that point to buffers, as lbuf and dbuf   *)
(* of install_trans, or bmap's bp and that of the balloc it calls.         *)
(* A step is a critical section of bcache.lock, of a buffer's sleep lock   *)
(* or of idelock; sleep() releases its lock and sleeps in one step, as     *)
(* Scheduler.tla shows.  buf[b].dirty without a request in the disk queue  *)
(* is log_write's pin.                                                     *)
(***************************************************************************)
EXTENDS Integers, Sequences, FiniteSets, Functions, FiniteSetsExt

CONSTANTS
  Procs, Blocks, Vals, None,
  Ptrs,        \* the variables that point to buffers, those of process p[1] the pairs p
  NBUF,
  Nested,      \* pairs <<j, k>>: some caller that has block j asks for block k
  MaxPins,     \* blocks the log keeps pinned
  MaxFaults    \* bound on the read errors

ASSUME CacheAssumption ==
  /\ NBUF \in Nat \ {0} /\ MaxPins \in Nat /\ MaxFaults \in Nat
  /\ IsFiniteSet(Ptrs) /\ (\A p \in Ptrs : p[1] \in Procs) /\ Vals # {}
  /\ None \notin Procs \cup Ptrs \cup Blocks
  /\ None \notin [blockno : Blocks \cup {None}, write : BOOLEAN, data : Vals]

Bufs == 1..NBUF

VARIABLES
  buf,       \* struct buf: blockno, valid, dirty, refcnt, data; owner is its sleep
             \* lock: the pointer through which it was taken
  lru,       \* the list from bcache.head.next to bcache.head.prev
  idequeue,
  disk, cmd, \* the disk, and the command idestart gave it, or None
  pc, mine,  \* the buffer of each pointer or 0, and where its process is with it
  faults,
  panic      \* the function that has panic, or None

vars == <<buf, lru, idequeue, disk, cmd, pc, mine, faults, panic>>

\* binit; the first buffer initialized ends up last.
Init ==
  /\ buf = [b \in Bufs |-> [blockno |-> None, valid |-> FALSE, dirty |-> FALSE, refcnt |-> 0,
                            data |-> CHOOSE v \in Vals : TRUE, owner |-> None]]
  /\ lru = [i \in Bufs |-> NBUF + 1 - i]
  /\ idequeue = <<>>
  /\ disk = [k \in Blocks |-> CHOOSE v \in Vals : TRUE] /\ cmd = None
  /\ pc = [p \in Ptrs |-> "idle"] /\ mine = [p \in Ptrs |-> 0]
  /\ faults = 0 /\ panic = None

\* The process of p is not inside a call for another of its buffers.
Alone(p) == \A q \in Ptrs \ {p} : q[1] = p[1] => pc[q] \in {"idle", "use"}
At(p, label) == pc[p] = label /\ panic = None /\ Alone(p)
Goto(p, label) == pc' = [pc EXCEPT ![p] = label]
Dirty == {b \in Bufs : buf[b].dirty}

\* wakeup(chan): sleepers for the same thing on buffer b test it again.
Woken(b, asleep, label) ==
  [q \in Ptrs |-> IF pc[q] = asleep /\ mine[q] = b THEN label ELSE pc[q]]

-----------------------------------------------------------------------------
(* bio.c *)

Cached(k) == {b \in Bufs : buf[b].blockno = k}

\* Mutant: a pinned buffer is recycled.
Recyclable_dirty == {i \in Bufs : buf[lru[i]].refcnt = 0}

\* Places in the list whose buffers bget may recycle.
Recyclable == {i \in Bufs : buf[lru[i]].refcnt = 0 /\ ~buf[lru[i]].dirty}

\* Mutant: a hit is not counted.
Hit_free(b) == buf

Hit(b) == [buf EXCEPT ![b].refcnt = @ + 1]

Recycled(b, k) == [buf EXCEPT ![b].blockno = k, ![b].refcnt = 1, ![b].valid = FALSE]

\* A caller may ask for block k with the blocks it has.
MayAsk(p, k) ==
  \A q \in Ptrs : q[1] = p[1] /\ mine[q] # 0 => <<buf[mine[q]].blockno, k>> \in Nested

\* bget under bcache.lock; the sleep lock is taken later.
bget(p, k) ==
  /\ At(p, "idle") /\ MayAsk(p, k)
  /\ LET b == IF Cached(k) # {} THEN CHOOSE b \in Cached(k) : TRUE ELSE lru[Max(Recyclable)] IN
     IF Cached(k) = {} /\ Recyclable = {}
     THEN panic' = "bget" /\ UNCHANGED <<buf, mine, pc>>
     ELSE /\ buf' = IF Cached(k) # {} THEN Hit(b) ELSE Recycled(b, k)
          /\ mine' = [mine EXCEPT ![p] = b]
          /\ Goto(p, "lock")
          /\ UNCHANGED panic
  /\ UNCHANGED <<lru, idequeue, disk, cmd, faults>>

Locked(b) == buf[b].owner # None
holdingsleep(p, b) == Locked(b) /\ buf[b].owner[1] = p[1]

acquiresleep(p) ==
  LET b == mine[p] IN
  /\ At(p, "lock")
  /\ Goto(p, IF Locked(b) THEN "wait" ELSE IF buf[b].valid THEN "use" ELSE "iderw")
  /\ buf' = IF Locked(b) THEN buf ELSE [buf EXCEPT ![b].owner = p]
  /\ UNCHANGED <<lru, idequeue, disk, cmd, mine, faults, panic>>

\* The user of a block changes it and calls bwrite or log_write.
bwrite(p, v) ==
  /\ At(p, "use")
  /\ IF holdingsleep(p, mine[p])
     THEN /\ buf' = [buf EXCEPT ![mine[p]].data = v, ![mine[p]].dirty = TRUE]
          /\ Goto(p, "iderw")
          /\ UNCHANGED panic
     ELSE panic' = "bwrite" /\ UNCHANGED <<buf, pc>>
  /\ UNCHANGED <<lru, idequeue, disk, cmd, mine, faults>>

log_write(p, v) ==
  /\ At(p, "use")
  /\ Cardinality(Dirty \cup {mine[p]}) <= MaxPins
  /\ buf' = [buf EXCEPT ![mine[p]].data = v, ![mine[p]].dirty = TRUE]
  /\ UNCHANGED <<lru, idequeue, disk, cmd, pc, mine, faults, panic>>

\* Mutant: nobody is woken.
Wakes_none(p) == [pc EXCEPT ![p] = "unref"]

Wakes(p) == [Woken(mine[p], "wait", "lock") EXCEPT ![p] = "unref"]

\* brelse: its test and releasesleep, and then the list under bcache.lock.
releasesleep(p) ==
  /\ At(p, "use")
  /\ IF holdingsleep(p, mine[p])
     THEN /\ buf' = [buf EXCEPT ![mine[p]].owner = None]
          /\ pc' = Wakes(p)
          /\ UNCHANGED panic
     ELSE panic' = "brelse" /\ UNCHANGED <<buf, pc>>
  /\ UNCHANGED <<lru, idequeue, disk, cmd, mine, faults>>

\* Mutant: the buffer is not unlinked from its old place.
MovedTo_copied(b) == <<b>> \o lru

\* The list with b unlinked and put first.
MovedTo(b) ==
  LET i == CHOOSE i \in Bufs : lru[i] = b
  IN  <<b>> \o (SubSeq(lru, 1, i - 1) \o SubSeq(lru, i + 1, NBUF))

\* Mutant: a buffer others wait for keeps its count.
Unref_last(b) == [buf EXCEPT ![b].refcnt = IF @ = 1 THEN 0 ELSE @]

Unref(b) == [buf EXCEPT ![b].refcnt = @ - 1]

brelse(p) ==
  LET b == mine[p] IN
  /\ At(p, "unref")
  /\ buf' = Unref(b)
  /\ lru' = IF buf[b].refcnt = 1 THEN MovedTo(b) ELSE lru
  /\ mine' = [mine EXCEPT ![p] = 0]
  /\ Goto(p, "idle")
  /\ UNCHANGED <<idequeue, disk, cmd, faults, panic>>

-----------------------------------------------------------------------------
(* ide.c *)

\* idestart: a write hands over the data at once.
idestart(bs, b) == [blockno |-> bs[b].blockno, write |-> bs[b].dirty, data |-> bs[b].data]

\* Mutant: the disk is started although it is busy.
Start_always(q, b) == idestart(buf, b)

\* The command after b was appended to idequeue: q.
Start(q, b) == IF q = <<b>> THEN idestart(buf, b) ELSE cmd

\* iderw up to its first sleep.
iderw(p) ==
  LET b == mine[p] IN
  /\ At(p, "iderw")
  /\ IF ~holdingsleep(p, b) \/ (buf[b].valid /\ ~buf[b].dirty)
     THEN panic' = "iderw" /\ UNCHANGED <<idequeue, cmd, pc>>
     ELSE /\ idequeue' = Append(idequeue, b)
          /\ cmd' = Start(idequeue', b)
          /\ Goto(p, "io")
          /\ UNCHANGED panic
  /\ UNCHANGED <<buf, lru, disk, mine, faults>>

\* iderw's loop after a wakeup.
iderw_test(p) ==
  LET b == mine[p] IN
  /\ At(p, "test")
  /\ Goto(p, IF buf[b].valid /\ ~buf[b].dirty THEN "use" ELSE "io")
  /\ UNCHANGED <<buf, lru, idequeue, disk, cmd, mine, faults, panic>>

NextCmd(bs, q) == IF q = <<>> THEN None ELSE idestart(bs, Head(q))

\* The disk completes its command and interrupts.  A read that fails is not
\* transferred, but the buffer becomes valid all the same.
ideintr(fails) ==
  LET b == Head(idequeue)
      fetched == [buf EXCEPT ![b].data = IF fails \/ buf[b].dirty THEN @ ELSE disk[cmd.blockno]]
  IN
  /\ cmd # None /\ panic = None
  /\ fails => ~buf[b].dirty /\ faults < MaxFaults
  /\ disk' = IF cmd.write THEN [disk EXCEPT ![cmd.blockno] = cmd.data] ELSE disk
  /\ buf' = [fetched EXCEPT ![b].valid = TRUE, ![b].dirty = FALSE]
  /\ idequeue' = Tail(idequeue)
  /\ cmd' = NextCmd(buf', idequeue')
  /\ pc' = Woken(b, "io", "test")
  /\ faults' = IF fails THEN faults + 1 ELSE faults
  /\ UNCHANGED <<lru, mine, panic>>

\* kill() makes a sleeper runnable, which tests its condition again.
kill(p) ==
  /\ At(p, "wait") \/ At(p, "io")
  /\ Goto(p, IF pc[p] = "wait" THEN "lock" ELSE "test")
  /\ UNCHANGED <<buf, lru, idequeue, disk, cmd, mine, faults, panic>>

Step(p) == acquiresleep(p) \/ iderw(p) \/ iderw_test(p) \/ releasesleep(p) \/ brelse(p)

Next ==
  \/ \E p \in Ptrs :
       \/ Step(p) \/ kill(p)
       \/ \E k \in Blocks : bget(p, k)
       \/ \E v \in Vals : bwrite(p, v) \/ log_write(p, v)
  \/ \E fails \in BOOLEAN : ideintr(fails)

Spec == Init /\ [][Next]_vars

-----------------------------------------------------------------------------
\* refcnt is bounded by the pointers, and lru and idequeue are lists of buffers
\* without repetition.
CacheTypeOK ==
  /\ buf \in [Bufs -> [blockno : Blocks \cup {None}, valid : BOOLEAN, dirty : BOOLEAN,
                       refcnt : 0..Cardinality(Ptrs), data : Vals, owner : Ptrs \cup {None}]]
  /\ Len(lru) = NBUF /\ Range(lru) = Bufs
  /\ IsInjective(idequeue) /\ Range(idequeue) \subseteq Bufs
  /\ disk \in [Blocks -> Vals] /\ faults \in 0..MaxFaults
  /\ mine \in [Ptrs -> 0..NBUF]

(* A block is in one buffer at most, although processes miss it at the same *)
(* time, and refcnt counts those between bget and brelse, so that a buffer  *)
(* somebody waits for is not recycled under them.                           *)
OneBufferPerBlock ==
  /\ \A k \in Blocks : Cardinality(Cached(k)) <= 1
  /\ \A b \in Bufs : buf[b].refcnt = Cardinality({p \in Ptrs : mine[p] = b})

(* The only panic is bget's "no buffers", and only when no buffer is left:   *)
(* those pinned by the log that nobody uses and those in use, of which a     *)
(* process may have several (bmap and itrunc keep the indirect block while   *)
(* they change the bitmap, log.c copies between two), make up NBUF.          *)
PanicOnlyWhenFull ==
  panic # None =>
    /\ panic = "bget"
    /\ Cardinality({b \in Dirty : buf[b].refcnt = 0})
         + Cardinality({p \in Ptrs : mine[p] # 0}) >= NBUF

(* Concurrent bget, brelse and recycling keep the cache in order: one buffer *)
(* for a block, counted and held by those who use it, and enough of them.    *)
CacheConsistent == CacheTypeOK /\ OneBufferPerBlock /\ PanicOnlyWhenFull

(* The command the disk executes is that of the first buffer in idequeue,   *)
(* each request is started once, and the holder of a queued buffer waits    *)
(* for it in iderw with the data it wants written unchanged.                *)
DiskServesQueue ==
  /\ cmd = None <=> idequeue = <<>>
  /\ idequeue # <<>> => cmd = idestart(buf, Head(idequeue))
  /\ \A b \in Range(idequeue) : \E p \in Ptrs :
       buf[b].owner = p /\ mine[p] = b /\ pc[p] \in {"io", "test"}

(* No process sleeps for a buffer whose request is done or whose lock is    *)
(* free: there is a wakeup for it to come.                                  *)
SleepersHaveCause ==
  \A p \in Ptrs :
    /\ pc[p] = "io" => mine[p] \in Range(idequeue)
    /\ pc[p] = "wait" => buf[mine[p]].owner # None

(* iderw and ideintr neither lose nor repeat a request, and whoever sleeps   *)
(* for the disk or for a buffer is still to be woken.                        *)
QueueServed == DiskServesQueue /\ SleepersHaveCause

(* The cache implements BlockStore: the contents of a block are those of    *)
(* its valid buffer or else of the disk, whatever was recycled in between.  *)
Content(k) ==
  IF \E b \in Cached(k) : buf[b].valid
  THEN buf[CHOOSE b \in Cached(k) : TRUE].data ELSE disk[k]
User(k) ==
  IF \E b \in Cached(k) : Locked(b) THEN buf[CHOOSE b \in Cached(k) : TRUE].owner[1] ELSE None
BS == INSTANCE BlockStore WITH
        content <- [k \in Blocks |-> Content(k)], user <- [k \in Blocks |-> User(k)]
BlockStoreSpec == BS!Spec
=============================================================================
