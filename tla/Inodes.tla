------------------------------- MODULE Inodes -------------------------------
(***************************************************************************)
(* The inode and block layers of fs.c under file.c: the inode cache, block *)
(* allocation, bmap and itrunc, and processes that create, open, read,     *)
(* write, share, close and unlink files of the root directory.  The        *)
(* critical sections of an inode's sleep lock and of the root's are steps; *)
(* iput is two, as it tests ref and lowers it under separate locks.  A     *)
(* block is BSIZE words: the data of files, the entries of the root, or    *)
(* block numbers.  mkfs makes the first image.                             *)
(***************************************************************************)
EXTENDS Integers, Sequences, FiniteSets, SequencesExt, FiniteSetsExt

CONSTANTS
  Procs, None,
  NINODES,      \* inodes on the disk
  NINODE,       \* entries of the inode cache
  NFILE,
  NBLOCK,       \* data blocks
  NDIRECT,
  BSIZE,        \* words in a block, as many block numbers
  MAXOPBLOCKS,
  Images,       \* the sizes of the files mkfs is given
  WriteSizes, ReadSizes,  \* the sizes write and read are called with
  MaxCalls      \* bound on the system calls begun

ASSUME InodesAssumption ==
  /\ {NINODES, NINODE, NFILE, NBLOCK, NDIRECT, BSIZE} \subseteq Nat \ {0}
  /\ MAXOPBLOCKS \in Nat /\ MaxCalls \in Nat /\ MAXOPBLOCKS > 5 /\ WriteSizes \cup ReadSizes \subseteq Nat \ {0}
  /\ \A image \in Images : image \in Seq(Nat) /\ Len(image) < NINODES

Inums == 1..NINODES
ROOTINO == 1
Blocks == 1..NBLOCK
Slots == 1..NINODE
Files == 1..NFILE
MAXFILE == NDIRECT + BSIZE
Data == NBLOCK + 1      \* a word of a file
BitmapBlock == 0        \* the only one, as FSSIZE < BPB
InodeBlock == -1
Unused == [type |-> "none", nlink |-> 0, size |-> 0, addrs |-> [k \in 1..NDIRECT + 1 |-> 0]]
Zeroes == [w \in 1..BSIZE |-> 0]
\* What is left in a free block and in a free cache entry is the same everywhere.
Stale == [w \in 1..BSIZE |-> Data]

Closed == [ref |-> 0, ip |-> 0, off |-> 0]

VARIABLES
  dinode,          \* the inodes on the disk
  bitmap, blk,     \* the blocks in use, and what the blocks hold
  icache,          \* inum, ref, valid and the copy of the disk inode
  ftable,          \* ref, the cache entry ip, and off
  ofile,           \* the one open file of each process, or 0
  todo, ptr, left, \* what a process is doing, to which entry, and words left to write
  overlapped,      \* inodes that two processes were putting at the same time
  calls,           \* system calls begun
  overran,         \* a write logged as many blocks as begin_op reserved
  panic

vars == <<dinode, bitmap, blk, icache, ftable, ofile, todo, ptr, left, overlapped, calls, overran, panic>>

-----------------------------------------------------------------------------
(* Blocks.  x holds bitmap, blk, logged, an inode's addrs, the block number *)
(* addr returned last, and whether balloc found none.                       *)

\* Mutant: the block is not zeroed.
Zeroed_not(x, b) == x

\* bzero.
Zeroed(x, b) == [x EXCEPT !.blk[b] = Zeroes]

balloc(x) ==
  IF x.bitmap = Blocks THEN [x EXCEPT !.full = TRUE, !.addr = 1]
  ELSE LET b == Min(Blocks \ x.bitmap) IN
       [Zeroed(x, b) EXCEPT !.bitmap = @ \cup {b}, !.logged = @ \cup {b, BitmapBlock}, !.addr = b]

\* Mutant: the new block is not recorded.
Addr_forgets(x, k) == IF x.addrs[k] # 0 THEN [x EXCEPT !.addr = x.addrs[k]] ELSE balloc(x)

\* The block of an entry of addrs.
Addr(x, k) ==
  IF x.addrs[k] # 0 THEN [x EXCEPT !.addr = x.addrs[k]]
  ELSE LET y == balloc(x) IN [y EXCEPT !.addrs[k] = y.addr]

bmap(x, bn) ==
  IF bn < NDIRECT THEN Addr(x, bn + 1)
  ELSE LET y == Addr(x, NDIRECT + 1)  ind == y.addr  k == bn - NDIRECT + 1 IN
       IF y.blk[ind][k] # 0 THEN [y EXCEPT !.addr = y.blk[ind][k]]
       ELSE LET z == balloc(y) IN
            [z EXCEPT !.blk[ind][k] = z.addr, !.logged = @ \cup {ind}]

\* A word of writei's loop.
Put(x, off, word) ==
  LET y == bmap(x, off \div BSIZE) IN
  IF y.full THEN y
  ELSE [y EXCEPT !.blk[y.addr][(off % BSIZE) + 1] = word, !.logged = @ \cup {y.addr}]

X(addrs) ==
  [bitmap |-> bitmap, blk |-> blk, logged |-> {}, addrs |-> addrs, addr |-> 0, full |-> FALSE]

\* writei's loop for n words from off on, and readi's.
Written(x, off, n) == FoldLeft(LAMBDA y, k : Put(y, off + k, Data), x, [k \in 1..n |-> k - 1])
Read(x, off, n) == FoldLeft(LAMBDA y, k : bmap(y, (off + k) \div BSIZE), x, [k \in 1..n |-> k - 1])

\* The blocks of an inode, which itrunc frees: direct, indirect, and those the indirect block lists.
Owned(addrs) ==
  LET ind == addrs[NDIRECT + 1] IN
  (Range(addrs) \cup (IF ind = 0 THEN {} ELSE Range(blk[ind]))) \ {0}

\* Word off of an inode, 0 where it has no block.
Word(addrs, off) ==
  LET x == bmap(X(addrs), off \div BSIZE) IN x.blk[x.addr][(off % BSIZE) + 1]

-----------------------------------------------------------------------------
(* mkfs.c: an image is x with the inodes. *)

\* iappend of words to inode i, the blocks taken in order.
iappend(image, i, words) ==
  LET size == image.dinode[i].size
      x == FoldLeft(LAMBDA y, k : Put(y, size + k - 1, words[k]),
                    [image.x EXCEPT !.addrs = image.dinode[i].addrs], [k \in DOMAIN words |-> k]) IN
  [x |-> x, dinode |-> [image.dinode EXCEPT ![i].addrs = x.addrs, ![i].size = size + Len(words)]]

\* ialloc.
Typed(image, i, type) == [image EXCEPT !.dinode[i] = [Unused EXCEPT !.type = type, !.nlink = 1]]

\* main's loop: the file, its entry in the root, its contents.
Filed(image, i, size) ==
  iappend(iappend(Typed(image, i, "file"), ROOTINO, <<i>>), i, [k \in 1..size |-> Data])

\* The whole image; the size of the root is rounded up.
mkfs(sizes) ==
  LET empty == [x |-> [bitmap |-> {}, blk |-> [b \in Blocks |-> Zeroes], logged |-> {},
                       addrs |-> Unused.addrs, addr |-> 0, full |-> FALSE],
                dinode |-> [i \in Inums |-> Unused]]
      root == iappend(Typed(empty, ROOTINO, "dir"), ROOTINO, <<ROOTINO, ROOTINO>>)
      image == FoldLeft(LAMBDA m, k : Filed(m, k + 1, sizes[k]), root, [k \in DOMAIN sizes |-> k]) IN
  [image EXCEPT !.dinode[ROOTINO].size = (@ \div BSIZE + 1) * BSIZE]

\* After boot: the root is in the cache, as everyone's current directory.
Init ==
  /\ \E sizes \in Images :
       /\ dinode = mkfs(sizes).dinode
       /\ bitmap = mkfs(sizes).x.bitmap /\ blk = mkfs(sizes).x.blk
       /\ icache = [s \in Slots |->
            [inum |-> IF s = 1 THEN ROOTINO ELSE 0, ref |-> IF s = 1 THEN 1 ELSE 0, valid |-> s = 1,
             din |-> IF s = 1 THEN mkfs(sizes).dinode[ROOTINO] ELSE Unused]]
  /\ ftable = [f \in Files |-> Closed]
  /\ ofile = [p \in Procs |-> 0]
  /\ todo = [p \in Procs |-> "idle"] /\ ptr = [p \in Procs |-> 0] /\ left = [p \in Procs |-> 0]
  /\ overlapped = {} /\ calls = 0 /\ overran = FALSE /\ panic = None

-----------------------------------------------------------------------------
(* Inodes.  c is the inode cache. *)

Cached(i) == {s \in Slots : icache[s].ref > 0 /\ icache[s].inum = i}
Empty == {s \in Slots : icache[s].ref = 0}

\* Mutant: the first reference is not counted.
Entry_unref(i, s) == [icache[s] EXCEPT !.inum = i, !.valid = FALSE]

Entry(i, s) == [icache[s] EXCEPT !.inum = i, !.ref = 1, !.valid = FALSE]

\* iget returns slot Got(i), 0 if it panics.
Got(i) == IF Cached(i) # {} THEN Min(Cached(i)) ELSE IF Empty = {} THEN 0 ELSE Min(Empty)
iget(i) ==
  LET s == Got(i) IN
  [icache EXCEPT ![s] = IF Cached(i) # {} THEN [@ EXCEPT !.ref = @ + 1] ELSE Entry(i, s)]

\* ilock reads the inode if it is not valid.
ilock(c, s) == IF c[s].valid THEN c ELSE [c EXCEPT ![s].valid = TRUE, ![s].din = dinode[c[s].inum]]

Root == icache[1].din
\* The inodes in the root, and the place of an entry or of a free one.
Entries == {off \in 2..Root.size - 1 : Word(Root.addrs, off) # 0}
EntryOf(i) == CHOOSE off \in Entries : Word(Root.addrs, off) = i
FreeEntry == Min((2..Root.size) \ Entries)
Linked == {Word(Root.addrs, off) : off \in Entries}

\* filealloc and fdalloc, or iunlockput if they fail.
Opens(p, s) ==
  LET free == {f \in Files : ftable[f].ref = 0} IN
  IF ofile[p] = 0 /\ free # {}
  THEN /\ ftable' = [ftable EXCEPT ![Min(free)] = [ref |-> 1, ip |-> s, off |-> 0]]
       /\ ofile' = [ofile EXCEPT ![p] = Min(free)]
       /\ todo' = [todo EXCEPT ![p] = "idle"] /\ ptr' = [ptr EXCEPT ![p] = 0]
  ELSE /\ todo' = [todo EXCEPT ![p] = "iput"] /\ ptr' = [ptr EXCEPT ![p] = s]
       /\ UNCHANGED <<ftable, ofile>>

At(p, label) == todo[p] = label /\ panic = None
Begin(p) == At(p, "idle") /\ calls < MaxCalls /\ calls' = calls + 1
Go(p, label) == At(p, label) /\ UNCHANGED calls
Panics(where) ==
  /\ panic' = where
  /\ UNCHANGED <<dinode, bitmap, blk, icache, ftable, ofile, todo, ptr, left, overlapped, overran>>

\* Mutant: the inode on the disk is written only when the file grows by a block.
Grows_block(size, end) == end > size /\ end % BSIZE = 1

\* writei's test before it sets the size and calls iupdate.
Grows(size, end) == end > size

\* open with O_CREATE of a name the root does not have.
Create(p) ==
  LET free == {i \in Inums : dinode[i].type = "none"}
      i == Min(free)  s == Got(i)
      x == Put(X(Root.addrs), FreeEntry, i)
      root == [Root EXCEPT !.addrs = x.addrs, !.size = IF FreeEntry + 1 > @ THEN FreeEntry + 1 ELSE @]
      din == [Unused EXCEPT !.type = "file", !.nlink = 1] IN
  /\ Begin(p)
  /\ IF free = {} THEN Panics("ialloc")
     ELSE IF s = 0 THEN Panics("iget")
     ELSE IF FreeEntry >= MAXFILE * BSIZE THEN Panics("dirlink")
     ELSE IF x.full THEN Panics("balloc")
     ELSE /\ dinode' = [dinode EXCEPT ![i] = din,
                          ![ROOTINO] = IF Grows(Root.size, FreeEntry + 1) THEN root ELSE @]
          /\ bitmap' = x.bitmap /\ blk' = x.blk
          /\ icache' = [iget(i) EXCEPT ![s].din = din, ![s].valid = TRUE, ![1].din = root]
          /\ Opens(p, s)
          /\ UNCHANGED <<left, overlapped, overran, panic>>

\* open of an existing name: dirlookup and iget under the root's lock, ilock later.
Open(p, i) ==
  /\ Begin(p) /\ i \in Linked
  /\ IF Got(i) = 0 THEN Panics("iget")
     ELSE /\ icache' = iget(i)
          /\ todo' = [todo EXCEPT ![p] = "open"] /\ ptr' = [ptr EXCEPT ![p] = Got(i)]
          /\ UNCHANGED <<dinode, bitmap, blk, ftable, ofile, left, overlapped, overran, panic>>

Opened(p) ==
  /\ Go(p, "open")
  /\ IF ilock(icache, ptr[p])[ptr[p]].din.type = "none" THEN Panics("ilock")
     ELSE /\ icache' = ilock(icache, ptr[p])
          /\ Opens(p, ptr[p])
          /\ UNCHANGED <<dinode, bitmap, blk, left, overlapped, overran, panic>>

\* unlink: the entry and the count under the locks of the root and the file.
Unlink(p, i) ==
  LET s == Got(i)  c == ilock(iget(i), s)  din == [c[s].din EXCEPT !.nlink = @ - 1] IN
  /\ Begin(p) /\ i \in Linked
  /\ IF s = 0 THEN Panics("iget")
     ELSE IF c[s].din.nlink < 1 THEN Panics("unlink")
     ELSE /\ blk' = Put(X(Root.addrs), EntryOf(i), 0).blk
          /\ icache' = [c EXCEPT ![s].din = din]
          /\ dinode' = [dinode EXCEPT ![i] = din]
          /\ todo' = [todo EXCEPT ![p] = "iput"] /\ ptr' = [ptr EXCEPT ![p] = s]
          /\ UNCHANGED <<bitmap, ftable, ofile, left, overlapped, overran, panic>>

\* Mutant: other references do not matter.
LastUse_any(s) == icache[s].valid /\ icache[s].din.nlink = 0

\* Mutant: the count is tested as if it had been lowered.
LastUse_lowered(s) == icache[s].valid /\ icache[s].din.nlink = 0 /\ icache[s].ref = 0

\* iput's tests.
LastUse(s) == icache[s].valid /\ icache[s].din.nlink = 0 /\ icache[s].ref = 1

\* iput up to releasesleep; itrunc, and the free inode written to the disk.
iput(p) ==
  LET s == ptr[p]  i == icache[s].inum  addrs == icache[s].din.addrs IN
  /\ Go(p, "iput")
  /\ IF ~LastUse(s)
     THEN /\ overlapped' = IF \E q \in Procs : todo[q] = "deref" /\ ptr[q] = s
                           THEN overlapped \cup {i} ELSE overlapped
          /\ todo' = [todo EXCEPT ![p] = "deref"]
          /\ UNCHANGED <<dinode, bitmap, icache, panic, blk, ftable, ofile, ptr, left, overran>>
     ELSE IF ~(Owned(addrs) \subseteq bitmap) THEN Panics("bfree")
     ELSE /\ bitmap' = bitmap \ Owned(addrs)
          /\ dinode' = [dinode EXCEPT ![i] = Unused]
          /\ icache' = [icache EXCEPT ![s].valid = FALSE, ![s].din = Unused]
          /\ todo' = [todo EXCEPT ![p] = "deref"]
          /\ blk' = [b \in Blocks |-> IF b \in Owned(addrs) THEN Stale ELSE blk[b]]
          /\ UNCHANGED <<ftable, ofile, ptr, left, overlapped, overran, panic>>

deref(p) ==
  /\ Go(p, "deref")
  /\ icache' = [icache EXCEPT ![ptr[p]] =
       IF @.ref = 1 THEN [inum |-> 0, ref |-> 0, valid |-> @.valid, din |-> Unused]
       ELSE [@ EXCEPT !.ref = @ - 1]]
  /\ todo' = [todo EXCEPT ![p] = "idle"] /\ ptr' = [ptr EXCEPT ![p] = 0]
  /\ UNCHANGED <<dinode, bitmap, blk, ftable, ofile, left, overlapped, calls, overran, panic>>

-----------------------------------------------------------------------------
(* file.c *)

\* Mutant: the overhead of a transaction is not set aside.
max_all == MAXOPBLOCKS * BSIZE

\* The words filewrite writes in one transaction.
max == ((MAXOPBLOCKS - 1 - 1 - 2) \div 2) * BSIZE

\* One turn of filewrite's loop, n words before its end.
Chunk(p, n) ==
  LET f == ofile[p]  s == ftable[f].ip  off == ftable[f].off
      c == ilock(icache, s)  size == c[s].din.size
      n1 == IF n > max THEN max ELSE n
      x == Written(X(c[s].din.addrs), off, n1)
      din == [c[s].din EXCEPT !.addrs = x.addrs, !.size = IF off + n1 > @ THEN off + n1 ELSE @]
      fails == off > size \/ off + n1 > MAXFILE * BSIZE IN
  IF fails
  THEN /\ icache' = c /\ left' = [left EXCEPT ![p] = 0] /\ todo' = [todo EXCEPT ![p] = "idle"]
       /\ UNCHANGED <<dinode, bitmap, blk, ftable, ofile, ptr, overlapped, overran, panic>>
  ELSE IF x.full THEN Panics("balloc")
  ELSE /\ bitmap' = x.bitmap /\ blk' = x.blk
       /\ icache' = [c EXCEPT ![s].din = din]
       /\ dinode' = IF Grows(size, off + n1) THEN [dinode EXCEPT ![c[s].inum] = din] ELSE dinode
       /\ overran' = (overran \/ Cardinality(x.logged \cup {InodeBlock}) >= MAXOPBLOCKS)
       /\ ftable' = [ftable EXCEPT ![f].off = @ + n1]
       /\ left' = [left EXCEPT ![p] = n - n1]
       /\ todo' = [todo EXCEPT ![p] = IF n = n1 THEN "idle" ELSE "write"]
       /\ UNCHANGED <<ofile, ptr, overlapped, panic>>

filewrite(p, n) == Begin(p) /\ ofile[p] # 0 /\ Chunk(p, n)
filewrite_next(p) == Go(p, "write") /\ Chunk(p, left[p])

\* bmap may allocate here too.
fileread(p, n) ==
  LET f == ofile[p]  s == ftable[f].ip  off == ftable[f].off
      c == ilock(icache, s)  size == c[s].din.size
      n1 == IF off + n > size THEN size - off ELSE n
      x == Read(X(c[s].din.addrs), off, n1) IN
  /\ Begin(p) /\ f # 0
  /\ off <= size
  /\ bitmap' = x.bitmap /\ blk' = x.blk
  /\ icache' = [c EXCEPT ![s].din.addrs = x.addrs]
  /\ ftable' = [ftable EXCEPT ![f].off = @ + n1]
  /\ UNCHANGED <<dinode, ofile, todo, ptr, left, overlapped, overran, panic>>

fileclose(p) ==
  LET f == ofile[p] IN
  /\ Begin(p) /\ f # 0
  /\ ofile' = [ofile EXCEPT ![p] = 0]
  /\ ftable' = [ftable EXCEPT ![f] = IF @.ref = 1 THEN Closed ELSE [@ EXCEPT !.ref = @ - 1]]
  /\ IF ftable[f].ref = 1
     THEN todo' = [todo EXCEPT ![p] = "iput"] /\ ptr' = [ptr EXCEPT ![p] = ftable[f].ip]
     ELSE UNCHANGED <<todo, ptr>>
  /\ UNCHANGED <<dinode, bitmap, blk, icache, left, overlapped, overran, panic>>

\* fork shares p's file with its child q.
filedup(p, q) ==
  /\ Begin(p) /\ At(q, "idle") /\ ofile[p] # 0 /\ ofile[q] = 0
  /\ ofile' = [ofile EXCEPT ![q] = ofile[p]]
  /\ ftable' = [ftable EXCEPT ![ofile[p]].ref = @ + 1]
  /\ UNCHANGED <<dinode, bitmap, blk, icache, todo, ptr, left, overlapped, overran, panic>>

Next ==
  \E p \in Procs :
    \/ Create(p) \/ Opened(p) \/ iput(p) \/ deref(p) \/ filewrite_next(p) \/ fileclose(p)
    \/ \E i \in Inums : Open(p, i) \/ Unlink(p, i)
    \/ \E n \in WriteSizes : filewrite(p, n)
    \/ \E n \in ReadSizes : fileread(p, n)
    \/ \E q \in Procs : filedup(p, q)

Spec == Init /\ [][Next]_vars

-----------------------------------------------------------------------------
\* Types of the bitmap, the blocks, the two tables and the descriptors.
InodesTypeOK ==
  /\ bitmap \subseteq Blocks /\ blk \in [Blocks -> [1..BSIZE -> 0..Data]]
  /\ \A s \in Slots : icache[s].ref \in Nat /\ icache[s].inum \in 0..NINODES
  /\ \A f \in Files : ftable[f].ref \in Nat
  /\ ofile \in [Procs -> 0..NFILE] /\ ptr \in [Procs -> 0..NINODE]

\* The current form of inode i: the cached copy if it is valid.
Current(i) ==
  IF \E s \in Cached(i) : icache[s].valid THEN icache[CHOOSE s \in Cached(i) : TRUE].din ELSE dinode[i]

(* An inode has one cache entry at most, ref counts the open files and the  *)
(* calls that use it (the root's first is everyone's current directory),    *)
(* and a file's ref the processes that share it.                            *)
RefsCounted ==
  /\ \A i \in Inums : Cardinality(Cached(i)) <= 1
  /\ \A s \in Slots : icache[s].ref =
       Cardinality({f \in Files : ftable[f].ref > 0 /\ ftable[f].ip = s})
       + Cardinality({p \in Procs : ptr[p] = s}) + (IF s = 1 THEN 1 ELSE 0)
  /\ \A f \in Files : ftable[f].ref = Cardinality({p \in Procs : ofile[p] = f})

(* A block belongs to one inode at most and to one place in it, and the     *)
(* bitmap has exactly the blocks that belong to one: none is lost and none  *)
(* is given out twice, from mkfs's image on.                                *)
BlocksOwnedOnce ==
  LET Pointers(i) ==
        LET addrs == Current(i).addrs  ind == addrs[NDIRECT + 1] IN
        addrs \o (IF ind = 0 THEN <<>> ELSE blk[ind])
      all == SelectSeq(FlattenSeq([i \in Inums |-> Pointers(i)]), LAMBDA b : b # 0)
  IN IsInjective(all) /\ ToSet(all) = bitmap

(* A file that has lost its last name and its last reference is freed,      *)
(* unless two processes were in iput for it at the same time: both may then *)
(* see the other's reference (the inode stays allocated for ever).          *)
FreedUnlessOverlapped ==
  \A i \in Inums :
    dinode[i].type # "none" /\ dinode[i].nlink = 0 /\ Cached(i) = {} => i \in overlapped

(* The only panics are those of full tables: no block is freed twice, no    *)
(* free inode locked, and no name removed from an inode without links.      *)
PanicOnlyWhenFull == panic \in {None, "ialloc", "iget", "balloc"}

(* Every reference, block and inode is accounted for, between any two steps  *)
(* of overlapping calls.                                                     *)
Accounted ==
  /\ InodesTypeOK /\ RefsCounted /\ BlocksOwnedOnce
  /\ FreedUnlessOverlapped /\ PanicOnlyWhenFull

(* The cache is write-through (fs.c:218): the valid copy of an inode is the *)
(* one on the disk, the addresses bmap filled in included.                  *)
WriteThrough ==
  \A s \in Slots : icache[s].ref > 0 /\ icache[s].valid => icache[s].din = dinode[icache[s].inum]

(* A file reads back as what was written, up to its size: bmap finds the    *)
(* same block for a place again, and nobody else writes to it.              *)
FilesReadBack ==
  \A i \in Inums : Current(i).type = "file" =>
    \A off \in 0..Current(i).size - 1 : Word(Current(i).addrs, off) = Data

(* What is in a file survives: in the inode on the disk, when its cache      *)
(* entry is reused, and in its blocks.                                       *)
FilesIntact == WriteThrough /\ FilesReadBack

(* A transaction of filewrite logs fewer than the MAXOPBLOCKS blocks that   *)
(* begin_op reserved, as the proofs about log.c assume of every operation.  *)
ReservationKept == ~overran
=============================================================================
