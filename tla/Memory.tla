------------------------------- MODULE Memory -------------------------------
(***************************************************************************)
(* Physical pages and address spaces: kalloc.c, vm.c, exec.c and what      *)
(* allocproc, fork, growproc, exit and wait of proc.c do with them, when   *)
(* memory may run out at any page.                                         *)
(*                                                                         *)
(* A step is a critical section of kmem.lock: one kalloc.  Routines that   *)
(* only free pages are one step: a kalloc of another process in between    *)
(* sees what it would see before or after it.  free is the set of pages on *)
(* the free list; kalloc returns the least of them, as nothing depends on  *)
(* which page it is.  A byte stands for PGSIZE / 2 bytes.                  *)
(***************************************************************************)
EXTENDS Integers, Sequences, FiniteSets, FiniteSetsExt

CONSTANTS
  NPAGES,     \* physical pages between end and PHYSTOP
  NPROC,
  PGSIZE,     \* bytes in a page
  NPTENTRIES, \* pages a page table maps
  KTABLES,    \* page tables setupkvm needs for the kernel's mappings
  KERNBASE,   \* first address above user memory
  Images,     \* programs: sequences of segments [vaddr, memsz, filesz]
  Steps,      \* the arguments of sbrk
  ArgSizes    \* bytes exec pushes for its arguments

MemoryAssumption ==
  /\ {NPAGES, NPROC, PGSIZE, NPTENTRIES, KTABLES} \subseteq Nat \ {0}
  /\ KERNBASE \in Nat \ {0} /\ KERNBASE % PGSIZE = 0
  /\ Steps \subseteq (-KERNBASE)..(KERNBASE - 1)

Pages == 1..NPAGES
Slots == 1..NPROC
initproc == 1
UserPages == 0..(KERNBASE \div PGSIZE - 1)
UserTables == {v \div NPTENTRIES : v \in UserPages}
PGROUNDUP(n) == (n + PGSIZE - 1) \div PGSIZE   \* as a page number

\* Mutant: sizes are signed.
uint_signed(n) == n

uint(n) == n % (2 * KERNBASE)   \* KERNBASE is 2^31

\* A page table: its directory, the tables below it, the pages they map and
\* the mapped pages without PTE_U.
NoDir == [dir |-> 0, ktab |-> {}, utab |-> [t \in UserTables |-> 0],
          pte |-> [v \in UserPages |-> 0], guard |-> {}]
Values(f) == {f[i] : i \in DOMAIN f} \ {0}

VARIABLES
  free,     \* kmem.freelist
  data,     \* what a page holds: "junk" since kfree, "zero", or "text" of a program
  proc,     \* struct proc: state, kstack, pgdir, sz
  cur,      \* the call a process executes and its local variables
  txn,      \* the processes in a transaction with the program's inode locked
  panic

vars == <<free, data, proc, cur, txn, panic>>

Unused == [state |-> "UNUSED", kstack |-> 0, pgdir |-> NoDir, sz |-> 0]
\* call, where it is, the new page table, the page in hand, the bounds of the
\* pages to allocate, the child's slot, the segments to come, the segment being
\* loaded, and whether exec's ip is set.
Idle == [call |-> "user", at |-> "user", pgdir |-> NoDir, mem |-> 0, a |-> 0, oldsz |-> 0,
         newsz |-> 0, np |-> 0, segs |-> <<>>, seg |-> <<>>, ip |-> FALSE]

-----------------------------------------------------------------------------
(* kalloc.c and vm.c *)

kalloc == Min(free)

\* kfree of the pages in S, which also fills them with junk.
kfree(S) ==
  /\ free' = free \cup S
  /\ data' = [k \in Pages |-> IF k \in S THEN "junk" ELSE data[k]]

\* Mutant: the pages of the user's page tables are forgotten.
Held_tables(d) == ({d.dir} \cup d.ktab \cup Values(d.pte)) \ {0}

\* What freevm frees.
Held(d) == ({d.dir} \cup d.ktab \cup Values(d.utab) \cup Values(d.pte)) \ {0}

\* Mutant: the page that newsz is in is freed as well.
Cut_down(oldsz, newsz) == {v \in UserPages : newsz \div PGSIZE <= v /\ v * PGSIZE < oldsz}

\* The pages deallocuvm(pgdir, oldsz, newsz) looks at.
Cut(oldsz, newsz) == {v \in UserPages : PGROUNDUP(newsz) <= v /\ v * PGSIZE < oldsz}

\* The page table without the pages of V, and those pages.
Without(d, V) == [d EXCEPT !.pte = [v \in UserPages |-> IF v \in V THEN 0 ELSE d.pte[v]],
                           !.guard = @ \ V]
PagesIn(d, V) == {d.pte[v] : v \in V} \ {0}

\* mappages for one page, its table t being there or just allocated.
mappages(d, v, page, t) == [d EXCEPT !.pte[v] = page, !.utab[v \div NPTENTRIES] = t]

\* Mutant: a new page is not cleared.
Fresh_junk(p) == IF cur[p].call = "fork" THEN data[proc[p].pgdir.pte[cur[p].a]] ELSE data[kalloc]

\* What is written to a page before it is mapped: the parent's or zeros.
Fresh(p) == IF cur[p].call = "fork" THEN data[proc[p].pgdir.pte[cur[p].a]] ELSE "zero"

\* The first page of the first process, initcode.
inituvm(d, page, t) == mappages(d, 0, page, t)

\* User code cannot use page v.
clearpteu(d, v) == [d EXCEPT !.guard = @ \cup {v}]

\* The kernel can write to the n bytes below the address va for the user.
copyout(d, va, n) ==
  \A v \in UserPages : v * PGSIZE < va /\ va - n < (v + 1) * PGSIZE => d.pte[v] # 0 /\ v \notin d.guard

\* kinit1, kinit2, kvmalloc (kpgdir takes the first pages) and userinit.
Init ==
  LET kvm(k) == [NoDir EXCEPT !.dir = k, !.ktab = (k + 1)..(k + KTABLES)]
      n == 2 * KTABLES + 5 IN
  /\ free = (n + 1)..NPAGES
  /\ data = [k \in Pages |-> IF k <= n THEN "zero" ELSE "junk"]
  /\ proc = [p \in Slots |-> IF p # initproc THEN Unused ELSE
       [state |-> "RUNNABLE", kstack |-> KTABLES + 2, sz |-> PGSIZE,
        pgdir |-> inituvm(kvm(KTABLES + 3), n - 1, n)]]
  /\ cur = [p \in Slots |-> Idle]
  /\ txn = {}
  /\ panic = FALSE

\* The pages of kpgdir, which is never freed.
kpgdir == 1..(KTABLES + 1)

-----------------------------------------------------------------------------
(* Calls *)

\* p executes the call at that place.  A process in user mode runs as long as
\* its first page is there.
At(p, at) == proc[p].state = "RUNNABLE" /\ cur[p].at = at /\ ~panic
User(p) == At(p, "user") /\ proc[p].pgdir.pte[0] # 0

\* The page table the call of p works on.
Dir(p) == IF cur[p].call = "sbrk" THEN proc[p].pgdir ELSE cur[p].pgdir
WithDir(p, d) == IF cur[p].call = "sbrk" THEN [proc EXCEPT ![p].pgdir = d] ELSE proc
CurDir(p, d) == IF cur[p].call = "sbrk" THEN cur[p] ELSE [cur[p] EXCEPT !.pgdir = d]

Return(p) == cur' = [cur EXCEPT ![p] = Idle]

\* Mutant: fork's error path keeps the kernel stack.
Kstack_kept(p) == {}

\* The kernel stack fork gives back when it fails.
Kstack(p) == IF cur[p].call = "fork" THEN {proc[cur[p].np].kstack} \ {0} ELSE {}

\* Mutant: exec leaves the inode locked.
Ended_not(p) == txn

\* iunlockput and end_op, if ip is still set.
Ended(p) == IF cur[p].ip THEN txn \ {p} ELSE txn

\* Mutant: allocuvm gives back nothing.
Undone_not(p) == {}

\* The pages allocuvm deallocates when it fails.
Undone(p) == Cut(cur[p].newsz, cur[p].oldsz)

\* The call fails: allocuvm gives back the pages it allocated, and fork and exec
\* free the new page table; S is the page that could not be mapped.
Fail(p, S) ==
  LET d == Dir(p) IN
  /\ kfree(S \cup Kstack(p) \cup
           (IF cur[p].call = "sbrk" THEN PagesIn(d, Undone(p)) ELSE Held(d)))
  /\ proc' = IF cur[p].call = "fork" THEN [proc EXCEPT ![cur[p].np] = Unused]
             ELSE WithDir(p, Without(d, Undone(p)))
  /\ txn' = Ended(p)
  /\ Return(p)
  /\ UNCHANGED panic

\* kalloc for one more page of the page table; got is the call once it has the page.
Alloc(p, got) ==
  IF free = {} THEN Fail(p, {})
  ELSE /\ free' = free \ {kalloc}
       /\ data' = [data EXCEPT ![kalloc] = "zero"]
       /\ cur' = [cur EXCEPT ![p] = got]
       /\ UNCHANGED <<proc, txn, panic>>

\* setupkvm: the directory, then the tables of the kernel's part.
setupkvm(p) ==
  /\ At(p, "dir")
  /\ Alloc(p, [cur[p] EXCEPT !.pgdir.dir = kalloc, !.at = "kvm"])

setupkvm_tables(p) ==
  LET last == Cardinality(cur[p].pgdir.ktab) = KTABLES - 1 IN
  /\ At(p, "kvm")
  /\ Alloc(p, [cur[p] EXCEPT
       !.pgdir.ktab = @ \cup {kalloc},
       !.at = IF ~last THEN "kvm" ELSE IF cur[p].call = "exec" THEN "segment" ELSE "page",
       !.newsz = IF cur[p].call = "fork" THEN proc[p].sz ELSE 0])

\* The loops of allocuvm and copyuvm: allocate a page and fill it, then map it.
More(p) == cur[p].a * PGSIZE < cur[p].newsz

NewPage(p) ==
  /\ At(p, "page") /\ More(p)
  /\ IF free = {} THEN Fail(p, {})
     ELSE /\ free' = free \ {kalloc}
          /\ panic' = (cur[p].call = "fork" /\ proc[p].pgdir.pte[cur[p].a] = 0)
          /\ data' = IF panic' THEN data ELSE [data EXCEPT ![kalloc] = Fresh(p)]
          /\ cur' = [cur EXCEPT ![p].mem = kalloc, ![p].at = "map"]
          /\ UNCHANGED <<proc, txn>>

\* Mutant: the flags are not copied.
Guard_lost(p) == {}

\* copyuvm copies the flags of a page.
Guard(p) == IF cur[p].call = "fork" THEN proc[p].pgdir.guard \cap {cur[p].a} ELSE {}

MapPage(p) ==
  LET v == cur[p].a
      t == Dir(p).utab[v \div NPTENTRIES]
      Mapped(table) == [mappages(Dir(p), v, cur[p].mem, table) EXCEPT !.guard = @ \cup Guard(p)]
      Installed(table) ==
        /\ proc' = WithDir(p, Mapped(table))
        /\ cur' = [cur EXCEPT ![p] = [CurDir(p, Mapped(table)) EXCEPT !.mem = 0, !.a = v + 1, !.at = "page"]]
        /\ panic' = (Dir(p).pte[v] # 0) IN
  /\ At(p, "map")
  /\ \/ t # 0 /\ Installed(t) /\ UNCHANGED <<free, data, txn>>
     \/ t = 0 /\ free = {} /\ Fail(p, {cur[p].mem})
     \/ /\ t = 0 /\ free # {}
        /\ Installed(kalloc)
        /\ free' = free \ {kalloc}
        /\ data' = [data EXCEPT ![kalloc] = "zero"]
        /\ UNCHANGED txn

-----------------------------------------------------------------------------
(* fork, sbrk, exit, wait *)

FreeSlots == {q \in Slots : proc[q].state = "UNUSED"}

allocproc(p) ==
  /\ User(p) /\ FreeSlots # {}
  /\ proc' = [proc EXCEPT ![Min(FreeSlots)].state = "EMBRYO"]
  /\ cur' = [cur EXCEPT ![p].call = "fork", ![p].at = "kstack", ![p].np = Min(FreeSlots)]
  /\ UNCHANGED <<free, data, txn, panic>>

allocproc_kstack(p) ==
  /\ At(p, "kstack")
  /\ IF free = {} THEN Fail(p, {})
     ELSE /\ free' = free \ {kalloc}
          /\ data' = [data EXCEPT ![kalloc] = "zero"]
          /\ proc' = [proc EXCEPT ![cur[p].np].kstack = kalloc]
          /\ cur' = [cur EXCEPT ![p].at = "dir"]
          /\ UNCHANGED <<txn, panic>>

fork(p) ==
  /\ At(p, "page") /\ ~More(p) /\ cur[p].call = "fork"
  /\ proc' = [proc EXCEPT ![cur[p].np] =
       [@ EXCEPT !.state = "RUNNABLE", !.pgdir = cur[p].pgdir, !.sz = proc[p].sz]]
  /\ Return(p)
  /\ UNCHANGED <<free, data, txn, panic>>

\* growproc(n): allocuvm's tests, or all of deallocuvm.  A size of 0 is taken
\* for an error.  init.c never calls sbrk.
growproc(p, n) ==
  LET sz == proc[p].sz
      newsz == uint(sz + n) IN
  /\ User(p) /\ p # initproc
  /\ \/ /\ n > 0 /\ newsz < KERNBASE
        /\ cur' = [cur EXCEPT ![p] = [Idle EXCEPT !.call = "sbrk", !.at = "page",
             !.a = PGROUNDUP(sz), !.oldsz = sz, !.newsz = newsz]]
        /\ UNCHANGED <<free, data, proc>>
     \/ /\ n < 0 /\ newsz < sz
        /\ kfree(PagesIn(proc[p].pgdir, Cut(sz, newsz)))
        /\ proc' = [proc EXCEPT ![p].pgdir = Without(@, Cut(sz, newsz)),
                                ![p].sz = IF newsz = 0 THEN sz ELSE newsz]
        /\ UNCHANGED cur
  /\ UNCHANGED <<txn, panic>>

grown(p) ==
  /\ At(p, "page") /\ ~More(p) /\ cur[p].call = "sbrk"
  /\ proc' = [proc EXCEPT ![p].sz = cur[p].newsz]
  /\ Return(p)
  /\ UNCHANGED <<free, data, txn, panic>>

\* Also what becomes of a process whose next instruction is not mapped.
exit(p) ==
  /\ At(p, "user") /\ p # initproc
  /\ proc' = [proc EXCEPT ![p].state = "ZOMBIE"]
  /\ UNCHANGED <<free, data, cur, txn, panic>>

\* p reaps a child (ProcTable.tla says which).
wait(p, q) ==
  /\ User(p) /\ proc[q].state = "ZOMBIE"
  /\ kfree({proc[q].kstack} \cup Held(proc[q].pgdir))
  /\ proc' = [proc EXCEPT ![q] = Unused]
  /\ UNCHANGED <<cur, txn, panic>>

-----------------------------------------------------------------------------
(* exec *)

\* The program exists and has an ELF header; else exec returns at once.
exec(p, image) ==
  /\ User(p)
  /\ cur' = [cur EXCEPT ![p] = [Idle EXCEPT !.call = "exec", !.at = "dir", !.segs = image, !.ip = TRUE]]
  /\ txn' = txn \cup {p}
  /\ UNCHANGED <<free, data, proc, panic>>

\* allocuvm(pgdir, sz, newsz) from here on, unless it fails its first test or
\* returns the old size, which is an error if it is 0.
Begin(p, c, newsz) ==
  IF newsz >= KERNBASE \/ (newsz = 0 /\ c.oldsz = 0) THEN Fail(p, {})
  ELSE /\ cur' = [cur EXCEPT ![p] = [c EXCEPT !.at = "page", !.a = PGROUNDUP(c.oldsz),
                                     !.newsz = IF newsz < c.oldsz THEN c.oldsz ELSE newsz]]
       /\ txn' = IF c.ip THEN txn ELSE txn \ {p}
       /\ UNCHANGED <<free, data, proc, panic>>

\* The next program header, or the end of the transaction and the stack.
segment(p) ==
  LET c == cur[p]
      ph == Head(c.segs)
      sz == PGROUNDUP(c.oldsz) * PGSIZE IN
  /\ At(p, "segment")
  /\ IF c.segs = <<>>
     THEN Begin(p, [c EXCEPT !.seg = <<>>, !.oldsz = sz, !.ip = FALSE], sz + 2 * PGSIZE)
     ELSE IF ph.memsz < ph.filesz \/ uint(ph.vaddr + ph.memsz) < ph.vaddr
     THEN Fail(p, {})
     ELSE Begin(p, [c EXCEPT !.seg = <<ph>>, !.segs = Tail(@)], uint(ph.vaddr + ph.memsz))

Loads(p) == At(p, "page") /\ ~More(p) /\ cur[p].call = "exec"

\* The segment's pages are there: loaduvm reads the file into them.
loaduvm(p, complete) ==
  LET ph == cur[p].seg[1]
      span == {v \in 0..(2 * KERNBASE) : ph.vaddr <= v * PGSIZE /\ v * PGSIZE < ph.vaddr + ph.filesz}
      pages == PagesIn(cur[p].pgdir, span \cap UserPages) IN
  /\ Loads(p) /\ cur[p].seg # <<>>
  /\ IF ph.vaddr % PGSIZE # 0 \/ ~complete THEN Fail(p, {})
     ELSE /\ panic' = (Cardinality(pages) # Cardinality(span))
          /\ data' = [k \in Pages |-> IF k \in pages THEN "text" ELSE data[k]]
          /\ cur' = [cur EXCEPT ![p].oldsz = cur[p].newsz, ![p].at = "segment"]
          /\ UNCHANGED <<free, proc, txn>>

\* The stack's two pages are there: the lower one is kept from the user, the
\* arguments go to the other, and the new image takes the place of the old one.
commit(p, n) ==
  LET v == (cur[p].newsz \div PGSIZE) - 2
      d == clearpteu(cur[p].pgdir, v) IN
  /\ Loads(p) /\ cur[p].seg = <<>>
  /\ IF ~copyout(d, cur[p].newsz, n) THEN Fail(p, {})
     ELSE /\ panic' = (d.pte[v] = 0)
          /\ proc' = [proc EXCEPT ![p].pgdir = d, ![p].sz = cur[p].newsz]
          /\ kfree(Held(proc[p].pgdir))
          /\ Return(p)
          /\ UNCHANGED txn

Next ==
  \E p \in Slots :
    \/ allocproc(p) \/ allocproc_kstack(p) \/ fork(p)
    \/ setupkvm(p) \/ setupkvm_tables(p) \/ NewPage(p) \/ MapPage(p)
    \/ \E n \in Steps : growproc(p, n)
    \/ grown(p) \/ exit(p)
    \/ \E q \in Slots : wait(p, q)
    \/ \E image \in Images : exec(p, image)
    \/ segment(p)
    \/ \E complete \in BOOLEAN : loaduvm(p, complete)
    \/ \E n \in ArgSizes : commit(p, n)

Spec == Init /\ [][Next]_vars

-----------------------------------------------------------------------------
\* Everything that refers to a page.
Refs ==
  {<<"kpgdir", k>> : k \in kpgdir} \cup
  UNION {{<<"kstack", p, proc[p].kstack>>, <<"mem", p, cur[p].mem>>} : p \in Slots} \cup
  UNION {LET d == pair[2] IN
           {<<"dir", pair[1], d.dir>>} \cup {<<"ktab", pair[1], k>> : k \in d.ktab} \cup
           {<<"utab", pair[1], t, d.utab[t]>> : t \in UserTables} \cup
           {<<"pte", pair[1], v, d.pte[v]>> : v \in UserPages} :
         pair \in {<<<<p, 1>>, proc[p].pgdir>> : p \in Slots} \cup {<<<<p, 2>>, cur[p].pgdir>> : p \in Slots}}

\* Types of memory; sizes stay below KERNBASE.
MemoryTypeOK ==
  /\ free \subseteq Pages
  /\ data \in [Pages -> {"junk", "zero", "text"}]
  /\ \A p \in Slots :
       /\ proc[p].state \in {"UNUSED", "EMBRYO", "RUNNABLE", "ZOMBIE"}
       /\ proc[p].sz \in 0..(KERNBASE - 1)
       /\ cur[p].a \in 0..(KERNBASE \div PGSIZE) /\ cur[p].newsz \in 0..(KERNBASE - 1)
  /\ txn \subseteq Slots

(* Every page is on the free list or in exactly one place, a page table, a  *)
(* kernel stack or a variable of a call under way: whatever page fork, sbrk *)
(* or exec fail at, none is lost, shared or freed while in use.             *)
PagesOwnedOnce ==
  \A k \in Pages :
    Cardinality({r \in Refs : r[Len(r)] = k}) = IF k \in free THEN 0 ELSE 1

(* A process in user mode has the pages below its size and no others, none  *)
(* of them with what a page held before it was freed, also after a failed   *)
(* sbrk or exec.  The exception is sbrk to size 0, which leaves no page.    *)
ImageComplete ==
  \A p \in Slots : User(p) =>
    LET d == proc[p].pgdir IN
    /\ {v \in UserPages : d.pte[v] # 0} = 0..(PGROUNDUP(proc[p].sz) - 1)
    /\ \A k \in Values(d.pte) : data[k] # "junk"

(* None of the panics of vm.c is reached: no page is mapped twice, copied   *)
(* or loaded without being there.                                           *)
NoPanic == ~panic

(* exec is in its transaction, with the program locked, exactly until it    *)
(* has read the program: each error path ends it once.                      *)
TransactionEnds == \A p \in Slots : p \in txn <=> cur[p].ip

(* fork, sbrk, exec, exit and wait leave memory in order at every page they  *)
(* can fail at.                                                              *)
MemorySound ==
  MemoryTypeOK /\ PagesOwnedOnce /\ ImageComplete /\ NoPanic /\ TransactionEnds

\* What a process sees of its memory.
View(d, content) == 
  [v \in UserPages |-> <<IF d.pte[v] = 0 THEN "none" ELSE content[d.pte[v]], v \in d.guard>>]

(* A forked child starts with what its parent has, page by page, and with   *)
(* the same page kept from user code, although copyuvm works page by page   *)
(* while other processes allocate and free.                                 *)
ChildCopied ==
  \A p \in Slots : fork(p) => View(proc'[cur[p].np].pgdir, data') = View(proc[p].pgdir, data)
ChildIsCopy == [][ChildCopied]_vars
=============================================================================
