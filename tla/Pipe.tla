-------------------------------- MODULE Pipe --------------------------------
(***************************************************************************)
(* pipe.c: pipewrite, piperead and pipeclose under p->lock, one step per   *)
(* critical section, and one for the sleep that ends it: a process between *)
(* its test and its sleep holds the lock, but kill() does not take that    *)
(* lock and may come between them.  The last close of each end is found by *)
(* fileclose of file.c.  nread and nwrite are unsigned words that wrap at  *)
(* Word, a multiple of PipeSize as 2^32 is of 512.                         *)
(***************************************************************************)
EXTENDS Integers, Sequences, FiniteSets, FiniteSetsExt

CONSTANTS
  Readers, Writers,  \* the processes that hold the two ends
  Byte, PipeSize, Word,
  Messages,          \* the requests writers make
  ReadSizes          \* the sizes readers ask for

ASSUME PipeAssumption ==
  /\ PipeSize \in Nat \ {0}
  /\ Word \in Nat /\ Word % PipeSize = 0 /\ Word > PipeSize
  /\ Messages \subseteq Seq(Byte) \ {<<>>}
  /\ ReadSizes \subseteq Nat \ {0}
  /\ Readers \cap Writers = {} /\ Byte # {}

Procs == Readers \cup Writers

VARIABLES
  data, nread, nwrite,   \* struct pipe
  readopen, writeopen, freed,
  holders,               \* processes whose descriptor is still open
  pc, killed,            \* process states and p->killed
  todo,                  \* todo[w]: what pipewrite has still to copy
  out,                   \* what the last piperead returned
  stranded               \* history: a killed writer left bytes behind without
                         \* waking the readers

pipe == <<data, nread, nwrite>>
ends == <<readopen, writeopen, freed, holders>>
vars == <<pipe, ends, pc, killed, todo, out, stranded>>

PipeTypeOK ==
  /\ data \in [0..(PipeSize - 1) -> Byte]
  /\ nread \in 0..(Word - 1) /\ nwrite \in 0..(Word - 1)
  /\ readopen \in BOOLEAN /\ writeopen \in BOOLEAN /\ freed \in BOOLEAN
  /\ holders \in SUBSET Procs
  /\ pc \in [Procs -> {"user", "ready", "dozing", "asleep"}]
  /\ killed \in [Procs -> BOOLEAN]
  /\ todo \in [Writers -> Seq(Byte)] /\ out \in Seq(Byte)
  /\ stranded \in BOOLEAN

\* pipealloc; the page from kalloc holds the junk that kfree fills it with.
Init ==
  /\ data = [i \in 0..(PipeSize - 1) |-> CHOOSE c \in Byte : TRUE]
  /\ nread = 0 /\ nwrite = 0
  /\ readopen = TRUE /\ writeopen = TRUE /\ freed = FALSE
  /\ holders = Procs
  /\ pc = [p \in Procs |-> "user"]
  /\ killed = [p \in Procs |-> FALSE]
  /\ todo = [w \in Writers |-> <<>>]
  /\ out = <<>> /\ stranded = FALSE

\* p->lock is held, between steps, only by a process about to sleep.
Unlocked == \A p \in Procs : pc[p] # "dozing"

\* nwrite - nread as an unsigned word.
Avail == (nwrite - nread) % Word

\* Mutant: the full test is nwrite == nread + PIPESIZE + 1.
Space_over == PipeSize + 1 - Avail

\* What fits before nwrite == nread + PIPESIZE.
Space == PipeSize - Avail

\* Mutant: nobody is woken.
Wake_none(S, p, next) == [pc EXCEPT ![p] = next]

\* wakeup(chan): the sleepers among S become runnable; p goes to label next.
Wake(S, p, next) ==
  [q \in Procs |-> IF q = p THEN next
                   ELSE IF q \in S /\ pc[q] = "asleep" THEN "ready" ELSE pc[q]]

\* sys_write and sys_read: a killed process exits at the system call instead.
CallWrite(w) ==
  /\ pc[w] = "user" /\ w \in holders /\ ~killed[w]
  /\ \E m \in Messages : todo' = [todo EXCEPT ![w] = m]
  /\ pc' = [pc EXCEPT ![w] = "ready"]
  /\ UNCHANGED <<pipe, ends, killed, out, stranded>>

CallRead(r) ==
  /\ pc[r] = "user" /\ r \in holders /\ ~killed[r]
  /\ pc' = [pc EXCEPT ![r] = "ready"]
  /\ UNCHANGED <<pipe, ends, killed, todo, out, stranded>>

\* Mutant: the ring index is reduced modulo PIPESIZE + 1.
Stored_past(s, k) ==
  [j \in 0..PipeSize |->
     IF \E i \in 1..k : (nwrite + i - 1) % (PipeSize + 1) = j THEN s[1]
     ELSE data[j % PipeSize]]

\* The ring after the first k bytes of s are stored at nwrite.
Stored(s, k) ==
  [j \in DOMAIN data |->
     IF \E i \in 1..k : (nwrite + i - 1) % PipeSize = j
     THEN s[CHOOSE i \in 1..k : (nwrite + i - 1) % PipeSize = j]
     ELSE data[j]]

\* pipewrite from acquiring p->lock, or from waking up with it, to the next
\* release or sleep.
pipewrite(w) ==
  LET s == todo[w]
      k == Min({Len(s), Space})
      done == k = Len(s)
      fail == ~done /\ (~readopen \/ killed[w])
  IN
  /\ pc[w] = "ready" /\ Unlocked
  /\ data' = Stored(s, k)
  /\ nwrite' = (nwrite + k) % Word
  /\ todo' = [todo EXCEPT ![w] = IF fail THEN <<>> ELSE SubSeq(s, k + 1, Len(s))]
  /\ pc' = IF fail THEN [pc EXCEPT ![w] = "user"]
           ELSE Wake(Readers, w, IF done THEN "user" ELSE "dozing")
  /\ stranded' = IF fail THEN stranded \/ k > 0 ELSE FALSE
  /\ UNCHANGED <<nread, ends, killed, out>>

piperead(r) ==
  /\ pc[r] = "ready" /\ Unlocked
  /\ IF nread = nwrite /\ writeopen
     THEN /\ pc' = [pc EXCEPT ![r] = IF killed[r] THEN "user" ELSE "dozing"]
          /\ UNCHANGED <<nread, out>>
     ELSE \E n \in ReadSizes :
            LET k == Min({n, Avail}) IN
            /\ out' = [i \in 1..k |-> data[(nread + i - 1) % PipeSize]]
            /\ nread' = (nread + k) % Word
            /\ pc' = Wake(Writers, r, "user")
  /\ stranded' = (stranded /\ nread' # nwrite)
  /\ UNCHANGED <<data, nwrite, ends, killed, todo>>

\* sleep() releases p->lock and marks the process SLEEPING in one step.
sleep(p) ==
  /\ pc[p] = "dozing"
  /\ pc' = [pc EXCEPT ![p] = "asleep"]
  /\ UNCHANGED <<pipe, ends, killed, todo, out, stranded>>

\* Mutant: pipeclose frees the page when the first end is closed.
fileclose_frees(p) ==
  LET side == IF p \in Writers THEN Writers ELSE Readers
      last == holders \cap side = {p}
  IN
  /\ pc[p] = "user" /\ p \in holders
  /\ last => Unlocked
  /\ holders' = holders \ {p}
  /\ writeopen' = (writeopen /\ ~(last /\ side = Writers))
  /\ readopen' = (readopen /\ ~(last /\ side = Readers))
  /\ freed' = (~writeopen' \/ ~readopen')
  /\ pc' = IF last THEN Wake(Procs \ side, p, "user") ELSE pc
  /\ UNCHANGED <<pipe, killed, todo, out, stranded>>

\* Mutant: pipeclose does not take p->lock.
fileclose_unlocked(p) ==
  LET side == IF p \in Writers THEN Writers ELSE Readers
      last == holders \cap side = {p}
  IN
  /\ pc[p] = "user" /\ p \in holders
  /\ holders' = holders \ {p}
  /\ writeopen' = (writeopen /\ ~(last /\ side = Writers))
  /\ readopen' = (readopen /\ ~(last /\ side = Readers))
  /\ freed' = (~writeopen' /\ ~readopen')
  /\ pc' = IF last THEN Wake(Procs \ side, p, "user") ELSE pc
  /\ UNCHANGED <<pipe, killed, todo, out, stranded>>

\* close(), or exit() of a killed process: fileclose of the last descriptor of
\* an end calls pipeclose, and the second pipeclose frees the page.
fileclose(p) ==
  LET side == IF p \in Writers THEN Writers ELSE Readers
      last == holders \cap side = {p}
  IN
  /\ pc[p] = "user" /\ p \in holders
  /\ last => Unlocked
  /\ holders' = holders \ {p}
  /\ writeopen' = (writeopen /\ ~(last /\ side = Writers))
  /\ readopen' = (readopen /\ ~(last /\ side = Readers))
  /\ freed' = (~writeopen' /\ ~readopen')
  /\ pc' = IF last THEN Wake(Procs \ side, p, "user") ELSE pc
  /\ stranded' = (stranded /\ ~(last /\ side = Writers))
  /\ UNCHANGED <<pipe, killed, todo, out>>

\* kill() makes a sleeper runnable.
kill(p) ==
  /\ ~killed[p]
  /\ killed' = [killed EXCEPT ![p] = TRUE]
  /\ pc' = [pc EXCEPT ![p] = IF @ = "asleep" THEN "ready" ELSE @]
  /\ UNCHANGED <<pipe, ends, todo, out, stranded>>

Next ==
  \/ \E w \in Writers : CallWrite(w) \/ pipewrite(w)
  \/ \E r \in Readers : CallRead(r) \/ piperead(r)
  \/ \E p \in Procs : sleep(p) \/ fileclose(p) \/ kill(p)

\* A runnable process is scheduled; readers read on or close, a killed process
\* exits.
Fairness ==
  /\ \A w \in Writers : WF_vars(pipewrite(w) \/ sleep(w) \/ (killed[w] /\ fileclose(w)))
  /\ \A r \in Readers : WF_vars(piperead(r) \/ sleep(r) \/ CallRead(r) \/ fileclose(r))

Spec == Init /\ [][Next]_vars /\ Fairness

-----------------------------------------------------------------------------
(* No lost wakeup: a writer sleeps only while the pipe is full and can still *)
(* be read, a reader only while it is empty and can still be written.  The   *)
(* one exception of pipe.c is recorded by stranded: pipewrite returns -1 at  *)
(* pipe.c:86 after storing bytes, without the wakeup(&p->nread) of its other *)
(* exits.                                                                    *)
SleepersHaveCause ==
  /\ PipeTypeOK
  /\ \A w \in Writers : pc[w] = "asleep" =>
       Avail = PipeSize /\ readopen /\ todo[w] # <<>>
  /\ \A r \in Readers : pc[r] = "asleep" =>
       (Avail = 0 \/ stranded) /\ writeopen

(* pipeclose frees the page only when no process is inside piperead or       *)
(* pipewrite and none can enter it again.                                    *)
FreedUnused == freed => holders = {} /\ \A p \in Procs : pc[p] = "user"

(* A writer blocked on a full pipe is woken if readers keep reading or close,  *)
(* also when other writers refill the pipe and when it is killed just before   *)
(* it sleeps.                                                                  *)
WriterWoken == \A w \in Writers : pc[w] = "asleep" ~> pc[w] # "asleep"

(* pipeclose of the last writer wakes the readers: a blocked piperead then   *)
(* returns the bytes left, or 0.                                             *)
EofReachesReaders ==
  \A r \in Readers : pc[r] # "user" /\ ~writeopen ~> pc[r] = "user"

(* The ring with wrapping counters implements the bounded byte queue.        *)
BP == INSTANCE BytePipe
        WITH queue <- [i \in 1..Avail |-> data[(nread + i - 1) % PipeSize]]
BytePipeSpec == BP!Spec
=============================================================================
