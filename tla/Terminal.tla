------------------------------ MODULE Terminal ------------------------------
(***************************************************************************)
(* A session: keys typed at the console (consoleintr, consoleread), the    *)
(* shell that reads them (sh.c), the processes it starts with their file   *)
(* descriptors (sysfile.c), and init, which restarts the shell.            *)
(*                                                                         *)
(* A step is a system call, or the handling of one key.  todo is the       *)
(* sequence of system calls a process will make.  What a line says is      *)
(* abstract: its characters are "x", and the shell understands it as any   *)
(* of Lines.  Programs copy their input to their output, like cat.c, or    *)
(* write once, like echo.c.                                                *)
(***************************************************************************)
EXTENDS ShellParser, FiniteSets, FiniteSetsExt

CONSTANTS
  NPROC, NOFILE,
  NPIPE,       \* pipes there is memory for
  INPUT_BUF,   \* size of the console's ring
  Wrap,        \* r, w and e count modulo Wrap (2^32 in the code)
  nbuf,        \* the shell's buffer
  CatBuf,      \* the buffer of a program that reads
  Keys,
  Lines,       \* what may be typed, as tokens
  MaxKeys,     \* keys typed in a session
  MaxFaults    \* how often fork, exec, open or pipe fail for lack of something

TerminalAssumption ==
  NPROC > 2 /\ NOFILE > 4 /\ INPUT_BUF > 0 /\ Wrap % INPUT_BUF = 0 /\ Wrap > INPUT_BUF

Slots == 1..NPROC
Fds == 0..(NOFILE - 1)
Pipes == 1..NPIPE
init == 1

VARIABLES
  buf, r, w, e,     \* input: the ring, and the read, write and edit index
  proc,             \* the processes
  count,            \* bytes in each pipe, at most 1
  typed, faults,    \* keys typed and calls that failed, for the bounds
  panic             \* init exited

input == <<buf, r, w, e>>
vars == <<input, proc, count, typed, faults, panic>>

None == <<"none", 0>>
tty == <<"tty", 0>>
File == <<"file", 0>>
R(k) == <<"read", k>>
W(k) == <<"write", k>>

\* wire is history: the standard input and output the command line asks for.
Unused == [state |-> "UNUSED", parent |-> 0, todo |-> <<>>, asleep |-> FALSE,
           ofile |-> [d \in Fds |-> None], wire |-> <<None, None>>]
exit == <<<<"exit">>>>
StdFiles == [d \in Fds |-> IF d < 3 THEN tty ELSE None]

\* init has opened the console as descriptors 0, 1 and 2.
Init ==
  /\ buf = [i \in 0..(INPUT_BUF - 1) |-> "x"]
  /\ r = 0 /\ w = 0 /\ e = 0
  /\ proc = [p \in Slots |-> IF p # init THEN Unused ELSE
       [Unused EXCEPT !.state = "RUNNABLE", !.todo = <<<<"start">>>>, !.ofile = StdFiles, !.wire = <<tty, tty>>]]
  /\ count = [k \in Pipes |-> 0]
  /\ typed = 0 /\ faults = 0 /\ panic = FALSE

-----------------------------------------------------------------------------
(* console.c *)

Index(i) == i % INPUT_BUF
Between(i, j) == [k \in 1..((j - i) % Wrap) |-> buf[Index(i + k - 1)]]

\* Mutant: one character too many.
Room_over == (e - r) % Wrap <= INPUT_BUF
Room == (e - r) % Wrap < INPUT_BUF

\* Mutant: only the end of a line is passed on.
Completes_end(c, next) == c \in {"nl", "^D"}

\* Whether the line becomes ready with character c, e being next then.
Completes(c, next) == c \in {"nl", "^D"} \/ next = (r + INPUT_BUF) % Wrap

\* Mutant: one reader is woken.
Woken_one ==
  [p \in Slots |-> [proc[p] EXCEPT !.asleep = @ /\ \E q \in 1..(p - 1) : proc[q].asleep]]
Woken == [p \in Slots |-> [proc[p] EXCEPT !.asleep = FALSE]]

consoleintr(c) ==
  LET next == (e + 1) % Wrap IN
  /\ ~panic /\ typed < MaxKeys /\ typed' = typed + 1
  /\ \/ /\ c = "^U"
        /\ e' = w /\ UNCHANGED <<buf, w, proc>>
     \/ /\ c = "^H" /\ e # w
        /\ e' = (e - 1) % Wrap /\ UNCHANGED <<buf, w, proc>>
     \/ /\ c \notin {"^U", "^H"} /\ Room
        /\ buf' = [buf EXCEPT ![Index(e)] = c]
        /\ e' = next
        /\ IF Completes(c, next) THEN w' = next /\ proc' = Woken ELSE UNCHANGED <<w, proc>>
  /\ UNCHANGED <<r, count, faults, panic>>

\* consoleread with n bytes to go, got bytes being read already: how many
\* characters it takes from s, and the bytes it returns, or -1 if it sleeps.
consoleread(s, n, got) ==
  LET stops == {i \in 1..Len(s) : s[i] \in {"nl", "^D"} \/ i = n}
      i == Min(stops) IN
  IF stops = {} THEN [taken |-> Len(s), bytes |-> -1]
  ELSE IF s[i] # "^D" THEN [taken |-> i, bytes |-> got + i]
  ELSE IF got + i - 1 > 0 THEN [taken |-> i - 1, bytes |-> got + i - 1]
  ELSE [taken |-> i, bytes |-> 0]

-----------------------------------------------------------------------------
(* runcmd: the system calls that run a command *)

fork(code, fd, f) == <<<<"fork", code, fd, f>>>>
fork1(code) == fork(code, -1, None)
close(fd) == <<<<"close", fd>>>>
dup(fd) == <<<<"dup", fd>>>>
wait == <<<<"wait">>>>

RECURSIVE runcmd(_)

\* Mutant: a redirection leaves the old descriptor open.
redir_open(cmd) == <<<<"open", cmd.fd>>>>
redir(cmd) == close(cmd.fd) \o <<<<"open", cmd.fd>>>>

runcmd(cmd) ==
  CASE cmd.type = "EXEC" -> IF cmd.argc = 0 THEN exit ELSE <<<<"exec">>>>
    [] cmd.type = "REDIR" -> redir(cmd) \o runcmd(cmd.cmd)
    [] cmd.type = "LIST" -> fork1(runcmd(cmd.left)) \o wait \o runcmd(cmd.right)
    [] cmd.type = "PIPE" -> <<<<"pipe", runcmd(cmd.left), runcmd(cmd.right)>>>>
    [] cmd.type = "BACK" -> fork1(runcmd(cmd.cmd)) \o exit
    [] cmd.type = "panic" -> exit

\* Mutant: the shell that waits for a pipeline keeps its ends open.
piped_open(left, right, k, p0, p1) ==
  fork(close(1) \o dup(p1) \o close(p0) \o close(p1) \o left, 1, W(k))
    \o fork(close(0) \o dup(p0) \o close(p0) \o close(p1) \o right, 0, R(k))
    \o wait \o wait \o exit

\* The rest of a pipeline once pipe k has the descriptors p0 and p1.
piped(left, right, k, p0, p1) ==
  fork(close(1) \o dup(p1) \o close(p0) \o close(p1) \o left, 1, W(k))
    \o fork(close(0) \o dup(p0) \o close(p0) \o close(p1) \o right, 0, R(k))
    \o close(p0) \o close(p1) \o wait \o wait \o exit

-----------------------------------------------------------------------------
(* System calls *)

At(p, call) ==
  /\ ~panic /\ proc[p].state = "RUNNABLE" /\ ~proc[p].asleep
  /\ Head(proc[p].todo)[1] = call
Arg(p) == Head(proc[p].todo)
Rest(p) == Tail(proc[p].todo)
Then(p, todo) == proc' = [proc EXCEPT ![p].todo = todo]

\* A call that fails for lack of memory, of an inode, ...
Fault == faults < MaxFaults /\ faults' = faults + 1
Fails(full) == IF full THEN UNCHANGED faults ELSE Fault

FreeSlots == {q \in Slots : proc[q].state = "UNUSED"}
FreeFds(p) == {d \in Fds : proc[p].ofile[d] = None}
Open(f) == \E p \in Slots, d \in Fds : proc[p].ofile[d] = f
FreePipes == {k \in Pipes : ~Open(R(k)) /\ ~Open(W(k))}

\* The processes once p goes on with next and q is its child running code.
Forked(p, q, next, code, wire) ==
  [proc EXCEPT ![p].todo = next,
               ![q] = [proc[p] EXCEPT !.parent = p, !.todo = code, !.wire = wire]]

Fork(p) ==
  LET wire == proc[p].wire
      a == Arg(p) IN
  /\ At(p, "fork")
  /\ \/ /\ FreeSlots # {}
        /\ proc' = Forked(p, Min(FreeSlots), Rest(p), a[2], IF a[3] = -1 THEN wire ELSE [wire EXCEPT ![a[3] + 1] = a[4]])
        /\ UNCHANGED faults
     \/ /\ Fails(FreeSlots = {})
        /\ Then(p, exit)
  /\ UNCHANGED <<input, count, typed, panic>>

Pipe(p) ==
  LET k == Min(FreePipes)
      p0 == Min(FreeFds(p))
      p1 == Min(FreeFds(p) \ {p0})
      a == Arg(p)
      can == FreePipes # {} /\ Cardinality(FreeFds(p)) > 1 IN
  /\ At(p, "pipe")
  /\ \/ /\ can
        /\ proc' = [proc EXCEPT ![p].todo = piped(a[2], a[3], k, p0, p1),
                                ![p].ofile[p0] = R(k), ![p].ofile[p1] = W(k)]
        /\ count' = [count EXCEPT ![k] = 0]
        /\ UNCHANGED faults
     \/ /\ Fails(~can)
        /\ Then(p, exit)
        /\ UNCHANGED count
  /\ UNCHANGED <<input, typed, panic>>

Close(p) ==
  /\ At(p, "close")
  /\ proc' = [proc EXCEPT ![p].todo = Rest(p), ![p].ofile[Arg(p)[2]] = None]
  /\ UNCHANGED <<input, count, typed, faults, panic>>

fdalloc(p) == Min(FreeFds(p))

Dup(p) ==
  LET f == proc[p].ofile[Arg(p)[2]] IN
  /\ At(p, "dup")
  /\ IF f = None \/ FreeFds(p) = {} THEN Then(p, Rest(p))
     ELSE proc' = [proc EXCEPT ![p].todo = Rest(p), ![p].ofile[fdalloc(p)] = f]
  /\ UNCHANGED <<input, count, typed, faults, panic>>

OpenFile(p) ==
  /\ At(p, "open")
  /\ \/ /\ FreeFds(p) # {}
        /\ proc' = [proc EXCEPT ![p].todo = Rest(p), ![p].ofile[fdalloc(p)] = File,
                                ![p].wire[Arg(p)[2] + 1] = File]
        /\ UNCHANGED faults
     \/ /\ Fails(FreeFds(p) = {})
        /\ Then(p, exit)
  /\ UNCHANGED <<input, count, typed, panic>>

\* The program of a command, or the shell that init starts.
Exec(p) ==
  /\ \/ /\ At(p, "exec")
        /\ \E todo \in {<<<<"cat", CatBuf>>>>, <<<<"write">>>> \o exit} : Then(p, todo)
        /\ UNCHANGED faults
     \/ /\ At(p, "exec sh")
        /\ Then(p, <<<<"getcmd", 0>>>>)
        /\ UNCHANGED faults
     \/ /\ At(p, "exec") \/ At(p, "exec sh")
        /\ Fault /\ Then(p, exit)
  /\ UNCHANGED <<input, count, typed, panic>>

Exit(p) ==
  /\ At(p, "exit")
  /\ panic' = (p = init)
  /\ proc' = [q \in Slots |->
       IF q = p THEN [proc[p] EXCEPT !.state = "ZOMBIE", !.todo = <<>>, !.ofile = Unused.ofile]
       ELSE IF proc[q].parent = p THEN [proc[q] EXCEPT !.parent = init] ELSE proc[q]]
  /\ UNCHANGED <<input, count, typed, faults>>

Children(p) == {q \in Slots : proc[q].parent = p}
Zombies(p) == {q \in Children(p) : proc[q].state = "ZOMBIE"}

Wait(p) ==
  /\ At(p, "wait")
  /\ \/ /\ Zombies(p) # {}
        /\ proc' = [proc EXCEPT ![p].todo = Rest(p), ![Min(Zombies(p))] = Unused]
     \/ Children(p) = {} /\ Then(p, Rest(p))
  /\ UNCHANGED <<input, count, typed, faults, panic>>

-----------------------------------------------------------------------------
(* Programs *)

\* init starts a shell, and another one when that has exited.
Start(p) ==
  /\ At(p, "start")
  /\ IF FreeSlots = {} THEN Then(p, exit)
     ELSE LET q == Min(FreeSlots) IN
          proc' = Forked(p, q, <<<<"reap", q>>>>, <<<<"exec sh">>>>, proc[p].wire)
  /\ UNCHANGED <<input, count, typed, faults, panic>>

Reap(p) ==
  /\ At(p, "reap") /\ Zombies(p) # {}
  /\ LET q == Min(Zombies(p)) IN
     proc' = [proc EXCEPT ![p].todo = IF q = Arg(p)[2] THEN <<<<"start">>>> ELSE @, ![q] = Unused]
  /\ UNCHANGED <<input, count, typed, faults, panic>>

\* One read of the console by p, which has n bytes to go and got some.
Input(n, got) == consoleread(Between(r, w), n, got)
Sleep(p, todo) == proc' = [proc EXCEPT ![p].asleep = TRUE, ![p].todo = todo]
Taken(in) == r' = (r + in.taken) % Wrap /\ UNCHANGED <<buf, w, e>>

\* Mutant: the shell asks for the next line without waiting.
loop_ahead == <<<<"getcmd", 0>>>>

\* The rest of the shell's loop after fork1.
loop == wait \o <<<<"getcmd", 0>>>>

\* The shell has a line: cd, or a command that a child parses and runs.
HasLine(p) ==
  \/ Then(p, <<<<"getcmd", 0>>>>)
  \/ \E s \in Lines : Then(p, fork1(<<<<"runcmd", s, parsecmd(s)>>>>) \o loop)

Runcmd(p) ==
  /\ At(p, "runcmd")
  /\ Then(p, runcmd(Arg(p)[3]))
  /\ UNCHANGED <<input, count, typed, faults, panic>>

\* gets reads one character; i characters are in the buffer.
getcmd(p) ==
  LET i == Arg(p)[2]
      in == Input(1, 0)
      c == buf[Index(r)] IN
  /\ At(p, "getcmd")
  /\ Taken(in)
  /\ CASE in.bytes = -1 -> Sleep(p, proc[p].todo)
       [] in.bytes = 0 /\ i = 0 -> Then(p, exit)
       [] in.bytes = 0 /\ i > 0 -> HasLine(p)
       [] in.bytes = 1 /\ (c = "nl" \/ i + 2 >= nbuf) -> HasLine(p)
       [] OTHER -> Then(p, <<<<"getcmd", i + 1>>>>)
  /\ UNCHANGED <<count, typed, faults, panic>>

\* A program reads its standard input; the console is read in parts.
cat(p) ==
  LET f == proc[p].ofile[0]
      n == Arg(p)[2]
      in == Input(n, CatBuf - n)
      more == <<<<"write">>, <<"cat", CatBuf>>>> IN
  /\ At(p, "cat")
  /\ \/ /\ f = tty
        /\ Taken(in)
        /\ CASE in.bytes = -1 -> Sleep(p, <<<<"cat", n - in.taken>>>>)
             [] in.bytes = 0 -> Then(p, exit)
             [] OTHER -> Then(p, more)
        /\ UNCHANGED count
     \/ /\ f = File
        /\ \E todo \in {more, exit} : Then(p, todo)
        /\ UNCHANGED <<input, count>>
     \/ \E k \in Pipes :
          /\ f = R(k) /\ (count[k] > 0 \/ ~Open(W(k)))
          /\ Then(p, IF count[k] > 0 THEN more ELSE exit)
          /\ count' = [count EXCEPT ![k] = 0]
          /\ UNCHANGED input
  /\ UNCHANGED <<typed, faults, panic>>

Write(p) ==
  LET f == proc[p].ofile[1] IN
  /\ At(p, "write")
  /\ \/ f \in {tty, File} /\ Then(p, Rest(p)) /\ UNCHANGED count
     \/ \E k \in Pipes :
          /\ f = W(k)
          /\ IF ~Open(R(k)) THEN Then(p, exit) /\ UNCHANGED count
             ELSE count[k] = 0 /\ Then(p, Rest(p)) /\ count' = [count EXCEPT ![k] = 1]
  /\ UNCHANGED <<input, typed, faults, panic>>

Step(p) ==
  \/ Fork(p) \/ Pipe(p) \/ Close(p) \/ Dup(p) \/ OpenFile(p) \/ Exec(p) \/ Exit(p) \/ Wait(p)
  \/ Start(p) \/ Reap(p) \/ getcmd(p) \/ Runcmd(p) \/ cat(p) \/ Write(p)

Next == (\E c \in Keys : consoleintr(c)) \/ (\E p \in Slots : Step(p))
Spec == Init /\ [][Next]_vars

-----------------------------------------------------------------------------
(* Properties *)

\* The indices of the ring are in order, r <= w <= e <= r + INPUT_BUF, and
\* every process has a next system call until it exits.
TerminalTypeOK ==
  /\ r \in 0..(Wrap - 1) /\ (w - r) % Wrap <= (e - r) % Wrap /\ (e - r) % Wrap <= INPUT_BUF
  /\ \A p \in Slots :
       /\ proc[p].state \in {"UNUSED", "RUNNABLE", "ZOMBIE"}
       /\ (proc[p].todo # <<>>) <=> (proc[p].state = "RUNNABLE")
  /\ count \in [Pipes -> {0, 1}]

Abstract == INSTANCE LineInput WITH Chars <- Keys \ {"^U", "^H"}, ready <- Between(r, w), line <- Between(w, e)

\* The ring of consoleintr and consoleread, with indices that wrap and a ^D
\* that is put back, is a queue of finished lines and a line that is edited:
\* no character is lost, repeated or passed on before its line is complete.
LineInputSpec == Abstract!Spec

\* consoleread sleeps only while nothing is ready, also when a line fills the
\* ring without ending and when other readers take part of the input.
ReaderAwake == TerminalTypeOK /\ \A p \in Slots : proc[p].asleep => r = w

\* When runcmd starts a program its standard input and output are what the
\* command line says, and no other descriptor is open, least of all an end of
\* a pipe, whose other end would wait for it.
Plumbing ==
  \A p \in Slots : \A d \in Fds :
    proc[p].todo # <<>> /\ Arg(p)[1] \in {"cat", "write"} =>
      proc[p].ofile[d] = IF d < 2 THEN proc[p].wire[d + 1] ELSE IF d = 2 THEN tty ELSE None

\* The processes that p, which cannot go on, waits for.
Holders(f) == {q \in Slots : \E d \in Fds : proc[q].ofile[d] = f}
WaitsFor(p) ==
  LET f == proc[p].ofile[IF Arg(p)[1] = "cat" THEN 0 ELSE 1] IN
  IF Arg(p)[1] \in {"wait", "reap"} THEN Children(p)
  ELSE Holders(IF f[1] = "read" THEN W(f[2]) ELSE R(f[2]))
Blocked ==
  {p \in Slots : /\ proc[p].state = "RUNNABLE" /\ ~proc[p].asleep
                 /\ Arg(p)[1] \in {"wait", "reap", "cat", "write"} /\ ~ENABLED Step(p)}

\* No processes wait only for one another: whoever waits for a child or for a
\* pipe waits, in the end, for a process that can go on or for the keyboard.
\* Every copy of a pipe's ends that runcmd made by fork and dup matters here.
NoHang == panic \/ \A S \in SUBSET Blocked : S # {} => \E p \in S : ~(WaitsFor(p) \subseteq S)

\* At its prompt the shell has no child: what it was asked to run has exited,
\* or was put in the background and belongs to init.
ShellAlone ==
  \A p \in Slots : proc[p].todo # <<>> /\ Arg(p)[1] = "getcmd" => Children(p) = {}

Meaning == [s \in Lines |-> IF \E t \in Trees(2) : Line(t) = s THEN CHOOSE t \in Trees(2) : Line(t) = s ELSE Panic]

\* parsecmd understands a line of Lines as the one command that is written so,
\* and runs nothing of a line that no command is written as.
Understood ==
  \A p \in Slots : proc[p].todo # <<>> /\ Arg(p)[1] = "runcmd" => Arg(p)[3] = Meaning[Arg(p)[2]]

\* The shell does what a line says, with no descriptor and no child too many,
\* and no process it starts hangs.
ShellSound == Plumbing /\ NoHang /\ ShellAlone /\ Understood
=============================================================================
