----------------------------- MODULE ShellParser -----------------------------
(***************************************************************************)
(* The parser of sh.c.  A line is the sequence of the tokens gettoken      *)
(* finds in it: "w" stands for a word, the others for themselves.  A       *)
(* routine returns the command and the rest of the line; panic() ends the  *)
(* process, so a Panic result is passed on.                                *)
(***************************************************************************)
EXTENDS Integers, Sequences

CONSTANT MAXARGS

Panic == [type |-> "panic"]
execcmd(argc) == [type |-> "EXEC", argc |-> argc]
redircmd(cmd, fd) == [type |-> "REDIR", cmd |-> cmd, fd |-> fd]
pipecmd(left, right) == [type |-> "PIPE", left |-> left, right |-> right]
listcmd(left, right) == [type |-> "LIST", left |-> left, right |-> right]
backcmd(cmd) == [type |-> "BACK", cmd |-> cmd]

Parsed(cmd, s) == [cmd |-> cmd, s |-> s]
Syntax == Parsed(Panic, <<>>)
Failed(r) == r.cmd = Panic
peek(s, toks) == s # <<>> /\ Head(s) \in toks
Skip(s, n) == SubSeq(s, n + 1, Len(s))

RECURSIVE parseline(_), parsepipe(_), parseredirs(_, _), parseexec(_), Args(_, _), Backs(_, _), WithArg(_)

\* Any number of "<" file, ">" file and ">>" file; the last is the outermost.
parseredirs(cmd, s) ==
  IF ~peek(s, {"<", ">", ">>"}) THEN Parsed(cmd, s)
  ELSE IF ~peek(Tail(s), {"w"}) THEN Syntax
  ELSE parseredirs(redircmd(cmd, IF Head(s) = "<" THEN 0 ELSE 1), Skip(s, 2))

\* One more argument for the execcmd inside the redirections.
WithArg(cmd) ==
  IF cmd.type = "EXEC" THEN execcmd(cmd.argc + 1) ELSE redircmd(WithArg(cmd.cmd), cmd.fd)

\* The loop of parseexec.
Args(argc, r) ==
  IF Failed(r) \/ r.s = <<>> \/ peek(r.s, {"|", ")", "&", ";"}) THEN r
  ELSE IF Head(r.s) # "w" \/ argc + 1 >= MAXARGS THEN Syntax
  ELSE Args(argc + 1, parseredirs(WithArg(r.cmd), Tail(r.s)))

parseblock(s) ==
  LET r == parseline(Tail(s)) IN
  IF Failed(r) \/ ~peek(r.s, {")"}) THEN Syntax ELSE parseredirs(r.cmd, Tail(r.s))

parseexec(s) ==
  IF peek(s, {"("}) THEN parseblock(s) ELSE Args(0, parseredirs(execcmd(0), s))

parsepipe(s) ==
  LET l == parseexec(s)
      r == parsepipe(Tail(l.s)) IN
  IF Failed(l) \/ ~peek(l.s, {"|"}) THEN l
  ELSE IF Failed(r) THEN Syntax ELSE Parsed(pipecmd(l.cmd, r.cmd), r.s)

\* Mutant: no loop, so "&" is left over.
Backs_none(cmd, s) == Parsed(cmd, s)

\* The loop of parseline.
Backs(cmd, s) == IF peek(s, {"&"}) THEN Backs(backcmd(cmd), Tail(s)) ELSE Parsed(cmd, s)

parseline(s) ==
  LET p == parsepipe(s)
      l == IF Failed(p) THEN p ELSE Backs(p.cmd, p.s)
      r == parseline(Tail(l.s)) IN
  IF Failed(l) \/ ~peek(l.s, {";"}) THEN l
  ELSE IF Failed(r) THEN Syntax ELSE Parsed(listcmd(l.cmd, r.cmd), r.s)

\* What is left over is an error.
parsecmd(s) == LET r == parseline(s) IN IF r.s # <<>> THEN Panic ELSE r.cmd

-----------------------------------------------------------------------------
(* The reference: how a command is written. *)

RECURSIVE Line(_), Pipeline(_), Word(_)

Line(c) ==
  CASE c.type = "LIST" -> (IF c.left.type = "LIST" THEN Word(c.left) ELSE Line(c.left)) \o <<";">> \o Line(c.right)
    [] c.type = "BACK" -> (IF c.cmd.type = "LIST" THEN Word(c.cmd) ELSE Line(c.cmd)) \o <<"&">>
    [] OTHER -> Pipeline(c)

Pipeline(c) ==
  IF c.type = "PIPE" THEN Word(c.left) \o <<"|">> \o (IF c.right.type = "PIPE" THEN Pipeline(c.right) ELSE Word(c.right))
  ELSE Word(c)

Word(c) ==
  CASE c.type = "EXEC" -> [i \in 1..c.argc |-> "w"]
    [] c.type = "REDIR" -> Word(c.cmd) \o <<IF c.fd = 0 THEN "<" ELSE ">", "w">>
    [] OTHER -> <<"(">> \o Line(c) \o <<")">>

RECURSIVE Trees(_)

\* Commands of some depth; a command without words is left out.
Trees(n) ==
  IF n = 0 THEN {execcmd(1)}
  ELSE LET T == Trees(n - 1) IN
       T \cup {redircmd(c, fd) : c \in T, fd \in {0, 1}} \cup {backcmd(c) : c \in T}
         \cup {pipecmd(c[1], c[2]) : c \in T \X T} \cup {listcmd(c[1], c[2]) : c \in T \X T}
=============================================================================
