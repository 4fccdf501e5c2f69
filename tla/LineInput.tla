------------------------------ MODULE LineInput ------------------------------
(***************************************************************************)
(* What the console promises about input: a line being edited and the text *)
(* that is ready for readers, who take it from the front.  A character is  *)
(* accepted while there is room for both, and a line becomes ready at its  *)
(* end, or when there is no more room.                                     *)
(***************************************************************************)
EXTENDS Sequences, Integers

CONSTANTS Chars, INPUT_BUF
VARIABLES line, ready

Ends == {"nl", "^D"}
Init == line = <<>> /\ ready = <<>>

Type(c) ==
  LET typed == Append(line, c)
      full == Len(ready) + Len(typed) = INPUT_BUF IN
  /\ Len(ready) + Len(line) < INPUT_BUF
  /\ IF c \in Ends \/ full THEN ready' = ready \o typed /\ line' = <<>>
     ELSE line' = typed /\ UNCHANGED ready

\* Take back the last character or the whole line.
Erase ==
  /\ line # <<>>
  /\ line' \in {SubSeq(line, 1, Len(line) - 1), <<>>}
  /\ UNCHANGED ready

Deliver ==
  /\ \E n \in 1..Len(ready) : ready' = SubSeq(ready, n + 1, Len(ready))
  /\ UNCHANGED line

Next == (\E c \in Chars : Type(c)) \/ Erase \/ Deliver
Spec == Init /\ [][Next]_<<line, ready>>
=============================================================================
