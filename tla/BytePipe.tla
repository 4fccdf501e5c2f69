------------------------------ MODULE BytePipe ------------------------------
(***************************************************************************)
(* What a pipe promises: a bounded first-in first-out queue of bytes.  A   *)
(* write moves bytes from the front of the writer's request to the back of *)
(* the queue, a read returns bytes from its front; nothing is lost,        *)
(* duplicated or reordered.  Pipe.tla implements it.                       *)
(***************************************************************************)
EXTENDS Integers, Sequences

CONSTANTS Readers, Writers, Byte, PipeSize

VARIABLES
  queue,  \* the bytes in the pipe, oldest first
  todo,   \* todo[w]: the bytes of w's current request not written yet
  out     \* the bytes the last read returned

bpvars == <<queue, todo, out>>

Init ==
  /\ queue = <<>>
  /\ todo = [w \in Writers |-> <<>>]
  /\ out = <<>>

\* A request arrives, or ends with its unwritten bytes dropped.
Request(w) ==
  /\ todo'[w] \in Seq(Byte)
  /\ todo' = [todo EXCEPT ![w] = todo'[w]]
  /\ UNCHANGED <<queue, out>>

\* k bytes go in; an interrupted request drops the rest.
Put(w) ==
  \E k \in 1..Len(todo[w]) :
    /\ queue' = queue \o SubSeq(todo[w], 1, k)
    /\ Len(queue') <= PipeSize
    /\ \/ todo' = [todo EXCEPT ![w] = SubSeq(@, k + 1, Len(@))]
       \/ todo' = [todo EXCEPT ![w] = <<>>]
    /\ UNCHANGED out

Get ==
  \E k \in 0..Len(queue) :
    /\ out' = SubSeq(queue, 1, k)
    /\ queue' = SubSeq(queue, k + 1, Len(queue))
    /\ UNCHANGED todo

Next == (\E w \in Writers : Request(w) \/ Put(w)) \/ Get

Spec == Init /\ [][Next]_bpvars
=============================================================================
