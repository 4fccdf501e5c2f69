----------------------------- MODULE BlockStore -----------------------------
(***************************************************************************)
(* What bio.c promises its users (bio.c:10): bread hands out a block to    *)
(* one process at a time, with the contents the previous user left or the  *)
(* disk holds, until a read error, which iderw does not report: from then  *)
(* on a block may change by itself.                                        *)
(***************************************************************************)
EXTENDS Integers

CONSTANTS Procs, Blocks, Vals, MaxFaults, None

VARIABLES
  content,   \* content[k]: what the next user of block k sees
  user,      \* user[k]: the process that has block k, or None
  faults     \* read errors so far

svars == <<content, user, faults>>

Init ==
  /\ content \in [Blocks -> Vals]
  /\ user = [k \in Blocks |-> None]
  /\ faults = 0

Take(p, k) ==
  /\ user[k] = None
  /\ user' = [user EXCEPT ![k] = p]
  /\ UNCHANGED <<content, faults>>

Change(p, k) ==
  /\ user[k] = p
  /\ \E v \in Vals : content' = [content EXCEPT ![k] = v]
  /\ UNCHANGED <<user, faults>>

Give(p, k) ==
  /\ user[k] = p
  /\ user' = [user EXCEPT ![k] = None]
  /\ UNCHANGED <<content, faults>>

Damage(k) ==
  /\ faults' \in faults..MaxFaults /\ faults' > 0
  /\ \E v \in Vals : content' = [content EXCEPT ![k] = v]
  /\ UNCHANGED user

Next == \E k \in Blocks : Damage(k) \/ \E p \in Procs : Take(p, k) \/ Change(p, k) \/ Give(p, k)

Spec == Init /\ [][Next]_svars
=============================================================================
