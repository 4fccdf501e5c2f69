----------------------------- MODULE LogHistory -----------------------------
(* Log with a history variable that collects every committed state, to say    *)
(* what a reboot may leave on disk.                                           *)
EXTENDS MCLog

VARIABLE committed

HInit == Init /\ committed = {stable}
HNext == Next /\ committed' = committed \cup {stable'}
HSpec == HInit /\ [][HNext]_<<vars, committed>>

(* fs.c:3 "Log: crash recovery for multi-step updates": once the system runs  *)
(* again the home blocks are as some transaction committed them, never with   *)
(* one part of a transaction and without the rest.                            *)
NeverTorn == phase = "run" /\ lh = <<>> => dHome \in committed
=============================================================================
