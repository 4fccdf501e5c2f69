-------------------------------- MODULE MCLog --------------------------------
(* Log on small instances: block numbers as mkfs lays them out, contents with *)
(* chosen weights.  The weight 53 makes the sum over a header that names      *)
(* blocks 32 and 33 and one such block a multiple of 512.                     *)
EXTENDS Log, TLC

CONSTANTS zero, x

MCHome == {32, 33}
MCData == {zero, x}
MCWeight == [d \in MCData |-> IF d = zero THEN 0 ELSE 53]

Symmetry == Permutations(Procs)
=============================================================================
