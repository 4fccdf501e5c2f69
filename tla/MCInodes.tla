------------------------------ MODULE MCInodes ------------------------------
(* Inodes with files of up to four blocks, the last two behind an indirect one. *)
EXTENDS Inodes, TLC

MCImages == {<<3>>, <<8>>}
Symmetry == Permutations(Procs)
=============================================================================
