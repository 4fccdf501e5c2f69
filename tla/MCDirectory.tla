---------------------------- MODULE MCDirectory ----------------------------
(* Directory with paths of one and two elements, on an empty disk and on one  *)
(* with directories /a and /a/b.                                              *)
EXTENDS Directory, TLC

MCPaths == {<<"/", "a">>, <<"b">>, <<"/", "a", "b">>, <<"..">>}
MCLinkPaths == {<<"b">>, <<"/">>}
MCChains == {<<>>, <<"a", "b">>}
Symmetry == Permutations(Procs)
=============================================================================
