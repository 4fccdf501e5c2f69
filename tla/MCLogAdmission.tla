--------------------------- MODULE MCLogAdmission ---------------------------
(* LogAdmission on a small instance. *)
EXTENDS LogAdmission
=============================================================================
