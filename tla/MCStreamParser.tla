--------------------------- MODULE MCStreamParser ---------------------------
(* A small instance of StreamParser. *)
EXTENDS StreamParser

MCNonzeroBytes == 1 .. 2
=============================================================================
