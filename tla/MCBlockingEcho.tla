--------------------------- MODULE MCBlockingEcho ---------------------------
(* Instances of BlockingEcho for TLC; clients may run the same program, or *)
(* different ones.                                                         *)
EXTENDS BlockingEcho
=============================================================================
