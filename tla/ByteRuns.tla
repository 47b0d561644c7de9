------------------------------ MODULE ByteRuns ------------------------------
(***************************************************************************)
(* Runs of consecutive bytes.  A byte is named by its position in the      *)
(* client's stream, so two bytes are never confused and the order of the   *)
(* stream is the order of numbers.                                         *)
(***************************************************************************)
EXTENDS Integers, Sequences, SequencesExt

\* The n bytes that start at lo, in stream order.
Run(lo, n) == [i \in 1..n |-> lo + i - 1]

Smaller(a, b) == IF a <= b THEN a ELSE b
=============================================================================
