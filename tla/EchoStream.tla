----------------------------- MODULE EchoStream -----------------------------
(***************************************************************************)
(* What one connection of the echo servers promises of a client's byte     *)
(* stream, whatever happens to the connection: a byte comes back at most   *)
(* once and only after it was received.  Nothing is promised of the order  *)
(* or of completeness; ClientService.tla shows why.                        *)
(***************************************************************************)
EXTENDS ByteRuns

CONSTANT MaxBytes   \* bound, in Nat: the length of the client's stream

VARIABLES
    received,   \* the bytes 1..received have been read by the server
    pending,    \* the received bytes that may still be sent back
    echo        \* what has been sent back, in order

vars == <<received, pending, echo>>

Init ==
    /\ received = 0
    /\ pending = {}
    /\ echo = <<>>

\* n more bytes are received; they are now pending.
Receive(n) ==
    /\ received + n <= MaxBytes
    /\ received' = received + n
    /\ pending' = pending \cup (received + 1 .. received + n)
    /\ UNCHANGED echo

\* A run of pending bytes is sent back; any of the other pending bytes may be
\* given up at the same time.
Send(lo, n) ==
    /\ lo .. lo + n - 1 \subseteq pending
    /\ echo' = echo \o Run(lo, n)
    /\ pending' \in SUBSET (pending \ (lo .. lo + n - 1))
    /\ UNCHANGED received

\* Pending bytes are given up.
Discard ==
    /\ pending' \in SUBSET pending
    /\ UNCHANGED <<received, echo>>

Next ==
    \/ \E n \in 1..MaxBytes : Receive(n)
    \/ \E lo, n \in 1..MaxBytes : Send(lo, n)
    \/ Discard

Spec == Init /\ [][Next]_vars

-----------------------------------------------------------------------------
(* The type invariant. *)
TypeOK ==
    /\ received \in 0..MaxBytes
    /\ pending \subseteq 1..received
    /\ echo \in Seq(1..received)

(* No byte is sent back twice, and none that was sent back is still        *)
(* pending: what the echo servers' send and queue bookkeeping amounts to.  *)
AtMostOnce ==
    /\ IsInjective(echo)
    /\ Range(echo) \cap pending = {}
=============================================================================
