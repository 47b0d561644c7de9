---------------------------- MODULE ClientService ----------------------------
(***************************************************************************)
(* One ClientService of Server3-ace: the event handler that echoes one     *)
(* client's bytes, with the TCP connection and the client it serves.       *)
(*                                                                         *)
(* The handler runs in the reactor's thread, one callback at a time, but   *)
(* the client and the network move between its system calls: handle_input  *)
(* is two steps (recv, then send and queue) and handle_output one step per *)
(* turn of its loop.                                                       *)
(*                                                                         *)
(* A byte is its position in the client's stream.  The socket's window     *)
(* toward the client holds SendSpace bytes; a send takes what fits.        *)
(***************************************************************************)
EXTENDS ByteRuns, FiniteSets

CONSTANTS
    InputSize,   \* sizeof(buffer) in handle_input
    HighWater,   \* high water mark of m_queue (ACE's default is 16 KB)
    SendSpace,   \* bytes the connection holds on the way to the client
    MaxBytes     \* bound: bytes the client writes

ASSUME InputSizeAssumption == InputSize \in Nat \ {0}
ASSUME HighWaterAssumption == HighWater \in Nat \ {0}
ASSUME SendSpaceAssumption == SendSpace \in Nat \ {0}
ASSUME MaxBytesAssumption == MaxBytes \in Nat

VARIABLES
    written,    \* bytes the client has sent that reached the server's socket
    echo,       \* bytes the server has sent, in order
    taken,      \* how many of them the client has read
    peer,       \* the client's side: "open", "half" (write side shut), "gone"
    life,       \* the handler: "new" (accepted), "open" (registered), "deleted"
    mask,       \* the events the reactor watches for this handler
    received,   \* bytes recv has returned to handle_input
    fresh,      \* bytes in handle_input's buffer, the last ones received
    m_queue,    \* the backlog: message blocks of bytes lo..hi, size allocated
    pc,         \* "reactor", or the callback that is running
    dropped,    \* bytes given up on purpose: discarded, or flushed at close
    leaked      \* bytes in message blocks that nothing refers to any more

clientVars == <<written, taken, peer>>
vars == <<written, echo, taken, peer, life, mask, received, fresh, m_queue,
          pc, dropped, leaked>>

-----------------------------------------------------------------------------
(* Bytes and message blocks. *)

Bytes == 1..MaxBytes

Block == [lo : Bytes, hi : Bytes, size : 1..InputSize]

BytesIn(b) == b.lo .. b.hi

Length(b) == b.hi - b.lo + 1

\* q holds no empty block, and its blocks are in stream order.
Ordered(q) ==
    /\ \A i \in DOMAIN q : q[i].lo <= q[i].hi
    /\ \A i, j \in DOMAIN q : i < j => q[i].hi < q[j].lo

Queued(q) == UNION {BytesIn(q[i]) : i \in DOMAIN q}

\* The bytes handle_input is done with, and those in its buffer.
Settled == received - fresh
Fresh == Settled + 1 .. received

\* rd_ptr(n): n bytes of the block are done with.
AdvanceNot(b, n) == b
Advance(b, n) == [b EXCEPT !.lo = @ + n]

\* ACE_Message_Queue counts what was allocated, not what is left to send:
\* a byte of memory is its block's place in the queue and its place there.
Allocated(q) == UNION {{i} \X (1 .. q[i].size) : i \in DOMAIN q}
cur_bytes(q) == Cardinality(Allocated(q))

is_fullLate(q) == cur_bytes(q) > HighWater
is_full(q) == cur_bytes(q) >= HighWater

enqueue_headAsTail(b, q) == Append(q, b)
enqueue_head(b, q) == <<b>> \o q

\* The bytes between the two sockets, and what a send of n bytes takes:
\* nothing if the connection is reset.
InFlight == Len(echo) - taken
Sent(n) == IF peer = "gone" THEN 0 ELSE Smaller(n, SendSpace - InFlight)

-----------------------------------------------------------------------------
Init ==
    /\ written = 0 /\ taken = 0 /\ peer = "open"
    /\ echo = <<>>
    /\ life = "new" /\ mask = {}
    /\ received = 0 /\ fresh = 0 /\ m_queue = <<>>
    /\ pc = "reactor"
    /\ dropped = {} /\ leaked = {}

handle_closeAlways(m, reg, q, lost) ==
    /\ mask' = {}
    /\ m_queue' = <<>>
    /\ dropped' = dropped \cup lost \cup Queued(q)
    /\ life' = "deleted"

handle_closeKeepsWrite(m, reg, q, lost) ==
    IF m = {"WRITE"}
    THEN mask' = reg /\ m_queue' = q /\ UNCHANGED <<life, dropped>>
    ELSE /\ mask' = reg
         /\ m_queue' = <<>>
         /\ dropped' = dropped \cup lost \cup Queued(q)
         /\ life' = "deleted"

(* handle_close(handle, m), called with the backlog q and the registration *)
(* reg left by the caller.  WRITE_MASK alone only means that the reactor   *)
(* stopped watching for writability.  Otherwise the registration is        *)
(* removed, the socket closed, the backlog flushed and the object deleted. *)
handle_close(m, reg, q, lost) ==
    IF m = {"WRITE"}
    THEN mask' = reg /\ m_queue' = q /\ UNCHANGED <<life, dropped>>
    ELSE /\ mask' = {}
         /\ m_queue' = <<>>
         /\ dropped' = dropped \cup lost \cup Queued(q)
         /\ life' = "deleted"

(* open(): registers for READ.  When that fails, the acceptor calls        *)
(* handle_close(ACE_INVALID_HANDLE, 0) on the new handler.                 *)
open ==
    /\ life = "new"
    /\ \/ life' = "open" /\ mask' = {"READ"} /\ UNCHANGED <<m_queue, dropped>>
       \/ handle_close({}, {}, m_queue, {})
    /\ UNCHANGED <<clientVars, echo, received, fresh, pc, leaked>>

AtEndError == peer = "gone"
AtEnd == peer = "gone" \/ (peer = "half" /\ received = written)

(* handle_input, up to the return of recv. *)
Receive ==
    /\ pc = "reactor" /\ "READ" \in mask
    /\ peer # "gone" /\ received < written
    /\ LET n == Smaller(InputSize, written - received) IN
        /\ fresh' = n
        /\ received' = received + n
    /\ pc' = "input"
    /\ UNCHANGED <<clientVars, echo, life, mask, m_queue, dropped, leaked>>

(* handle_input, when recv returns 0 or an error: it returns -1, and the   *)
(* reactor calls handle_close with READ_MASK.                              *)
EndOfInput ==
    /\ pc = "reactor" /\ "READ" \in mask
    /\ AtEnd
    /\ handle_close({"READ"}, mask \ {"READ"}, m_queue, {})
    /\ UNCHANGED <<clientVars, echo, received, fresh, pc, leaked>>

ReplyOffByOne(sent) ==
    /\ echo' = echo \o Run(Settled, sent)
    /\ fresh' = 0
    /\ pc' = "reactor"
    /\ UNCHANGED <<clientVars, received, leaked>>

\* handle_input is about to return; sent bytes went out, lost are given up.
Reply(sent) ==
    /\ echo' = echo \o Run(Settled + 1, sent)
    /\ fresh' = 0
    /\ pc' = "reactor"
    /\ UNCHANGED <<clientVars, received, leaked>>

(* handle_input, when send took all the bytes, or failed for good: the     *)
(* error is logged, the bytes are forgotten and 0 is returned.             *)
ReplyAtOnce ==
    /\ pc = "input"
    /\ \/ peer # "gone" /\ Sent(fresh) = fresh /\ UNCHANGED dropped
       \/ peer = "gone" /\ dropped' = dropped \cup Fresh
    /\ Reply(Sent(fresh))
    /\ UNCHANGED <<life, mask, m_queue>>

\* The block handle_input makes of what send did not take.
RemainderTooLong ==
    [lo |-> Settled + 1 + Sent(fresh), hi |-> received + 1,
     size |-> fresh - Sent(fresh)]
RemainderFromStart ==
    [lo |-> Settled + 1, hi |-> received, size |-> fresh]
Remainder ==
    [lo |-> Settled + 1 + Sent(fresh), hi |-> received,
     size |-> fresh - Sent(fresh)]

\* The registration after enqueue_tail on q: isEmpty was read before it.
WatchForTooLate(q) == mask
WatchFor(q) == IF q = <<>> THEN mask \cup {"WRITE"} ELSE mask

(* handle_input, when send took a part or nothing: the rest is queued, and *)
(* WRITE registered if the queue was empty.  A full queue refuses the      *)
(* block, which is discarded.  When the block cannot be allocated, or      *)
(* register_handler fails, handle_input returns -1 and the reactor closes. *)
ReplyLater ==
    /\ pc = "input"
    /\ peer # "gone" /\ Sent(fresh) < fresh
    /\ \/ /\ is_full(m_queue)
          /\ dropped' = dropped \cup BytesIn(Remainder)
          /\ UNCHANGED <<life, mask, m_queue>>
       \/ /\ ~ is_full(m_queue)
          /\ m_queue' = Append(m_queue, Remainder)
          /\ mask' = WatchFor(m_queue)
          /\ UNCHANGED <<life, dropped>>
       \/ handle_close({"READ"}, mask \ {"READ"}, m_queue, BytesIn(Remainder))
       \/ /\ m_queue = <<>>
          /\ handle_close({"READ"}, mask \ {"READ"}, <<Remainder>>, {})
    /\ Reply(Sent(fresh))

(* The reactor calls handle_output: the socket is writable, or in error.   *)
StartOutput ==
    /\ pc = "reactor" /\ "WRITE" \in mask
    /\ peer = "gone" \/ InFlight < SendSpace
    /\ pc' = "output"
    /\ UNCHANGED <<clientVars, echo, life, mask, received, fresh, m_queue,
                   dropped, leaked>>

(* One turn of handle_output's loop.  dequeue_head returns the number of   *)
(* blocks that remain, and the loop tests it as a boolean.                 *)

\* The last block: dequeue_head takes it off and returns 0, so the loop ends
\* and nobody sends or releases it.  The queue is empty: handle_output
\* returns -1, the reactor drops WRITE and calls handle_close(WRITE_MASK).
OutputLast ==
    /\ pc = "output" /\ Len(m_queue) = 1
    /\ leaked' = leaked \cup BytesIn(Head(m_queue))
    /\ handle_close({"WRITE"}, mask \ {"WRITE"}, <<>>, {})
    /\ pc' = "reactor"
    /\ UNCHANGED <<clientVars, echo, received, fresh>>

\* A block that send takes whole is released, and the loop goes on.
OutputWhole ==
    /\ pc = "output" /\ Len(m_queue) > 1
    /\ LET b == Head(m_queue) IN
        /\ Sent(Length(b)) = Length(b)
        /\ echo' = echo \o Run(b.lo, Length(b))
    /\ m_queue' = Tail(m_queue)
    /\ UNCHANGED <<clientVars, life, mask, received, fresh, pc, dropped, leaked>>

\* What is left of a block goes back to the head, unless the other blocks
\* fill the queue: enqueue_head refuses it then, and its result is ignored.
OutputPart ==
    /\ pc = "output" /\ Len(m_queue) > 1
    /\ LET b    == Head(m_queue)
           n    == Sent(Length(b))
           rest == Advance(b, n)
       IN  /\ n < Length(b)
           /\ echo' = echo \o Run(b.lo, n)
           /\ \/ /\ is_full(Tail(m_queue))
                 /\ m_queue' = Tail(m_queue)
                 /\ leaked' = leaked \cup BytesIn(rest)
              \/ /\ ~ is_full(Tail(m_queue))
                 /\ m_queue' = enqueue_head(rest, Tail(m_queue))
                 /\ UNCHANGED leaked
    /\ pc' = "reactor"
    /\ UNCHANGED <<clientVars, life, mask, received, fresh, dropped>>

-----------------------------------------------------------------------------
(* The client and the network. *)

\* The client does not know yet whether the service still is there.
ClientWrite ==
    /\ peer = "open"
    /\ written' \in written + 1 .. MaxBytes
    /\ UNCHANGED <<echo, taken, peer, life, mask, received, fresh, m_queue, pc,
                   dropped, leaked>>

ClientRead ==
    /\ peer # "gone"
    /\ taken' \in taken + 1 .. Len(echo)
    /\ UNCHANGED <<written, echo, peer, life, mask, received, fresh, m_queue,
                   pc, dropped, leaked>>

\* close_writer(), or shutdown(SD_SEND): the client goes on reading.
ClientHalfClose ==
    /\ peer = "open"
    /\ peer' = "half"
    /\ UNCHANGED <<written, echo, taken, life, mask, received, fresh, m_queue,
                   pc, dropped, leaked>>

\* The client ends or the connection is reset.
ClientGone ==
    /\ peer # "gone"
    /\ peer' = "gone"
    /\ UNCHANGED <<written, echo, taken, life, mask, received, fresh, m_queue,
                   pc, dropped, leaked>>

\* Both sides are gone.
Finished == life = "deleted" /\ peer = "gone" /\ UNCHANGED vars

Service ==
    \/ open \/ Receive \/ EndOfInput \/ ReplyAtOnce \/ ReplyLater
    \/ StartOutput \/ OutputLast \/ OutputWhole \/ OutputPart

Client == ClientWrite \/ ClientRead \/ ClientHalfClose \/ ClientGone

Next == Service \/ Client \/ Finished

Spec == Init /\ [][Next]_vars

(* A callback that runs goes on, the acceptor opens what it accepted, and  *)
(* the reactor serves every ready handle in each pass of its loop, so a    *)
(* handle that is ready again and again is served.  A client that stays    *)
(* reads what it is sent.                                                  *)
Fairness ==
    /\ WF_vars(open)
    /\ WF_vars(ReplyAtOnce \/ ReplyLater)
    /\ WF_vars(OutputLast \/ OutputWhole \/ OutputPart)
    /\ SF_vars(Receive \/ EndOfInput)
    /\ SF_vars(StartOutput)
    /\ WF_vars(ClientRead)

FairSpec == Spec /\ Fairness

-----------------------------------------------------------------------------
(* The type invariant: every variable of the handler, its socket and its   *)
(* client keeps the form the code gives it.                                *)
TypeOK ==
    /\ written \in 0..MaxBytes
    /\ received \in 0..written
    /\ echo \in Seq(1..received)
    /\ taken \in Nat
    /\ InFlight \in 0..SendSpace
    /\ peer \in {"open", "half", "gone"}
    /\ life \in {"new", "open", "deleted"}
    /\ mask \subseteq {"READ", "WRITE"}
    /\ fresh \in 0..Smaller(InputSize, received)
    /\ m_queue \in Seq(Block)
    /\ pc \in {"reactor", "input", "output"}
    /\ dropped \subseteq 1..received
    /\ leaked \subseteq 1..received

(* WRITE is watched exactly while there is a backlog.  So handle_output is *)
(* never entered with an empty queue (ClientService.cpp:115 would then use *)
(* a message pointer that was never set), and a backlog is never forgotten.*)
WriteArmedIffBacklog ==
    /\ "WRITE" \in mask <=> m_queue # <<>>
    /\ pc = "output" => m_queue # <<>>

(* The life of the handler and what the reactor knows of it agree: READ is *)
(* watched exactly while the handler is open, no callback runs in another  *)
(* handler, and only handle_input holds fresh bytes.                       *)
RegisteredWhileOpen ==
    /\ "READ" \in mask <=> life = "open"
    /\ life # "open" => mask = {}
    /\ pc # "reactor" => life = "open"
    /\ pc # "input" => fresh = 0

(* The backlog keeps the stream's order, through every partial send and    *)
(* re-queueing (handle_output, ClientService.cpp:128-132), and holds no    *)
(* empty block and no byte of handle_input's buffer.                       *)
BacklogInOrder ==
    /\ \A i \in DOMAIN m_queue : m_queue[i].hi <= Settled
    /\ Ordered(m_queue)

\* The bytes received and not yet sent, given up or lost.
Pending == Queued(m_queue) \cup Fresh

(* Conservation: every byte received is in exactly one place - sent back   *)
(* (once), in handle_input's buffer, in the backlog, given up, or in a     *)
(* block that was lost.  The handler never duplicates a byte.              *)
EveryByteAccounted ==
    /\ 1..received = Range(echo) \cup Pending \cup dropped \cup leaked
    /\ IsInjective(echo)
    /\ Range(echo) \cap (Pending \cup dropped \cup leaked) = {}
    /\ Pending \cap (dropped \cup leaked) = {}
    /\ Queued(m_queue) \cap Fresh = {}
    /\ dropped \cap leaked = {}

(* The backlog's memory is bounded by one block over the high water mark:  *)
(* what enqueue_tail's refusal (ClientService.cpp:94-99) is for.           *)
QueueBounded == cur_bytes(m_queue) < HighWater + InputSize

(* A client that has not written more than the connection's window holds   *)
(* has exactly its bytes back, in order, as soon as handle_input returns:  *)
(* the two defects of the handler (ClientService.cpp:64 and 115) need a    *)
(* send that does not take everything.                                     *)
ExactEchoWhenWide ==
    written <= SendSpace /\ peer # "gone" /\ life = "open" /\ pc = "reactor"
        => echo = Run(1, received)

(* The end of a drain takes the handler out of the reactor's write set     *)
(* only: no step of handle_output ends the connection                      *)
(* (handle_close's test of WRITE_MASK, ClientService.cpp:30-33).           *)
DrainKeepsConnection ==
    [][pc = "output" => life' = "open" /\ "READ" \in mask']_vars

(* Nothing of a handler that was deleted changes any more: no callback is  *)
(* entered or goes on after handle_close has run "delete this"             *)
(* (ClientService.cpp:35-41), whatever the client and the network do.  No  *)
(* guard of a callback but open's mentions the object's life: that none    *)
(* runs in a deleted one comes from the registration it had.               *)
NoUseAfterDelete ==
    [][life = "deleted" =>
          UNCHANGED <<echo, life, mask, received, fresh, m_queue, pc, dropped,
                      leaked>>]_vars

(* The handler implements the abstract echo.                               *)
Echo == INSTANCE EchoStream WITH pending <- Pending
ImplementsEchoStream == Echo!Spec

(* Once the client has shut its write side or is gone, the handler is      *)
(* closed and deleted.                                                     *)
PeerDepartureReleases == peer # "open" ~> life = "deleted"

(* A backlog is always worked off, as long as the client reads.            *)
BacklogDrains == m_queue # <<>> ~> m_queue = <<>>

(* Client.cpp:54 of Client5-ace: "Our server example will simply echo back *)
(* whatever it receives from the client."  In order: no byte is sent back  *)
(* before an earlier one.                                                  *)
EchoesInOrder ==
    \A i, j \in DOMAIN echo : i < j => echo[i] < echo[j]

(* And completely: a byte that was queued is sent or is discarded with a   *)
(* message in the log, never simply lost.                                  *)
NothingLeaked == leaked = {}
=============================================================================
