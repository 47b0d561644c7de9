---------------------------- MODULE ReactorClient ----------------------------
(***************************************************************************)
(* The Client of Client5-ace: a timer puts lines on a message queue, the   *)
(* queue's notification strategy asks the reactor to call handle_output,   *)
(* which sends them; after MaxIterations ticks the client shuts its write  *)
(* side and waits for the server's end of stream.                          *)
(*                                                                         *)
(* The reactor runs one callback at a time, but the server moves between   *)
(* the system calls of handle_output, which is one step per turn of its    *)
(* loop.  The timer is late at will, and may come before a notification    *)
(* that was queued earlier.  A byte is its position in the stream of lines.*)
(***************************************************************************)
EXTENDS ByteRuns

CONSTANTS
    MaxIterations,  \* Client.h: the tick that shuts the write side
    LineLength,     \* bytes of a line
    SendSpace,      \* bytes the connection holds on the way to the server
    MaxTicks,       \* bound: ticks of the timer
    MaxNotices      \* bound: notifications that may be queued when WRITE is
                    \* dispatched (the reactor's own limit is far higher)

ASSUME MaxIterationsAssumption == MaxIterations \in Nat \ {0}
ASSUME LineLengthAssumption == LineLength \in Nat \ {0}
ASSUME SendSpaceAssumption == SendSpace \in Nat \ {0}
ASSUME MaxTicksAssumption == MaxTicks \in Nat
ASSUME MaxNoticesAssumption == MaxNotices \in Nat

VARIABLES
    loop,            \* main: "start", "run" (the event loop) or "ended"
    m_numIterations, \* ticks so far
    timer,           \* whether the recurring timer is scheduled
    produced,        \* bytes of the lines put on the queue
    queue,           \* msg_queue(): blocks of bytes lo..hi
    notices,         \* notifications queued for handle_output
    watch,           \* the events the reactor watches for this handler
    pc,              \* "reactor", or "output" while handle_output runs
    writer,          \* "open" or "shut" (close_writer)
    out,             \* bytes sent, in order
    arrived,         \* how many of them the server has read
    echoed,          \* bytes the server has sent back
    logged,          \* how many of them handle_input has logged
    server           \* the server's side: "open" or "closed"

vars == <<loop, m_numIterations, timer, produced, queue, notices, watch, pc,
          writer, out, arrived, echoed, logged, server>>
serverVars == <<arrived, echoed, server>>

Block == [lo : Nat \ {0}, hi : Nat]

Length(b) == b.hi - b.lo + 1

\* rd_ptr(n): n bytes of the block are done with.
AdvanceNot(b, n) == b
Advance(b, n) == [b EXCEPT !.lo = @ + n]

InFlight == Len(out) - arrived

(* What send returns for n bytes, 0 standing for an error too: nothing     *)
(* after close_writer, and perhaps nothing when the server has closed.     *)
Sent(n) ==
    IF writer = "shut" THEN {0}
    ELSE {Smaller(n, SendSpace - InFlight)} \cup (IF server = "closed" THEN {0} ELSE {})

Init ==
    /\ loop = "start"
    /\ m_numIterations = 0 /\ timer = FALSE /\ produced = 0
    /\ queue = <<>> /\ notices = 0 /\ watch = {} /\ pc = "reactor"
    /\ writer = "open" /\ out = <<>>
    /\ arrived = 0 /\ echoed = 0 /\ logged = 0 /\ server = "open"

-----------------------------------------------------------------------------
(* main and Client::open.  The connector has connected; open registers for *)
(* READ, sets the notification strategy and schedules the timer.  When any *)
(* of it fails, connect() returns -1 and main returns 1.                   *)
open ==
    /\ loop = "start"
    /\ \/ loop' = "run" /\ watch' = {"READ"} /\ timer' = TRUE
       \/ loop' = "ended" /\ UNCHANGED <<watch, timer>>
    /\ UNCHANGED <<serverVars, m_numIterations, produced, queue, notices, pc,
                   writer, out, logged>>

Ready == loop = "run" /\ pc = "reactor"

Tick ==
    /\ Ready /\ timer /\ m_numIterations < MaxTicks
    /\ m_numIterations' = m_numIterations + 1

\* handle_timeout: from the MaxIterations-th tick on, the write side is shut.
LastTickLate == m_numIterations + 1 > MaxIterations
LastTick == m_numIterations + 1 >= MaxIterations

CloseWriter ==
    /\ Tick /\ LastTick
    /\ writer' = "shut"
    /\ UNCHANGED <<serverVars, loop, timer, produced, queue, notices, watch, pc,
                   out, logged>>

\* enqueue_tail, enqueue_head: the notification strategy notifies the reactor.
NotifiedNot == notices
Notified == notices + 1

\* handle_timeout: a line is put on the queue.
PutLine ==
    /\ Tick /\ ~ LastTick
    /\ queue' = Append(queue, [lo |-> produced + 1, hi |-> produced + LineLength])
    /\ produced' = produced + LineLength
    /\ notices' = Notified
    /\ UNCHANGED <<serverVars, loop, timer, watch, pc, writer, out, logged>>

\* handle_timeout: no memory for the line; the -1 cancels the timer.
TimerLost ==
    /\ Tick /\ ~ LastTick
    /\ timer' = FALSE
    /\ UNCHANGED <<serverVars, loop, produced, queue, notices, watch, pc, writer,
                   out, logged>>

(* The reactor calls handle_output: for a notification, or because the     *)
(* socket is writable (after close_writer or a reset: in error).           *)
StartOutput ==
    /\ Ready
    /\ \/ notices > 0 /\ notices' = notices - 1
       \/ /\ "WRITE" \in watch /\ notices < MaxNotices /\ UNCHANGED notices
          /\ writer = "shut" \/ server = "closed" \/ InFlight < SendSpace
    /\ pc' = "output"
    /\ UNCHANGED <<serverVars, loop, m_numIterations, timer, produced, queue,
                   watch, writer, out, logged>>

\* handle_output: getq finds nothing; cancel_wakeup.
OutputEmpty ==
    /\ pc = "output" /\ queue = <<>>
    /\ watch' = watch \ {"WRITE"}
    /\ pc' = "reactor"
    /\ UNCHANGED <<serverVars, loop, m_numIterations, timer, produced, queue,
                   notices, writer, out, logged>>

\* handle_output: the block at the head is sent whole and released.
OutputWhole ==
    /\ pc = "output" /\ queue # <<>>
    /\ LET b == Head(queue) IN
        /\ Length(b) \in Sent(Length(b))
        /\ out' = out \o Run(b.lo, Length(b))
    /\ queue' = Tail(queue)
    /\ UNCHANGED <<serverVars, loop, m_numIterations, timer, produced, notices,
                   watch, pc, writer, logged>>

WatchForWrite == watch \cup {"WRITE"}

\* handle_output: what is left of it goes back to the head (ungetq, which
\* notifies); schedule_wakeup.
OutputPart ==
    /\ pc = "output" /\ queue # <<>>
    /\ LET b == Head(queue) IN \E n \in Sent(Length(b)) :
        /\ n < Length(b)
        /\ out' = out \o Run(b.lo, n)
        /\ queue' = <<Advance(b, n)>> \o Tail(queue)
    /\ notices' = Notified
    /\ watch' = WatchForWrite
    /\ pc' = "reactor"
    /\ UNCHANGED <<serverVars, loop, m_numIterations, timer, produced, writer, logged>>

\* handle_input: what the server sent is logged.
LogInput ==
    /\ Ready /\ "READ" \in watch
    /\ logged < echoed
    /\ logged' = echoed
    /\ UNCHANGED <<serverVars, loop, m_numIterations, timer, produced, queue,
                   notices, watch, pc, writer, out>>

\* recv returns 0, or an error: a server that closes with bytes unread resets
\* the connection, and what it had sent before may be lost.
ServerGone == server = "closed" /\ (logged = echoed \/ arrived < Len(out))

EndOfInputLoopGoesOn ==
    /\ Ready /\ "READ" \in watch
    /\ ServerGone
    /\ watch' = watch \ {"READ"}
    /\ UNCHANGED <<serverVars, loop, m_numIterations, timer, produced, queue,
                   notices, pc, writer, out, logged>>
(* handle_input: the server has closed; end_reactor_event_loop, and the -1 *)
(* takes the handler out of the reactor.                                   *)
EndOfInput ==
    /\ Ready /\ "READ" \in watch
    /\ ServerGone
    /\ loop' = "ended"
    /\ watch' = watch \ {"READ"}
    /\ UNCHANGED <<serverVars, m_numIterations, timer, produced, queue, notices,
                   pc, writer, out, logged>>

-----------------------------------------------------------------------------
(* The server: it reads, it sends back, and it closes when it has read the *)
(* end of the stream, or at any time.                                      *)

clientVars == <<loop, m_numIterations, timer, produced, queue, notices, watch,
                pc, writer, out, logged>>

ServerRead ==
    /\ server = "open"
    /\ arrived' \in arrived + 1 .. Len(out)
    /\ UNCHANGED <<clientVars, echoed, server>>

\* Bytes are sent back; the server may close with that.
ServerEcho ==
    /\ server = "open"
    /\ echoed' \in echoed + 1 .. arrived
    /\ server' \in {"open", "closed"}
    /\ UNCHANGED <<clientVars, arrived>>

ServerClose ==
    /\ server = "open"
    /\ server' = "closed"
    /\ UNCHANGED <<clientVars, arrived, echoed>>

Finished == loop = "ended" /\ UNCHANGED vars

Output == OutputEmpty \/ OutputWhole \/ OutputPart

Timeout == CloseWriter \/ PutLine \/ TimerLost

Reactor == open \/ Timeout \/ StartOutput \/ Output \/ LogInput \/ EndOfInput

Server == ServerRead \/ ServerEcho \/ ServerClose

Next == Reactor \/ Server \/ Finished

Spec == Init /\ [][Next]_vars

\* The end of the stream has reached the server.
EndSeen == writer = "shut" /\ arrived = Len(out)

(* A callback that runs goes on.  The reactor goes on calling back, but it *)
(* may prefer notifications to input for ever (by default ACE works off    *)
(* all notifications first, those queued meanwhile too).  The server reads *)
(* on, and closes when it has read the end of the stream.  The timer is    *)
(* never relied upon.                                                      *)
Fairness ==
    /\ WF_vars(Output)
    /\ WF_vars(StartOutput \/ LogInput \/ EndOfInput)
    /\ WF_vars(ServerRead)
    /\ WF_vars(EndSeen /\ ServerClose)

FairSpec == Spec /\ Fairness

-----------------------------------------------------------------------------
(* The type invariant.  At most MaxIterations - 1 lines are ever produced. *)
TypeOK ==
    /\ loop \in {"start", "run", "ended"}
    /\ m_numIterations \in 0..MaxTicks
    /\ timer \in BOOLEAN
    /\ produced \in Nat /\ produced <= (MaxIterations - 1) * LineLength
    /\ queue \in Seq(Block)
    /\ notices \in Nat
    /\ watch \subseteq {"READ", "WRITE"}
    /\ pc \in {"reactor", "output"}
    /\ writer \in {"open", "shut"}
    /\ out \in Seq(Nat)
    /\ arrived \in 0..Len(out) /\ InFlight <= SendSpace
    /\ echoed \in 0..arrived
    /\ logged \in 0..echoed
    /\ server \in {"open", "closed"}

\* The blocks of q are not empty, and follow each other without a gap.
Gapless(q) ==
    /\ \A i \in 1..Len(q) : q[i].lo <= q[i].hi
    /\ \A i \in 1 .. Len(q) - 1 : q[i + 1].lo = q[i].hi + 1

(* Through every partial send, failed send and re-queueing, what was sent  *)
(* followed by what is queued is the stream of lines: handle_output        *)
(* (Client.cpp:99-119) loses, repeats and reorders nothing.                *)
StreamIntact ==
    /\ out = Run(1, Len(out))
    /\ Gapless(queue)
    /\ IF queue = <<>> THEN Len(out) = produced
       ELSE Head(queue).lo = Len(out) + 1 /\ queue[Len(queue)].hi = produced

(* Between callbacks, whatever is queued has a wake-up on its way: a       *)
(* notification or WRITE.  And the reactor does not watch for WRITE when   *)
(* there is nothing to send, or it would spin.                             *)
WakeupMatchesQueue ==
    pc = "reactor" =>
        /\ queue # <<>> => notices > 0 \/ "WRITE" \in watch
        /\ "WRITE" \in watch => queue # <<>>

(* Lines do not stay in the queue of a client whose server reads, unless   *)
(* the connection's write side is shut first; and, as Client.cpp:135-138   *)
(* says, a client that has sent everything and shut its write side ends,   *)
(* by "doing a 0-byte receive to close everything down".                   *)
Farewell ==
    /\ queue # <<>> ~>
            queue = <<>> \/ writer = "shut" \/ server = "closed" \/ loop = "ended"
    /\ writer = "shut" /\ queue = <<>> ~> loop = "ended"

(* Client.cpp:135: "After we send a predetermined number of strings to the *)
(* server, we use the close_writer() method": nothing is left to send by   *)
(* then.                                                                   *)
LinesBeforeFin == writer = "shut" => queue = <<>>
=============================================================================
