# Verification of the ACE socket samples

TLA+ models, TLC configurations and TLAPS proofs for the programs under
`src/C++`: small TCP and UDP clients and servers written on Winsock and on the
ACE framework, and samples of ACE's logging. The programs are short, but the
reactor-based ones (Server3-ace, Server4-ace, Client5-ace) are event-driven
state machines whose hard cases - partial sends, full queues, late timers,
half-closed and reset connections, failed registrations - no test of the
repository reaches: the repository has no tests.

Contents: 1 inventory, 2 plan, 3 modules and code, 4 runs, 5 fairness,
6 proofs, 7 what is external, 8 what is not modelled.

## 1. Inventory

**Reactor echo server (Server3-ace).** `main` opens a `ClientAcceptor` on port
27015 and runs the reactor's event loop; the acceptor makes one
`ClientService` for each connection. Everything runs in one thread; the
components interact through the reactor: `register_handler`, `remove_handler`
and the callbacks `handle_input`, `handle_output`, `handle_close`.

- *ClientService* keeps `m_socket`, the backlog `m_queue` and its registration.
  `handle_input` receives, sends the bytes back and queues what `send` did not
  take; `handle_output` works off the queue; `handle_close` removes the
  registration, closes, flushes and deletes the object, except for
  `WRITE_MASK`, the end of a drain. It is correct when every byte received is
  accounted for, the reactor watches WRITE exactly while there is a backlog,
  the backlog is bounded and ordered, and a client that leaves releases it.
- *ClientAcceptor* keeps the listening socket. `handle_input` accepts, makes
  the service and calls its `open`; `handle_close` and the destructor close.
  It is correct when the objects, the reactor's table and the system's table of
  handles agree: no dangling registration, no leaked or shared handle, nobody
  deaf.
- *Helpers* that no program creates: `LogSwitcher` (a signal says "on" or
  "off" and notifies; the callback switches the log), `LoopStopper` (a signal
  ends the event loop) and `TimerHandler` (logs). The log is correct when the
  last signal wins, however signals interrupt each other and the callback.

**Reactor client (Client5-ace).** A recurring timer puts lines on the inherited
message queue; each `putq` notifies the reactor, which calls `handle_output`;
the `MaxIterations`-th tick shuts the write side, and the server's end of
stream ends the event loop in `handle_input`. Correct when no line is lost,
repeated or reordered, a queued line always has a wake-up coming, and the
client ends.

**Acceptor-framework server (Server4-ace).** The same service on
`ACE_Svc_Handler` and `ACE_Acceptor`: the inherited queue, and an acceptor that
goes on listening after a failed accept. Client5-ace and this service are each
written against an idea of the other; a whole conversation is correct when each
is what the other assumes, the echo is whole, and both end.

**Blocking servers and clients (Server1-msdn, Server2-ace, Client1,
Client4-msdn-client).** One connection, blocking calls. Correct when both ends
finish and the client reads what it sent.

**UDP samples.** `UdpReceiver1` answers the first datagram that reaches port
27015 and ends; `UdpSender1` sends one and waits for the answer;
`UdpSender-Broadcast` sends one and ends. All senders bind port 27016. Correct
when there is one answer, to a message that was sent, and the port comes free.
The multicast sender only sends; nothing in the repository listens to a group.

**Logging samples.** Trace1 to Trace5 configure the log of their process
(`ACE_Log_Msg`: flags, a stream pointer, a callback pointer, a backend, a
priority mask) and print; Trace6-Redirect has a `LogManager` that switches it
between the console, the logging daemon, the system log, a stream, a file and a
callback. Correct when a message goes where the last redirection asked and
never to an object that was destroyed; `RedirectToFile`, `RedirectToDaemon` and
`RedirectToSyslog` do not keep that, the others do.

The hard behaviours, each at its line, are the `hazards` of `PROJECT.json`.

## 2. Plan

Order: the byte-level service first, since that is where data is lost; then the
server around it; then the client; then the blocking and the UDP programs; then
the composition of client and service, the second server, and the log. The
component modules do not include each other's state: `EchoServer` reduces a
service to whether it has a backlog, `ReactorClient` and `ClientService` have
any peer as their environment, and `Conversation` puts those two together.

| stage | module | question | state |
|---|---|---|---|
| 1 | `ByteRuns`, `EchoStream` | bytes as positions; the abstract echo | done |
| 1 | `ClientService` | one service: bytes, queue, registration, departure | done, proved |
| 1 | `EchoServer` | acceptor, all services, handles and their reuse, in Server3 and in Server4 | done, proved |
| 1 | `ReactorClient` | timer, queue, notification, half-close | done, proved |
| 1 | `BlockingEcho` | Server1, Server2, Client1, Client4: is the echo exact, does everybody end | done, proved |
| 1 | `Datagrams` | the UDP programs with a shared port, loss, duplication and delay | done, proved |
| 2 | `Conversation` | Client5 with Server4's service: is each what the other assumes, is the echo whole, do both end | done, proved |
| 2 | `LogManager`, `LogSwitcher` | any sequence of redirections; signals that interrupt each other and the switching | done, proved |
| 3 | what the components' proofs leave open | the byte count of the backlog, the ends of handlers and handles, the transfer to `Conversation` | done, proved |

Bounds: two or three blocks, windows smaller than a block so that sends are
partial, as many connections as handles, so that handles are reused (the
acceptor has one of them).

## 3. Modules and code

A byte is its **position in its stream**, never a character: then "lost",
"twice" and "out of order" are statements about sets and sequences of numbers,
and no property depends on more. `ByteRuns.tla` has the run of `n` bytes from
`lo` and the minimum.

### EchoStream.tla
The abstract specification of one connection: bytes are received, a run of
pending bytes is sent back, pending bytes may be given up. A byte comes back at
most once and only after it was received. It promises neither order nor
completeness, because the code keeps neither (`service_overtaking`,
`service_leak`).

### ClientService.tla (Server3-ace/ClientService.{h,cpp})
(Server4-ace's `ClientService.cpp` has the same callbacks; see Conversation.)

| model | code |
|---|---|
| `m_queue`, `received`/`fresh` | `m_queue`; `receivedBytes` and `buffer` of `handle_input` |
| `mask` | the reactor's registration of this handler |
| `life` | the object: accepted, registered by `open()`, deleted by `delete this` |
| `pc` | which callback runs: the client moves between its system calls |
| `echo`, `taken`, `written`, `peer` | the connection: what was sent, what the client read and wrote, how it closed |
| `dropped`, `leaked` | ghost: bytes given up on purpose (log message, flush), and bytes of blocks nothing refers to |
| `open` | `open()`, and the acceptor's `handle_close` when it fails |
| `Receive`, `EndOfInput` | `handle_input` up to `recv`; `<= 0` returns -1 and the reactor closes |
| `ReplyAtOnce`, `ReplyLater` | the rest of `handle_input`: send, queue, register; refusal by a full queue, failed allocation, failed registration |
| `StartOutput`, `OutputLast`, `OutputWhole`, `OutputPart` | `handle_output` and the turns of its loop |
| `handle_close(m, ...)` | `handle_close`, with the mask test |

The loop of `handle_output` is modelled as written: `dequeue_head` returns the
number of blocks that *remain* (`-1` for none), so taking the last block ends
the loop before it is sent (`OutputLast`). `is_full` counts allocated sizes, as
ACE does, so a half-sent block still counts in full. The count (`cur_bytes`) is
the number of pairs of a block and a byte of it (`Allocated`), which is the sum
of the sizes and, unlike a fold, can be reasoned about.

### EchoServer.tla (ClientAcceptor, Program.cpp, all services; Server4-ace)
The reactor finds a handler by the handle its `get_handle()` returns *at that
moment*. So `watch` is a set of `<<handle, handler, event>>`, `handle` is what
`get_handle()` returns, and `socket` is the operating system's table, from which
a closed handle is handed out again. Callbacks run to their end in one thread
and are one step each. A service only gains and loses its backlog here: its bytes are
`ClientService.tla`'s. `AcceptorClose` is `ClientAcceptor::handle_close`, from
the reactor and from the destructor; `EventLoopEnds`, `ReactorCloses` and `Exit`
are the end of `main` and the reactor's own closing.

`program` is Server3 or Server4. Server4's `main` uses `ACE_Acceptor`, not the
`ClientAcceptor.cpp` beside it. They differ in what a failed accept does: Server3's
acceptor returns -1 and is closed for good (`AcceptFails`); `ACE_Acceptor` goes on
listening, so a connection that was reset is dropped, and one for which there is no
handle waits (`AcceptSkips`).

### ReactorClient.tla (Client5-ace)
`queue` is `msg_queue()`, `notices` the notifications in the reactor's pipe,
`watch` the registration, `timer` whether the timer is scheduled, `writer`
whether `close_writer` was called. `PutLine`, `CloseWriter` and `TimerLost` are
the three ways through `handle_timeout`; `StartOutput` and `Output*` are
`handle_output`; `LogInput` and `EndOfInput` are `handle_input`. `server` is any
server: it reads, it echoes, and it may close at any time.

### Conversation.tla (Client5-ace with Server4-ace/ClientService.cpp)
The variables of both components, each instantiated with the other as its
environment: the service's `written` is the length of the client's `out`, its
`taken` is `logged`, its `peer` is read off `loop` and `writer`; the client's
`arrived` is `received`, its `echoed` the length of `echo`, its `server` is read
off `life`. A step is a step of one component's program; nothing is left of
either environment. `ImplementsReactorClient` and `ImplementsClientService` say that
what each program does is allowed by the environment the other was checked and
proved with: all that is shown of the components holds of the pair. The
connection itself stays up here.

### LogManager.tla, LogSwitcher.tla (Trace1 to Trace6, the reactor helpers)
`LogManager` has the process's log as ACE keeps it, the redirections of
`LogManager.cpp` as operations on it, and the programs: each Trace program is the
list of its calls in order (`Script`), run by `pc`, and `Library` is a program that
calls a `LogManager` in any order and destroys any stream but the one it redirected
to last, and any callback but the one that is registered. `Written` is what the log
calls for a message, `Dangling` what of it was destroyed, and `Sinks` what the
message reaches: stderr, a backend, and objects that exist. A call of a destroyed
object is undefined in the program; the model loses the message and goes on. The
file's stream is never among what exists: `RedirectToFile` closes and destroys it
before it returns. `LogSwitcher` adds the reactor: `Signal` and `Notify` are the two
halves of `handle_signal`, `Dispatch` and `Switch` those of `handle_exception`,
since a signal may come between any two; `StopLoop` is `LoopStopper`.

### BlockingEcho.tla (Server1-msdn, Server2-ace, Client1, Client4-msdn-client)
Each process is sequential, so a step is one system call with what the program
makes of its result; `spc` and `cpc` are the call it is at. The two servers share
their actions and differ in `AfterEnd` (Server2's loop condition assigns the
comparison, so the end of the stream is not seen), `Reply` (what `send` is
given) and in what a failed call does; the two clients in `AfterSend` (Client4
shuts its write side), `AfterRecv` (Client4 receives until the server ends) and
in which failures they look at. A connection is `link`, the bytes on either way
(`sent` and `taken`; `down`) and `finUp`, `finDown`. Only the first `Length + 1` bytes
a client receives are kept in `got`: enough to tell an exact echo from one that
is wrong or too long, while Server2 may send without end. `Killed` and
`ConnectionLost` are the world's.

### Datagrams.tla (UdpReceiver1-ace, UdpSender1-ace, UdpSender-Broadcast-ace)
`port` is who has 27016: a constructor that does not get it leaves a dead socket, on
which `send` and `recv` fail and nothing else changes. `messages` and `answers`
are sets of datagrams on their way: one that is received may stay (a duplicate),
any may vanish, and an answer goes to whoever has the port when it arrives.

`UdpReceiver1` says that it "receives and replays" (Program.cpp:4), but it sends
`size` bytes of its buffer, `BUFSIZ` of them, where `recv` returned `received`
(lines 38 and 42): what comes back is the message followed by whatever the stack
held, never the message alone. So an answer is a record of the message (`text`)
and of what the rest of the buffer happens to hold (`rest`, any member of
`Leftovers`), and no property calls it an echo: `OneAnswer` says what does hold.
`UdpSender1` prints only the two lengths, which differ.

### MC modules, proof modules
`MCx.tla` instantiates `x.tla` for TLC, `xProofs.tla` holds its theorems. The
definitions that change another one the way a plausible bug would
(`RemainderTooLong`, `ReleaseCloseFirst`, ...) stand before the definition they
change; with one in place of it, the property `PROJECT.json` pairs it with
fails.

## 4. Runs

| run | bounds | shows |
|---|---|---|
| `service` | buffer 3, high water 4, window 2, 9 bytes | every safety property of the service, that no drain ends the connection, that a client which has written no more than the window holds gets exactly its bytes, and that it implements `EchoStream`; no callback runs in a deleted service, a departed client's service is deleted, a backlog is worked off |
| `service_overtaking` (violation) | buffer 2, window 1, 4 bytes | new input is sent while older bytes wait: the echo is out of order |
| `service_leak` (violation) | as above | the last block of a backlog is never sent and never released |
| `server` | 3 connections, 3 handles, Server3 and Server4 | the tables agree through accepts, failures, closes, handle reuse and the end of the loop; nobody waits for ever at a listening socket; a departed client's handle is returned |
| `client_stream` | 5 iterations, lines of 2, window 3, 6 ticks | stream intact, wake-ups, lines leave, a client that has sent everything ends |
| `client_fin` (violation) | 2 iterations | a tick that comes before an earlier notification shuts the write side with a line queued |
| `blocking_pairs` | 2 clients, 2 bytes; every pairing but Server2 with Client4 | Server1's echo is exact, Client4's success means the whole echo, every client and conversation ends |
| `blocking_half_close` (violation) | 1 client, 2 bytes; every pairing | Server2 does not see Client4's half-close: neither ends |
| `datagrams` | 2 unicast senders, 1 broadcaster, 2 contents of the rest of the buffer | however often it is copied there is one answer, which begins with the one message that was taken, and that was sent; nobody waits without the port, and the port comes free |
| `conversation` | 4 iterations, lines of 3, windows 4 and 3, buffer 2, high water 3, 5 ticks | client and service are what the other assumes; the client reads only bytes it sent, none twice; the echo is whole when nothing was lost or the way back is wide; both end unless a line could not be allocated or cannot be sent |
| `logging` | Trace1 to Trace6 and Library; 2 streams, 2 callbacks, 2 signals | after any history messages arrive where the last redirection but `RedirectToFile` sent them, and where Trace3 and Trace4 say; no destroyed callback is called, and a destroyed stream is written to only after `RedirectToFile`, `RedirectToDaemon` and `RedirectToSyslog`; the log follows the last signal |
| `log_file` (violation) | Trace6 | the message after `RedirectToFile` does not arrive |

What the violation runs show, each with a `finding` in `PROJECT.json`:

- `service_overtaking`: `handle_input` sends what it has just received without
  looking whether older bytes wait in `m_queue`;
- `service_leak`: `handle_output` tests the number of remaining blocks as if it were a
  success flag, so the last block of every backlog is taken and dropped;
- `client_fin`: `handle_timeout` shuts the write side without looking at the queue;
- `blocking_half_close`: description.html has every client work with every
  server, and this pair does not end;
- `log_file`: `RedirectToFile` leaves the log with a pointer to its local stream,
  which it closes and which is destroyed as it returns. Trace6's message "Howdy
  Pardner" is written to that; the `log.txt` in the repository is empty.

Three more things that code and comments or names have different, without a run:

- `UdpReceiver1` does not replay what it received (see Datagrams above);
- Server3's acceptor returns 0 after a failed `open()` of a service
  (ClientAcceptor.cpp:70-75) and goes on, where the comment in
  ClientService.cpp:10-12 has it return -1;
- the first callback given to `RedirectToCallback` is never called: MSG_CALLBACK
  follows the previous callback, not the new one (LogManager.cpp:54). The
  model does the same, and no property demands it.

Why the bounds are enough. *Service*: a window smaller than the buffer makes sends
partial and empty; nine bytes are three full buffers, so that the queue holds
several blocks, reaches the high water mark with one block over it and is refused
another, and a block is sent in more than two parts. The invariants are proved for
every value (section 6). *Server*: with three handles, one for the acceptor, two
services exist at a time and the third connection waits for a handle or reuses one;
the invariants are proved for any number. *Client*: four lines with a window of one
and a half lines give partial sends with lines behind them; six ticks exceed the
five iterations, so that the write side is shut again. `MaxNotices` bounds how many
notifications may be pending when WRITE is dispatched: a dispatch for WRITE may add
a notification, so without the bound their number could grow for ever. *Blocking
programs*: the second client is the one that waits in the listening socket and is
never accepted; two bytes are the fewest that one `recv` may split. *UDP*: two
unicast senders and a broadcaster are enough for the port to be refused, to change
hands while an answer is on its way, and for an answer to reach somebody who did not
ask. *Conversation*: three lines of three bytes, each more than the service's
buffer; the way back is smaller than what is sent, so replies are partial, a backlog
arises and the queue refuses blocks; the fifth tick shuts the write side again.
*Logging*: two callbacks, for the second is the first to be called; two signals, for
one may interrupt the other, and the opposite one the callback; two streams, so that
one may be destroyed while the log is with the other, or still points to it.

Deadlock is checked in every run but `datagrams`: a program that has ended
stutters (`Finished`; in `Conversation` also a client whose timer was cancelled,
which waits for ever), anything else that stops is an error. In `datagrams` the
system really may stop: `UdpSender1` waits for an answer without a timeout, and
the datagram or its answer may be lost.

## 5. Fairness

- *ClientService*: a callback that was entered goes on (WF); the client reads
  what it is sent (WF); the reactor serves every ready handle in each pass, so
  a handle that is ready again and again is served: SF on `handle_input` and on
  `handle_output`. WF would not do, for a callback that runs disables the next
  dispatch, and a partly read window goes up and down. Nothing is assumed
  of the client's writing or leaving.
- *EchoServer*: callbacks are single steps, so WF on the acceptor's input, on the
  end of input of a client that has left, and on the rest of `main`. Nobody has
  to connect, leave or end the loop.
- *ReactorClient*: WF on the callback that runs and on the *union* of the
  reactor's dispatches only. ACE works off notifications before input by
  default, those queued meanwhile too, and `ungetq` notifies, so fairness
  between them is not justified. The timer is never relied upon. The server
  reads on and closes after the end of the stream; this is what `Farewell`
  depends on.
- *BlockingEcho*: WF on the server's steps and on each client's: a process goes on
  when its call can return. Nobody has to be killed and no connection has to be lost.
- *Datagrams*: WF on the receiver's steps and on each sender's, with the one
  exception that `recv` on a good socket need not fail. Nothing is assumed of the
  network.
- *Conversation*: the fairness of its two components; besides, WF on
  `handle_timeout`: the timer is the client's only way to its end. The client's
  dispatches are fair only as a union, as above: a client with a line left
  behind its FIN may serve notifications for ever, which `ConversationEnds`
  names (`Stuck`).
- *LogSwitcher*: WF on the signal handler's and the callback's second half, and on the
  dispatch of a queued notification. Nobody has to send a signal.

## 6. Proofs

All theorems are of the specification (`Spec => ...`), for every value of the
constants that satisfies the named assumptions: sizes are positive naturals; a
window holds what a blocking client sends; the acceptor is not a connection; `None`
is neither a handle nor an object; the server is none of the clients; the rest of
the receiver's buffer holds something; what a log can be given (the streams, the
callbacks, the file, the names `"STDERR"`, `"LOGGER"`, `"SYSLOG"` and `"closed"`) is
all different, and the programs that are run are those `Script` lists, or `Library`.
Each module has an inductive invariant `IInv` (`Inv` in `ConversationProofs`),
proved initial and preserved with one step per action, then the conjuncts and the
action properties follow.

- `ByteRunsProofs` has the lemmas about runs: a run's length, range and
  injectivity; what appending a run does to an injective sequence.
- `ClientServiceProofs`: `TypeCorrect`, `WriteArmed`, `Registered`,
  `BacklogOrder`, `Conservation`, `DrainKeeps`, `Refinement`, `ExactEcho`,
  `EchoUnlessLost`, `Bounded`, `Deleted`, and `EchoAtMostOnce` of the abstract
  echo. The safety properties are inductive only together: that
  `handle_output` never meets an empty queue needs `WriteArmedIffBacklog`,
  conservation needs the order of the backlog (a byte taken from the head is in
  no other block) and that fresh bytes are younger than queued ones, and the
  refinement needs all of them to show that what is sent was pending.
  `ExactEcho` adds that no backlog arises until the client has written more than
  the window holds. `EchoUnlessLost` rests on the last block of a backlog always
  being lost: a handler that has lost nothing never had a backlog that is gone
  now. `Bounded` needs `IInv` for the size of what is appended, and that a block
  which is put back keeps the size it was allocated with; `AllocatedAppend` and
  `AllocatedSplit` say what a queue's byte count is after its tail or its head
  changes. `Deleted` says that nothing of a deleted handler changes: no callback
  tests whether the object lives, so this rests on `RegisteredWhileOpen`.
- `EchoServerProofs`: `TypeCorrect`, `NoDangling`, `Ownership`, `Listening`,
  `HandleKept`. The strengthening is `ServedOnceAccepted`: an object that exists was
  accepted once, so a deleted one never comes back and a connection not yet accepted
  owns nothing. Ownership is needed for registrations, because only an injective
  handle table makes "remove what is registered under my handle" remove nobody
  else's. `HandleKept` adds what a step may do to a service: an open one keeps its
  handle until it is deleted, and a deleted one stays so, without a handle, whoever
  has its old handle by then.
- `ReactorClientProofs`: `TypeCorrect`, `NothingLost`, `WakeupComing`. The stream
  property is inductive with the types; the wake-up property needs nothing of the
  data. The bound `(MaxIterations - 1) * LineLength` on what is produced needs
  that lines and ticks are counted together; `WithinLines` carries it over to
  what is sent.
- `ConversationProofs`: `ClientRefined`, `ServiceRefined`, `EchoedWhole`,
  `ComponentsKeep`, `OwnBytesOnce`. Each
  component assumes something of its peer, so neither refinement can be proved
  first: both follow from one induction whose invariant is the conjunction of
  the two components' invariants. A step of the client is a step of its own
  specification, so the client's invariant holds after it; with `ReactorEffect`
  and the bound on what is sent, it is a write, a read, a half-close, a departure
  or nothing in the service's specification, so the service's invariant holds
  too (`ClientMoves`). The service's steps are argued the same way, with
  `ServiceEffect` and `EchoLength`, a pigeonhole argument that no more comes back
  than was received (`ServiceMoves`). `EndInv` adds what the end of a client after
  its FIN means. With that, what was proved of each component alone is true of
  the pair (`ComponentsKeep`), and end to end the client can only read bytes it
  sent, none of them twice (`OwnBytesOnce`).
- `BlockingEchoProofs`: `TypeCorrect`, `FaithfulEcho`, `CompleteSuccess`. That a
  Client4 which returns 0 has everything takes the order in which both ends
  close: its second shutdown succeeds only on a connection that was not reset,
  and such a connection is closed by Server1 only after the client's FIN, when
  nothing is held (`ClientOrder`, `ServerOrder`, `CloseOrder`).
- `DatagramsProofs`: `TypeCorrect`, `OnlyAnswer`, with the strengthening that
  there is no answer before the receiver ends (it sends one only) and no message
  in its buffer before it has taken one, and that a sender has no result before
  its send.
- `LogSwitcherProofs`: `TypeCorrect`, `NoSinkDead`, `SaidDone`, `RedirectionHolds`,
  `SwitchFollowed`. None of the properties is inductive: a message says where it
  went, not what the log looks like before the next one. `Trace3Inv` and `Trace4Inv`
  give the log's flags and pointers at every call of those programs, `LibraryInv`
  what any sequence of redirections leaves: the callback, and the stream the log was
  redirected to last, exist; and `Redirected` relates flags and stream to the last
  destination. It says nothing of a stream the log points to after RedirectToDaemon
  or RedirectToSyslog, which may be gone. `OthersInv` has the programs that only log
  and redirect to the file. `SwitchInv` says that no signal's request is forgotten:
  the log follows the last one, or a handler has still to notify, a notification is
  queued or has failed, or the callback has read the request and will carry it out.
  The order of the destructions in Trace4 appears only in `Trace4Inv`; `NoSinkDead`
  and `SaidDone` need it.

Only model-checked: liveness (the leads-to properties, `PeerDepartureReleases`,
`BacklogDrains`, `NobodyWaitsForever`, `EveryHandleReturned`, `Farewell`,
`ClientsEnd`, `ConversationEnds`, `PortComesFree` and `SwitchTakesEffect`), for
the provers have no rules for fairness and ENABLED, and the violation runs.
Every invariant, action property and refinement that a passing run checks is
also proved.

## 7. What is external

ACE and the operating system are not under `src/`; they are modelled from how the
code uses them and ACE's documented behaviour:

- a message queue without synchronisation never blocks; `is_full` compares
  allocated bytes with the high water mark (16 KB by default); `enqueue_tail`
  and `enqueue_head` call the notification strategy; `dequeue_head` returns the
  number of blocks that remain;
- when a callback returns -1 the reactor removes the event of that callback and
  calls `handle_close` with its mask; timers are expired before notifications;
- sockets served by the reactor are non-blocking or signalled as such (the
  Windows reactor makes them so), so `send` takes what fits; WRITE is treated
  as level-triggered;
- the system hands out any free handle; closing a listening socket resets the
  connections that wait; a connection reset while it waits may still be
  accepted;
- `ACE_Acceptor` calls `close()` on a handler whose `open()` failed, and goes on
  listening after a failed accept; `ACE_Svc_Handler`'s `open` registers for READ,
  its `handle_close` deletes the object, and the destructor removes the
  registration, closes the socket and flushes the queue;
- `ACE_Log_Msg::open` with a backend moves the messages there from stderr, or
  leaves them at stderr when the backend cannot be opened; a backend once opened
  stays open while flags decide what a message reaches;
- a notification is queued in the reactor's pipe or fails; none is merged.

## 8. What is not modelled

Wording and format of log messages, the characters of the data, addresses and
name resolution, the sizes of buffers as such (they are constants), and:

- *Client3-msdn*: resolves an address, creates a socket and ends; straight-line
  calls with no state of its own.
- *UdpSender3-Multicast-ace*: joins a group at a default address, which fails, or
  sends once and ends. It waits for nothing and shares no port, and nothing in the
  repository listens to a group.
- *TimerHandler* only logs; `Server4-ace/ClientAcceptor.cpp` is compiled but its
  `main` uses `ACE_Acceptor`.
- *Client1's printing*: what `recv` returned is passed to `write` unchecked. The
  program promises nothing of it; the model lets `recv` return a part, 0 or an error.
- Visual Studio projects, build files and the page styles.
