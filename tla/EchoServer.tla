----------------------------- MODULE EchoServer -----------------------------
(***************************************************************************)
(* The Server3-ace process: a ClientAcceptor that listens, a ClientService *)
(* object for every connection, the reactor that calls them back, and the  *)
(* operating system that hands out and reuses socket handles.  And the     *)
(* Server4-ace process, whose ClientAcceptor is ACE's own ACE_Acceptor and *)
(* whose ClientService is an ACE_Svc_Handler.                              *)
(*                                                                         *)
(* The reactor knows a handler by a handle.  It asks the handler for it    *)
(* (get_handle) when the handler is registered or removed, so what it      *)
(* finds depends on what the handler's socket holds at that moment.        *)
(*                                                                         *)
(* The reactor's thread runs every callback to its end, so a callback is   *)
(* one step; the clients move between callbacks.  Bytes are left to        *)
(* ClientService.tla: here a service only gains and loses its backlog.     *)
(***************************************************************************)
EXTENDS FiniteSets

CONSTANTS
    Conns,      \* bound: the connections clients may attempt, one service each
    Handles,    \* bound: the socket handles the process may have open
    Acceptor,   \* the ClientAcceptor object
    None        \* ACE_INVALID_HANDLE; no socket

ASSUME AcceptorAssumption == Acceptor \notin Conns
ASSUME NoneAssumption == None \notin Handles \cup Conns \cup {Acceptor}

VARIABLES
    program,    \* "Server3" or "Server4"
    running,    \* main: "start", "loop" (the event loop), "ended" (it has
                \* returned, the acceptor is destroyed) or "exit"
    client,     \* per connection: "idle", "waiting" (to be accepted), "aborted"
                \* (reset while waiting), "linked" or "gone"
    life,       \* per ClientService: "none", "open" or "deleted"
    handle,     \* get_handle() of every handler: its socket's handle, or None
    socket,     \* the operating system's table: whose socket a handle is
    watch,      \* the reactor's table: <<handle, handler, event>>
    backlog     \* the services whose m_queue is not empty

vars == <<program, running, client, life, handle, socket, watch, backlog>>

Handlers == Conns \cup {Acceptor}
Events == {"ACCEPT", "READ", "WRITE"}

Init ==
    /\ program \in {"Server3", "Server4"}
    /\ running = "start"
    /\ client = [c \in Conns |-> "idle"]
    /\ life = [c \in Conns |-> "none"]
    /\ handle = [x \in Handlers |-> None]
    /\ socket = [h \in Handles |-> None]
    /\ watch = {}
    /\ backlog = {}

-----------------------------------------------------------------------------
(* Sockets and registrations. *)

Free == {h \in Handles : socket[h] = None}

\* x gets the new socket h.
OpenSocket(x, h) ==
    /\ handle' = [handle EXCEPT ![x] = h]
    /\ socket' = [socket EXCEPT ![h] = x]

\* The table w without the events m of handle h.
Without(w, h, m) == {r \in w : r[1] # h \/ r[3] \notin m}

\* register_handler(x, e) when the handlers' handles are hs.
Register(w, hs, x, e) == w \cup {<<hs[x], x, e>>}

(* remove_handler(x, all its events and DONT_CALL), then close of the      *)
(* socket of x.  w is the reactor's table before.  Without a handle,       *)
(* remove_handler finds nothing.                                           *)
ReleaseCloseFirst(x, w) ==
    /\ watch' = w
    /\ socket' = [h \in Handles |-> IF h = handle[x] THEN None ELSE socket[h]]
    /\ handle' = [handle EXCEPT ![x] = None]
ReleaseUnclosed(x, w) ==
    /\ watch' = Without(w, handle[x], Events)
    /\ handle' = [handle EXCEPT ![x] = None]
    /\ UNCHANGED socket
Release(x, w) ==
    /\ watch' = Without(w, handle[x], Events)
    /\ socket' = [h \in Handles |-> IF h = handle[x] THEN None ELSE socket[h]]
    /\ handle' = [handle EXCEPT ![x] = None]

(* ClientAcceptor::handle_close, from the reactor or from the destructor.  *)
(* The operating system resets the connections still waiting.              *)
AcceptorCloseNothing(w) ==
    watch' = w /\ UNCHANGED <<client, handle, socket>>
AcceptorClose(w) ==
    IF handle[Acceptor] = None
    THEN watch' = w /\ UNCHANGED <<client, handle, socket>>
    ELSE /\ Release(Acceptor, w)
         /\ client' = [c \in Conns |->
                IF client[c] \in {"waiting", "aborted"} THEN "gone" ELSE client[c]]

(* ClientService::handle_close(h, m) of c, when w is the reactor's table   *)
(* and b the services with a backlog.  WRITE_MASK is let pass.             *)
handle_closeAlways(c, m, w, b) ==
    /\ Release(c, w)
    /\ life' = [life EXCEPT ![c] = "deleted"]
    /\ backlog' = b \ {c}
handle_close(c, m, w, b) ==
    IF m = {"WRITE"}
    THEN watch' = w /\ backlog' = b /\ UNCHANGED <<handle, socket, life>>
    ELSE /\ Release(c, w)
         /\ life' = [life EXCEPT ![c] = "deleted"]
         /\ backlog' = b \ {c}

-----------------------------------------------------------------------------
(* The program: main and the acceptor. *)

(* main opens the acceptor and enters the event loop.  When the address    *)
(* cannot be opened, or the registration fails, main returns 1, and the    *)
(* destructor closes what was opened.                                      *)
open ==
    /\ running = "start"
    /\ \/ \E h \in Free :
            /\ OpenSocket(Acceptor, h)
            /\ watch' = Register(watch, handle', Acceptor, "ACCEPT")
            /\ running' = "loop"
       \/ running' = "exit" /\ UNCHANGED <<handle, socket, watch>>
    /\ UNCHANGED <<program, client, life, backlog>>

\* The reactor sees the connection c wait at the listening socket.
Acceptable(c) ==
    /\ running = "loop"
    /\ \E r \in watch : r[2] = Acceptor /\ socket[r[1]] = Acceptor
    /\ client[c] \in {"waiting", "aborted"}

\* An aborted connection may still be accepted: recv will tell.
Accepted(c) ==
    client' = [client EXCEPT ![c] = IF @ = "waiting" THEN "linked" ELSE "gone"]

AcceptRegisteredFirst(c) ==
    /\ Acceptable(c)
    /\ Accepted(c)
    /\ \E h \in Free : OpenSocket(c, h)
    /\ watch' = Register(watch, handle, c, "READ")
    /\ life' = [life EXCEPT ![c] = "open"]
    /\ UNCHANGED <<program, running, backlog>>

(* ClientAcceptor::handle_input: the connection is accepted into a new     *)
(* service, whose open() registers it for READ.                            *)
Accept(c) ==
    /\ Acceptable(c)
    /\ Accepted(c)
    /\ \E h \in Free : OpenSocket(c, h)
    /\ watch' = Register(watch, handle', c, "READ")
    /\ life' = [life EXCEPT ![c] = "open"]
    /\ UNCHANGED <<program, running, backlog>>

(* ... the service's open() fails: the acceptor closes the service, so its *)
(* socket is given back, and still returns 0.                              *)
AcceptUnregistered(c) ==
    /\ Acceptable(c)
    /\ Accepted(c)
    /\ Free # {}
    /\ life' = [life EXCEPT ![c] = "deleted"]
    /\ UNCHANGED <<program, running, handle, socket, watch, backlog>>

(* ... in Server3: no memory, no handle, or the connection was reset: -1.  *)
(* The reactor removes ACCEPT and calls the acceptor's handle_close, and   *)
(* nothing ever opens it again.                                            *)
AcceptFails(c) ==
    /\ program = "Server3"
    /\ Acceptable(c)
    /\ AcceptorClose(Without(watch, handle[Acceptor], {"ACCEPT"}))
    /\ UNCHANGED <<program, running, life, backlog>>

(* ... in Server4: ACE_Acceptor returns 0 and goes on listening.  What it  *)
(* could not accept for want of memory or of a handle goes on waiting; a   *)
(* connection that was reset is gone.                                      *)
AcceptSkips(c) ==
    /\ program = "Server4"
    /\ Acceptable(c)
    /\ client[c] = "aborted"
    /\ client' = [client EXCEPT ![c] = "gone"]
    /\ UNCHANGED <<program, running, life, handle, socket, watch, backlog>>

(* An error ends run_reactor_event_loop.  main returns, which destroys the *)
(* acceptor.                                                               *)
EventLoopEnds ==
    /\ running = "loop"
    /\ running' = "ended"
    /\ AcceptorClose(watch)
    /\ UNCHANGED <<program, life, backlog>>

(* ACE_Object_Manager closes the reactor, which calls handle_close of each *)
(* handler that is still registered.                                       *)
ReactorCloses(h) ==
    /\ running = "ended"
    /\ \E r \in watch :
        /\ r[1] = h /\ r[2] \in Conns
        /\ handle_close(r[2], Events, Without(watch, h, Events), backlog)
    /\ UNCHANGED <<program, running, client>>

Exit ==
    /\ running = "ended" /\ watch = {}
    /\ running' = "exit"
    /\ UNCHANGED <<program, client, life, handle, socket, watch, backlog>>

-----------------------------------------------------------------------------
(* The services' callbacks: the reactor calls c for handle h. *)

Dispatch(h, c, e) == running = "loop" /\ c \in Conns /\ <<h, c, e>> \in watch

GainBacklogSet(h, c) ==
    /\ Dispatch(h, c, "READ")
    /\ client[c] = "linked"
    /\ watch' = IF c \in backlog THEN watch
                ELSE Register(Without(watch, h, Events), handle, c, "WRITE")
    /\ backlog' = backlog \cup {c}
    /\ UNCHANGED <<program, running, client, life, handle, socket>>

\* handle_input queues what send did not take; the first time, it registers
\* WRITE too.
GainBacklog(h, c) ==
    /\ Dispatch(h, c, "READ")
    /\ client[c] = "linked"
    /\ watch' = IF c \in backlog THEN watch ELSE Register(watch, handle, c, "WRITE")
    /\ backlog' = backlog \cup {c}
    /\ UNCHANGED <<program, running, client, life, handle, socket>>

\* handle_output empties the backlog and returns -1: the reactor removes
\* WRITE and calls handle_close(h, WRITE_MASK).
Drain(h, c) ==
    /\ Dispatch(h, c, "WRITE")
    /\ handle_close(c, {"WRITE"}, Without(watch, h, {"WRITE"}), backlog \ {c})
    /\ UNCHANGED <<program, running, client>>

\* handle_input returns -1: the client has left or half-closed, or memory or
\* a registration is refused.
Close(h, c) ==
    /\ Dispatch(h, c, "READ")
    /\ handle_close(c, {"READ"}, Without(watch, h, {"READ"}), backlog)
    /\ UNCHANGED <<program, running, client>>

-----------------------------------------------------------------------------
(* The clients. *)

\* A client that nobody listens to is refused, which changes nothing here.
Connect(c) ==
    /\ client[c] = "idle"
    /\ handle[Acceptor] # None
    /\ client' = [client EXCEPT ![c] = "waiting"]
    /\ UNCHANGED <<program, running, life, handle, socket, watch, backlog>>

Leave(c) ==
    /\ client[c] \in {"waiting", "linked"}
    /\ client' = [client EXCEPT ![c] = IF @ = "waiting" THEN "aborted" ELSE "gone"]
    /\ UNCHANGED <<program, running, life, handle, socket, watch, backlog>>

Finished == running = "exit" /\ UNCHANGED vars

Main == open \/ EventLoopEnds \/ (\E h \in Handles : ReactorCloses(h)) \/ Exit

AcceptorInput(c) ==
    Accept(c) \/ AcceptUnregistered(c) \/ AcceptFails(c) \/ AcceptSkips(c)

ServiceStep(h, c) == GainBacklog(h, c) \/ Drain(h, c) \/ Close(h, c)

Next ==
    \/ Main
    \/ \E c \in Conns : AcceptorInput(c)
    \/ \E h \in Handles, c \in Conns : ServiceStep(h, c)
    \/ \E c \in Conns : Connect(c) \/ Leave(c)
    \/ Finished

Spec == Init /\ [][Next]_vars

(* The reactor serves every ready handle: a connection that waits is       *)
(* presented to the acceptor, a departed client's end of input to its      *)
(* service.  A loop that has ended is followed by the rest of main.        *)
Fairness ==
    /\ WF_vars((\E h \in Handles : ReactorCloses(h)) \/ Exit)
    /\ \A c \in Conns :
        /\ WF_vars(AcceptorInput(c))
        /\ WF_vars(client[c] = "gone" /\ \E h \in Handles : Close(h, c))

FairSpec == Spec /\ Fairness

-----------------------------------------------------------------------------
(* The type invariant: the program's and the reactor's tables.             *)
TypeOK ==
    /\ program \in {"Server3", "Server4"}
    /\ running \in {"start", "loop", "ended", "exit"}
    /\ client \in [Conns -> {"idle", "waiting", "aborted", "linked", "gone"}]
    /\ life \in [Conns -> {"none", "open", "deleted"}]
    /\ handle \in [Handlers -> Handles \cup {None}]
    /\ socket \in [Handles -> Handlers \cup {None}]
    /\ watch \subseteq Handles \X Handlers \X Events
    /\ backlog \subseteq Conns

\* The handler objects that exist.
Alive(x) == IF x = Acceptor THEN running = "loop" ELSE life[x] = "open"

(* ClientAcceptor.cpp:11, "Ensures that there's no dangling reactor        *)
(* registration": the reactor never holds an object that was deleted, nor  *)
(* one under a handle that is not its own any more, for the system would   *)
(* give that handle to the next connection.                                *)
NoDanglingRegistration ==
    \A r \in watch : Alive(r[2]) /\ handle[r[2]] = r[1]

(* The objects and the operating system agree on who owns which handle:    *)
(* none is leaked, none has two owners, and what is deleted owns none.     *)
HandlesOwned ==
    /\ \A x \in Handlers, h \in Handles : handle[x] = h <=> socket[h] = x
    /\ \A x \in Handlers : handle[x] # None => Alive(x)

(* Nobody who holds a socket is deaf: the listening socket is watched for  *)
(* ACCEPT, a service for READ, and for WRITE exactly while it has a        *)
(* backlog, whatever the other connections have done.                      *)
NobodyDeaf ==
    /\ handle[Acceptor] # None => <<handle[Acceptor], Acceptor, "ACCEPT">> \in watch
    /\ \A c \in Conns : life[c] = "open" =>
        /\ <<handle[c], c, "READ">> \in watch
        /\ <<handle[c], c, "WRITE">> \in watch <=> c \in backlog

(* A connection does not wait for ever at a listening socket: it is        *)
(* accepted or, when the acceptor closes, reset.  Server4 does not close   *)
(* for want of a handle, so there it may wait while others hold them all.  *)
NobodyWaitsForever ==
    \A c \in Conns :
        client[c] = "waiting"
            ~> client[c] # "waiting" \/ (program = "Server4" /\ Free = {})

(* The handle of a client that has left is given back, even when the event *)
(* loop has ended.                                                         *)
EveryHandleReturned == \A c \in Conns : client[c] = "gone" ~> handle[c] = None
=============================================================================
