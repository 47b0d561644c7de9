----------------------------- MODULE BlockingEcho -----------------------------
(***************************************************************************)
(* The blocking servers (Server1-msdn, Server2-ace) and clients (Client1,  *)
(* Client4-msdn-client).  A server serves the first connection it accepts  *)
(* and ends; the other clients wait in its listening socket until then.    *)
(*                                                                         *)
(* Each process is sequential: a step is one system call with what the     *)
(* program makes of its result.  A client's bytes are 1..Length; byte 0 is *)
(* whatever a buffer holds that was never filled.                          *)
(***************************************************************************)
EXTENDS ByteRuns, FiniteSets

CONSTANTS
    Clients,         \* bound: the client processes
    Server1Clients,  \* the programs ("Client1", "Client4") run against Server1
    Server2Clients,  \* the programs run against Server2
    Length,          \* bytes a client sends ("uptime\n", "this is a test.")
    SendSpace        \* bytes a connection holds on the way to the client

ASSUME ClientsAssumption == "server" \notin Clients
ASSUME LengthAssumption == Length \in Nat \ {0}
\* A window holds all a client sends: 15 bytes, against some KB.
ASSUME SendSpaceAssumption == SendSpace \in Nat /\ SendSpace >= Length

VARIABLES
    server,    \* the server's program: "Server1" or "Server2"
    spc,       \* the call the server is at, or "ended"
    serving,   \* the connections it has accepted: none or one
    buffer,    \* what the last recv that brought bytes left in its buffer
    program,   \* per client: its program
    cpc,       \* per client: the call it is at, or "ended"
    link,      \* per client: "none", "waiting" (to be accepted), "up" or "reset"
    sent,      \* per client: how many bytes it has sent
    taken,     \* per client: how many of them the server has received
    finUp,     \* per client: whether it sends no more
    down,      \* per client: the bytes on the way back to it
    finDown,   \* per client: whether the server sends no more
    got,       \* per client: the first Length + 1 bytes it has received
    result     \* per process: the value of main: "none", "ok" or "failed"

serverVars == <<spc, serving, buffer>>
netVars == <<link, sent, taken, finUp, down, finDown>>
vars == <<server, spc, serving, buffer, program, cpc, link, sent, taken, finUp,
          down, finDown, got, result>>

Programs(s) == IF s = "Server1" THEN Server1Clients ELSE Server2Clients

Init ==
    /\ server \in {"Server1", "Server2"}
    /\ spc = "listen" /\ serving = {} /\ buffer = <<0>>
    /\ program \in [Clients -> Programs(server)]
    /\ cpc = [c \in Clients |-> "connect"]
    /\ link = [c \in Clients |-> "none"]
    /\ sent = [c \in Clients |-> 0]
    /\ taken = [c \in Clients |-> 0]
    /\ finUp = [c \in Clients |-> FALSE]
    /\ down = [c \in Clients |-> <<>>]
    /\ finDown = [c \in Clients |-> FALSE]
    /\ got = [c \in Clients |-> <<>>]
    /\ result = [p \in Clients \cup {"server"} |-> "none"]

Ends(p, r) == result' = [result EXCEPT ![p] = r]

-----------------------------------------------------------------------------
(* The servers. *)

(* The end of the server's process with the value r.  It closes the        *)
(* listening socket (Server1 by ending, the accepting socket's destructor  *)
(* for Server2), which resets the clients that wait, and the connection it *)
(* serves: a reset if bytes of the client were not read.                   *)
ServerEnds(r) ==
    /\ spc' = "ended"
    /\ Ends("server", r)
    /\ finDown' = [c \in Clients |-> finDown[c] \/ c \in serving]
    /\ link' = [c \in Clients |->
            IF \/ link[c] = "waiting"
               \/ c \in serving /\ taken[c] < sent[c]
            THEN "reset" ELSE link[c]]

\* Up to listen: any of the calls may fail, and nobody can connect yet.
Listen ==
    /\ spc = "listen"
    /\ \/ spc' = "accept" /\ UNCHANGED <<link, finDown, result>>
       \/ ServerEnds("failed")
    /\ UNCHANGED <<server, serving, buffer, program, cpc, sent, taken, finUp,
                   down, got>>

\* A connection that was reset while it waited may still be accepted.
Accept(c) ==
    /\ spc = "accept"
    /\ link[c] \in {"waiting", "reset"} /\ c \notin serving
    /\ spc' = "recv"
    /\ serving' = {c}
    /\ link' = [link EXCEPT ![c] = IF @ = "waiting" THEN "up" ELSE @]
    /\ UNCHANGED <<server, buffer, program, cpc, sent, taken, finUp, down,
                   finDown, got, result>>

AcceptFails ==
    /\ spc = "accept"
    /\ ServerEnds("failed")
    /\ UNCHANGED <<server, serving, buffer, program, cpc, sent, taken, finUp,
                   down, got>>

ReceivedTooLong(c, n) == Run(taken[c] + 1, n + 1)
ReceivedFromStart(c, n) == Run(1, n)
Received(c, n) == Run(taken[c] + 1, n)

(* recv returns some bytes, those of one segment or of several.            *)
ServerReceives(c) ==
    /\ spc = "recv" /\ c \in serving /\ link[c] = "up"
    /\ \E n \in 1 .. sent[c] - taken[c] :
        /\ buffer' = Received(c, n)
        /\ taken' = [taken EXCEPT ![c] = @ + n]
    /\ spc' = "send"
    /\ UNCHANGED <<server, serving, program, cpc, link, sent, finUp, down,
                   finDown, got, result>>

AtEnd(c) == finUp[c] /\ taken[c] = sent[c]

AfterEndNever == "send"
AfterEnd == IF server = "Server1" THEN "shutdown" ELSE "send"

(* recv returns 0, the end of the client's stream.  Server1 leaves its     *)
(* loop.  Server2's condition assigns the comparison 0 # -1, not the       *)
(* count: it goes on to send.                                              *)
ServerSeesEnd(c) ==
    /\ spc = "recv" /\ c \in serving /\ link[c] = "up"
    /\ AtEnd(c)
    /\ spc' = AfterEnd
    /\ UNCHANGED <<server, serving, buffer, program, cpc, netVars, got, result>>

(* recv fails.  Server1 ends with E_FAIL; Server2 leaves its loop, closes  *)
(* and returns 0.                                                          *)
ServerRecvFails(c) ==
    /\ spc = "recv" /\ c \in serving /\ link[c] = "reset"
    /\ ServerEnds(IF server = "Server1" THEN "failed" ELSE "ok")
    /\ UNCHANGED <<server, serving, buffer, program, cpc, sent, taken, finUp,
                   down, got>>

\* What send is given: Server1's count is recv's, Server2's is always 1.
Reply == IF server = "Server1" THEN buffer ELSE SubSeq(buffer, 1, 1)

\* A client that has ended answers bytes with a reset.
Answered(c) == IF cpc[c] = "ended" THEN "reset" ELSE link[c]

(* send takes everything, and waits for room before.                       *)
ServerSends(c) ==
    /\ spc = "send" /\ c \in serving /\ link[c] = "up"
    /\ Len(down[c]) + Len(Reply) <= SendSpace
    /\ down' = [down EXCEPT ![c] = @ \o Reply]
    /\ link' = [link EXCEPT ![c] = Answered(c)]
    /\ spc' = "recv"
    /\ UNCHANGED <<server, serving, buffer, program, cpc, sent, taken, finUp,
                   finDown, got, result>>

(* send fails: Server1 ends with E_FAIL, Server2 ignores the result.       *)
ServerSendFails(c) ==
    /\ spc = "send" /\ c \in serving /\ link[c] = "reset"
    /\ \/ server = "Server1" /\ ServerEnds("failed")
       \/ server = "Server2" /\ spc' = "recv" /\ UNCHANGED <<link, finDown, result>>
    /\ UNCHANGED <<server, serving, buffer, program, cpc, sent, taken, finUp,
                   down, got>>

(* Server1's shutdown and closesocket.                                     *)
ServerShutsDown(c) ==
    /\ spc = "shutdown" /\ c \in serving
    /\ ServerEnds(IF link[c] = "reset" THEN "failed" ELSE "ok")
    /\ UNCHANGED <<server, serving, buffer, program, cpc, sent, taken, finUp,
                   down, got>>

-----------------------------------------------------------------------------
(* The clients. *)

(* The client ends with the value r and closes its socket: a reset if      *)
(* bytes of the server were not read.                                      *)
ClientEnds(c, r) ==
    /\ cpc' = [cpc EXCEPT ![c] = "ended"]
    /\ Ends(c, r)
    /\ finUp' = [finUp EXCEPT ![c] = TRUE]
    /\ link' = [link EXCEPT ![c] =
            IF @ \in {"waiting", "up"} /\ down[c] # <<>> THEN "reset" ELSE @]

\* Up to connect, which succeeds as long as the server listens.
Connect(c) ==
    /\ cpc[c] = "connect"
    /\ \/ /\ spc \notin {"listen", "ended"}
          /\ cpc' = [cpc EXCEPT ![c] = "send"]
          /\ link' = [link EXCEPT ![c] = "waiting"]
          /\ UNCHANGED <<finUp, result>>
       \/ ClientEnds(c, "failed")
    /\ UNCHANGED <<server, serverVars, program, sent, taken, down, finDown, got>>

AfterSendNoShutdown(c) == "recv"
AfterSend(c) == IF program[c] = "Client1" THEN "recv" ELSE "shutdown"

(* send, or send_n: the bytes fit the socket's buffer.                     *)
Send(c) ==
    /\ cpc[c] = "send" /\ link[c] # "reset"
    /\ sent' = [sent EXCEPT ![c] = Length]
    /\ cpc' = [cpc EXCEPT ![c] = AfterSend(c)]
    /\ UNCHANGED <<server, serverVars, program, link, taken, finUp, down,
                   finDown, got, result>>

(* It fails: Client4 ends with E_FAIL, Client1 does not look.              *)
SendFails(c) ==
    /\ cpc[c] = "send" /\ link[c] = "reset"
    /\ \/ program[c] = "Client4" /\ ClientEnds(c, "failed")
       \/ /\ program[c] = "Client1"
          /\ cpc' = [cpc EXCEPT ![c] = AfterSend(c)]
          /\ UNCHANGED <<link, finUp, result>>
    /\ UNCHANGED <<server, serverVars, program, sent, taken, down, finDown, got>>

(* Client4's shutdown(SD_SEND).                                            *)
ShutDown(c) ==
    /\ cpc[c] = "shutdown"
    /\ \/ link[c] = "reset" /\ ClientEnds(c, "failed")
       \/ /\ link[c] # "reset"
          /\ finUp' = [finUp EXCEPT ![c] = TRUE]
          /\ cpc' = [cpc EXCEPT ![c] = "recv"]
          /\ UNCHANGED <<link, result>>
    /\ UNCHANGED <<server, serverVars, program, sent, taken, down, finDown, got>>

\* Client4 receives until the server ends; Client1 receives once.
AfterRecv(c) == IF program[c] = "Client1" THEN "close" ELSE "recv"

(* recv returns bytes: any number of those that are there.                 *)
Receive(c) ==
    /\ cpc[c] = "recv" /\ link[c] # "reset"
    /\ \E n \in 1..Len(down[c]) :
        /\ got' = [got EXCEPT ![c] = SubSeq(@ \o SubSeq(down[c], 1, n), 1,
                             Smaller(Len(@) + n, Length + 1))]
        /\ down' = [down EXCEPT ![c] = SubSeq(@, n + 1, Len(@))]
    /\ cpc' = [cpc EXCEPT ![c] = AfterRecv(c)]
    /\ UNCHANGED <<server, serverVars, program, link, sent, taken, finUp,
                   finDown, result>>

(* recv returns 0 or fails: neither client looks at which it was.          *)
ReceiveNothing(c) ==
    /\ cpc[c] = "recv"
    /\ link[c] = "reset" \/ (finDown[c] /\ down[c] = <<>>)
    /\ cpc' = [cpc EXCEPT ![c] = "close"]
    /\ UNCHANGED <<server, serverVars, program, netVars, got, result>>

CloseUnchecked(c) ==
    /\ cpc[c] = "close"
    /\ ClientEnds(c, "ok")
    /\ UNCHANGED <<server, serverVars, program, sent, taken, down, finDown, got>>

(* Client1 closes and returns 0.  Client4 shuts down again, which tells it *)
(* whether the connection still was good, and closes.                      *)
Close(c) ==
    /\ cpc[c] = "close"
    /\ ClientEnds(c, IF program[c] = "Client4" /\ link[c] = "reset"
                     THEN "failed" ELSE "ok")
    /\ UNCHANGED <<server, serverVars, program, sent, taken, down, finDown, got>>

-----------------------------------------------------------------------------
(* The world. *)

\* A client's process is ended from outside.
Killed(c) ==
    /\ cpc[c] \in {"send", "shutdown", "recv", "close"}
    /\ ClientEnds(c, "failed")
    /\ UNCHANGED <<server, serverVars, program, sent, taken, down, finDown, got>>

ConnectionLost(c) ==
    /\ link[c] \in {"waiting", "up"}
    /\ link' = [link EXCEPT ![c] = "reset"]
    /\ UNCHANGED <<server, serverVars, program, cpc, sent, taken, finUp, down,
                   finDown, got, result>>

\* Every client has ended; the server too, or it waits for another one.
Finished ==
    /\ \A c \in Clients : cpc[c] = "ended"
    /\ spc \in {"accept", "ended"}
    /\ UNCHANGED vars

ServerStep ==
    \/ Listen \/ AcceptFails
    \/ \E c \in Clients :
        \/ Accept(c) \/ ServerReceives(c) \/ ServerSeesEnd(c)
        \/ ServerRecvFails(c) \/ ServerSends(c) \/ ServerSendFails(c)
        \/ ServerShutsDown(c)

ClientStep(c) ==
    \/ Connect(c) \/ Send(c) \/ SendFails(c) \/ ShutDown(c) \/ Receive(c)
    \/ ReceiveNothing(c) \/ Close(c)

World(c) == Killed(c) \/ ConnectionLost(c)

Next ==
    \/ ServerStep
    \/ \E c \in Clients : ClientStep(c) \/ World(c)
    \/ Finished

Spec == Init /\ [][Next]_vars

(* Every process goes on when its call can return.                         *)
Fairness ==
    /\ WF_vars(ServerStep)
    /\ \A c \in Clients : WF_vars(ClientStep(c))

FairSpec == Spec /\ Fairness

-----------------------------------------------------------------------------
(* The type invariant: the calls each program makes, and the connections.  *)
TypeOK ==
    /\ server \in {"Server1", "Server2"}
    /\ spc \in {"listen", "accept", "recv", "send", "shutdown", "ended"}
    /\ serving \subseteq Clients
    /\ buffer \in Seq(0..Length) /\ buffer # <<>>
    /\ program \in [Clients -> Programs(server)]
    /\ cpc \in [Clients -> {"connect", "send", "shutdown", "recv", "close", "ended"}]
    /\ link \in [Clients -> {"none", "waiting", "up", "reset"}]
    /\ sent \in [Clients -> {0, Length}]
    /\ taken \in [Clients -> 0..Length]
    /\ \A c \in Clients : taken[c] <= sent[c]
    /\ finUp \in [Clients -> BOOLEAN] /\ finDown \in [Clients -> BOOLEAN]
    /\ down \in [Clients -> Seq(0..Length)]
    /\ got \in [Clients -> Seq(0..Length)]
    /\ result \in [Clients \cup {"server"} -> {"none", "ok", "failed"}]

\* What Server1 has received of c and not sent yet.
Held(c) == IF spc = "send" /\ c \in serving THEN buffer ELSE <<>>

(* Server1's loop (Server1-msdn/Program.cpp:224-257): however the stream   *)
(* is cut into recvs on either side, what the client has read, what is on  *)
(* its way and what the server holds are exactly the bytes received.       *)
EchoFaithful ==
    server = "Server1" /\ spc # "ended" =>
        \A c \in Clients : got[c] \o down[c] \o Held(c) = Run(1, taken[c])

(* Client4-msdn-client/Program.cpp:186-227: when Client4 returns 0 from a  *)
(* conversation with Server1, it has read its whole echo, although it      *)
(* counts nothing and takes a failed recv for an end.                      *)
SuccessIsComplete ==
    \A c \in Clients :
        server = "Server1" /\ program[c] = "Client4" /\ result[c] = "ok"
            => got[c] = Run(1, Length)

(* Every client ends, one that waits to be accepted by a server that only  *)
(* accepts once included.                                                  *)
ClientsEnd == \A c \in Clients : link[c] # "none" ~> cpc[c] = "ended"

(* description.html:184, "Any of the clients work with any of the          *)
(* servers": a conversation that has begun comes to its end on both sides. *)
ConversationEnds ==
    \A c \in Clients : c \in serving ~> spc = "ended" /\ cpc[c] = "ended"
=============================================================================
