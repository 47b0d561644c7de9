------------------------------ MODULE Datagrams ------------------------------
(***************************************************************************)
(* The UDP programs of one host: UdpReceiver1, which answers the first     *)
(* datagram that reaches its port, UdpSender1, which sends one and waits   *)
(* for the answer, and UdpSender-Broadcast, which sends one and ends.      *)
(* All senders bind the same port, so only one of them has it at a time,   *)
(* and an answer goes to whoever has it then.  UDP may lose, delay,        *)
(* reorder and duplicate datagrams.  A message is named by its sender; an  *)
(* answer is a message with the rest of the receiver's buffer behind it.   *)
(***************************************************************************)

CONSTANTS
    Senders,      \* bound: the UdpSender1 processes
    Broadcasters, \* bound: the UdpSender-Broadcast processes
    Leftovers,    \* bound: what the uninitialised rest of the receiver's
                  \* buffer may hold
    None          \* no process; no message; no answer

ASSUME KindsAssumption == Senders \cap Broadcasters = {}
ASSUME LeftoversAssumption == Leftovers # {}

Procs == Senders \cup Broadcasters

Answers == [text : Procs, rest : Leftovers]

ASSUME NoneAssumption == None \notin Procs \cup Answers

VARIABLES
    rpc,      \* UdpReceiver1: "bind", "recv", "send" or "ended"
    buffer,   \* the message it has received, or None
    pc,       \* per sender: "bind", "send", "recv", "close" or "ended"
    port,     \* the process that has the senders' port 27016, or None
    result,   \* per sender: what main returns: "none", "ok" or "failed"
    answer,   \* per sender: the answer it has received, or None
    messages, \* datagrams on their way to the receiver's port 27015
    answers   \* datagrams on their way to port 27016

vars == <<rpc, buffer, pc, port, result, answer, messages, answers>>

Init ==
    /\ rpc = "bind" /\ buffer = None
    /\ pc = [p \in Procs |-> "bind"]
    /\ port = None
    /\ result = [p \in Procs |-> "none"]
    /\ answer = [p \in Procs |-> None]
    /\ messages = {} /\ answers = {}

Goto(p, l) == pc' = [pc EXCEPT ![p] = l]

-----------------------------------------------------------------------------
(* UdpReceiver1's EchoDatagram. *)

\* The datagram socket's constructor: when it fails, so does recv, and the
\* program ends.
ReceiverBinds ==
    /\ rpc = "bind"
    /\ rpc' \in {"recv", "ended"}
    /\ UNCHANGED <<buffer, pc, port, result, answer, messages, answers>>

\* recv returns a datagram, which may arrive again later; or it fails, which
\* ends the program without an answer.
ReceiverReceives ==
    /\ rpc = "recv"
    /\ \/ \E m \in messages :
            /\ buffer' = m
            /\ rpc' = "send"
            /\ messages' \in {messages, messages \ {m}}
       \/ rpc' = "ended" /\ UNCHANGED <<buffer, messages>>
    /\ UNCHANGED <<pc, port, result, answer, answers>>

\* The answer it may send: the buffer in its whole size, where the message
\* is followed by whatever the stack held.
Answer(rest) == [text |-> buffer, rest |-> rest]

ReceiverAnswersAny ==
    /\ rpc \in {"recv", "send"}
    /\ rpc' = "ended"
    /\ \E rest \in Leftovers : answers' \in {answers \cup {Answer(rest)}, answers}
    /\ UNCHANGED <<buffer, pc, port, result, answer, messages>>
ReceiverAnswersAll ==
    /\ rpc = "send"
    /\ rpc' = "recv"
    /\ \E rest \in Leftovers : answers' \in {answers \cup {Answer(rest)}, answers}
    /\ UNCHANGED <<buffer, pc, port, result, answer, messages>>
\* It sends the buffer back, whatever comes of it, and ends.
ReceiverAnswers ==
    /\ rpc = "send"
    /\ rpc' = "ended"
    /\ \E rest \in Leftovers : answers' \in {answers \cup {Answer(rest)}, answers}
    /\ UNCHANGED <<buffer, pc, port, result, answer, messages>>

-----------------------------------------------------------------------------
(* UdpSender1's SendDatagram and UdpSender-Broadcast's SendBroadcast. *)

\* The socket's constructor.  It fails if another process has the port; the
\* program does not notice.
Bind(p) ==
    /\ pc[p] = "bind"
    /\ port' \in {port} \cup IF port = None THEN {p} ELSE {}
    /\ Goto(p, "send")
    /\ UNCHANGED <<rpc, buffer, result, answer, messages, answers>>

AfterSendWaits(p) == "recv"
\* What comes after send: only UdpSender1 waits for an answer.
AfterSend(p) == IF p \in Senders THEN "recv" ELSE "close"

\* send succeeds, and the datagram goes out or is lost; or it fails, which
\* is looked at only in the end.
Send(p) ==
    /\ pc[p] = "send"
    /\ \/ /\ port = p
          /\ messages' \in {messages \cup {p}, messages}
          /\ result' = [result EXCEPT ![p] = "ok"]
       \/ /\ result' = [result EXCEPT ![p] = "failed"]
          /\ UNCHANGED messages
    /\ Goto(p, AfterSend(p))
    /\ UNCHANGED <<rpc, buffer, port, answer, answers>>

\* recv returns an answer.
Receive(p) ==
    /\ pc[p] = "recv" /\ port = p
    /\ \E a \in answers :
        /\ answer' = [answer EXCEPT ![p] = a]
        /\ answers' \in {answers, answers \ {a}}
    /\ Goto(p, "close")
    /\ UNCHANGED <<rpc, buffer, port, result, messages>>

\* recv fails: always without a socket, and perhaps when the system reports
\* that the datagram reached no port.
ReceiveFails(p) ==
    /\ pc[p] = "recv"
    /\ Goto(p, "close")
    /\ UNCHANGED <<rpc, buffer, port, result, answer, messages, answers>>

Close(p) ==
    /\ pc[p] = "close"
    /\ port' = IF port = p THEN None ELSE port
    /\ Goto(p, "ended")
    /\ UNCHANGED <<rpc, buffer, result, answer, messages, answers>>

-----------------------------------------------------------------------------
LoseMessage(m) ==
    /\ m \in messages
    /\ messages' = messages \ {m}
    /\ UNCHANGED <<rpc, buffer, pc, port, result, answer, answers>>

LoseAnswer(a) ==
    /\ a \in answers
    /\ answers' = answers \ {a}
    /\ UNCHANGED <<rpc, buffer, pc, port, result, answer, messages>>

Receiver == ReceiverBinds \/ ReceiverReceives \/ ReceiverAnswers

Sender(p) == Bind(p) \/ Send(p) \/ Receive(p) \/ ReceiveFails(p) \/ Close(p)

Network == (\E m \in messages : LoseMessage(m)) \/ (\E a \in answers : LoseAnswer(a))

Next == Receiver \/ (\E p \in Procs : Sender(p)) \/ Network

Spec == Init /\ [][Next]_vars

(* Every process goes on when its call can return.  With a socket, recv    *)
(* need not fail.                                                          *)
Fairness ==
    /\ WF_vars(Receiver)
    /\ \A p \in Procs :
        /\ WF_vars(Bind(p) \/ Send(p) \/ Receive(p) \/ Close(p))
        /\ WF_vars(port # p /\ ReceiveFails(p))

FairSpec == Spec /\ Fairness

-----------------------------------------------------------------------------
(* The type invariant: the programs' places, sockets and datagrams.        *)
TypeOK ==
    /\ rpc \in {"bind", "recv", "send", "ended"}
    /\ buffer \in Procs \cup {None}
    /\ pc \in [Procs -> {"bind", "send", "recv", "close", "ended"}]
    /\ port \in Procs \cup {None}
    /\ result \in [Procs -> {"none", "ok", "failed"}]
    /\ answer \in [Procs -> Answers \cup {None}]
    /\ messages \subseteq Procs /\ answers \subseteq Answers

(* Whatever is duplicated, delayed or delivered to a later owner of the    *)
(* port, there is one answer: all copies, on their way or received, are    *)
(* the same bytes.  They begin with the one message UdpReceiver1 took      *)
(* (Program.cpp:38-43), and that was sent, by a sender whose send          *)
(* succeeded.  What follows the message is whatever the buffer held: it is *)
(* no plain echo (Program.cpp:42 sends size bytes, not received).          *)
OneAnswer ==
    /\ \A a, b \in (answers \cup {answer[p] : p \in Procs}) \ {None} :
            a = b /\ a.text = buffer
    /\ messages \cup {buffer} \subseteq {p \in Procs : result[p] = "ok"} \cup {None}
    /\ rpc = "send" => buffer # None

(* No sender waits without the port, and a port that was bound comes free: *)
(* with a broadcaster, which waits for nobody, whatever the receiver and   *)
(* the network do (UdpSender-Broadcast/Program.cpp:47-49); and with a      *)
(* sender, whose recv has no timeout (UdpSender1/Program.cpp:41), as soon  *)
(* as any answer is on its way to the port, be it another's or a late one, *)
(* and is not lost.                                                        *)
PortComesFree ==
    /\ \A p \in Procs : pc[p] # "bind" /\ port # p ~> pc[p] = "ended"
    /\ \A p \in Broadcasters : port = p ~> port # p
    /\ \A p \in Senders :
        port = p /\ answers # {} ~> port # p \/ answers = {}
=============================================================================
