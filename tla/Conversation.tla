---------------------------- MODULE Conversation ----------------------------
(***************************************************************************)
(* A whole conversation of Client5-ace with the ClientService of           *)
(* Server4-ace, over a connection that stays: ReactorClient.tla and        *)
(* ClientService.tla put together.  Each of them has any peer as its       *)
(* environment; here the peer of each is the other.                        *)
(*                                                                         *)
(* Server4's service has the callbacks of Server3's.  It is an             *)
(* ACE_Svc_Handler: putq, getq and ungetq are enqueue_tail, dequeue_head   *)
(* and enqueue_head of the inherited queue, super::open registers for      *)
(* READ, and super::handle_close deletes the object, whose destructor      *)
(* removes the registration, closes the socket and flushes the queue.      *)
(***************************************************************************)
EXTENDS ByteRuns

CONSTANTS
    MaxIterations,  \* Client.h: the tick that shuts the write side
    LineLength,     \* bytes of a line
    SendSpace,      \* bytes the connection holds on the way to the server
    MaxTicks,       \* bound: ticks of the client's timer
    MaxNotices,     \* bound: see ReactorClient.tla
    InputSize,      \* sizeof(buffer) in the service's handle_input
    HighWater,      \* high water mark of the service's queue
    ReplySpace      \* bytes the connection holds on the way to the client

ASSUME MaxIterationsAssumption == MaxIterations \in Nat \ {0}
ASSUME LineLengthAssumption == LineLength \in Nat \ {0}
ASSUME SendSpaceAssumption == SendSpace \in Nat \ {0}
ASSUME MaxTicksAssumption == MaxTicks \in Nat
ASSUME MaxNoticesAssumption == MaxNotices \in Nat
ASSUME InputSizeAssumption == InputSize \in Nat \ {0}
ASSUME HighWaterAssumption == HighWater \in Nat \ {0}
ASSUME ReplySpaceAssumption == ReplySpace \in Nat \ {0}

VARIABLES
    \* the client (ReactorClient.tla)
    loop, m_numIterations, timer, produced, queue, notices, watch, clientPc,
    writer, out, logged,
    \* the service (ClientService.tla)
    life, mask, received, fresh, m_queue, servicePc, dropped, leaked, echo

clientVars == <<loop, m_numIterations, timer, produced, queue, notices, watch,
                clientPc, writer, out, logged>>
serviceVars == <<life, mask, received, fresh, m_queue, servicePc, dropped,
                 leaked, echo>>
vars == <<clientVars, serviceVars>>

\* All the client ever sends.
Total == (MaxIterations - 1) * LineLength

(* What each of them sees of the other.                                    *)
ServerSide == IF life = "deleted" THEN "closed" ELSE "open"
ClientSide ==
    IF loop = "ended" THEN "gone" ELSE IF writer = "shut" THEN "half" ELSE "open"

Client == INSTANCE ReactorClient
    WITH pc <- clientPc, arrived <- received, echoed <- Len(echo),
         server <- ServerSide

Service == INSTANCE ClientService
    WITH pc <- servicePc, written <- Len(out), taken <- logged,
         peer <- ClientSide, SendSpace <- ReplySpace, MaxBytes <- Total

\* (The client's side of the connection first: the service's Init is about it.)
Init ==
    /\ loop = "start" /\ writer = "open" /\ out = <<>> /\ logged = 0
    /\ Service!Init
    /\ Client!Init

-----------------------------------------------------------------------------
(* Steps of the client. *)

main == UNCHANGED serviceVars /\ Client!open

handle_timeout == UNCHANGED serviceVars /\ Client!Timeout

ClientOutput == UNCHANGED serviceVars /\ (Client!StartOutput \/ Client!Output)

ClientInput == UNCHANGED serviceVars /\ (Client!LogInput \/ Client!EndOfInput)

(* Steps of the service. *)

\* ... and ACE_Acceptor's call of close() when it fails.
open == UNCHANGED clientVars /\ Service!open

handle_input ==
    /\ UNCHANGED clientVars
    /\ \/ Service!Receive \/ Service!EndOfInput
       \/ Service!ReplyAtOnce \/ Service!ReplyLater

handle_output ==
    /\ UNCHANGED clientVars
    /\ \/ Service!StartOutput \/ Service!OutputLast
       \/ Service!OutputWhole \/ Service!OutputPart

-----------------------------------------------------------------------------
\* The client waits for a line that it cannot send any more: it has shut its
\* write side, or the service has gone.
Stuck == queue # <<>> /\ (writer = "shut" \/ life = "deleted")

\* The timer was cancelled when a line could not be allocated: nobody will
\* shut the write side.
TimerCancelled == loop = "run" /\ ~ timer /\ writer = "open"

\* Both have ended; or the client waits for a timer that never comes.
Finished ==
    /\ \/ loop = "ended" /\ life = "deleted"
       \/ TimerCancelled
    /\ UNCHANGED vars

Next ==
    \/ main \/ handle_timeout \/ ClientOutput \/ ClientInput
    \/ open \/ handle_input \/ handle_output
    \/ Finished

Spec == Init /\ [][Next]_vars

(* The fairness of the two components.  Besides, the timer comes when the  *)
(* client's reactor is not busy with notifications for ever.               *)
Fairness ==
    /\ WF_vars(main)
    /\ WF_vars(handle_timeout)
    /\ WF_vars(ClientOutput /\ clientPc = "output")
    /\ WF_vars((ClientOutput /\ clientPc = "reactor") \/ ClientInput)
    /\ WF_vars(open)
    /\ WF_vars(handle_input /\ servicePc = "input")
    /\ WF_vars(handle_output /\ servicePc = "output")
    /\ SF_vars(handle_input /\ servicePc = "reactor")
    /\ SF_vars(handle_output /\ servicePc = "reactor")

FairSpec == Spec /\ Fairness

-----------------------------------------------------------------------------
(* The service is a server as ReactorClient.tla assumes one of Client5:    *)
(* so what is shown of the client there holds in this conversation.        *)
ImplementsReactorClient == Client!Spec

(* Client5 is a client as ClientService.tla assumes one of the service     *)
(* (Client.cpp:54 and Server4-ace's ClientService.cpp talk to each other), *)
(* so what is shown of the service there holds in this conversation.       *)
ImplementsClientService == Service!Spec

(* Client.cpp:54, "Our server example will simply echo back whatever it    *)
(* receives": a client that ends after its FIN, all it sent having been    *)
(* received, has logged exactly that, if the service gave nothing up and   *)
(* lost nothing, and in any case if the way back holds it all.             *)
WholeEcho ==
    /\ loop = "ended" /\ writer = "shut" /\ received = Len(out)
    /\ dropped \cup leaked = {} \/ Len(out) <= ReplySpace
    => echo = out /\ logged = Len(out)

(* End to end: what Client5 can read (Client.cpp:99) is made of bytes that *)
(* it sent, and of none of them twice, whatever the two programs have      *)
(* queued, given up or lost on the way.                                    *)
ReadsItsOwn == IsInjective(echo) /\ Range(echo) \subseteq Range(out)

(* Client.cpp:135-138: the client shuts its write side, the server sees    *)
(* that and closes, and the client ends by a 0-byte receive.  So both end, *)
(* unless a line could not be allocated (Client.cpp:157), or a line is     *)
(* left that cannot be sent.                                               *)
ConversationEnds ==
    \/ <>[](loop = "ended" /\ life = "deleted")
    \/ <>[](TimerCancelled \/ Stuck)
=============================================================================
