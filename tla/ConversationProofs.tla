-------------------------- MODULE ConversationProofs --------------------------
(***************************************************************************)
(* Proofs about Conversation.tla.  The client and the service are each     *)
(* proved about with any peer; here each is shown to be a peer the other   *)
(* assumes, by one induction over both: a step of one of them is a step of *)
(* its own specification, and the invariants of both make it a step, or a  *)
(* stutter, of the other's environment.                                    *)
(***************************************************************************)
EXTENDS Conversation, ByteRunsProofs, FiniteSetTheorems

(* The components with what is proved of them. *)
C == INSTANCE ReactorClientProofs
    WITH pc <- clientPc, arrived <- received, echoed <- Len(echo),
         server <- ServerSide

S == INSTANCE ClientServiceProofs
    WITH pc <- servicePc, written <- Len(out), taken <- logged,
         peer <- ClientSide, SendSpace <- ReplySpace, MaxBytes <- Total

LEMMA Constants ==
    /\ MaxIterations \in Nat \ {0} /\ LineLength \in Nat \ {0}
    /\ SendSpace \in Nat \ {0} /\ MaxTicks \in Nat /\ MaxNotices \in Nat
    /\ InputSize \in Nat \ {0} /\ HighWater \in Nat \ {0}
    /\ ReplySpace \in Nat \ {0} /\ Total \in Nat
  BY MaxIterationsAssumption, LineLengthAssumption, SendSpaceAssumption,
     MaxTicksAssumption, MaxNoticesAssumption, InputSizeAssumption,
     HighWaterAssumption, ReplySpaceAssumption DEF Total

-----------------------------------------------------------------------------
(* C and S are the components of Conversation.tla.                         *)

LEMMA SameClient ==
    /\ C!Init = Client!Init /\ C!vars = Client!vars
    /\ C!Next = Client!Next
    /\ C!open = Client!open /\ C!Timeout = Client!Timeout
    /\ C!StartOutput = Client!StartOutput /\ C!Output = Client!Output
    /\ C!LogInput = Client!LogInput /\ C!EndOfInput = Client!EndOfInput
<1> USE DEF C!Length, Client!Length, C!Advance, Client!Advance, C!InFlight,
            Client!InFlight, C!Sent, Client!Sent, C!Smaller, Client!Smaller, C!Run,
            Client!Run, C!Ready, Client!Ready, C!Tick, Client!Tick, C!LastTick,
            Client!LastTick, C!Notified, Client!Notified, C!WatchForWrite,
            Client!WatchForWrite, C!ServerGone, Client!ServerGone, C!serverVars,
            Client!serverVars, C!clientVars, Client!clientVars, C!vars, Client!vars
<1>1. C!Init = Client!Init /\ C!vars = Client!vars
  BY DEF C!Init, Client!Init
<1>2. C!open = Client!open
  BY DEF C!open, Client!open
<1>3. C!Timeout = Client!Timeout
  BY DEF C!Timeout, Client!Timeout, C!CloseWriter, Client!CloseWriter, C!PutLine,
         Client!PutLine, C!TimerLost, Client!TimerLost
<1>4. C!StartOutput = Client!StartOutput
  BY DEF C!StartOutput, Client!StartOutput
<1>5. C!OutputEmpty = Client!OutputEmpty
  BY DEF C!OutputEmpty, Client!OutputEmpty
<1>6. C!OutputWhole = Client!OutputWhole
  BY DEF C!OutputWhole, Client!OutputWhole
<1>7. C!OutputPart = Client!OutputPart
  BY DEF C!OutputPart, Client!OutputPart
<1>8. C!Output = Client!Output
  BY <1>5, <1>6, <1>7, Zenon DEF C!Output, Client!Output
<1>9. C!LogInput = Client!LogInput
  BY DEF C!LogInput, Client!LogInput
<1>10. C!EndOfInput = Client!EndOfInput
  BY DEF C!EndOfInput, Client!EndOfInput
<1>11. C!Server = Client!Server
  BY DEF C!Server, Client!Server, C!ServerRead, Client!ServerRead, C!ServerEcho,
         Client!ServerEcho, C!ServerClose, Client!ServerClose
<1>12. C!Finished = Client!Finished
  BY DEF C!Finished, Client!Finished
<1>13. C!Next = Client!Next
  BY <1>2, <1>3, <1>4, <1>8, <1>9, <1>10, <1>11, <1>12, Zenon
     DEF C!Next, Client!Next, C!Reactor, Client!Reactor
<1> QED
  BY <1>1, <1>2, <1>3, <1>4, <1>8, <1>9, <1>10, <1>13, Zenon

LEMMA SameService ==
    /\ S!Init = Service!Init /\ S!vars = Service!vars
    /\ S!Next = Service!Next
    /\ S!open = Service!open /\ S!Receive = Service!Receive
    /\ S!EndOfInput = Service!EndOfInput
    /\ S!ReplyAtOnce = Service!ReplyAtOnce /\ S!ReplyLater = Service!ReplyLater
    /\ S!StartOutput = Service!StartOutput /\ S!OutputLast = Service!OutputLast
    /\ S!OutputWhole = Service!OutputWhole /\ S!OutputPart = Service!OutputPart
<1> USE DEF S!BytesIn, Service!BytesIn, S!Length, Service!Length, S!Queued,
            Service!Queued, S!Settled, Service!Settled, S!Fresh, Service!Fresh,
            S!Advance, Service!Advance, S!InFlight, Service!InFlight, S!Sent,
            Service!Sent, S!Smaller, Service!Smaller, S!Run, Service!Run,
            S!enqueue_head, Service!enqueue_head, S!handle_close,
            Service!handle_close, S!AtEnd, Service!AtEnd, S!Reply, Service!Reply,
            S!Remainder, Service!Remainder, S!WatchFor, Service!WatchFor,
            S!clientVars, Service!clientVars, S!vars, Service!vars
<1>1. S!Init = Service!Init /\ S!vars = Service!vars
  BY DEF S!Init, Service!Init
<1>2. ASSUME NEW q PROVE S!cur_bytes(q) = Service!cur_bytes(q)
  BY Zenon DEF S!cur_bytes, Service!cur_bytes, S!Allocated, Service!Allocated,
               S!Cardinality, Service!Cardinality
<1>3. \A q : S!is_full(q) <=> Service!is_full(q)
  BY <1>2, Zenon DEF S!is_full, Service!is_full
<1>4. S!open = Service!open
  BY DEF S!open, Service!open
<1>5. S!Receive = Service!Receive
  BY DEF S!Receive, Service!Receive
<1>6. S!EndOfInput = Service!EndOfInput
  BY DEF S!EndOfInput, Service!EndOfInput
<1>7. S!ReplyAtOnce = Service!ReplyAtOnce
  BY DEF S!ReplyAtOnce, Service!ReplyAtOnce
<1>8. S!ReplyLater = Service!ReplyLater
  BY <1>3 DEF S!ReplyLater, Service!ReplyLater
<1>9. S!StartOutput = Service!StartOutput
  BY DEF S!StartOutput, Service!StartOutput
<1>10. S!OutputLast = Service!OutputLast
  BY DEF S!OutputLast, Service!OutputLast
<1>11. S!OutputWhole = Service!OutputWhole
  BY DEF S!OutputWhole, Service!OutputWhole
<1>12. S!OutputPart = Service!OutputPart
  BY <1>3 DEF S!OutputPart, Service!OutputPart
<1>13. S!Client = Service!Client
  BY DEF S!Client, Service!Client, S!ClientWrite, Service!ClientWrite, S!ClientRead,
         Service!ClientRead, S!ClientHalfClose, Service!ClientHalfClose,
         S!ClientGone, Service!ClientGone
<1>14. S!Finished = Service!Finished
  BY DEF S!Finished, Service!Finished
<1>15. S!Next = Service!Next
  BY <1>4, <1>5, <1>6, <1>7, <1>8, <1>9, <1>10, <1>11, <1>12, <1>13, <1>14, Zenon
     DEF S!Next, Service!Next, S!Service, Service!Service
<1> QED
  BY <1>1, <1>4, <1>5, <1>6, <1>7, <1>8, <1>9, <1>10, <1>11, <1>12, <1>15, Zenon
-----------------------------------------------------------------------------
(* A step of one is a step, or nothing, in the environment of the other.   *)

LEMMA ClientSteps ==
    main \/ handle_timeout \/ ClientOutput \/ ClientInput
        => UNCHANGED serviceVars /\ C!Reactor
  BY SameClient, Zenon
     DEF main, handle_timeout, ClientOutput, ClientInput, C!Reactor

LEMMA ServiceSteps ==
    open \/ handle_input \/ handle_output
        => UNCHANGED clientVars /\ S!Service
  BY SameService, Zenon DEF open, handle_input, handle_output, S!Service

\* The client sends no more than its lines.
SentBounded == Len(out) \in Nat /\ Len(out) <= Total

LEMMA SendsItsLines == C!IInv /\ C!WithinLines => SentBounded
  BY Constants, C!SentWithinLines DEF SentBounded, Total

\* The service sends back no more than it received.
EchoBounded == Len(echo) \in Nat /\ Len(echo) <= received

LEMMA EchoesNoMore == S!IInv => EchoBounded
  BY Constants, S!EchoLength DEF EchoBounded

(* What the client does is what the service assumes of a client. *)
LEMMA ClientMoves ==
    ASSUME C!IInv, C!WithinLines, SentBounded', C!Reactor, UNCHANGED serviceVars
    PROVE  [S!Next]_(S!vars)
<1>1. /\ loop # "ended"
      /\ Len(out') \in Nat /\ Len(out) \in Nat /\ Len(out') >= Len(out)
      /\ Len(out') # Len(out) => writer = "open" /\ loop = "run"
      /\ \/ UNCHANGED <<loop, writer, logged>>
         \/ Len(out') = Len(out) /\ logged < Len(echo) /\ logged' = Len(echo)
            /\ UNCHANGED <<loop, writer>>
         \/ Len(out') = Len(out) /\ loop = "run" /\ writer' = "shut"
            /\ UNCHANGED <<loop, logged>>
         \/ Len(out') = Len(out) /\ UNCHANGED <<writer, logged>>
            /\ \/ loop = "start" /\ loop' = "run"
               \/ loop' = "ended"
  BY Constants, C!ReactorEffect
<1>2. /\ writer \in {"open", "shut"}
      /\ logged \in Int /\ Len(echo) \in Int
  BY DEF C!IInv, C!TypeOK
<1>3. /\ UNCHANGED <<echo, life, mask, received, fresh, m_queue, servicePc, dropped,
                     leaked>>
      /\ Len(echo') = Len(echo)
  BY DEF serviceVars
<1>4. CASE Len(out') # Len(out)
  <2>1. ClientSide = "open" /\ UNCHANGED <<ClientSide, logged>>
    BY <1>1, <1>4 DEF ClientSide
  <2>2. Len(out') \in Len(out) + 1 .. Total
    BY <1>1, <1>4, Constants DEF SentBounded
  <2>3. S!ClientWrite
    BY <1>3, <2>1, <2>2 DEF S!ClientWrite
  <2> QED
    BY <2>3 DEF S!Next, S!Client
<1>5. CASE Len(out') = Len(out) /\ logged < Len(echo) /\ logged' = Len(echo)
           /\ UNCHANGED <<loop, writer>>
  <2>1. ClientSide # "gone" /\ UNCHANGED ClientSide
    BY <1>1, <1>5 DEF ClientSide
  <2>2. logged' \in logged + 1 .. Len(echo)
    BY <1>2, <1>5
  <2>3. S!ClientRead
    BY <1>3, <1>5, <2>1, <2>2 DEF S!ClientRead
  <2> QED
    BY <2>3 DEF S!Next, S!Client
<1>6. CASE Len(out') = Len(out) /\ loop = "run" /\ writer' = "shut"
           /\ UNCHANGED <<loop, logged>>
  <2>1. CASE writer = "open"
    <3>1. ClientSide = "open" /\ ClientSide' = "half"
      BY <1>6, <2>1 DEF ClientSide
    <3>2. S!ClientHalfClose
      BY <1>3, <1>6, <3>1 DEF S!ClientHalfClose
    <3> QED
      BY <3>2 DEF S!Next, S!Client
  <2>2. CASE writer = "shut"
    <3>1. UNCHANGED ClientSide
      BY <1>6, <2>2 DEF ClientSide
    <3> QED
      BY <1>3, <1>6, <3>1 DEF S!vars
  <2> QED
    BY <1>2, <2>1, <2>2
<1>7. CASE Len(out') = Len(out) /\ UNCHANGED <<writer, logged>>
           /\ loop = "start" /\ loop' = "run"
  <2>1. UNCHANGED ClientSide
    BY <1>7 DEF ClientSide
  <2> QED
    BY <1>3, <1>7, <2>1 DEF S!vars
<1>8. CASE Len(out') = Len(out) /\ UNCHANGED <<writer, logged>> /\ loop' = "ended"
  <2>1. ClientSide # "gone" /\ ClientSide' = "gone"
    BY <1>1, <1>8 DEF ClientSide
  <2>2. S!ClientGone
    BY <1>3, <1>8, <2>1 DEF S!ClientGone
  <2> QED
    BY <2>2 DEF S!Next, S!Client
<1>9. CASE Len(out') = Len(out) /\ UNCHANGED <<loop, writer, logged>>
  <2>1. UNCHANGED ClientSide
    BY <1>9 DEF ClientSide
  <2> QED
    BY <1>3, <1>9, <2>1 DEF S!vars
<1> QED
  BY <1>1, <1>4, <1>5, <1>6, <1>7, <1>8, <1>9

(* What the service does is what the client assumes of a server. *)
LEMMA ServiceMoves ==
    ASSUME S!IInv, EchoBounded', S!Service, UNCHANGED clientVars
    PROVE  [C!Next]_(C!vars)
<1>1. /\ life # "deleted"
      /\ Len(echo') \in Nat /\ Len(echo) \in Nat /\ Len(echo') >= Len(echo)
      /\ received' # received =>
           /\ received' \in received + 1 .. Len(out)
           /\ UNCHANGED <<echo, life>>
  BY Constants, S!ServiceEffect
<1>2. UNCHANGED <<loop, m_numIterations, timer, produced, queue, notices, watch,
                  clientPc, writer, out, logged>>
  BY DEF clientVars
<1>3. UNCHANGED C!clientVars
  BY <1>2 DEF C!clientVars
<1>4. received \in Int
  BY Constants, S!Numbers DEF S!IInv
<1>5. ServerSide = "open" /\ ServerSide' \in {"open", "closed"}
  BY <1>1 DEF ServerSide
<1>6. CASE received' # received
  <2>1. ServerSide' = "open" /\ Len(echo') = Len(echo)
    BY <1>1, <1>6 DEF ServerSide
  <2>2. C!ServerRead
    BY <1>1, <1>3, <1>5, <1>6, <2>1 DEF C!ServerRead
  <2> QED
    BY <2>2 DEF C!Next, C!Server
<1>7. CASE received' = received /\ Len(echo') # Len(echo)
  <2>1. Len(echo') \in Len(echo) + 1 .. received
    BY <1>1, <1>4, <1>7 DEF EchoBounded
  <2>2. C!ServerEcho
    BY <1>3, <1>5, <1>7, <2>1 DEF C!ServerEcho
  <2> QED
    BY <2>2 DEF C!Next, C!Server
<1>8. CASE received' = received /\ Len(echo') = Len(echo)
  <2>1. CASE ServerSide' = "closed"
    <3>1. C!ServerClose
      BY <1>3, <1>5, <1>8, <2>1 DEF C!ServerClose
    <3> QED
      BY <3>1 DEF C!Next, C!Server
  <2>2. CASE ServerSide' = "open"
    BY <1>2, <1>5, <1>8, <2>2 DEF C!vars
  <2> QED
    BY <1>5, <2>1, <2>2
<1> QED
  BY <1>6, <1>7, <1>8
-----------------------------------------------------------------------------
(* The invariant of the conversation: those of the two, and what an end    *)
(* after the client's FIN means.  By then the service has read all it was  *)
(* going to read and is deleted, and when the way back is wide it has sent *)
(* that before.                                                            *)
EndInv ==
    loop = "ended" /\ writer = "shut" =>
        /\ life = "deleted"
        /\ received = Len(out) => logged = Len(echo)
        /\ Len(out) <= ReplySpace => echo = Run(1, received)

OpenAtStart == loop = "start" => writer = "open"

Inv ==
    /\ C!IInv /\ C!WithinLines
    /\ S!IInv /\ S!WideInv /\ S!NothingLostInv
    /\ EndInv /\ OpenAtStart

LEMMA InitInv == Init => Inv
<1> SUFFICES ASSUME Init PROVE Inv
  OBVIOUS
<1>1. C!Init /\ S!Init
  BY SameClient, SameService DEF Init
<1>2. C!IInv /\ C!WithinLines
  BY <1>1, Constants, C!InitInv, C!InitWithinLines
<1>3. S!IInv
  BY <1>1, Constants, S!InitIInv
<1>4. S!WideInv /\ S!NothingLostInv
  BY <1>1, Constants, S!InitWide, S!InitNothingLost
<1>5. EndInv /\ OpenAtStart
  BY DEF Init, EndInv, OpenAtStart
<1> QED
  BY <1>2, <1>3, <1>4, <1>5 DEF Inv

(* The client ends after its FIN: the service has closed before. *)
LEMMA EndStep ==
    ASSUME Inv, C!EndOfInput, UNCHANGED serviceVars, writer' = "shut"
    PROVE  EndInv'
<1>1. /\ ServerSide = "closed" /\ loop = "run"
      /\ logged = Len(echo) \/ received < Len(out)
      /\ UNCHANGED <<writer, out, logged>>
  BY DEF C!EndOfInput, C!ServerGone, C!Ready
<1>2. life = "deleted" /\ ClientSide = "half"
  BY <1>1 DEF ServerSide, ClientSide
<1>3. received \in Nat /\ Len(out) \in Nat /\ Len(echo) \in Nat
      /\ fresh \in Nat
  BY Constants, S!Numbers DEF Inv, S!IInv
<1>4. S!Settled = received
  <2>1. servicePc # "input" /\ fresh = 0
    BY <1>2 DEF Inv, S!IInv, S!RegisteredWhileOpen
  <2> QED
    BY <1>3, <2>1 DEF S!Settled
<1>5. Len(out) <= ReplySpace => echo = Run(1, received)
  BY <1>2, <1>4 DEF Inv, S!WideInv, S!Run, Run
<1>6. received = Len(out) => logged = Len(echo)
  BY <1>1, <1>3
<1>7. UNCHANGED <<life, received, echo>> /\ Len(echo') = Len(echo)
      /\ Run(1, received)' = Run(1, received)
  BY DEF serviceVars, Run
<1> QED
  BY <1>1, <1>2, <1>5, <1>6, <1>7 DEF EndInv

LEMMA EndInductive ==
    ASSUME Inv, [Next]_vars
    PROVE  EndInv' /\ OpenAtStart'
<1>1. CASE main \/ handle_timeout \/ ClientOutput \/ ClientInput
  <2>1. C!Reactor /\ UNCHANGED serviceVars
    BY <1>1, ClientSteps
  <2>2. /\ loop # "ended"
        /\ \/ UNCHANGED <<loop, writer>>
           \/ loop = "run" /\ writer' = "shut" /\ UNCHANGED loop
           \/ /\ UNCHANGED writer
              /\ \/ loop = "start" /\ loop' = "run"
                 \/ loop = "start" /\ loop' = "ended"
                 \/ C!EndOfInput /\ loop' = "ended"
    BY <2>1, Constants, C!ReactorEffect DEF Inv
  <2>3. OpenAtStart'
    BY <2>2 DEF Inv, OpenAtStart
  <2>4. EndInv'
    <3>1. CASE C!EndOfInput /\ writer' = "shut"
      BY <2>1, <3>1, EndStep
    <3>2. CASE ~ (loop' = "ended" /\ writer' = "shut")
      BY <3>2 DEF EndInv
    <3> QED
      BY <2>2, <3>1, <3>2 DEF Inv, OpenAtStart
  <2> QED
    BY <2>3, <2>4
<1>2. CASE open \/ handle_input \/ handle_output
  <2>1. S!Service /\ UNCHANGED clientVars
    BY <1>2, ServiceSteps
  <2>2. life # "deleted"
    BY <2>1, Constants, S!ServiceEffect DEF Inv
  <2>3. UNCHANGED <<loop, writer>>
    BY <2>1 DEF clientVars
  <2> QED
    BY <2>2, <2>3 DEF Inv, EndInv, OpenAtStart
<1>3. CASE UNCHANGED vars
  <2>1. UNCHANGED <<loop, writer, life, received, out, logged, echo>>
    BY <1>3 DEF vars, clientVars, serviceVars
  <2> QED
    BY <2>1 DEF Inv, EndInv, OpenAtStart, Run
<1> QED
  BY <1>1, <1>2, <1>3 DEF Next, Finished

(* A step of the conversation is one of each component. *)
LEMMA ClientStep ==
    ASSUME Inv, main \/ handle_timeout \/ ClientOutput \/ ClientInput
    PROVE  [C!Next]_(C!vars) /\ [S!Next]_(S!vars)
<1>1. C!Reactor /\ UNCHANGED serviceVars
  BY ClientSteps
<1>2. C!Next
  BY <1>1 DEF C!Next
<1>3. (C!IInv)' /\ (C!WithinLines)'
  BY <1>2, Constants, C!Inductive, C!WithinLinesInductive DEF Inv
<1>4. SentBounded'
  <2>1. (C!IInv /\ C!WithinLines => SentBounded)'
    BY SendsItsLines, PTL
  <2> QED
    BY <1>3, <2>1
<1>5. [S!Next]_(S!vars)
  BY <1>1, <1>4, ClientMoves DEF Inv
<1> QED
  BY <1>2, <1>5

LEMMA ServiceStep ==
    ASSUME Inv, open \/ handle_input \/ handle_output
    PROVE  [C!Next]_(C!vars) /\ [S!Next]_(S!vars)
<1>1. S!Service /\ UNCHANGED clientVars
  BY ServiceSteps
<1>2. S!Next
  BY <1>1 DEF S!Next
<1>3. (S!IInv)'
  BY <1>2, Constants, S!Inductive DEF Inv
<1>4. EchoBounded'
  <2>1. (S!IInv => EchoBounded)'
    BY EchoesNoMore, PTL
  <2> QED
    BY <1>3, <2>1
<1>5. [C!Next]_(C!vars)
  BY <1>1, <1>4, ServiceMoves DEF Inv
<1> QED
  BY <1>2, <1>5

LEMMA BothStep ==
    ASSUME Inv, [Next]_vars
    PROVE  [C!Next]_(C!vars) /\ [S!Next]_(S!vars)
<1>1. CASE UNCHANGED vars
  BY <1>1 DEF vars, clientVars, serviceVars, C!vars, S!vars, ClientSide, ServerSide
<1> QED
  BY <1>1, ClientStep, ServiceStep DEF Next, Finished

LEMMA Inductive == Inv /\ [Next]_vars => Inv'
<1> SUFFICES ASSUME Inv, [Next]_vars PROVE Inv'
  OBVIOUS
<1>1. [C!Next]_(C!vars) /\ [S!Next]_(S!vars)
  BY BothStep
<1>2. (C!IInv)' /\ (C!WithinLines)'
  BY <1>1, Constants, C!Inductive, C!WithinLinesInductive DEF Inv
<1>3. (S!IInv)' /\ (S!WideInv)' /\ (S!NothingLostInv)'
  BY <1>1, Constants, S!Inductive, S!WideInductive, S!NothingLostInductive DEF Inv
<1> QED
  BY <1>2, <1>3, EndInductive DEF Inv

THEOREM Invariance == Spec => []Inv
<1> QED
  BY InitInv, Inductive, PTL DEF Spec

-----------------------------------------------------------------------------
(* The service is a server as the client's specification assumes one: a    *)
(* conversation is a behaviour of ReactorClient.                           *)
THEOREM ClientRefined == Spec => ImplementsReactorClient
<1>1. Init => Client!Init
  BY DEF Init
<1>2. Inv /\ [Next]_vars => [Client!Next]_(Client!vars)
  <2> SUFFICES ASSUME Inv, [Next]_vars PROVE [Client!Next]_(Client!vars)
    OBVIOUS
  <2>1. C!Next \/ UNCHANGED C!vars
    BY BothStep
  <2>2. UNCHANGED C!vars => UNCHANGED Client!vars
    BY DEF C!vars, Client!vars
  <2> QED
    BY <2>1, <2>2, SameClient, Zenon
<1> QED
  BY <1>1, <1>2, Invariance, PTL DEF Spec, ImplementsReactorClient, Client!Spec

(* The client is one as the service's specification assumes one: a         *)
(* conversation is a behaviour of ClientService.                           *)
THEOREM ServiceRefined == Spec => ImplementsClientService
<1>1. Init => Service!Init
  BY DEF Init
<1>2. Inv /\ [Next]_vars => [Service!Next]_(Service!vars)
  <2> SUFFICES ASSUME Inv, [Next]_vars PROVE [Service!Next]_(Service!vars)
    OBVIOUS
  <2>1. S!Next \/ UNCHANGED S!vars
    BY BothStep
  <2>2. UNCHANGED S!vars => UNCHANGED Service!vars
    BY DEF S!vars, Service!vars
  <2> QED
    BY <2>1, <2>2, SameService, Zenon
<1> QED
  BY <1>1, <1>2, Invariance, PTL DEF Spec, ImplementsClientService, Service!Spec

(* A client that ends after its FIN has logged the echo of all it sent,    *)
(* when all was received and the service lost nothing, or when the way     *)
(* back is wide.                                                           *)
THEOREM EchoedWhole == Spec => []WholeEcho
<1>1. Inv => WholeEcho
  <2> SUFFICES ASSUME Inv, loop = "ended", writer = "shut", received = Len(out),
                      dropped \cup leaked = {} \/ Len(out) <= ReplySpace
               PROVE  echo = out /\ logged = Len(out)
    BY DEF WholeEcho
  <2>1. /\ life = "deleted" /\ logged = Len(echo)
        /\ Len(out) <= ReplySpace => echo = Run(1, received)
    BY DEF Inv, EndInv
  <2>2. out = Run(1, Len(out))
    BY DEF Inv, C!IInv, C!StreamIntact, C!Run, Run
  <2>3. echo = Run(1, received)
    <3>1. CASE dropped \cup leaked = {}
      <4>1. mask = {} /\ fresh = 0
        BY <2>1 DEF Inv, S!IInv, S!RegisteredWhileOpen
      <4>2. m_queue = <<>>
        BY <4>1 DEF Inv, S!IInv, S!WriteArmedIffBacklog
      <4>3. S!Settled = received
        <5>1. received \in Nat
          BY Constants, S!Numbers DEF Inv, S!IInv
        <5> QED
          BY <4>1, <5>1 DEF S!Settled
      <4> QED
        BY <3>1, <4>2, <4>3 DEF Inv, S!NothingLostInv, S!Run, Run
    <3> QED
      BY <2>1, <3>1
  <2> QED
    BY <2>1, <2>2, <2>3
<1> QED
  BY <1>1, Invariance, PTL

-----------------------------------------------------------------------------
(* What was proved of each component with any peer holds while they talk   *)
(* to each other.                                                          *)

(* No line of Client5 is lost, reordered or left without a wake-up         *)
(* (Client.cpp:86, 168); and of the bytes that Server4's service has read  *)
(* every one is in one place, none is sent twice, WRITE is watched exactly *)
(* while there is a backlog, and the backlog is bounded                    *)
(* (Server4-ace/ClientService.cpp:71, 108).                                *)
ComponentsHold ==
    /\ Client!StreamIntact /\ Client!WakeupMatchesQueue
    /\ Service!EveryByteAccounted /\ Service!WriteArmedIffBacklog
    /\ Service!QueueBounded

LEMMA SamePromises ==
    /\ C!StreamIntact => Client!StreamIntact
    /\ C!WakeupMatchesQueue => Client!WakeupMatchesQueue
    /\ S!EveryByteAccounted => Service!EveryByteAccounted
    /\ S!WriteArmedIffBacklog => Service!WriteArmedIffBacklog
    /\ S!QueueBounded => Service!QueueBounded
<1>1. C!StreamIntact => Client!StreamIntact
  BY Zenon DEF C!StreamIntact, Client!StreamIntact, C!Run, Client!Run,
               C!Gapless, Client!Gapless
<1>2. C!WakeupMatchesQueue => Client!WakeupMatchesQueue
  BY Zenon DEF C!WakeupMatchesQueue, Client!WakeupMatchesQueue
<1>3. S!EveryByteAccounted => Service!EveryByteAccounted
  BY Zenon DEF S!EveryByteAccounted, Service!EveryByteAccounted, S!Pending,
               Service!Pending, S!Queued, Service!Queued, S!BytesIn,
               Service!BytesIn, S!Fresh, Service!Fresh, S!Settled,
               Service!Settled, S!Range, Service!Range, S!IsInjective,
               Service!IsInjective
<1>4. S!WriteArmedIffBacklog => Service!WriteArmedIffBacklog
  BY Zenon DEF S!WriteArmedIffBacklog, Service!WriteArmedIffBacklog
<1>5. S!QueueBounded => Service!QueueBounded
  BY Zenon DEF S!QueueBounded, Service!QueueBounded, S!cur_bytes,
               Service!cur_bytes, S!Allocated, Service!Allocated,
               S!Cardinality, Service!Cardinality
<1> QED
  BY <1>1, <1>2, <1>3, <1>4, <1>5

THEOREM ComponentsKeep == Spec => []ComponentsHold
<1>1. Init => S!QueueBounded
  <2>1. Init => m_queue = <<>>
    BY SameService DEF Init, S!Init
  <2> QED
    BY <2>1, Constants, S!NothingAllocated DEF S!QueueBounded
<1>2. Inv /\ S!QueueBounded /\ [Next]_vars => (S!QueueBounded)'
  BY BothStep, Constants, S!BoundedInductive DEF Inv
<1>3. Inv /\ S!QueueBounded => ComponentsHold
  BY SamePromises DEF Inv, C!IInv, S!IInv, ComponentsHold
<1> QED
  BY <1>1, <1>2, <1>3, Invariance, PTL DEF Spec

(* The client reads bytes it sent, and none of them twice, whatever is     *)
(* queued, given up or lost on the way.                                    *)
THEOREM OwnBytesOnce == Spec => []ReadsItsOwn
<1>1. Inv => ReadsItsOwn
  <2> SUFFICES ASSUME Inv PROVE ReadsItsOwn
    OBVIOUS
  <2>1. IsInjective(echo) /\ Range(echo) \subseteq 1..received
    BY Zenon DEF Inv, S!IInv, S!EveryByteAccounted, S!Range, Range, S!IsInjective,
                 IsInjective
  <2>2. out = Run(1, Len(out)) /\ Len(out) \in Nat
    BY DEF Inv, C!IInv, C!StreamIntact, C!Run, Run
  <2>3. received \in 0..Len(out)
    BY DEF Inv, C!IInv, C!TypeOK
  <2>4. 1..received \subseteq 1..Len(out)
    BY <2>2, <2>3
  <2>5. Range(Run(1, Len(out))) = 1..Len(out)
    <3>1. Range(Run(1, Len(out))) = 1 .. 1 + Len(out) - 1
      BY <2>2, RunProperties
    <3> QED
      BY <2>2, <3>1
  <2> QED
    BY <2>1, <2>2, <2>4, <2>5, Zenon DEF ReadsItsOwn
<1> QED
  BY <1>1, Invariance, PTL
=============================================================================
