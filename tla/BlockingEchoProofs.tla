-------------------------- MODULE BlockingEchoProofs --------------------------
(***************************************************************************)
(* Proofs about BlockingEcho.tla: for any number of clients, any length of *)
(* what they send and any window, Server1's echo is exact, and a Client4   *)
(* that reports success has all of it.                                     *)
(***************************************************************************)
EXTENDS BlockingEcho, ByteRunsProofs

(* One connection is accepted, once.                                       *)
OneAtATime ==
    /\ \A c, d \in serving : c = d
    /\ spc \in {"listen", "accept"} => serving = {}

(* What a client has read, what comes and what is held make up what the    *)
(* server has received ...                                                 *)
Faithful(c) == got[c] \o down[c] \o Held(c) = Run(1, taken[c])

(* ... until the server has ended and the connection was reset.            *)
EchoInv ==
    server = "Server1" =>
        \A c \in Clients : spc # "ended" \/ link[c] # "reset" => Faithful(c)

(* How far a client is, and what it has done by then.                      *)
ClientOrder ==
    \A c \in Clients :
        /\ finUp[c] => cpc[c] \in {"recv", "close", "ended"}
        /\ result[c] # "none" => cpc[c] = "ended"
        /\ program[c] = "Client4" /\ cpc[c] \in {"shutdown", "recv", "close"}
                => sent[c] = Length

(* Server1 ends a connection only after the end of the client's stream, or *)
(* by a reset.                                                             *)
ServerOrder ==
    \A c \in Clients :
        /\ spc = "shutdown" /\ c \in serving => AtEnd(c)
        /\ finDown[c] => spc = "ended" /\ c \in serving
        /\ server = "Server1" /\ finDown[c] /\ link[c] # "reset" => AtEnd(c)

(* Client4 stops receiving at the end of the server's stream, or when the  *)
(* connection is reset.                                                    *)
CloseOrder ==
    \A c \in Clients :
        program[c] = "Client4" /\ cpc[c] = "close" /\ link[c] # "reset"
            => finDown[c] /\ down[c] = <<>>

(* The inductive invariant.                                                *)
IInv ==
    /\ TypeOK /\ OneAtATime /\ EchoInv
    /\ ClientOrder /\ ServerOrder /\ CloseOrder
    /\ SuccessIsComplete

-----------------------------------------------------------------------------
(* Sequences. *)

\* s with the first n elements of t, at most m in all; and the rest of t.
Longer(s, t, n, m) == SubSeq(s \o SubSeq(t, 1, n), 1, Smaller(Len(s) + n, m))
Rest(t, n) == SubSeq(t, n + 1, Len(t))

(* A receive of n bytes moves them from what comes to what was read; with  *)
(* room for all of it, none is lost.                                       *)
LEMMA ReceiveTypes ==
    ASSUME NEW S, NEW s \in Seq(S), NEW t \in Seq(S), NEW n \in 1..Len(t),
           NEW m \in Nat
    PROVE  Longer(s, t, n, m) \in Seq(S) /\ Rest(t, n) \in Seq(S)
<1> DEFINE front == SubSeq(t, 1, n)
<1> DEFINE k == Smaller(Len(s) + n, m)
<1>1. /\ Len(s) \in Nat /\ Len(t) \in Nat
      /\ \A i \in 1..Len(t) : t[i] \in S
  BY LenProperties
<1>2. front \in Seq(S) /\ Len(front) = n
  BY <1>1, SubSeqProperties
<1>3. Rest(t, n) \in Seq(S)
  BY <1>1, SubSeqProperties DEF Rest
<1> HIDE DEF front
<1>4. s \o front \in Seq(S) /\ Len(s \o front) = Len(s) + n
  BY <1>2, ConcatProperties
<1>5. \A i \in 1..Len(s \o front) : (s \o front)[i] \in S
  BY <1>4, ElementOfSeq
<1>6. k \in 0 .. Len(s) + n
  BY <1>1 DEF Smaller
<1>7. SubSeq(s \o front, 1, k) \in Seq(S)
  BY <1>1, <1>4, <1>5, <1>6, SubSeqProperties
<1> QED
  BY <1>3, <1>7 DEF front, Longer

LEMMA ReceiveAll ==
    ASSUME NEW S, NEW s \in Seq(S), NEW t \in Seq(S), NEW n \in 1..Len(t),
           NEW m \in Nat, Len(s) + n <= m
    PROVE  Longer(s, t, n, m) \o Rest(t, n) = s \o t
<1> DEFINE front == SubSeq(t, 1, n)
<1>1. Len(s) \in Nat /\ Len(t) \in Nat
  BY LenProperties
<1>2. front \in Seq(S) /\ Len(front) = n /\ Rest(t, n) \in Seq(S)
  BY <1>1, LenProperties, SubSeqProperties DEF Rest
<1> HIDE DEF front
<1>3. s \o front \in Seq(S) /\ Len(s \o front) = Len(s) + n
  BY <1>2, ConcatProperties
<1>4. Longer(s, t, n, m) = s \o front
  <2>1. Longer(s, t, n, m) = SubSeq(s \o front, 1, Len(s \o front))
    BY <1>1, <1>3 DEF front, Longer, Smaller
  <2> QED
    BY <1>3, <2>1, SubSeqFull
<1>5. front \o Rest(t, n) = t
  <2>1. n \in 1 - 1 .. Len(t) /\ Len(t) \in n .. Len(t) /\ 1 \in 1 .. Len(t) + 1
    BY <1>1
  <2>2. SubSeq(t, 1, n) \o SubSeq(t, n + 1, Len(t)) = SubSeq(t, 1, Len(t))
    BY <2>1, ConcatAdjacentSubSeq
  <2> QED
    BY <2>2, SubSeqFull DEF front, Rest
<1>6. PICK rest \in Seq(S) : rest = Rest(t, n)
  BY <1>2
<1>7. (s \o front) \o rest = s \o (front \o rest)
  <2>1. front \in Seq(S)
    BY <1>2
  <2> QED
    BY <1>6, <2>1, SMTT(40)
<1> QED
  BY <1>4, <1>5, <1>6, <1>7

(* What a recv of n bytes returns.                                         *)
LEMMA ReceivedBytes ==
    ASSUME TypeOK, NEW c \in Clients, NEW n \in 1 .. sent[c] - taken[c]
    PROVE  /\ taken[c] + n \in 0..Length /\ taken[c] + n <= sent[c]
           /\ n \in Nat \ {0} /\ taken[c] \in Nat
           /\ Received(c, n) \in Seq(0..Length) /\ Received(c, n) # <<>>
<1>1. Length \in Nat /\ taken[c] \in 0..Length /\ sent[c] \in 0..Length
  <2>1. /\ taken \in [Clients -> 0..Length]
        /\ sent \in [Clients -> {0, Length}]
    BY DEF TypeOK
  <2> QED
    BY <2>1, LengthAssumption
<1>2. taken[c] + n \in 0..Length /\ n \in Nat \ {0} /\ taken[c] + n <= sent[c]
  BY <1>1
<1>3. /\ Received(c, n) \in Seq(taken[c] + 1 .. taken[c] + n)
      /\ Len(Received(c, n)) = n
  <2>1. (taken[c] + 1) + n - 1 = taken[c] + n /\ taken[c] + 1 \in Int /\ n \in Nat
    BY <1>1, <1>2
  <2>2. /\ Run(taken[c] + 1, n) \in Seq(taken[c] + 1 .. (taken[c] + 1) + n - 1)
        /\ Len(Run(taken[c] + 1, n)) = n
    BY <2>1, RunProperties
  <2> QED
    BY <2>1, <2>2 DEF Received
<1>4. taken[c] + 1 .. taken[c] + n \subseteq 0..Length
  BY <1>1, <1>2
<1>5. Received(c, n) \in Seq(0..Length)
  BY <1>3, <1>4, SeqMonotonic
<1> QED
  BY <1>1, <1>2, <1>3, <1>5, EmptySeq

(* What send is given.                                                     *)
LEMMA ReplyType == ASSUME TypeOK PROVE Reply \in Seq(0..Length)
<1>1. buffer \in Seq(0..Length) /\ Len(buffer) \in Nat \ {0}
  BY EmptySeq DEF TypeOK
<1>2. \A i \in 1..1 : buffer[i] \in 0..Length
  <2>1. 1 \in 1..Len(buffer) /\ \A i \in 1..1 : i = 1
    BY <1>1
  <2> QED
    BY <1>1, <2>1, ElementOfSeq
<1>3. SubSeq(buffer, 1, 1) \in Seq(0..Length)
  BY <1>2, SubSeqProperties
<1> QED
  BY <1>1, <1>3 DEF Reply

-----------------------------------------------------------------------------
(* Types. *)

LEMMA InitTypes == Init => TypeOK
<1> SUFFICES ASSUME Init PROVE TypeOK
  OBVIOUS
<1>1. buffer \in Seq(0..Length) /\ buffer # <<>>
  BY LengthAssumption DEF Init
<1>2. /\ down \in [Clients -> Seq(0..Length)]
      /\ got \in [Clients -> Seq(0..Length)]
  BY EmptySeq DEF Init
<1>3. /\ sent \in [Clients -> {0, Length}]
      /\ taken \in [Clients -> 0..Length]
      /\ \A c \in Clients : taken[c] <= sent[c]
  BY LengthAssumption DEF Init
<1>4. result \in [Clients \cup {"server"} -> {"none", "ok", "failed"}]
  BY DEF Init
<1>5. /\ server \in {"Server1", "Server2"} /\ spc = "listen" /\ serving = {}
      /\ program \in [Clients -> Programs(server)]
      /\ cpc \in [Clients -> {"connect", "send", "shutdown", "recv", "close", "ended"}]
      /\ link \in [Clients -> {"none", "waiting", "up", "reset"}]
      /\ finUp \in [Clients -> BOOLEAN] /\ finDown \in [Clients -> BOOLEAN]
  BY DEF Init
<1> QED
  BY <1>1, <1>2, <1>3, <1>4, <1>5 DEF TypeOK

LEMMA ServerTypes == ASSUME TypeOK, ServerStep PROVE TypeOK'
<1> USE DEF Ends
<1>1. CASE Listen
  <2>1. CASE spc' = "accept" /\ UNCHANGED <<link, finDown, result>>
    BY <1>1, <2>1 DEF Listen, TypeOK
  <2>2. CASE ServerEnds("failed")
    BY <1>1, <2>2 DEF Listen, ServerEnds, TypeOK
  <2> QED
    BY <1>1, <2>1, <2>2 DEF Listen
<1>2. CASE AcceptFails
  BY <1>2 DEF AcceptFails, ServerEnds, TypeOK
<1>3. ASSUME NEW c \in Clients, Accept(c) PROVE TypeOK'
  BY <1>3 DEF Accept, TypeOK
<1>4. ASSUME NEW c \in Clients, ServerReceives(c) PROVE TypeOK'
  <2>1. PICK n \in 1 .. sent[c] - taken[c] :
            /\ buffer' = Received(c, n)
            /\ taken' = [taken EXCEPT ![c] = @ + n]
    BY <1>4 DEF ServerReceives
  <2>2. /\ taken[c] + n \in 0..Length /\ taken[c] + n <= sent[c]
        /\ buffer' \in Seq(0..Length) /\ buffer' # <<>>
    BY <2>1, ReceivedBytes
  <2>3. taken' \in [Clients -> 0..Length] /\ \A d \in Clients : taken'[d] <= sent[d]
    BY <2>1, <2>2 DEF TypeOK
  <2> QED
    BY <1>4, <2>2, <2>3 DEF ServerReceives, TypeOK
<1>5. ASSUME NEW c \in Clients, ServerSeesEnd(c) PROVE TypeOK'
  BY <1>5 DEF ServerSeesEnd, AfterEnd, netVars, TypeOK
<1>6. ASSUME NEW c \in Clients, ServerRecvFails(c) PROVE TypeOK'
  BY <1>6 DEF ServerRecvFails, ServerEnds, TypeOK
<1>7. ASSUME NEW c \in Clients, ServerSends(c) PROVE TypeOK'
  <2>1. down[c] \o Reply \in Seq(0..Length)
    BY ReplyType, ConcatProperties DEF TypeOK
  <2>2. down' \in [Clients -> Seq(0..Length)]
    BY <1>7, <2>1 DEF ServerSends, TypeOK
  <2>3. link' \in [Clients -> {"none", "waiting", "up", "reset"}]
    BY <1>7 DEF ServerSends, Answered, TypeOK
  <2> QED
    BY <1>7, <2>2, <2>3 DEF ServerSends, TypeOK
<1>8. ASSUME NEW c \in Clients, ServerSendFails(c) PROVE TypeOK'
  <2>1. CASE ServerEnds("failed")
    BY <1>8, <2>1 DEF ServerSendFails, ServerEnds, TypeOK
  <2>2. CASE spc' = "recv" /\ UNCHANGED <<link, finDown, result>>
    BY <1>8, <2>2 DEF ServerSendFails, TypeOK
  <2> QED
    BY <1>8, <2>1, <2>2 DEF ServerSendFails
<1>9. ASSUME NEW c \in Clients, ServerShutsDown(c) PROVE TypeOK'
  BY <1>9 DEF ServerShutsDown, ServerEnds, TypeOK
<1> QED
  BY <1>1, <1>2, <1>3, <1>4, <1>5, <1>6, <1>7, <1>8, <1>9 DEF ServerStep

LEMMA ClientTypes ==
    ASSUME TypeOK, NEW c \in Clients, ClientStep(c) \/ World(c) PROVE TypeOK'
<1> USE DEF Ends, serverVars, netVars
<1>1. CASE Connect(c)
  BY <1>1 DEF Connect, ClientEnds, TypeOK
<1>2. CASE Send(c)
  BY <1>2, LengthAssumption DEF Send, AfterSend, TypeOK
<1>3. CASE SendFails(c)
  BY <1>3 DEF SendFails, AfterSend, ClientEnds, TypeOK
<1>4. CASE ShutDown(c)
  BY <1>4 DEF ShutDown, ClientEnds, TypeOK
<1>5. CASE Receive(c)
  <2>1. PICK n \in 1..Len(down[c]) :
            /\ got' = [got EXCEPT ![c] = SubSeq(@ \o SubSeq(down[c], 1, n), 1,
                             Smaller(Len(@) + n, Length + 1))]
            /\ down' = [down EXCEPT ![c] = SubSeq(@, n + 1, Len(@))]
    BY <1>5 DEF Receive
  <2>2. got[c] \in Seq(0..Length) /\ down[c] \in Seq(0..Length) /\ Length + 1 \in Nat
    BY LengthAssumption DEF TypeOK
  <2>3. /\ Longer(got[c], down[c], n, Length + 1) \in Seq(0..Length)
        /\ Rest(down[c], n) \in Seq(0..Length)
    BY <2>2, ReceiveTypes
  <2>4. /\ got' = [got EXCEPT ![c] = Longer(got[c], down[c], n, Length + 1)]
        /\ down' = [down EXCEPT ![c] = Rest(down[c], n)]
    BY <2>1 DEF Longer, Rest
  <2>6. /\ got' \in [Clients -> Seq(0..Length)]
        /\ down' \in [Clients -> Seq(0..Length)]
    BY <2>3, <2>4 DEF TypeOK
  <2> QED
    BY <1>5, <2>6 DEF Receive, AfterRecv, TypeOK
<1>6. CASE ReceiveNothing(c)
  BY <1>6 DEF ReceiveNothing, TypeOK
<1>7. CASE Close(c)
  BY <1>7 DEF Close, ClientEnds, TypeOK
<1>8. CASE Killed(c)
  BY <1>8 DEF Killed, ClientEnds, TypeOK
<1>9. CASE ConnectionLost(c)
  BY <1>9 DEF ConnectionLost, TypeOK
<1> QED
  BY <1>1, <1>2, <1>3, <1>4, <1>5, <1>6, <1>7, <1>8, <1>9 DEF ClientStep, World

(* Nothing changes: the system has come to its end, or stutters.           *)
LEMMA StutterTypes == ASSUME TypeOK, UNCHANGED vars PROVE TypeOK'
  BY DEF TypeOK, vars

-----------------------------------------------------------------------------
(* The order of things. *)

Orders == OneAtATime /\ ClientOrder /\ ServerOrder /\ CloseOrder

LEMMA InitOrders == Init => Orders
  BY DEF Init, Orders, OneAtATime, ClientOrder, ServerOrder, CloseOrder

(* When the server ends without having seen the end of the stream of the   *)
(* one it serves, that connection was reset, or becomes so.                *)
LEMMA ServerEndsOrders ==
    ASSUME TypeOK, Orders, NEW r \in {"ok", "failed"}, ServerEnds(r),
           spc # "shutdown" => \A c \in serving : link[c] = "reset",
           UNCHANGED <<server, serving, program, cpc, sent, taken, finUp, down>>
    PROVE  Orders'
<1> USE DEF Orders
<1>1. spc' = "ended" /\ OneAtATime'
  BY DEF ServerEnds, OneAtATime
<1>2. \A c \in Clients :
        /\ result'[c] = result[c]
        /\ finDown'[c] = (finDown[c] \/ c \in serving)
        /\ link'[c] \in {link[c], "reset"}
  BY ClientsAssumption DEF ServerEnds, Ends, TypeOK
<1>3. ClientOrder'
  BY <1>2 DEF ClientOrder
<1>4. ServerOrder'
  BY <1>1, <1>2 DEF ServerOrder, AtEnd
<1>5. CloseOrder'
  BY <1>2 DEF CloseOrder
<1> QED
  BY <1>1, <1>3, <1>4, <1>5

LEMMA ServerOrders == ASSUME TypeOK, Orders, ServerStep PROVE Orders'
<1> USE DEF Orders
<1>1. CASE Listen
  <2>1. CASE ServerEnds("failed")
    <3>1. \A c \in serving : link[c] = "reset"
      BY <1>1 DEF Listen, OneAtATime
    <3> QED
      BY <1>1, <2>1, <3>1, ServerEndsOrders DEF Listen
  <2>2. CASE spc' = "accept" /\ UNCHANGED <<link, finDown, result>>
    BY <1>1, <2>2 DEF Listen, OneAtATime, ClientOrder, ServerOrder, CloseOrder, AtEnd
  <2> QED
    BY <1>1, <2>1, <2>2 DEF Listen
<1>2. CASE AcceptFails
  <2>1. \A c \in serving : link[c] = "reset"
    BY <1>2 DEF AcceptFails, OneAtATime
  <2> QED
    BY <1>2, <2>1, ServerEndsOrders DEF AcceptFails
<1>3. ASSUME NEW c \in Clients, Accept(c) PROVE Orders'
  <2>1. \A d \in Clients : link[d] # "reset" <=> link'[d] # "reset"
    BY <1>3 DEF Accept, TypeOK
  <2> QED
    BY <1>3, <2>1 DEF Accept, OneAtATime, ClientOrder, ServerOrder, CloseOrder, AtEnd
<1>4. ASSUME NEW c \in Clients, ServerReceives(c) PROVE Orders'
  BY <1>4 DEF ServerReceives, OneAtATime, ClientOrder, ServerOrder, CloseOrder, AtEnd
<1>5. ASSUME NEW c \in Clients, ServerSeesEnd(c) PROVE Orders'
  BY <1>5 DEF ServerSeesEnd, AfterEnd, netVars, OneAtATime, ClientOrder,
              ServerOrder, CloseOrder, AtEnd
<1>6. ASSUME NEW c \in Clients, ServerRecvFails(c) PROVE Orders'
  <2>1. \A d \in serving : link[d] = "reset"
    BY <1>6 DEF ServerRecvFails, OneAtATime
  <2> QED
    BY <1>6, <2>1, ServerEndsOrders DEF ServerRecvFails
<1>7. ASSUME NEW c \in Clients, ServerSends(c) PROVE Orders'
  <2>1. ~ finDown[c] /\ spc = "send" /\ spc' = "recv"
    BY <1>7 DEF ServerSends, ServerOrder
  <2>2. \A d \in Clients :
          /\ link'[d] # "reset" => link[d] # "reset"
          /\ d # c => down'[d] = down[d]
    BY <1>7 DEF ServerSends, Answered, TypeOK
  <2>3. CloseOrder'
    BY <1>7, <2>1, <2>2 DEF ServerSends, CloseOrder
  <2>4. ServerOrder'
    BY <1>7, <2>1, <2>2 DEF ServerSends, ServerOrder, AtEnd
  <2> QED
    BY <1>7, <2>3, <2>4 DEF ServerSends, OneAtATime, ClientOrder
<1>8. ASSUME NEW c \in Clients, ServerSendFails(c) PROVE Orders'
  <2>1. CASE ServerEnds("failed")
    <3>1. \A d \in serving : link[d] = "reset"
      BY <1>8 DEF ServerSendFails, OneAtATime
    <3> QED
      BY <1>8, <2>1, <3>1, ServerEndsOrders DEF ServerSendFails
  <2>2. CASE spc' = "recv" /\ UNCHANGED <<link, finDown, result>>
    BY <1>8, <2>2 DEF ServerSendFails, OneAtATime, ClientOrder, ServerOrder,
                      CloseOrder, AtEnd
  <2> QED
    BY <1>8, <2>1, <2>2 DEF ServerSendFails
<1>9. ASSUME NEW c \in Clients, ServerShutsDown(c) PROVE Orders'
  BY <1>9, ServerEndsOrders DEF ServerShutsDown
<1> QED
  BY <1>1, <1>2, <1>3, <1>4, <1>5, <1>6, <1>7, <1>8, <1>9 DEF ServerStep

(* What the end of a client does.                                          *)
LEMMA ClientEndsOrders ==
    ASSUME TypeOK, Orders, NEW c \in Clients, NEW r \in {"ok", "failed"},
           ClientEnds(c, r), cpc[c] \notin {"ended"},
           UNCHANGED <<server, spc, serving, program, sent, taken, down, finDown>>
    PROVE  Orders'
<1> USE DEF Orders
<1>1. \A d \in Clients :
        /\ cpc'[d] = IF d = c THEN "ended" ELSE cpc[d]
        /\ d # c => result'[d] = result[d]
        /\ finUp'[d] = (finUp[d] \/ d = c)
        /\ link'[d] \in {link[d], "reset"}
  BY DEF ClientEnds, Ends, TypeOK
<1>2. OneAtATime' /\ ClientOrder'
  BY <1>1 DEF OneAtATime, ClientOrder
<1>3. ServerOrder'
  BY <1>1 DEF ServerOrder, AtEnd
<1>4. CloseOrder'
  BY <1>1 DEF CloseOrder
<1> QED
  BY <1>2, <1>3, <1>4

LEMMA ClientOrders ==
    ASSUME TypeOK, Orders, NEW c \in Clients, ClientStep(c) \/ World(c)
    PROVE  Orders'
<1> USE DEF Orders, serverVars, netVars
<1>1. CASE Connect(c)
  <2>1. CASE ClientEnds(c, "failed")
    BY <1>1, <2>1, ClientEndsOrders DEF Connect
  <2>2. CASE /\ spc \notin {"listen", "ended"}
             /\ cpc' = [cpc EXCEPT ![c] = "send"]
             /\ link' = [link EXCEPT ![c] = "waiting"]
             /\ UNCHANGED <<finUp, result>>
    <3>1. ~ finUp[c] /\ ~ finDown[c] /\ result[c] = "none"
      BY <1>1, <2>2 DEF Connect, TypeOK, ClientOrder, ServerOrder, AtEnd
    <3>2. \A d \in Clients :
            /\ cpc'[d] = IF d = c THEN "send" ELSE cpc[d]
            /\ d # c => link'[d] = link[d]
      BY <2>2 DEF TypeOK
    <3>3. UNCHANGED <<spc, server, serving, program, sent, taken, finUp, down,
                      finDown, result>>
      BY <1>1, <2>2 DEF Connect
    <3>4. OneAtATime' /\ ClientOrder'
      BY <3>1, <3>2, <3>3 DEF OneAtATime, ClientOrder
    <3>5. ServerOrder'
      BY <3>1, <3>2, <3>3 DEF ServerOrder, AtEnd
    <3>6. CloseOrder'
      BY <3>2, <3>3 DEF CloseOrder
    <3> QED
      BY <3>4, <3>5, <3>6
  <2> QED
    BY <1>1, <2>1, <2>2 DEF Connect
<1>2. CASE Send(c)
  <2>1. ~ finUp[c] /\ result[c] = "none"
    BY <1>2 DEF Send, TypeOK, ClientOrder
  <2>2. /\ cpc'[c] \in {"recv", "shutdown"} /\ sent'[c] = Length
        /\ \A d \in Clients : d # c => cpc'[d] = cpc[d] /\ sent'[d] = sent[d]
    BY <1>2 DEF Send, AfterSend, TypeOK
  <2> QED
    BY <1>2, <2>1, <2>2 DEF Send, OneAtATime, ClientOrder, ServerOrder,
                            CloseOrder, AtEnd
<1>3. CASE SendFails(c)
  <2>1. CASE ClientEnds(c, "failed")
    BY <1>3, <2>1, ClientEndsOrders DEF SendFails
  <2>2. CASE /\ program[c] = "Client1"
             /\ cpc' = [cpc EXCEPT ![c] = AfterSend(c)]
             /\ UNCHANGED <<link, finUp, result>>
    <3>1. ~ finUp[c] /\ result[c] = "none" /\ program[c] # "Client4"
      BY <1>3, <2>2 DEF SendFails, TypeOK, ClientOrder
    <3>2. \A d \in Clients : d # c => cpc'[d] = cpc[d]
      BY <2>2 DEF TypeOK
    <3> QED
      BY <1>3, <2>2, <3>1, <3>2 DEF SendFails, OneAtATime, ClientOrder,
                                    ServerOrder, CloseOrder, AtEnd
  <2> QED
    BY <1>3, <2>1, <2>2 DEF SendFails
<1>4. CASE ShutDown(c)
  <2>1. CASE ClientEnds(c, "failed")
    BY <1>4, <2>1, ClientEndsOrders DEF ShutDown
  <2>2. CASE /\ finUp' = [finUp EXCEPT ![c] = TRUE]
             /\ cpc' = [cpc EXCEPT ![c] = "recv"]
             /\ UNCHANGED <<link, result>>
    <3>1. result[c] = "none"
      BY <1>4 DEF ShutDown, TypeOK, ClientOrder
    <3>2. \A d \in Clients :
            /\ cpc'[d] = IF d = c THEN "recv" ELSE cpc[d]
            /\ finUp'[d] = (finUp[d] \/ d = c)
      BY <2>2 DEF TypeOK
    <3>3. UNCHANGED <<spc, server, serving, program, sent, taken, down, finDown,
                      link, result>>
      BY <1>4, <2>2 DEF ShutDown
    <3>4. cpc[c] = "shutdown"
      BY <1>4 DEF ShutDown
    <3>5. OneAtATime' /\ ClientOrder'
      BY <3>1, <3>2, <3>3, <3>4 DEF OneAtATime, ClientOrder
    <3>6. ServerOrder'
      BY <3>2, <3>3 DEF ServerOrder, AtEnd
    <3>7. CloseOrder'
      BY <3>2, <3>3 DEF CloseOrder
    <3> QED
      BY <3>5, <3>6, <3>7
  <2> QED
    BY <1>4, <2>1, <2>2 DEF ShutDown
<1>5. CASE Receive(c)
  <2>1. \A d \in Clients : d # c => cpc'[d] = cpc[d] /\ down'[d] = down[d]
    BY <1>5 DEF Receive, TypeOK
  <2>2. cpc'[c] \in {"recv", "close"} /\ (program[c] = "Client4" => cpc'[c] = "recv")
    BY <1>5 DEF Receive, AfterRecv, TypeOK
  <2>3. cpc[c] = "recv"
    BY <1>5 DEF Receive
  <2>4. result[c] = "none"
    BY <2>3 DEF TypeOK, ClientOrder
  <2> QED
    BY <1>5, <2>1, <2>2, <2>3, <2>4 DEF Receive, OneAtATime, ClientOrder,
                                        ServerOrder, CloseOrder, AtEnd
<1>6. CASE ReceiveNothing(c)
  <2>1. \A d \in Clients : cpc'[d] = IF d = c THEN "close" ELSE cpc[d]
    BY <1>6 DEF ReceiveNothing, TypeOK
  <2>2. result[c] = "none"
    BY <1>6 DEF ReceiveNothing, TypeOK, ClientOrder
  <2> QED
    BY <1>6, <2>1, <2>2 DEF ReceiveNothing, OneAtATime, ClientOrder, ServerOrder,
                            CloseOrder, AtEnd
<1>7. CASE Close(c)
  BY <1>7, ClientEndsOrders DEF Close
<1>8. CASE Killed(c)
  BY <1>8, ClientEndsOrders DEF Killed
<1>9. CASE ConnectionLost(c)
  <2>1. \A d \in Clients : link'[d] \in {link[d], "reset"}
    BY <1>9 DEF ConnectionLost, TypeOK
  <2> QED
    BY <1>9, <2>1 DEF ConnectionLost, OneAtATime, ClientOrder, ServerOrder,
                      CloseOrder, AtEnd
<1> QED
  BY <1>1, <1>2, <1>3, <1>4, <1>5, <1>6, <1>7, <1>8, <1>9 DEF ClientStep, World

LEMMA StutterOrders == ASSUME Orders, UNCHANGED vars PROVE Orders'
  BY DEF vars, Orders, OneAtATime, ClientOrder, ServerOrder, CloseOrder, AtEnd

-----------------------------------------------------------------------------
(* The echo. *)

(* Nothing that Faithful is about has changed.                             *)
LEMMA SameEcho ==
    ASSUME EchoInv, UNCHANGED <<server, spc, serving, buffer, got, down, taken>>,
           \A c \in Clients : link'[c] \in {link[c], "reset"}
    PROVE  EchoInv'
  BY DEF EchoInv, Faithful, Held

(* The server holds nothing before the step, and nothing after it.         *)
LEMMA SameEchoUnheld ==
    ASSUME EchoInv, UNCHANGED <<server, got, down, taken>>, spc \notin {"send", "ended"},
           spc' # "send"
    PROVE  EchoInv'
  BY DEF EchoInv, Faithful, Held

LEMMA EmptyAppend ==
    ASSUME NEW S, NEW s \in Seq(S), NEW t \in Seq(S)
    PROVE  s \o t \o <<>> = s \o t
<1>1. s \o t \in Seq(S)
  BY ConcatProperties
<1> QED
  BY <1>1, ConcatEmptySeq

LEMMA EchoServerEnds ==
    ASSUME TypeOK, Orders, EchoInv, NEW r \in {"ok", "failed"}, ServerEnds(r),
           \A c \in serving : spc = "send" => link[c] = "reset",
           UNCHANGED <<server, serving, buffer, got, down, taken>>
    PROVE  EchoInv'
<1>1. \A c \in Clients : link[c] = "reset" => link'[c] = "reset"
  BY DEF ServerEnds, TypeOK
<1>2. spc' = "ended"
  BY DEF ServerEnds
<1> SUFFICES ASSUME server = "Server1", NEW c \in Clients, link'[c] # "reset"
             PROVE  Faithful(c)'
  BY <1>2 DEF EchoInv
<1>3. link[c] # "reset"
  BY <1>1
<1>4. Faithful(c)
  BY <1>3 DEF EchoInv
<1>5. Held(c) = <<>> /\ Held(c)' = <<>>
  BY <1>2, <1>3 DEF Held
<1> QED
  BY <1>4, <1>5 DEF Faithful

LEMMA EchoServerStep ==
    ASSUME TypeOK, Orders, EchoInv, ServerStep PROVE EchoInv'
<1> USE DEF Orders
<1>1. CASE Listen
  <2>1. CASE ServerEnds("failed")
    BY <1>1, <2>1, EchoServerEnds DEF Listen
  <2>2. CASE spc' = "accept" /\ UNCHANGED <<link, finDown, result>>
    BY <1>1, <2>2, SameEchoUnheld DEF Listen
  <2> QED
    BY <1>1, <2>1, <2>2 DEF Listen
<1>2. CASE AcceptFails
  BY <1>2, EchoServerEnds DEF AcceptFails
<1>3. ASSUME NEW c \in Clients, Accept(c) PROVE EchoInv'
  BY <1>3, SameEchoUnheld DEF Accept
<1>4. ASSUME NEW c \in Clients, ServerReceives(c) PROVE EchoInv'
  <2> SUFFICES ASSUME server = "Server1", NEW d \in Clients PROVE Faithful(d)'
    BY <1>4 DEF ServerReceives, EchoInv
  <2>1. PICK n \in 1 .. sent[c] - taken[c] :
            /\ buffer' = Received(c, n)
            /\ taken' = [taken EXCEPT ![c] = @ + n]
    BY <1>4 DEF ServerReceives
  <2>2. spc = "recv" /\ spc' = "send" /\ c \in serving
        /\ UNCHANGED <<server, serving, got, down>>
    BY <1>4 DEF ServerReceives
  <2>3. got[d] \o down[d] \o <<>> = Run(1, taken[d])
    BY <2>2 DEF EchoInv, Faithful, Held
  <2>4. got[d] \o down[d] = Run(1, taken[d])
    BY <2>3, EmptyAppend DEF TypeOK
  <2>5. CASE d # c
    <3>1. d \notin serving /\ taken'[d] = taken[d]
      BY <2>1, <2>2, <2>5 DEF OneAtATime, TypeOK
    <3> QED
      BY <2>2, <2>3, <3>1 DEF Faithful, Held
  <2>6. CASE d = c
    <3>1. taken[c] \in Nat /\ n \in Nat /\ 1 \in Int /\ 1 + taken[c] = taken[c] + 1
      BY ReceivedBytes
    <3>2. Run(1, taken[c]) \o Run(1 + taken[c], n) = Run(1, taken[c] + n)
      BY <3>1, RunConcat
    <3>3. Held(c)' = Run(taken[c] + 1, n)
      BY <2>1, <2>2 DEF Held, Received
    <3>4. taken'[c] = taken[c] + n
      BY <2>1 DEF TypeOK
    <3> QED
      BY <2>2, <2>4, <2>6, <3>1, <3>2, <3>3, <3>4 DEF Faithful
  <2> QED
    BY <2>5, <2>6
<1>5. ASSUME NEW c \in Clients, ServerSeesEnd(c) PROVE EchoInv'
  <2>1. server = "Server1" => spc = "recv" /\ spc' = "shutdown"
    BY <1>5 DEF ServerSeesEnd, AfterEnd
  <2>2. UNCHANGED <<server, got, down, taken, link>>
    BY <1>5 DEF ServerSeesEnd, netVars
  <2> QED
    BY <2>1, <2>2 DEF EchoInv, Faithful, Held
<1>6. ASSUME NEW c \in Clients, ServerRecvFails(c) PROVE EchoInv'
  BY <1>6, EchoServerEnds DEF ServerRecvFails
<1>7. ASSUME NEW c \in Clients, ServerSends(c) PROVE EchoInv'
  <2> SUFFICES ASSUME server = "Server1", NEW d \in Clients PROVE Faithful(d)'
    BY <1>7 DEF ServerSends, EchoInv
  <2>1. /\ spc = "send" /\ spc' = "recv" /\ c \in serving
        /\ down' = [down EXCEPT ![c] = @ \o buffer]
        /\ UNCHANGED <<server, serving, got, taken>>
    BY <1>7 DEF ServerSends, Reply
  <2>2. got[d] \o down[d] \o Held(d) = Run(1, taken[d])
    BY <2>1 DEF EchoInv, Faithful
  <2>3. Held(d)' = <<>>
    BY <2>1 DEF Held
  <2>4. CASE d # c
    <3>1. Held(d) = <<>> /\ down'[d] = down[d]
      BY <2>1, <2>4 DEF OneAtATime, Held, TypeOK
    <3> QED
      BY <2>1, <2>2, <2>3, <3>1 DEF Faithful
  <2>5. CASE d = c
    <3>1. Held(c) = buffer /\ down'[c] = down[c] \o buffer
      BY <2>1 DEF Held, TypeOK
    <3>2. got[c] \in Seq(0..Length) /\ down[c] \in Seq(0..Length)
          /\ buffer \in Seq(0..Length)
      BY DEF TypeOK
    <3>3. got[c] \o (down[c] \o buffer) = (got[c] \o down[c]) \o buffer
      <4>1. PICK s \in Seq(0..Length) : s = got[c]
        BY <3>2
      <4>2. PICK t \in Seq(0..Length) : t = down[c]
        BY <3>2
      <4>3. PICK u \in Seq(0..Length) : u = buffer
        BY <3>2
      <4>4. s \o (t \o u) = (s \o t) \o u
        OBVIOUS
      <4> QED
        BY <4>1, <4>2, <4>3, <4>4
    <3>4. down[c] \o buffer \in Seq(0..Length)
      BY <3>2, ConcatProperties
    <3>5. got[c] \o (down[c] \o buffer) \o <<>> = got[c] \o (down[c] \o buffer)
      BY <3>2, <3>4, EmptyAppend
    <3> QED
      BY <2>1, <2>2, <2>3, <2>5, <3>1, <3>3, <3>5 DEF Faithful
  <2> QED
    BY <2>4, <2>5
<1>8. ASSUME NEW c \in Clients, ServerSendFails(c) PROVE EchoInv'
  <2>1. CASE server = "Server2"
    BY <1>8, <2>1 DEF ServerSendFails, EchoInv
  <2>2. CASE server = "Server1"
    <3>1. ServerEnds("failed")
      BY <1>8, <2>2 DEF ServerSendFails
    <3>2. \A d \in serving : link[d] = "reset"
      BY <1>8 DEF ServerSendFails, OneAtATime
    <3> QED
      BY <1>8, <3>1, <3>2, EchoServerEnds DEF ServerSendFails
  <2> QED
    BY <2>1, <2>2 DEF TypeOK
<1>9. ASSUME NEW c \in Clients, ServerShutsDown(c) PROVE EchoInv'
  BY <1>9, EchoServerEnds DEF ServerShutsDown
<1> QED
  BY <1>1, <1>2, <1>3, <1>4, <1>5, <1>6, <1>7, <1>8, <1>9 DEF ServerStep

LEMMA EchoClientEnds ==
    ASSUME TypeOK, EchoInv, NEW c \in Clients, NEW r, ClientEnds(c, r),
           UNCHANGED <<server, serverVars, got, down, taken>>
    PROVE  EchoInv'
<1>1. \A d \in Clients : link'[d] \in {link[d], "reset"}
  BY DEF ClientEnds, TypeOK
<1> QED
  BY <1>1, SameEcho DEF serverVars

(* The received bytes are no more than Length, so none is cut off.         *)
LEMMA ReceiveKeeps ==
    ASSUME NEW s \in Seq(0..Length), NEW t \in Seq(0..Length),
           NEW h \in Seq(0..Length), NEW n \in 1..Len(t), NEW r \in 0..Length,
           s \o t \o h = Run(1, r)
    PROVE  Longer(s, t, n, Length + 1) \o Rest(t, n) = s \o t
<1>1. s \o t \in Seq(0..Length) /\ Len(s \o t) = Len(s) + Len(t)
  BY ConcatProperties
<1>2. Len(s \o t \o h) = Len(s) + Len(t) + Len(h)
  BY <1>1, ConcatProperties
<1>3. r \in Nat /\ 1 \in Int /\ Length \in Nat /\ Length + 1 \in Nat
  BY LengthAssumption
<1>4. Len(Run(1, r)) = r
  BY <1>3, RunProperties
<1>5. Len(s) \in Nat /\ Len(t) \in Nat /\ Len(h) \in Nat
  BY LenProperties
<1>6. PICK m \in Nat : m = Length + 1
  BY <1>3
<1>7. Len(s) + n <= m
  BY <1>2, <1>3, <1>4, <1>5, <1>6
<1>8. Longer(s, t, n, m) \o Rest(t, n) = s \o t
  BY <1>7, ReceiveAll
<1> QED
  BY <1>6, <1>7, <1>8

LEMMA EchoClientStep ==
    ASSUME TypeOK, Orders, EchoInv, NEW c \in Clients, ClientStep(c) \/ World(c)
    PROVE  EchoInv'
<1> USE DEF serverVars, netVars
<1>1. CASE Connect(c)
  <2>1. CASE ClientEnds(c, "failed")
    BY <1>1, <2>1, EchoClientEnds DEF Connect
  <2>2. CASE spc # "ended" /\ link' = [link EXCEPT ![c] = "waiting"]
    BY <1>1, <2>2 DEF Connect, EchoInv, Faithful, Held, TypeOK
  <2> QED
    BY <1>1, <2>1, <2>2 DEF Connect
<1>2. CASE Send(c)
  BY <1>2, SameEcho DEF Send
<1>3. CASE SendFails(c)
  BY <1>3, SameEcho, EchoClientEnds DEF SendFails
<1>4. CASE ShutDown(c)
  BY <1>4, SameEcho, EchoClientEnds DEF ShutDown
<1>5. CASE Receive(c)
  <2> SUFFICES ASSUME server = "Server1", NEW d \in Clients,
                      spc # "ended" \/ link[d] # "reset"
               PROVE  Faithful(d)'
    BY <1>5 DEF Receive, EchoInv
  <2>1. PICK n \in 1..Len(down[c]) :
            /\ got' = [got EXCEPT ![c] = Longer(got[c], down[c], n, Length + 1)]
            /\ down' = [down EXCEPT ![c] = Rest(down[c], n)]
    BY <1>5 DEF Receive, Longer, Rest
  <2>2. UNCHANGED <<server, serverVars, taken>>
    BY <1>5 DEF Receive
  <2>3. Held(d)' = Held(d)
    BY <2>2 DEF Held
  <2>4. Faithful(d)
    BY DEF EchoInv
  <2>5. CASE d # c
    BY <2>1, <2>2, <2>3, <2>4, <2>5 DEF Faithful, TypeOK
  <2>6. CASE d = c
    <3>1. got[c] \in Seq(0..Length) /\ down[c] \in Seq(0..Length) /\ Length + 1 \in Nat
      BY LengthAssumption DEF TypeOK
    <3>2. Held(c) \in Seq(0..Length)
      BY EmptySeq DEF Held, TypeOK
    <3>3. Longer(got[c], down[c], n, Length + 1) \o Rest(down[c], n) = got[c] \o down[c]
      <4>1. PICK s \in Seq(0..Length) : s = got[c]
        BY <3>1
      <4>2. PICK t \in Seq(0..Length) : t = down[c]
        BY <3>1
      <4>3. PICK h \in Seq(0..Length) : h = Held(c)
        BY <3>2
      <4>4. PICK r \in 0..Length : r = taken[c]
        BY DEF TypeOK
      <4>5. s \o t \o h = Run(1, r) /\ n \in 1..Len(t)
        BY <2>4, <2>6, <4>1, <4>2, <4>3, <4>4 DEF Faithful
      <4>6. Longer(s, t, n, Length + 1) \o Rest(t, n) = s \o t
        BY <4>5, ReceiveKeeps
      <4> QED
        BY <4>1, <4>2, <4>6
    <3>4. got'[c] \o down'[c] = got[c] \o down[c]
      BY <2>1, <3>3 DEF TypeOK
    <3> QED
      BY <2>2, <2>3, <2>4, <2>6, <3>4 DEF Faithful
  <2> QED
    BY <2>5, <2>6
<1>6. CASE ReceiveNothing(c)
  BY <1>6, SameEcho DEF ReceiveNothing
<1>7. CASE Close(c)
  BY <1>7, EchoClientEnds DEF Close
<1>8. CASE Killed(c)
  BY <1>8, EchoClientEnds DEF Killed
<1>9. CASE ConnectionLost(c)
  <2>1. \A d \in Clients : link'[d] \in {link[d], "reset"}
    BY <1>9 DEF ConnectionLost, TypeOK
  <2> QED
    BY <1>9, <2>1, SameEcho DEF ConnectionLost
<1> QED
  BY <1>1, <1>2, <1>3, <1>4, <1>5, <1>6, <1>7, <1>8, <1>9 DEF ClientStep, World

LEMMA StutterEcho == ASSUME EchoInv, UNCHANGED vars PROVE EchoInv'
  BY DEF vars, EchoInv, Faithful, Held

-----------------------------------------------------------------------------
(* Success. *)

(* Only its end gives a client a result.                                   *)
LEMMA SuccessStep ==
    ASSUME TypeOK, Orders, EchoInv, SuccessIsComplete, [Next]_vars
    PROVE  SuccessIsComplete'
<1> USE DEF Orders
<1> SUFFICES ASSUME NEW c \in Clients, server' = "Server1",
                    program'[c] = "Client4", result'[c] = "ok"
             PROVE  got'[c] = Run(1, Length)
  BY DEF SuccessIsComplete
<1>1. UNCHANGED <<server, program>>
  BY DEF Next, ServerStep, Listen, AcceptFails, Accept, ServerReceives,
         ServerSeesEnd, ServerRecvFails, ServerSends, ServerSendFails,
         ServerShutsDown, ClientStep, World, Connect, Send, SendFails, ShutDown,
         Receive, ReceiveNothing, Close, Killed, ConnectionLost, Finished, vars
<1>2. CASE result[c] = "ok"
  <2>1. got[c] = Run(1, Length) /\ cpc[c] = "ended"
    BY <1>1, <1>2 DEF SuccessIsComplete, ClientOrder
  <2>2. got'[c] = got[c]
    BY <2>1 DEF Next, ServerStep, Listen, AcceptFails, Accept, ServerReceives,
         ServerSeesEnd, ServerRecvFails, ServerSends, ServerSendFails,
         ServerShutsDown, ClientStep, World, Connect, Send, SendFails, ShutDown,
         Receive, ReceiveNothing, Close, Killed, ConnectionLost, Finished, vars,
         TypeOK
  <2> QED
    BY <2>1, <2>2
<1>3. CASE result[c] # "ok"
  <2>1. Close(c)
    <3>1. ASSUME NEW r, ServerEnds(r) PROVE result'[c] = result[c]
      BY <3>1, ClientsAssumption DEF ServerEnds, Ends, TypeOK
    <3>2. ASSUME NEW d \in Clients, ClientEnds(d, "failed") PROVE result'[c] # "ok"
      BY <1>3, <3>2 DEF ClientEnds, Ends, TypeOK
    <3>3. ASSUME ServerStep PROVE result'[c] = result[c]
      BY <3>1, <3>3 DEF ServerStep, Listen, AcceptFails, Accept, ServerReceives,
             ServerSeesEnd, ServerRecvFails, ServerSends, ServerSendFails,
             ServerShutsDown
    <3>4. ASSUME NEW d \in Clients, ClientStep(d) \/ World(d), ~ Close(d)
          PROVE  result'[c] # "ok"
      BY <1>3, <3>2, <3>4 DEF ClientStep, World, Connect, Send, SendFails,
             ShutDown, Receive, ReceiveNothing, Killed, ConnectionLost
    <3>5. ASSUME NEW d \in Clients, Close(d), d # c PROVE result'[c] # "ok"
      BY <1>3, <3>5 DEF Close, ClientEnds, Ends, TypeOK
    <3> QED
      BY <1>3, <3>3, <3>4, <3>5 DEF Next, Finished, vars
  <2>2. cpc[c] = "close" /\ link[c] # "reset" /\ got' = got
    BY <1>1, <2>1 DEF Close, ClientEnds, Ends, TypeOK
  <2>3. finDown[c] /\ down[c] = <<>> /\ sent[c] = Length
    BY <1>1, <2>2 DEF CloseOrder, ClientOrder
  <2>4. spc = "ended" /\ taken[c] = Length
    BY <1>1, <2>2, <2>3 DEF ServerOrder, AtEnd
  <2>5. got[c] \o down[c] \o Held(c) = Run(1, Length)
    BY <1>1, <2>2, <2>4 DEF EchoInv, Faithful
  <2>6. Held(c) = <<>>
    BY <2>4 DEF Held
  <2>7. got[c] \in Seq(0..Length) /\ down[c] \in Seq(0..Length)
    BY DEF TypeOK
  <2>8. got[c] \o down[c] \o <<>> = got[c] \o down[c] /\ got[c] \o <<>> = got[c]
    BY <2>7, EmptyAppend, ConcatEmptySeq
  <2> QED
    BY <2>2, <2>3, <2>5, <2>6, <2>8
<1> QED
  BY <1>2, <1>3

-----------------------------------------------------------------------------
(* The theorems. *)

LEMMA Initially == Init => IInv
<1> SUFFICES ASSUME Init PROVE IInv
  OBVIOUS
<1>1. \A c \in Clients : Faithful(c)
  <2> SUFFICES ASSUME NEW c \in Clients PROVE Faithful(c)
    OBVIOUS
  <2>1. got[c] = <<>> /\ down[c] = <<>> /\ Held(c) = <<>> /\ taken[c] = 0
    BY DEF Init, Held
  <2>2. Run(1, 0) = <<>>
    <3>1. Run(1, 0) \in Seq(1 .. 1 + 0 - 1) /\ Len(Run(1, 0)) = 0
      BY RunProperties
    <3> QED
      BY <3>1, EmptySeq
  <2>3. <<>> \o <<>> \o <<>> = <<>>
    BY EmptySeq, ConcatEmptySeq
  <2> QED
    BY <2>1, <2>2, <2>3 DEF Faithful
<1>2. EchoInv
  BY <1>1 DEF EchoInv
<1>3. SuccessIsComplete
  BY DEF Init, SuccessIsComplete
<1> QED
  BY <1>2, <1>3, InitTypes, InitOrders DEF IInv, Orders

LEMMA Inductive == IInv /\ [Next]_vars => IInv'
<1> SUFFICES ASSUME IInv, [Next]_vars PROVE IInv'
  OBVIOUS
<1>1. TypeOK /\ Orders /\ EchoInv /\ SuccessIsComplete
  BY DEF IInv, Orders
<1>2. TypeOK' /\ Orders' /\ EchoInv'
  <2>1. CASE ServerStep
    BY <1>1, <2>1, ServerTypes, ServerOrders, EchoServerStep
  <2>2. ASSUME NEW c \in Clients, ClientStep(c) \/ World(c)
        PROVE  TypeOK' /\ Orders' /\ EchoInv'
    BY <1>1, <2>2, ClientTypes, ClientOrders, EchoClientStep
  <2>3. CASE UNCHANGED vars
    BY <1>1, <2>3, StutterTypes, StutterOrders, StutterEcho
  <2> QED
    BY <2>1, <2>2, <2>3 DEF Next, Finished
<1>3. SuccessIsComplete'
  BY <1>1, SuccessStep
<1> QED
  BY <1>2, <1>3 DEF IInv, Orders

THEOREM Invariant == Spec => []IInv
  BY Initially, Inductive, PTL DEF Spec

(* Every program is at one of its calls, and no counter leaves its range.  *)
THEOREM TypeCorrect == Spec => []TypeOK
<1>1. IInv => TypeOK
  BY DEF IInv
<1> QED
  BY <1>1, Invariant, PTL

(* Server1's loop (Server1-msdn/Program.cpp:224-257) sends exactly what it *)
(* receives, however the stream is cut into recvs and sends.               *)
THEOREM FaithfulEcho == Spec => []EchoFaithful
<1>1. IInv => EchoFaithful
  BY DEF IInv, EchoInv, Faithful, EchoFaithful
<1> QED
  BY <1>1, Invariant, PTL

(* A Client4 that returns 0 (Client4-msdn-client/Program.cpp:186-227) has  *)
(* its whole echo from Server1.                                            *)
THEOREM CompleteSuccess == Spec => []SuccessIsComplete
<1>1. IInv => SuccessIsComplete
  BY DEF IInv
<1> QED
  BY <1>1, Invariant, PTL
=============================================================================
