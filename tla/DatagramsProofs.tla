--------------------------- MODULE DatagramsProofs ---------------------------
(***************************************************************************)
(* Proofs about Datagrams.tla: for any number of senders, whatever the     *)
(* network loses, delays and duplicates.                                   *)
(***************************************************************************)
EXTENDS Datagrams, TLAPS

(* Until the receiver ends there is no answer, and until its recv returns  *)
(* no message.                                                             *)
NoAnswerBefore ==
    /\ rpc \in {"bind", "recv"} => buffer = None
    /\ rpc # "ended" => answers = {} /\ \A p \in Procs : answer[p] = None

(* A sender's result comes with its send.                                  *)
ResultWithSend ==
    \A p \in Procs : pc[p] \in {"bind", "send"} => result[p] = "none"

(* The inductive invariant.  OneAnswer needs both: that the receiver ends  *)
(* with its only answer, and that a message on its way is nobody's who     *)
(* could still fail to send it.                                            *)
IInv ==
    /\ TypeOK
    /\ OneAnswer
    /\ NoAnswerBefore
    /\ ResultWithSend

(* The initial states satisfy the invariant.                               *)
LEMMA Initially == Init => IInv
<1> SUFFICES ASSUME Init PROVE IInv
  OBVIOUS
<1>1. TypeOK
  BY DEF Init, TypeOK
<1>2. OneAnswer
  BY DEF Init, OneAnswer
<1>3. NoAnswerBefore /\ ResultWithSend
  BY DEF Init, NoAnswerBefore, ResultWithSend
<1> QED
  BY <1>1, <1>2, <1>3 DEF IInv

(* The receiver's steps preserve it.                                       *)
LEMMA ReceiverStep == ASSUME IInv, Receiver PROVE IInv'
<1> USE DEF IInv
<1>1. CASE ReceiverBinds
  BY <1>1 DEF ReceiverBinds, TypeOK, OneAnswer, NoAnswerBefore, ResultWithSend
<1>2. CASE ReceiverReceives
  <2>1. TypeOK'
    BY <1>2 DEF ReceiverReceives, TypeOK
  <2>2. answers = {} /\ answers' = {} /\ \A p \in Procs : answer'[p] = None
    BY <1>2 DEF ReceiverReceives, NoAnswerBefore
  <2>3. messages' \cup {buffer'} \subseteq messages \cup {buffer}
    BY <1>2 DEF ReceiverReceives
  <2>4. (rpc' = "send" => buffer' # None) /\ rpc' \in {"send", "ended"}
    BY <1>2, NoneAssumption DEF ReceiverReceives, TypeOK, Procs
  <2>5. OneAnswer'
    BY <1>2, <2>2, <2>3, <2>4 DEF ReceiverReceives, OneAnswer
  <2>6. NoAnswerBefore' /\ ResultWithSend'
    BY <1>2, <2>4 DEF ReceiverReceives, NoAnswerBefore, ResultWithSend
  <2> QED
    BY <2>1, <2>5, <2>6
<1>3. CASE ReceiverAnswers
  <2>1. buffer \in Procs /\ rpc = "send" /\ rpc' = "ended"
    BY <1>3 DEF ReceiverAnswers, OneAnswer, TypeOK
  <2>2. PICK rest \in Leftovers :
            answers' \in {answers \cup {Answer(rest)}, answers}
    BY <1>3 DEF ReceiverAnswers
  <2>3. Answer(rest) \in Answers /\ Answer(rest).text = buffer
    BY <2>1, <2>2 DEF Answer, Answers
  <2>4. answers' \subseteq {Answer(rest)} /\ \A p \in Procs : answer'[p] = None
    BY <1>3, <2>1, <2>2 DEF ReceiverAnswers, NoAnswerBefore
  <2>5. TypeOK'
    BY <1>3, <2>1, <2>3, <2>4 DEF ReceiverAnswers, TypeOK
  <2>6. OneAnswer'
    <3>1. \A a \in (answers' \cup {answer'[p] : p \in Procs}) \ {None} :
              a = Answer(rest)
      BY <2>4
    <3> QED
      BY <1>3, <2>1, <2>3, <3>1 DEF ReceiverAnswers, OneAnswer
  <2>7. NoAnswerBefore' /\ ResultWithSend'
    BY <1>3, <2>1 DEF ReceiverAnswers, NoAnswerBefore, ResultWithSend
  <2> QED
    BY <2>5, <2>6, <2>7
<1> QED
  BY <1>1, <1>2, <1>3 DEF Receiver

(* A sender's steps preserve it.                                           *)
LEMMA SenderStep == ASSUME IInv, NEW p \in Procs, Sender(p) PROVE IInv'
<1> USE DEF IInv
<1>1. CASE Bind(p)
  BY <1>1 DEF Bind, Goto, TypeOK, OneAnswer, NoAnswerBefore, ResultWithSend
<1>2. CASE Send(p)
  <2>1. TypeOK'
    BY <1>2 DEF Send, Goto, AfterSend, TypeOK
  <2>2. result[p] = "none"
    BY <1>2 DEF Send, ResultWithSend
  <2>3. p \notin messages /\ p # buffer
    BY <2>2, NoneAssumption DEF OneAnswer, Procs
  <2>4. \A q \in Procs : q # p => result'[q] = result[q]
    BY <1>2 DEF Send, TypeOK
  <2>5. messages' \cup {buffer'} \subseteq {q \in Procs : result'[q] = "ok"} \cup {None}
    <3>1. SUFFICES ASSUME NEW m \in messages' \cup {buffer'}, m # None
                   PROVE  m \in Procs /\ result'[m] = "ok"
      OBVIOUS
    <3>2. CASE m = p
      <4>1. p \in messages'
        BY <1>2, <2>3, <3>1, <3>2 DEF Send
      <4>2. result' = [result EXCEPT ![p] = "ok"]
        BY <1>2, <2>3, <4>1 DEF Send
      <4> QED
        BY <3>2, <4>2 DEF TypeOK
    <3>3. CASE m # p
      <4>1. m \in messages \cup {buffer}
        BY <1>2, <3>1, <3>3 DEF Send
      <4> QED
        BY <2>4, <3>1, <3>3, <4>1 DEF OneAnswer
    <3> QED
      BY <3>2, <3>3
  <2>6. OneAnswer'
    BY <1>2, <2>5 DEF Send, OneAnswer
  <2>8. NoAnswerBefore'
    BY <1>2 DEF Send, NoAnswerBefore
  <2>9. ResultWithSend'
    BY <1>2, <2>4 DEF Send, Goto, AfterSend, TypeOK, ResultWithSend
  <2> QED
    BY <2>1, <2>6, <2>8, <2>9
<1>3. CASE Receive(p)
  <2>1. PICK a \in answers :
            /\ answer' = [answer EXCEPT ![p] = a]
            /\ answers' \in {answers, answers \ {a}}
    BY <1>3 DEF Receive
  <2>2. TypeOK'
    BY <1>3, <2>1 DEF Receive, Goto, TypeOK
  <2>3. rpc = "ended"
    BY <2>1 DEF NoAnswerBefore
  <2>4. \A q \in Procs : answer'[q] \in {answer[q], a}
    BY <2>1 DEF TypeOK
  <2>5. answers' \cup {answer'[q] : q \in Procs}
            \subseteq answers \cup {answer[q] : q \in Procs}
    BY <2>1, <2>4
  <2>6. OneAnswer'
    BY <1>3, <2>3, <2>5 DEF Receive, OneAnswer
  <2>7. NoAnswerBefore' /\ ResultWithSend'
    BY <1>3, <2>3 DEF Receive, Goto, TypeOK, NoAnswerBefore, ResultWithSend
  <2> QED
    BY <2>2, <2>6, <2>7
<1>4. CASE ReceiveFails(p)
  BY <1>4 DEF ReceiveFails, Goto, TypeOK, OneAnswer, NoAnswerBefore, ResultWithSend
<1>5. CASE Close(p)
  BY <1>5 DEF Close, Goto, TypeOK, OneAnswer, NoAnswerBefore, ResultWithSend
<1> QED
  BY <1>1, <1>2, <1>3, <1>4, <1>5 DEF Sender

(* So do the network's, and stuttering.                                    *)
LEMMA NetworkStep == ASSUME IInv, Network \/ UNCHANGED vars PROVE IInv'
<1> USE DEF IInv
<1>1. ASSUME NEW m \in messages, LoseMessage(m) PROVE IInv'
  BY <1>1 DEF LoseMessage, TypeOK, OneAnswer, NoAnswerBefore, ResultWithSend
<1>2. ASSUME NEW a \in answers, LoseAnswer(a) PROVE IInv'
  BY <1>2 DEF LoseAnswer, TypeOK, OneAnswer, NoAnswerBefore, ResultWithSend
<1>3. CASE UNCHANGED vars
  BY <1>3 DEF vars, TypeOK, OneAnswer, NoAnswerBefore, ResultWithSend
<1> QED
  BY <1>1, <1>2, <1>3 DEF Network

(* The invariant is inductive.                                             *)
LEMMA Invariant == Spec => []IInv
<1>1. IInv /\ [Next]_vars => IInv'
  BY ReceiverStep, SenderStep, NetworkStep DEF Next
<1> QED
  BY Initially, <1>1, PTL DEF Spec

(* The programs' places, sockets and datagrams have their types.           *)
THEOREM TypeCorrect == Spec => []TypeOK
<1>1. IInv => TypeOK
  BY DEF IInv
<1> QED
  BY Invariant, <1>1, PTL

(* There is one answer, however often it is copied: the bytes that begin   *)
(* with the one message UdpReceiver1 took, which was sent.                 *)
THEOREM OnlyAnswer == Spec => []OneAnswer
<1>1. IInv => OneAnswer
  BY DEF IInv
<1> QED
  BY Invariant, <1>1, PTL
=============================================================================
