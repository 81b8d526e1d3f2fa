----------------------------- MODULE WispProofs -----------------------------
(***************************************************************************)
(* Proofs about the Wisp server: the credit of a stream (WispFlow), the    *)
(* back-pressure of its channel (WispSend), the composition of the two     *)
(* (Wisp), and the table of streams with their goroutines (WispStreams).   *)
(***************************************************************************)
EXTENDS Wisp, WispStreams, SequenceTheorems, FiniteSetTheorems, TLAPS

(***************************************************************************)
(* WispFlow: the credit of a stream, for every allowance and threshold.    *)
(***************************************************************************)

\* The state of a stream has its type at the start.
LEMMA InitTyped == Init => TypeOK
<1>. SUFFICES ASSUME Init PROVE TypeOK
  OBVIOUS
<1>1. << >> \in Seq(0..Allowance)
  BY EmptySeq
<1>2. continues \in Seq(0..Allowance)
  BY <1>1, Zenon DEF Init
<1>3. /\ credit \in 0..Allowance /\ wire \in 0..MaxWire /\ queue \in 0..Allowance
      /\ writing \in 0..1 /\ consumed \in 0..(Threshold - 1)
  BY WispFlowAssumption DEF Init
<1>4. ready \in BOOLEAN /\ status \in {"open", "throttled", "closed"}
  BY Zenon DEF Init
<1>. QED
  BY <1>2, <1>3, <1>4, Zenon DEF TypeOK

\* Every step keeps the type: in particular the FIFO never holds more than
\* the allowance and a CONTINUE never grants more.
LEMMA StepTyped == TypeOK /\ [Next]_vars => TypeOK'
<1>. SUFFICES ASSUME TypeOK, [Next]_vars PROVE TypeOK'
  OBVIOUS
<1>. USE WispFlowAssumption DEF TypeOK
<1>1. CASE ClientSend
  BY <1>1 DEF ClientSend
<1>2. CASE ClientContinue
  <2>1. continues \in Seq(0..Allowance) /\ continues # << >>
    BY <1>2 DEF ClientContinue
  <2>2. Head(continues) \in 0..Allowance /\ Tail(continues) \in Seq(0..Allowance)
    BY <2>1, HeadTailProperties
  <2>. QED
    BY <1>2, <2>2 DEF ClientContinue
<1>3. CASE Receive
  BY <1>3 DEF Receive, Fits
<1>4. CASE Connected
  BY <1>4 DEF Connected
<1>5. CASE Take
  BY <1>5 DEF Take
<1>6. CASE Written
  <2>1. Remaining \in 0..Allowance
    BY DEF Remaining
  <2>2. Append(continues, Remaining) \in Seq(0..Allowance)
    BY <2>1, AppendProperties
  <2>3. continues' \in Seq(0..Allowance)
    BY <1>6, <2>2 DEF Written
  <2>4. consumed' \in 0..(Threshold - 1)
    BY <1>6 DEF Written
  <2>. QED
    BY <1>6, <2>3, <2>4 DEF Written
<1>7. CASE Fail
  BY <1>7 DEF Fail
<1>8. CASE UNCHANGED vars
  BY <1>8 DEF vars
<1>. QED
  BY <1>1, <1>2, <1>3, <1>4, <1>5, <1>6, <1>7, <1>8 DEF Next

\* The FIFO, the credit and writeLoop's counter stay within their limits.
THEOREM FlowTypeCorrect == Spec => []TypeOK
BY InitTyped, StepTyped, PTL DEF Spec
-----------------------------------------------------------------------------
(***************************************************************************)
(* NoCreditDeadlock is not inductive: it must be known how much of the     *)
(* allowance is still on its way.  While the stream is open, the last      *)
(* grant and everything writeLoop has yet to count add up to the allowance *)
(* or more; writeLoop's counter alone is below the threshold, so something *)
(* else is not zero.                                                       *)
(***************************************************************************)
FlowInv == status = "open" => EnoughToCome

\* The last grant after a CONTINUE is appended is that CONTINUE.
LEMMA GrantedAppend ==
  ASSUME TypeOK, NEW n \in 0..Allowance, continues' = Append(continues, n)
  PROVE  Granted' = n
<1>1. continues \in Seq(0..Allowance)
  BY DEF TypeOK
<1>2. Append(continues, n) # << >> /\ Len(Append(continues, n)) = Len(continues) + 1
  BY <1>1, AppendProperties
<1>3. Append(continues, n)[Len(continues) + 1] = n
  BY <1>1, AppendProperties
<1>. QED
  BY <1>2, <1>3 DEF Granted

\* Reading a CONTINUE does not change the last grant.
LEMMA GrantedContinue ==
  ASSUME TypeOK, ClientContinue
  PROVE  Granted' = Granted
<1>1. continues \in Seq(0..Allowance) /\ continues # << >>
  BY DEF TypeOK, ClientContinue
<1>2. Len(continues) \in Nat /\ Len(continues) # 0
  BY <1>1, EmptySeq
<1>3. continues' = Tail(continues) /\ credit' = continues[1]
  BY <1>1 DEF ClientContinue
<1>4. /\ Tail(continues) \in Seq(0..Allowance)
      /\ Len(Tail(continues)) = Len(continues) - 1
      /\ \A i \in 1 .. Len(Tail(continues)) : Tail(continues)[i] = continues[i + 1]
  BY <1>1, HeadTailProperties
<1>5. CASE Len(continues) = 1
  <2>1. Tail(continues) = << >>
    <3>1. \A seq \in Seq(0..Allowance) : seq # << >> => Len(seq) \in Nat \ {0}
      BY EmptySeq
    <3>2. Len(Tail(continues)) = 0
      BY <1>4, <1>5
    <3>. QED
      BY Zenon, <1>4, <3>1, <3>2
  <2>2. Granted = continues[1]
    BY <1>1, <1>5 DEF Granted
  <2>3. Granted' = credit'
    BY <1>3, <2>1 DEF Granted
  <2>. QED
    BY <1>3, <2>2, <2>3
<1>6. CASE Len(continues) # 1
  <2>1. Len(Tail(continues)) \in 1 .. Len(Tail(continues)) /\ Tail(continues) # << >>
    <3>1. Len(Tail(continues)) \in Nat \ {0}
      BY <1>2, <1>4, <1>6
    <3>2. Tail(continues) # << >>
      BY Zenon, <3>1, EmptySeq
    <3>. QED
      BY <3>1, <3>2
  <2>2. Tail(continues)[Len(Tail(continues))] = continues[Len(continues)]
    BY <1>2, <1>4, <2>1
  <2>3. Granted = continues[Len(continues)]
    BY <1>1 DEF Granted
  <2>4. Granted' = Tail(continues)[Len(Tail(continues))]
    BY <1>3, <2>1 DEF Granted
  <2>. QED
    BY Zenon, <2>2, <2>3, <2>4
<1>. QED
  BY <1>5, <1>6

\* Every step keeps the allowance accounted for.
LEMMA StepFlow == TypeOK /\ FlowInv /\ [Next]_vars => FlowInv'
<1>. SUFFICES ASSUME TypeOK, FlowInv, [Next]_vars, status' = "open"
              PROVE  EnoughToCome'
  BY DEF FlowInv
<1>. USE WispFlowAssumption
<1>1. status = "open" /\ EnoughToCome
  BY DEF FlowInv, Next, vars, ClientSend, ClientContinue, Receive, Connected, Take,
         Written, Fail
<1>2. Granted \in Nat
  BY LenProperties, ElementOfSeq, EmptySeq DEF Granted, TypeOK
<1>3. CASE ClientSend
  <2>1. credit \in Nat /\ credit' = credit - 1 /\ credit' \in Nat /\ continues' = continues
    BY <1>3 DEF ClientSend, TypeOK
  <2>2. CASE continues = << >>
    <3>1. Granted = credit /\ Granted' = credit'
      BY <2>1, <2>2 DEF Granted
    <3>. QED
      BY <1>1, <1>3, <2>1, <3>1 DEF ClientSend, EnoughToCome, TypeOK
  <2>3. CASE continues # << >>
    <3>1. Granted' = Granted
      BY <2>1, <2>3 DEF Granted
    <3>. QED
      BY <1>1, <1>2, <1>3, <3>1 DEF ClientSend, EnoughToCome, TypeOK
  <2>. QED
    BY <2>2, <2>3
<1>4. CASE ClientContinue
  BY <1>1, <1>4, GrantedContinue DEF ClientContinue, EnoughToCome
<1>5. CASE Receive
  <2>1. Granted' = Granted
    BY <1>5 DEF Receive, Granted
  <2>2. wire' = wire - 1 /\ queue' = queue + 1
    BY <1>5 DEF Receive
  <2>. QED
    BY <1>1, <1>2, <1>5, <2>1, <2>2 DEF Receive, EnoughToCome, TypeOK
<1>6. CASE Connected
  BY <1>1, <1>6 DEF Connected, EnoughToCome, Granted
<1>7. CASE Take
  BY <1>1, <1>2, <1>7 DEF Take, EnoughToCome, Granted, TypeOK
<1>8. CASE Written
  <2>1. CASE continues' = Append(continues, Remaining) /\ consumed' = 0
    <3>1. Remaining \in 0..Allowance
      BY DEF Remaining, TypeOK
    <3>2. Granted' = Allowance - queue
      BY <2>1, <3>1, GrantedAppend DEF Remaining
    <3>. QED
      BY <1>8, <2>1, <3>2 DEF Written, EnoughToCome, TypeOK
  <2>2. CASE consumed' = consumed + 1 /\ UNCHANGED continues
    <3>1. Granted' = Granted
      BY <1>8, <2>2 DEF Written, Granted
    <3>. QED
      BY <1>1, <1>2, <1>8, <2>2, <3>1 DEF Written, EnoughToCome, TypeOK
  <2>. QED
    BY <1>8, <2>1, <2>2 DEF Written
<1>9. CASE Fail
  BY <1>9 DEF Fail
<1>10. CASE UNCHANGED vars
  BY <1>1, <1>10 DEF vars, EnoughToCome, Granted
<1>. QED
  BY Zenon, <1>3, <1>4, <1>5, <1>6, <1>7, <1>8, <1>9, <1>10 DEF Next

\* For every allowance and threshold, a browser without credit on an open
\* stream has a packet on its way to be consumed or a CONTINUE on its way back.
THEOREM NoCreditDeadlockAlways == Spec => []NoCreditDeadlock
<1>1. Init => FlowInv
  BY WispFlowAssumption DEF Init, FlowInv, EnoughToCome, Granted
<1>2. TypeOK /\ FlowInv => NoCreditDeadlock
  BY WispFlowAssumption DEF TypeOK, FlowInv, EnoughToCome, Granted, NoCreditDeadlock
<1>. QED
  BY <1>1, <1>2, InitTyped, StepTyped, StepFlow, PTL DEF Spec
-----------------------------------------------------------------------------
(***************************************************************************)
(* WispSend: back-pressure, for any number of senders and any limits.      *)
(***************************************************************************)

\* Nobody holds sendMu at the start.
LEMMA SendInitTyped == SendInit => SendTypeOK
<1>. SUFFICES ASSUME SendInit PROVE SendTypeOK
  OBVIOUS
<1>1. sender \in [Senders -> {"idle", "lock", "check", "decided", "wait", "send"}]
  BY DEF SendInit
<1>2. ASSUME NEW s \in Senders
      PROVE  sender[s] \in {"check", "decided", "wait", "send"} <=> owner = s
  <2>1. sender[s] = "idle" /\ owner # s
    BY WispSendAssumption DEF SendInit
  <2>. QED
    BY <2>1
<1>. QED
  BY Zenon, <1>1, <1>2 DEF SendInit, SendTypeOK

\* Every step keeps the type, and with it the mutual exclusion of sendMu: a
\* sender between lock and unlock is the owner.
LEMMA SendTyped == SendTypeOK /\ [SendNext]_sendVars => SendTypeOK'
<1>. SUFFICES ASSUME SendTypeOK, [SendNext]_sendVars PROVE SendTypeOK'
  OBVIOUS
<1>. USE WispSendAssumption DEF SendTypeOK, Goto
<1>1. ASSUME NEW s \in Senders, Call(s) PROVE SendTypeOK'
  BY <1>1 DEF Call
<1>2. ASSUME NEW s \in Senders, Lock(s) PROVE SendTypeOK'
  BY <1>2 DEF Lock, Free
<1>3. ASSUME NEW s \in Senders, Check(s) PROVE SendTypeOK'
  BY <1>3 DEF Check
<1>4. ASSUME NEW s \in Senders, Wait(s) PROVE SendTypeOK'
  BY <1>4 DEF Wait
<1>5. ASSUME NEW s \in Senders, Token(s) PROVE SendTypeOK'
  BY Zenon, <1>5 DEF Token
<1>6. ASSUME NEW s \in Senders, GiveUp(s) PROVE SendTypeOK'
  BY <1>6 DEF GiveUp
<1>7. ASSUME NEW s \in Senders, NEW n \in 1..MaxPacket, Send(s, n) PROVE SendTypeOK'
  BY <1>7 DEF Send
<1>8. ASSUME NEW n \in 1..MaxPacket, Drain(n) PROVE SendTypeOK'
  <2>1. buffered' \in Nat
    BY <1>8 DEF Drain
  <2>2. falling' \in BOOLEAN
    BY <1>8, Zenon DEF Drain
  <2>. QED
    BY <1>8, <2>1, <2>2 DEF Drain
<1>9. CASE OnBufferedAmountLow
  BY Zenon, <1>9 DEF OnBufferedAmountLow, Left
<1>10. CASE Close
  BY <1>10 DEF Close
<1>11. CASE UNCHANGED sendVars
  BY Zenon, <1>11 DEF sendVars
<1>. QED
  BY Zenon, <1>1, <1>2, <1>3, <1>4, <1>5, <1>6, <1>7, <1>8, <1>9, <1>10, <1>11 DEF SendNext, Step

\* Senders exclude each other, however many there are.
THEOREM SendTypeCorrect == SendSpec => []SendTypeOK
BY SendInitTyped, SendTyped, PTL DEF SendSpec
-----------------------------------------------------------------------------
(***************************************************************************)
(* BufferBounded is not inductive: it must be known that the sender which  *)
(* is about to send found at most High buffered, and that nobody has added *)
(* to it since.                                                            *)
(***************************************************************************)
SendInv ==
  /\ BufferBounded
  /\ \A s \in Senders : sender[s] = "send" => buffered <= High

\* Every step keeps what the next sender found.
LEMMA StepSend == SendTypeOK /\ SendInv /\ [SendNext]_sendVars => SendInv'
<1>. SUFFICES ASSUME SendTypeOK, SendInv, [SendNext]_sendVars PROVE SendInv'
  OBVIOUS
<1>. USE WispSendAssumption DEF SendTypeOK, SendInv, BufferBounded, Goto
<1>1. ASSUME NEW s \in Senders, Call(s) PROVE SendInv'
  BY <1>1 DEF Call
<1>2. ASSUME NEW s \in Senders, Lock(s) PROVE SendInv'
  BY <1>2 DEF Lock
<1>3. ASSUME NEW s \in Senders, Check(s) PROVE SendInv'
  BY <1>3 DEF Check, TooMuch
<1>4. ASSUME NEW s \in Senders, Wait(s) PROVE SendInv'
  BY <1>4 DEF Wait
<1>5. ASSUME NEW s \in Senders, Token(s) PROVE SendInv'
  BY <1>5 DEF Token
<1>6. ASSUME NEW s \in Senders, GiveUp(s) PROVE SendInv'
  BY <1>6 DEF GiveUp
<1>7. ASSUME NEW s \in Senders, NEW n \in 1..MaxPacket, Send(s, n) PROVE SendInv'
  <2>1. BufferBounded'
    BY <1>7 DEF Send
  <2>2. \A t \in Senders : sender'[t] # "send"
    BY <1>7 DEF Send
  <2>. QED
    BY <2>1, <2>2
<1>8. ASSUME NEW n \in 1..MaxPacket, Drain(n) PROVE SendInv'
  BY <1>8 DEF Drain
<1>9. CASE OnBufferedAmountLow
  BY <1>9 DEF OnBufferedAmountLow
<1>10. CASE Close
  BY <1>10 DEF Close
<1>11. CASE UNCHANGED sendVars
  BY <1>11 DEF sendVars
<1>. QED
  BY Zenon, <1>1, <1>2, <1>3, <1>4, <1>5, <1>6, <1>7, <1>8, <1>9, <1>10, <1>11 DEF SendNext, Step

\* For any number of senders and any limit, the channel buffers at most one
\* packet more than maxBufferedAmount.
THEOREM BufferBoundedAlways == SendSpec => []BufferBounded
<1>1. SendInit => SendInv
  BY WispSendAssumption DEF SendInit, SendInv, BufferBounded
<1>2. SendInv => BufferBounded
  BY DEF SendInv
<1>. QED
  BY <1>1, <1>2, SendInitTyped, SendTyped, StepSend, PTL DEF SendSpec
-----------------------------------------------------------------------------
(***************************************************************************)
(* Wisp: the composition implements both of its parts, so what is shown of *)
(* the parts above holds of the composition.                               *)
(***************************************************************************)

\* Seen by the channel, every step is one of a sender, the network or the callback.
LEMMA WispStepSends == [WispNext]_wispVars => [SendNext]_sendVars
<1>. SUFFICES ASSUME [WispNext]_wispVars PROVE [SendNext]_sendVars
  OBVIOUS
<1>1. 1 \in 1..MaxPacket
  BY WispSendAssumption
<1>2. CASE StreamStep \/ BrowserReads \/ UNCHANGED wispVars
  BY <1>2 DEF StreamStep, BrowserReads, wispVars
<1>3. CASE Report \/ WriterStep
  BY <1>1, <1>3, WriterAssumption
     DEF Report, WriterStep, WriterSends, WriterGivesUp, SendNext, Step
<1>4. CASE ChannelStep
  BY <1>4 DEF ChannelStep, SendNext
<1>5. ASSUME NEW s \in Senders, SenderStep(s) \/ Enter(s) PROVE SendNext
  BY <1>5 DEF SenderStep, Enter, SendNext, Step
<1>6. ASSUME NEW n \in 1..MaxPacket, NetworkTakes(n) PROVE SendNext
  BY <1>6 DEF NetworkTakes, SendNext
<1>. QED
  BY <1>2, <1>3, <1>4, <1>5, <1>6 DEF WispNext

\* The composition implements sendFrame; so its buffer is bounded.
THEOREM WispImplementsSend == WispSpec => SendSpec
BY WispStepSends, PTL DEF WispSpec, WispInit, SendSpec

\* The channel of a composed stream buffers at most one packet more than
\* maxBufferedAmount, whatever its streams send.
THEOREM WispBufferBounded == WispSpec => []BufferBounded
BY WispImplementsSend, BufferBoundedAlways, PTL
-----------------------------------------------------------------------------
(***************************************************************************)
(* The flow control needs to know what writeLoop is sending while it is in *)
(* sendFrame: a capacity, never NoReport, read from a FIFO within its      *)
(* limits.                                                                 *)
(***************************************************************************)
WispInv ==
  /\ TypeOK
  /\ report \in 0..Allowance \cup {NoReport}
  /\ sender[Writer] # "idle" => report \in 0..Allowance

\* At the start writeLoop is not in sendFrame.
LEMMA WispInitInv == WispInit => WispInv
BY Zenon, InitTyped, WriterAssumption DEF WispInit, WispInv, SendInit

\* Only Report brings writeLoop into sendFrame, with a capacity; the report is dropped when
\* sendFrame returns.
LEMMA WispStepInv == WispInv /\ SendTypeOK /\ [WispNext]_wispVars => WispInv'
<1>. SUFFICES ASSUME WispInv, SendTypeOK, [WispNext]_wispVars PROVE WispInv'
  OBVIOUS
<1>. USE WispFlowAssumption, WriterAssumption DEF WispInv, NoReport
<1>1. CASE StreamStep
  <2>1. TypeOK'
    BY <1>1, StepTyped DEF StreamStep, Next
  <2>. QED
    BY <1>1, <2>1 DEF StreamStep, sendVars
<1>2. CASE Report
  <2>1. Remaining \in 0..Allowance
    BY DEF Remaining, TypeOK
  <2>2. TypeOK'
    BY <1>2 DEF Report, TypeOK
  <2>. QED
    BY <1>2, <2>1, <2>2 DEF Report
<1>3. CASE WriterStep
  <2>1. SendFailed \/ (continues' = Append(continues, report) /\ report' = NoReport
                       /\ UNCHANGED <<credit, wire, queue, ready, writing, consumed, status>>)
    BY <1>3 DEF WriterStep, WriterSends, WriterGivesUp
  <2>2. sender[Writer] # "idle" /\ sender'[Writer] = "idle"
    BY <1>3 DEF WriterStep, WriterSends, WriterGivesUp, Send, GiveUp, Goto, SendTypeOK
  <2>3. CASE SendFailed
    BY <2>2, <2>3 DEF SendFailed, TypeOK
  <2>4. CASE continues' = Append(continues, report) /\ report' = NoReport
             /\ UNCHANGED <<credit, wire, queue, ready, writing, consumed, status>>
    <3>1. Append(continues, report) \in Seq(0..Allowance)
      BY <2>2, AppendProperties DEF TypeOK
    <3>. QED
      BY <2>2, <2>4, <3>1 DEF TypeOK
  <2>. QED
    BY <2>1, <2>3, <2>4
<1>4. ASSUME UNCHANGED <<vars, report>>, sender'[Writer] # "idle" => sender[Writer] # "idle"
      PROVE  WispInv'
  BY Zenon, <1>4 DEF vars, TypeOK
<1>5. ASSUME NEW s \in Senders, SenderStep(s) \/ Enter(s) PROVE WispInv'
  <2>1. sender'[Writer] # "idle" => sender[Writer] # "idle"
    BY <1>5 DEF SenderStep, Enter, Check, Wait, Token, GiveUp, Send, Lock, Call, Goto, SendTypeOK
  <2>. QED
    BY Zenon, <1>4, <1>5, <2>1 DEF SenderStep, Enter
<1>6. ASSUME NEW n \in 1..MaxPacket, NetworkTakes(n) PROVE WispInv'
  BY <1>4, <1>6 DEF NetworkTakes, Drain
<1>7. CASE BrowserReads
  <2>1. TypeOK'
    BY <1>7, StepTyped DEF BrowserReads, Next
  <2>. QED
    BY <1>7, <2>1 DEF BrowserReads, sendVars
<1>8. CASE ChannelStep \/ UNCHANGED wispVars
  BY <1>4, <1>8 DEF ChannelStep, OnBufferedAmountLow, Close, wispVars, sendVars
<1>. QED
  BY Zenon, <1>1, <1>2, <1>3, <1>5, <1>6, <1>7, <1>8 DEF WispNext

\* Seen by the flow control, every step of the composition is a step of WispFlow or none:
\* Report is the moment a CONTINUE is sent, and a call of sendFrame that fails closes the stream.
LEMMA WispStepFlows ==
  WispInv /\ SendTypeOK /\ [WispNext]_wispVars => [Flow!Next]_(Flow!vars)
<1>. SUFFICES ASSUME WispInv, SendTypeOK, [WispNext]_wispVars PROVE [Flow!Next]_(Flow!vars)
  OBVIOUS
<1>. USE WispFlowAssumption, WriterAssumption DEF WispInv, NoReport
<1>1. CASE StreamStep
  <2>1. CASE ClientSend
    BY <1>1, <2>1 DEF StreamStep, ClientSend, Flow!ClientSend, Flow!Next
  <2>2. CASE Receive
    BY <1>1, <2>2 DEF StreamStep, Receive, Fits, Flow!Receive, Flow!Fits, Flow!Next
  <2>3. CASE Connected
    BY <1>1, <2>3 DEF StreamStep, Connected, Flow!Connected, Flow!Next
  <2>4. CASE Fail
    BY <1>1, <2>4 DEF StreamStep, Fail, Flow!Fail, Flow!Next
  <2>5. CASE Resting /\ Take
    BY <1>1, <2>5 DEF StreamStep, Resting, Take, Flow!Take, Flow!Next
  <2>6. CASE Resting /\ consumed + 1 < Threshold /\ Written
    BY <1>1, <2>6 DEF StreamStep, Resting, Written, Flow!Written, Flow!Next, TypeOK
  <2>. QED
    BY Zenon, <1>1, <2>1, <2>2, <2>3, <2>4, <2>5, <2>6 DEF StreamStep
<1>2. CASE Report
  <2>1. Remaining \in 0..Allowance
    BY DEF Remaining, TypeOK
  <2>. QED
    BY <1>2, <2>1 DEF Report, Resting, Remaining, Flow!Written, Flow!Remaining, Flow!Next
<1>3. CASE WriterStep
  <2>1. report \in 0..Allowance
    BY <1>3 DEF WriterStep, WriterSends, WriterGivesUp, Send, GiveUp
  <2>2. SendFailed \/ (continues' = Append(continues, report) /\ report' = NoReport
                       /\ UNCHANGED <<credit, wire, queue, ready, writing, consumed, status>>)
    BY <1>3 DEF WriterStep, WriterSends, WriterGivesUp
  <2>3. CASE SendFailed
    BY <2>3 DEF SendFailed, Flow!Fail, Flow!Next, Flow!vars
  <2>4. CASE continues' = Append(continues, report) /\ report' = NoReport
             /\ UNCHANGED <<credit, wire, queue, ready, writing, consumed, status>>
    BY <2>1, <2>4 DEF Flow!vars
  <2>. QED
    BY <2>2, <2>3, <2>4
<1>4. CASE BrowserReads
  <2>1. continues \in Seq(0..Allowance) /\ continues # << >>
    BY <1>4 DEF BrowserReads, ClientContinue, TypeOK
  <2>2. /\ Head(Append(continues, report)) = Head(continues)
        /\ Tail(Append(continues, report)) = Append(Tail(continues), report)
    BY <2>1, HeadTailAppend
  <2>3. Append(continues, report) # << >>
    BY <2>1, report \in Nat, AppendProperties
  <2>. QED
    BY Zenon, <1>4, <2>1, <2>2, <2>3 DEF BrowserReads, ClientContinue, Flow!ClientContinue, Flow!Next
<1>5. CASE UNCHANGED <<vars, report>>
  BY <1>5 DEF vars, Flow!vars
<1>. QED
  BY Zenon, <1>1, <1>2, <1>3, <1>4, <1>5
     DEF WispNext, SenderStep, Enter, NetworkTakes, ChannelStep, wispVars

\* A stream whose CONTINUE packets wait in sendFrame behind other streams implements the flow
\* control of WispFlow, for any allowance, threshold and limits: a stale capacity is no worse
\* than one that travels for long.
THEOREM WispRefinement == WispSpec => ImplementsFlow
<1>1. WispInit => Flow!Init
  BY DEF WispInit, Init, Flow!Init, NoReport
<1>. QED
  BY <1>1, SendInitTyped, SendTyped, WispStepSends, WispInitInv, WispStepInv, WispStepFlows, PTL
     DEF WispSpec, WispInit, ImplementsFlow, Flow!Spec
-----------------------------------------------------------------------------
(***************************************************************************)
(* WispStreams: the table and the goroutines, for any sets of ids and of   *)
(* streams and any limit.                                                  *)
(*                                                                         *)
(* LiveIsListed speaks of the streams on which close() was not called.  It *)
(* is kept because an id stays taken while close() has not yet removed it: *)
(* a stream that is cancelled is listed too, so no other stream can have   *)
(* got its id when Remove deletes the entry.                               *)
(***************************************************************************)
Unremoved == {"open", "cancelled"}

StreamsInv ==
  /\ StreamsTypeOK /\ IsFiniteSet(DOMAIN table)
  /\ \A o \in DOMAIN stream : stream[o].phase \in Unremoved =>
       stream[o].id \in DOMAIN table /\ table[stream[o].id] = o
  /\ NoLeakedConnection

\* What a goroutine may make of the record of its stream: it keeps the id, never takes a
\* close back, and leaves no connection open when the stream is closed.
Keeps(s, r) ==
  /\ r \in Stream /\ r.id = s.id
  /\ r.phase \in Unremoved => s.phase \in Unremoved
  /\ r.phase = "closed" => r.conn # "open"

\* A step that changes the record of one stream in this way, and no other, keeps the invariant.
LEMMA OneStreamKeeps ==
  ASSUME StreamsInv, NEW o \in DOMAIN stream, NEW r, Keeps(stream[o], r),
         stream' = [stream EXCEPT ![o] = r], left' \subseteq left,
         UNCHANGED <<table, handshaken, cancelled, closed, sweeping, crashed>>
  PROVE  StreamsInv'
<1>1. /\ stream \in [DOMAIN stream -> Stream] /\ DOMAIN stream \subseteq Streams
      /\ DOMAIN stream' = DOMAIN stream
  BY DEF StreamsInv, StreamsTypeOK
<1>2. stream' \in [DOMAIN stream' -> Stream]
  BY <1>1 DEF Keeps
<1>3. ASSUME NEW q \in DOMAIN stream
      PROVE  Keeps(stream[q], stream'[q]) \/ stream'[q] = stream[q]
  BY <1>1, <1>3
<1>4. StreamsTypeOK'
  BY <1>1, <1>2 DEF StreamsInv, StreamsTypeOK
<1>5. \A q \in DOMAIN stream' : stream'[q].phase \in Unremoved =>
        stream'[q].id \in DOMAIN table' /\ table'[stream'[q].id] = q
  BY <1>1, <1>3 DEF StreamsInv, Keeps
<1>6. NoLeakedConnection'
  BY <1>1, <1>3 DEF StreamsInv, NoLeakedConnection, Keeps
<1>. QED
  BY <1>4, <1>5, <1>6 DEF StreamsInv

\* close() on a stream cancels it, or finds that it is closed already.
LEMMA ClosingKeeps ==
  ASSUME StreamsInv, NEW o \in DOMAIN stream
  PROVE  Keeps(stream[o], Closing(o)) /\ Closing(o) \in Stream
<1>1. stream[o] \in Stream
  BY DEF StreamsInv, StreamsTypeOK
<1>2. stream[o].phase = "closed" => stream[o].conn # "open"
  BY DEF StreamsInv, NoLeakedConnection
<1>. QED
  BY <1>1, <1>2 DEF Closing, First, Keeps, Stream, Unremoved

\* Every step of a goroutine of stream o, but for the removal, changes its record only.
LEMMA GoroutineKeeps ==
  ASSUME StreamsInv, NEW o \in DOMAIN stream,
         SweepOne(o) \/ CloseConn(o) \/ Dial(o) \/ Store(o) \/ ConnectEnds(o)
           \/ WriterStarts(o) \/ ReadEnds(o) \/ WriterEnds(o)
  PROVE  StreamsInv'
<1>1. stream[o] \in Stream
  BY Zenon DEF StreamsInv, StreamsTypeOK
<1>2. stream[o].phase = "closed" => stream[o].conn # "open"
  BY DEF StreamsInv, NoLeakedConnection
<1>3. Keeps(stream[o], Closing(o)) /\ Closing(o) \in Stream
  BY ClosingKeeps
<1>4. stream \in [DOMAIN stream -> Stream]
  BY DEF StreamsInv, StreamsTypeOK
<1>5. CASE SweepOne(o)
  <2>1. left' \subseteq left /\ stream' = [stream EXCEPT ![o] = Closing(o)]
    BY <1>5 DEF SweepOne
  <2>2. UNCHANGED <<table, handshaken, cancelled, closed, sweeping, crashed>>
    BY <1>5 DEF SweepOne
  <2>. QED
    BY Zenon, <1>3, <2>1, <2>2, OneStreamKeeps
<1>6. CASE CloseConn(o)
  <2>. DEFINE r == [stream[o] EXCEPT !.phase = "closed",
                                     !.conn = IF @ = "open" THEN "closed" ELSE @]
  <2>1. Keeps(stream[o], r) /\ stream' = [stream EXCEPT ![o] = r] /\ UNCHANGED Others
    BY Zenon, <1>1, <1>4, <1>6 DEF CloseConn, Keeps, Stream, Unremoved
  <2>. QED
    BY Zenon, <2>1, OneStreamKeeps DEF Others
<1>7. CASE Dial(o)
  <2>1. PICK v \in {"refused", "dialled"} :
          stream' = [stream EXCEPT ![o] = [stream[o] EXCEPT !.connect = v]] /\ UNCHANGED Others
    BY <1>4, <1>7 DEF Dial
  <2>2. Keeps(stream[o], [stream[o] EXCEPT !.connect = v])
    BY <1>1, <1>2 DEF Keeps, Stream, Unremoved
  <2>. QED
    BY Zenon, <2>1, <2>2, OneStreamKeeps DEF Others
<1>8. CASE Store(o)
  <2>1. \E r : /\ Keeps(stream[o], r) /\ stream' = [stream EXCEPT ![o] = r]
               /\ UNCHANGED Others
    <3>1. CASE stream[o].connect = "dialled"
      <4>. DEFINE r == [stream[o] EXCEPT !.connect = "stored",
                          !.conn = IF CtxDone(o) THEN "discarded" ELSE "open"]
      <4>1. stream' = [stream EXCEPT ![o] = r] /\ UNCHANGED Others
        BY <1>4, <1>8, <3>1 DEF Store
      <4>2. Keeps(stream[o], r)
        BY Zenon, <1>1 DEF Keeps, Stream, Unremoved, CtxDone
      <4>. QED
        BY Zenon, <4>1, <4>2
    <3>2. CASE stream[o].connect = "refused"
      <4>. DEFINE r == [stream[o] EXCEPT !.connect = "failed"]
      <4>1. stream' = [stream EXCEPT ![o] = r] /\ UNCHANGED Others
        BY <1>4, <1>8, <3>2 DEF Store
      <4>2. Keeps(stream[o], r)
        BY Zenon, <1>1, <1>2 DEF Keeps, Stream, Unremoved
      <4>. QED
        BY Zenon, <4>1, <4>2
    <3>. QED
      BY <1>8, <3>1, <3>2 DEF Store
  <2>. QED
    BY Zenon, <2>1, OneStreamKeeps DEF Others
<1>9. CASE ConnectEnds(o)
  <2>1. \E r : /\ Keeps(stream[o], r) /\ stream' = [stream EXCEPT ![o] = r]
               /\ UNCHANGED Others
    <3>1. CASE stream[o].connect = "failed"
      <4>. DEFINE r == [Closing(o) EXCEPT !.connect = "end"]
      <4>1. stream' = [stream EXCEPT ![o] = r] /\ UNCHANGED Others
        BY <1>9, <3>1 DEF ConnectEnds
      <4>2. Keeps(stream[o], r)
        BY <1>3 DEF Keeps, Stream, Unremoved
      <4>. QED
        BY Zenon, <4>1, <4>2
    <3>2. CASE stream[o].connect = "stored"
      <4>. DEFINE r == [stream[o] EXCEPT !.connect = "end",
                          !.reader = IF stream[o].conn = "discarded" THEN "nil" ELSE "run"]
      <4>1. stream' = [stream EXCEPT ![o] = r] /\ UNCHANGED Others
        BY <1>4, <1>9, <3>2 DEF ConnectEnds
      <4>2. Keeps(stream[o], r)
        BY Zenon, <1>1, <1>2 DEF Keeps, Stream, Unremoved
      <4>. QED
        BY Zenon, <4>1, <4>2
    <3>. QED
      BY <1>9, <3>1, <3>2 DEF ConnectEnds
  <2>. QED
    BY Zenon, <2>1, OneStreamKeeps DEF Others
<1>10. CASE ReadEnds(o)
  <2>1. Keeps(stream[o], [Closing(o) EXCEPT !.reader = "end"])
    BY <1>3 DEF Keeps, Stream, Unremoved
  <2>. QED
    BY Zenon, <1>10, <2>1, OneStreamKeeps DEF ReadEnds, Others
<1>11. CASE WriterStarts(o)
  <2>1. PICK v \in {"run", "end"} :
          stream' = [stream EXCEPT ![o] = [stream[o] EXCEPT !.writer = v]] /\ UNCHANGED Others
    BY <1>4, <1>11 DEF WriterStarts
  <2>2. Keeps(stream[o], [stream[o] EXCEPT !.writer = v])
    BY <1>1, <1>2 DEF Keeps, Stream, Unremoved
  <2>. QED
    BY Zenon, <2>1, <2>2, OneStreamKeeps DEF Others
<1>12. CASE WriterEnds(o)
  <2>1. Keeps(stream[o], [Closing(o) EXCEPT !.writer = "end"])
    BY <1>3 DEF Keeps, Stream, Unremoved
  <2>2. Keeps(stream[o], [stream[o] EXCEPT !.writer = "end"])
    BY <1>1, <1>2 DEF Keeps, Stream, Unremoved
  <2>3. /\ UNCHANGED Others
        /\ \/ stream' = [stream EXCEPT ![o] = [stream[o] EXCEPT !.writer = "end"]]
           \/ stream' = [stream EXCEPT ![o] = [Closing(o) EXCEPT !.writer = "end"]]
    BY <1>4, <1>12 DEF WriterEnds
  <2>. QED
    BY <2>1, <2>2, <2>3, OneStreamKeeps DEF Others
<1>. QED
  BY Zenon, <1>5, <1>6, <1>7, <1>8, <1>9, <1>10, <1>11, <1>12

\* Steps that leave the table and the streams alone.
LEMMA ServerKeeps ==
  ASSUME StreamsInv, UNCHANGED <<table, stream>>, left' \subseteq DOMAIN stream,
         {handshaken', cancelled', closed', sweeping', crashed'} \subseteq BOOLEAN
  PROVE  StreamsInv'
<1>1. StreamsTypeOK'
  BY DEF StreamsInv, StreamsTypeOK
<1>2. NoLeakedConnection'
  BY Zenon DEF StreamsInv, NoLeakedConnection
<1>. QED
  BY <1>1, <1>2 DEF StreamsInv

\* openStream takes a free id and a new stream object, and only below the limit.
LEMMA ConnectKeeps ==
  ASSUME StreamsInv, NEW i \in StreamIds, NEW o \in Streams, Connect(i, o)
  PROVE  StreamsInv'
<1>. DEFINE r == [id |-> i, phase |-> "open", connect |-> IF cancelled THEN "doomed" ELSE "dialing",
                  conn |-> "nil", reader |-> "none", writer |-> "wait"]
<1>1. /\ DOMAIN stream \subseteq Streams /\ stream \in [DOMAIN stream -> Stream]
      /\ DOMAIN table \subseteq StreamIds /\ table \in [DOMAIN table -> DOMAIN stream]
  BY DEF StreamsInv, StreamsTypeOK
<1>2. r \in Stream
  BY Zenon DEF Stream
<1>3. /\ i \notin DOMAIN table /\ o \notin DOMAIN stream
      /\ table' = With(table, i, o) /\ stream' = With(stream, o, r)
      /\ UNCHANGED <<handshaken, cancelled, closed, sweeping, left, crashed>>
  BY DEF Connect
<1>. HIDE DEF r
<1>4. /\ DOMAIN table' = DOMAIN table \cup {i} /\ DOMAIN stream' = DOMAIN stream \cup {o}
      /\ table'[i] = o /\ stream'[o] = r
      /\ \A k \in DOMAIN table : table'[k] = table[k]
      /\ \A q \in DOMAIN stream : stream'[q] = stream[q]
      /\ table' \in [DOMAIN table \cup {i} -> DOMAIN stream \cup {o}]
      /\ stream' \in [DOMAIN stream \cup {o} -> Stream]
  BY Zenon, <1>1, <1>2, <1>3 DEF With
<1>5. IsFiniteSet(DOMAIN table') /\ Cardinality(DOMAIN table') = Cardinality(DOMAIN table) + 1
  BY <1>3, <1>4, FS_AddElement DEF StreamsInv
<1>6. Cardinality(DOMAIN table') <= MaxStreams
  <2>1. Cardinality(DOMAIN table) \in Nat
    BY Zenon, FS_CardinalityType DEF StreamsInv
  <2>2. Cardinality(DOMAIN table) < MaxStreams
    BY Zenon DEF Connect, Room
  <2>. QED
    BY <1>5, <2>1, <2>2, WispStreamsAssumption
<1>7. StreamsTypeOK'
  <2>1. left' \subseteq DOMAIN stream'
    BY <1>3, <1>4 DEF StreamsInv, StreamsTypeOK
  <2>2. {handshaken, cancelled, closed, sweeping, crashed}' \subseteq BOOLEAN
    BY <1>3 DEF StreamsInv, StreamsTypeOK
  <2>. QED
    BY Zenon, <1>1, <1>4, <1>6, <2>1, <2>2 DEF StreamsTypeOK
<1>8. r.id = i /\ r.phase = "open"
  BY Zenon DEF r
<1>9. \A q \in DOMAIN stream' : stream'[q].phase \in Unremoved =>
        stream'[q].id \in DOMAIN table' /\ table'[stream'[q].id] = q
  BY Zenon, <1>4, <1>8 DEF StreamsInv
<1>10. NoLeakedConnection'
  BY Zenon, <1>4, <1>8 DEF StreamsInv, NoLeakedConnection
<1>. QED
  BY <1>5, <1>7, <1>9, <1>10 DEF StreamsInv

\* close() deletes the id under which its own stream is listed, so every other stream that is
\* not yet removed stays listed.
LEMMA RemoveKeeps ==
  ASSUME StreamsInv, NEW o \in DOMAIN stream, Remove(o)
  PROVE  StreamsInv'
<1>. DEFINE d == DOMAIN table \ {stream[o].id}
<1>1. /\ DOMAIN stream \subseteq Streams /\ stream \in [DOMAIN stream -> Stream]
      /\ DOMAIN table \subseteq StreamIds /\ table \in [DOMAIN table -> DOMAIN stream]
  BY DEF StreamsInv, StreamsTypeOK
<1>2. /\ stream[o].phase = "cancelled" /\ table' = [i \in d |-> table[i]]
      /\ stream' = [stream EXCEPT ![o].phase = "removed"]
      /\ UNCHANGED <<handshaken, cancelled, closed, sweeping, left, crashed>>
  BY DEF Remove
<1>3. /\ DOMAIN table' = d /\ \A i \in d : table'[i] = table[i]
      /\ DOMAIN stream' = DOMAIN stream
      /\ table' \in [d -> DOMAIN stream]
  BY <1>1, <1>2
<1>4. /\ stream' \in [DOMAIN stream -> Stream] /\ stream'[o].phase = "removed"
      /\ \A q \in DOMAIN stream : q # o => stream'[q] = stream[q]
  BY <1>1, <1>2 DEF Stream
<1>5. table[stream[o].id] = o /\ stream[o].id \in DOMAIN table
  BY <1>2 DEF StreamsInv, Unremoved
<1>6. IsFiniteSet(DOMAIN table') /\ Cardinality(DOMAIN table') <= MaxStreams
  <2>1. IsFiniteSet(DOMAIN table) /\ DOMAIN table' \in SUBSET DOMAIN table
    BY <1>3 DEF StreamsInv
  <2>2. /\ IsFiniteSet(DOMAIN table')
        /\ Cardinality(DOMAIN table') \in Nat /\ Cardinality(DOMAIN table) \in Nat
        /\ Cardinality(DOMAIN table') <= Cardinality(DOMAIN table)
    BY <2>1, FS_Subset, FS_CardinalityType
  <2>3. Cardinality(DOMAIN table) <= MaxStreams
    BY DEF StreamsInv, StreamsTypeOK
  <2>. QED
    BY SMTT(30), <2>2, <2>3, WispStreamsAssumption
<1>7. StreamsTypeOK'
  <2>1. left' \subseteq DOMAIN stream'
    BY <1>2, <1>3 DEF StreamsInv, StreamsTypeOK
  <2>2. {handshaken, cancelled, closed, sweeping, crashed}' \subseteq BOOLEAN
    BY Zenon, <1>2 DEF StreamsInv, StreamsTypeOK
  <2>. QED
    BY <1>1, <1>3, <1>4, <1>6, <2>1, <2>2 DEF StreamsTypeOK
<1>8. \A q \in DOMAIN stream' : stream'[q].phase \in Unremoved =>
        stream'[q].id \in DOMAIN table' /\ table'[stream'[q].id] = q
  <2>. SUFFICES ASSUME NEW q \in DOMAIN stream, stream'[q].phase \in Unremoved
                PROVE  stream'[q].id \in DOMAIN table' /\ table'[stream'[q].id] = q
    BY <1>3
  <2>1. q # o
    BY Zenon, <1>4 DEF Unremoved
  <2>2. stream[q].id \in DOMAIN table /\ table[stream[q].id] = q
    BY <1>4, <2>1 DEF StreamsInv
  <2>3. stream[q].id # stream[o].id
    BY Zenon, <1>5, <2>1, <2>2
  <2>. QED
    BY Zenon, <1>3, <1>4, <2>1, <2>2, <2>3
<1>9. NoLeakedConnection'
  BY <1>3, <1>4 DEF StreamsInv, NoLeakedConnection
<1>. QED
  BY <1>6, <1>7, <1>8, <1>9 DEF StreamsInv

\* The invariant of the streams is inductive.
LEMMA StreamsStep == StreamsInv /\ [StreamsNext]_streamsVars => StreamsInv'
<1>. SUFFICES ASSUME StreamsInv, [StreamsNext]_streamsVars PROVE StreamsInv'
  OBVIOUS
<1>1. /\ {handshaken, cancelled, closed, sweeping, crashed} \subseteq BOOLEAN
      /\ left \subseteq DOMAIN stream /\ table \in [DOMAIN table -> DOMAIN stream]
  BY DEF StreamsInv, StreamsTypeOK
<1>2. CASE Handshake \/ PeerCancelled \/ SweepEnds \/ UNCHANGED streamsVars
  BY Zenon, <1>1, <1>2, ServerKeeps DEF Handshake, PeerCancelled, SweepEnds, streamsVars
<1>3. CASE BadPacket \/ ChannelCloses
  <2>1. Snapshot \subseteq DOMAIN stream
    BY <1>1 DEF Snapshot
  <2>. QED
    BY Zenon, <1>1, <1>3, <2>1, ServerKeeps DEF BadPacket, ChannelCloses, Sweep
<1>4. ASSUME NEW o \in DOMAIN stream, ReadPanics(o) PROVE StreamsInv'
  BY <1>1, <1>4, ServerKeeps DEF ReadPanics
<1>5. ASSUME NEW o \in DOMAIN stream,
             SweepOne(o) \/ Goroutine(o) \/ ReadEnds(o) \/ WriterEnds(o)
      PROVE  StreamsInv'
  BY <1>4, <1>5, GoroutineKeeps, RemoveKeeps DEF Goroutine
<1>6. ASSUME NEW i \in StreamIds, CloseOrOverflow(i) PROVE StreamsInv'
  <2>1. table[i] \in DOMAIN stream
    BY <1>1, <1>6 DEF CloseOrOverflow
  <2>2. Keeps(stream[table[i]], Closing(table[i]))
    BY <2>1, ClosingKeeps
  <2>3. /\ stream' = [stream EXCEPT ![table[i]] = Closing(table[i])]
        /\ UNCHANGED Others
    BY <1>6 DEF CloseOrOverflow
  <2>. QED
    BY Zenon, <2>1, <2>2, <2>3, OneStreamKeeps DEF Others
<1>7. ASSUME NEW i \in StreamIds, NEW o \in Streams, Connect(i, o) PROVE StreamsInv'
  BY <1>7, ConnectKeeps
<1>. QED
  BY <1>2, <1>3, <1>5, <1>6, <1>7 DEF StreamsNext

\* At the start there is no stream.
LEMMA StreamsInitInv == StreamsInit => StreamsInv
<1>. SUFFICES ASSUME StreamsInit PROVE StreamsInv
  OBVIOUS
<1>1. DOMAIN table = {} /\ DOMAIN stream = {} /\ left = {}
  BY DEF StreamsInit
<1>2. table \in [DOMAIN table -> DOMAIN stream] /\ stream \in [DOMAIN stream -> Stream]
  BY DEF StreamsInit
<1>3. IsFiniteSet(DOMAIN table) /\ Cardinality(DOMAIN table) <= MaxStreams
  BY <1>1, FS_EmptySet, WispStreamsAssumption
<1>4. {handshaken, cancelled, closed, sweeping, crashed} \subseteq BOOLEAN
  BY Zenon DEF StreamsInit
<1>. QED
  BY <1>1, <1>2, <1>3, <1>4 DEF StreamsInv, StreamsTypeOK, NoLeakedConnection

\* For any ids, streams and limit, a stream on which close() was not called is in the table
\* under its id, and the table is never above maxConcurrentStreams.
THEOREM LiveIsListedAlways == StreamsSpec => []LiveIsListed
<1>1. StreamsInv => LiveIsListed
  BY DEF StreamsInv, LiveIsListed, Unremoved
<1>. QED
  BY <1>1, StreamsInitInv, StreamsStep, PTL DEF StreamsSpec

\* For any ids, streams and limit, no closed stream keeps a connection open, whichever of
\* connect and close took connMu first.
THEOREM NoLeakedConnectionAlways == StreamsSpec => []NoLeakedConnection
<1>1. StreamsInv => NoLeakedConnection
  BY DEF StreamsInv
<1>. QED
  BY <1>1, StreamsInitInv, StreamsStep, PTL DEF StreamsSpec
=============================================================================
