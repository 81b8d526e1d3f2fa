-------------------------------- MODULE Wisp --------------------------------
(***************************************************************************)
(* A Wisp stream and the channel it shares (internal/wisp/server.go): the  *)
(* flow control of WispFlow whose CONTINUE packets go through the          *)
(* sendFrame of WispSend.  writeLoop reads what is left of the FIFO, and   *)
(* then waits in sendFrame, behind the other senders and the buffer, while *)
(* more packets arrive; the browser sees the packet once the network has   *)
(* taken it.                                                               *)
(***************************************************************************)
EXTENDS WispFlow, WispSend

CONSTANT Writer  \* the stream's writeLoop, one of the senders

ASSUME WriterAssumption == Writer \in Senders

VARIABLES
  report,  \* the capacity writeLoop is sending, or NoReport
  held     \* CONTINUE packets in the buffer: how much the network takes up to each

wispVars == <<vars, sendVars, report, held>>

NoReport == Allowance + 1

WispInit == Init /\ SendInit /\ report = NoReport /\ held = << >>
-----------------------------------------------------------------------------
\* writeLoop is not in sendFrame.
Resting == report = NoReport

\* The steps of the stream that send nothing.
StreamStep ==
  /\ \/ ClientSend \/ Receive \/ Connected \/ Fail
     \/ Resting /\ Take
     \/ Resting /\ consumed + 1 < Threshold /\ Written
  /\ UNCHANGED <<sendVars, report, held>>

\* Every Threshold packets writeLoop calls sendFrame with the capacity it reads now.
Report ==
  /\ status = "open" /\ Resting /\ writing = 1
  /\ consumed + 1 >= Threshold /\ Len(continues) < MaxContinues
  /\ writing' = 0 /\ consumed' = 0 /\ report' = Remaining
  /\ Call(Writer)
  /\ UNCHANGED <<credit, wire, queue, ready, continues, status, held>>

\* A bug: the error of sendFrame is ignored.
SendFailedIgnored == report' = NoReport /\ UNCHANGED <<vars, held>>

\* sendFrame returns an error: writeLoop closes the stream and ends.
SendFailed ==
  /\ status' = IF status = "open" THEN "closed" ELSE status
  /\ UNCHANGED <<credit, wire, queue, ready, writing, consumed, continues, report, held>>

\* sendFrame sends the CONTINUE, or fails.
WriterSends ==
  /\ Send(Writer, 1)
  /\ IF buffered' = buffered THEN SendFailed
     ELSE /\ continues' = Append(continues, report) /\ report' = NoReport
          /\ held' = Append(held, buffered')
          /\ UNCHANGED <<credit, wire, queue, ready, writing, consumed, status>>

WriterGivesUp == GiveUp(Writer) /\ SendFailed

WriterStep == WriterSends \/ WriterGivesUp

\* The steps of sendFrame that do not end the writer's call; the other streams and the
\* message handler send when they like.
SenderStep(s) ==
  /\ \/ Check(s) \/ Wait(s) \/ Token(s)
     \/ s # Writer /\ (GiveUp(s) \/ \E n \in 1..MaxPacket : Send(s, n))
  /\ UNCHANGED <<vars, report, held>>

Enter(s) ==
  /\ Lock(s) \/ (s # Writer /\ Call(s))
  /\ UNCHANGED <<vars, report, held>>

\* The network takes n units and with them the CONTINUE packets among them.
NetworkTakes(n) ==
  /\ Drain(n)
  /\ held' = SelectSeq([i \in DOMAIN held |-> IF held[i] > n THEN held[i] - n ELSE 0],
                       LAMBDA k : k > 0)
  /\ UNCHANGED <<vars, report>>

\* The browser reads a CONTINUE that has left the buffer.
BrowserReads ==
  /\ Len(held) < Len(continues) /\ ClientContinue
  /\ UNCHANGED <<sendVars, report, held>>

ChannelStep == (OnBufferedAmountLow \/ Close) /\ UNCHANGED <<vars, report, held>>

WispNext ==
  \/ StreamStep \/ Report \/ WriterStep \/ BrowserReads \/ ChannelStep
  \/ \E s \in Senders : SenderStep(s) \/ Enter(s)
  \/ \E n \in 1..MaxPacket : NetworkTakes(n)

\* Goroutines that can run do, and sync.Mutex does not starve a waiter.  The dial returns, the
\* target reads what it is sent, the browser reads its channel, and the network drains the
\* channel until it is closed; Server.Close then closes the stream.
WispFairness ==
  /\ \A s \in Senders : WF_wispVars(SenderStep(s)) /\ SF_wispVars(Lock(s) /\ Enter(s))
  /\ WF_wispVars(WriterStep) /\ WF_wispVars(Report)
  /\ WF_wispVars(Receive /\ StreamStep) /\ WF_wispVars(Connected /\ StreamStep)
  /\ WF_wispVars(Take /\ StreamStep) /\ WF_wispVars(Written /\ StreamStep)
  /\ WF_wispVars(done /\ Fail /\ StreamStep)
  /\ WF_wispVars(BrowserReads)
  /\ WF_wispVars(~done /\ \E n \in 1..MaxPacket : NetworkTakes(n))
  /\ WF_wispVars(OnBufferedAmountLow /\ ChannelStep)

WispSpec == WispInit /\ [][WispNext]_wispVars /\ WispFairness
-----------------------------------------------------------------------------
\* To the stream, a CONTINUE is under way from the moment its capacity was read.
Flow == INSTANCE WispFlow
  WITH continues <- IF report = NoReport THEN continues ELSE Append(continues, report)

\* sendFrame between reading the capacity and the channel changes nothing for the flow
\* control: the composition implements WispFlow, and what holds of every credit scheme
\* of WispFlow, NoCreditDeadlock among it, holds of the stream on a shared channel.
ImplementsFlow == Flow!Spec
=============================================================================
