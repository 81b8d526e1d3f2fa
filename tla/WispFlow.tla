------------------------------ MODULE WispFlow ------------------------------
(***************************************************************************)
(* Flow control of one Wisp stream, browser to target                      *)
(* (internal/wisp/server.go): a FIFO of initialPacketAllowance packets     *)
(* between the channel's message handler and the stream's writeLoop, and   *)
(* CONTINUE packets that tell the browser what is left of it.              *)
(*                                                                         *)
(* The data channel is reliable and ordered; packets are alike, so a count *)
(* stands for those in flight and for those in the FIFO.                   *)
(***************************************************************************)
EXTENDS Naturals, Sequences

CONSTANTS
  Allowance,  \* initialPacketAllowance
  Threshold,  \* continueThreshold
  MaxWire,    \* bound: DATA packets in flight
  MaxContinues \* bound: CONTINUE packets in flight; sendFrame then waits

ASSUME WispFlowAssumption ==
  /\ Allowance \in Nat /\ Threshold \in Nat \ {0} /\ Threshold <= Allowance
  /\ MaxWire \in Nat /\ MaxContinues \in Nat

VARIABLES
  credit,     \* packets the browser may still send
  wire,       \* DATA packets in flight
  queue,      \* length of stream.write
  ready,      \* connReady is closed
  writing,    \* packets writeLoop holds: 0 or 1
  consumed,   \* writeLoop's counter
  continues,  \* CONTINUE packets in flight
  status      \* open, or why the stream was closed

vars == <<credit, wire, queue, ready, writing, consumed, continues, status>>

TypeOK ==
  /\ credit \in 0..Allowance
  /\ wire \in 0..MaxWire
  /\ queue \in 0..Allowance
  /\ ready \in BOOLEAN
  /\ writing \in 0..1
  /\ consumed \in 0..(Threshold - 1)
  /\ continues \in Seq(0..Allowance)
  /\ status \in {"open", "throttled", "closed"}

\* The handshake has granted Allowance; CONNECT was accepted.
Init ==
  /\ credit = Allowance /\ wire = 0 /\ queue = 0 /\ ready = FALSE
  /\ writing = 0 /\ consumed = 0 /\ continues = << >> /\ status = "open"
-----------------------------------------------------------------------------
\* The browser's Wisp client sends a packet when it has credit, ...
ClientSend ==
  /\ status = "open" /\ credit > 0 /\ wire < MaxWire
  /\ credit' = credit - 1 /\ wire' = wire + 1
  /\ UNCHANGED <<queue, ready, writing, consumed, continues, status>>

\* ... and replaces its credit by what a CONTINUE says.
ClientContinue ==
  /\ continues # << >>
  /\ credit' = Head(continues) /\ continues' = Tail(continues)
  /\ UNCHANGED <<wire, queue, ready, writing, consumed, status>>

\* Is there room in the FIFO?
Fits == queue < Allowance

\* onMessage, DATA: the packet enters the FIFO or the stream is closed.
Receive ==
  /\ status = "open" /\ wire > 0
  /\ wire' = wire - 1
  /\ \/ Fits /\ queue' = queue + 1 /\ UNCHANGED status
     \/ ~Fits /\ status' = "throttled" /\ UNCHANGED queue
  /\ UNCHANGED <<credit, ready, writing, consumed, continues>>

\* connect has a connection: writeLoop may start.
Connected ==
  /\ status = "open" /\ ~ready /\ ready' = TRUE
  /\ UNCHANGED <<credit, wire, queue, writing, consumed, continues, status>>

\* writeLoop takes a packet ...
Take ==
  /\ status = "open" /\ ready /\ writing = 0 /\ queue > 0
  /\ queue' = queue - 1 /\ writing' = 1
  /\ UNCHANGED <<credit, wire, ready, consumed, continues, status>>

\* What writeLoop reports as the remaining capacity.
Remaining == Allowance - queue

\* ... and has written it to the target.
Written ==
  /\ status = "open" /\ writing = 1
  /\ writing' = 0
  /\ \/ /\ consumed + 1 >= Threshold /\ Len(continues) < MaxContinues
        /\ continues' = Append(continues, Remaining) /\ consumed' = 0
     \/ /\ consumed + 1 < Threshold
        /\ consumed' = consumed + 1 /\ UNCHANGED continues
  /\ UNCHANGED <<credit, wire, queue, ready, status>>

\* The dial, a read, a write or the send of a CONTINUE fails, or one of the two
\* ends closes the stream.
Fail ==
  /\ status = "open" /\ status' = "closed"
  /\ UNCHANGED <<credit, wire, queue, ready, writing, consumed, continues>>

Next ==
  \/ ClientSend \/ ClientContinue \/ Receive \/ Connected \/ Take \/ Written \/ Fail

Spec == Init /\ [][Next]_vars
-----------------------------------------------------------------------------
\* The grant the browser will work with once it has read its channel.
Granted == IF continues = << >> THEN credit ELSE continues[Len(continues)]

\* Everything writeLoop has counted or will count, together with what the
\* browser may still send, is at least the allowance.
EnoughToCome == Granted + wire + queue + writing + consumed >= Allowance

\* Credit never dries up: a browser without credit always has a packet on its way
\* to be consumed, or a CONTINUE on its way back.
NoCreditDeadlock ==
  status = "open" =>
    credit > 0 \/ wire > 0 \/ queue > 0 \/ writing > 0 \/ continues # << >>

\* A browser that ran out of credit gets more, or the stream is closed.
CreditReturns == credit = 0 ~> (credit > 0 \/ status # "open")
=============================================================================
