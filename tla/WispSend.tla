------------------------------ MODULE WispSend ------------------------------
(***************************************************************************)
(* Back-pressure on a data channel, Agent to browser: sendFrame and the    *)
(* OnBufferedAmountLow callback of internal/wisp/server.go.  The message   *)
(* handler, the streams' readLoops and writeLoops all send, one at a time  *)
(* under sendMu; a sender that finds too much buffered waits, holding the  *)
(* lock, for a token that the callback leaves in a channel of capacity 1.  *)
(***************************************************************************)
EXTENDS Naturals

CONSTANTS
  Senders,    \* goroutines that call sendFrame
  High,       \* maxBufferedAmount
  MaxPacket,  \* largest packet sent
  NoSender

\* Amounts are in packets of one unit; the callback's threshold is half of High.
ASSUME WispSendAssumption ==
  /\ High \in Nat \ {0} /\ MaxPacket \in Nat \ {0}
  /\ NoSender \notin Senders

VARIABLES
  sender,    \* sender -> where it is in sendFrame
  owner,     \* who holds sendMu
  buffered,  \* BufferedAmount of the channel
  falling,   \* the channel has fallen to the threshold; the callback is due
  low,       \* a token is in bufferedLow
  done       \* the server's context is cancelled

sendVars == <<sender, owner, buffered, falling, low, done>>

SendTypeOK ==
  /\ sender \in [Senders -> {"idle", "lock", "check", "decided", "wait", "send"}]
  /\ owner \in Senders \cup {NoSender}
  /\ \A s \in Senders : sender[s] \in {"check", "decided", "wait", "send"} <=> owner = s
  /\ buffered \in Nat
  /\ falling \in BOOLEAN
  /\ low \in BOOLEAN
  /\ done \in BOOLEAN

SendInit ==
  /\ sender = [s \in Senders |-> "idle"]
  /\ owner = NoSender /\ buffered = 0 /\ falling = FALSE /\ low = FALSE /\ done = FALSE
-----------------------------------------------------------------------------
Goto(s, place) == sender' = [sender EXCEPT ![s] = place]

Call(s) ==
  /\ sender[s] = "idle" /\ Goto(s, "lock")
  /\ UNCHANGED <<owner, buffered, falling, low, done>>

\* sendMu is free.
Free == owner = NoSender

Lock(s) ==
  /\ sender[s] = "lock" /\ Free
  /\ owner' = s /\ Goto(s, "check")
  /\ UNCHANGED <<buffered, falling, low, done>>

\* The loop's condition.
TooMuch == buffered > High

Check(s) ==
  /\ sender[s] = "check"
  /\ Goto(s, IF TooMuch THEN "decided" ELSE "send")
  /\ UNCHANGED <<owner, buffered, falling, low, done>>

\* The sender enters the select.
Wait(s) ==
  /\ sender[s] = "decided" /\ Goto(s, "wait")
  /\ UNCHANGED <<owner, buffered, falling, low, done>>

\* The select: a token, and the condition is read again, ...
Token(s) ==
  /\ sender[s] = "wait" /\ low
  /\ low' = FALSE /\ Goto(s, "check")
  /\ UNCHANGED <<owner, buffered, falling, done>>

\* ... or the server is closed, and sendFrame returns an error.
GiveUp(s) ==
  /\ sender[s] = "wait" /\ done
  /\ owner' = NoSender /\ Goto(s, "idle")
  /\ UNCHANGED <<buffered, falling, low, done>>

\* The channel accepts the packet and buffers it, or it is closed and the send fails.
Send(s, n) ==
  /\ sender[s] = "send"
  /\ \/ buffered' = buffered + n
     \/ done /\ UNCHANGED buffered
  /\ owner' = NoSender /\ Goto(s, "idle")
  /\ UNCHANGED <<falling, low, done>>

\* A bug: the token is dropped when no sender is waiting for it yet.
LeftIfAwaited == low \/ \E s \in Senders : sender[s] = "wait"

\* bufferedLow once the callback has run: its channel holds the token.
Left == TRUE

\* The network takes n units.
Drain(n) ==
  /\ n <= buffered
  /\ buffered' = buffered - n
  /\ falling' = (falling \/ (buffered > High \div 2 /\ buffered' <= High \div 2))
  /\ UNCHANGED <<sender, owner, low, done>>

OnBufferedAmountLow ==
  /\ falling /\ falling' = FALSE
  /\ low' = Left
  /\ UNCHANGED <<sender, owner, buffered, done>>

\* Server.Close, or the peer's context is cancelled.
Close ==
  /\ ~done /\ done' = TRUE
  /\ UNCHANGED <<sender, owner, buffered, falling, low>>

Step(s) == Check(s) \/ Wait(s) \/ Token(s) \/ GiveUp(s) \/ \E n \in 1..MaxPacket : Send(s, n)

SendNext ==
  \/ \E s \in Senders : Call(s) \/ Lock(s) \/ Step(s)
  \/ \E n \in 1..MaxPacket : Drain(n)
  \/ OnBufferedAmountLow \/ Close

SendSpec == SendInit /\ [][SendNext]_sendVars
-----------------------------------------------------------------------------
\* However many goroutines send, the channel holds at most one packet more than
\* maxBufferedAmount: the amount is read and the packet sent under one lock.
BufferBounded == buffered <= High + MaxPacket

\* No wake-up is lost: a call of sendFrame returns, whether the callback runs
\* before, while or after the sender decides to wait.
SendReturns == \A s \in Senders : sender[s] # "idle" ~> sender[s] = "idle"
=============================================================================
