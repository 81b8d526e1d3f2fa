CONSTANTS
  Allowance = 3
  Threshold = 2
  MaxWire = 1
  MaxContinues = 1
  Senders = {w, s1}
  Writer = w
  High = 1
  MaxPacket = 1
  NoSender = NoSender
SPECIFICATION WispSpec
PROPERTIES ImplementsFlow CreditReturns SendReturns
\* A stream that was closed stays closed.
CHECK_DEADLOCK FALSE
