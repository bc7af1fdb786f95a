\* The port joins a set: a receiver waiting for its messages, on the set
\* or on the port itself, is never served.
CONSTANTS
  s1 = s1
  s2 = s2
  r1 = r1
  r2 = r2
  NoMsg = NoMsg
  Senders <- MCSenders
  Receivers <- MCReceivers
  SendOptions <- MCLiveSendOptions
  RecvOptions <- MCLiveRecvOptions
  SetReceivers <- MCSetReceivers
  PortSetOps = TRUE
  MaxRecvCalls <- MCLiveMaxRecvCalls
SPECIFICATION FairSpec
PROPERTY ReceiverServed
\* A sender whose failed cleanup left the dead port locked (l.537-545)
\* makes every later locker of the port wait forever: the system may stop.
CHECK_DEADLOCK FALSE
