\* Liveness of the delivery engine's wake-ups, under weak fairness of the
\* steps a thread takes on its own inside a call.
CONSTANTS
  s1 = s1
  s2 = s2
  r1 = r1
  r2 = r2
  NoMsg = NoMsg
  Senders <- MCSenders
  Receivers <- MCReceivers
  SendOptions <- MCLiveSendOptions
  RecvOptions <- MCLiveRecvOptions
  SetReceivers = {}
  PortSetOps = FALSE
  MaxRecvCalls <- MCLiveMaxRecvCalls
SPECIFICATION FairSpec
PROPERTY ReceiverServed
PROPERTY SenderNotLeftAsleep
\* A sender whose failed cleanup left the dead port locked (l.537-545)
\* makes every later locker of the port wait forever: the system may stop.
CHECK_DEADLOCK FALSE
