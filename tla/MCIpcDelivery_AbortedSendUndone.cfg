\* Violation run: AbortedSendUndone, stated by the spec, checked against the code.
CONSTANTS
  s1 = s1
  s2 = s2
  r1 = r1
  r2 = r2
  NoMsg = NoMsg
  Senders <- MCSenders
  Receivers <- MCReceivers
  SendOptions <- MCSendOptions
  RecvOptions <- MCRecvOptions
  SetReceivers = {}
  PortSetOps = FALSE
  MaxRecvCalls <- MCMaxRecvCalls
SYMMETRY Symmetry
SPECIFICATION Spec
INVARIANT AbortedSendUndone
\* A sender whose failed cleanup left the dead port locked (l.537-545)
\* makes every later locker of the port wait forever: the system may stop.
CHECK_DEADLOCK FALSE
