\* Safety of the delivery engine: accounting of deliveries, queue_size,
\* and what a successful blocking send means.
CONSTANTS
  s1 = s1
  s2 = s2
  r1 = r1
  r2 = r2
  NoMsg = NoMsg
  Senders <- MCSenders
  Receivers <- MCReceivers
  SendOptions <- MCSendOptions
  RecvOptions <- MCRecvOptions
  SetReceivers <- MCSetReceivers
  PortSetOps = TRUE
  MaxRecvCalls <- MCMaxRecvCalls
SYMMETRY SenderSymmetry
SPECIFICATION Spec
INVARIANT TypeOK
INVARIANT QueueSizeConsistent
INVARIANT DeliveryConservation
INVARIANT SuccessImpliesDequeued
PROPERTY MailboxRefinement
\* A sender whose failed cleanup left the dead port locked (l.537-545)
\* makes every later locker of the port wait forever: the system may stop.
CHECK_DEADLOCK FALSE
