\* Every trap and message call with every outcome: a thread waits forever for a lock.
CONSTANTS
  th1 = th1
  th2 = th2
  tp = tp
  hp = hp
  thp = thp
  p1 = p1
  p2 = p2
  Ns = Ns
  KNs = KNs
  NONE = NONE
  NoOwner = NoOwner
  Threads <- MCThreads
  Ports <- MCPorts
  TaskPort = tp
  HostPort = hp
  Calls <- DeadlockCalls
  MaxCalls = 1
SPECIFICATION Spec
SYMMETRY MCSymmetry
INVARIANT NoStuckThread
