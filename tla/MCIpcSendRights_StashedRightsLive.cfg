\* in_remote_right / in_local_right used after the complex finish put them.
CONSTANTS
  n1 = n1
  n2 = n2
  p1 = p1
  p2 = p2
  NULL = NULL
  NoEntry = NoEntry
  NoRight = NoRight
  Names <- MCNames
  Ports <- MCPorts
  TableChoices <- MCTables
  MsgChoices <- MCMsgChoices
SPECIFICATION Spec
INVARIANT StashedRightsLive
