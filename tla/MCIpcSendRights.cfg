\* Rights processing of ipc_msg_send: properties that hold for every message.
CONSTANTS
  n1 = n1
  n2 = n2
  p1 = p1
  p2 = p2
  NULL = NULL
  NoEntry = NoEntry
  NoRight = NoRight
  Names <- MCNames
  Ports <- MCPorts
  TableChoices <- MCTables
  MsgChoices <- MCMsgChoices
SPECIFICATION Spec
INVARIANT TypeOK
INVARIANT MovedRefsConsumed
