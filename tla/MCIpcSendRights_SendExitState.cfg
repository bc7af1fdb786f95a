\* A failed send leaves locks held, moves committed and items leaked; a send with a bad descriptor is handed on.
CONSTANTS
  n1 = n1
  n2 = n2
  p1 = p1
  p2 = p2
  NULL = NULL
  NoEntry = NoEntry
  NoRight = NoRight
  Names <- MCNames
  Ports <- MCPorts
  TableChoices <- MCTables
  MsgChoices <- MCMsgChoices
SPECIFICATION Spec
INVARIANT SendExitState
