SPECIFICATION MCSpec
CONSTANTS
  BlockId = {0, 1, 2, 3}
  RoundNr = {1, 2}
  Msg <- Fork
  MaxDeliver = 2
  Handler = {1, 2, 3, 4, 5}
  Block = {1, 2, 3, 4}
  BlockOf <- Again
  MaxTry = 4
  Peer = {p1, p2, p3}
  Buf = 1
  Incoming = {1, 2}
  Outgoing = {3}
  MaxConn = 1
  MaxBuf = 1
  MaxSent = 1
  Writer = {1, 2, 3}
INVARIANTS
  HandledInOrder
  HandledPerDelivery
  NoMessageLost
  
  
  
PROPERTIES
  HandlingEnds
  CloseReturns
CHECK_DEADLOCK FALSE
