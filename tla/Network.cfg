CONSTANTS
  A = A  B = B  C = C  tx1 = tx1  tx2 = tx2
  Node = {A, B, C}
  None = None
  Garbage = Garbage
  Situations <- TheSituations
  MaxLinks = 4
  FloodingTTL = 2
  Transactions = {tx1, tx2}
SPECIFICATION FairSpec
INVARIANTS TypeOK OneLinkPerPeer
PROPERTIES KnownStays LinksSettle CallsSucceed Spread Answered ImplementsBroadcast
CHECK_DEADLOCK FALSE
