SPECIFICATION FairSpec
CONSTANTS
  Node = {n1, n2}
  StartMap = n1
  MaxSessions = 2
  MaxProgress = 2
  MaxMoves = 2
  MaxMishaps = 1
  NoNode = NoNode
  Dangling = Dangling
  NoData = NoData
CHECK_DEADLOCK FALSE
PROPERTY LostClientEnds
