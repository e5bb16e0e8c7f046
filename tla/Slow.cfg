SPECIFICATION FairSpec
CONSTANTS
  Requests = {p1, p2, g1, g2, x1}
  Puts = {p1, p2}
  Gets = {g1, g2}
  p1 = p1
  p2 = p2
  g1 = g1
  g2 = g2
  x1 = x1
  NoPut = NoPut
INVARIANTS
  TypeOK
  ListIsBacklog
PROPERTIES
  ImplementsResponder
  NothingAfterClear
  ArrivalServesOldest
  ShutdownCompletes
