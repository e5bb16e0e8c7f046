SPECIFICATION Spec
CONSTANTS
  Requests = {p1, g1, x1}
  Puts = {p1}
  Gets = {g1}
  p1 = p1
  g1 = g1
  x1 = x1
  NoPut = NoPut
INVARIANTS
  BacklogIsArmed
