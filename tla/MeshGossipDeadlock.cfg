CONSTANTS
  a = a
  b = b
  Nodes = {a, b}
  Agents = {p}
  Links <- PairLinks
  Pullers = {a, b}
  Buffer = 1
  MaxTime = 1
  MaxChanges = 0
SPECIFICATION FairSpec
PROPERTY RoundsGoOn
CHECK_DEADLOCK FALSE
