CONSTANTS
  a = a
  b = b
  Nodes = {a, b}
  Agents = {p}
  Links <- PairLinks
  Pullers = {a}
  Buffer = 1
  MaxTime = 2
  MaxChanges = 2
SPECIFICATION Spec
INVARIANTS TypeOK
PROPERTIES GossipNeverRegresses RoundsGoOn PullersCatchUp WritersFinish
