CONSTANTS
  Nodes = {1, 2}
  Agents = {1, 2}
  Keys = {k1, k2}
  Home <- MCHome
  Skew = 0
  MaxWrites = 3
  MaxPulls = 1
  MaxMessages = 1
SPECIFICATION RejoinSpec
INVARIANT NoLostWrite
