CONSTANTS
  Nodes = {1, 2}
  Agents = {1, 2}
  Keys = {k1}
  Home <- MCHome
  Skew = 1
  MaxWrites = 3
  MaxPulls = 0
  MaxMessages = 2
SPECIFICATION Spec
INVARIANT Convergence
