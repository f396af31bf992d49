CONSTANTS
  Here = here
  Remotes = {there}
  Agents = {a}
  Keys = {k1, k2}
  Signer = k1
  None = None
  Bodies <- MCBodies
  TTLs = {0, 1}
  DEFAULT_TTL = 8
  Capacity = 1
  SignalCapacity = 1
  MaxTime = 1
  CallIds = {c1, c2}
SPECIFICATION Spec
INVARIANTS TypeOK RoutedWasChecked HopsCount
PROPERTY CallsReturn
