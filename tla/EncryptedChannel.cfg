CONSTANTS
  MaxCounter = 3
  MaxKeys = 4
  None = None
SPECIFICATION Spec
INVARIANTS TypeOK NonceNeverReused OpensWhatPeerSealed
PROPERTY OpensInOrder
CHECK_DEADLOCK FALSE
