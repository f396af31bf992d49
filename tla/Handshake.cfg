CONSTANTS
  Peers = {"alice", "gateway"}
  Sessions <- MCSessions
  Gateways = {"gateway"}
  MaxFaults = 2
  None = None
SPECIFICATION Spec
INVARIANTS TypeOK AcceptedOnce RecordsProvedKey BothAgree
PROPERTY EventuallyDone
CHECK_DEADLOCK FALSE
