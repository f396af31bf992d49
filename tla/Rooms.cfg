CONSTANTS
  RoomIds = {r1}
  Agents = {a, b}
  Limits = {1}
  NoLimit = NoLimit
  Absent = Absent
  CallIds = {c1, c2, c3}
SPECIFICATION Spec
INVARIANTS TypeOK WithinLimit EventsAddUp RoomsComplete
PROPERTY CallsReturn
