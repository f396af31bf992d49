CONSTANTS
  a = a
  b = b
  golf = golf
  Agents = {a, b}
  Bodies <- MCBodies
  OfferIds = {x}
  MaxTime = 3
  MaxItems = 2
  MaxCalls = 2
SPECIFICATION Spec
INVARIANTS TypeOK NothingVanishes ExpiryIsFinal MatchesHaveCommonGround
