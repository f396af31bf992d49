CONSTANTS
  Words = {"aaa", "b", "ccc", "ddd"}
  ShortWords = {"b"}
  Texts <- MCTexts
  NoSlug = NoSlug
  None = None
  MaxUsers = 3
  MaxCommunities = 2
  MaxEvents = 1
  MaxBroadcasts = 2
SPECIFICATION Spec
INVARIANTS TypeOK AccountsCanBeFound StoreAgrees PostersBelong
PROPERTY FeedGrows
CHECK_DEADLOCK FALSE
