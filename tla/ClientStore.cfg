CONSTANTS
  b1 = b1
  b2 = b2
  t1 = t1
  t2 = t2
  None = None
  Tabs <- TwoTabs
  Tables <- TwoTables
  Watched = t1
  Watching <- Subscribed
  Indexed <- IndexedByOne
  Kinds = {"put", "delete", "remote", "clear", "wipe"}
  MaxOps <- Ops
  MaxTroubles <- Troubles
SPECIFICATION Spec
INVARIANT FailsOnlyInRace
INVARIANT SubscribersCatchUp
PROPERTY JobsEnd
CHECK_DEADLOCK FALSE
