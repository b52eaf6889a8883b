SPECIFICATION FairSpec
CONSTANTS
  Nobody = Nobody
  Items = {i1, i2}
  Feeds = {fa}
  Pollers = {p1, p2}
  Passes = {t1, t2}
  Survivor = t1
  PageSize = 1
  Ties = 1
  Retention = 0
  MaxTime = 1
  MaxLapses = 1
  MaxEdits = 2
INVARIANTS
  TypeOK
  NothingSkipped
  LogOrdered
PROPERTIES
  EventuallyTriggered
