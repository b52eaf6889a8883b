SPECIFICATION TrickleSpec
CONSTANTS
  Nobody = Nobody
  Items = {i1, i2}
  IsHead = FALSE
  Feeders = {w1}
  Flushers = {f1}
  BatchCap = 1
  MaxAttempts = 2
  Interval = 1
  MaxClock = 3
  MaxFaults = 1
  MaxLapses = 0
  MaxEdits = 0
  MaxBackfills = 0
INVARIANTS
  NoOrphan
  AdvancesIffSucceeded
PROPERTIES
  EveryRunSettles
  EveryWindowCloses
