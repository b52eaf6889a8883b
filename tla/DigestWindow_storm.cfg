SPECIFICATION Spec
CONSTANTS
  Nobody = Nobody
  Items = {i1}
  IsHead = TRUE
  Feeders = {w1}
  Flushers = {f1, f2}
  BatchCap = 1
  MaxAttempts = 2
  Interval = 1
  MaxClock = 1
  MaxFaults = 1
  MaxLapses = 1
  MaxEdits = 1
  MaxBackfills = 1
SYMMETRY Symmetry
INVARIANTS
  TypeOK
  EmissionsBounded
