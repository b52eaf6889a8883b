SPECIFICATION FairSpec
CONSTANTS
  Items = {i1}
  ChainLength = 2
  Passes = {p1, p2}
  MaxAttempts = 3
  MaxFaults = 2
INVARIANTS
  TypeOK
  DoneIsComplete
  ReplaceRegenerates
PROPERTIES
  FreshRunsKept
  EveryJobSettles
