SPECIFICATION FairSpec
CONSTANTS
  Nobody = Nobody
  Sources = {s1, s2}
  Events = {e1, e2}
  Pollers = {p1}
  Combined = {s1, s2}
  MaxCuts = 1
  MaxSets = 0
  Retention = 1
  MaxTime = 1
  MaxFaults = 1
  MaxLapses = 1
  MaxSeeks = 1
PROPERTIES
  EventuallyRecorded
