SPECIFICATION Spec
CONSTANTS
  Nobody = Nobody
  Sources = {s1}
  Events = {e1, e2}
  Pollers = {p1, p2}
  Combined = {}
  MaxCuts = 0
  MaxSets = 1
  Retention = 1
  MaxTime = 3
  MaxFaults = 1
  MaxLapses = 1
  MaxSeeks = 1
SYMMETRY Symmetry
INVARIANTS
  TypeOK
  NothingSkipped
  LogCoversWindow
PROPERTIES
  AgainOnlyAtBoundary
