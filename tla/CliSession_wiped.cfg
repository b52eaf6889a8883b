SPECIFICATION Spec
CONSTANTS
  Nobody = Nobody
  Orphan = Orphan
  Clients = {c1, c2}
  Requests = {r1, r2}
  Tabs = {}
  MaxSessions = 1
  MaxPairs = 2
  MaxTroubles = 1
  MaxLapses = 0
PROPERTY
  WipesOnlyDead
