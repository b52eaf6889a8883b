SPECIFICATION FairSpec
CONSTANTS
  Nobody = Nobody
  Orphan = Orphan
  Clients = {c1, c2}
  Requests = {r1, r2, r3}
  Tabs = {t1}
  MaxSessions = 1
  MaxPairs = 3
  MaxTroubles = 1
  MaxLapses = 1
INVARIANTS
  TypeOK
  RotatedOnce
  LogoutRevokes
  AloneStaysSignedIn
PROPERTIES
  EveryCommandEnds
  ApprovedSignsIn
