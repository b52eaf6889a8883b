SPECIFICATION FairSpec
CONSTANTS
  Nobody = Nobody
  Orphan = Orphan
  Procs = {p1, p2, p3}
  Mails = {m1}
  MaxAttempts = 2
  MaxFaults = 2
  MaxSlips = 1
INVARIANTS
  TypeOK
  SingleFlight
  OneCopyPerFault
  SentIsDelivered
PROPERTIES
  EveryMailSettles
