\* Two overlapping passes, a two-action chain whose tail calls out.  Liveness
\* and refinement are checked too, so no symmetry.
CONSTANTS
  Items = {i1}
  ChainLength = 2
  Outbound = {2}
  Passes = {p1, p2}
  Slots = {s1}
  NoRun = NoRun
  MaxAttempts = 2
  StaleAfter = 1
  MaxClock = 3
  MaxFaults = 1
SPECIFICATION FairSpec
INVARIANTS TypeOK AdvancesIffSucceeded CallsWithinAttempts SuccessIsAudited
PROPERTIES EveryRunSettles ImplementsJourney
