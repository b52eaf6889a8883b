SPECIFICATION Spec
CONSTANTS
  Nobody = Nobody
  Orphan = Orphan
  Actions = {a1, a2, a3}
  Editors = {e1, e2}
  MaxEdits = 3
SYMMETRY Symmetry
INVARIANTS
  TypeOK
PROPERTIES
  EditsAsAsked
  AdvanceFollowsChain
CHECK_DEADLOCK FALSE
