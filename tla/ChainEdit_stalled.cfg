SPECIFICATION Spec
CONSTANTS
  Nobody = Nobody
  Orphan = Orphan
  Actions = {a1, a2, a3}
  Editors = {e1}
  MaxEdits = 1
PROPERTIES
  NoStalledChain
CHECK_DEADLOCK FALSE
