SPECIFICATION Spec
CONSTANTS
  Writes = {w1}
  Calls = {c1, c2}
  SerialInserts = FALSE
  MaxRows = 2
  None = None
INVARIANT OneRowPerKey
