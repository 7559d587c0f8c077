SPECIFICATION Spec
CONSTANTS
  Requests = {i1}
  Processes = {p1, p2}
  Reads = {r1}
  Writes = {w1, note}
  OwnWrites = {note}
  Preferences = {note}
  MaxModelCalls = 3
  MaxRepeats = 3
  Capacity = 20
  MaxTraffic = 0
  None = None
CHECK_DEADLOCK FALSE
INVARIANT ModelCallsBounded
