SPECIFICATION FairSpec
CONSTANTS
  Requests = {i1, i2}
  Processes = {p1}
  Reads = {r1}
  Writes = {w1, note}
  OwnWrites = {note}
  Preferences = {note}
  MaxModelCalls = 3
  MaxRepeats = 2
  Capacity = 20
  MaxTraffic = 1
  None = None
CHECK_DEADLOCK FALSE
INVARIANTS
  ModelCallsBounded
  RepeatsBounded
  EndsOnItsOwnAccount
PROPERTIES
  RequestEnds
