SPECIFICATION AssistantSpec
CONSTANTS
  Writes = {w1, w2}
  Calls = {c1, c2, c3}
  SerialInserts = TRUE
  MaxRows = 3
  None = None
  McpCalls = {m1, m2}
  Period = 2
  Lifetime = 6
  Early = 1
  Margin = 4
  TokenLife = 6
  Skew = 1
  MaxTime = 10
  Says = {s1}
  Failure = Failure
  Question = Question
  Asks = {a1}
  MaxEntries = 7
  Turns = {t1, t2}
  Redactable = FALSE
  MaxTurns = 2
  MaxBatches = 2
  MaxMetrics = 2
  \* One symmetry set for the calls of both parts.
  Saves = {c1, c2, c3}
  Invocations = {i1, i2}
  Personas = {p1, p2}
  Preferences = {v1, v2}
  MaxSubmits = 3
  Orders = {1, 2, 3, 4}
  Now = 2
  PickTime = 2
  Promises = {1, 7, 11, 13}
  RowLimit = 3
  Closing = 13
  Records = {r1, r2, r3}
  Fields = {"brand", "qty"}
  Values = {0, 1}
  PageSizes = {1, 2}
  ReportRows = 2
  Absent = Absent
SYMMETRY AssistantSymmetry
CHECK_DEADLOCK FALSE
INVARIANTS
  OneRowPerKey
  ScopeWindow
  GuardIsExact
  DeliveredOnce
  ConfirmedIsRecalled
  EstimateIsExact
  CompleteMeansAll
PROPERTIES
  RefreshOnlyWhenDue
  PruningIsSafe
