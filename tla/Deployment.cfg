SPECIFICATION DeploymentSpec
CONSTANTS
  Builds = {b1, b2}
  Commits = {c1, c2}
  Engines = {e1, e2}
  MaxRevisions = 3
  Percents = {10, 100}
  Keep = 1
  AlwaysLatest = FALSE
  AgentIdentity = TRUE
  Strict = TRUE
  None = None
  Operators = {o1, o2}
  Apps = {q1}
  MaxFailures = 2
  NoRun = NoRun
CHECK_DEADLOCK FALSE
INVARIANTS
  OneEngine
  PushFindsWorker
  NothingLeftUnreported
PROPERTIES
  RecordNamesItsRelease
  PruneSparesServing
  CanaryKeepsStable
  RecordedIsReady
  ScriptsComplete
