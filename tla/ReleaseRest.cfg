SPECIFICATION ReleaseSpec
CONSTANTS
  Builds = {b1}
  Commits = {c1}
  Engines = {e1}
  MaxRevisions = 3
  Percents = {10, 100}
  Keep = 3
  AlwaysLatest = FALSE
  AgentIdentity = FALSE
  Strict = TRUE
  None = None
PROPERTY OnlyTargetStarts
