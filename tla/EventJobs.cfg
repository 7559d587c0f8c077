SPECIFICATION Spec
CONSTANTS
  Jobs = {j1}
  Workers = {w1, w2}
  Callers = {c1, c2}
  MaxPublish = 2
  AckDeadline = 10
  LeaseTime = 12
  ClockSkew = 1
  None = None
SYMMETRY SlotSymmetry
INVARIANTS
  AtMostOneAnalysis
  CompletedFromItsConversation
  OpenRequestKeepsLease
  NoOrphanedJob
  OfferedConversationIsFinal
PROPERTIES
  FinalOutcome
  KeepsPromise
