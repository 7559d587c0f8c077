SPECIFICATION Spec
CONSTANTS
  Tasks = {t1}
  People = {ann, bob}
  Managers = {mia}
  Blockers = {b1}
  MaxLate = 1
  None = None
SYMMETRY PeopleSymmetry
INVARIANTS
  CompletedByAssignee
  ReportedOnce
  WithinBudget
  AnswersAreTrue
PROPERTY ClosedTaskIsFrozen
