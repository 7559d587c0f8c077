SPECIFICATION HistorySpec
CONSTANTS
  Says = {s1}
  Failure = Failure
  Question = Question
  Asks = {a1}
  MaxEntries = 8
CHECK_DEADLOCK FALSE
PROPERTY FailedWorkStays
