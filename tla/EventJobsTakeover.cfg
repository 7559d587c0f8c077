SPECIFICATION CalmSpec
CONSTANTS
  Jobs = {j1}
  Workers = {w1, w2}
  Callers = {c1}
  MaxPublish = 2
  AckDeadline = 3
  LeaseTime = 3
  ClockSkew = 0
  None = None
PROPERTY PublishedJobFinishes
