SPECIFICATION Spec
CONSTANTS
  Convs = {c1, a1}
  Alerts = {a1}
  c1 = c1
  a1 = a1
  None = None
  MaxEvents = 0
  MaxCards = 1
  MaxKeys = 3
PROPERTIES
  RetryReusesKey
