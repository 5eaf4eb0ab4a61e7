SPECIFICATION Spec
CONSTANTS
  Tasks = {a, b, c}
  a = a
  b = b
  Nobody = Nobody
  Channels = {1, 3}
  Joins = {2}
  Groups = {4}
  Capacity <- Room
  Selects <- Lists
  MaxSelects <- Times
  Members = 1
  Closing = {3}
  Cancels = {b}
CHECK_DEADLOCK FALSE
INVARIANTS OneEffect NoneMissed NoDangling NoStandOff
