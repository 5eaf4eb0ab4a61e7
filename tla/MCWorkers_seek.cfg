SPECIFICATION Spec
CONSTANTS
  Workers = {w1, w2, w3, w4}
  MainWorker = w1
  Spare = {w3, w4}
  Tasks = {t1, t2, t3}
  MainTask = t1
  Callers = {t1, t2}
  Kinds = {}
  PinKinds = {"task"}
  MaxParks = 0
  MaxCalls = 2
CHECK_DEADLOCK FALSE
INVARIANTS SeekingStands
