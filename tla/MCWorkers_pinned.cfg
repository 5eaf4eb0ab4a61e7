SPECIFICATION Spec
CONSTANTS
  Workers = {w1, w2}
  MainWorker = w1
  Spare = {}
  Tasks = {t1, t2, t3}
  MainTask = t1
  Callers = {t1}
  Kinds = {"task"}
  PinKinds = {"task", "host"}
  MaxParks = 1
  MaxCalls = 1
CHECK_DEADLOCK FALSE
INVARIANTS DeadlockIsReal
