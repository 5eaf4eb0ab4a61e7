SPECIFICATION Spec
CONSTANTS
  Workers = {w1, w2, w3}
  MainWorker = w1
  Spare = {w3}
  Tasks = {t1, t2, t3}
  MainTask = t1
  Callers = {t1}
  Kinds = {"task", "host"}
  PinKinds = {"task"}
  MaxParks = 1
  MaxCalls = 1
CHECK_DEADLOCK FALSE
INVARIANTS InOnePlace SeekingStands DeadlockIsReal
