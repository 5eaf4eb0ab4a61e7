SPECIFICATION FairSpec
CONSTANTS
  Workers = {w1}
  MainWorker = w1
  Spare = {}
  Tasks = {t1}
  MainTask = t1
  Callers = {}
  Kinds = {"task", "host"}
  PinKinds = {"task"}
  MaxParks = 2
  MaxCalls = 0
CHECK_DEADLOCK FALSE
PROPERTIES DeadlockFound
