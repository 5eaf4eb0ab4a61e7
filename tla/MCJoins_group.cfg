SPECIFICATION Spec
CONSTANTS
  Tasks = {m, a, b}
  MainTask = m
  Spawners = {m, a}
  Groupers = {a}
  Fails = {}
CHECK_DEADLOCK FALSE
INVARIANTS ResultKept
