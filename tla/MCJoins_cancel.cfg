SPECIFICATION FairSpec
CONSTANTS
  Tasks = {m, a, b}
  MainTask = m
  Spawners = {m, a}
  Groupers = {}
  Fails = {}
CHECK_DEADLOCK FALSE
PROPERTIES CancelEnds
