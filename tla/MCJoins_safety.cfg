SPECIFICATION Spec
CONSTANTS
  Tasks = {m, a, b, c}
  MainTask = m
  Spawners = {m, a}
  Groupers = {m}
  Fails = {b, c}
SYMMETRY Symmetry
CHECK_DEADLOCK FALSE
INVARIANTS UsesLive ResultKept NoTaskLeft EndsHeard
