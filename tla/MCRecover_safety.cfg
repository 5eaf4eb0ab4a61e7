SPECIFICATION Spec
CONSTANTS
  Children = {c1, c2}
  MaxDepth = 2
  MaxRecovers = 3
CHECK_DEADLOCK FALSE
INVARIANTS PanicOnce AlarmHasPanic
PROPERTIES OkIsClean
