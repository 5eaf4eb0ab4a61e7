SPECIFICATION Spec
CONSTANTS
  Children = {c1, c2}
  MaxDepth = 1
  MaxRecovers = 2
CHECK_DEADLOCK FALSE
INVARIANTS NoFalseResult
