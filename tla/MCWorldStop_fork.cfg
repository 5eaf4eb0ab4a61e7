SPECIFICATION Spec
CONSTANTS
  Threads = {t1, t2}
  Stoppers = {s1}
  MaxStops = 2
  Torn = TRUE
INVARIANTS AttentionCounted
