SPECIFICATION FairSpec
CONSTANTS
  Threads = {t1, t2}
  Stoppers = {s1}
  MaxStops = 3
  Torn = FALSE
INVARIANTS Stopped AttentionCounted
PROPERTIES HeldGoesOn StopComes
