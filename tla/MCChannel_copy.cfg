SPECIFICATION Spec
CONSTANTS
  Senders = {s1, s2}
  Receivers = {r1}
  Capacities = {1}
  MayDiscard = {TRUE}
  MaxSends = 1
  MaxCopies = 1
  Cancels = {}
CHECK_DEADLOCK FALSE
INVARIANTS DiscardsAbandoned
