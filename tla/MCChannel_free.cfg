SPECIFICATION Spec
CONSTANTS
  Senders = {s1}
  Receivers = {r1}
  Capacities = {1}
  MayDiscard = {FALSE}
  MaxSends = 1
  MaxCopies = 0
  Cancels = {}
CHECK_DEADLOCK FALSE
INVARIANTS LastOneFrees
