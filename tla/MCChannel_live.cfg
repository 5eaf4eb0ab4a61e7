SPECIFICATION FairSpec
CONSTANTS
  Senders = {s1, s2}
  Receivers = {r1}
  Capacities = {0, 1}
  MayDiscard = {TRUE, FALSE}
  MaxSends = 3
  MaxCopies = 0
  Cancels = {s1, r1}
CHECK_DEADLOCK FALSE
PROPERTIES InOrder ReachedReturns
