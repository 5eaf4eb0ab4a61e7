SPECIFICATION Spec
CONSTANTS
  Senders = {s1, s2}
  Receivers = {r1, r2}
  Capacities = {0, 1}
  MayDiscard = {TRUE, FALSE}
  MaxSends = 3
  MaxCopies = 1
  Cancels = {s1}
SYMMETRY Symmetry
CHECK_DEADLOCK FALSE
INVARIANTS WaitsAreNeeded ReleasedOnce NoLostWaiter ListedWaits HeldIsAlive
