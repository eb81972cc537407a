\* A sample that arrives while a flush is under way.
CONSTANTS
  n1 = n1  n2 = n2  svc = svc  a1 = a1  a2 = a2
  Host = {n1}
  Other = {svc}
  Pusher = {a1, a2}
  MaxPoints = 2
  Day = 2
  SaveFails = FALSE
  MaxClock = 3
  MaxSamples = 2
SPECIFICATION Spec
INVARIANT FlushedIsStored
