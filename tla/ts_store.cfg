\* Two agents' requests, flushes, failures and restarts.
CONSTANTS
  n1 = n1  n2 = n2  svc = svc  a1 = a1  a2 = a2
  Host = {n1, n2}
  Other = {svc}
  Pusher = {a1, a2}
  MaxPoints = 2
  Day = 2
  SaveFails = TRUE
  MaxClock = 4
  MaxSamples = 3
SPECIFICATION Spec
SYMMETRY Symmetry
INVARIANTS TypeOK NoDuplicates RestartKeepsNewest
