\* A restart after an activation.
CONSTANTS
  i1 = i1  i2 = i2  ha = ha  hb = hb  bad = bad  r1 = r1  r2 = r2
  Id = {i1}
  Host = {ha}
  BadHost = {}
  Local = Local
  Nil = Nil
  Request = {r1}
  HostsFail = FALSE
  StatementsFail = FALSE
  Restarts = TRUE
  DeletesActive = FALSE
  MaxWork = 5
SPECIFICATION Spec
INVARIANT ActiveIsUsed
