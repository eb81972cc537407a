\* Everything that can happen to the clusters.
CONSTANTS
  i1 = i1  i2 = i2  ha = ha  hb = hb  bad = bad  r1 = r1  r2 = r2
  Id = {i1, i2}
  Host = {ha, hb}
  BadHost = {bad}
  Local = Local
  Nil = Nil
  Request = {r1, r2}
  HostsFail = TRUE
  StatementsFail = TRUE
  Restarts = TRUE
  DeletesActive = TRUE
  MaxWork = 7
SPECIFICATION Spec
SYMMETRY Symmetry
INVARIANTS TypeOK RolledBack
