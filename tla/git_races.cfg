\* Two goroutines on one git stack; failures, half deploys, crashes, edits, hands.
CONSTANTS
  p1 = p1  p2 = p2  g1 = g1  g2 = g2  st1 = st1  u1 = u1  u2 = u2  b1 = b1  c1 = c1  c2 = c2
  Proc = {p1, p2}
  Id = {g1}
  Stack = {st1}
  Url = {u1, u2}
  Branch = {b1}
  Content = {c1, c2}
  NoFile = NoFile
  NoHash = NoHash
  Nothing = Nothing
  HalfDeploys = TRUE
  Crashes = TRUE
  Edits = TRUE
  Others = TRUE
  MaxWork = 3
SPECIFICATION Spec
SYMMETRY Symmetry
INVARIANTS TypeOK 
