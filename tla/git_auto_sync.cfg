\* Overlapping syncs of one git stack on an interval; nothing fails.
CONSTANTS
  p1 = p1  p2 = p2  g1 = g1  g2 = g2  st1 = st1  u1 = u1  u2 = u2  b1 = b1  c1 = c1  c2 = c2
  Proc = {p1, p2}
  Id = {g1}
  Stack = {st1}
  Url = {u1}
  Branch = {b1}
  Content = {c1, c2}
  NoFile = NoFile
  NoHash = NoHash
  Nothing = Nothing
  HalfDeploys = FALSE
  Crashes = FALSE
  Edits = FALSE
  Others = FALSE
  MaxWork = 3
SPECIFICATION FairSpec
PROPERTY Converges
