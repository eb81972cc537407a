SPECIFICATION ConsoleSpec
CONSTANTS
  Rule = {a1}
  Node = {n1, n2}
  Metric = {cpu, disk}
  Level = {0, 1}
  NoRule = norule
  NoStats = nostats
  AlertWork = 3
  Svc = {s1}
  Digest = {d1, d2}
  Unpinned = unpinned
  Loop = loop
  Asker = {q1}
  ImageWork = 5
  Shell = {x1}
  Stream = {y1}
  Buffer = 2
  SessionWork = 5
  StackService = {s1, s2}
  Template <- MCTemplate
  Image = {"i1", "i2"}
  NetId = {"n1", "n2"}
  Base = {"x"}
  Global = global
  Job = job
  ComposeWork = 1
  ViewService = {"s1", "s2"}
  ViewTask = {t1, t2}
  ViewNet = {"n1", "host"}
  HostNet = "host"
  ViewStack = {"a", "b"}
  ViewSpec <- MCViewSpec
  Reader = {p1}
  ViewWork = 1
INVARIANTS ConsoleTypeOK AlertsWereTrue ShownWasTrue
PROPERTIES Alarmed ShownConverges ShellsEnd InputFlows StreamsEnd SaveChangesOnlyEdit ViewsConverge
CHECK_DEADLOCK FALSE
