SPECIFICATION StorageSpec
CONSTANTS
  Id = {1, 2}
  Name = {"ann", "bob"}
  Role = {"admin", "user"}
  Admin = "admin"
  OAuthRole = "user"
  EnvAdmin = "ann"
  Item = {"i"}
  Caller = {c1, c2}
  Day = 1
  AccountWork = 4
  Manual = {m1}
  Scheduler = scheduler
  Retention = 1
  Page = 3
  BackupWork = 3
INVARIANTS StorageTypeOK TokensWereTrue PruneKeepsNewest WholeUnlessOverlapped
PROPERTY StaleRolesEnd
CHECK_DEADLOCK FALSE
