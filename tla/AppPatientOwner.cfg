SPECIFICATION Spec
CONSTANTS
  Apps = {a, b}
  Names = {m, n}
  Cids = {c1, c2, c3, c4}
  Tasks = {t1, t2}
  NoApp = NoApp
  NoName = NoName
  NoCid = NoCid
  NoTask = NoTask
  Requests = {"setup", "stop", "remove", "reload", "update", "oauth", "rename", "promote"}
  Faults = {"crash", "launch", "unready", "pull", "spawn"}
  Overlap = FALSE
SYMMETRY Symmetry2
INVARIANTS
  SettledAppsAgree
PROPERTIES
  OwnContainersOnly
CHECK_DEADLOCK FALSE
