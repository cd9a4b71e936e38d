SPECIFICATION Spec
CONSTANTS
  Apps = {a}
  Names = {m, n}
  Cids = {c1, c2, c3, c4}
  Tasks = {t1, t2}
  NoApp = NoApp
  NoName = NoName
  NoCid = NoCid
  NoTask = NoTask
  Requests = {"setup", "stop", "remove", "reload", "update", "oauth", "rename", "promote"}
  Faults = {"crash", "build", "launch", "launch_timeout", "unready", "db", "unrecorded", "podman", "pull", "dirs", "spawn", "repo", "lowdisk"}
  Overlap = FALSE
SYMMETRY SymmetryNames
INVARIANTS
  TypeOK
  OneLauncher
  NoOrphanTokens
CHECK_DEADLOCK FALSE
