SPECIFICATION FairSpec
CONSTANTS
  Apps = {a}
  Names = {m}
  Cids = {c1, c2, c3}
  Tasks = {t1, t2}
  NoApp = NoApp
  NoName = NoName
  NoCid = NoCid
  NoTask = NoTask
  Requests = {"stop", "remove", "reload"}
  Faults = {"build", "db"}
  Overlap = TRUE
PROPERTIES
  Settles
  RemovalEnds
CHECK_DEADLOCK FALSE
