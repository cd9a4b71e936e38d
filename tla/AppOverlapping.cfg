SPECIFICATION Spec
CONSTANTS
  Apps = {a, b}
  Names = {m}
  Cids = {c1, c2, c3, c4}
  Tasks = {t1, t2}
  NoApp = NoApp
  NoName = NoName
  NoCid = NoCid
  NoTask = NoTask
  Requests = {"stop", "remove", "reload", "oauth", "promote"}
  Faults = {"crash", "build", "db", "lowdisk"}
  Overlap = TRUE
SYMMETRY Symmetry2
INVARIANTS
  IdsNeverCross
  NotStranded
  PromotedBeforeServing
PROPERTIES
  DeletedForGood
CHECK_DEADLOCK FALSE
