SPECIFICATION Spec
CONSTANTS
  Apps = {a, b, c}
  NoApp = NoApp
  Names = {m, n}
  NoName = NoName
  Archived = {a}
  Faults = {"insert", "launch", "dirs", "undo", "db", "rmtree", "fuse", "crash"}
  Habits = {}
  MaxEvents = 7
SYMMETRY Symmetry
INVARIANTS
  DataFollowsName
  OwnDataOnly
  
CHECK_DEADLOCK FALSE
