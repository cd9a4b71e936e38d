SPECIFICATION Spec
CONSTANTS
  Buckets = {A, B}
  Local = Local
  Down = Down
  Files = {f, g}
  Apps = {x}
  Legacy = Legacy
  Zone = Zone
  Prefixes = {Zone}
  Zones = {"legacy"}
  Faults = {}
  Overlap = FALSE
SYMMETRY Symmetry
INVARIANTS
  NothingLost
CHECK_DEADLOCK FALSE
