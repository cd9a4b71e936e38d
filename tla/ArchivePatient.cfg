SPECIFICATION Spec
CONSTANTS
  Buckets = {A, B}
  Local = Local
  Down = Down
  Files = {f, g}
  Apps = {x, y}
  Legacy = Legacy
  Zone = Zone
  Prefixes = {Zone}
  Zones = {"fresh", "disabled"}
  Faults = {"crash", "reboot", "fuse", "format", "attach", "mount", "umount", "podman", "sync", "config", "commit", "reclaim", "restart", "unready"}
  Overlap = FALSE
SYMMETRY Symmetry
INVARIANTS
  TypeOK
  NothingLost
  Readable
  
PROPERTIES
  ReclaimsLast
CHECK_DEADLOCK FALSE
