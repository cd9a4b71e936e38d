SPECIFICATION UpdateSpec
CONSTANTS
  Parent <- MCParent
  Release <- MCRelease
  Registry <- MCRegistry
  PreRelease = {}
  Tips = {4}
  Old = 1
  InitPins = {"latest", "gone"}
  Faults = {"dirty", "fetch", "updater", "stop", "git", "migration", "install", "start", "launch", "timeout", "kill", "reboot", "crash", "overlap", "held", "caddy"}
  MaxEvents = 3
INVARIANTS
  NoMigrationSkipped
PROPERTIES
  DoneIsFresh
  RouterComesBack
  LogSettles
CHECK_DEADLOCK FALSE
