SPECIFICATION Spec
CONSTANTS
  notes = notes
  mail = mail
  t1 = t1
  t2 = t2
  Apps = {notes, mail}
  NoApp = NoApp
  Tasks = {t1, t2}
  Services = {"s"}
  Perms = {"p", "q"}
  Ports = {2, 3, 4, 5}
  Floor = 2
  Manifest <- Repositories
  Faults = {"archive", "pull", "submodules", "rollback", "build", "run", "rmi", "crash"}
  MaxEvents = 4
SYMMETRY Symmetry
INVARIANTS
  ReviewedBeforeRunning
  RevokedStaysRevoked
  RunsWhatIsDeployed
PROPERTIES
  KeepsConsent
  PortsKeep
CHECK_DEADLOCK FALSE
