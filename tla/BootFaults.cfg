SPECIFICATION Spec
CONSTANTS
  p1 = p1
  p2 = p2
  s1 = s1
  ada = ada
  bob = bob
  s2 = s2
  Starters = {"router", "other"}
  Releases = {1, 2}
  Posts = {p1, p2}
  Names = {ada, bob}
  DefaultApps <- Apps1
  ClaimRequired = TRUE
  Troubles = {"crash", "migration", "other", "release", "network", "owner"}
  MaxTroubles = 2
  Sids = {s1, s2}
  MaxTokens = 1
SYMMETRY Symmetry
INVARIANTS
  SchemaFits
  OneOwner
  SetupStaysOpen
  SessionsHonest
PROPERTIES
  OwnerChoicesSurvive
CHECK_DEADLOCK FALSE
