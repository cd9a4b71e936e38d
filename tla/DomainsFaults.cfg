SPECIFICATION DomainsSpec
CONSTANTS
  a = a
  b = b
  c = c
  Names = {a, b, c}
  First = a
  Given <- MCGiven
  Requests = {r1, r2}
  ServesDns = TRUE
  Attempts = 2
  Faults = {"ca", "caddy", "coredns", "agent", "apps_busy", "crash"}
  MaxEvents = 3
INVARIANTS
  OnePrimary
  ChallengeIntact
  FrontEndCurrent
PROPERTIES
  RequestsEnd
CHECK_DEADLOCK FALSE
