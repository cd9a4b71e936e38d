SPECIFICATION Spec
CONSTANTS
  c = c
  d = d
  g = g
  h = h
  x = x
  y = y
  t1 = t1
  t2 = t2
  Apps = {c, d}
  NoApp = NoApp
  Keys = {g, h}
  DeviceKeys = {h}
  Accounts = {x, y}
  Default = Default
  New = New
  Nobody = Nobody
  Tasks = {t1, t2}
  Idle = Idle
  MaxFlows = 2
  MaxRows = 2
  MaxEvents = 1
SYMMETRY Symmetry
INVARIANTS
  GrantsAreConsented
  CodeStoredOnce
  RowsKeepTheirAccount
CHECK_DEADLOCK FALSE
