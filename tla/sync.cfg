SPECIFICATION Settings
CONSTANTS
  i1 = i1
  i2 = i2
  e1 = e1
  e2 = e2
  CronRuns = {c1}
  ButtonRuns = {b1}
  Events = {e1, e2}
  Ids = {i1, i2}
  EventOf <- TwoEvents
  MaxVersion = 2
  MaxRecords = 3
  MaxFailures = 1
  BatchSize = 1
  Serial = TRUE
  MayClaim = TRUE
CHECK_DEADLOCK FALSE
PROPERTIES
  ForeignRowsStay
  RecordsOnlyFollow
  OverlapsConverge
