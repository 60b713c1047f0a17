SPECIFICATION FairMail
CONSTANTS
  CronRuns = {c1}
  ButtonRuns = {b1}
  Events = {e1, e2}
  Speakers = {ann}
  None = none
  Week = 3
  CronSilence = 2
  ManualSilence = 1
  MaxFailures = 1
  MaxChanges = 1
  Jobs = {j1, j2}
  Drafts = {d1}
  Sends = {n1, n2}
  Editors = {o1, o2}
  Notices = {w1}
  MaxMoves = 1
  MaxPlaces = 2
  MaxSent = 3
  MaxFaults = 1
  MaxEdits = 3
CHECK_DEADLOCK FALSE
INVARIANTS
  NobodyMailedInVain
  DigestsApart
  PreviewIsKept
  UpdatesLand
  WordingHolds
PROPERTIES
  KeepsReminding
