SPECIFICATION Screens
CONSTANTS
  ann = ann
  ben = ben
  a1 = a1
  a2 = a2
  Requests = {r1, r2}
  Users = {ann, ben}
  Owners = {ann}
  Tracks = {t1}
  Rows = {a1, a2}
  Holder <- BensRows
  None = none
  Kinds <- AllKinds
  Serial = TRUE
  MayFail = TRUE
  Sessions = {1, 2}
  Days = {1}
  Rooms = {1, 2}
  Speakers = {ann}
  EventDays = {1}
  MinutesPerDay = 5
  MinLength = 2
  MaxLength = 3
  DefaultLength = 3
  SnapMinutes = 2
  Opening <- Openings
  Windows <- WholeDay
  MaxCalls = 2
  MaxBreaks = 1
  MaxTurns = 1
CHECK_DEADLOCK FALSE
SYMMETRY RequestSymmetry
INVARIANTS
  AdminRemains
  DemotionCleans
  ConflictsSeen
PROPERTIES
  FiledWorkStays
  SuggestionFits
