SPECIFICATION Desk
CONSTANTS
  Requests = {r1, r2}
  Rows = {p1, p2}
  Emails = {ann, ben}
  Contents = {x}
  None = none
  Forms <- OneEach
  MaxRequests = 2
  MaxMoves = 1
  Hands = {h1, h2}
  Stages = {s1, s2, s3}
  MaxGrabs = 4
  MaxDrops = 1
  Questions = {1, 2, 3}
  Choices = {"a", "b"}
  Retired = "old"
  Designs <- SomeDesigns
  MaxSaves = 1
  MaxVisits = 2
SYMMETRY Interchangeable
CHECK_DEADLOCK FALSE
INVARIANTS
  IntakeHolds
  StaysReachable
  HistoryIsTrue
  FormsHold
PROPERTIES
  RequestsHold
