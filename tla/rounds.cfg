SPECIFICATION Outside
CONSTANTS
  Requests = {r1, r2, r3}
  Slots = {s1, s2}
  Criteria = {c1, c2}
  Original = original
  None = none
  Kinds <- AllKinds
  Serial = TRUE
  MayFail = TRUE
  Judges = {1, 2}
  Judged = {"p1"}
  Judging <- OneProposal
  Kits <- Builders
  Panel = {1, 2}
  Nominated = {"p1", "p2"}
  Owing <- ThreePairs
  Asking <- JustChoice
  MaxPresses = 2
  Calls = {"c"}
  Keys = {"key", "token"}
  Tokens = {"token"}
  Owners = {"ann"}
  Events = {"e1", "e2"}
  Addressed = {"s"}
  EventOf <- AllOfFirst
  Limit = 1
  MaxTurns = 2
  Items = {1, 2, 3, 4}
  PageSize = 2
  MaxTime = 3
  Talks = {1, 2}
  People = {"ann"}
  MaxTouches = 2
CHECK_DEADLOCK FALSE
SYMMETRY Symmetry
INVARIANTS
  ReadsBackSerially
  FiledIsCounted
  DoneHasCard
  NudgesOwed
  AnswersHold
  PagesHold
PROPERTIES
  LostOnlyConfirmed
  ScoresAreFair
