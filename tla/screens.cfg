SPECIFICATION Screens
CONSTANTS
  q1 = q1
  q2 = q2
  o1 = o1
  o2 = o2
  Organizers = {o1, o2}
  Original = "t0"
  Speakers = {"s1", "s2"}
  Types = {"upload", "confirm"}
  MaxAnswers = 1
  Addresses = {"e1", "e2"}
  Names = {"n1", "n2"}
  Files <- SomeFiles
  Talks = {1, 2, 3}
  Hosts = {"s1"}
  Spots <- SomePlaces
  Wanted <- OneOrAll
  MaxEdits = 2
  Proposals = {1, 2}
  Tracks = {t1}
  Rounds = {q1, q2}
  OpenRounds = {q1}
  Pairs <- OneOfEach
  None = none
  MaxChanges = 2
CHECK_DEADLOCK FALSE
INVARIANTS
  BlindnessHolds
  ScreensAgree
  TasksHold
  DirectoryHolds
  ProgramHolds
