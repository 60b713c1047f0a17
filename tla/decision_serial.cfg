SPECIFICATION Sessions
CONSTANTS
  Requests = {r1, r2, r3}
  Submissions = {s1, s2}
  Speakers = {ann, ben}
  Tasks = {headshot}
  Original = original
  None = none
  Verdicts <- AcceptOrDeny
  EditTeams <- NoEdits
  Serial = TRUE
  MayFail = TRUE
  Abstracts = {x, y}
  Titles = {talk}
  ContentStatuses = {approved}
  Editors = {d1, d2}
  MaxEdits = 3
  MaxLosses = 1
SYMMETRY RequestSymmetry
CHECK_DEADLOCK FALSE
INVARIANTS
  VerdictsTakeHold
  VersionsRestorable
  FilesKept
PROPERTY
  ImplementsPromise
