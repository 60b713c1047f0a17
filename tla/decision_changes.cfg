SPECIFICATION Settings
CONSTANTS
  Requests = {r1, r2, r3}
  Submissions = {s1, s2, s3}
  Speakers = {ann}
  Team = {ann, ben}
  Tasks = {headshot}
  Original = original
  None = none
  Verdicts <- Reversals
  EditTeams <- NoEdits
  Serial = FALSE
  MayFail = FALSE
SYMMETRY Symmetry
CHECK_DEADLOCK FALSE
INVARIANTS
  ChangesTakeHold
  NeverReconverted
