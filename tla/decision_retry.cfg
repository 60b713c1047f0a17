SPECIFICATION Spec
CONSTANTS
  Requests = {r1, r2}
  Submissions = {s1}
  Speakers = {ann}
  Tasks = {headshot}
  Original = original
  None = none
  Verdicts <- AcceptOrDeny
  EditTeams <- NoEdits
  Serial = TRUE
  MayFail = TRUE
CHECK_DEADLOCK FALSE
INVARIANT
  RetryConverges
