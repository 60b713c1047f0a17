SPECIFICATION FairSpec
CONSTANTS
  CronRuns = {}
  ButtonRuns = {b1, b2}
  Events = {e1}
  Speakers = {ann}
  None = none
  Week = 3
  CronSilence = 2
  ManualSilence = 1
  MaxFailures = 0
  MaxChanges = 0
CHECK_DEADLOCK FALSE
INVARIANT NeverDoubleSends
