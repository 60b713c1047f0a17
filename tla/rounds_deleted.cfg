SPECIFICATION Spec
CONSTANTS
  Requests = {r1, r2}
  Slots = {s1}
  Criteria = {c1, c2}
  Original = original
  None = none
  Kinds <- DeleteAndScore
  Serial = FALSE
  MayFail = FALSE
CHECK_DEADLOCK FALSE
PROPERTY
  LostOnlyConfirmed
