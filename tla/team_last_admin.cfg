SPECIFICATION Spec
CONSTANTS
  ann = ann
  ben = ben
  a1 = a1
  a2 = a2
  Requests = {r1, r2}
  Users = {ann, ben}
  Owners = {}
  Tracks = {t1}
  Rows = {a1}
  Holder <- BensRows
  None = none
  Kinds <- ChangeOnly
  Serial = FALSE
  MayFail = FALSE
CHECK_DEADLOCK FALSE
INVARIANT
  AdminRemains
