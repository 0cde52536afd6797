SPECIFICATION CurveSpec
CONSTANTS
  o1 = o1
  o2 = o2
  Orders = {o1, o2}
  Notes = {1}
  Unpayable = {}
  MaxCrashes = 1
  MaxRefusals = 1
  MaxLag = 1
  MaxFees = 1
SYMMETRY OrderSymmetry
CHECK_DEADLOCK FALSE
INVARIANTS SnapshotSettled PendingResolvable
