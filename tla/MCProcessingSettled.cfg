SPECIFICATION Spec
CONSTANTS
  o1 = o1
  o2 = o2
  Orders = {o1, o2}
  Notes = {}
  Unpayable = {}
  MaxCrashes = 0
  MaxRefusals = 0
  MaxLag = 0
  MaxFees = 0
SYMMETRY OrderSymmetry
CHECK_DEADLOCK FALSE
INVARIANTS CurveSettled
