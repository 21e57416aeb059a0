CONSTANTS
  p1 = p1
  p2 = p2
  ann = ann
  Pages = {p1, p2}
  Users = {ann}
  User <- TwoTabs
  Seconds = {1}
  Sizes = {1, 2}
  MaxOps = 2
SPECIFICATION Spec
INVARIANTS TypeOK ListIsTrue
SYMMETRY TabSymmetry
CHECK_DEADLOCK FALSE
