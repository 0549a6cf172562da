SPECIFICATION AshmemSpec
CONSTANTS
  a1 = a1  a2 = a2
  x1 = x1  x2 = x2  x3 = x3  x4 = x4
  t1 = t1  t2 = t2
  n1 = n1  n2 = n2  none = none
  Areas = {a1}  Pages = 4  Wrap = 8
  RangeIds = {x1, x2, x3, x4}  Scans = {1, 2, 3, 4}
  AllocFails = FALSE  EmptyPins = FALSE
SYMMETRY Interchangeable
CHECK_DEADLOCK FALSE
INVARIANTS
  AshmemExact AreasExact
PROPERTY
  PagesSpec
