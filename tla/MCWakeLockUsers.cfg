SPECIFICATION UsersSpec
CONSTANTS
  Names <- MCNames
  Timeouts = {0, 1, 4, 5, 28}
  NsPerJiffy = 4
  ULLONG_MAX = 127
  LONG_MAX = 7
  main = main
  l0 = l0  l1 = l1  l2 = l2
SYMMETRY Interchangeable
INVARIANT
  UserLocksExact
PROPERTIES
  OneLockPerName StatsExact
