CONSTANTS
  a = a
  b = b
  Actors = {a}
  Users = {a, b}
  times = 1
  seconds = 2
  Processes = {p1, p2}
  Sockets = {s1, s2}
  owner <- MCOwner
  Messages = {m1, m2}
  Nobody = Nobody
SPECIFICATION Spec
SYMMETRY MCSymmetry
INVARIANTS
  TypeOK
  PushLeavesNoGap
PROPERTIES
  RateIsKept
