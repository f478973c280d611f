CONSTANTS
  Spots = {s1, s2}
  Staff = {u}
  Superuser = Superuser
  Nobody = Nobody
  Keep = Keep
  Requests = {q1, q2}
  Statuses <- MCStatuses
  Tiers = {2}
  MaxPick = 2
SPECIFICATION Spec
SYMMETRY MCSymmetry
INVARIANTS
  TypeOK
  PickedIsHeld
  DecayOncePerPeriod
PROPERTIES
  StaffReachIsBounded
