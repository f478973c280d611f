CONSTANTS
  Users = {a, b, c}
  Staff = Staff
  Requests = {q1, q2}
  Invites = {i1}
  Spots = {s1}
  Nobody = Nobody
  Roles <- MCRoles
  Starts <- MCStarts
SPECIFICATION Spec
SYMMETRY MCSymmetry
CHECK_DEADLOCK FALSE
INVARIANTS
  TypeOK
  KeepsAnOwnerUnlessRaced
  EffectsWereAllowed
  OneEntryUnlessShared
