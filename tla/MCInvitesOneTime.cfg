CONSTANTS
  Users = {a, b, c}
  Staff = Staff
  Requests = {q1, q2}
  Invites = {i1}
  Spots = {}
  Nobody = Nobody
  Roles <- MCRoles
  Starts <- MCAcceptances
SPECIFICATION Spec
SYMMETRY MCSymmetry
CHECK_DEADLOCK FALSE
INVARIANTS
  InviteIsOneTime
