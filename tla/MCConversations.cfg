CONSTANTS
  Users = {a, b}
  Convs = {c1, c2}
  Busy = {c1}
  Marking = {a}
  Messages = {1, 2}
  Requests = {q1, q2}
  Nobody = Nobody
  PageSize = 1
  Ahead = 1
  MaxClock = 3
SPECIFICATION Spec
SYMMETRY MCSymmetry
INVARIANTS
  TypeOK
  OneDirectUnlessRaced
  BlockStops
  UnreadUnlessRead
  PagingIsComplete
