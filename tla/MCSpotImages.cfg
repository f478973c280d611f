CONSTANTS
  Keys = {k1, k2}
  Images = {i1, i2, i3}
  Requests = {q1, q2}
  NoKey = NoKey
  MaxImages = 1
SPECIFICATION Spec
SYMMETRY MCSymmetry
INVARIANTS
  TypeOK
  RowsHaveObjects
  ObjectsHaveRows
  SizeIsBounded
  CountIsBounded
PROPERTIES
  OriginalsAreKept
