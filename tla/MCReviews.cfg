CONSTANTS
  Users = {a, b}
  Reviews = {v1, v2, v3}
  Ratings = {3, 8}
  Txs = {t1, t2}
  Nobody = Nobody
  FromFile = FromFile
SPECIFICATION Spec
SYMMETRY MCSymmetry
INVARIANTS
  TypeOK
  OneActiveReview
PROPERTIES
  UndisturbedReviewHeals
  DeletedStaysOut
