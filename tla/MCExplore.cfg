CONSTANTS
  Spots = {1, 2, 3}
  Clients = {c1}
  Requests = {q1, q2}
  Codes = {camp}
  Scores = {0, 1, 2}
  Ratings = {1, 2}
  Catalogue <- MCCatalogue
  RequireCoordinates = FALSE
  PageSize = 1
  MapLimit = 2
  TotalCap = 2
  MaxEdits = 2
  Nobody = Nobody
SPECIFICATION Spec
SYMMETRY MCSymmetry
INVARIANTS
  TypeOK
  PagingIsExact
  ModesAgree
  DeletedCodesAreGone
