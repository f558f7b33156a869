\* Two concurrent requests on one item, crashes included.
SPECIFICATION Spec
CONSTANTS
  Workers = {w1, w2}
  Items = {i1}
  Orders = {o1, o2}
  Quantities = {1, 2}
  Deltas <- MCDeltas
  MaxInt = 2
  OneSettler = FALSE
  Crashes = TRUE
  Lossy = FALSE
  NoOrder = NoOrder
  NoJob = NoJob
  Nobody = Nobody
SYMMETRY Symmetry
INVARIANTS TypeOK NoLostUpdate
PROPERTIES NeverOversold ImplementsAccount
