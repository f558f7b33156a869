\* Two requests settle the same reservation.
SPECIFICATION Spec
CONSTANTS
  Workers = {w1, w2}
  Items = {i1}
  Orders = {o1, o2}
  Quantities = {1}
  Deltas <- MCDeltas
  MaxInt = 2
  OneSettler = FALSE
  Crashes = FALSE
  Lossy = TRUE
  NoOrder = NoOrder
  NoJob = NoJob
  Nobody = Nobody
SYMMETRY Symmetry
INVARIANTS Conservation
