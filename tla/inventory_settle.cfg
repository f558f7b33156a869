\* Callers settle a reservation once at a time; nothing crashes or is lost.
\* No symmetry: one of the properties is temporal.
SPECIFICATION FairSpec
CONSTANTS
  Workers = {w1, w2}
  Items = {i1}
  Orders = {o1, o2}
  Quantities = {1, 2}
  Deltas <- MCDeltas
  MaxInt = 2
  OneSettler = TRUE
  Crashes = FALSE
  Lossy = FALSE
  NoOrder = NoOrder
  NoJob = NoJob
  Nobody = Nobody
INVARIANTS Conservation RecordsMatchCommits
PROPERTIES SettledIsFinal EveryRequestAnswered
