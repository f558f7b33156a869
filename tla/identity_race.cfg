\* Two concurrent requests of one customer, crashes included.
SPECIFICATION Spec
CONSTANTS
  Workers = {w1, w2}
  Addresses = {a1, a2}
  Labels = {l1, l2}
  Keys = {k1, k2}
  Allowed = {k1}
  Values = {v1, v2}
  Crashes = TRUE
  NoRow = NoRow
  NoJob = NoJob
  Unset = Unset
SYMMETRY Symmetry
INVARIANTS TypeOK
PROPERTIES DefaultsWereUnseen DefaultTakesEffect RemovedStaysRemoved
  UpsertTakesEffect AddFailsOnRemovedLabel
