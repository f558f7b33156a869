\* Two concurrent requests on two carts and two customers; any may fail.
SPECIFICATION Spec
CONSTANTS
  Workers = {w1, w2}
  Carts = {c1, c2}
  Variants = {v1}
  Customers = {u1, u2}
  Quantities = {1}
  MaxInt = 2
  Crashes = TRUE
  NoCustomer = NoCustomer
  NoVariant = NoVariant
  NoCart = NoCart
  NoJob = NoJob
  Nobody = Nobody
SYMMETRY Symmetry
INVARIANTS TypeOK
PROPERTIES ClaimConservesUnits ClaimLeavesOneCart DeletionCarriesUnits
  UpdateNeverRevives CreatedMeansNew ImplementsAccount
