\* Two lines of one cart: requests can wait for each other.
SPECIFICATION FairSpec
CONSTANTS
  Workers = {w1, w2}
  Carts = {c1}
  Variants = {v1, v2}
  Customers = {u1}
  Quantities = {1}
  MaxInt = 1
  Crashes = FALSE
  NoCustomer = NoCustomer
  NoVariant = NoVariant
  NoCart = NoCart
  NoJob = NoJob
  Nobody = Nobody
PROPERTIES EveryRequestAnswered
