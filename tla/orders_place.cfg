\* One submission, sent up to twice; anything may fail.
SPECIFICATION Spec
CONSTANTS
  s1 = s1
  c1 = c1
  Submissions = {s1}
  MaxAttempts = 2
  Carts = {c1}
  CartOf <- MCCartOf
  Contents <- MCContents
  Rulings <- MCRulings
  MaxAmount = 18
  NoCart = NoCart
  NoOrder = NoOrder
INVARIANTS TypeOK OrderAddsUp MessagesMatchOrders
