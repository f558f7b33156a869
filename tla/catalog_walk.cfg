\* The walks end; one attribute, which may be renamed.
SPECIFICATION Spec
CONSTANTS
  k1 = k1
  Sellers = {s1}
  Categories = {c1, c2}
  Keys = {k1, k2}
  Definitions <- MCWalkDefinitions
  Kinds = {"boolean"}
  Sent <- MCWalkSent
  MaxAttributes = 1
  Null = Null
  Removed = Removed
  None = None
PROPERTIES WalksEnd
