\* One request for the variant at a time, while others change the catalog.
SPECIFICATION Spec
CONSTANTS
  k1 = k1
  Sellers = {s1}
  Categories = {c1, c2}
  Keys = {k1}
  Definitions <- MCDefinitions
  Kinds = {"boolean"}
  Sent <- MCSent
  MaxAttributes = 2
  Null = Null
  Removed = Removed
  None = None
SYMMETRY Symmetry
INVARIANTS TypeOK SchemaIsNearest
PROPERTIES CheckedBeforeStored
