\* Every unordered pair of kinds, every choice of the objects that cannot be deleted.
SPECIFICATION FairSpec
CONSTANTS
  i1 = i1
  i2 = i2
  Images = {i1, i2}
  Mixes <- Pairs
  Batches = {b1}
  Limit = 1
  Carts <- TwoLines
  MaxEvents = 1
INVARIANTS LinkedObjectKept InUseNeverExpires
PROPERTY CleanedUp
CHECK_DEADLOCK FALSE
