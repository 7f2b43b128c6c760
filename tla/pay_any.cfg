\* One group, two confirm attempts, operators that use every edit the status
\* tables allow.
SPECIFICATION Spec
CONSTANTS
  g1 = g1
  g2 = g2
  o1 = o1
  o2 = o2
  c1 = c1
  c2 = c2
  k1 = k1
  k2 = k2
  r1 = r1
  r2 = r2
  Groups = {g1}
  Orders = {o1, o2}
  GroupOf <- OneGroupOf
  TypeOf <- TwoSales
  Coupons = {}
  FollowUp = NoCoupon
  NoCoupon = NoCoupon
  Keys = {k1, k2}
  KeyGroup <- OneGroupKeys
  OddKeys = {}
  NoKey = NoKey
  Requests = {r1, r2}
  Hooks = {h1}
  Reviews = {}
  NoItem = NoItem
  Replies = {"ok", "already", "rejected", "uncertain"}
  AdminEdges <- MoneyEdges
SYMMETRY OneGroupSymmetry
CHECK_DEADLOCK FALSE
INVARIANTS LockHasJournal GroupPaidTogether PaidImpliesCaptured
PROPERTIES PaidKeyIsFinal KeepsContracts
