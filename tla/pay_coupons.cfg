\* Two checkouts that share a coupon and a sample follow-up coupon; the second key
\* charged another amount, and an operator reviews the queue.
SPECIFICATION Spec
CONSTANTS
  g1 = g1
  g2 = g2
  o1 = o1
  o2 = o2
  c1 = c1
  c2 = c2
  k1 = k1
  k2 = k2
  r1 = r1
  r2 = r2
  Groups = {g1, g2}
  Orders = {o1, o2}
  GroupOf <- TwoGroupsOf
  TypeOf <- SampleAndSale
  Coupons = {c1, c2}
  FollowUp = c2
  NoCoupon = NoCoupon
  Keys = {k1, k2}
  KeyGroup <- TwoGroupKeys
  OddKeys = {k2}
  NoKey = NoKey
  Requests = {r1}
  Hooks = {h1}
  Reviews = {v1}
  NoItem = NoItem
  Replies = {"ok", "already", "rejected", "uncertain"}
  AdminEdges = {}
CHECK_DEADLOCK FALSE
INVARIANTS PaidAmountFits OddMoneyReturned ReservedIsHeld
PROPERTY UsedIsFinal
