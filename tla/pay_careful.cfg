\* One group of two orders, two confirm attempts, operators that leave unpaid
\* and locked orders alone, and fair servers.  Without symmetry: the refinement
\* mapping chooses keys, and one property is a liveness property.
SPECIFICATION FairSpec
CONSTANTS
  g1 = g1
  g2 = g2
  o1 = o1
  o2 = o2
  c1 = c1
  c2 = c2
  k1 = k1
  k2 = k2
  r1 = r1
  r2 = r2
  Groups = {g1}
  Orders = {o1, o2}
  GroupOf <- OneGroupOf
  TypeOf <- SaleAndRepair
  Coupons = {}
  FollowUp = NoCoupon
  NoCoupon = NoCoupon
  Keys = {k1, k2}
  KeyGroup <- OneGroupKeys
  OddKeys = {}
  NoKey = NoKey
  Requests = {r1, r2}
  Hooks = {h1}
  Reviews = {}
  NoItem = NoItem
  Replies = {"ok", "already", "rejected", "uncertain"}
  AdminEdges <- FewCarefulEdges
CHECK_DEADLOCK FALSE
INVARIANTS OneAttemptAtATime OneChargePerGroup CapturedIsAccountedFor
  ClosedMeansSettled AdvancedMeansPaid
PROPERTIES PaidCanceledKnowingly ImplementsLedger CapturedEventuallyApplied
