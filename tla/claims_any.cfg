\* A sale order of two items, every job, every edit.
SPECIFICATION Spec
CONSTANTS
  o1 = o1
  o2 = o2
  i1 = i1
  i2 = i2
  a = a
  b = b
  c = c
  Orders = {o1}
  TypeOf <- OneSale
  Items = {i1, i2}
  OrderOf <- ItemsOfOne
  Claims = {a, b, c}
  NoItem = NoItem
  Jobs = {"pay", "stale", "autoConfirm", "webhook"}
  ClaimEdges <- AllClaimEdges
SYMMETRY RowsAndItems
CHECK_DEADLOCK FALSE
INVARIANT OneActiveClaim
PROPERTY ImplementsLife
