\* Only the holders of the order lock and the payment move the order, and
\* operators do not revive rejected claims.
SPECIFICATION Spec
CONSTANTS
  o1 = o1
  o2 = o2
  i1 = i1
  i2 = i2
  a = a
  b = b
  c = c
  Orders = {o1}
  TypeOf <- OneSale
  Items = {i1, i2}
  OrderOf <- ItemsOfOne
  Claims = {a, b, c}
  NoItem = NoItem
  Jobs = {"pay"}
  ClaimEdges <- NoRevival
SYMMETRY RowsAndItems
CHECK_DEADLOCK FALSE
PROPERTIES ClaimFitsStatus OrderFrozenByClaim CanceledNeverConfirmed
