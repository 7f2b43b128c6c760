SPECIFICATION Spec
CONSTANTS
  Users = {u1, u2}
  NoUser = NoUser
  Lines = {l1, l2}
  Groups = {g1, g2}
  NoGroup = NoGroup
  Calls = {c1, c2}
  MaxEvents = 3
PROPERTIES LinesLeavePaidBy TossByOwner PaidIsForgotten
CHECK_DEADLOCK FALSE
