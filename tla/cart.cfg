\* Two customers share the browser; three edits, four events.
SPECIFICATION Spec
CONSTANTS
  u1 = u1
  u2 = u2
  i1 = i1
  i2 = i2
  Users = {u1, u2}
  Items = {i1, i2}
  NoUser = NoUser
  MaxEvents = 4
  MaxEdits = 3
SYMMETRY UsersAndItems
CHECK_DEADLOCK FALSE
INVARIANTS CartOfOwner
PROPERTIES GuestLinesKept AccountLinesKept
