\* Two tracking edits and the moves of a custom order, with the daily batch.
SPECIFICATION FairSpec
CONSTANTS
  e1 = e1
  e2 = e2
  Type = "custom"
  Editors = {e1, e2}
CHECK_DEADLOCK FALSE
INVARIANT NoticeNotLost
PROPERTY ShippedEventuallyCompleted
