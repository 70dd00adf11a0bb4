SPECIFICATION FairSpec
CONSTANTS
  a = a  b = b  h1 = h1  h2 = h2
  NoEvent = NoEvent
  Sub = {a}
  Handler = {h1}
  Types = {"created", "updated", "deleted", "checkout", "failed", "succeeded"}
  Starts = {"active"}
  Ordered = TRUE
  Period = 2
  Faults = {"drop"}
  MaxFaults = 1
  MaxChanges = 3
  MaxTime = 4
INVARIANT RowFollowsStripe
PROPERTY EventuallyProcessed
CHECK_DEADLOCK FALSE
