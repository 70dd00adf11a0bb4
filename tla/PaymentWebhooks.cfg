SPECIFICATION Spec
CONSTANTS
  a = a  b = b  h1 = h1  h2 = h2
  NoEvent = NoEvent
  Sub = {a}
  Handler = {h1, h2}
  Types = {"created", "updated", "deleted"}
  Starts = {"active", "incomplete"}
  Ordered = FALSE
  Period = 2
  Faults = {"abort", "drop", "ask"}
  MaxFaults = 1
  MaxChanges = 3
  MaxTime = 3
SYMMETRY Symmetry
INVARIANT PremiumIsReported
PROPERTY AppliedOnce
PROPERTY IsEntitlement
CHECK_DEADLOCK FALSE
