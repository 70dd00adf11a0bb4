SPECIFICATION Spec
CONSTANTS
  b1 = b1  b2 = b2  r1 = r1  r2 = r2
  Booking = {b1, b2}
  Slot = {s1}
  SlotOf <- OneSlot
  Request = {r1, r2}
  NoBooking = NoBooking
SYMMETRY Symmetry
INVARIANTS OneLessonPerSlot PaidBackWasPaid StatusHasHistory RatedWasHeld
PROPERTY ConfirmedOnce
CHECK_DEADLOCK FALSE
