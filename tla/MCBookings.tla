---- MODULE MCBookings ----
(***************************************************************************)
(* Two bookings of one slot, and overlapping requests.                     *)
(***************************************************************************)
EXTENDS BookingPromises, TLC

CONSTANTS b1, b2, r1, r2

OneSlot == [b \in Booking |-> CHOOSE s \in Slot : TRUE]
Symmetry == Permutations(Booking) \cup Permutations(Request)

====
