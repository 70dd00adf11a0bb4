-------------------------- MODULE BookingPromises --------------------------
(***************************************************************************)
(* What a booking promises, although every handler writes from a status it *)
(* read some time ago.                                                     *)
(***************************************************************************)
EXTENDS Bookings

\* The tutor gives one lesson at a time: no two bookings of one start are
\* confirmed or in progress together, whichever handlers revive one with a
\* stale status (booking_routes.py, confirm_payment and start_booking).
OneLessonPerSlot ==
  \A b, c \in Booking :
    b # c /\ SlotOf[b] = SlotOf[c] => ~(row[b].status \in Active /\ row[c].status \in Active)

\* A booking is confirmed once in its life: no doubled or late payment
\* confirmation brings one back that was cancelled, held or refunded since
\* (booking_routes.py, confirm_payment).
ConfirmedOnce ==
  [][\A b \in Booking :
       row'[b].status = "CONFIRMED" /\ row[b].status # "CONFIRMED" =>
         ~row[b].confirmed /\ b \notin session]_vars

\* Money goes back, through Stripe, only for a lesson that was paid for
\* (lesson_routes.py, refund_booking).
PaidBackWasPaid == \A b \in paidBack : row[b].confirmed /\ b \in session

\* A status presupposes its history, although the row may have been overwritten
\* in between: what is earned, missed or refunded was confirmed, with a room;
\* what was held was started; a refunded row was refunded by Stripe
\* (repositories.py, set_booking_status and aggregate_earnings).
Paid == {"CONFIRMED", "IN_PROGRESS", "COMPLETED", "CANCELLED_BY_TUTOR",
         "NO_SHOW_STUDENT", "NO_SHOW_TUTOR", "REFUNDED_BY_ADMIN"}
Held == {"COMPLETED", "NO_SHOW_STUDENT", "NO_SHOW_TUTOR"}
StatusHasHistory ==
  \A b \in Booking :
    /\ row[b].status \in Paid => row[b].confirmed /\ b \in session
    /\ row[b].status \in Held \cup {"IN_PROGRESS"} => row[b].started
    /\ row[b].status \in Held => row[b].completed
    /\ row[b].status = "REFUNDED_BY_ADMIN" => b \in paidBack

\* A rating, and one that counts for the tutor, is of a lesson that was held
\* (creator_routes.py, rate_booking).
RatedWasHeld ==
  \A b \in Booking :
    rating[b] # "none" \/ b \in cached => row[b].started /\ row[b].completed
=============================================================================
