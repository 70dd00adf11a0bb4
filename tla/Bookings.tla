------------------------------ MODULE Bookings ------------------------------
(***************************************************************************)
(* services/marketplace: the bookings of one tutor, from the payment to    *)
(* the rating, and what administrators do with them.                       *)
(*                                                                         *)
(* Every handler is one transaction (READ COMMITTED): it reads the row     *)
(* without a lock, asks the table of transitions about the status it read, *)
(* calls Stripe where it must, and then updates the row by its id alone    *)
(* and commits. Requests overlap: request r has read when work[r] is not   *)
(* Idle, and the update and the commit, which a row lock ties together,    *)
(* are one step.                                                           *)
(***************************************************************************)
EXTENDS FiniteSets

CONSTANTS
  Booking,
  Slot, SlotOf,  \* starts of lessons, and that of each booking
  Request,
  NoBooking

ASSUME BookingsAssumption ==
  /\ SlotOf \in [Booking -> Slot]
  /\ NoBooking \notin Booking

VARIABLES
  row,       \* bookings
  session,   \* tutor_sessions: the bookings that have a row
  paidBack,  \* bookings whose payment Stripe has refunded
  rating,    \* tutor_session_ratings
  cached,    \* tutor_profiles.rating_*: the bookings whose ratings it counts
  work       \* requests

rateVars == <<rating, cached>>
vars == <<row, session, paidBack, rateVars, work>>

Status == {"none", "PENDING_PAYMENT", "CONFIRMED", "IN_PROGRESS", "COMPLETED",
           "CANCELLED_BY_STUDENT", "CANCELLED_BY_TUTOR", "NO_SHOW_STUDENT",
           "NO_SHOW_TUTOR", "REFUNDED_BY_ADMIN"}

\* The table of booking_state.py: status, action, next status.
Rules == {
  <<"PENDING_PAYMENT", "payment_succeeded", "CONFIRMED">>,
  <<"PENDING_PAYMENT", "payment_failed", "CANCELLED_BY_STUDENT">>,
  <<"PENDING_PAYMENT", "cancel_by_student", "CANCELLED_BY_STUDENT">>,
  <<"CONFIRMED", "start", "IN_PROGRESS">>,
  <<"CONFIRMED", "cancel_by_student", "CANCELLED_BY_STUDENT">>,
  <<"CONFIRMED", "cancel_by_tutor", "CANCELLED_BY_TUTOR">>,
  <<"IN_PROGRESS", "complete", "COMPLETED">>,
  <<"IN_PROGRESS", "no_show_student", "NO_SHOW_STUDENT">>,
  <<"IN_PROGRESS", "no_show_tutor", "NO_SHOW_TUTOR">>,
  <<"COMPLETED", "admin_refund", "REFUNDED_BY_ADMIN">>,
  <<"CANCELLED_BY_TUTOR", "admin_refund", "REFUNDED_BY_ADMIN">>,
  <<"NO_SHOW_TUTOR", "admin_refund", "REFUNDED_BY_ADMIN">>}

Change == {"payment_succeeded", "payment_failed", "cancel_by_student", "cancel_by_tutor",
           "start", "complete", "no_show_student", "no_show_tutor", "admin_refund"}
Moderation == {"hide", "unhide"}
Action == Change \cup Moderation \cup {"rate"}
Active == {"CONFIRMED", "IN_PROGRESS"}
Mark == {"none", "visible", "hidden"}

\* A row with the timestamps that are set; nothing clears one.
Row == [status: Status, confirmed: BOOLEAN, started: BOOLEAN, completed: BOOLEAN]
Job == [action: Action \cup {"idle"},
        of: Booking \cup {NoBooking},
        to: Status,                 \* the next status
        ready: BOOLEAN,             \* only the update and the commit are left
        counted: SUBSET Booking]    \* the aggregate it is about to store

TypeOK ==
  /\ row \in [Booking -> Row]
  /\ session \in SUBSET Booking
  /\ paidBack \in SUBSET Booking
  /\ rating \in [Booking -> Mark]
  /\ cached \in SUBSET Booking
  /\ work \in [Request -> Job]

NoRow == [status |-> "none", confirmed |-> FALSE, started |-> FALSE, completed |-> FALSE]
Idle == [action |-> "idle", of |-> NoBooking, to |-> "none", ready |-> FALSE, counted |-> {}]

Init ==
  /\ row = [b \in Booking |-> NoRow]
  /\ session = {}
  /\ paidBack = {}
  /\ rating = [b \in Booking |-> "none"]
  /\ cached = {}
  /\ work = [r \in Request |-> Idle]

-----------------------------------------------------------------------------
Set(r, job) == work' = [work EXCEPT ![r] = job]

\* create_booking: an active tutor's slot, whoever else holds or wants it.
CreateBooking(b) ==
  /\ row[b].status = "none"
  /\ row' = [row EXCEPT ![b] = [NoRow EXCEPT !.status = "PENDING_PAYMENT"]]
  /\ UNCHANGED <<session, paidBack, rateVars, work>>

\* A request that changes the status reads it and finds its rule. Who may ask
\* for which action does not depend on the row, and whether the 24 hours before
\* the slot have begun for a student's cancellation is left open. A refund has
\* Stripe's call before it.
ReadAnyStatus(r, a, b, s) ==
  /\ work[r] = Idle
  /\ row[b].status # "none" /\ \E t \in Status : <<t, a, s>> \in Rules
  /\ Set(r, [Idle EXCEPT !.action = a, !.of = b, !.to = s, !.ready = a # "admin_refund"])
  /\ UNCHANGED <<row, session, paidBack, rateVars>>

Read(r, a, b, s) ==
  /\ work[r] = Idle
  /\ <<row[b].status, a, s>> \in Rules
  /\ Set(r, [Idle EXCEPT !.action = a, !.of = b, !.to = s, !.ready = a # "admin_refund"])
  /\ UNCHANGED <<row, session, paidBack, rateVars>>

\* refund_payment_intent succeeds.
RefundPayment(r) ==
  /\ work[r].action = "admin_refund" /\ ~work[r].ready
  /\ paidBack' = paidBack \cup {work[r].of}
  /\ Set(r, [work[r] EXCEPT !.ready = TRUE])
  /\ UNCHANGED <<row, session, rateVars>>

\* set_booking_status: the status, and the action's timestamp.
WrittenStatus(d, a, s) == [d EXCEPT !.status = s]

Written(d, a, s) ==
  [status    |-> s,
   confirmed |-> d.confirmed \/ a = "payment_succeeded",
   started   |-> d.started \/ a = "start",
   completed |-> d.completed \/ a \in {"complete", "no_show_student", "no_show_tutor"}]

\* idx_tutor_active_slots refuses a second active booking of a slot, whatever
\* the other's state.
TakenIfStarted(b) == \E c \in Booking \ {b} : SlotOf[c] = SlotOf[b] /\ row[c].status = "IN_PROGRESS"
Taken(b) == \E c \in Booking \ {b} : SlotOf[c] = SlotOf[b] /\ row[c].status \in Active

\* The update and the commit. A payment inserts the session row as well, whose
\* primary key is the booking.
CommitTwice(r) ==
  /\ work[r].action \in Change /\ work[r].ready
  /\ LET b == work[r].of
     IN  /\ work[r].to \in Active => ~Taken(b)
         /\ row' = [row EXCEPT ![b] = Written(row[b], work[r].action, work[r].to)]
         /\ session' = IF work[r].action = "payment_succeeded" THEN session \cup {b} ELSE session
  /\ Set(r, Idle)
  /\ UNCHANGED <<paidBack, rateVars>>

Commit(r) ==
  /\ work[r].action \in Change /\ work[r].ready
  /\ LET b == work[r].of
     IN  /\ work[r].to \in Active => ~Taken(b)
         /\ work[r].action = "payment_succeeded" => b \notin session
         /\ row' = [row EXCEPT ![b] = Written(row[b], work[r].action, work[r].to)]
         /\ session' = IF work[r].action = "payment_succeeded" THEN session \cup {b} ELSE session
  /\ Set(r, Idle)
  /\ UNCHANGED <<paidBack, rateVars>>

-----------------------------------------------------------------------------
(* Ratings.                                                                *)

\* rate_booking reads the booking; hide and unhide read the rating.
ReadToRateAny(r, b) ==
  /\ work[r] = Idle
  /\ row[b].status # "none"
  /\ Set(r, [Idle EXCEPT !.action = "rate", !.of = b])
  /\ UNCHANGED <<row, session, paidBack, rateVars>>

ReadToRate(r, b) ==
  /\ work[r] = Idle
  /\ row[b].status = "COMPLETED"
  /\ Set(r, [Idle EXCEPT !.action = "rate", !.of = b])
  /\ UNCHANGED <<row, session, paidBack, rateVars>>

ReadToModerate(r, a, b) ==
  /\ work[r] = Idle
  /\ a \in Moderation
  /\ rating[b] # "none"
  /\ Set(r, [Idle EXCEPT !.action = a, !.of = b])
  /\ UNCHANGED <<row, session, paidBack, rateVars>>

\* The rating as the request leaves it.
Marked(r) == IF work[r].action = "hide" THEN "hidden" ELSE "visible"

\* The insert, or the update, and the SELECT over the ratings that are visible
\* to the transaction: the committed ones and its own. Another transaction's
\* uncommitted row for the booking makes this one wait, a committed one makes
\* rate_booking fail.
CountRatings(r) ==
  /\ work[r].action \in Moderation \cup {"rate"} /\ ~work[r].ready
  /\ \A q \in Request : work[q].of = work[r].of /\ work[q].ready => work[q].action \in Change
  /\ work[r].action = "rate" => rating[work[r].of] = "none"
  /\ LET after == [rating EXCEPT ![work[r].of] = Marked(r)]
     IN  Set(r, [work[r] EXCEPT !.ready = TRUE,
                                !.counted = {b \in Booking : after[b] = "visible"}])
  /\ UNCHANGED <<row, session, paidBack, rateVars>>

\* recompute_tutor_aggregate's UPDATE and the commit.
CommitRating(r) ==
  /\ work[r].action \in Moderation \cup {"rate"} /\ work[r].ready
  /\ rating' = [rating EXCEPT ![work[r].of] = Marked(r)]
  /\ cached' = work[r].counted
  /\ Set(r, Idle)
  /\ UNCHANGED <<row, session, paidBack>>

\* A request ends without a commit: an index or a key refuses the row, Stripe
\* says no, the connection or the process is gone.
Fail(r) ==
  /\ work[r] # Idle
  /\ Set(r, Idle)
  /\ UNCHANGED <<row, session, paidBack, rateVars>>

-----------------------------------------------------------------------------
Handler(r) ==
  \/ \E a \in Change, b \in Booking, s \in Status : Read(r, a, b, s)
  \/ RefundPayment(r)
  \/ Commit(r)
  \/ \E b \in Booking : ReadToRate(r, b)
  \/ \E a \in Moderation, b \in Booking : ReadToModerate(r, a, b)
  \/ CountRatings(r)
  \/ CommitRating(r)
  \/ Fail(r)

Next ==
  \/ \E b \in Booking : CreateBooking(b)
  \/ \E r \in Request : Handler(r)

Spec == Init /\ [][Next]_vars
=============================================================================
