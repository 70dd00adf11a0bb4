---------------------------- MODULE BookingProofs ----------------------------
(***************************************************************************)
(* Proofs about bookings, for any bookings, slots and overlapping          *)
(* requests: their types, the slot, the money and the history of a status. *)
(***************************************************************************)
EXTENDS BookingPromises, TLAPS

\* What a row says of itself: a booking is confirmed together with its session.
RowHolds(b) ==
  /\ row[b].status = "none" => row[b] = NoRow
  /\ row[b].confirmed <=> b \in session
Rows == \A b \in Booking : RowHolds(b)

\* What a request has read and may rely on, because nothing takes it back.
Reliable(j) ==
  /\ j.action # "idle" => j.of \in Booking
  /\ j.action \in Change =>
       /\ j.to # "none"
       /\ j.to = "CONFIRMED" <=> j.action = "payment_succeeded"
       /\ j.to = "IN_PROGRESS" => j.action = "start"
       /\ j.to \in Paid /\ j.to # "CONFIRMED" => row[j.of].confirmed
       /\ j.to \in Held =>
            j.action \in {"complete", "no_show_student", "no_show_tutor"} /\ row[j.of].started
       /\ j.to = "REFUNDED_BY_ADMIN" => j.action = "admin_refund" /\ (j.ready => j.of \in paidBack)
       /\ j.action = "admin_refund" => row[j.of].confirmed
  /\ j.action = "rate" => row[j.of].started /\ row[j.of].completed
  /\ j.action \in Moderation => rating[j.of] # "none"
  /\ \A b \in j.counted : row[b].started /\ row[b].completed
Jobs == \A r \in Request : Reliable(work[r])

Safe == OneLessonPerSlot /\ PaidBackWasPaid /\ StatusHasHistory /\ RatedWasHeld
BookingInv == TypeOK /\ Rows /\ Jobs /\ Safe

-----------------------------------------------------------------------------
(* Data.                                                                   *)

\* What the table of transitions allows.
LEMMA RuleFacts ==
    ASSUME NEW t, NEW a, NEW s, <<t, a, s>> \in Rules
    PROVE  /\ s \in Status \ {"none"}
           /\ s = "CONFIRMED" <=> a = "payment_succeeded"
           /\ s = "IN_PROGRESS" => a = "start"
           /\ s \in Paid /\ s # "CONFIRMED" => t \in Paid
           /\ s \in Held =>
                a \in {"complete", "no_show_student", "no_show_tutor"} /\ t = "IN_PROGRESS"
           /\ s = "REFUNDED_BY_ADMIN" => a = "admin_refund"
           /\ a = "admin_refund" => t \in Paid
BY DEF Rules, Status, Paid, Held

LEMMA IdleFacts == Idle \in Job /\ Idle.action = "idle" /\ Idle.counted = {}
BY DEF Idle, Job, Action, Status

\* The requests that the steps write.
Asking(a, b, s, x) == [Idle EXCEPT !.action = a, !.of = b, !.to = s, !.ready = x]
Rating(a, b) == [Idle EXCEPT !.action = a, !.of = b]
Ready(d) == [d EXCEPT !.ready = TRUE]
Counted(d, C) == [d EXCEPT !.ready = TRUE, !.counted = C]

LEMMA AskingFacts ==
    ASSUME NEW a \in Action, NEW b \in Booking, NEW s \in Status, NEW x \in BOOLEAN
    PROVE  LET j == Asking(a, b, s, x)
           IN  j \in Job /\ j.action = a /\ j.of = b /\ j.to = s /\ j.ready = x /\ j.counted = {}
BY DEF Asking, Idle, Job

LEMMA RatingFacts ==
    ASSUME NEW a \in Action, NEW b \in Booking
    PROVE  LET j == Rating(a, b)
           IN  j \in Job /\ j.action = a /\ j.of = b /\ j.counted = {}
BY DEF Rating, Idle, Job, Status

LEMMA ReadyFacts ==
    ASSUME NEW d \in Job
    PROVE  LET j == Ready(d)
           IN  /\ j \in Job /\ j.action = d.action /\ j.of = d.of /\ j.to = d.to
               /\ j.counted = d.counted
BY DEF Ready, Job

LEMMA CountedFacts ==
    ASSUME NEW d \in Job, NEW C \in SUBSET Booking
    PROVE  LET j == Counted(d, C)
           IN  j \in Job /\ j.action = d.action /\ j.of = d.of /\ j.to = d.to /\ j.counted = C
BY DEF Counted, Job

\* An update keeps what was noted, and notes its own.
LEMMA WrittenFacts ==
    ASSUME NEW d \in Row, NEW a, NEW s \in Status
    PROVE  LET w == Written(d, a, s)
           IN  /\ w \in Row /\ w.status = s
               /\ w.confirmed <=> d.confirmed \/ a = "payment_succeeded"
               /\ w.started <=> d.started \/ a = "start"
               /\ w.completed <=> d.completed \/ a \in {"complete", "no_show_student", "no_show_tutor"}
BY DEF Written, Row

-----------------------------------------------------------------------------
(* A step lets one request go on, and forgets nothing.                     *)

Grows ==
  /\ \A b \in Booking :
       /\ row[b].confirmed => row'[b].confirmed
       /\ row[b].started => row'[b].started
       /\ row[b].completed => row'[b].completed
       /\ rating[b] # "none" => rating'[b] # "none"
  /\ session \subseteq session'
  /\ paidBack \subseteq paidBack'

LEMMA StillReliable ==
    ASSUME Grows, NEW j \in Job, Reliable(j)
    PROVE  Reliable(j)'
<1>1. j.counted \subseteq Booking
  BY DEF Job
<1>2. CASE j.action = "idle"
  BY <1>1, <1>2 DEF Reliable, Grows, Change, Moderation
<1>3. CASE j.action # "idle"
  <2>1. j.of \in Booking
    BY <1>3 DEF Reliable
  <2> QED
    BY <1>1, <2>1 DEF Reliable, Grows
<1> QED
  BY <1>2, <1>3

LEMMA JobStep ==
    ASSUME TypeOK, Jobs, Grows, NEW r \in Request, NEW j \in Job, Set(r, j), Reliable(j)'
    PROVE  Jobs' /\ work' \in [Request -> Job]
<1>1. work' = [work EXCEPT ![r] = j] /\ work \in [Request -> Job]
  BY DEF Set, TypeOK
<1>2. work' \in [Request -> Job] /\ work'[r] = j /\ \A q \in Request \ {r} : work'[q] = work[q]
  BY <1>1
<1>3. \A q \in Request : Reliable(work[q])
  BY DEF Jobs
<1>4. \A q \in Request : work[q] \in Job
  BY <1>1
<1>5. Reliable(work[r])'
  BY <1>2
<1>6. ASSUME NEW q \in Request \ {r} PROVE Reliable(work[q])'
  <2>1. PICK i \in Job : i = work[q] /\ i = work'[q]
    BY <1>2, <1>4
  <2>2. Reliable(i)
    BY <1>3, <2>1
  <2>3. Reliable(i)'
    BY <2>2, StillReliable
  <2> QED
    BY <2>1, <2>3
<1> QED
  BY <1>2, <1>5, <1>6 DEF Jobs

\* A step that only moves a request keeps everything else.
LEMMA OnlyWork ==
    ASSUME BookingInv, UNCHANGED <<row, session, paidBack, rateVars>>,
           NEW r \in Request, NEW j \in Job, Set(r, j), Reliable(j)'
    PROVE  BookingInv'
<1>1. Grows
  BY DEF Grows, rateVars
<1>2. Jobs' /\ work' \in [Request -> Job]
  BY <1>1, JobStep DEF BookingInv
<1>3. Rows'
  BY DEF BookingInv, Rows, RowHolds, rateVars
<1>4. Safe'
  BY DEF BookingInv, Safe, OneLessonPerSlot, PaidBackWasPaid, StatusHasHistory, RatedWasHeld, rateVars
<1> QED
  BY <1>2, <1>3, <1>4 DEF BookingInv, TypeOK, rateVars

-----------------------------------------------------------------------------
(* One lemma for each step.                                                *)

LEMMA CreateStep ==
    ASSUME BookingInv, NEW b \in Booking, CreateBooking(b)
    PROVE  BookingInv'
<1> DEFINE d == [NoRow EXCEPT !.status = "PENDING_PAYMENT"]
<1>1. row' = [row EXCEPT ![b] = d] /\ UNCHANGED <<session, paidBack, rating, cached, work>>
  BY DEF CreateBooking, rateVars
<1>2. /\ d \in Row /\ d.status = "PENDING_PAYMENT"
      /\ ~d.confirmed /\ ~d.started /\ ~d.completed
  BY DEF NoRow, Row, Status
<1>3. row[b] = NoRow /\ ~NoRow.confirmed /\ ~NoRow.started /\ ~NoRow.completed
  BY DEF CreateBooking, BookingInv, Rows, RowHolds, NoRow
<1> HIDE DEF d
<1>4. /\ row' \in [Booking -> Row] /\ row'[b] = d
      /\ \A c \in Booking \ {b} : row'[c] = row[c]
  BY <1>1, <1>2 DEF BookingInv, TypeOK
<1>5. Grows
  BY <1>1, <1>3, <1>4 DEF Grows
<1>6. Rows'
  BY <1>1, <1>2, <1>3, <1>4 DEF BookingInv, Rows, RowHolds
<1>7. Jobs'
  <2>1. ASSUME NEW r \in Request PROVE Reliable(work[r])'
    <3>1. PICK j \in Job : j = work[r] /\ j = work'[r]
      BY <1>1 DEF BookingInv, TypeOK
    <3>2. Reliable(j)
      BY <3>1 DEF BookingInv, Jobs
    <3> QED
      BY <1>5, <3>1, <3>2, StillReliable
  <2> QED
    BY <2>1 DEF Jobs
<1>8. OneLessonPerSlot' /\ PaidBackWasPaid'
  <2>1. \A c \in Booking : row'[c].status \in Active => row[c].status \in Active
    BY <1>2, <1>4 DEF Active
  <2>2. OneLessonPerSlot'
    BY <2>1 DEF BookingInv, Safe, OneLessonPerSlot
  <2>3. PaidBackWasPaid'
    BY <1>1, <1>5 DEF BookingInv, TypeOK, Safe, PaidBackWasPaid, Grows
  <2> QED
    BY <2>2, <2>3
<1>9. StatusHasHistory'
  BY <1>1, <1>2, <1>4 DEF BookingInv, Safe, StatusHasHistory, Paid, Held
<1>10. RatedWasHeld'
  BY <1>1, <1>5 DEF BookingInv, Safe, RatedWasHeld, Grows
<1> QED
  BY <1>1, <1>4, <1>6, <1>7, <1>8, <1>9, <1>10 DEF BookingInv, TypeOK, Safe

LEMMA ReadStep ==
    ASSUME BookingInv, NEW r \in Request, NEW a \in Change, NEW b \in Booking, NEW s \in Status,
           Read(r, a, b, s)
    PROVE  BookingInv'
<1> DEFINE x == a # "admin_refund"
<1>1. PICK j \in Job :
        /\ j = Asking(a, b, s, x)
        /\ j.action = a /\ j.of = b /\ j.to = s /\ j.ready = x /\ j.counted = {}
  <2>1. a \in Action /\ x \in BOOLEAN
    BY DEF Action
  <2> HIDE DEF x
  <2> QED
    BY <2>1, AskingFacts
<1>2. Set(r, j) /\ UNCHANGED <<row, session, paidBack, rateVars>> /\ <<row[b].status, a, s>> \in Rules
  BY <1>1 DEF Read, Asking
<1>3. row[b].status \in Paid => row[b].confirmed
  BY DEF BookingInv, Safe, StatusHasHistory
<1>4. row[b].status = "IN_PROGRESS" => row[b].started
  BY DEF BookingInv, Safe, StatusHasHistory
<1>5. Reliable(j)'
  <2>1. a # "rate" /\ a \notin Moderation
    BY DEF Change, Moderation
  <2>2. s = "REFUNDED_BY_ADMIN" => a = "admin_refund"
    BY <1>2, RuleFacts
  <2>3. s = "REFUNDED_BY_ADMIN" => ~j.ready
    BY <1>1, <2>2
  <2> QED
    BY <1>1, <1>2, <1>3, <1>4, <2>1, <2>3, RuleFacts DEF Reliable, rateVars
<1> QED
  BY <1>2, <1>5, OnlyWork

LEMMA ReadToRateStep ==
    ASSUME BookingInv, NEW r \in Request, NEW b \in Booking, ReadToRate(r, b)
    PROVE  BookingInv'
<1>1. PICK j \in Job : /\ j = Rating("rate", b)
                       /\ j.action = "rate" /\ j.of = b /\ j.counted = {}
  <2>1. "rate" \in Action
    BY DEF Action
  <2> QED
    BY <2>1, RatingFacts
<1>2. row[b].started /\ row[b].completed
  BY DEF ReadToRate, BookingInv, Safe, StatusHasHistory, Held
<1>3. Set(r, j) /\ UNCHANGED <<row, session, paidBack, rateVars>>
  BY <1>1 DEF ReadToRate, Rating
<1>4. Reliable(j)'
  BY <1>1, <1>2, <1>3 DEF Reliable, Change, Moderation
<1> QED
  BY <1>3, <1>4, OnlyWork

LEMMA ReadToModerateStep ==
    ASSUME BookingInv, NEW r \in Request, NEW a \in Moderation, NEW b \in Booking,
           ReadToModerate(r, a, b)
    PROVE  BookingInv'
<1>1. PICK j \in Job : /\ j = Rating(a, b)
                       /\ j.action = a /\ j.of = b /\ j.counted = {}
  <2>1. a \in Action
    BY DEF Action
  <2> QED
    BY <2>1, RatingFacts
<1>2. Set(r, j) /\ UNCHANGED <<row, session, paidBack, rateVars>> /\ rating[b] # "none"
  BY <1>1 DEF ReadToModerate, Rating
<1>3. Reliable(j)'
  BY <1>1, <1>2 DEF Reliable, Change, Moderation, rateVars
<1> QED
  BY <1>2, <1>3, OnlyWork

LEMMA FailStep ==
    ASSUME BookingInv, NEW r \in Request, Fail(r)
    PROVE  BookingInv'
<1>1. PICK j \in Job : j = Idle /\ j.action = "idle" /\ j.counted = {}
  BY IdleFacts
<1>2. Set(r, j) /\ UNCHANGED <<row, session, paidBack, rateVars>>
  BY <1>1 DEF Fail
<1>3. Reliable(j)'
  BY <1>1 DEF Reliable, Change, Moderation
<1> QED
  BY <1>2, <1>3, OnlyWork

LEMMA CountStep ==
    ASSUME BookingInv, NEW r \in Request, CountRatings(r)
    PROVE  BookingInv'
<1> DEFINE C == {b \in Booking : [rating EXCEPT ![work[r].of] = Marked(r)][b] = "visible"}
<1>1. /\ work[r] \in Job /\ Reliable(work[r])
      /\ work[r].action \in Moderation \cup {"rate"}
  BY DEF BookingInv, TypeOK, Jobs, CountRatings
<1>2. PICK i \in Job : i = work[r]
  BY <1>1
<1>3. PICK j \in Job : /\ j = Counted(i, C)
                       /\ j.action = i.action /\ j.of = i.of /\ j.to = i.to /\ j.counted = C
  <2>1. C \in SUBSET Booking
    OBVIOUS
  <2> HIDE DEF C
  <2> QED
    BY <2>1, CountedFacts
<1>4. Set(r, j) /\ UNCHANGED <<row, session, paidBack, rateVars>>
  BY <1>2, <1>3 DEF CountRatings, Counted
<1>5. i.of \in Booking /\ row[i.of].started /\ row[i.of].completed
  BY <1>1, <1>2 DEF Reliable, BookingInv, Safe, RatedWasHeld, Moderation
<1>6. \A b \in C : row[b].started /\ row[b].completed
  <2>1. \A b \in C : b = i.of \/ rating[b] # "none"
    BY <1>2, <1>5 DEF BookingInv, TypeOK
  <2> QED
    BY <1>5, <2>1 DEF BookingInv, Safe, RatedWasHeld
<1> HIDE DEF C
<1>7. Reliable(j)'
  BY <1>1, <1>2, <1>3, <1>4, <1>6 DEF Reliable, rateVars, Change, Moderation
<1> QED
  BY <1>4, <1>7, OnlyWork

LEMMA RefundStep ==
    ASSUME BookingInv, NEW r \in Request, RefundPayment(r)
    PROVE  BookingInv'
<1>1. work[r] \in Job /\ Reliable(work[r]) /\ work[r].action = "admin_refund"
  BY DEF BookingInv, TypeOK, Jobs, RefundPayment
<1>2. PICK i \in Job : i = work[r]
  BY <1>1
<1>3. PICK j \in Job : /\ j = Ready(i) /\ j.action = i.action /\ j.of = i.of /\ j.to = i.to
                       /\ j.counted = i.counted
  BY ReadyFacts
<1>4. Set(r, j) /\ UNCHANGED <<row, session, rating, cached>> /\ paidBack' = paidBack \cup {i.of}
  BY <1>2, <1>3 DEF RefundPayment, Ready, rateVars
<1>5. i.of \in Booking /\ row[i.of].confirmed
  BY <1>1, <1>2 DEF Reliable, Change
<1>6. Grows
  BY <1>4 DEF Grows
<1>7. Reliable(j)'
  <2>1. Reliable(i) /\ i.action = "admin_refund"
    BY <1>1, <1>2
  <2> QED
    BY <2>1, <1>3, <1>4, <1>5 DEF Reliable, Moderation
<1>8. Jobs' /\ work' \in [Request -> Job]
  BY <1>4, <1>6, <1>7, JobStep DEF BookingInv
<1>9. Rows' /\ OneLessonPerSlot' /\ StatusHasHistory' /\ RatedWasHeld'
  BY <1>4 DEF BookingInv, Rows, RowHolds, Safe, OneLessonPerSlot, StatusHasHistory, RatedWasHeld
<1>10. PaidBackWasPaid'
  BY <1>4, <1>5 DEF BookingInv, Rows, RowHolds, Safe, PaidBackWasPaid
<1> QED
  BY <1>4, <1>5, <1>8, <1>9, <1>10 DEF BookingInv, TypeOK, Safe

LEMMA CommitStep ==
    ASSUME BookingInv, NEW r \in Request, Commit(r)
    PROVE  BookingInv'
<1>1. PICK i \in Job : i = work[r] /\ Reliable(i)
  BY DEF BookingInv, TypeOK, Jobs
<1>2. PICK b \in Booking : b = i.of /\ i.action \in Change /\ i.ready
  BY <1>1 DEF Commit, Reliable, Change
<1>3. PICK a \in Change, s \in Status : a = i.action /\ s = i.to
  BY <1>1, <1>2 DEF Job
<1>4. /\ s \in Active => ~Taken(b)
      /\ a = "payment_succeeded" => b \notin session
      /\ row' = [row EXCEPT ![b] = Written(row[b], a, s)]
      /\ session' = IF a = "payment_succeeded" THEN session \cup {b} ELSE session
      /\ Set(r, Idle) /\ UNCHANGED <<paidBack, rating, cached>>
  BY <1>1, <1>2, <1>3 DEF Commit, rateVars
<1>5. PICK w \in Row :
        /\ w = Written(row[b], a, s) /\ w.status = s
        /\ w.confirmed <=> row[b].confirmed \/ a = "payment_succeeded"
        /\ w.started <=> row[b].started \/ a = "start"
        /\ w.completed <=> row[b].completed \/ a \in {"complete", "no_show_student", "no_show_tutor"}
  <2>1. row[b] \in Row
    BY DEF BookingInv, TypeOK
  <2> QED
    BY <2>1, WrittenFacts
<1>6. /\ row' \in [Booking -> Row] /\ row'[b] = w
      /\ \A c \in Booking \ {b} : row'[c] = row[c]
  BY <1>4, <1>5 DEF BookingInv, TypeOK
<1>7. Grows
  BY <1>4, <1>5, <1>6 DEF Grows
<1>8. Jobs' /\ work' \in [Request -> Job]
  <2>1. PICK j \in Job : j = Idle /\ j.action = "idle" /\ j.counted = {}
    BY IdleFacts
  <2>2. Reliable(j)'
    BY <2>1 DEF Reliable, Change, Moderation
  <2> QED
    BY <1>4, <1>7, <2>1, <2>2, JobStep DEF BookingInv
\* What the request relied on.
<1>9. /\ s # "none"
      /\ s = "CONFIRMED" <=> a = "payment_succeeded"
      /\ s = "IN_PROGRESS" => a = "start"
      /\ s \in Paid /\ s # "CONFIRMED" => row[b].confirmed
      /\ s \in Held => a \in {"complete", "no_show_student", "no_show_tutor"} /\ row[b].started
      /\ s = "REFUNDED_BY_ADMIN" => b \in paidBack
  BY <1>1, <1>2, <1>3 DEF Reliable
<1>10. Rows'
  BY <1>4, <1>5, <1>6, <1>9 DEF BookingInv, Rows, RowHolds
<1>11. OneLessonPerSlot'
  <2>1. \A c \in Booking \ {b} : row'[c] = row[c]
    BY <1>6
  <2>2. row'[b].status \in Active =>
          \A c \in Booking \ {b} : ~(SlotOf[c] = SlotOf[b] /\ row'[c].status \in Active)
    BY <1>4, <1>5, <1>6 DEF Taken
  <2> QED
    BY <2>1, <2>2 DEF BookingInv, Safe, OneLessonPerSlot
<1>12. PaidBackWasPaid'
  BY <1>4, <1>7 DEF BookingInv, TypeOK, Safe, PaidBackWasPaid, Grows
<1>13. StatusHasHistory'
  <2>1. row'[b].status \in Paid => row'[b].confirmed /\ b \in session'
    BY <1>5, <1>6, <1>9, <1>10 DEF Rows, RowHolds
  <2>2. row'[b].status \in Held \cup {"IN_PROGRESS"} => row'[b].started
    BY <1>5, <1>6, <1>9
  <2>3. row'[b].status \in Held => row'[b].completed
    BY <1>5, <1>6, <1>9
  <2>4. row'[b].status = "REFUNDED_BY_ADMIN" => b \in paidBack'
    BY <1>4, <1>5, <1>6, <1>9
  <2> QED
    BY <1>4, <1>6, <1>7, <2>1, <2>2, <2>3, <2>4 DEF BookingInv, Safe, StatusHasHistory, Grows
<1>14. RatedWasHeld'
  BY <1>4, <1>7 DEF BookingInv, Safe, RatedWasHeld, Grows
<1> QED
  <2>1. TypeOK'
    BY <1>4, <1>6, <1>8 DEF BookingInv, TypeOK
  <2> QED
    BY <1>8, <1>10, <1>11, <1>12, <1>13, <1>14, <2>1 DEF BookingInv, Safe

LEMMA CommitRatingStep ==
    ASSUME BookingInv, NEW r \in Request, CommitRating(r)
    PROVE  BookingInv'
<1>1. PICK i \in Job : i = work[r] /\ Reliable(i)
  BY DEF BookingInv, TypeOK, Jobs
<1>2. PICK b \in Booking : b = i.of /\ i.action \in Moderation \cup {"rate"}
  BY <1>1 DEF CommitRating, Reliable, Moderation
<1>3. PICK m \in {"visible", "hidden"} : m = Marked(r)
  BY DEF Marked
<1>4. /\ rating' = [rating EXCEPT ![b] = m] /\ cached' = i.counted
      /\ Set(r, Idle) /\ UNCHANGED <<row, session, paidBack>>
  BY <1>1, <1>2, <1>3 DEF CommitRating
<1>5. /\ rating' \in [Booking -> Mark] /\ rating'[b] = m
      /\ \A c \in Booking \ {b} : rating'[c] = rating[c]
  BY <1>4 DEF BookingInv, TypeOK, Mark
<1>6. Grows
  BY <1>4, <1>5 DEF Grows
<1>7. Jobs' /\ work' \in [Request -> Job]
  <2>1. PICK j \in Job : j = Idle /\ j.action = "idle" /\ j.counted = {}
    BY IdleFacts
  <2>2. Reliable(j)'
    BY <2>1 DEF Reliable, Change, Moderation
  <2> QED
    BY <1>4, <1>6, <2>1, <2>2, JobStep DEF BookingInv
<1>8. row[b].started /\ row[b].completed
  BY <1>1, <1>2 DEF Reliable, BookingInv, Safe, RatedWasHeld, Moderation
<1>9. \A c \in i.counted : row[c].started /\ row[c].completed
  BY <1>1 DEF Reliable
<1>10. RatedWasHeld'
  BY <1>4, <1>5, <1>8, <1>9 DEF BookingInv, Safe, RatedWasHeld
<1>11. Rows' /\ OneLessonPerSlot' /\ PaidBackWasPaid' /\ StatusHasHistory'
  BY <1>4 DEF BookingInv, Rows, RowHolds, Safe, OneLessonPerSlot, PaidBackWasPaid, StatusHasHistory
<1>12. cached' \in SUBSET Booking
  BY <1>4 DEF Job
<1> QED
  BY <1>4, <1>5, <1>7, <1>10, <1>11, <1>12 DEF BookingInv, TypeOK, Safe

-----------------------------------------------------------------------------

LEMMA InitBookings == Init => BookingInv
<1> SUFFICES ASSUME Init PROVE BookingInv
  OBVIOUS
<1>1. TypeOK
  BY IdleFacts DEF Init, TypeOK, NoRow, Row, Status, Mark
<1>2. Rows /\ Safe
  BY DEF Init, Rows, RowHolds, Safe, OneLessonPerSlot, PaidBackWasPaid, StatusHasHistory,
         RatedWasHeld, NoRow, Active, Paid, Held
<1>3. Jobs
  BY IdleFacts DEF Init, Jobs, Reliable, Change, Moderation
<1> QED
  BY <1>1, <1>2, <1>3 DEF BookingInv

LEMMA NextBookings == BookingInv /\ [Next]_vars => BookingInv'
<1> SUFFICES ASSUME BookingInv, [Next]_vars PROVE BookingInv'
  OBVIOUS
<1>1. CASE UNCHANGED vars
  <2>1. UNCHANGED <<row, session, paidBack, rating, cached, work>>
    BY <1>1 DEF vars, rateVars
  <2>2. Rows' /\ Safe'
    BY <2>1 DEF BookingInv, Rows, RowHolds, Safe, OneLessonPerSlot, PaidBackWasPaid,
                StatusHasHistory, RatedWasHeld
  <2>3. Jobs'
    BY <2>1 DEF BookingInv, Jobs, Reliable
  <2> QED
    BY <2>1, <2>2, <2>3 DEF BookingInv, TypeOK
<1>2. ASSUME NEW b \in Booking, CreateBooking(b) PROVE BookingInv'
  BY <1>2, CreateStep
<1>3. ASSUME NEW r \in Request, Handler(r) PROVE BookingInv'
  <2>1. ASSUME NEW a \in Change, NEW b \in Booking, NEW s \in Status, Read(r, a, b, s)
        PROVE BookingInv'
    BY <2>1, ReadStep
  <2>2. ASSUME NEW b \in Booking, ReadToRate(r, b) PROVE BookingInv'
    BY <2>2, ReadToRateStep
  <2>3. ASSUME NEW a \in Moderation, NEW b \in Booking, ReadToModerate(r, a, b) PROVE BookingInv'
    BY <2>3, ReadToModerateStep
  <2> QED
    BY <1>3, <2>1, <2>2, <2>3, RefundStep, CommitStep, CountStep, CommitRatingStep, FailStep DEF Handler
<1> QED
  BY <1>1, <1>2, <1>3 DEF Next

\* The inductive invariant: a request relies only on what no other request
\* takes back.
THEOREM BookingInvariant == Spec => []BookingInv
<1> QED
  BY InitBookings, NextBookings, PTL DEF Spec

\* Rows, sessions, refunds, ratings and requests keep their types.
THEOREM BookingTypes == Spec => []TypeOK
<1>1. BookingInv => TypeOK
  BY DEF BookingInv
<1> QED
  BY <1>1, BookingInvariant, PTL

\* A tutor's slot has one active booking, however requests overlap
\* (the partial unique index idx_tutor_active_slots).
THEOREM SlotHasOneLesson == Spec => []OneLessonPerSlot
<1>1. BookingInv => OneLessonPerSlot
  BY DEF BookingInv, Safe
<1> QED
  BY <1>1, BookingInvariant, PTL

\* Stripe refunds only what was confirmed, although the status a refund read
\* may have changed by the time it calls Stripe (lesson_routes.py).
THEOREM PaidBackIsPaid == Spec => []PaidBackWasPaid
<1>1. BookingInv => PaidBackWasPaid
  BY DEF BookingInv, Safe
<1> QED
  BY <1>1, BookingInvariant, PTL

\* A status keeps its history whatever is written over it (repositories.py,
\* set_booking_status).
THEOREM HistoryOfStatus == Spec => []StatusHasHistory
<1>1. BookingInv => StatusHasHistory
  BY DEF BookingInv, Safe
<1> QED
  BY <1>1, BookingInvariant, PTL

\* Only lessons that were held are rated, or counted for the tutor
\* (creator_routes.py, rate_booking).
THEOREM RatedIsHeld == Spec => []RatedWasHeld
<1>1. BookingInv => RatedWasHeld
  BY DEF BookingInv, Safe
<1> QED
  BY <1>1, BookingInvariant, PTL

\* Only the first payment confirmation confirms (booking_routes.py,
\* confirm_payment): the session's key refuses every later one.
THEOREM ConfirmsOnce == Spec => ConfirmedOnce
<1> DEFINE Once == \A b \in Booking :
                     row'[b].status = "CONFIRMED" /\ row[b].status # "CONFIRMED" =>
                       ~row[b].confirmed /\ b \notin session
<1>1. ASSUME BookingInv, [Next]_vars PROVE [Once]_vars
  <2>1. CASE UNCHANGED row
    BY <2>1
  <2>2. CASE \E b \in Booking : CreateBooking(b)
    <3>1. PICK b \in Booking : row' = [row EXCEPT ![b] = [NoRow EXCEPT !.status = "PENDING_PAYMENT"]]
      BY <2>2 DEF CreateBooking
    <3> QED
      BY <1>1, <3>1 DEF BookingInv, TypeOK, NoRow
  <2>3. CASE \E r \in Request : Commit(r)
    <3>1. PICK r \in Request : Commit(r)
      BY <2>3
    <3>2. PICK i \in Job : i = work[r] /\ Reliable(i)
      BY <1>1 DEF BookingInv, TypeOK, Jobs
    <3>3. /\ i.action \in Change /\ i.of \in Booking
          /\ i.action = "payment_succeeded" => i.of \notin session
          /\ row' = [row EXCEPT ![i.of] = Written(row[i.of], i.action, i.to)]
      BY <3>1, <3>2 DEF Commit, Reliable, Change
    <3>4. Written(row[i.of], i.action, i.to).status = i.to
      BY DEF Written
    <3>5. i.to = "CONFIRMED" => i.action = "payment_succeeded"
      BY <3>2, <3>3 DEF Reliable
    <3>6. row'[i.of].status = i.to /\ \A b \in Booking \ {i.of} : row'[b] = row[b]
      BY <1>1, <3>3, <3>4 DEF BookingInv, TypeOK
    <3> QED
      BY <1>1, <3>3, <3>5, <3>6 DEF BookingInv, Rows, RowHolds
  <2> QED
    BY <1>1, <2>1, <2>2, <2>3 DEF Next, Handler, Read, RefundPayment, ReadToRate, ReadToModerate,
       CountRatings, CommitRating, Fail, vars
<1> QED
  BY <1>1, BookingInvariant, PTL DEF Spec, ConfirmedOnce
=============================================================================
