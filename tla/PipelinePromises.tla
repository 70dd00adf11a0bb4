-------------------------- MODULE PipelinePromises --------------------------
(***************************************************************************)
(* What the analytics rows should mean, as properties of SessionPipeline.  *)
(***************************************************************************)
EXTENDS SessionPipeline

Active(r, d) == \E s \in Session : r.credit[s][d] > 0

\* The rows are the ledger's: a session is booked once, whole, and only after
\* it was submitted, whatever is redelivered, refused or rolled back.
Ledger == INSTANCE SessionLedger WITH
    submitted <- Submitted, counted <- db.processed, folded <- db.mastery,
    averaged <- db.readiness, credited <- db.credit
IsSessionLedger == Ledger!Spec

\* A processed session entered its topic's mastery once and one day's counters
\* once; a session that is not processed left no trace in either.
CountedOnce ==
    \A s \in Session :
        IF s \in db.processed
        THEN /\ db.mastery[TopicOf[s]][s] = 1
             /\ \E d \in Day :
                  db.credit[s] = [e \in Day |-> IF e = d THEN 1 ELSE 0]
        ELSE /\ db.mastery[TopicOf[s]][s] = 0
             /\ \A d \in Day : db.credit[s][d] = 0

\* The readiness score is the mean of the mastery rows as they are, not of
\* rows another transaction has replaced since.
ReadinessFresh == db.readiness = db.mastery

\* The streak columns of rows r against its activity days.
StreakOf(r) ==
    LET k == r.streak
    IN  /\ \A d \in Day : k.last < d => ~Active(r, d)
        /\ k.current <= k.last
        /\ k.last > 0 => k.current > 0
        /\ \A d \in Day : k.last - k.current < d /\ d <= k.last => Active(r, d)
        /\ k.last - k.current \in Day => ~Active(r, k.last - k.current)
        /\ \A a, b \in Day :
             a <= b /\ (\A d \in a .. b : Active(r, d)) => b - a < k.longest

\* The streak row describes the activity days: it ends on the last of them,
\* current is the length of the run that ends there, and no run is longer
\* than longest.
StreakIsRun == StreakOf(db)

\* A message is acknowledged only when its session is booked: what the bus
\* forgets, the rows have.
AckedIsBooked == acked \subseteq db.processed

\* The XP of a session is never committed without the session, although
\* award_xp commits in the middle of the callback.
XpHasBooking == \A s \in Session : xp[s] > 0 => s \in db.processed

\* A session is in processed_sessions exactly when some day was credited for
\* it, even when the consumer and the job work on it together.
BookedIsCredited ==
    \A s \in Session : s \in db.processed <=> \E d \in Day : db.credit[s][d] > 0

\* Every session that served a question is booked in the end: by the consumer,
\* or by the nightly job when its event was lost, dropped or rolled back.
EventuallyBooked ==
    \A s \in Session :
        quiz[s].shape \in {"full", "bare"} ~> s \in db.processed
=============================================================================
