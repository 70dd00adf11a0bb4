------------------------- MODULE PipelineInvariant -------------------------
(***************************************************************************)
(* The inductive invariants of SessionPipeline.  SharedInv holds with both *)
(* workers: it rests on the row locks.  LiveInv is what the consumer alone *)
(* adds: nothing it read inside a transaction changes before it commits.   *)
(***************************************************************************)
EXTENDS PipelinePromises

\* Events, and what is done with them, are of submitted sessions.
OfSubmitted ==
    /\ \A s \in Submitted : quiz[s].day \in Day
    /\ stream \subseteq Submitted /\ todo \subseteq Submitted
    /\ \A i \in 1 .. Len(inbox) : inbox[i] \in Submitted
    /\ \A w \in Worker : work[w].cur \in Submitted \cup {NoSession}

TypeInv == TypeOK /\ OfSubmitted

\* What a set of rows must satisfy for its sessions to be credited.
CreditsMatch(r) ==
    \A s \in Session : s \in r.processed <=> \E d \in Day : r.credit[s][d] > 0

\* Only one transaction at a time has written the user's rows.
OneWriter == \A v, w \in Worker : dirty[v] /\ dirty[w] => v = w

\* What a transaction will commit extends what is committed by its session.
PendingExtends ==
    \A w \in Worker :
        dirty[w] =>
            /\ work[w].pc \in {"booked", "fan", "award", "commit", "doomed"}
            /\ tx[w].processed = db.processed \cup {work[w].cur}
            /\ CreditsMatch(tx[w])

\* A worker that is past its booking has written it or found it booked.
PastBooking ==
    \A w \in Worker :
        /\ work[w].pc = "booked" => dirty[w]
        /\ work[w].pc \in {"fan", "award"} => w = "live"
        /\ work[w].pc \in {"fan", "award", "commit"} =>
             dirty[w] \/ work[w].cur \in db.processed

\* Without a failing best-effort statement no transaction is lost silently,
\* so a message whose callback has come to its ack is booked.
AckSafe ==
    "statement" \notin Faults =>
        /\ \A w \in Worker : work[w].pc # "doomed"
        /\ work["live"].pc = "ack" => work["live"].cur \in db.processed
        /\ AckedIsBooked

SharedInv ==
    /\ TypeInv
    /\ OneWriter
    /\ PendingExtends
    /\ PastBooking
    /\ CreditsMatch(db)
    /\ db.processed \subseteq Submitted
    /\ XpHasBooking
    /\ AckSafe

-----------------------------------------------------------------------------
\* CountedOnce and ReadinessFresh, of any rows.
Tally(r) ==
    /\ \A s \in Session :
         IF s \in r.processed
         THEN /\ r.mastery[TopicOf[s]][s] = 1
              /\ \E d \in Day : r.credit[s] = [e \in Day |-> IF e = d THEN 1 ELSE 0]
         ELSE /\ r.mastery[TopicOf[s]][s] = 0
              /\ \A d \in Day : r.credit[s][d] = 0
    /\ r.readiness = r.mastery

\* Between the dedup check and the booking the consumer's session is not
\* booked, and what it holds is computed from the rows as they still are.
ReadsHold ==
    LET k == work["live"]
        m == db.mastery[TopicOf[k.cur]]
        new == [m EXCEPT ![k.cur] = @ + 1]
    IN  /\ k.pc \in {"read", "write", "list", "book"} => k.cur \notin db.processed
        /\ k.pc = "write" => k.row = m
        /\ k.pc \in {"list", "book"} => k.row = new
        /\ k.pc = "book" => k.list = [db.mastery EXCEPT ![TopicOf[k.cur]] = new]

\* What the consumer will commit is the ledger's next entry.
PendingIsNext ==
    dirty["live"] =>
        LET s == work["live"].cur
        IN  /\ s \notin db.processed
            /\ tx["live"].mastery =
                 [db.mastery EXCEPT ![TopicOf[s]][s] = 1]
            /\ tx["live"].readiness = tx["live"].mastery
            /\ \E d \in Day :
                 tx["live"].credit = [db.credit EXCEPT ![s][d] = 1]

\* Days only move on, so the consumer never credits a day before the last one
\* and its next streak is again the run of its activity days.
StreakFollows ==
    /\ db.streak.last <= today
    /\ StreakOf(db)
    /\ dirty["live"] => tx["live"].streak.last <= today /\ StreakOf(tx["live"])

LedgerInv ==
    /\ SharedInv
    /\ Tally(db)
    /\ ReadsHold
    /\ PendingIsNext

LiveInv == LedgerInv /\ StreakFollows
=============================================================================
