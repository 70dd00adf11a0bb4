-------------------------- MODULE PaymentPromises --------------------------
(***************************************************************************)
(* What a subscription row, and the mirror of it, should mean.             *)
(***************************************************************************)
EXTENDS Payment

\* Between recording an event and having dealt with it.
Unsettled(h) == work[h].pc \in {"begin", "look", "write", "refuse"}

\* A row changes only in the step that marks one recorded event processed,
\* and becomes what that event says: no retry of Stripe, however it overlaps
\* with an earlier one, is applied a second time.
AppliedOnce ==
    [][rows' # rows =>
         \E e \in recorded \ processed :
            /\ processed' = processed \cup {e}
            /\ rows' = [rows EXCEPT ![e.sub] =
                          [status |-> Target(e), end |-> e.end, at |-> rows'[e.sub].at]]]_vars

\* Whatever is lost, doubled, late or raced, nobody holds premium for longer
\* than the fallback's 24 hours unless until the end of a period that Stripe
\* reported for a subscription.
PremiumIsReported ==
    mirror > now + Provisional => \E e \in processed : e.end = mirror

\* The events whose requests are at a stage.
EventsAt(stage) == {work[h].ev : h \in {k \in Handler : work[k].pc = stage}}

\* The two services are one entitlement, told of what was recorded.
Promise == INSTANCE Entitlement WITH
    Effect <- [e \in Event |-> Target(e)],
    Edges <- Allowed,
    Bridge <- Provisional,
    told <- recorded,
    cleared <- EventsAt("write"),
    barred <- EventsAt("refuse"),
    settled <- processed,
    plan <- [s \in Sub |-> [status |-> rows[s].status, end |-> rows[s].end]],
    until <- mirror,
    today <- now

\* Webhooks that are posted again, reordered, overtaken and cut off, lost
\* announcements and racing logins keep the promises of Entitlement: an event
\* is judged by a row that was there, which another webhook may have moved
\* when the event then moves its own or is refused, once (routes.py,
\* stripe_webhook), and premium follows settled events (payment_subscriber.py).
IsEntitlement == Promise!Spec

\* Stripe got an answer to all it sent.
Settled == accepted = sent /\ \A h \in Handler : work[h].pc = "idle"

\* When its events came in order and one at a time, the row of a subscription
\* is where Stripe has the subscription; a returning customer may be told apart.
RowFollowsStripe ==
    Settled =>
      \A s \in Sub :
        IF stripe[s].status = "none" THEN rows[s].status = "none"
        ELSE \/ rows[s].status = Image(stripe[s].status)
             \/ rows[s].status = "REACTIVATED" /\ stripe[s].status = "active"

\* The inductive invariant: a request works on an event of its own that is not
\* processed yet, and every period end on its way to auth is a processed
\* event's.
Reported(t) == \E e \in processed : e.end = t
Announced(m) == \E e \in processed : m = [state |-> Target(e), end |-> e.end]
EventsOnce ==
    /\ \A h \in Handler : Unsettled(h) => work[h].ev \notin processed
    /\ \A g, h \in Handler :
         Unsettled(g) /\ Unsettled(h) /\ work[g].ev = work[h].ev => g = h
    /\ \A h \in Handler : work[h].pc = "publish" => work[h].ev \in processed
EndsReported ==
    /\ \A i \in 1 .. Len(inbox) : Announced(inbox[i])
    /\ login.pc = "write" => login.until <= now + Provisional
    /\ mirror <= now + Provisional \/ Reported(mirror)
PaymentInv == TypeOK /\ EventsOnce /\ EndsReported

\* No row is newer than the transactions begun, so one of them is the newest.
RowsDated ==
    /\ \A s \in Sub : rows[s].at <= begun
    /\ \A h \in Handler : work[h].at <= begun

-----------------------------------------------------------------------------
\* When RowFollowsStripe can be relied on: one subscription, paid from the
\* start, whose events come in order to one request at a time that never dies.
InOrder ==
    /\ Ordered /\ SubscriptionTypes \subseteq Types
    /\ \A r, s \in Sub : r = s
    /\ \E h \in Handler : \A g \in Handler : g = h
    /\ Starts \subseteq {"active"} /\ "abort" \notin Faults

\* Each change sent events, all of the same target, and only a last change
\* cancels.
ChangesTold ==
    /\ \A e \in sent :
         /\ e.n \in 1 .. changes
         /\ Target(e) \in {"ACTIVE", "PAST_DUE", "CANCELED"}
         /\ e.n = 1 => Target(e) = "ACTIVE"
         /\ e.n < changes => Target(e) # "CANCELED"
         /\ e.n = changes => Target(e) = Image(stripe[e.sub].status)
    /\ \A d, e \in sent : d.n = e.n => Target(d) = Target(e)
    /\ \A n \in 1 .. changes : \E e \in sent : e.n = n
    /\ \A s \in Sub : IF changes = 0 THEN stripe[s].status = "none"
                      ELSE stripe[s].status \in {"active", "past_due", "canceled"}

\* What is recorded was sent in order, and is processed but for the event
\* being worked on, which is never refused.
TakenInOrder ==
    /\ \A p \in recorded, d \in sent : d.n < p.n => d \in accepted
    /\ \A h \in Handler : LET e == work[h].ev IN
         /\ work[h].pc # "refuse"
         /\ work[h].pc = "idle" => recorded = accepted /\ processed = accepted
         /\ Unsettled(h) => /\ e \notin accepted
                            /\ recorded = accepted \cup {e} /\ processed = accepted
         /\ work[h].pc \in {"publish", "reply"} =>
              recorded = accepted \cup {e} /\ processed = recorded

\* The row is where the newest event that was processed puts it.
RowIsNewest ==
    IF processed = {} THEN \A s \in Sub : rows[s].status = "none"
    ELSE \E p \in processed :
           /\ \A q \in processed : q.n <= p.n
           /\ rows[p.sub].status = Target(p)

InOrderInv == ChangesTold /\ TakenInOrder /\ RowIsNewest

\* Every event Stripe sends is dealt with in the end, when no request dies.
EventuallyProcessed ==
    \A s \in Sub, n \in 1 .. MaxChanges :
        (\E e \in sent : e.n = n /\ e.sub = s)
          ~> (\A e \in sent : e.n = n => e \in processed)
=============================================================================
