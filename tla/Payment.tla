------------------------------ MODULE Payment ------------------------------
(***************************************************************************)
(* A student's subscription: Stripe tells the payment service what changed *)
(* by webhooks, the payment service keeps a row per Stripe subscription    *)
(* under a state machine and announces changes on core NATS, and the auth  *)
(* service mirrors the announcements in users.premium_until, from which it *)
(* takes the role of every token it issues.                                *)
(*                                                                         *)
(* One user, one Stripe customer.  A webhook request is a slot of Handler; *)
(* a step of it is one transaction, or one read of the second transaction, *)
(* up to the next.  Stripe itself is external: it is modelled by the       *)
(* events the code distinguishes and the retries the code expects.         *)
(***************************************************************************)
EXTENDS Integers, Sequences

CONSTANTS
    Sub,          \* the Stripe subscriptions the customer may start
    Handler,      \* slots for webhook requests in flight
    NoEvent,
    Types,        \* the event types the webhook endpoint is registered for
    Starts,       \* how a subscription may begin: active, or incomplete
    Ordered,      \* whether Stripe sends a change only after the ones before
    Period,       \* the length of a paid period, in days
    Faults,       \* the kinds of failure that may happen
    MaxFaults,    \* bound: failures in a behaviour
    MaxChanges,   \* bound: changes of subscriptions at Stripe
    MaxTime       \* bound: days in a behaviour

SubscriptionTypes == {"created", "updated", "deleted"}
EventTypes == SubscriptionTypes \cup {"checkout", "failed", "succeeded"}

ASSUME PaymentAssumption ==
    /\ Types \subseteq EventTypes
    /\ Starts \subseteq {"active", "incomplete"}
    /\ Ordered \in BOOLEAN
    /\ Period \in Nat \ {0}
    /\ MaxFaults \in Nat /\ MaxChanges \in Nat /\ MaxTime \in Nat

VARIABLES
    now,          \* the day
    stripe,       \* each subscription as Stripe has it
    changes,      \* changes made at Stripe so far
    sent,         \* the events Stripe made of them
    accepted,     \* the events Stripe got a 200 for
    recorded,     \* webhook_events
    processed,    \* those with processed_at
    rows,         \* payment_schema.subscriptions
    begun,        \* transactions begun: the clock of updated_at
    work,         \* what each webhook request is doing
    inbox,        \* payment.subscription.changed on its way to auth
    mirror,       \* users.premium_until; 0 is NULL
    login,        \* a login in progress
    faults        \* failures so far

stripeVars == <<stripe, changes, sent>>
webhookVars == <<accepted, recorded, processed, rows, begun, work>>
authVars == <<mirror, login>>
vars == <<now, stripeVars, webhookVars, inbox, authVars, faults>>

-----------------------------------------------------------------------------
(* The data. *)

StripeStatus == {"none", "incomplete", "expired", "active", "past_due", "canceled"}

\* end is current_period_end; only subscription objects carry one.  The number
\* n of the change tells apart what Stripe gives different event ids.
Event == [n : Nat, sub : Sub, type : EventTypes, status : StripeStatus, end : Nat]

State == {"INACTIVE", "CHECKOUT_PENDING", "ACTIVE", "PAST_DUE", "CANCELED",
          "REACTIVATED"}

Row == [status : State \cup {"none"}, end : Nat, at : Nat]
NoRow == [status |-> "none", end |-> 0, at |-> 0]

Message == [state : State, end : Nat]

Work == [pc : {"idle", "begin", "look", "write", "refuse", "publish", "reply"},
         ev : Event \cup {NoEvent}, at : Nat, from : State]
Idle == [pc |-> "idle", ev |-> NoEvent, at |-> 0, from |-> "INACTIVE"]

Init ==
    /\ now = 1
    /\ stripe = [s \in Sub |-> [status |-> "none", end |-> 0]]
    /\ changes = 0 /\ sent = {}
    /\ accepted = {} /\ recorded = {} /\ processed = {}
    /\ rows = [s \in Sub |-> NoRow]
    /\ begun = 0
    /\ work = [h \in Handler |-> Idle]
    /\ inbox = <<>>
    /\ mirror = 0
    /\ login = [pc |-> "idle", until |-> 0]
    /\ faults = 0

-----------------------------------------------------------------------------
(* fsm.py *)

\* _ALLOWED
Allowed ==
    {<<"INACTIVE", "CHECKOUT_PENDING">>, <<"INACTIVE", "ACTIVE">>,
     <<"CHECKOUT_PENDING", "ACTIVE">>, <<"CHECKOUT_PENDING", "INACTIVE">>,
     <<"ACTIVE", "PAST_DUE">>, <<"ACTIVE", "CANCELED">>,
     <<"PAST_DUE", "ACTIVE">>, <<"PAST_DUE", "CANCELED">>,
     <<"CANCELED", "INACTIVE">>, <<"CANCELED", "REACTIVATED">>,
     <<"REACTIVATED", "PAST_DUE">>, <<"REACTIVATED", "CANCELED">>}
    \cup {<<x, x>> : x \in State \ {"CHECKOUT_PENDING"}}

\* _stripe_status_to_state
Image(status) ==
    CASE status = "active" -> "ACTIVE"
      [] status = "past_due" -> "PAST_DUE"
      [] status = "canceled" -> "CANCELED"
      [] status = "incomplete" -> "CHECKOUT_PENDING"
      [] OTHER -> "INACTIVE"

\* Mutant of Target: every update is taken for an active subscription.
TargetAlwaysActive(e) ==
    CASE e.type = "deleted" -> "CANCELED"
      [] e.type = "failed" -> "PAST_DUE"
      [] OTHER -> "ACTIVE"

\* derive_target, for the types the code maps
Target(e) ==
    CASE e.type = "updated" -> Image(e.status)
      [] e.type = "deleted" -> "CANCELED"
      [] e.type = "failed" -> "PAST_DUE"
      [] OTHER -> "ACTIVE"

Paying == {"ACTIVE", "REACTIVATED", "PAST_DUE"}

\* is_premium, on day t
IsPremium(row, t) ==
    row.status \in Paying \/ (row.status = "CANCELED" /\ row.end > t)

\* derive_premium_until, on day t
PremiumUntil(m, t) ==
    IF m.state \in Paying \/ (m.state = "CANCELED" /\ m.end > t) THEN m.end ELSE 0

\* latest_subscription_for_user: the row with the newest updated_at.
Latest ==
    LET have == {s \in Sub : rows[s].status # "none"}
    IN  IF have = {} THEN NoRow
        ELSE rows[CHOOSE s \in have : \A r \in have : rows[r].at <= rows[s].at]

CurrentState == IF Latest.status = "none" THEN "INACTIVE" ELSE Latest.status

Fault(kind) == kind \in Faults /\ faults < MaxFaults /\ faults' = faults + 1

-----------------------------------------------------------------------------
(* Stripe, as far as its webhooks show it. *)

\* Subscription s changes; an event of each registered type tells of it.
Change(s, status, end, types) ==
    /\ changes < MaxChanges
    /\ changes' = changes + 1
    /\ stripe' = [stripe EXCEPT ![s] = [status |-> status, end |-> end]]
    /\ sent' = sent \cup
         {[n |-> changes + 1, sub |-> s, type |-> t,
           status |-> IF t \in SubscriptionTypes THEN status ELSE "none",
           end |-> IF t \in SubscriptionTypes THEN end ELSE 0] : t \in types \cap Types}
    /\ UNCHANGED <<now, webhookVars, inbox, authVars, faults>>

Over(s) == stripe[s].status \in {"none", "canceled", "expired"}

\* A checkout makes a subscription; its first invoice is paid or still open.
Subscribe(s) ==
    /\ stripe[s].status = "none" /\ \A r \in Sub : Over(r)
    /\ \/ "active" \in Starts
          /\ Change(s, "active", now + Period, {"created", "checkout", "succeeded"})
       \/ "incomplete" \in Starts
          /\ Change(s, "incomplete", now + Period, {"created"})

\* The open first invoice is paid, or never is.
Settle(s) ==
    /\ stripe[s].status = "incomplete"
    /\ \/ Change(s, "active", stripe[s].end, {"updated", "succeeded"})
       \/ Change(s, "expired", stripe[s].end, {"updated"})

\* A period is over and the next one is invoiced; or a declined invoice is
\* paid after all.
Renew(s) ==
    \/ /\ stripe[s].status = "active" /\ stripe[s].end <= now
       /\ \/ Change(s, "active", stripe[s].end + Period, {"updated", "succeeded"})
          \/ Change(s, "past_due", stripe[s].end + Period, {"updated", "failed"})
    \/ /\ stripe[s].status = "past_due"
       /\ Change(s, "active", stripe[s].end, {"updated", "succeeded"})

Cancel(s) ==
    /\ stripe[s].status \in {"active", "past_due"}
    /\ Change(s, "canceled", stripe[s].end, {"deleted"})

Tick ==
    /\ now < MaxTime
    /\ now' = now + 1
    /\ UNCHANGED <<stripeVars, webhookVars, inbox, authVars, faults>>

-----------------------------------------------------------------------------
(* POST /payment/webhook *)

Goto(h, stage) == work' = [work EXCEPT ![h].pc = stage]

\* Mutant of Receive: a recorded event is handled again.
ReceiveAgain(h, e) ==
    /\ work[h].pc = "idle" /\ e \notin accepted
    /\ Ordered => \A d \in sent : d.n < e.n => d \in accepted
    /\ recorded' = recorded \cup {e}
    /\ work' = [work EXCEPT ![h] = [Idle EXCEPT !.pc = "begin", !.ev = e]]
    /\ UNCHANGED <<now, stripeVars, accepted, processed, rows, begun, inbox, authVars, faults>>

\* Stripe posts e, again and again until it gets a 200, also while an earlier
\* post is still being handled.  The handler records e in a transaction of its
\* own; a recorded event is a duplicate and is only answered.
Receive(h, e) ==
    /\ work[h].pc = "idle" /\ e \notin accepted
    /\ Ordered => \A d \in sent : d.n < e.n => d \in accepted
    /\ recorded' = recorded \cup {e}
    /\ work' = [work EXCEPT ![h] = [Idle EXCEPT
                  !.pc = IF e \in recorded THEN "reply" ELSE "begin", !.ev = e]]
    /\ UNCHANGED <<now, stripeVars, accepted, processed, rows, begun, inbox, authVars, faults>>

\* The lookup of the customer begins the second transaction: now() is fixed.
Begin(h) ==
    /\ work[h].pc = "begin"
    /\ begun' = begun + 1
    /\ work' = [work EXCEPT ![h].pc = "look", ![h].at = begun + 1]
    /\ UNCHANGED <<now, stripeVars, accepted, recorded, processed, rows, inbox, authVars, faults>>

\* Mutant of Look: an event that changes no state is not applied either.
LookSkipsLoops(h) ==
    /\ work[h].pc = "look"
    /\ IF CurrentState # Target(work[h].ev) /\ <<CurrentState, Target(work[h].ev)>> \in Allowed
       THEN work' = [work EXCEPT ![h].pc = "write", ![h].from = CurrentState]
       ELSE Goto(h, "refuse")
    /\ UNCHANGED <<now, stripeVars, accepted, recorded, processed, rows, begun, inbox, authVars, faults>>

\* The state machine runs from the user's latest subscription as it is now:
\* the event will be applied or, where there is no such edge, refused.
Look(h) ==
    /\ work[h].pc = "look"
    /\ IF <<CurrentState, Target(work[h].ev)>> \in Allowed
       THEN work' = [work EXCEPT ![h].pc = "write", ![h].from = CurrentState]
       ELSE Goto(h, "refuse")
    /\ UNCHANGED <<now, stripeVars, accepted, recorded, processed, rows, begun, inbox, authVars, faults>>

\* A refused event is marked processed, whatever the row has become since.
Refuse(h) ==
    /\ work[h].pc = "refuse"
    /\ processed' = processed \cup {work[h].ev}
    /\ Goto(h, "reply")
    /\ UNCHANGED <<now, stripeVars, accepted, recorded, rows, begun, inbox, authVars, faults>>

\* Mutant of Write: the event is not marked processed.
WriteUnmarked(h) ==
    /\ work[h].pc = "write"
    /\ LET e == work[h].ev
       IN  /\ rows' = [rows EXCEPT ![e.sub] =
                         [status |-> Target(e), end |-> e.end, at |-> work[h].at]]
           /\ Goto(h, IF work[h].from = Target(e) THEN "reply" ELSE "publish")
    /\ UNCHANGED <<now, stripeVars, accepted, recorded, processed, begun, inbox, authVars, faults>>

\* upsert_subscription, mark_event_processed and the commit, whatever the row
\* has become since.  A self-loop is not announced.
Write(h) ==
    /\ work[h].pc = "write"
    /\ LET e == work[h].ev
       IN  /\ rows' = [rows EXCEPT ![e.sub] =
                         [status |-> Target(e), end |-> e.end, at |-> work[h].at]]
           /\ processed' = processed \cup {e}
           /\ Goto(h, IF work[h].from = Target(e) THEN "reply" ELSE "publish")
    /\ UNCHANGED <<now, stripeVars, accepted, recorded, begun, inbox, authVars, faults>>

\* Core NATS: the message reaches auth or is lost, and nobody knows.
Publish(h) ==
    /\ work[h].pc = "publish"
    /\ \/ /\ inbox' = Append(inbox, [state |-> Target(work[h].ev), end |-> work[h].ev.end])
          /\ UNCHANGED faults
       \/ Fault("drop") /\ UNCHANGED inbox
    /\ Goto(h, "reply")
    /\ UNCHANGED <<now, stripeVars, accepted, recorded, processed, rows, begun, authVars>>

Reply(h) ==
    /\ work[h].pc = "reply"
    /\ accepted' = accepted \cup {work[h].ev}
    /\ work' = [work EXCEPT ![h] = Idle]
    /\ UNCHANGED <<now, stripeVars, recorded, processed, rows, begun, inbox, authVars, faults>>

\* An exception, a dropped connection or a stop of the process ends the
\* request without an answer; the open transaction is rolled back.
Abort(h) ==
    /\ work[h].pc # "idle"
    /\ Fault("abort")
    /\ work' = [work EXCEPT ![h] = Idle]
    /\ UNCHANGED <<now, stripeVars, accepted, recorded, processed, rows, begun, inbox, authVars>>

-----------------------------------------------------------------------------
(* The auth service. *)

\* _handle: the subscriber takes its messages one by one.
Mirror ==
    /\ inbox # <<>>
    /\ mirror' = PremiumUntil(Head(inbox), now)
    /\ inbox' = Tail(inbox)
    /\ UNCHANGED <<now, stripeVars, webhookVars, login, faults>>

\* The auth service stops: a plain subscription keeps nothing for it.
Restart ==
    /\ inbox # <<>> \/ login.pc # "idle"
    /\ Fault("drop")
    /\ inbox' = <<>>
    /\ login' = [pc |-> "idle", until |-> 0]
    /\ UNCHANGED <<now, stripeVars, webhookVars, mirror>>

\* _issue_session: a student without premium_until makes auth ask payment.
\* Everybody else gets a token from the row, which changes nothing here.
LoginRead ==
    /\ login.pc = "idle" /\ mirror = 0
    /\ login' = [pc |-> "ask", until |-> 0]
    /\ UNCHANGED <<now, stripeVars, webhookVars, inbox, mirror, faults>>

Provisional == 1   \* 24 hours

\* Mutant of LoginAsk: a yes is good for a whole period.
LoginAskPeriod ==
    /\ login.pc = "ask"
    /\ \/ /\ IsPremium(Latest, now)
          /\ login' = [pc |-> "write", until |-> now + Period]
          /\ UNCHANGED faults
       \/ /\ ~IsPremium(Latest, now)
          /\ login' = [pc |-> "idle", until |-> 0]
          /\ UNCHANGED faults
       \/ Fault("ask") /\ login' = [pc |-> "idle", until |-> 0]
    /\ UNCHANGED <<now, stripeVars, webhookVars, inbox, mirror>>

\* fallback_premium_until: a yes is good for 24 hours; a no, an error or a
\* timeout leaves the row alone.
LoginAsk ==
    /\ login.pc = "ask"
    /\ \/ /\ IsPremium(Latest, now)
          /\ login' = [pc |-> "write", until |-> now + Provisional]
          /\ UNCHANGED faults
       \/ /\ ~IsPremium(Latest, now)
          /\ login' = [pc |-> "idle", until |-> 0]
          /\ UNCHANGED faults
       \/ Fault("ask") /\ login' = [pc |-> "idle", until |-> 0]
    /\ UNCHANGED <<now, stripeVars, webhookVars, inbox, mirror>>

\* set_premium_until, whatever the row has become meanwhile.
LoginWrite ==
    /\ login.pc = "write"
    /\ mirror' = login.until
    /\ login' = [pc |-> "idle", until |-> 0]
    /\ UNCHANGED <<now, stripeVars, webhookVars, inbox, faults>>

-----------------------------------------------------------------------------
Handle(h) ==
    Begin(h) \/ Look(h) \/ Write(h) \/ Refuse(h) \/ Publish(h) \/ Reply(h)

Login == LoginRead \/ LoginAsk \/ LoginWrite

Next ==
    \/ \E s \in Sub : Subscribe(s) \/ Settle(s) \/ Renew(s) \/ Cancel(s)
    \/ \E h \in Handler : Handle(h) \/ Abort(h) \/ (\E e \in sent : Receive(h, e))
    \/ Mirror \/ Restart \/ Login \/ Tick

\* Stripe retries, a request runs on, the subscriber takes its messages.
Fairness ==
    /\ WF_vars(\E h \in Handler, e \in sent : Receive(h, e))
    /\ \A h \in Handler : WF_vars(Handle(h))
    /\ WF_vars(Mirror)

Spec == Init /\ [][Next]_vars
FairSpec == Spec /\ Fairness

-----------------------------------------------------------------------------
\* Every variable keeps its type; a request holds an event unless it is idle.
TypeOK ==
    /\ now \in Nat
    /\ stripe \in [Sub -> [status : StripeStatus, end : Nat]]
    /\ changes \in 0 .. MaxChanges
    /\ sent \subseteq Event
    /\ recorded \subseteq sent /\ accepted \subseteq recorded
    /\ processed \subseteq recorded
    /\ rows \in [Sub -> Row]
    /\ begun \in Nat
    /\ work \in [Handler -> Work]
    /\ inbox \in Seq(Message)
    /\ mirror \in Nat
    /\ login \in [pc : {"idle", "ask", "write"}, until : Nat]
    /\ faults \in 0 .. MaxFaults
    /\ \A h \in Handler : work[h].pc # "idle" => work[h].ev \in recorded

=============================================================================
