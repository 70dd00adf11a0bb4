--------------------------- MODULE PaymentProofs ---------------------------
(***************************************************************************)
(* PaymentInv is inductive, for any subscriptions, requests, event types   *)
(* and failures; what it implies.                                          *)
(***************************************************************************)
EXTENDS PaymentPromises, WellFoundedInduction, TLAPS

Stages == {"idle", "begin", "look", "write", "refuse", "publish", "reply"}

\* g is the requests f with h moved to a stage, its event kept.
Moved(f, g, h, stage) ==
    /\ g \in [Handler -> Work]
    /\ \A k \in Handler : g[k].ev = f[k].ev
    /\ \A k \in Handler : g[k].pc = IF k = h THEN stage ELSE f[k].pc

LEMMA MoveTypes ==
    ASSUME NEW f \in [Handler -> Work], NEW h \in Handler, NEW stage \in Stages
    PROVE  /\ Moved(f, [f EXCEPT ![h].pc = stage], h, stage)
           /\ \A n \in Nat :
                Moved(f, [f EXCEPT ![h].pc = stage, ![h].at = n], h, stage)
           /\ \A x \in State :
                Moved(f, [f EXCEPT ![h].pc = stage, ![h].from = x], h, stage)
<1>1. Moved(f, [f EXCEPT ![h].pc = stage], h, stage)
  BY DEF Moved, Work, Stages
<1>2. ASSUME NEW n \in Nat
      PROVE  Moved(f, [f EXCEPT ![h].pc = stage, ![h].at = n], h, stage)
  BY DEF Moved, Work, Stages
<1>3. ASSUME NEW x \in State
      PROVE  Moved(f, [f EXCEPT ![h].pc = stage, ![h].from = x], h, stage)
  BY DEF Moved, Work, Stages
<1> QED
  BY <1>1, <1>2, <1>3

LEMMA IdleTypes ==
    ASSUME NEW f \in [Handler -> Work], NEW h \in Handler
    PROVE  LET i == [f EXCEPT ![h] = Idle]
           IN  /\ i \in [Handler -> Work] /\ i[h].pc = "idle"
               /\ \A k \in Handler \ {h} : i[k] = f[k]
BY DEF Idle, Work, State

LEMMA TargetType == \A e : Target(e) \in State
BY DEF Target, Image, State

LEMMA AllowedStates == \A x, y : <<x, y>> \in Allowed => x \in State
BY DEF Allowed, State

LEMMA InitInv == Init => PaymentInv
<1> SUFFICES ASSUME Init PROVE PaymentInv
  OBVIOUS
<1>1. TypeOK
  <2>1. work \in [Handler -> Work] /\ \A h \in Handler : work[h].pc = "idle"
    BY DEF Init, Idle, Work, State
  <2>2. inbox \in Seq(Message)
    BY DEF Init
  <2>3. rows \in [Sub -> Row]
    BY DEF Init, Row, NoRow, State
  <2>4. stripe \in [Sub -> [status : StripeStatus, end : Nat]]
    BY DEF Init, StripeStatus
  <2> QED
    BY <2>1, <2>2, <2>3, <2>4, PaymentAssumption DEF Init, TypeOK
<1>2. EventsOnce
  BY DEF Init, EventsOnce, Unsettled, Idle
<1>3. EndsReported
  BY DEF Init, EndsReported, Provisional
<1> QED
  BY <1>1, <1>2, <1>3 DEF PaymentInv

-----------------------------------------------------------------------------
(* Stripe's moves: events are added, nothing is forgotten. *)

LEMMA ChangeInv ==
    ASSUME PaymentInv, NEW s \in Sub, NEW status \in StripeStatus, NEW end \in Nat,
           NEW types \in SUBSET EventTypes, Change(s, status, end, types)
    PROVE  PaymentInv'
<1> USE DEF PaymentInv
<1>1. sent' \subseteq Event
  BY DEF Change, TypeOK, Event, StripeStatus
<1>2. stripe' \in [Sub -> [status : StripeStatus, end : Nat]]
  BY DEF Change, TypeOK
<1>3. changes' \in 0 .. MaxChanges
  BY PaymentAssumption DEF Change, TypeOK
<1>4. sent \subseteq sent'
  BY DEF Change
<1>5. TypeOK'
  BY <1>1, <1>2, <1>3, <1>4 DEF Change, TypeOK, webhookVars, authVars
<1>6. EventsOnce' /\ EndsReported'
  BY DEF Change, EventsOnce, EndsReported, Unsettled, Reported, Announced,
         webhookVars, authVars
<1> QED
  BY <1>5, <1>6

LEMMA StripeInv ==
    ASSUME PaymentInv, NEW s \in Sub,
           Subscribe(s) \/ Settle(s) \/ Renew(s) \/ Cancel(s)
    PROVE  PaymentInv'
<1>1. stripe[s].end \in Nat /\ now \in Nat /\ Period \in Nat
  BY PaymentAssumption DEF PaymentInv, TypeOK
<1>2. /\ now + Period \in Nat /\ stripe[s].end + Period \in Nat
  BY <1>1
<1>3. {"active", "incomplete", "expired", "past_due", "canceled"} \subseteq StripeStatus
  BY DEF StripeStatus
<1>4. /\ {"created", "checkout", "succeeded"} \in SUBSET EventTypes
      /\ {"created"} \in SUBSET EventTypes /\ {"updated", "succeeded"} \in SUBSET EventTypes
      /\ {"updated"} \in SUBSET EventTypes /\ {"updated", "failed"} \in SUBSET EventTypes
      /\ {"deleted"} \in SUBSET EventTypes
  BY DEF EventTypes, SubscriptionTypes
<1>5. CASE Subscribe(s)
  BY <1>1, <1>2, <1>3, <1>4, <1>5, ChangeInv DEF Subscribe
<1>6. CASE Settle(s)
  BY <1>1, <1>2, <1>3, <1>4, <1>6, ChangeInv DEF Settle
<1>7. CASE Renew(s)
  BY <1>1, <1>2, <1>3, <1>4, <1>7, ChangeInv DEF Renew
<1>8. CASE Cancel(s)
  BY <1>1, <1>2, <1>3, <1>4, <1>8, ChangeInv DEF Cancel
<1> QED
  BY <1>5, <1>6, <1>7, <1>8

-----------------------------------------------------------------------------
(* The webhook. *)

\* A request that moves on with its event, not into work on it, disturbs
\* nobody, whether or not it marks the event processed.
LEMMA MovedOnce ==
    ASSUME PaymentInv, NEW h \in Handler, NEW stage \in Stages,
           work[h].pc # "idle", Moved(work, work', h, stage),
           \/ /\ processed' = processed
              /\ \/ Unsettled(h) /\ stage \in {"begin", "look", "write", "refuse"}
                 \/ stage = "reply"
           \/ /\ processed' = processed \cup {work[h].ev}
              /\ Unsettled(h) /\ stage \in {"publish", "reply"}
    PROVE  EventsOnce'
<1>1. /\ \A k \in Handler : work'[k].ev = work[k].ev
      /\ \A k \in Handler \ {h} : work'[k].pc = work[k].pc
      /\ work'[h].pc = stage
  BY DEF Moved
<1>2. \A k \in Handler : Unsettled(k)' => Unsettled(k)
  BY <1>1 DEF Unsettled
<1>3. \A k \in Handler : Unsettled(k)' => work'[k].ev \notin processed'
  <2>1. CASE processed' = processed
    BY <1>1, <1>2, <2>1 DEF PaymentInv, EventsOnce
  <2>2. CASE processed' = processed \cup {work[h].ev} /\ Unsettled(h)
                 /\ stage \in {"publish", "reply"}
    BY <1>1, <1>2, <2>2 DEF PaymentInv, EventsOnce, Unsettled
  <2> QED
    BY <2>1, <2>2
<1>4. \A g, k \in Handler :
        Unsettled(g)' /\ Unsettled(k)' /\ work'[g].ev = work'[k].ev => g = k
  BY <1>1, <1>2 DEF PaymentInv, EventsOnce
<1>5. \A k \in Handler : work'[k].pc = "publish" => work'[k].ev \in processed'
  BY <1>1 DEF PaymentInv, EventsOnce
<1> QED
  BY <1>3, <1>4, <1>5 DEF EventsOnce

LEMMA HandleInv ==
    ASSUME PaymentInv, NEW h \in Handler, Handle(h)
    PROVE  PaymentInv'
<1> USE DEF PaymentInv
<1>0. work \in [Handler -> Work]
  BY DEF TypeOK
<1>1. CASE Begin(h)
  <2>1. begun + 1 \in Nat
    BY DEF TypeOK
  <2>2. Moved(work, work', h, "look")
    BY <1>0, <1>1, <2>1, MoveTypes DEF Begin, Stages
  <2>3. EventsOnce'
    BY <1>1, <2>2, MovedOnce DEF Begin, Stages, Unsettled
  <2>4. TypeOK'
    BY <1>1, <2>1, <2>2 DEF Begin, TypeOK, Moved, stripeVars, authVars
  <2>5. EndsReported'
    BY <1>1 DEF Begin, EndsReported, Reported, Announced, authVars
  <2> QED
    BY <2>3, <2>4, <2>5
<1>2. CASE Look(h)
  <2>1. \E stage \in {"write", "refuse"} : Moved(work, work', h, stage)
    <3>1. CASE <<CurrentState, Target(work[h].ev)>> \in Allowed
      <4>1. CurrentState \in State /\ "write" \in Stages
        BY <3>1, AllowedStates DEF Stages
      <4>2. work' = [work EXCEPT ![h].pc = "write", ![h].from = CurrentState]
        BY <1>2, <3>1 DEF Look
      <4>. QED
        BY <1>0, <4>1, <4>2, MoveTypes
    <3>2. CASE <<CurrentState, Target(work[h].ev)>> \notin Allowed
      BY <1>0, <1>2, <3>2, MoveTypes DEF Look, Goto, Stages
    <3> QED
      BY <3>1, <3>2
  <2>2. EventsOnce'
    BY <1>2, <2>1, MovedOnce DEF Look, Stages, Unsettled
  <2>3. TypeOK'
    BY <1>2, <2>1 DEF Look, TypeOK, Moved, stripeVars, authVars
  <2>4. EndsReported'
    BY <1>2, <2>1 DEF Look, EndsReported, Reported, Announced, authVars
  <2> QED
    BY <2>2, <2>3, <2>4
<1>6. CASE Refuse(h)
  <2>1. Moved(work, work', h, "reply") /\ processed' = processed \cup {work[h].ev}
    BY <1>0, <1>6, MoveTypes DEF Refuse, Goto, Stages
  <2>2. EventsOnce'
    BY <1>6, <2>1, MovedOnce DEF Refuse, Stages, Unsettled
  <2>3. TypeOK'
    BY <1>6, <2>1 DEF Refuse, TypeOK, Moved, stripeVars, authVars
  <2>4. EndsReported'
    BY <1>6, <2>1 DEF Refuse, EndsReported, Reported, Announced, authVars
  <2> QED
    BY <2>2, <2>3, <2>4
<1>3. CASE Write(h)
  <2> DEFINE e == work[h].ev
  <2>1. e \in Event /\ e.sub \in Sub /\ e.end \in Nat /\ Target(e) \in State
        /\ work[h].at \in Nat /\ e \in recorded
    BY <1>0, <1>3, TargetType DEF Write, TypeOK, Event, Work
  <2>2. rows' \in [Sub -> Row]
    BY <1>3, <2>1 DEF Write, TypeOK, Row
  <2>3. /\ processed' = processed \cup {e}
        /\ \E stage \in {"publish", "reply"} : Moved(work, work', h, stage)
    BY <1>0, <1>3, MoveTypes DEF Write, Goto, Stages
  <2>4. EventsOnce'
    BY <1>3, <2>3, MovedOnce DEF Write, Stages, Unsettled
  <2>5. TypeOK'
    BY <1>3, <2>1, <2>2, <2>3 DEF Write, TypeOK, Moved, stripeVars, authVars
  <2>6. EndsReported'
    BY <1>3, <2>3 DEF Write, EndsReported, Reported, Announced, authVars
  <2> QED
    BY <2>4, <2>5, <2>6
<1>4. CASE Publish(h)
  <2> DEFINE e == work[h].ev
             m == [state |-> Target(e), end |-> e.end]
  <2>1. m \in Message /\ e \in processed
    BY <1>0, <1>4, TargetType DEF Publish, TypeOK, Event, Work, Message, EventsOnce
  <2>2. Moved(work, work', h, "reply") /\ processed' = processed
    BY <1>0, <1>4, MoveTypes DEF Publish, Goto, Stages
  <2>3. inbox' = inbox \/ inbox' = Append(inbox, m)
    BY <1>4 DEF Publish
  <2>4. EventsOnce'
    BY <1>4, <2>2, MovedOnce DEF Publish, Stages
  <2>5. inbox' \in Seq(Message) /\ \A i \in 1 .. Len(inbox') : Announced(inbox'[i])
    <3>1. inbox \in Seq(Message) /\ Announced(m)
      BY <2>1 DEF TypeOK, Announced
    <3>2. CASE inbox' = inbox
      BY <3>1, <3>2 DEF EndsReported
    <3>3. CASE inbox' = Append(inbox, m)
      <4>1. /\ inbox' \in Seq(Message) /\ Len(inbox') = Len(inbox) + 1
            /\ \A i \in 1 .. Len(inbox) : inbox'[i] = inbox[i]
            /\ inbox'[Len(inbox) + 1] = m
        BY <2>1, <3>1, <3>3
      <4>2. Len(inbox) \in Nat
        BY <3>1
      <4>3. \A i \in 1 .. Len(inbox') : i \in 1 .. Len(inbox) \/ i = Len(inbox) + 1
        BY <4>1, <4>2
      <4> QED
        BY <3>1, <4>1, <4>3 DEF EndsReported
    <3> QED
      BY <2>3, <3>2, <3>3
  <2>6. faults' \in 0 .. MaxFaults
    BY <1>4, PaymentAssumption DEF Publish, Fault, TypeOK
  <2>7. TypeOK'
    BY <1>4, <2>2, <2>5, <2>6 DEF Publish, TypeOK, Moved, stripeVars, authVars
  <2>8. EndsReported'
    BY <1>4, <2>2, <2>5 DEF Publish, EndsReported, Reported, Announced, authVars
  <2> QED
    BY <2>4, <2>7, <2>8
<1>5. CASE Reply(h)
  <2>1. /\ work' \in [Handler -> Work] /\ work'[h].pc = "idle"
        /\ \A k \in Handler \ {h} : work'[k] = work[k]
    BY <1>0, <1>5, IdleTypes DEF Reply
  <2>2. work[h].ev \in recorded
    BY <1>5 DEF Reply, TypeOK
  <2>3. TypeOK'
    BY <1>5, <2>1, <2>2 DEF Reply, TypeOK, stripeVars, authVars
  <2>4. EventsOnce'
    BY <1>5, <2>1 DEF Reply, EventsOnce, Unsettled
  <2>5. EndsReported'
    BY <1>5 DEF Reply, EndsReported, Reported, Announced, authVars
  <2> QED
    BY <2>3, <2>4, <2>5
<1> QED
  BY <1>1, <1>2, <1>3, <1>4, <1>5, <1>6 DEF Handle

LEMMA AbortInv ==
    ASSUME PaymentInv, NEW h \in Handler, Abort(h)
    PROVE  PaymentInv'
<1> USE DEF PaymentInv
<1>1. /\ work' \in [Handler -> Work] /\ work'[h].pc = "idle"
      /\ \A k \in Handler \ {h} : work'[k] = work[k]
  BY IdleTypes DEF Abort, TypeOK
<1>2. faults' \in 0 .. MaxFaults
  BY PaymentAssumption DEF Abort, Fault, TypeOK
<1>3. TypeOK'
  BY <1>1, <1>2 DEF Abort, TypeOK, stripeVars, authVars
<1>4. EventsOnce'
  BY <1>1 DEF Abort, EventsOnce, Unsettled
<1>5. EndsReported'
  BY DEF Abort, EndsReported, Reported, Announced, authVars
<1> QED
  BY <1>3, <1>4, <1>5

LEMMA ReceiveInv ==
    ASSUME PaymentInv, NEW h \in Handler, NEW e \in sent, Receive(h, e)
    PROVE  PaymentInv'
<1> USE DEF PaymentInv
<1> DEFINE stage == IF e \in recorded THEN "reply" ELSE "begin"
<1>1. e \in Event /\ stage \in Stages
  BY DEF TypeOK, Stages
<1>2. /\ work' \in [Handler -> Work] /\ work'[h].pc = stage /\ work'[h].ev = e
      /\ \A k \in Handler \ {h} : work'[k] = work[k]
  <2>1. work \in [Handler -> Work]
    BY DEF TypeOK
  <2>2. work' = [work EXCEPT ![h] = [Idle EXCEPT !.pc = stage, !.ev = e]]
    BY DEF Receive
  <2> HIDE DEF stage
  <2> QED
    BY <1>1, <2>1, <2>2 DEF Idle, Work, State, Stages
<1>3. TypeOK'
  BY <1>2 DEF Receive, TypeOK, stripeVars, authVars
<1>4. \A k \in Handler : Unsettled(k) => work[k].ev \in recorded
  BY DEF TypeOK, Unsettled
<1>5. EventsOnce'
  BY <1>2, <1>4 DEF Receive, EventsOnce, Unsettled, TypeOK
<1>6. EndsReported'
  BY DEF Receive, EndsReported, Reported, Announced, authVars
<1> QED
  BY <1>3, <1>5, <1>6

-----------------------------------------------------------------------------
(* The auth service. *)

LEMMA MirrorInv ==
    ASSUME PaymentInv, Mirror
    PROVE  PaymentInv'
<1> USE DEF PaymentInv
<1>1. /\ inbox \in Seq(Message) /\ inbox # <<>>
      /\ Len(inbox) \in Nat /\ Len(inbox) >= 1
  BY DEF Mirror, TypeOK
<1>2. /\ Head(inbox) = inbox[1] /\ Head(inbox) \in Message
      /\ Tail(inbox) \in Seq(Message) /\ Len(Tail(inbox)) = Len(inbox) - 1
      /\ \A i \in 1 .. Len(Tail(inbox)) : Tail(inbox)[i] = inbox[i + 1]
  BY <1>1
<1>3. mirror' = 0 \/ mirror' = Head(inbox).end
  BY DEF Mirror, PremiumUntil
<1>4. mirror' \in Nat /\ (mirror' = 0 \/ Reported(mirror'))
  <2>1. Announced(inbox[1])
    BY <1>1 DEF EndsReported
  <2>2. Reported(inbox[1].end)
    BY <2>1 DEF Announced, Reported
  <2>. QED
    BY <1>2, <1>3, <2>2 DEF Message
<1>5. TypeOK'
  BY <1>2, <1>4 DEF Mirror, TypeOK, stripeVars, webhookVars
<1>6. EventsOnce'
  BY DEF Mirror, EventsOnce, Unsettled, webhookVars
<1>7. \A i \in 1 .. Len(inbox') : Announced(inbox'[i])
  BY <1>1, <1>2 DEF Mirror, EndsReported
<1>8. EndsReported'
  <2>1. UNCHANGED <<processed, now, login>>
    BY DEF Mirror, webhookVars
  <2>2. (\A i \in 1 .. Len(inbox) : Announced(inbox[i]))'
    BY <1>7, <2>1 DEF Announced
  <2>3. mirror' <= now + Provisional \/ Reported(mirror)'
    BY <1>4, <2>1 DEF Reported, TypeOK, Provisional
  <2>. QED
    BY <2>1, <2>2, <2>3 DEF EndsReported
<1> QED
  BY <1>5, <1>6, <1>8

LEMMA AuthInv ==
    ASSUME PaymentInv, Restart \/ Login \/ Tick
    PROVE  PaymentInv'
<1> USE DEF PaymentInv
<1>1. EventsOnce' /\ processed' = processed
  BY DEF Restart, Login, LoginRead, LoginAsk, LoginWrite, Tick, EventsOnce,
         Unsettled, webhookVars
<1>2. now \in Nat /\ mirror \in Nat
  BY DEF TypeOK
<1>3. CASE Restart
  <2>1. TypeOK'
    BY <1>3, PaymentAssumption DEF Restart, Fault, TypeOK, stripeVars, webhookVars
  <2>2. EndsReported'
    BY <1>1, <1>3 DEF Restart, EndsReported, Reported, Announced, webhookVars
  <2> QED
    BY <1>1, <2>1, <2>2
<1>4. CASE LoginRead
  BY <1>1, <1>4
  DEF LoginRead, TypeOK, EndsReported, Reported, Announced, stripeVars, webhookVars
<1>5. CASE LoginAsk
  <2>1. login' = [pc |-> "write", until |-> now + Provisional]
        \/ login' = [pc |-> "idle", until |-> 0]
    BY <1>5 DEF LoginAsk
  <2>2. TypeOK'
    BY <1>2, <1>5, <2>1, PaymentAssumption
    DEF LoginAsk, Fault, TypeOK, stripeVars, webhookVars, Provisional
  <2>3. EndsReported'
    BY <1>1, <1>2, <1>5, <2>1
    DEF LoginAsk, EndsReported, Reported, Announced, webhookVars, Provisional
  <2> QED
    BY <1>1, <2>2, <2>3
<1>6. CASE LoginWrite
  <2>1. login.until \in Nat /\ login.until <= now + Provisional
    BY <1>6 DEF LoginWrite, TypeOK, EndsReported
  <2>2. TypeOK'
    BY <1>6, <2>1 DEF LoginWrite, TypeOK, stripeVars, webhookVars
  <2>3. EndsReported'
    BY <1>1, <1>6, <2>1 DEF LoginWrite, EndsReported, Reported, Announced, webhookVars
  <2> QED
    BY <1>1, <2>2, <2>3
<1>7. CASE Tick
  <2>1. TypeOK'
    BY <1>7 DEF Tick, TypeOK, stripeVars, webhookVars, authVars
  <2>2. now' = now + 1 /\ login.until \in Nat
    BY <1>7 DEF Tick, TypeOK
  <2>3. EndsReported'
    BY <1>1, <1>2, <1>7, <2>2
    DEF Tick, EndsReported, Reported, Announced, webhookVars, authVars, Provisional
  <2> QED
    BY <1>1, <2>1, <2>3
<1> QED
  BY <1>3, <1>4, <1>5, <1>6, <1>7 DEF Login

-----------------------------------------------------------------------------
LEMMA StepInv == PaymentInv /\ [Next]_vars => PaymentInv'
<1> SUFFICES ASSUME PaymentInv, [Next]_vars PROVE PaymentInv'
  OBVIOUS
<1>1. CASE \E s \in Sub : Subscribe(s) \/ Settle(s) \/ Renew(s) \/ Cancel(s)
  BY <1>1, StripeInv
<1>2. CASE \E h \in Handler : Handle(h) \/ Abort(h) \/ (\E e \in sent : Receive(h, e))
  BY <1>2, HandleInv, AbortInv, ReceiveInv
<1>3. CASE Mirror
  BY <1>3, MirrorInv
<1>4. CASE Restart \/ Login \/ Tick
  BY <1>4, AuthInv
<1>5. CASE UNCHANGED vars
  BY <1>5 DEF vars, stripeVars, webhookVars, authVars, PaymentInv, TypeOK,
              EventsOnce, EndsReported, Unsettled, Reported, Announced
<1> QED
  BY <1>1, <1>2, <1>3, <1>4, <1>5 DEF Next

\* Requests, retries, lost messages and logins keep PaymentInv.
THEOREM PaymentInvariant == Spec => []PaymentInv
<1> QED
  BY InitInv, StepInv, PTL DEF Spec

\* Nobody holds premium beyond the fallback's 24 hours and the period ends
\* that Stripe reported, whatever is lost, doubled, late or raced.
THEOREM PremiumReported == Spec => []PremiumIsReported
<1>1. PaymentInv => PremiumIsReported
  BY DEF PaymentInv, TypeOK, EndsReported, PremiumIsReported, Reported, Provisional
<1> QED
  BY <1>1, PaymentInvariant, PTL

LEMMA WriteApplies ==
    ASSUME PaymentInv, NEW h \in Handler, Write(h)
    PROVE  \E e \in recorded \ processed :
              /\ processed' = processed \cup {e}
              /\ rows' = [rows EXCEPT ![e.sub] =
                            [status |-> Target(e), end |-> e.end, at |-> rows'[e.sub].at]]
<1> DEFINE e == work[h].ev
<1>1. e \in recorded \ processed /\ e.sub \in Sub
  BY DEF PaymentInv, TypeOK, EventsOnce, Unsettled, Write, Event
<1>2. /\ rows' = [rows EXCEPT ![e.sub] =
                    [status |-> Target(e), end |-> e.end, at |-> work[h].at]]
      /\ processed' = processed \cup {e}
  BY DEF Write
<1>3. rows'[e.sub].at = work[h].at
  BY <1>1, <1>2 DEF PaymentInv, TypeOK
<1> QED
  BY <1>1, <1>2, <1>3

\* However often and however overlapping Stripe posts an event, it changes a
\* row at most once, in the step that marks it processed.
THEOREM EventsApplyOnce == Spec => AppliedOnce
<1>1. ASSUME PaymentInv, [Next]_vars, rows' # rows
      PROVE  \E h \in Handler : Write(h)
  <2>1. CASE \E s \in Sub : Subscribe(s) \/ Settle(s) \/ Renew(s) \/ Cancel(s)
    BY <1>1, <2>1 DEF Subscribe, Settle, Renew, Cancel, Change, webhookVars
  <2>2. CASE \E h \in Handler : Abort(h) \/ (\E e \in sent : Receive(h, e))
    BY <1>1, <2>2 DEF Abort, Receive
  <2>3. CASE \E h \in Handler :
               Begin(h) \/ Look(h) \/ Refuse(h) \/ Publish(h) \/ Reply(h)
    BY <1>1, <2>3 DEF Begin, Look, Refuse, Publish, Reply
  <2>4. CASE Mirror \/ Restart \/ Login \/ Tick
    BY <1>1, <2>4 DEF Mirror, Restart, Login, LoginRead, LoginAsk, LoginWrite,
                      Tick, webhookVars
  <2>5. CASE UNCHANGED vars
    BY <1>1, <2>5 DEF vars, webhookVars
  <2> QED
    BY <1>1, <2>1, <2>2, <2>3, <2>4, <2>5 DEF Next, Handle
<1>2. PaymentInv /\ [Next]_vars =>
        (rows' # rows =>
           \E e \in recorded \ processed :
              /\ processed' = processed \cup {e}
              /\ rows' = [rows EXCEPT ![e.sub] =
                            [status |-> Target(e), end |-> e.end, at |-> rows'[e.sub].at]])
  BY <1>1, WriteApplies
<1> QED
  BY <1>2, PaymentInvariant, PTL DEF Spec, AppliedOnce

-----------------------------------------------------------------------------
(* Events in order: given PaymentInv and the hypotheses InOrder, InOrderInv *)
(* is inductive.                                                           *)

\* Steps that concern none of the variables of InOrderInv.
LEMMA InOrderKept ==
    ASSUME InOrderInv, UNCHANGED <<stripeVars, webhookVars>>
    PROVE  InOrderInv'
BY DEF InOrderInv, ChangesTold, TakenInOrder, RowIsNewest, Unsettled,
       stripeVars, webhookVars

\* The events of one change have one target: the image of the status the
\* change leads to.
LEMMA ChangeTold ==
    ASSUME InOrder, PaymentInv, InOrderInv, NEW s \in Sub,
           NEW status \in {"active", "past_due", "canceled"}, NEW end \in Nat,
           NEW types \in SUBSET EventTypes, Change(s, status, end, types),
           types \cap SubscriptionTypes # {},
           changes = 0 => status = "active",
           changes # 0 => stripe[s].status # "canceled",
           "updated" \in types => status # "canceled",
           "deleted" \in types => types = {"deleted"} /\ status = "canceled",
           "failed" \in types => types \subseteq {"updated", "failed"}
                                 /\ status = "past_due",
           types \cap {"created", "checkout", "succeeded"} # {} => status = "active"
    PROVE  InOrderInv'
<1> DEFINE fresh == {[n |-> changes + 1, sub |-> s, type |-> t,
                      status |-> IF t \in SubscriptionTypes THEN status ELSE "none",
                      end |-> IF t \in SubscriptionTypes THEN end ELSE 0] :
                       t \in types \cap Types}
<1>1. /\ changes \in Nat /\ changes' = changes + 1 /\ sent' = sent \cup fresh
      /\ stripe' = [stripe EXCEPT ![s] = [status |-> status, end |-> end]]
      /\ UNCHANGED webhookVars
      /\ sent \subseteq Event /\ \A r \in Sub : r = s
      /\ stripe'[s].status = status
  BY PaymentAssumption DEF Change, PaymentInv, TypeOK, InOrder
<1>2. ASSUME NEW e \in fresh
      PROVE  /\ e.n = changes + 1 /\ e.sub = s /\ Target(e) = Image(status)
  <2>1. PICK t \in types \cap Types :
          e = [n |-> changes + 1, sub |-> s, type |-> t,
               status |-> IF t \in SubscriptionTypes THEN status ELSE "none",
               end |-> IF t \in SubscriptionTypes THEN end ELSE 0]
    OBVIOUS
  <2>2. e.n = changes + 1 /\ e.sub = s /\ e.type = t
        /\ (t = "updated" => e.status = status)
    BY <2>1 DEF SubscriptionTypes
  <2>3. t \in {"created", "updated", "deleted", "checkout", "failed", "succeeded"}
    BY DEF EventTypes, SubscriptionTypes
  <2>. QED
    BY <2>2, <2>3 DEF Target, Image
<1>3. \E e \in fresh : e.n = changes + 1
  <2>1. PICK t \in types \cap Types : t \in SubscriptionTypes
    BY DEF InOrder
  <2>2. [n |-> changes + 1, sub |-> s, type |-> t,
         status |-> IF t \in SubscriptionTypes THEN status ELSE "none",
         end |-> IF t \in SubscriptionTypes THEN end ELSE 0] \in fresh
    BY <2>1
  <2>. QED
    BY <1>2, <2>2
<1> HIDE DEF fresh
<1>4. /\ Image(status) \in {"ACTIVE", "PAST_DUE", "CANCELED"}
      /\ status = "active" => Image(status) = "ACTIVE"
      /\ changes # 0 => Image(stripe[s].status) # "CANCELED"
  BY DEF Image
<1>5. \A e \in sent : e.n \in 1 .. changes /\ e.sub = s
  BY <1>1 DEF InOrderInv, ChangesTold, Event
<1>6. ChangesTold'
  <2>1. ASSUME NEW e \in sent'
        PROVE  /\ e.n \in 1 .. changes'
               /\ Target(e) \in {"ACTIVE", "PAST_DUE", "CANCELED"}
               /\ e.n = 1 => Target(e) = "ACTIVE"
               /\ e.n < changes' => Target(e) # "CANCELED"
               /\ e.n = changes' => Target(e) = Image(stripe'[e.sub].status)
    <3>1. CASE e \in sent
      <4>1. /\ e.n \in 1 .. changes
            /\ Target(e) \in {"ACTIVE", "PAST_DUE", "CANCELED"}
            /\ e.n = 1 => Target(e) = "ACTIVE"
            /\ e.n < changes => Target(e) # "CANCELED"
            /\ e.n = changes => Target(e) = Image(stripe[e.sub].status)
        BY <3>1 DEF InOrderInv, ChangesTold
      <4>. QED
        BY <1>1, <1>4, <1>5, <3>1, <4>1
    <3>2. CASE e \in fresh
      BY <1>1, <1>2, <1>4, <3>2
    <3>. QED
      BY <1>1, <3>1, <3>2
  <2>2. ASSUME NEW d \in sent', NEW e \in sent', d.n = e.n
        PROVE  Target(d) = Target(e)
    BY <1>1, <1>2, <1>5, <2>2 DEF InOrderInv, ChangesTold
  <2>3. ASSUME NEW n \in 1 .. changes' PROVE \E e \in sent' : e.n = n
    BY <1>1, <1>3 DEF InOrderInv, ChangesTold
  <2>4. \A r \in Sub : stripe'[r].status \in {"active", "past_due", "canceled"}
    BY <1>1
  <2>. QED
    BY <1>1, <2>1, <2>2, <2>3, <2>4 DEF ChangesTold
<1>7. TakenInOrder'
  <2>1. \A p \in recorded, d \in sent' : d.n < p.n => d \in accepted
    <3>1. \A p \in recorded : p \in sent /\ p.n \in 1 .. changes
      BY <1>5 DEF PaymentInv, TypeOK
    <3>. QED
      BY <1>1, <1>2, <3>1 DEF InOrderInv, TakenInOrder
  <2>. QED
    BY <1>1, <2>1 DEF InOrderInv, TakenInOrder, Unsettled, webhookVars
<1>8. RowIsNewest'
  BY <1>1 DEF InOrderInv, RowIsNewest, webhookVars
<1>. QED
  BY <1>6, <1>7, <1>8 DEF InOrderInv

LEMMA StripeInOrder ==
    ASSUME InOrder, PaymentInv, InOrderInv, NEW s \in Sub,
           Subscribe(s) \/ Settle(s) \/ Renew(s) \/ Cancel(s)
    PROVE  InOrderInv'
<1>1. /\ stripe[s].end \in Nat /\ now + Period \in Nat
      /\ stripe[s].end + Period \in Nat
  BY PaymentAssumption DEF PaymentInv, TypeOK
<1>2. IF changes = 0 THEN stripe[s].status = "none"
      ELSE stripe[s].status \in {"active", "past_due", "canceled"}
  BY DEF InOrderInv, ChangesTold
<1>3. CASE Subscribe(s)
  <2>1. Change(s, "active", now + Period, {"created", "checkout", "succeeded"})
    BY <1>3 DEF Subscribe, InOrder
  <2>2. changes = 0
    BY <1>2, <1>3 DEF Subscribe
  <2>. QED
    BY <1>1, <2>1, <2>2, ChangeTold DEF EventTypes, SubscriptionTypes
<1>4. CASE Settle(s)
  BY <1>2, <1>4 DEF Settle
<1>5. CASE Renew(s)
  <2>1. changes # 0 /\ stripe[s].status # "canceled"
    BY <1>2, <1>5 DEF Renew
  <2>2. \/ \E end \in {stripe[s].end, stripe[s].end + Period} :
             Change(s, "active", end, {"updated", "succeeded"})
        \/ Change(s, "past_due", stripe[s].end + Period, {"updated", "failed"})
    BY <1>5 DEF Renew
  <2>3. ASSUME NEW end \in Nat, Change(s, "active", end, {"updated", "succeeded"})
        PROVE  InOrderInv'
    BY <2>1, <2>3, ChangeTold DEF EventTypes, SubscriptionTypes
  <2>4. ASSUME NEW end \in Nat, Change(s, "past_due", end, {"updated", "failed"})
        PROVE  InOrderInv'
    BY <2>1, <2>4, ChangeTold DEF EventTypes, SubscriptionTypes
  <2>. QED
    BY <1>1, <2>2, <2>3, <2>4
<1>6. CASE Cancel(s)
  <2>1. /\ changes # 0 /\ stripe[s].status # "canceled"
        /\ Change(s, "canceled", stripe[s].end, {"deleted"})
    BY <1>2, <1>6 DEF Cancel
  <2>. QED
    BY <1>1, <2>1, ChangeTold DEF EventTypes, SubscriptionTypes
<1>. QED
  BY <1>3, <1>4, <1>5, <1>6

\* The request works on an event at least as new as all that were processed,
\* and the state machine lets it move the row there.
LEMMA EdgeExists ==
    ASSUME InOrder, PaymentInv, InOrderInv, NEW h \in Handler, Unsettled(h)
    PROVE  /\ work[h].ev \in sent /\ work[h].ev \notin processed
           /\ \A q \in processed : q.n <= work[h].ev.n
           /\ <<CurrentState, Target(work[h].ev)>> \in Allowed
<1> DEFINE e == work[h].ev
<1>1. /\ e \in recorded /\ e \in sent /\ e \notin accepted
      /\ recorded = accepted \cup {e} /\ processed = accepted
      /\ sent \subseteq Event /\ recorded \subseteq sent /\ rows \in [Sub -> Row]
  BY DEF InOrderInv, TakenInOrder, PaymentInv, TypeOK, Unsettled
<1> HIDE DEF e
<1>2. \A q \in processed : q.n \in Nat /\ e.n \in Nat /\ q.n <= e.n
  BY <1>1 DEF InOrderInv, TakenInOrder, Event
<1>3. e.sub \in Sub /\ \A r \in Sub : r = e.sub
  BY <1>1 DEF Event, InOrder
<1>4. CurrentState = IF rows[e.sub].status = "none" THEN "INACTIVE"
                     ELSE rows[e.sub].status
  <2>1. CASE rows[e.sub].status = "none"
    <3>1. {r \in Sub : rows[r].status # "none"} = {}
      BY <1>3, <2>1
    <3>. QED
      BY <2>1, <3>1 DEF CurrentState, Latest, NoRow
  <2>2. CASE rows[e.sub].status # "none"
    <3> DEFINE have == {r \in Sub : rows[r].status # "none"}
               t == CHOOSE r \in have : \A x \in have : rows[x].at <= rows[r].at
    <3>1. e.sub \in have /\ \A x \in have : rows[x].at <= rows[e.sub].at
      BY <1>1, <1>3, <2>2 DEF Row
    <3>2. t \in have
      BY <3>1
    <3>3. t = e.sub
      BY <1>3, <3>2
    <3>4. Latest = rows[t]
      BY <3>1 DEF Latest
    <3> HIDE DEF t, have
    <3>5. Latest = rows[e.sub]
      BY <3>3, <3>4
    <3>. QED
      BY <2>2, <3>5 DEF CurrentState
  <2>. QED
    BY <2>1, <2>2
<1>5. <<CurrentState, Target(e)>> \in Allowed
  <2>1. /\ e.n \in 1 .. changes /\ changes \in Nat
        /\ Target(e) \in {"ACTIVE", "PAST_DUE", "CANCELED"}
        /\ e.n = 1 => Target(e) = "ACTIVE"
    BY <1>1, PaymentAssumption DEF InOrderInv, ChangesTold, PaymentInv, TypeOK
  <2>2. CASE processed = {}
    <3>1. e.n = 1
      <4>1. PICK d \in sent : d.n = 1
        BY <2>1 DEF InOrderInv, ChangesTold
      <4>2. ~ (d.n < e.n)
        BY <1>1, <2>2 DEF InOrderInv, TakenInOrder
      <4>. QED
        BY <2>1, <4>1, <4>2
    <3>2. CurrentState = "INACTIVE"
      BY <1>3, <1>4, <2>2 DEF InOrderInv, RowIsNewest
    <3>. QED
      BY <2>1, <3>1, <3>2 DEF Allowed
  <2>3. CASE processed # {}
    <3>1. PICK p \in processed : rows[p.sub].status = Target(p)
      BY <2>3 DEF InOrderInv, RowIsNewest
    <3>2. /\ p \in sent /\ p.sub = e.sub /\ p.n \in 1 .. changes /\ p.n <= e.n
          /\ Target(p) \in {"ACTIVE", "PAST_DUE", "CANCELED"}
          /\ p.n < changes => Target(p) # "CANCELED"
          /\ p.n = e.n => Target(p) = Target(e)
      BY <1>1, <1>2, <1>3, <3>1 DEF InOrderInv, ChangesTold, Event
    <3>3. CurrentState = Target(p)
      BY <1>4, <3>1, <3>2
    <3>4. \/ Target(p) = Target(e)
          \/ Target(p) \in {"ACTIVE", "PAST_DUE"}
      BY <2>1, <3>2
    <3>. QED
      BY <2>1, <3>2, <3>3, <3>4 DEF Allowed, State
  <2>. QED
    BY <2>2, <2>3
<1>. QED
  BY <1>1, <1>2, <1>5 DEF e

\* A step of the only request, with the row where it was.
LEMMA RequestInOrder ==
    ASSUME InOrder, InOrderInv, NEW h \in Handler, UNCHANGED stripeVars,
           \A p \in recorded', d \in sent : d.n < p.n => d \in accepted',
           RowIsNewest',
           LET e == work'[h].ev IN
             /\ work'[h].pc # "refuse"
             /\ work'[h].pc = "idle" => recorded' = accepted' /\ processed' = accepted'
             /\ Unsettled(h)' => /\ e \notin accepted'
                                 /\ recorded' = accepted' \cup {e}
                                 /\ processed' = accepted'
             /\ work'[h].pc \in {"publish", "reply"} =>
                  recorded' = accepted' \cup {e} /\ processed' = recorded'
    PROVE  InOrderInv'
<1>1. \A g \in Handler : g = h
  BY DEF InOrder
<1>2. TakenInOrder'
  BY <1>1 DEF TakenInOrder, stripeVars
<1>3. ChangesTold'
  BY DEF InOrderInv, ChangesTold, stripeVars
<1>. QED
  BY <1>2, <1>3 DEF InOrderInv

LEMMA ReceiveInOrder ==
    ASSUME InOrder, PaymentInv, InOrderInv, NEW h \in Handler, NEW e \in sent,
           Receive(h, e)
    PROVE  InOrderInv'
<1>1. /\ work[h].pc = "idle" /\ e \notin accepted
      /\ \A d \in sent : d.n < e.n => d \in accepted
      /\ recorded' = recorded \cup {e}
      /\ UNCHANGED <<stripeVars, accepted, processed, rows>>
  BY DEF Receive, InOrder
<1>2. /\ recorded = accepted /\ processed = accepted
      /\ \A p \in recorded, d \in sent : d.n < p.n => d \in accepted
  BY <1>1 DEF InOrderInv, TakenInOrder
<1>3. work'[h].pc = "begin" /\ work'[h].ev = e
  BY <1>1, <1>2 DEF Receive, Idle, PaymentInv, TypeOK
<1>4. \A p \in recorded', d \in sent : d.n < p.n => d \in accepted'
  BY <1>1, <1>2
<1>5. RowIsNewest'
  BY <1>1 DEF InOrderInv, RowIsNewest
<1>. QED
  BY <1>1, <1>2, <1>3, <1>4, <1>5, RequestInOrder DEF Unsettled

LEMMA HandleInOrder ==
    ASSUME InOrder, PaymentInv, InOrderInv, NEW h \in Handler,
           Handle(h)
    PROVE  InOrderInv'
<1>0. /\ work \in [Handler -> Work] /\ sent \subseteq Event /\ rows \in [Sub -> Row]
      /\ accepted \subseteq sent /\ recorded \subseteq sent /\ processed \subseteq sent
      /\ \A r, s \in Sub : r = s
  BY DEF PaymentInv, TypeOK, InOrder
<1>1. /\ work[h].pc = "idle" => recorded = accepted /\ processed = accepted
      /\ Unsettled(h) => /\ work[h].ev \notin accepted
                         /\ recorded = accepted \cup {work[h].ev}
                         /\ processed = accepted
      /\ work[h].pc \in {"publish", "reply"} =>
           recorded = accepted \cup {work[h].ev} /\ processed = recorded
      /\ work[h].pc # "refuse"
      /\ \A p \in recorded, d \in sent : d.n < p.n => d \in accepted
  BY DEF InOrderInv, TakenInOrder
<1>2. UNCHANGED <<processed, rows>> => RowIsNewest'
  BY DEF InOrderInv, RowIsNewest
<1>3. CASE Begin(h)
  <2>1. /\ Unsettled(h) /\ work'[h].pc = "look" /\ work'[h].ev = work[h].ev
        /\ UNCHANGED <<stripeVars, accepted, recorded, processed, rows>>
    BY <1>0, <1>3 DEF Begin, Unsettled, Work
  <2>. QED
    BY <1>1, <1>2, <2>1, RequestInOrder DEF Unsettled, stripeVars
<1>4. CASE Look(h)
  <2>1. Unsettled(h)
    BY <1>4 DEF Look, Unsettled
  <2>2. <<CurrentState, Target(work[h].ev)>> \in Allowed
    BY <2>1, EdgeExists
  <2>3. /\ work'[h].pc = "write" /\ work'[h].ev = work[h].ev
        /\ UNCHANGED <<stripeVars, accepted, recorded, processed, rows>>
    BY <1>0, <1>4, <2>2 DEF Look, Work
  <2>. QED
    BY <1>1, <1>2, <2>1, <2>3, RequestInOrder DEF Unsettled, stripeVars
<1>5. CASE Write(h)
  <2> DEFINE e == work[h].ev
  <2>1. /\ Unsettled(h) /\ e.sub \in Sub
        /\ work'[h].pc \in {"publish", "reply"} /\ work'[h].ev = e
        /\ processed' = processed \cup {e}
        /\ rows' = [rows EXCEPT ![e.sub] =
                      [status |-> Target(e), end |-> e.end, at |-> work[h].at]]
        /\ UNCHANGED <<stripeVars, accepted, recorded>>
    <3>1. Unsettled(h)
      BY <1>5 DEF Write, Unsettled
    <3>2. e.sub \in Sub
      BY <1>0, <3>1, EdgeExists DEF Event
    <3>. QED
      BY <1>0, <1>5, <3>1, <3>2 DEF Write, Goto, Work
  <2>2. e \in Event /\ \A q \in processed : q.n <= e.n
    BY <1>0, <2>1, EdgeExists
  <2> HIDE DEF e
  <2>3. RowIsNewest'
    <3>1. rows'[e.sub].status = Target(e)
      BY <1>0, <2>1
    <3>2. e \in processed' /\ \A q \in processed' : q.n <= e.n
      BY <2>1, <2>2 DEF Event
    <3>. QED
      BY <3>1, <3>2 DEF RowIsNewest
  <2>. QED
    BY <1>1, <2>1, <2>3, RequestInOrder DEF Unsettled, stripeVars, e
<1>6. CASE Publish(h)
  <2>1. /\ work[h].pc = "publish" /\ work'[h].pc = "reply"
        /\ work'[h].ev = work[h].ev
        /\ UNCHANGED <<stripeVars, accepted, recorded, processed, rows>>
    BY <1>0, <1>6 DEF Publish, Goto, Work
  <2>. QED
    BY <1>1, <1>2, <2>1, RequestInOrder DEF Unsettled, stripeVars
<1>7. CASE Reply(h)
  <2>1. /\ work[h].pc = "reply" /\ work'[h].pc = "idle"
        /\ accepted' = accepted \cup {work[h].ev}
        /\ UNCHANGED <<stripeVars, recorded, processed, rows>>
    BY <1>0, <1>7 DEF Reply, Idle
  <2>. QED
    BY <1>1, <1>2, <2>1, RequestInOrder DEF Unsettled, stripeVars
<1>8. ~ Refuse(h)
  BY <1>1 DEF Refuse
<1>. QED
  BY <1>3, <1>4, <1>5, <1>6, <1>7, <1>8 DEF Handle

LEMMA StepInOrder ==
    ASSUME InOrder, PaymentInv, InOrderInv, [Next]_vars
    PROVE  InOrderInv'
<1>1. CASE \E s \in Sub : Subscribe(s) \/ Settle(s) \/ Renew(s) \/ Cancel(s)
  BY <1>1, StripeInOrder
<1>2. ASSUME NEW h \in Handler PROVE ~ Abort(h)
  BY DEF InOrder, Abort, Fault
<1>3. CASE \E h \in Handler : Handle(h) \/ \E e \in sent : Receive(h, e)
  BY <1>3, HandleInOrder, ReceiveInOrder
<1>4. CASE Mirror \/ Restart \/ Login \/ Tick \/ UNCHANGED vars
  BY <1>4, InOrderKept
     DEF Mirror, Restart, Login, LoginRead, LoginAsk, LoginWrite, Tick, vars
<1>. QED
  BY <1>1, <1>2, <1>3, <1>4 DEF Next

\* Events that come in order, one at a time, to requests that do not die keep
\* InOrderInv, however many changes Stripe makes and however many events a
\* change sends.
THEOREM InOrderInvariant ==
    ASSUME InOrder
    PROVE  Spec => []InOrderInv
<1>1. Init => InOrderInv
  BY DEF Init, InOrderInv, ChangesTold, TakenInOrder, RowIsNewest, Unsettled,
         Idle, NoRow
<1>. QED
  BY <1>1, StepInOrder, PaymentInvariant, PTL DEF Spec

LEMMA NewestIsStripes ==
    ASSUME InOrder, PaymentInv, InOrderInv, Settled, NEW s \in Sub
    PROVE  IF stripe[s].status = "none" THEN rows[s].status = "none"
           ELSE rows[s].status = Image(stripe[s].status)
<1>1. /\ processed = sent /\ \A r \in Sub : r = s
      /\ changes \in Nat /\ sent \subseteq Event
  BY PaymentAssumption DEF Settled, InOrder, InOrderInv, TakenInOrder, PaymentInv, TypeOK
<1>2. CASE changes = 0
  <2>1. sent = {} /\ stripe[s].status = "none"
    BY <1>2 DEF InOrderInv, ChangesTold
  <2>. QED
    BY <1>1, <2>1 DEF InOrderInv, RowIsNewest
<1>3. CASE changes # 0
  <2>1. PICK d \in sent : d.n = changes
    BY <1>1, <1>3 DEF InOrderInv, ChangesTold
  <2>2. PICK p \in sent : /\ \A q \in sent : q.n <= p.n
                          /\ rows[p.sub].status = Target(p)
    BY <1>1, <2>1 DEF InOrderInv, RowIsNewest
  <2>3. p.n = changes /\ p.sub = s
    BY <1>1, <2>1, <2>2 DEF InOrderInv, ChangesTold, Event
  <2>4. stripe[s].status # "none" /\ Target(p) = Image(stripe[s].status)
    BY <1>3, <2>3 DEF InOrderInv, ChangesTold
  <2>. QED
    BY <2>2, <2>3, <2>4
<1>. QED
  BY <1>2, <1>3

\* Once Stripe got an answer to all it sent, the row of a subscription is
\* where Stripe has the subscription: when the customer has one subscription,
\* paid from its start, and its events come in order, one request at a time,
\* none of which dies (InOrder); however many changes, days, lost
\* announcements and logins there are.
THEOREM InOrderRowsFollow ==
    ASSUME InOrder
    PROVE  Spec => []RowFollowsStripe
<1>1. PaymentInv /\ InOrderInv => RowFollowsStripe
  <2> SUFFICES ASSUME PaymentInv, InOrderInv, Settled, NEW s \in Sub
               PROVE  IF stripe[s].status = "none" THEN rows[s].status = "none"
                      ELSE \/ rows[s].status = Image(stripe[s].status)
                           \/ rows[s].status = "REACTIVATED"
                              /\ stripe[s].status = "active"
    BY Zenon DEF RowFollowsStripe
  <2> QED
    BY NewestIsStripes
<1>. QED
  BY <1>1, InOrderInvariant, PaymentInvariant, PTL

-----------------------------------------------------------------------------
(* The two services implement Entitlement.                                 *)

LEMMA DatedStep ==
    ASSUME PaymentInv, RowsDated, [Next]_vars
    PROVE  RowsDated'
<1>0. /\ work \in [Handler -> Work] /\ rows \in [Sub -> Row] /\ begun \in Nat
      /\ \A h \in Handler : work[h].at \in Nat
      /\ \A s \in Sub : rows[s].at \in Nat
  BY DEF PaymentInv, TypeOK, Work, Row
<1>1. ASSUME UNCHANGED <<rows, begun, work>> PROVE RowsDated'
  BY <1>1 DEF RowsDated
<1>2. ASSUME UNCHANGED <<rows, begun>>,
             \A k \in Handler : work'[k].at \in {0, work[k].at}
      PROVE  RowsDated'
  BY <1>0, <1>2 DEF RowsDated
<1>3. CASE \E s \in Sub : Subscribe(s) \/ Settle(s) \/ Renew(s) \/ Cancel(s)
  BY <1>1, <1>3 DEF Subscribe, Settle, Renew, Cancel, Change, webhookVars
<1>4. ASSUME NEW h \in Handler, Begin(h) PROVE RowsDated'
  <2>1. /\ begun' = begun + 1 /\ UNCHANGED rows /\ work'[h].at = begun + 1
        /\ \A k \in Handler \ {h} : work'[k] = work[k]
    BY <1>0, <1>4 DEF Begin, Work
  <2>. QED
    BY <1>0, <2>1 DEF RowsDated
<1>5. ASSUME NEW h \in Handler, Look(h) \/ Refuse(h) \/ Publish(h) \/ Reply(h) \/ Abort(h)
      PROVE  RowsDated'
  <2>1. UNCHANGED <<rows, begun>>
    BY <1>5 DEF Look, Refuse, Publish, Reply, Abort
  <2>2. \A k \in Handler : work'[k].at \in {0, work[k].at}
    <3>1. ASSUME Look(h) PROVE \A k \in Handler : work'[k].at = work[k].at
      BY <1>0, <3>1 DEF Look, Goto, Work
    <3>2. ASSUME Refuse(h) PROVE \A k \in Handler : work'[k].at = work[k].at
      BY <1>0, <3>2 DEF Refuse, Goto, Work
    <3>3. ASSUME Publish(h) PROVE \A k \in Handler : work'[k].at = work[k].at
      BY <1>0, <3>3 DEF Publish, Goto, Work
    <3>4. ASSUME Reply(h) \/ Abort(h) PROVE \A k \in Handler : work'[k].at \in {0, work[k].at}
      BY <1>0, <3>4 DEF Reply, Abort, Idle, Work
    <3>. QED
      BY <1>5, <3>1, <3>2, <3>3, <3>4
  <2>. QED
    BY <1>2, <2>1, <2>2
<1>6. ASSUME NEW h \in Handler, NEW e \in sent, Receive(h, e) PROVE RowsDated'
  BY <1>0, <1>2, <1>6 DEF Receive, Idle
<1>7. ASSUME NEW h \in Handler, Write(h) PROVE RowsDated'
  <2> DEFINE e == work[h].ev
  <2>1. /\ begun' = begun
        /\ rows' = [rows EXCEPT ![e.sub] =
                      [status |-> Target(e), end |-> e.end, at |-> work[h].at]]
        /\ \A k \in Handler : work'[k].at = work[k].at
    BY <1>0, <1>7 DEF Write, Goto, Work
  <2>2. \A s \in Sub : rows'[s].at \in {rows[s].at, work[h].at}
    BY <1>0, <2>1
  <2>. QED
    BY <1>0, <2>1, <2>2 DEF RowsDated
<1>8. CASE Mirror \/ Restart \/ Login \/ Tick \/ UNCHANGED vars
  BY <1>1, <1>8
  DEF Mirror, Restart, Login, LoginRead, LoginAsk, LoginWrite, Tick, vars, webhookVars
<1>. QED
  BY <1>3, <1>4, <1>5, <1>6, <1>7, <1>8 DEF Next, Handle

\* Rows and requests are dated with transactions that have begun.
THEOREM RowsAreDated == Spec => []RowsDated
<1>1. Init => RowsDated
  BY DEF Init, RowsDated, NoRow, Idle
<1>. QED
  BY <1>1, DatedStep, PaymentInvariant, PTL DEF Spec

\* Of some numbers up to n one is the greatest.
LEMMA GreatestOf ==
    ASSUME NEW n \in Nat, NEW S \in SUBSET (0 .. n), S # {}
    PROVE  \E x \in S : \A y \in S : y <= x
<1> DEFINE R == {p \in Nat \X Nat : p[1] < p[2]}
           T == {n - x : x \in S}
<1>1. IsWellFoundedOn(R, Nat)
  BY NatLessThanWellFounded DEF OpToRel
<1>2. \A x, y \in Nat : <<x, y>> \in R <=> x < y
  OBVIOUS
<1>3. T \subseteq Nat /\ T # {}
  <2>1. \A x \in S : n - x \in Nat
    OBVIOUS
  <2>. QED
    BY <2>1
<1>4. PICK t \in T : \A y \in T : ~ (<<y, t>> \in R)
  <2> HIDE DEF R, T
  <2>. QED
    BY <1>1, <1>3, WFMin
<1>5. PICK x \in S : t = n - x
  OBVIOUS
<1>6. ASSUME NEW y \in S PROVE y <= x
  <2>1. n - y \in T /\ n - y \in Nat /\ t \in Nat
    BY <1>3
  <2>2. ~ (n - y < t)
    BY <1>2, <1>4, <2>1
  <2>. QED
    BY <1>5, <2>2
<1>. QED
  BY <1>6

\* The state machine runs from the state of some row.
LEMMA CurrentIsARow ==
    ASSUME PaymentInv, RowsDated, NEW z \in Sub
    PROVE  \E s \in Sub :
             CurrentState = IF rows[s].status = "none" THEN "INACTIVE"
                            ELSE rows[s].status
<1> DEFINE have == {s \in Sub : rows[s].status # "none"}
<1>1. CASE have = {}
  <2>1. Latest = NoRow
    BY <1>1 DEF Latest
  <2>. QED
    BY <1>1, <2>1 DEF CurrentState, NoRow
<1>2. CASE have # {}
  <2> DEFINE t == CHOOSE s \in have : \A r \in have : rows[r].at <= rows[s].at
             S == {rows[s].at : s \in have}
  <2>1. S \subseteq 0 .. begun /\ S # {} /\ begun \in Nat
    <3>1. \A s \in Sub : rows[s].at \in Nat /\ rows[s].at <= begun /\ begun \in Nat
      BY DEF PaymentInv, TypeOK, Row, RowsDated
    <3>. QED
      BY <1>2, <3>1
  <2>2. \E s \in have : \A r \in have : rows[r].at <= rows[s].at
    <3>1. PICK x \in S : \A y \in S : y <= x
      BY <2>1, GreatestOf
    <3>. QED
      BY <3>1
  <2>3. t \in have
    BY <2>2
  <2>4. Latest = rows[t]
    BY <1>2 DEF Latest
  <2> HIDE DEF t
  <2>5. rows[t].status # "none" /\ t \in Sub
    BY <2>3
  <2>. QED
    BY <2>4, <2>5 DEF CurrentState
<1>. QED
  BY <1>1, <1>2

Plan == [s \in Sub |-> [status |-> rows[s].status, end |-> rows[s].end]]
Says == [e \in Event |-> Target(e)]

\* Requests that move on to neither judgement only forget judgements.
LEMMA NoJudgement ==
    ASSUME \A k \in Handler :
             work'[k].pc \in {"write", "refuse"} =>
               work'[k].pc = work[k].pc /\ work'[k].ev = work[k].ev,
           UNCHANGED <<recorded, processed, rows, mirror, now>>
    PROVE  Promise!Next
<1>1. /\ EventsAt("write")' \subseteq EventsAt("write")
      /\ EventsAt("refuse")' \subseteq EventsAt("refuse")
  BY DEF EventsAt
<1>2. Promise!Forget
  BY <1>1 DEF Promise!Forget
<1>. QED
  BY <1>2 DEF Promise!Next

\* A request that moves to or from a judgement adds its event to the events at
\* that stage, or takes it from them.
LEMMA Judged ==
    ASSUME PaymentInv, NEW h \in Handler, NEW stage \in Stages,
           Moved(work, work', h, stage), Unsettled(h), NEW x \in {"write", "refuse"}
    PROVE  EventsAt(x)' = IF stage = x THEN EventsAt(x) \cup {work[h].ev}
                          ELSE EventsAt(x) \ {work[h].ev}
<1>1. /\ \A k \in Handler : work'[k].ev = work[k].ev
      /\ \A k \in Handler \ {h} : work'[k].pc = work[k].pc
      /\ work'[h].pc = stage
  BY DEF Moved
<1>2. \A k \in Handler : work[k].pc = x /\ work[k].ev = work[h].ev => k = h
  BY DEF PaymentInv, EventsOnce, Unsettled
<1>. QED
  BY <1>1, <1>2 DEF EventsAt

LEMMA NotJudged ==
    ASSUME PaymentInv, NEW h \in Handler, Unsettled(h), NEW x \in {"write", "refuse"},
           work[h].pc # x
    PROVE  work[h].ev \notin EventsAt(x)
BY DEF PaymentInv, EventsOnce, Unsettled, EventsAt

LEMMA LookEntitled ==
    ASSUME PaymentInv, RowsDated, NEW h \in Handler, Look(h)
    PROVE  Promise!Next
<1>0. PICK e : e = work[h].ev
  OBVIOUS
<1>1. /\ Unsettled(h) /\ e \in Event /\ e.sub \in Sub /\ e \in recorded
      /\ e \notin processed /\ e \notin EventsAt("write") /\ e \notin EventsAt("refuse")
      /\ work \in [Handler -> Work]
  <2>1. work[h].pc = "look" /\ Unsettled(h)
    BY DEF Look, Unsettled
  <2>2. e \in recorded /\ e \notin processed /\ e \in Event /\ work \in [Handler -> Work]
    BY <1>0, <2>1 DEF PaymentInv, TypeOK, EventsOnce
  <2>3. e \notin EventsAt("write") /\ e \notin EventsAt("refuse")
    BY <1>0, <2>1, NotJudged
  <2>4. e.sub \in Sub
    BY <2>2 DEF Event
  <2>. QED
    BY <2>1, <2>2, <2>3, <2>4
<1>2. UNCHANGED <<recorded, processed, rows, mirror, now>>
  BY DEF Look, authVars
<1>3. PICK s \in Sub :
        CurrentState = IF rows[s].status = "none" THEN "INACTIVE"
                       ELSE rows[s].status
  BY <1>1, CurrentIsARow
<1>4. Promise!Standing(s) = CurrentState /\ Says[e] = Target(e)
  BY <1>1, <1>3 DEF Promise!Standing, Says
<1>5. IF <<CurrentState, Target(e)>> \in Allowed
      THEN /\ EventsAt("write")' = EventsAt("write") \cup {e}
           /\ EventsAt("refuse")' = EventsAt("refuse")
      ELSE /\ EventsAt("refuse")' = EventsAt("refuse") \cup {e}
           /\ EventsAt("write")' = EventsAt("write")
  <2>1. CASE <<CurrentState, Target(e)>> \in Allowed
    <3>1. CurrentState \in State /\ "write" \in Stages
      BY <2>1, AllowedStates DEF Stages
    <3>2. work' = [work EXCEPT ![h].pc = "write", ![h].from = CurrentState]
      BY <1>0, <2>1 DEF Look
    <3>3. Moved(work, work', h, "write")
      BY <1>1, <3>1, <3>2, MoveTypes
    <3>. QED
      BY <1>0, <1>1, <2>1, <3>1, <3>3, Judged
  <2>2. CASE <<CurrentState, Target(e)>> \notin Allowed
    <3>1. Moved(work, work', h, "refuse") /\ "refuse" \in Stages
      BY <1>0, <1>1, <2>2, MoveTypes DEF Look, Goto, Stages
    <3>. QED
      BY <1>0, <1>1, <2>2, <3>1, Judged
  <2>. QED
    BY <2>1, <2>2
<1>6. Promise!Judge(e)
  BY <1>1, <1>2, <1>4, <1>5 DEF Promise!Judge, Says
<1>. QED
  BY <1>1, <1>6 DEF Promise!Next

LEMMA RefuseEntitled ==
    ASSUME PaymentInv, NEW h \in Handler, Refuse(h)
    PROVE  Promise!Next
<1>0. PICK e : e = work[h].ev
  OBVIOUS
<1>1. /\ Unsettled(h) /\ e \in recorded /\ e \notin processed
      /\ e \in EventsAt("refuse") /\ e \notin EventsAt("write")
      /\ work \in [Handler -> Work]
  BY <1>0, NotJudged DEF PaymentInv, TypeOK, EventsOnce, Unsettled, Refuse, EventsAt
<1>2. /\ processed' = processed \cup {e}
      /\ UNCHANGED <<recorded, rows, mirror, now>>
  BY <1>0 DEF Refuse, authVars
<1>3. Moved(work, work', h, "reply") /\ "reply" \in Stages
  BY <1>1, MoveTypes DEF Refuse, Goto, Stages
<1>4. /\ EventsAt("refuse")' = EventsAt("refuse") \ {e}
      /\ EventsAt("write")' = EventsAt("write")
  BY <1>0, <1>1, <1>3, Judged
<1>5. Promise!Refuse(e)
  BY <1>1, <1>2, <1>4 DEF Promise!Refuse
<1>. QED
  BY <1>1, <1>5 DEF Promise!Next

LEMMA WriteEntitled ==
    ASSUME PaymentInv, NEW h \in Handler, Write(h)
    PROVE  Promise!Next
<1>0. PICK e : e = work[h].ev
  OBVIOUS
<1> DEFINE Planned == [status |-> Says[e], end |-> e.end]
<1>1. /\ Unsettled(h) /\ e \in Event /\ e.sub \in Sub /\ e \in recorded
      /\ e \notin processed /\ rows \in [Sub -> Row]
      /\ e \in EventsAt("write") /\ e \notin EventsAt("refuse")
      /\ work \in [Handler -> Work]
  BY <1>0, NotJudged DEF PaymentInv, TypeOK, EventsOnce, Unsettled, Write, Event, EventsAt
<1>2. /\ rows' = [rows EXCEPT ![e.sub] =
                    [status |-> Target(e), end |-> e.end, at |-> work[h].at]]
      /\ processed' = processed \cup {e}
      /\ UNCHANGED <<recorded, mirror, now>>
  BY <1>0 DEF Write, authVars
<1>3. Says[e] = Target(e)
  BY <1>1 DEF Says
<1>4. Plan' = [Plan EXCEPT ![e.sub] = Planned]
  BY <1>1, <1>2, <1>3 DEF Plan
<1>5. \E stage \in {"publish", "reply"} : Moved(work, work', h, stage)
  BY <1>1, MoveTypes DEF Write, Goto, Stages
<1>6. /\ EventsAt("write")' = EventsAt("write") \ {e}
      /\ EventsAt("refuse")' = EventsAt("refuse")
  BY <1>0, <1>1, <1>5, Judged DEF Stages
<1>7. Promise!Apply(e)
  BY <1>1, <1>2, <1>4, <1>6 DEF Promise!Apply, Plan, Says
<1>. QED
  BY <1>1, <1>7 DEF Promise!Next

LEMMA MirrorEntitled ==
    ASSUME PaymentInv, Mirror
    PROVE  Promise!Next
<1>1. inbox \in Seq(Message) /\ inbox # <<>> /\ Len(inbox) >= 1 /\ now \in Nat
  BY DEF Mirror, PaymentInv, TypeOK
<1>2. UNCHANGED <<recorded, processed, rows, now>> /\ UNCHANGED Promise!judged
  BY DEF Mirror, webhookVars, EventsAt, Promise!judged
<1>3. PICK e \in processed : Head(inbox) = [state |-> Target(e), end |-> e.end]
  <2>1. Announced(inbox[1]) /\ Head(inbox) = inbox[1]
    BY <1>1 DEF PaymentInv, EndsReported
  <2>. QED
    BY <2>1 DEF Announced
<1>4. e \in Event /\ Says[e] = Target(e)
  BY DEF PaymentInv, TypeOK, Says
<1>5. mirror' = PremiumUntil(Head(inbox), now)
  BY DEF Mirror
<1>6. CASE Target(e) \in Paying \cup {"CANCELED"} /\ mirror' = e.end
  BY <1>2, <1>4, <1>6 DEF Promise!Next, Promise!Grant, Says, Paying
<1>7. CASE mirror' = 0
  BY <1>1, <1>2, <1>7 DEF Promise!Next, Promise!WithdrawOrBridge, Provisional
<1>. QED
  BY <1>3, <1>5, <1>6, <1>7 DEF PremiumUntil

LEMMA StepEntitled ==
    ASSUME PaymentInv, RowsDated, [Next]_vars
    PROVE  [Promise!Next]_(Promise!entitlementVars)
<1> SUFFICES Promise!Next \/ UNCHANGED Promise!entitlementVars
  OBVIOUS
<1>1. /\ UNCHANGED work => UNCHANGED Promise!judged
      /\ UNCHANGED <<recorded, processed, rows, mirror, now, work>> =>
           UNCHANGED Promise!entitlementVars
  BY DEF Promise!entitlementVars, Promise!judged, EventsAt
<1>2. CASE \E s \in Sub : Subscribe(s) \/ Settle(s) \/ Renew(s) \/ Cancel(s)
  BY <1>1, <1>2 DEF Subscribe, Settle, Renew, Cancel, Change, webhookVars, authVars
<1>3. ASSUME NEW h \in Handler, Begin(h) \/ Publish(h) \/ Reply(h) \/ Abort(h)
      PROVE  Promise!Next
  <2>1. \A k \in Handler : work'[k].pc \in {"write", "refuse"} =>
          work'[k].pc = work[k].pc /\ work'[k].ev = work[k].ev
    <3>1. work \in [Handler -> Work]
      BY DEF PaymentInv, TypeOK
    <3>2. /\ \A k \in Handler \ {h} : work'[k] = work[k]
          /\ work'[h].pc \in {"look", "reply", "idle"}
      <4>1. CASE Begin(h)
        BY <3>1, <4>1 DEF Begin, Work
      <4>2. CASE Publish(h)
        BY <3>1, <4>2 DEF Publish, Goto, Work
      <4>3. CASE Reply(h) \/ Abort(h)
        BY <3>1, <4>3 DEF Reply, Abort, Idle
      <4>. QED
        BY <1>3, <4>1, <4>2, <4>3
    <3>. QED
      BY <3>2
  <2>. QED
    BY <1>3, <2>1, NoJudgement DEF Begin, Publish, Reply, Abort, authVars
<1>4. ASSUME NEW h \in Handler, NEW e \in sent, Receive(h, e) PROVE Promise!Next
  <2>1. recorded \subseteq recorded' /\ UNCHANGED <<processed, rows, mirror, now>>
    BY <1>4 DEF Receive, authVars
  <2>2. /\ work[h].pc = "idle" /\ work'[h].pc \in {"reply", "begin"}
        /\ \A k \in Handler \ {h} : work'[k] = work[k]
    BY <1>4 DEF Receive, Idle, PaymentInv, TypeOK
  <2>3. EventsAt("write")' = EventsAt("write") /\ EventsAt("refuse")' = EventsAt("refuse")
    BY <2>2 DEF EventsAt
  <2>4. Promise!Tell
    BY <2>1, <2>3 DEF Promise!Tell, Promise!judged
  <2>. QED
    BY <2>4 DEF Promise!Next
<1>5. CASE \E h \in Handler : Look(h) \/ Write(h) \/ Refuse(h)
  BY <1>5, LookEntitled, WriteEntitled, RefuseEntitled
<1>6. CASE Mirror
  BY <1>6, MirrorEntitled
<1>7. CASE Restart \/ LoginRead \/ LoginAsk \/ UNCHANGED vars
  BY <1>1, <1>7 DEF Restart, LoginRead, LoginAsk, vars, webhookVars, authVars
<1>8. CASE LoginWrite
  <2>1. /\ mirror' = login.until /\ login.until <= now + Provisional
        /\ UNCHANGED <<recorded, processed, rows, now>> /\ UNCHANGED Promise!judged
    BY <1>1, <1>8 DEF LoginWrite, PaymentInv, EndsReported, webhookVars
  <2>2. Promise!WithdrawOrBridge
    BY <2>1 DEF Promise!WithdrawOrBridge
  <2>. QED
    BY <2>2 DEF Promise!Next
<1>9. CASE Tick
  <2>1. Promise!NextDay
    BY <1>1, <1>9 DEF Tick, Promise!NextDay, webhookVars, authVars
  <2>. QED
    BY <2>1 DEF Promise!Next
<1>. QED
  BY <1>2, <1>3, <1>4, <1>5, <1>6, <1>7, <1>8, <1>9 DEF Next, Handle, Login

\* The webhook, the announcements, the mirror and the login together keep the
\* promises of Entitlement, whatever is posted again, overtaken, lost or cut off.
THEOREM ImplementsEntitlement == Spec => IsEntitlement
<1>1. Init => Promise!Init
  BY DEF Init, Promise!Init, NoRow, Idle, EventsAt
<1>. QED
  BY <1>1, StepEntitled, PaymentInvariant, RowsAreDated, PTL
  DEF Spec, IsEntitlement, Promise!Spec

=============================================================================
