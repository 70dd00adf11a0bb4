----------------------------- MODULE Entitlement -----------------------------
(***************************************************************************)
(* What the payment and the auth service together promise a customer,      *)
(* whatever is lost, doubled, late or raced between them: an event of      *)
(* Stripe is settled once, after it was judged against the standing that   *)
(* the customer had at some time: along an edge of the state machine it    *)
(* moves the row of its subscription to where it says, otherwise it leaves *)
(* the rows alone; and premium lasts until the end of a period that a      *)
(* settled event says is paid for, or for a day at most.                   *)
(***************************************************************************)
EXTENDS Integers

CONSTANTS Sub,      \* subscriptions
          Effect,   \* event -> the state it says its subscription is in
          Edges,    \* the state machine
          Bridge    \* for how many days premium lasts without an event

VARIABLES told,     \* the events Stripe told of
          cleared,  \* those judged to have an edge, and about to be applied
          barred,   \* those judged to have none, and about to be refused
          settled,  \* those that were dealt with
          plan,     \* the row of each subscription
          until,    \* the end of premium
          today

judged == <<cleared, barred>>
entitlementVars == <<told, judged, settled, plan, until, today>>

Init ==
    /\ told = {} /\ cleared = {} /\ barred = {} /\ settled = {}
    /\ plan = [s \in Sub |-> [status |-> "none", end |-> 0]]
    /\ until = 0
    /\ today = 1

Tell ==
    /\ told \subseteq told'
    /\ UNCHANGED <<judged, settled, plan, until, today>>

\* Who has no row yet is inactive.
Standing(s) == IF plan[s].status = "none" THEN "INACTIVE" ELSE plan[s].status

\* An event is judged by how the customer stands now, with one subscription or
\* another.
Judge(e) ==
    /\ e \notin settled \cup cleared \cup barred
    /\ \E s \in Sub :
         IF <<Standing(s), Effect[e]>> \in Edges
         THEN cleared' = cleared \cup {e} /\ barred' = barred
         ELSE barred' = barred \cup {e} /\ cleared' = cleared
    /\ UNCHANGED <<told, settled, plan, until, today>>

\* A judgement may come to nothing.
Forget ==
    /\ cleared' \subseteq cleared /\ barred' \subseteq barred
    /\ UNCHANGED <<told, settled, plan, until, today>>

\* What was judged is carried out, also when the rows have moved since.
Apply(e) ==
    /\ e \in cleared \ settled
    /\ settled' = settled \cup {e}
    /\ cleared' = cleared \ {e}
    /\ plan' = [plan EXCEPT ![e.sub] = [status |-> Effect[e], end |-> e.end]]
    /\ UNCHANGED <<told, barred, until, today>>

Refuse(e) ==
    /\ e \in barred \ settled
    /\ settled' = settled \cup {e}
    /\ barred' = barred \ {e}
    /\ UNCHANGED <<told, cleared, plan, until, today>>

Grant(e) ==
    /\ Effect[e] \in {"ACTIVE", "REACTIVATED", "PAST_DUE", "CANCELED"}
    /\ until' = e.end
    /\ UNCHANGED <<told, judged, settled, plan, today>>

\* Premium is withdrawn, or bridged while no event has come through.
WithdrawOrBridge ==
    /\ until' <= today + Bridge
    /\ UNCHANGED <<told, judged, settled, plan, today>>

NextDay ==
    /\ today' = today + 1
    /\ UNCHANGED <<told, judged, settled, plan, until>>

Next ==
    \/ Tell \/ Forget \/ WithdrawOrBridge \/ NextDay
    \/ \E e \in told : Judge(e) \/ Apply(e) \/ Refuse(e)
    \/ \E e \in settled : Grant(e)

Spec == Init /\ [][Next]_entitlementVars

=============================================================================
