--------------------------- MODULE SessionLedger ---------------------------
(***************************************************************************)
(* What the analytics service promises about the quiz sessions a student   *)
(* submits: a session is booked at most once, and when it is booked its    *)
(* score enters the mastery row of its topic, the readiness row is the     *)
(* average of exactly those mastery rows, and one day is credited, all in  *)
(* one step.  SessionPipeline is the machinery (at-least-once messages, a  *)
(* transaction of a dozen statements, crashes) that has to keep it.        *)
(***************************************************************************)
EXTENDS Naturals

CONSTANTS Session,     \* the quiz sessions of one student
          Topic,
          TopicOf,     \* the topic each session is taken on
          MaxDay       \* days are 1 .. MaxDay

Day == 1 .. MaxDay

VARIABLES submitted,   \* sessions closed in the quiz service
          counted,     \* sessions the ledger has booked
          folded,      \* folded[t][s]: how often s entered the average of topic t
          averaged,    \* the mastery rows the readiness score was computed from
          credited     \* credited[s][d]: how often s was added to day d

vars == <<submitted, counted, folded, averaged, credited>>

NoRows == [t \in Topic |-> [s \in Session |-> 0]]

Init ==
    /\ submitted = {}
    /\ counted = {}
    /\ folded = NoRows
    /\ averaged = NoRows
    /\ credited = [s \in Session |-> [d \in Day |-> 0]]

Submit(s) ==
    /\ s \notin submitted
    /\ submitted' = submitted \cup {s}
    /\ UNCHANGED <<counted, folded, averaged, credited>>

Count(s, d) ==
    /\ s \in submitted \ counted
    /\ counted' = counted \cup {s}
    /\ folded' = [folded EXCEPT ![TopicOf[s]][s] = 1]
    /\ averaged' = folded'
    /\ credited' = [credited EXCEPT ![s][d] = 1]
    /\ UNCHANGED submitted

Next == \E s \in Session : Submit(s) \/ \E d \in Day : Count(s, d)

Spec == Init /\ [][Next]_vars
=============================================================================
