----------------------------- MODULE QuizInvariant -----------------------------
(***************************************************************************)
(* The inductive invariants of QuizSession: what is known of a request     *)
(* that sits between two store calls with values it read earlier.          *)
(***************************************************************************)
EXTENDS QuizPromises

\* Nothing runs on a session that has not been created.
BeforeStart ==
    status = "NONE" =>
        /\ served = 0 /\ target = 0
        /\ seedQueue = <<>> /\ seedNext = 0
        /\ \A r \in Requests : pc[r] = "idle"

\* The seeding loop never overtakes the rows and ends at the target.
SeedBehind ==
    /\ seedNext <= served
    /\ seedNext + Len(seedQueue) <= target

\* A served_count read earlier is stale only downwards.
ReadBehind == \A r \in Requests : seen[r].served <= served

\* /next has tested the target before it picks, and its index is a row that
\* exists or the very next one.
ServeInRange ==
    \A r \in Requests :
        /\ pc[r] = "pick" => seen[r].served < target
        /\ pc[r] = "serve" =>
             /\ work[r].idx <= served /\ work[r].idx < target
             /\ work[r].q \in Bank
        /\ pc[r] \in {"pick", "serve"} => mode \notin PreServed

\* Only served rows are answered, and an answer being recorded has a verdict.
AnswersServed ==
    /\ \A i \in Idx : items[i].q = NoQuestion => items[i].ans = "none"
    /\ \A r \in Requests :
         pc[r] = "record" =>
             /\ items[work[r].idx].q # NoQuestion
             /\ work[r].ans \in Verdicts

IInv ==
    /\ TypeOK
    /\ BeforeStart /\ SeedBehind /\ ReadBehind /\ ServeInRange
    /\ ServedIsPrefix
    /\ AnswersServed /\ ScoreIsExact

-----------------------------------------------------------------------------
(* Replies and events: what a request carries of the rows stays behind     *)
(* them.                                                                   *)

Closed == {"SUBMITTED", "EXPIRED"}

\* Only answered items are timed.
TimedAnswered == \A i \in Idx : items[i].timed => items[i].ans # "none"

\* The snapshot of an answer is recorded, and so is the verdict it is
\* answered with.
AnswerHeld(r) ==
    /\ pc[r] = "record" => work[r].snap \in {"none", items[work[r].idx].ans}
    /\ pc[r] = "answered" =>
         work[r].ans \in Verdicts /\ items[work[r].idx].ans = work[r].ans

\* A submit past its UPDATE is on a closed session, and what it has read for
\* its event is behind the session.
DraftHeld(r) ==
    /\ pc[r] \in {"durations", "reload"} => status \in Closed
    /\ pc[r] \in {"load", "publish"} => draft[r].status \in Closed
    /\ draft[r].served <= served /\ draft[r].correct <= correct
    /\ Lags(draft[r].items) /\ Covers(draft[r].items, draft[r].served, draft[r].correct)

HeldInv ==
    /\ TimedAnswered
    /\ \A r \in Requests : AnswerHeld(r) /\ DraftHeld(r)
    /\ EventsAreTrue

-----------------------------------------------------------------------------
(* Questions: one about to be inserted in a new row is not in the session. *)

\* Only lists are seeded, and what is left of an assignment's list neither
\* repeats nor meets the rows.
SeedFresh ==
    /\ seedQueue # <<>> => mode \in PreServed \cup {"PRACTICE"}
    /\ mode = "ASSIGNMENT" =>
         \A j, k \in 1..Len(seedQueue) :
             /\ seedQueue[j] \notin AskedQs
             /\ seedQueue[j] = seedQueue[k] => j = k

PickFresh ==
    ~MayRepeat =>
        \A r \in Requests :
            pc[r] = "serve" /\ work[r].idx = served => work[r].q \notin AskedQs

FreshInv == SeedFresh /\ PickFresh /\ NoQuestionTwice

-----------------------------------------------------------------------------
(* A client with one request in flight: what the request has read is what  *)
(* the session has.                                                        *)

OneRequest == \A r, x \in Requests : r = x

ThetaInv ==
    /\ ThetaCoversAnswers
    /\ \A r \in Requests :
         pc[r] \in {"answer", "record"} => seen[r].theta = theta

\* Without replays no index moves under a /next.
ShownInv ==
    /\ seedQueue # <<>> => mode \in PreServed
    /\ \A r \in Requests :
         /\ pc[r] \in {"look", "pick"} /\ mode \notin PreServed =>
              seen[r].served = served
         /\ pc[r] = "serve" => work[r].idx = served
         /\ pc[r] = "shown" => work[r].q # NoQuestion
    /\ NextShowsRecordedRow

=============================================================================
