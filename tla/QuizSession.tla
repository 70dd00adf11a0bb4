------------------------------ MODULE QuizSession ------------------------------
(***************************************************************************)
(* One quiz session of services/quiz: its row in quiz_sessions, its rows   *)
(* in quiz_session_items, the start handler that seeds it, and the         *)
(* /next, /answers, /submit and GET requests that run on it concurrently.  *)
(*                                                                         *)
(* Every handler is a sequence of store calls, each of them a statement or *)
(* a transaction of its own, with nothing held between two calls.  An      *)
(* action below is one store call together with the local code up to the   *)
(* next one, so the requests interleave exactly where the service lets     *)
(* them.  What a request read earlier stays in seen, work and draft.       *)
(***************************************************************************)
EXTENDS Integers, FiniteSets, Sequences

CONSTANTS
    Requests,    \* slots for HTTP requests in flight; a slot is reused
    Questions,   \* question ids
    Bank,        \* the PUBLISHED questions of the session's topic
    NoQuestion,  \* the question of an item row that does not exist
    Target,      \* svc.target, the target_count of a picked session
    MaxItems,    \* bound: the longest list a session is seeded with
    StartModes,  \* modes POST /quiz/sessions/start is called with
    SeedModes    \* modes of the sessions created with a list of questions

Modes == {"PRACTICE", "MOCK", "ASSIGNMENT", "MOCK_BLUEPRINT"}

ASSUME QuizAssumption ==
    /\ Bank \subseteq Questions
    /\ NoQuestion \notin Questions
    /\ MaxItems \in Nat \ {0}
    /\ Target \in 1..MaxItems
    /\ StartModes \subseteq {"PRACTICE", "MOCK", "ASSIGNMENT"}
    /\ SeedModes \subseteq {"PRACTICE", "ASSIGNMENT", "MOCK_BLUEPRINT"}

VARIABLES
    mode, status, target,    \* quiz_sessions; status "NONE": no row yet
    served, correct,         \* served_count and correct_count
    theta,                   \* ability_estimate: the answers it accounts for
    items,                   \* quiz_session_items, by item_idx
    seedQueue, seedNext,     \* seeding loop: questions left, next item_idx
    late,                    \* the clock has passed expires_at
    pc, seen, work, draft,   \* requests: position and what they have read
    events                   \* quiz.session.completed messages in the stream

row  == <<mode, status, target, served, correct, theta, items>>
seed == <<seedQueue, seedNext>>
vars == <<row, seed, late, pc, seen, work, draft, events>>

-----------------------------------------------------------------------------
Idx      == 0..(MaxItems - 1)
Verdicts == {"right", "wrong"}
Statuses == {"NONE", "IN_PROGRESS", "SUBMITTED", "EXPIRED"}
PreServed == {"ASSIGNMENT", "MOCK_BLUEPRINT"}

\* An item row: its question, is_correct (or "none" while answer_idx is
\* NULL), and whether time_spent_ms has been written.
Row      == [q : Questions \cup {NoQuestion}, ans : Verdicts \cup {"none"},
             timed : BOOLEAN]
NoRow    == [q |-> NoQuestion, ans |-> "none", timed |-> FALSE]
NoRows   == [i \in Idx |-> NoRow]

Served     == {i \in Idx : items[i].q # NoQuestion}
Unanswered == {i \in Served : items[i].ans = "none"}
AskedQs    == {items[i].q : i \in Served}

Seen   == [served : 0..MaxItems, theta : SUBSET Idx]
NoSeen == [served |-> 0, theta |-> {}]
Work   == [idx : Idx, q : Questions \cup {NoQuestion},
           ans : Verdicts \cup {"none"}, snap : Verdicts \cup {"none"}]
NoWork == [idx |-> 0, q |-> NoQuestion, ans |-> "none", snap |-> "none"]

\* What an event tells of an item: is_correct, which is true or false, and
\* whether a time_spent_ms was there.
ItemEvent == [q : Questions \cup {NoQuestion}, right : BOOLEAN, timed : BOOLEAN]
NoItems   == [i \in Idx |-> [q |-> NoQuestion, right |-> FALSE, timed |-> FALSE]]
Event   == [by : Requests, status : Statuses, served : 0..MaxItems,
            correct : 0..MaxItems, items : [Idx -> ItemEvent]]
Draft   == [status : Statuses, served : 0..MaxItems, correct : 0..MaxItems,
            items : [Idx -> ItemEvent]]
NoDraft == [status |-> "NONE", served |-> 0, correct |-> 0, items |-> NoItems]

\* Requests: where a handler that passed loadActive starts, and the rest.
Ops     == {"look", "answer", "submit"}
Replies == {"shown", "done", "answered", "panicked", "closed"}
PCs     == Ops \cup Replies \cup
           {"idle", "expire", "pick", "serve", "record", "durations",
            "reload", "load", "publish"}

Init ==
    /\ mode = "PRACTICE" /\ status = "NONE" /\ target = 0
    /\ served = 0 /\ correct = 0 /\ theta = {}
    /\ items = NoRows
    /\ seedQueue = <<>> /\ seedNext = 0
    /\ late = FALSE
    /\ pc = [r \in Requests |-> "idle"]
    /\ seen = [r \in Requests |-> NoSeen]
    /\ work = [r \in Requests |-> NoWork]
    /\ draft = [r \in Requests |-> NoDraft]
    /\ events = {}

-----------------------------------------------------------------------------
(* Creating the session *)

\* store.ServeQuestion / ServeQuestionWithSection: one transaction that
\* inserts the row ON CONFLICT DO NOTHING and counts it if it was inserted.
ServeQuestion(i, q) ==
    IF items[i].q = NoQuestion
    THEN /\ items' = [items EXCEPT
                       ![i] = [q |-> q, ans |-> "none", timed |-> FALSE]]
         /\ served' = served + 1
    ELSE UNCHANGED <<items, served>>

\* store.CreateSession with the columns that matter here.
CreateSession(m, n) ==
    /\ status = "NONE"
    /\ status' = "IN_PROGRESS"
    /\ mode' = m
    /\ target' = n
    /\ UNCHANGED <<served, correct, theta, items, seedNext, late, pc, seen,
                   work, draft, events>>

\* POST /quiz/sessions/start: a session whose questions are picked later,
\* refused for a topic without published questions.
Start(m) ==
    /\ m \in StartModes
    /\ Bank # {}
    /\ CreateSession(m, Target)
    /\ UNCHANGED seedQueue

\* The lists a session is seeded with.  An assignment has a question once (its
\* key) and so has the mistake history (DISTINCT ON); a paper that is composed
\* of sections may bring one again, in a second section of the same subject.
SeedLists(m) ==
    UNION {{l \in [1..n -> Questions] :
              \/ m = "MOCK_BLUEPRINT"
              \/ \A j, k \in 1..n : l[j] = l[k] => j = k} : n \in 1..MaxItems}

\* from-assignment, from-blueprint and mistake-replay create the row with
\* target_count = len(list), then serve the list one transaction at a time.
StartSeeded(m, list) ==
    /\ m \in SeedModes
    /\ CreateSession(m, Len(list))
    /\ seedQueue' = list

\* Mutant: items are numbered from 1.
SeedServeFromOne ==
    /\ seedQueue # <<>>
    /\ ServeQuestion(seedNext + 1, Head(seedQueue))
    /\ seedQueue' = Tail(seedQueue)
    /\ seedNext' = seedNext + 1
    /\ UNCHANGED <<mode, status, target, correct, theta, late, pc, seen, work,
                   draft, events>>

SeedServe ==
    /\ seedQueue # <<>>
    /\ ServeQuestion(seedNext, Head(seedQueue))
    /\ seedQueue' = Tail(seedQueue)
    /\ seedNext' = seedNext + 1
    /\ UNCHANGED <<mode, status, target, correct, theta, late, pc, seen, work,
                   draft, events>>

\* A failed insert ends the loop with a 500; the session row stays behind.
SeedFail ==
    /\ seedQueue # <<>>
    /\ seedQueue' = <<>>
    /\ UNCHANGED <<row, seedNext, late, pc, seen, work, draft, events>>

\* The 90 minute TTL runs out.
Expiry ==
    /\ status # "NONE" /\ ~late
    /\ late' = TRUE
    /\ UNCHANGED <<row, seed, pc, seen, work, draft, events>>

-----------------------------------------------------------------------------
(* Every request starts in loadActive *)

Goto(r, l) == pc' = [pc EXCEPT ![r] = l]

\* The request is over and its slot is free again.
Leave(r) ==
    /\ Goto(r, "idle")
    /\ seen' = [seen EXCEPT ![r] = NoSeen]
    /\ work' = [work EXCEPT ![r] = NoWork]
    /\ draft' = [draft EXCEPT ![r] = NoDraft]

\* loadActive lets the request through with its copy of the session row.
Admit(r, op) ==
    /\ pc[r] = "idle"
    /\ status = "IN_PROGRESS" /\ ~late
    /\ Goto(r, op)
    /\ seen' = [seen EXCEPT ![r] = [served |-> served, theta |-> theta]]
    /\ UNCHANGED <<row, seed, late, work, draft, events>>

\* loadActive, or the sweep in Get, sees an in-progress row past its TTL.
FindExpired(r) ==
    /\ pc[r] = "idle"
    /\ status = "IN_PROGRESS" /\ late
    /\ Goto(r, "expire")
    /\ UNCHANGED <<row, seed, late, seen, work, draft, events>>

\* store.MarkExpired, guarded by the status in its WHERE; then a 409.
MarkExpired(r) ==
    /\ pc[r] = "expire"
    /\ status' = IF status = "IN_PROGRESS" THEN "EXPIRED" ELSE status
    /\ Leave(r)
    /\ UNCHANGED <<mode, target, served, correct, theta, items, seed, late,
                   events>>

\* A failed store call, a client that hangs up (its context cancels the
\* calls that are left) or a crash ends the request where it stands.
Abandon(r) ==
    /\ pc[r] # "idle"
    /\ Leave(r)
    /\ UNCHANGED <<row, seed, late, events>>

\* The reply has been written.
Finish(r) ==
    /\ pc[r] \in Replies
    /\ Leave(r)
    /\ UNCHANGED <<row, seed, late, events>>

-----------------------------------------------------------------------------
(* GET /next *)

Show(r, i, q) ==
    /\ Goto(r, "shown")
    /\ work' = [work EXCEPT ![r].idx = i, ![r].q = q]

\* Pre-served sessions walk their rows (GetFirstUnansweredItem).  The others
\* stop at the target, else return the item in flight (GetCurrentItem).
NextLook(r) ==
    /\ pc[r] = "look"
    /\ \/ /\ mode \in PreServed /\ Unanswered = {}
          /\ Goto(r, "done") /\ UNCHANGED work
       \/ /\ mode \in PreServed
          /\ \E i \in Unanswered :
               /\ \A j \in Unanswered : i <= j
               /\ Show(r, i, items[i].q)
       \/ /\ mode \notin PreServed /\ seen[r].served >= target
          /\ Goto(r, "done") /\ UNCHANGED work
       \/ /\ mode \notin PreServed /\ seen[r].served < target
          /\ \E i \in Unanswered :
               /\ \A j \in Unanswered : j <= i
               /\ Show(r, i, items[i].q)
       \/ /\ mode \notin PreServed /\ seen[r].served < target
          /\ Unanswered = {}
          /\ Goto(r, "pick") /\ UNCHANGED work
    /\ UNCHANGED <<row, seed, late, seen, draft, events>>

\* Mutant: questions the session has asked are not excluded.
NextPickAny(r) ==
    /\ pc[r] = "pick"
    /\ \E q \in Bank :
         /\ Goto(r, "serve")
         /\ work' = [work EXCEPT ![r].idx = seen[r].served, ![r].q = q]
    /\ UNCHANGED <<row, seed, late, seen, draft, events>>

\* pickNext: every branch picks a published question the session has not
\* asked, and an exhausted bank ends the quiz.
NextPick(r) ==
    /\ pc[r] = "pick"
    /\ \/ /\ Bank \subseteq AskedQs
          /\ Goto(r, "done") /\ UNCHANGED work
       \/ \E q \in Bank \ AskedQs :
            /\ Goto(r, "serve")
            /\ work' = [work EXCEPT ![r].idx = seen[r].served, ![r].q = q]
    /\ UNCHANGED <<row, seed, late, seen, draft, events>>

\* Mutant: the question is shown and not recorded.
NextServeUnrecorded(r) ==
    /\ pc[r] = "serve"
    /\ Goto(r, "shown")
    /\ UNCHANGED <<row, seed, late, seen, work, draft, events>>

\* ServeQuestion at the index read by loadActive; the reply carries the
\* picked question whether or not the insert took place.
NextServe(r) ==
    /\ pc[r] = "serve"
    /\ ServeQuestion(work[r].idx, work[r].q)
    /\ Goto(r, "shown")
    /\ UNCHANGED <<mode, status, target, correct, theta, seed, late, seen,
                   work, draft, events>>

-----------------------------------------------------------------------------
(* POST /answers *)

\* GetItem, GetQuestion and the grader, then RecordAnswer's statement takes
\* its snapshot: snap is what the item holds at that moment.  An item that
\* does not exist, and a grader that is down, end the request (Abandon).
AnswerBegin(r, i, v) ==
    /\ pc[r] = "answer"
    /\ i \in Served
    /\ Goto(r, "record")
    /\ work' = [work EXCEPT ![r] = [idx |-> i, q |-> NoQuestion, ans |-> v,
                                    snap |-> items[i].ans]]
    /\ UNCHANGED <<row, seed, late, seen, draft, events>>

\* Mutants: without answer_idx IS NULL; with the estimate of this answer alone.
FirstWriteOverwriting(r) ==
    LET i == work[r].idx IN
    /\ items' = [items EXCEPT ![i].ans = work[r].ans]
    /\ correct' = IF work[r].ans = "right" THEN correct + 1 ELSE correct
    /\ theta' = seen[r].theta \cup {i}
    /\ Goto(r, "answered")
    /\ UNCHANGED work

FirstWriteForgetting(r) ==
    LET i == work[r].idx IN
    /\ items[i].ans = "none"
    /\ items' = [items EXCEPT ![i].ans = work[r].ans]
    /\ correct' = IF work[r].ans = "right" THEN correct + 1 ELSE correct
    /\ theta' = {i}
    /\ Goto(r, "answered")
    /\ UNCHANGED work

\* RecordAnswer's UPDATE rechecks answer_idx IS NULL on the current row, so
\* the first write wins and bumps the aggregates in the same transaction.
FirstWrite(r) ==
    LET i == work[r].idx IN
    /\ items[i].ans = "none"
    /\ items' = [items EXCEPT ![i].ans = work[r].ans]
    /\ correct' = IF work[r].ans = "right" THEN correct + 1 ELSE correct
    /\ theta' = seen[r].theta \cup {i}
    /\ Goto(r, "answered")
    /\ UNCHANGED work

\* Mutant: the reply is the verdict of this request.
LaterWriteEcho(r) ==
    /\ items[work[r].idx].ans # "none"
    /\ Goto(r, "answered")
    /\ UNCHANGED <<work, items, correct, theta>>

\* A later write changes nothing and replies with the row as the statement's
\* snapshot has it.  When the first write committed after that snapshot, the
\* row still has a NULL is_correct and the handler dereferences nil.
LaterWrite(r) ==
    /\ items[work[r].idx].ans # "none"
    /\ work' = [work EXCEPT ![r].ans = work[r].snap]
    /\ Goto(r, IF work[r].snap = "none" THEN "panicked" ELSE "answered")
    /\ UNCHANGED <<items, correct, theta>>

AnswerCommit(r) ==
    /\ pc[r] = "record"
    /\ FirstWrite(r) \/ LaterWrite(r)
    /\ UNCHANGED <<mode, status, target, served, seed, late, seen, draft,
                   events>>

-----------------------------------------------------------------------------
(* POST /submit *)

\* store.MarkSubmitted: the rows it affects are not looked at.
MarkSubmitted(r) ==
    /\ pc[r] = "submit"
    /\ status' = IF status = "IN_PROGRESS" THEN "SUBMITTED" ELSE status
    /\ Goto(r, "durations")
    /\ UNCHANGED <<mode, target, served, correct, theta, items, seed, late,
                   seen, work, draft, events>>

\* store.WriteItemDurations; a failure is logged and skipped.
WriteItemDurations(r) ==
    /\ pc[r] = "durations"
    /\ \/ items' = [i \in Idx |->
                      IF items[i].ans = "none" THEN items[i]
                      ELSE [items[i] EXCEPT !.timed = TRUE]]
       \/ UNCHANGED items
    /\ Goto(r, "reload")
    /\ UNCHANGED <<mode, status, target, served, correct, theta, seed, late,
                   seen, work, draft, events>>

\* Mutant: the row loadActive returned is used instead of a fresh one.
SubmitReloadStale(r) ==
    /\ pc[r] = "reload"
    /\ draft' = [draft EXCEPT ![r] = [NoDraft EXCEPT
                   !.status = "IN_PROGRESS", !.served = seen[r].served, !.correct = correct]]
    /\ Goto(r, "load")
    /\ UNCHANGED <<row, seed, late, seen, work, events>>

\* The fresh GetSession the score, the reply and the event are made from.
SubmitReload(r) ==
    /\ pc[r] = "reload"
    /\ draft' = [draft EXCEPT ![r] = [status |-> status, served |-> served,
                                      correct |-> correct, items |-> NoItems]]
    /\ Goto(r, "load")
    /\ UNCHANGED <<row, seed, late, seen, work, events>>

\* The SELECT of LoadItemEvents: a NULL is_correct becomes false and a NULL
\* time_spent_ms 0, so an unanswered item is told as a wrong one.
ItemsTold == [i \in Idx |-> [q |-> items[i].q, right |-> items[i].ans = "right",
                             timed |-> items[i].timed]]

\* store.LoadItemEvents; on failure the event goes out without its items.
LoadItemEvents(r) ==
    /\ pc[r] = "load"
    /\ \/ draft' = [draft EXCEPT ![r].items = ItemsTold]
       \/ UNCHANGED draft
    /\ Goto(r, "publish")
    /\ UNCHANGED <<row, seed, late, seen, work, events>>

\* PublishSessionCompleted: stored by the stream, or lost and only logged.
Publish(r) ==
    /\ pc[r] = "publish"
    /\ \/ events' = events \cup
            {[by |-> r, status |-> draft[r].status, served |-> draft[r].served,
              correct |-> draft[r].correct, items |-> draft[r].items]}
       \/ UNCHANGED events
    /\ Goto(r, "closed")
    /\ UNCHANGED <<row, seed, late, seen, work, draft>>

-----------------------------------------------------------------------------
Handler(r) ==
    \/ MarkExpired(r)
    \/ NextLook(r) \/ NextPick(r) \/ NextServe(r)
    \/ \E i \in Idx, v \in Verdicts : AnswerBegin(r, i, v)
    \/ AnswerCommit(r)
    \/ MarkSubmitted(r) \/ WriteItemDurations(r) \/ SubmitReload(r)
    \/ LoadItemEvents(r) \/ Publish(r)
    \/ Finish(r)

Next ==
    \/ \E m \in StartModes : Start(m)
    \/ \E m \in SeedModes : \E l \in SeedLists(m) : StartSeeded(m, l)
    \/ SeedServe \/ SeedFail \/ Expiry
    \/ \E r \in Requests :
         \/ \E op \in Ops : Admit(r, op)
         \/ FindExpired(r)
         \/ Handler(r)
         \/ Abandon(r)

Spec == Init /\ [][Next]_vars

-----------------------------------------------------------------------------
(* Properties *)

TypeOK ==
    /\ mode \in Modes /\ status \in Statuses /\ target \in 0..MaxItems
    /\ served \in 0..MaxItems /\ correct \in 0..MaxItems
    /\ theta \subseteq Idx
    /\ items \in [Idx -> Row]
    /\ seedQueue \in Seq(Questions) /\ seedNext \in 0..MaxItems
    /\ late \in BOOLEAN
    /\ pc \in [Requests -> PCs]
    /\ seen \in [Requests -> Seen] /\ work \in [Requests -> Work]
    /\ draft \in [Requests -> Draft]
    /\ events \subseteq Event

\* The item rows are exactly 0 .. served_count - 1 and never exceed the
\* target, whatever stale index a /next inserts at (the ON CONFLICT and the
\* RowsAffected test of ServeQuestion, the target test of Next).
ServedIsPrefix == Served = 0..(served - 1) /\ served <= target

\* correct_count is the number of rows that hold a right answer: duplicate
\* and racing answers are counted once (RecordAnswer's did_update).
Right        == {i \in Idx : items[i].ans = "right"}
ScoreIsExact == correct = Cardinality(Right)

\* A question is not asked twice in a session, although nothing in the
\* schema forbids it and two /next may pick concurrently (the NOT IN of
\* PickNextQuestion and ListUnservedCandidates).  The exceptions are a paper
\* whose list repeats and a replay being seeded while /next runs on it.
MayRepeat       == mode = "MOCK_BLUEPRINT" \/ (mode = "PRACTICE" /\ seedNext > 0)
NoQuestionTwice ==
    ~MayRepeat =>
        \A i, j \in Served : items[i].q = items[j].q => i = j

\* First write wins: neither the question of a served item nor a recorded
\* verdict ever changes (RecordAnswer's answer_idx IS NULL).
FirstWriteWins ==
    [][\A i \in Idx :
         /\ items[i].q # NoQuestion => items'[i].q = items[i].q
         /\ items[i].ans # "none" => items'[i].ans = items[i].ans]_items

\* A session is closed once: SUBMITTED and EXPIRED are final, also when a
\* submit and an expiry, each past its own check, race.
ClosedIsFinal ==
    [][status' # status => status \in {"NONE", "IN_PROGRESS"}]_status

\* The verdict an answer request replies with is the recorded one.
ReplyIsRecorded ==
    \A r \in Requests :
        pc[r] = "answered" =>
            /\ work[r].ans \in Verdicts
            /\ items[work[r].idx].ans = work[r].ans

\* What was read of the items lags behind the rows: a right answer is one, and
\* a timed item has been answered as it says.  An item it calls wrong and
\* untimed may be unanswered, or even answered right since.
Lags(told) ==
    \A i \in Idx :
        /\ told[i].q \in {NoQuestion, items[i].q}
        /\ told[i].right => items[i].ans = "right"
        /\ told[i].timed => items[i].ans = IF told[i].right THEN "right" ELSE "wrong"

\* Items that could be loaded are no fewer than the counts n and c say.
Covers(told, n, c) ==
    told # NoItems =>
        /\ \A i \in 0..(n - 1) : told[i].q # NoQuestion
        /\ c <= Cardinality({i \in Idx : told[i].right})

\* Whatever answers, expiries and submits race with the three reads of Submit,
\* a completion event is about a closed session, its counts and its items
\* only lag behind the session, and its items account for its counts.
EventsAreTrue ==
    \A e \in events :
        /\ e.status \in {"SUBMITTED", "EXPIRED"}
        /\ e.served <= served /\ e.correct <= correct
        /\ Lags(e.items)
        /\ Covers(e.items, e.served, e.correct)

\* The session is an answer sheet.
Sheet == INSTANCE AnswerSheet WITH
    phase <- status,
    sheet <- [i \in Idx |-> IF items[i].q = NoQuestion THEN "blank"
                             ELSE items[i].ans],
    score <- correct

\* Whatever requests overlap, fail or are abandoned, the session behaves as
\* an AnswerSheet.
IsAnswerSheet == Sheet!Spec

=============================================================================
