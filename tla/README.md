# A TLA+ project for the adaptive learning platform

The platform is a set of services (Go and Python) behind web and mobile
clients: students take quizzes, battle each other, pay for a subscription and
book tutors; educators author and review content, partly with AI jobs. The
services share no database; they call each other over HTTP and tell each other
what happened over NATS JetStream streams (`QUIZ_EVENTS`, `BATTLE_EVENTS`,
`PAYMENT_EVENTS`, `CONTENT_EVENTS`, ...), which deliver at least once.

This directory holds TLA+ modules that model the parts where order, concurrency
and failure matter, the TLC configurations that check them, and TLAPS proofs.
`PROJECT.json` lists every definition with the lines of the source it stands
for, the runs, the theorems, the hazards and the divergences found.

## Inventory

| Part | State it keeps | Operations | What is hard | Status |
|---|---|---|---|---|
| Quiz session, `services/quiz` (sessions.go, store.go) | one row per session (status, target, counts, ability), one row per item | start, start from assignment / blueprint / mistakes, next, answers, submit, get | every handler is several store calls with nothing held between them; duplicate and overlapping requests; expiry; partial seeding; the event after the commit | partly modelled, proved |
| ADP and adaptive engine client, `services/quiz/internal/adp`, `adaptive` | ability and Beta calibrations per concept; circuit breaker | pick an arm, update after an answer | last-writer-wins updates after duplicate answers | not modelled |
| Question mirror, `services/quiz/internal/events` | quiz's copy of published questions | consume `content.*` | reordered redeliveries, versions | not modelled |
| Session pipeline, `services/engagement/analytics` (events.py, processing.py, streaks.py, backfill.py), `gamification/service.py` | processed sessions, mastery, readiness, streak, daily activity, XP events; a durable consumer and its messages | handle `quiz.session.completed`, apply a session, nightly backfill | at-least-once delivery, a transaction committed in mid-handler, swallowed failures, consumer racing backfill, days that arrive late | partly modelled (nightly job in full), proved |
| Assignment progress, `services/learning/content/quiz_session_subscriber.py` | progress rows per assignment and student | consume the same event | redelivered older attempts overwrite newer ones | not modelled |
| Battle, `services/battle` (matchmaker.go, server.go, engine.go, store.go) | the queue, the connections, the running engines; rows of matches, players, answers and ratings | connect, queue, leave, tick, start a match, answer, score, finalize | goroutines over shared maps and channels, reconnects, two engines for one match, timers | partly modelled (no chat, no private rooms), proved |
| Payment, `services/payment`, and the premium mirror, `services/identity/auth` (payment_subscriber.py, payment_fallback.py, `_issue_session`) | subscription rows, the log of Stripe events; `users.premium_until` | checkout, webhook, announce, mirror, ask at login | posted again, reordered and overlapping webhooks, a stop between recording and processing, lost announcements, a login racing an announcement | partly modelled (no checkout), proved |
| Marketplace bookings, `services/marketplace` (booking_routes.py, booking_state.py, refunds, ratings) | bookings with their timestamps, session rows, refunds, ratings and a tutor's aggregate | book, pay, start, complete, no-show, cancel, refund, rate, hide, unhide | statuses written from stale reads, doubled requests, a slot wanted twice, a refund before its commit | partly modelled, proved |
| Marketplace courses, `services/marketplace` (creator_routes.py, lesson_routes.py, routes.py) | applications, courses, purchases | apply, review, publish, buy | check-then-act on a status | not modelled |
| Translation batches, `services/learning/localisation` (batch_repo.py, batch_worker.py) | a batch with its counts, a task per text, workers in memory | create, claim, complete, fail, finish, retry | workers that overlap after a retry, counts read before a lock, workers that stop | partly modelled, proved |
| Translations and their mirror, `services/learning` (localisation, content), `services/quiz/internal/events` | one row per text and language with version and status; quiz's copy | draft, approve, reject, bulk review, emit, backfill, mirror | an event after or before its commit, lost, doubled and reordered events | partly modelled, proved |
| AI jobs, `services/learning` (ai_authoring, exam_builder, recovery) | job rows and progress | enqueue, run, recover after a restart | crash and restart | not modelled |
| AI gateway, `services/learning/ai_gateway`, `ai_providers` | quotas, cache, fallback order | call with fallback | quota counters under concurrency | not modelled |
| Content review, `services/learning/content` | question status, versions | submit, review, publish, retire | concurrent reviewers, versions | not modelled |
| Identity, `services/identity` | users, refresh tokens, devices | login, refresh, logout | token rotation and reuse | not modelled |
| Notifications, gamification, social, `services/engagement` | notifications, leagues, streak freezes | consume, dispatch, promote / demote | at-least-once, periodic jobs | not modelled |
| Search, catalog, syllabus, knowledge graph, analytics reads | indexes and reference data | queries, imports | mostly reads; alias swap of the index | not modelled |
| Web and mobile apps (`apps/`, `packages/`) | client caches | UI | presentation; they appear as the clients of the models | not modelled |
| Infrastructure, scripts, docs | deployment | - | configuration | not modelled |

### What makes each part correct

- Quiz session: the score counts each row once, a first answer stands, a closed
  session stays closed, no question comes twice, events agree with the rows.
- ADP and engine client: an answer moves a calibration once; the breaker opens
  and closes again.
- Question mirror: the copy ends at the newest published version, whatever the
  order of the deliveries.
- Session pipeline: every submitted session is booked, once, and every derived
  row (mastery, readiness, streak, XP) follows from the booked sessions.
- Assignment progress: a row ends at the student's latest attempt.
- Battle: a user has one place in the queue, a match is fair and ends, a
  recorded answer stands, and a finished match is ranked as far as its statements
  succeed.
- Payment: an event is applied once, the row follows the subscription, premium
  is never longer than what was paid for and the retry grace.
- Marketplace: a slot has one lesson, a status has its history, money goes back
  only for what was paid, a rating is of a lesson that was held.
- Translations: a text is translated by one worker, no task is forgotten, the
  report is true; students read only what a reviewer approved, and in the end
  what is published.
- AI jobs: every job ends; a restart loses and repeats no item.
- AI gateway: a quota is not exceeded; a fallback happens in order, and once.
- Content review: only what was reviewed is published, in the version reviewed.
- Identity: a refresh token is good for one rotation.
- Notifications and leagues: a message is sent once; a promotion runs once a
  period.

## Plan

1. **Quiz session** (done): `QuizSession`, its promise `AnswerSheet`, what the
   comments promise beyond it (`QuizPromises`), the inductive invariant
   (`QuizInvariant`), proofs.
2. **Session pipeline** (done): `SessionPipeline`, its promise `SessionLedger`,
   `PipelinePromises`, `PipelineInvariant`, proofs. It begins where a quiz
   session ends: `Submit` is what `Publish` of `QuizSession` leaves to the bus.
3. **Payment** (done, without checkout): `Payment`, its promise `Entitlement`,
   `PaymentPromises`, proofs.
4. **Battle** (done, without chat): `BattleLobby` (connections, queue, tick)
   with `LobbyPromises`, and `BattleMatch` (callbacks, engines) with
   `MatchPromises`; proofs of both.
5. **Bookings** (done): `Bookings`, `BookingPromises`, proofs.
6. **Translations** (done): `TranslationBatch` with `BatchPromises`, and
   `TranslationMirror` with `MirrorPromises`; proofs of both.
7. Left: the ADP store and the assignment progress consumer beside the quiz
   session; course purchases; AI jobs across restarts, the AI gateway's quotas
   and identity's refresh tokens.

Every module is written to be proved about: parameters are constants with a
named assumption, one action per operation, invariants are conjunctions of
named parts, and no module declares a RECURSIVE operator. Types and inductive
invariants are proved, so the runs do not repeat them: each was checked by TLC
before it was proved, and the runs' states are spent on what a reader would doubt.

Every invariant and every action property of the passing runs is also a theorem.
What TLC alone shows is liveness: `EventuallyBooked`, `EventuallyProcessed`,
`EventuallyLeavesQueue`, `ClosedLeaves`, `EventuallyEnds`, `BatchEnds` and
`EventuallyMirrored` rest on fairness, which the provers do not handle.

## Quiz session

### From the code to the model

`QuizSession` has one session: its row in `quiz_schema.quiz_sessions` (`mode`,
`status`, `target`, `served`, `correct`, `theta`) and its rows in
`quiz_schema.quiz_session_items` (`items`, indexed by `item_idx`). A row of an
item is its question, `is_correct` (`"none"` while NULL) and whether
`time_spent_ms` was written. The ability estimate is abstracted to the set of
items whose answers it was computed from. The clock is one bit, `late`, that
turns true once: the TTL has passed.

`Requests` are slots for HTTP requests in flight. A handler never holds a
transaction or a lock across two store calls, so an action is one store call
with the local code up to the next one: `pc[r]` is the next store call of
request `r`, `seen[r]` what `loadActive` read, `work[r]` the index, question
and verdict it carries, `draft[r]` what a submit read for its event. An event
tells of an item whether it is right (`ItemsTold`): the SELECT of
`LoadItemEvents` turns a NULL `is_correct` into false and a NULL `time_spent_ms`
into 0, so an item that was served and not answered is published as a wrong one.

| Code | Actions |
|---|---|
| `Start` | `Start` |
| `StartFromAssignment`, `StartFromBlueprint`, `StartMistakeReplay` | `StartSeeded`, then `SeedServe` per item, or `SeedFail` |
| `loadActive` | `Admit` (the request goes on) or `FindExpired`, `MarkExpired`; a request on a closed session is refused and changes nothing |
| the sweep in `Get` | `FindExpired`, `MarkExpired` |
| `Next` | `Admit`, `NextLook`, `NextPick`, `NextServe` |
| `Answer` with `store.RecordAnswer` | `Admit`, `AnswerBegin` (the statement's snapshot), `AnswerCommit` (`FirstWrite` or `LaterWrite`) |
| `Submit` | `Admit`, `MarkSubmitted`, `WriteItemDurations`, `SubmitReload`, `LoadItemEvents`, `Publish` |
| a failed store call, a client that goes away, a crash | `Abandon`, at any point |
| the TTL | `Expiry` |

`RecordAnswer` is one SQL statement under READ COMMITTED: its snapshot is taken
when it starts, but its UPDATE rechecks `answer_idx IS NULL` on the row as it
is when the row lock is granted. `AnswerBegin` is the snapshot and
`AnswerCommit` the UPDATE; the SELECT of a later write sees the snapshot.

The choice of a question (IRT, ADP, closest difficulty, a translation) is
abstracted to any published question the session has not asked. The list of an
assignment (whose key is the question) and of a mistake replay (`DISTINCT ON`)
has a question once; a composed paper draws each section from the pool of its
subject, so that two sections of one subject may draw a question twice
(composer.py:60). A grader verdict is either. `CalibrationFeedback`, exposure rows, XP awards and the
read-only handlers change nothing these properties speak of and are left out.

### What is checked

`MCQuizSession` gives the constants small sets. `CHECK_DEADLOCK FALSE` in these
configurations: a session that is closed and has no request in flight stops.
Requests and questions are symmetric.

| Run | Instance | Shows |
|---|---|---|
| `QuizRaces` | 2 requests, 2 questions, 2 items; sessions started empty and seeded with assignment and replay lists of up to 2 (1,081,985 states) | no question twice, first write wins, replies are what is recorded, events tell the truth, the session is an `AnswerSheet` (rows a prefix, score exact, closed final), also under a running or failed seeding loop |
| `QuizOneClient` | 1 request, 3 questions, 3 items, all modes (41,019 states) | the two promises of `QuizPromises`, when requests do not overlap |

Two requests and two items are enough for the races the code is exposed to:
each is between a read and a write of one request and one write of another, at
one index or at two. A slot is reused, so any number of requests run one after
the other. `QuizOneClient` has three items because `ThetaCoversAnswers` and the
order of a pinned list need more than two.

`NoQuestionTwice` exempts a composed paper, whose list may repeat, and a mistake
replay: the replay is a PRACTICE session that /next may pick for while the loop
is still seeding it, and then the list may bring a question a second time.

`EventsAreTrue` says what a consumer may conclude from an event: the session is
closed, its counts and its right answers are recorded, the verdict of an item
with a time is the recorded one, and items that could be loaded account for the
counts (they are read after them). It may not conclude anything from a wrong
item without a time: that is an unanswered item, one whose time could not be
written, or one that is answered after the event.

The model has no fairness and no liveness property: a request may always be
abandoned, and nothing in the service retries.

### What is proved

`QuizInvariant` states `IInv`, the conjunction of the type invariant,
`ServedIsPrefix`, `ScoreIsExact` and what makes them inductive: nothing runs
before the row exists (`BeforeStart`), the seeding loop never overtakes the rows
(`SeedBehind`), a `served_count` read earlier is only ever too small
(`ReadBehind`), so that the index of a /next is a row that exists or the next
one and below the target (`ServeInRange`), and only rows that exist are answered
(`AnswersServed`). `QuizSessionProofs` proves `Init => IInv` and
`IInv /\ [Next]_vars => IInv'`, one step per action. Its lemmas are
`ServeKeepsPrefix` (an insert at an index that is not beyond the next row keeps
the rows a prefix), `AnswerCounts` (the first answer adds exactly itself to the
right ones) and `RequestStep` (a step that touches no row keeps `IInv` if the
request ends up behind the row).

Its second part sorts every step into the moves of an answer sheet
(`StepMoves`) and derives that first writes win, that closed is final, and that
`QuizSession` implements `AnswerSheet` under the mapping `Sheet`.

Its third part is about what a request carries. `HeldInv` says that what was
read earlier, in an answer's snapshot or for a submit's event, lags behind the
rows (`AnswerHeld`, `DraftHeld`), because a row once written is final, and that
only answered items are timed (`TimedAnswered`); so an answer is told the
recorded verdict (`ReplyIsRecorded`) and an event is true (`EventsAreTrue`). `FreshInv` gives `NoQuestionTwice`: what is left of a
pinned list neither repeats nor meets the rows, and a question picked for the
next new row is in no row. It stays so although another /next may insert in
between, because that insert takes the index, and the late one then conflicts.

Those theorems hold for any sets of requests and questions and any `MaxItems`
and `Target` that satisfy `QuizAssumption`; no other assumption is used.

The promises of `QuizPromises` are proved with the hypothesis `OneRequest`, that
the client has one request in flight, for any number of questions and items.
With two they are false (see below), so the hypothesis is what separates the
promise from the race. `ThetaInv` and `ShownInv` are the invariants: what the
one request has read is what the session has.
`NextShowsRecordedRow` needs besides that no session is seeded in mode PRACTICE
(a mistake replay): while its loop is still seeding, it moves the next index
under a /next, which is a race of one client's /next with the server's own loop.

### Divergences

With two requests in flight the promises of `QuizPromises`, and others the
comments make, fail with a short schedule of two overlapping handlers:

- when a first answer commits between a second answer's snapshot and its UPDATE,
  the SELECT of `RecordAnswer` returns the row of the snapshot, with a NULL
  `is_correct`, and the handler dereferences it (sessions.go:1168, against
  sessions.go:989 "returns the original verdict"); `LaterWrite` has this case as
  the reply `panicked`;
- two `/next` pick different questions for one index; the one whose insert
  conflicts shows a question its row does not hold (sessions.go:946);
- two answers of an assignment each write the ability computed from the row
  they read, and one is lost (sessions.go:1139);
- an expiry between a submit's check and its UPDATE lets the submit publish the
  event of an EXPIRED session (sessions.go:1497, against events.go:5);
- two submits both publish (sessions.go:1497, against the requirement "exactly
  once via idempotency"); the consumer's dedup gate is what absorbs it;
- an answer admitted before the submit is recorded after it (sessions.go:1140).

Without any overlap, an item that was served and not answered is a wrong answer
to whoever reads `is_correct` of the event (store.go:1032; events.go:65 says only
that its TimeSpentMs is 0, and the comment at store.go:992 that aggregators skip
it), and `Next` tests `served_count >= target_count` before it looks
for an item in flight (sessions.go:884): after the last question was served a
repeated `/next` answers done, although the comment at sessions.go:834 promises
to resume the unanswered item.

## Session pipeline

### From the code to the model

`SessionPipeline` follows one student. The quiz service submits a session and
publishes an event; JetStream pushes it to the engagement service, whose
callback applies it and acknowledges; a nightly job re-applies whatever the
window holds and the rows do not.

| State | In the code |
|---|---|
| `quiz`, `log` | submitted rows of `quiz_sessions`, in `submitted_at` order; a session has items in its event (`full`), was answered but has none in the event (`bare`), or never served a question (`empty`) |
| `stream`, `deliveries`, `inbox`, `acked` | the QUIZ_EVENTS stream, its delivery counts, what was pushed to the process, what was acknowledged |
| `db` | the committed analytics rows: `processed_sessions`, `mastery`, `readiness`, `streaks`, `daily_activity`, streak XP |
| `xp` | committed `quiz_completed` XP events |
| `work`, `tx`, `dirty` | the next statement of each worker, and the rows of its open transaction |
| `todo`, `ran` | the rows of a running scan of the job |

| Code | Actions |
|---|---|
| `Submit` and `Publish` of the quiz service | `Submit`, with or without the event |
| JetStream: explicit ack, `ack_wait`, `max_deliver` | `Deliver`: the first time in order, again after a refusal or a stop, and while a slow handler still works |
| `process_session` | `Check` (dedup), `ReadMastery`, `WriteMastery`, `ListMastery`, `Book` (readiness to `mark_session_processed`), `StreakXp` |
| `_on_session_completed` | `Take`, then `process_session`, then `Fan`, `AwardXp`, `Commit`, `Ack` |
| `award_xp` | `StreakXp` and `AwardXp`: it ends with `session.commit()`, so the caller's transaction is committed there |
| `run_backfill` | `StartScan`, `Visit`, then `process_session` and `Commit`, a transaction per session |
| an exception that reaches the caller | `Abort`: rollback; the message is refused, the job goes on |
| an exception a best-effort block swallows | `Poison`: the transaction cannot write any more and its COMMIT is a rollback |
| the process stops | `Crash` |
| midnight | `NextDay` |

A step is one statement that reads or locks a row another transaction can
change. PostgreSQL runs at READ COMMITTED: a SELECT sees what is committed when
it runs (`ReadMastery` takes no lock), an upsert waits for the transaction that
holds the row (`HoldsTopic`, `HoldsUser`). The readiness row of a student is one
row and is held from its upsert to the end of the transaction, so all that is
written after it is one step.

Abstractions. A mastery row is kept as the bag of sessions folded into its
average: which sessions, how often. A daily activity row is kept per session.
The per-item fan-out (section stats, concept mastery, misconceptions), the
revision queue, the mastery milestone and the HTTP notifications write rows
these properties do not speak of: they are the step `Fan`, or part of `Book`,
and can fail like the others. An event without items still books its session;
a session that served no question is booked by the consumer and skipped by the
job, as in the code.

### What is checked

`PipelinePromises` states the properties, `PipelineInvariant` the inductive
invariants, `MCSessionPipeline` gives the constants values. `CHECK_DEADLOCK
FALSE`: when every session is booked and the last day has come, the system
stops.

| Run | Instance | Shows |
|---|---|---|
| `PipelineLive` | consumer, 2 sessions of one topic, 2 failures of any kind except a swallowed one, 2 deliveries, 3 days (388,263 states) | `CountedOnce`, `StreakIsRun`, `AckedIsBooked`, `XpHasBooking`, the ledger refinement |
| `PipelineNightly` | consumer and job, 1 session, 2 failures of any kind, 2 deliveries, 4 days, window 2 (168,343 states) | `BookedIsCredited`, which the row locks alone give two workers; `EventuallyBooked`, under fairness |
| `PipelineRace` | consumer and job, 1 session | `CountedOnce` fails |

Two sessions on one topic are the smallest instance in which one booking can
overwrite another's. Two failures use up the two deliveries, so that a message
is also dropped; the code allows five. Three days with two sessions hold a run
and a gap; the streak is proved for any number of both. `PipelineNightly` stays
at one session: its races are between two transactions for it, and two
failures of either. Two failed deliveries are all the bus gives, so the run
holds the message that is dropped unbooked, the lost event followed by a failed
night, and the failed statement that is acknowledged; four days hold a session
that leaves the window.

Fairness of `FairSpec`, and why: the server keeps pushing what is not
acknowledged (`Deliver`), a running callback or job goes on (`Process`,
`Consume`, `Visit`), the cron starts the job (`StartScan`; `NextDay` waits for
the job to have started). A failure is never fair, and days are not: the model
may stay in a day. `EventuallyBooked` depends on the window, which is the job's
parameter `--since`. The run reaches two days back and survives any two
failures. The call that backfill.py:22 and the runbook give, 36 hours, is at
worst a window of one day: there the property holds when the message is dropped
at its first failure (`Window = 1`, `MaxDeliver = 1`, `MaxFaults = 1`), and TLC
finds it violated with two failures: the event is lost, the session's one night
fails, and the next finds it too old.

### What is proved

All in `PipelineProofs`. With both workers and any failures, for any sets and
bounds that satisfy `PipelineAssumption`: type correctness and the invariant
`SharedInv`, from which `XpHasBooking` and
`BookedIsCredited` follow. `SharedInv` adds to the types what the row locks
give: a worker's uncommitted rows contain the committed ones and one more
booking, that of the session it holds, and no two workers are dirty together.
`AckedIsBooked` is proved for configurations without swallowed failures
(`"statement" \notin Faults`).

With the consumer alone (`Backfill = FALSE`): `LedgerInv` (the rows tally with `processed`, and what the worker read is what
is committed) is inductive, hence `CountedOnce`, `ReadinessFresh`, and the
refinement of `SessionLedger`: every step is the ledger's booking of one
session or a stutter. Its last part adds `StreakFollows` (the streak
row describes the activity days, none of which is after today) and proves
`StreakIsRun` for any number of days.

Only model-checked: `EventuallyBooked`, a liveness property.

### Divergences

`PipelineRace` has its finding in `PROJECT.json`. Reading the code for this model also showed, without a run of their own:

- the best-effort blocks catch an exception without a savepoint, so the
  transaction stays failed, `session.commit()` becomes a rollback that raises
  nothing, and `msg.ack()` forgets the event (events.py:225, against events.py:191
  "must not roll back the mastery + section-stats writes above"); `Poison` is in
  the model, and `AckedIsBooked` excludes it;
- a redelivery of a processed session stops at the gate of `process_session`
  and goes on to `award_xp`: a lost ack gives its XP twice (events.py:430);
- the job replays a session for the day of `submitted_at`; when a later day was
  already counted, `compute_next_streak` takes the earlier day for a gap, resets
  the streak and moves `last_active_date` back (streaks.py:50);
- the consumer credits the day it runs on, not the day of `submitted_at`
  (processing.py:108, against repositories.py:168).

## Payment

### From the code to the model

`Payment` follows one customer. Stripe changes a subscription and posts events;
the payment service applies them to its rows; the auth service mirrors the
announced changes in `users.premium_until`, from which every token's role is
computed (`STUDENT_PREMIUM` while it is in the future).

| State | In the code |
|---|---|
| `stripe`, `changes`, `sent`, `accepted` | external: the subscriptions at Stripe, the events of each change, and those Stripe got a 200 for |
| `recorded`, `processed` | `webhook_events`, and those with `processed_at` |
| `rows`, `begun` | `subscriptions`; `at` is `updated_at`, which PostgreSQL takes from the beginning of the transaction, so `begun` counts the transactions begun |
| `work` | per request in flight: the next transaction or read, the event, the state that was read |
| `inbox` | `payment.subscription.changed` on core NATS, which keeps nothing and acknowledges nothing |
| `mirror`, `login` | `users.premium_until` (0 is NULL), a login in progress |

| Code | Actions |
|---|---|
| Stripe | `Subscribe`, `Settle`, `Renew`, `Cancel`, `Tick`; `Receive` posts an event until it is answered |
| `stripe_webhook` | `Receive` (records the event and commits; a recorded event is a duplicate), `Begin`, `Look` (the read of the latest row and the state machine from it), then `Write` (upsert, mark processed, commit) or, without an edge, `Refuse` (mark processed, commit); `Publish`, `Reply` |
| an exception, a stop of the service | `Abort` |
| `_handle` of the subscriber | `Mirror` |
| a stop of the auth service | `Restart` |
| `_issue_session`, `fallback_premium_until` | `LoginRead`, `LoginAsk`, `LoginWrite` |

Time is in days, a period has `Period` of them, and the fallback's 24 hours are
one. An event of a checkout session or an invoice carries no
`current_period_end`, because the handler looks for it in the event's object and
only a subscription has it. Statuses the code maps to the same state as another
are left out. Left out as well: `create_checkout_session`, which makes the
customer row before Stripe can post anything about it; events of unknown
customers and unmapped types, which are answered and change nothing; a failed
publish is a lost message.

### What is checked

| Run | Instance | Shows |
|---|---|---|
| `PaymentWebhooks` | 1 subscription, 2 requests, events in any order and any number of posts, 3 changes, 3 days of periods of 2, 1 failure (2,363,297 states) | `AppliedOnce`, `PremiumIsReported`, `IsEntitlement` |
| `PaymentInOrder` | 1 subscription, 1 request, all event types, 3 changes one after the other, 4 days (114,682 states) | `RowFollowsStripe`, and `EventuallyProcessed` under fairness |

Two requests suffice for the races: each is between what one request has read
and another's commit, or between two posts of one event. Three changes are a
subscription, a renewal or a decline, and what follows. The theorems hold for
any number of all of them. `CHECK_DEADLOCK FALSE`: when nothing changes at Stripe
and the last day has come, the system stops.

Fairness: Stripe posts until it gets a 200, a request that does not die runs on
(`Handle`), the subscriber takes its messages. `EventuallyProcessed` is checked
without dying requests, because with them it fails (below).

### What is proved

`PaymentProofs` proves that `PaymentInv` is inductive, for any subscriptions,
requests, types and bounds that satisfy `PaymentAssumption`. Beside the types it
says that two requests never work on one event and none works on a processed
event (`EventsOnce`: what the unique event id and the commit before the work
give), and that every period end in the mirror, or on its way there, is a
processed event's, or at most 24 hours away (`EndsReported`). From it follow
`PremiumIsReported` and, since only `Write` changes rows, `AppliedOnce`.

`Entitlement` is what the two services promise together: an event is judged
against a row there is (`Judge`), by which it is `cleared` or `barred`; later it
is settled, once, by moving its row to where it says if it was cleared, by
leaving the rows if it was barred; premium is granted to the end of a settled
event that says paid or canceled, withdrawn, or bridged for a day. `Payment`
implements it (`IsEntitlement`), with the recorded events as those told of, the
events of the requests at `write` and at `refuse` as those cleared and barred, and
the rows without their dates. `Look` is a `Judge`, the transaction that ends an
event one `Apply` or `Refuse`, a request that dies in between a `Forget`, `Mirror`
a `Grant` or a withdrawal, a login's write a bridge; all else stutters. That the latest subscription is one of the rows, for any number
of them, needs that no row is newer than the transactions begun (`RowsDated`,
`CurrentIsARow`): `Latest` takes the greatest date, and bounded dates have one.
`Entitlement` does not promise that a judgement still fits the rows when it is
carried out: two webhooks that read the same row break that, and so does one
that is refused while another one commits (below).

`RowFollowsStripe` is proved under `InOrder`, for any number of changes, days,
lost announcements and slow answers. Each conjunct of `InOrder` stands for a
divergence below, without which the property is false: events come in order
(out of order, an old one is applied last), to one request at a time (a second
one is told "duplicate" before the first is done, and Stripe goes on), requests
do not die (a recorded event is never processed), a subscription is paid from
its start (an incomplete one is made ACTIVE), and there is one of them (a
returning customer stays CANCELED). `InOrderInv` says that every change has its
events, all with one target, and only the last change cancels (`ChangesTold`);
that what is recorded is processed but for the event being worked on
(`TakenInOrder`); and that the row is where the newest processed event puts it
(`RowIsNewest`). From them the state machine has the edge for every event
(`EdgeExists`), the one step where it could refuse.

Only model-checked: the liveness property.

### Divergences

Reading the code for this model showed, without a run of their own:

- no event leads to REACTIVATED, and CANCELED -> ACTIVE is not an edge, so the
  webhooks of a customer's second subscription are logged as illegal and marked
  processed: the customer pays and stays CANCELED (fsm.py:88, against fsm.py:12
  and the edge at fsm.py:51); `RowFollowsStripe` is therefore checked with one
  subscription;
- a renewal is ACTIVE -> ACTIVE, whose notify is False: the new period end is
  written to the row and never published, so `premium_until` keeps the end of
  the first period, and the login does not ask either, since it is not NULL
  (routes.py:243, against payment_subscriber.py:18);
- a request that dies after recording its event leaves it unprocessed for good:
  Stripe's retry is answered as a duplicate (routes.py:186, against the comment
  "re-applying the same event after a crash" at routes.py:214);
- `customer.subscription.created` makes a row ACTIVE whatever the status of the
  subscription, and ACTIVE -> INACTIVE is not an edge: an incomplete subscription
  that expires stays ACTIVE;
- a webhook that read the latest row before another one's commit writes its
  target over it, along no edge of the state machine (a late renewal over a
  cancellation); one that found no edge is marked processed, although the
  commit in between made the row one it could have moved (routes.py:216, 222);
- events without a period end set `period_end` to NULL; announced first, such an
  event leaves the mirror NULL, and the login's 24 hours, once written, are not
  NULL any more and are not asked about again;
- an unknown state clears premium, where payment_subscriber.py:24 says it is
  ignored.

## Battle

### From the code to the model

Two modules, which meet in the tick: `BattleLobby` ends with the callbacks a tick
starts, `BattleMatch` begins with them (`Matched`, for any two users at any
time, as a tick may pick anybody who queues).

`BattleLobby` has the map of connections (`conns`), the connections with their
two loops (`conn`), and the matchmaker's queue (`pending`, an entry has its
`place`). `ticking` says that a tick holds the matchmaker's mutex; its turns are
steps of their own, since connections and loops go on beside it. Ages count in
units of `widenAfter` (30 s), the timeout is four of them (120 s).

| Code | Actions |
|---|---|
| `handleWebsocket` | `Open` (an older connection is taken from the map and closed), `Store` |
| `readLoop`, `writeLoop` and their deferred calls | `ReadEnds` (`Cancel`, `Close`), `WriteEnds` (`conns.Delete`, `Close`) |
| `handleLobbyQueue`, `Enqueue`; `room.leave`, `Cancel` | `LobbyQueue`; `RoomLeave` |
| `tick`, `findMates`, `removeUsers` | `TickStart` (timeouts), `FormMatch` per turn, `TickEnd` |
| the clock | `Wait` |

`BattleMatch` has per match and player the callback and then the engine it
launched (`run[m][u]`), because the matchmaker calls `OnMatched` once for each
player it picked; `matches` is the map of engines, where the last one wins;
`status`, `players`, `answers`, `ranks` and `rated` are the rows. A connection is what a
match needs of it: whether it is in the map, and the match it is marked with.

| Code | Actions |
|---|---|
| `startMatch` | `CreateMatch` (the second insert fails, unseen), `JoinPeer` per player, `Launch` |
| `handleMatchAnswer`, `SubmitAnswer` | `MatchAnswer`, to the engine in the map; a full channel drops it |
| `Run` | `EngineStarting`, `FetchFails` or `EngineBegins`, `Scoring`, `EngineDone` |
| `runQuestion`, `RecordAnswer` | `ReceiveAnswer`, `Deadline` |
| `finalize`, `FinalizePlayer`, `UpdateElo` | `FinalizePlayer` per player |
| the goroutine after `Run` | `EngineOver` |
| connections | `Connect`, `Disconnect`, `Unmap` |

Abstractions: each engine fetches and shuffles its own questions, so any choice,
or none, may be the right one; a right answer scores one point; ratings are
counted, not computed. The errors of `AddPlayer`, `RecordAnswer`, `FinalizePlayer`
and `UpdateElo` are discarded in the code, so each may fail in the model and the
caller goes on; `failed` remembers which did (the code does not), so that the
properties can say what a failure excuses. The insert and the status of the match
row are modelled as succeeding; their failures are logged or ignored too, and
leave a match that never ends in the table. An engine asks all its questions (a
short pool only lowers their number). Chat touches none of this.

### What is checked

| Run | Instance | Shows |
|---|---|---|
| `BattleQueue` | 2 users, 2 connections, 2 exams, bands 1, 2 and 3 (79,958 states) | `QueuedOnce`, `MatchIsFair`, and under fairness `EventuallyLeavesQueue` and `ClosedLeaves` |
| `BattlePlayed` | 2 users, one of them gone, 1 match, 1 question, 2 choices, a channel of 1, 1 failed statement (287,479 states) | `DoneIsRanked`, `FirstAnswerStands`, and under fairness `EventuallyEnds` |

Two users fill a match; two connections are an old and a new one of a user. One
match has two engines already, which is where its races are; the theorems hold
for any number. The case of a first player nobody fits while two behind would
fit each other needs three players; TLC does not finish `BattleQueue` with three,
so that `EventuallyLeavesQueue` says nothing of it. In `BattlePlayed` one of the two has left before the match begins
(`Online`) and the other connects, goes and answers at any time: liveness over two
such players is beyond TLC, while safety is not (2,568,708 states with one choice and one failed
statement, no violation of the inductive invariant). One failure is enough for a
rank that is lost, and for a row that is not there yet when the first engine
ranks its player. Deadlock is checked: a client may always connect.

Fairness: the ticker ticks and the mutex starves nobody (`Tick`, and strongly
`Wait` and `ReadEnds`, which a tick may disable), a handler goes on (`Store`), the
loops of a closed connection end; callbacks and engines run on (`Engines`, in
which a question ends at its deadline, whatever is received). Clients owe
nothing.

### What is proved

`MatchProofs`: types, `DoneIsRanked` and `FirstAnswerStands`, for any users,
matches, questions, capacities and failing statements. The inductive invariant says that a match
not yet formed has no status and nobody at work, that a player whom a callback
has joined has a row and one whom an engine in `final` has passed a rank, each
unless its statement failed, and that a match that is DONE has its ranks but for
those. A row, a rank and a failure are never taken back, so all of it survives
the other engine; the row is needed because the update of a rank finds none, and
reports no error, when the insert had failed.

`LobbyProofs`: types, `QueuedOnce` and `MatchIsFair`, for any users and
connections. The inductive invariant `LobbyInv` says that the queue is lined up: finitely many
entries, of different users, at places 1 to their number. Who leaves, by a
cancel, a timeout or a match, is taken out by closing ranks (`Ranked`), and
`RankedIsLined` shows that closing ranks keeps the line, by counting who is in
front. That a turn has a first in the queue and a first mate needs a least place
(`LeastOf`), from the well-foundedness of the naturals.

Only model-checked: liveness.

### Divergences

- a match may be DONE, and shown in the history, with a NULL rank: finalize
  discards the errors of `FinalizePlayer` (engine.go:338) and startMatch those of
  `AddPlayer` (server.go:385), against 001_battle_schema.up.sql:31, which says
  final_rank "is 1-indexed after scoring"; `DoneIsRanked` says there is no other way to it;
- the comment of `findMates` (matchmaker.go:193) drops the exam filter "after the
  second widen step", at 90 s; the code drops it with the first one, at 30 s
  (matchmaker.go:203, and the comment there agrees). `MatchIsFair` states what the
  code keeps;
- each of the two engines rates the players (`rated` becomes 2), against
  engine.go:299 "One match = one rating period";
- the engine that ends first deletes the map's entry of the other one, so the
  rest of the answers are dropped (server.go:409), and a status may go from DONE
  back to an earlier one;
- the write loop of a replaced connection deletes the new one from the map, and
  its read loop cancels what the new one queued (server.go:270, server.go:290);
- a player in a match may queue; the end of one match clears the mark of another
  (server.go:414);
- a queued player who queues again keeps the place with a new `QueuedAt`; the
  oldest without mates ends the tick for everybody behind (matchmaker.go:165);
- `n_matches` is always written as 0 (engine.go:345);
- nothing is recovered after a restart: a match stays IN_PROGRESS.

## Bookings

### From the code to the model

`Bookings` has the bookings of one tutor: `row` (the status and which timestamps
are set), `session` (`tutor_sessions`), `paidBack` (what Stripe refunded),
`rating` and `cached` (the ratings the tutor's aggregate counts).

Every handler is one transaction: it reads the booking without a lock, looks the
transition up, and updates the row by its id alone. `work[r]` is request `r`
between its read and its commit. The update and the commit are one step, since
the row lock is held from one to the other and nothing else is read in between.

| Code | Actions |
|---|---|
| `create_booking` | `CreateBooking` |
| `confirm_payment`, `start_booking`, `complete_booking`, `no_show`, `cancel_booking` | `Read`, `Commit` |
| `refund_booking` | `Read`, `RefundPayment` (Stripe), `Commit` |
| `rate_booking` | `ReadToRate`, `CountRatings` (insert and count), `CommitRating` |
| `hide_rating_route`, `unhide_rating_route` | `ReadToModerate`, `CountRatings`, `CommitRating` |
| a refused row, a declined refund, a stop | `Fail` |

`Taken` is the partial unique index on (tutor, start) of the active statuses; the
primary key of `tutor_sessions` refuses a second confirmation. Who may ask and
the 24 hours of a cancellation are left open, which allows more.

### What is checked and proved

`Bookings` (the run): two bookings of one slot, two requests, symmetric in both
(233,200 states). Two requests are a stale one and the one that overtakes it, and a
slot of a request is reused. `CHECK_DEADLOCK FALSE`: when every booking is at its
end, the system stops. The handlers retry nothing, so there is no liveness.

All five properties are proved for any bookings, slots and requests
(`BookingProofs`). They hold although statuses are overwritten: the inductive
invariant says of every request in flight that its booking *has had* what its
next status needs (it was confirmed, started, completed or refunded), and nothing
takes a timestamp, a session row or a refund back. So a stale write moves the
status, and never to one without its history. `ConfirmedOnce` follows from the
primary key of the session row, `OneLessonPerSlot` from the index.

### Divergences

- a stale write leaves a status that looks terminal: REFUNDED_BY_ADMIN can
  become NO_SHOW or CANCELLED, COMPLETED can become NO_SHOW (repositories.py:435,
  against booking_state.py:44 "Admin refund — terminal"), and a booking can be
  refunded by two requests;
- the second student who pays for a slot is answered 500 by the index and stays
  PENDING_PAYMENT, paid (booking_routes.py:149);
- CANCELLED_BY_STUDENT after a payment has no refund edge;
- the aggregate counts what was committed when it was computed, so two ratings,
  or a rating and a moderation, that overlap leave one of them out
  (repositories.py:1442);
- the index is on the exact start: lessons may overlap (003_create_bookings.py:69
  says so).

## Translations

### From the code to the model

`TranslationBatch`: a batch row with its counts (as the sets they count), a task
per text, and calls of `run_batch`. The creation starts one call, every retry
another. Under READ COMMITTED `_recount` writes what it saw before it waited for
the batch's row, so a worker computes its counts (`Translated`) before it commits
them (`Commit`), and `finalize_batch_if_done` looks (`Look`) before it writes
(`Finalize`).

`TranslationMirror`: the row of a text (status, version), reviewers' requests, the
event of each version with the deliveries it has left, and the version the quiz
service shows (`mirror`). `decided` records the versions a reviewer approved, and
`missed` that the event of a text did not get through; both are read only by
properties.

| Code | Actions |
|---|---|
| `create_batch`, `retry_task` | `CreateBatch`, `RetryTask` |
| `run_batch` with `next_pending_task`, `complete_task`, `fail_task`, `finalize_batch_if_done` | `Claim`, `Translated`, `Commit`, `CommitFails`, `NothingPending`, `Look`, `Finalize` |
| a worker that stops | `Stop` |
| `upsert_translation_draft` (request, batch, editor) | `Draft` |
| `review_translation`, `emit_translation_published` | `Approve`, `Emit`; `Reject` |
| `post_review_bulk`, `bulk_decide` | `BulkApprove`, `BulkReject`, `CommitBulk` |
| a request that is cut off, a bulk transaction that rolls back | `CutOff` |
| `backfill_translations` | `Backfill` |
| `handleTranslation`, JetStream | `Deliver`, `DeliverFails` |

### What is checked and proved

| Run | Instance | Shows |
|---|---|---|
| `TranslationBatch` | 3 texts, 3 workers (212,986 states) | `ClaimedOnce`, `NothingIsForgotten`, `ReportIsTrue`, and under fairness `BatchEnds` |
| `TranslationMirror` | 1 text, 2 reviewers, 3 versions, 2 deliveries, 1 backfill (28,162 states) | `SeenWasApproved`, `SettledIsCurrent`, and under fairness `EventuallyMirrored` |

Three workers are the first one and two that retries start while it drains. Texts
share nothing but a bulk review's transaction: an instance with two texts, two
versions and no backfill passes as well (3.26 million states, safety only).
`CHECK_DEADLOCK FALSE` in both: a batch is over, a text has its last version.

Fairness: a call of `run_batch` goes on, since the gateway's calls time out; a
reviewer's request that committed goes on to emit; JetStream delivers what it
has. What may fail (`Stop`, `CommitFails`, `CutOff`, `DeliverFails`) is never fair,
and the liveness properties exclude a batch with a stopped worker and a text whose
event was missed.

Proved for any texts, workers, reviewers and bounds: the three safety properties
of the batch (`BatchProofs`) and the two of the mirror (`MirrorProofs`). The
invariant of the batch adds to them what each worker knows of its own task, and,
while nothing was retried, that the one worker's pending counts are those of the
tasks. The invariant of the mirror says that every event in the stream, and every
row a request is to emit, is of a version a reviewer decided on, and that unless
it was missed the published version is mirrored, in the stream, or about to be
emitted.

### Divergences

- batch_worker.py:4 and batch_repo.py:5 say that a restart resumes a batch;
  nothing starts `run_batch` again, and a task that was RUNNING is never PENDING
  again, which is why `BatchEnds` excludes `stopped`;
- after retries that overlap, the counts may be stale and the final status DONE
  although a task failed, which is why `ReportIsTrue` excludes `Retried`;
- an approval looks neither at the status nor at the version the reviewer saw
  (repositories.py:166); a rejection after an approval does not take the version
  back from the mirror;
- a bulk review emits before its commit: after a rollback students read a
  translation that is a draft, and the backfill, which review_queue.py:85 relies
  on, sends only PUBLISHED rows and does not undo it;
- a statement that fails in a bulk review fails the whole transaction, although
  the results of the others say ok.

## Not modelled

The ADP store, the assignment progress consumer, the question mirror, the AI jobs
and the gateway, identity's sessions, leagues and notifications, course purchases
and tutor applications are programs of the same kinds (a read, a check and a
write; a consumer of at-least-once events) over tables of their own, and can be
modelled the same way; they are left for lack of room, not of interest.
Search, catalogue, syllabus, knowledge graph and analytics reads are queries and
imports without concurrent state. The numerical algorithms (IRT, EAP, Glicko-2,
Thompson sampling) compute with floating point numbers, which TLC has not. The
question banks are data, the apps presentation, the rest configuration.
