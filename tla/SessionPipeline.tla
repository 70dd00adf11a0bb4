-------------------------- MODULE SessionPipeline --------------------------
(***************************************************************************)
(* How a submitted quiz session reaches a student's analytics: the quiz    *)
(* service publishes quiz.session.completed, the durable JetStream         *)
(* consumer of the engagement service applies it inside one database       *)
(* transaction and acknowledges it, and a nightly job re-applies what      *)
(* never arrived.  The module follows one student: every row that          *)
(* process_session writes is keyed by the user.                            *)
(*                                                                         *)
(* A step is one statement that reads or locks a row another transaction   *)
(* can change.  Two facts of PostgreSQL's READ COMMITTED are modelled: a   *)
(* SELECT sees what is committed when it runs, and an upsert waits for the *)
(* transaction that holds the row.  The readiness row (user, GLOBAL) is    *)
(* held from its upsert to the end of the transaction, so what follows it  *)
(* - streak, daily activity, revision queue, processed_sessions - is one   *)
(* step of the model, Book.                                                *)
(***************************************************************************)
EXTENDS Integers, Sequences

CONSTANTS
    Session,      \* the quiz sessions of one student
    Topic,
    TopicOf,      \* the topic of each session
    NoSession,
    Backfill,     \* whether the nightly job is scheduled
    Window,       \* how many days back the job's --since reaches
    Faults,       \* the kinds of failure that may happen
    MaxFaults,    \* bound: failures in a behaviour
    MaxDeliver,   \* deliveries of a message before JetStream drops it (5 in the code)
    MaxDay        \* bound: days in a behaviour

ASSUME PipelineAssumption ==
    /\ TopicOf \in [Session -> Topic]
    /\ NoSession \notin Session
    /\ Backfill \in BOOLEAN
    /\ Window \in Nat /\ MaxFaults \in Nat
    /\ MaxDeliver \in Nat \ {0} /\ MaxDay \in Nat \ {0}

Day == 1 .. MaxDay

\* Who runs process_session: the callback of the consumer (one message at a
\* time) and the job.
Worker == {"live"} \cup (IF Backfill THEN {"backfill"} ELSE {})

VARIABLES
    today,       \* the UTC day
    quiz,        \* quiz_sessions: what was submitted, and on which day
    log,         \* the submitted sessions in submitted_at order
    stream,      \* sessions whose event is in QUIZ_EVENTS
    deliveries,  \* times each message was delivered
    inbox,       \* messages pushed to the consumer and not yet handled
    acked,       \* messages acknowledged
    db,          \* the committed analytics rows
    xp,          \* committed quiz_completed XP events of each session
    work,        \* what each worker is doing
    tx,          \* the rows as a worker's transaction would commit them
    dirty,       \* whether that transaction has written them
    todo,        \* sessions the running scan of the job has still to visit
    ran,         \* the job has started today
    faults       \* failures so far

quizVars == <<quiz, log, stream>>
busVars == <<deliveries, inbox, acked>>
jobVars == <<todo, ran>>
workVars == <<work, tx, dirty>>
vars == <<today, quizVars, busVars, db, xp, workVars, jobVars, faults>>

-----------------------------------------------------------------------------
(* The rows. *)

\* A full session has an items array in its event.  A bare one was answered
\* but the event carries no items (LoadItemEvents failed); an empty one was
\* submitted before any question was served.
Shape == {"none", "full", "bare", "empty"}

Submitted == {s \in Session : quiz[s].shape # "none"}

\* A mastery row is kept as how often each session entered its average: n is
\* the sum, and the EWA is a function of the scores that were folded in.
Row == [Session -> Nat]
NoRow == [s \in Session |-> 0]
NoRows == [t \in Topic |-> NoRow]

\* last = 0: the user has no streak row.
Streak == [current : Nat, longest : Nat, last : 0 .. MaxDay]
NoStreak == [current |-> 0, longest |-> 0, last |-> 0]

Rows == [processed : SUBSET Session,
         mastery   : [Topic -> Row],
         readiness : [Topic -> Row],     \* the rows the score is the mean of
         streak    : Streak,
         credit    : [Session -> [Day -> Nat]],  \* daily_activity, per session
         ticks     : Nat]                \* streak_day XP events

Blank == [processed |-> {}, mastery |-> NoRows, readiness |-> NoRows,
          streak |-> NoStreak,
          credit |-> [s \in Session |-> [d \in Day |-> 0]], ticks |-> 0]

Stage == {"idle", "check", "read", "write", "list", "book", "booked", "fan",
          "award", "commit", "doomed", "ack"}
Work == [pc : Stage, cur : Session \cup {NoSession}, row : Row, list : [Topic -> Row]]
Idle == [pc |-> "idle", cur |-> NoSession, row |-> NoRow, list |-> NoRows]

Init ==
    /\ today = 1
    /\ quiz = [s \in Session |-> [shape |-> "none", day |-> 0]]
    /\ log = <<>>
    /\ stream = {}
    /\ deliveries = [s \in Session |-> 0]
    /\ inbox = <<>>
    /\ acked = {}
    /\ db = Blank
    /\ xp = [s \in Session |-> 0]
    /\ work = [w \in Worker |-> Idle]
    /\ tx = [w \in Worker |-> Blank]
    /\ dirty = [w \in Worker |-> FALSE]
    /\ todo = {}
    /\ ran = FALSE
    /\ faults = 0

-----------------------------------------------------------------------------
\* Mutant of NextStreak: any later day continues the streak.
NextStreakNoReset(old, d) ==
    LET n == old.current + 1
    IN  IF old.last = 0 THEN [current |-> 1, longest |-> 1, last |-> d]
        ELSE IF d = old.last THEN old
        ELSE [current |-> n,
              longest |-> IF old.longest < n THEN n ELSE old.longest,
              last |-> d]

(* compute_next_streak, for a session credited to day d. *)
NextStreak(old, d) ==
    LET n == IF d = old.last + 1 THEN old.current + 1 ELSE 1
    IN  IF old.last = 0 THEN [current |-> 1, longest |-> 1, last |-> d]
        ELSE IF d = old.last THEN old
        ELSE [current |-> n,
              longest |-> IF old.longest < n THEN n ELSE old.longest,
              last |-> d]

\* The streak went up, and is still short enough to be worth XP.
StreakXpCap == 30
Ticked(old, new) == new.current > old.current /\ new.current <= StreakXpCap

\* Mutant of Booked: mark_session_processed is forgotten.
BookedUnmarked(old, s, d, row, list) ==
    [processed |-> old.processed,
     mastery   |-> [old.mastery EXCEPT ![TopicOf[s]] = row],
     readiness |-> list,
     streak    |-> NextStreak(old.streak, d),
     credit    |-> [old.credit EXCEPT ![s][d] = @ + 1],
     ticks     |-> old.ticks]

\* What process_session writes for session s on day d: row is the mastery row
\* computed from the n it read, list the mastery rows it averaged.
Booked(old, s, d, row, list) ==
    [processed |-> old.processed \cup {s},
     mastery   |-> [old.mastery EXCEPT ![TopicOf[s]] = row],
     readiness |-> list,
     streak    |-> NextStreak(old.streak, d),
     credit    |-> [old.credit EXCEPT ![s][d] = @ + 1],
     ticks     |-> old.ticks]

\* The transaction of w holds its mastery row from "list" on, and the user's
\* readiness row, with all that is written after it, while it is dirty.
HoldsTopic(w, t) ==
    /\ work[w].cur # NoSession /\ TopicOf[work[w].cur] = t
    /\ work[w].pc \in {"list", "book"} \/ dirty[w]
HoldsUser(w) == dirty[w]

Others(w) == Worker \ {w}

Fault(kind) == kind \in Faults /\ faults < MaxFaults /\ faults' = faults + 1

Goto(w, stage) == work' = [work EXCEPT ![w].pc = stage]

\* The transaction ends; with nothing written there is nothing to keep.
Close(w) == tx' = [tx EXCEPT ![w] = Blank] /\ dirty' = [dirty EXCEPT ![w] = FALSE]

-----------------------------------------------------------------------------
(* The quiz service and the message bus. *)

Earlier(r, s) ==
    \E i, j \in 1 .. Len(log) : i < j /\ log[i] = r /\ log[j] = s

\* Submit closes the session, then publishes; a publish error is logged and
\* swallowed, and the process may stop between the two.
Submit(s) ==
    /\ quiz[s].shape = "none"
    /\ \E shape \in Shape \ {"none"} :
         quiz' = [quiz EXCEPT ![s] = [shape |-> shape, day |-> today]]
    /\ log' = Append(log, s)
    /\ \/ stream' = stream \cup {s} /\ UNCHANGED faults
       \/ Fault("lost") /\ UNCHANGED stream
    /\ UNCHANGED <<today, busVars, db, xp, workVars, jobVars>>

\* JetStream pushes a message: the first time in stream order, again when it
\* was refused or its process stopped, and - when the handler took longer than
\* ack_wait - while it is still being handled.  After MaxDeliver it is dropped.
Deliver(s) ==
    /\ s \in stream \ acked
    /\ deliveries[s] < MaxDeliver
    /\ \A r \in stream : Earlier(r, s) => deliveries[r] > 0
    /\ \/ s # work["live"].cur /\ (\A i \in 1 .. Len(inbox) : inbox[i] # s)
          /\ UNCHANGED faults
       \/ s = work["live"].cur /\ Fault("slow")
    /\ deliveries' = [deliveries EXCEPT ![s] = @ + 1]
    /\ inbox' = Append(inbox, s)
    /\ UNCHANGED <<today, quizVars, acked, db, xp, workVars, jobVars>>

NextDay ==
    /\ today < MaxDay
    /\ Backfill => ran
    /\ today' = today + 1
    /\ ran' = FALSE
    /\ UNCHANGED <<quizVars, busVars, db, xp, workVars, todo, faults>>

-----------------------------------------------------------------------------
(* process_session, run by either worker. *)

\* Mutant of Check: the dedup gate is missing.
CheckUngated(w) ==
    /\ work[w].pc = "check"
    /\ Goto(w, "read")
    /\ UNCHANGED <<today, quizVars, busVars, db, xp, tx, dirty, jobVars, faults>>

\* is_session_processed.  A session already booked leaves process_session at
\* once; the consumer then still runs what follows it.
Check(w) ==
    /\ work[w].pc = "check"
    /\ Goto(w, IF work[w].cur \notin db.processed THEN "read"
               ELSE IF w = "live" THEN "fan" ELSE "commit")
    /\ UNCHANGED <<today, quizVars, busVars, db, xp, tx, dirty, jobVars, faults>>

\* get_mastery
ReadMastery(w) ==
    /\ work[w].pc = "read"
    /\ work' = [work EXCEPT ![w].pc = "write",
                            ![w].row = db.mastery[TopicOf[work[w].cur]]]
    /\ UNCHANGED <<today, quizVars, busVars, db, xp, tx, dirty, jobVars, faults>>

\* Mutant of WriteMastery: the row is written back as it was read.
WriteMasteryAsRead(w) ==
    /\ work[w].pc = "write"
    /\ \A v \in Others(w) : ~HoldsTopic(v, TopicOf[work[w].cur])
    /\ Goto(w, "list")
    /\ UNCHANGED <<today, quizVars, busVars, db, xp, tx, dirty, jobVars, faults>>

\* upsert_mastery: n + 1 of the row that was read, once the row is free.
WriteMastery(w) ==
    /\ work[w].pc = "write"
    /\ \A v \in Others(w) : ~HoldsTopic(v, TopicOf[work[w].cur])
    /\ work' = [work EXCEPT ![w].pc = "list",
                            ![w].row[work[w].cur] = @ + 1]
    /\ UNCHANGED <<today, quizVars, busVars, db, xp, tx, dirty, jobVars, faults>>

\* list_user_mastery: the committed rows, and the one just written.
ListMastery(w) ==
    /\ work[w].pc = "list"
    /\ work' = [work EXCEPT ![w].pc = "book",
                            ![w].list = [db.mastery EXCEPT
                                           ![TopicOf[work[w].cur]] = work[w].row]]
    /\ UNCHANGED <<today, quizVars, busVars, db, xp, tx, dirty, jobVars, faults>>

\* From upsert_readiness to mark_session_processed.  The consumer credits the
\* day it runs on, the job the day of submitted_at.
Book(w) ==
    /\ work[w].pc = "book"
    /\ \A v \in Others(w) : ~HoldsUser(v)
    /\ LET s == work[w].cur
           d == IF w = "live" THEN today ELSE quiz[s].day
       IN  tx' = [tx EXCEPT ![w] = Booked(db, s, d, work[w].row, work[w].list)]
    /\ dirty' = [dirty EXCEPT ![w] = TRUE]
    /\ Goto(w, "booked")
    /\ UNCHANGED <<today, quizVars, busVars, db, xp, jobVars, faults>>

\* The XP of a streak day.  award_xp ends with session.commit(), so a streak
\* that ticks up commits everything written so far; otherwise nothing happens.
StreakXp(w) ==
    /\ work[w].pc = "booked"
    /\ IF Ticked(db.streak, tx[w].streak)
       THEN /\ db' = [tx[w] EXCEPT !.ticks = @ + 1]
            /\ Close(w)
       ELSE UNCHANGED <<db, tx, dirty>>
    /\ Goto(w, IF w = "live" THEN "fan" ELSE "commit")
    /\ UNCHANGED <<today, quizVars, busVars, xp, jobVars, faults>>

-----------------------------------------------------------------------------
(* The rest of the consumer's callback. *)

\* Mutant of Take: the message is acknowledged when it arrives.
TakeAcking ==
    /\ work["live"].pc = "idle" /\ inbox # <<>>
    /\ work' = [work EXCEPT !["live"] = [Idle EXCEPT !.pc = "check", !.cur = Head(inbox)]]
    /\ inbox' = Tail(inbox)
    /\ acked' = acked \cup {Head(inbox)}
    /\ UNCHANGED <<today, quizVars, deliveries, db, xp, tx, dirty, jobVars, faults>>

Take ==
    /\ work["live"].pc = "idle" /\ inbox # <<>>
    /\ work' = [work EXCEPT !["live"] = [Idle EXCEPT !.pc = "check", !.cur = Head(inbox)]]
    /\ inbox' = Tail(inbox)
    /\ UNCHANGED <<today, quizVars, deliveries, acked, db, xp, tx, dirty, jobVars, faults>>

\* Section stats and the per-item fan-out; skipped when the event has no items.
Fan ==
    /\ work["live"].pc = "fan"
    /\ Goto("live", IF quiz[work["live"].cur].shape = "full" THEN "award" ELSE "commit")
    /\ UNCHANGED <<today, quizVars, busVars, db, xp, tx, dirty, jobVars, faults>>

\* Mutant of AwardXp: the XP goes in by a transaction of its own.
AwardXpApart ==
    /\ work["live"].pc = "award"
    /\ xp' = [xp EXCEPT ![work["live"].cur] = @ + 1]
    /\ Goto("live", "commit")
    /\ UNCHANGED <<today, quizVars, busVars, db, tx, dirty, jobVars, faults>>

\* award_xp for the session, which again commits what the transaction holds.
AwardXp ==
    /\ work["live"].pc = "award"
    /\ xp' = [xp EXCEPT ![work["live"].cur] = @ + 1]
    /\ db' = IF dirty["live"] THEN tx["live"] ELSE db
    /\ Close("live")
    /\ Goto("live", "commit")
    /\ UNCHANGED <<today, quizVars, busVars, jobVars, faults>>

\* session.commit().  On a transaction with a failed statement PostgreSQL
\* answers COMMIT with a rollback and no error.
Commit(w) ==
    /\ work[w].pc \in {"commit", "doomed"}
    /\ db' = IF work[w].pc = "commit" /\ dirty[w] THEN tx[w] ELSE db
    /\ Close(w)
    /\ IF w = "live" THEN Goto(w, "ack") ELSE work' = [work EXCEPT ![w] = Idle]
    /\ UNCHANGED <<today, quizVars, busVars, xp, jobVars, faults>>

\* msg.ack(), whose errors are suppressed.
Ack ==
    /\ work["live"].pc = "ack"
    /\ \/ acked' = acked \cup {work["live"].cur} /\ UNCHANGED faults
       \/ Fault("ack") /\ UNCHANGED acked
    /\ work' = [work EXCEPT !["live"] = Idle]
    /\ UNCHANGED <<today, quizVars, deliveries, inbox, db, xp, tx, dirty, jobVars>>

-----------------------------------------------------------------------------
(* The nightly job. *)

\* Mutant of InWindow: yesterday is one day too far back.
InWindowShort(s) == quiz[s].shape \in {"full", "bare"} /\ quiz[s].day + Window > today

\* The rows the job reads: everything in the window that served a question.
InWindow(s) == quiz[s].shape \in {"full", "bare"} /\ quiz[s].day + Window >= today

StartScan ==
    /\ Backfill /\ work["backfill"].pc = "idle" /\ todo = {}
    /\ todo' = {s \in Session : InWindow(s)}
    /\ ran' = TRUE
    /\ UNCHANGED <<today, quizVars, busVars, db, xp, workVars, faults>>

\* The next row of the scan, in submitted_at order.
Visit ==
    /\ Backfill /\ work["backfill"].pc = "idle"
    /\ \E s \in todo :
         /\ \A r \in todo : ~Earlier(r, s)
         /\ todo' = todo \ {s}
         /\ work' = [work EXCEPT !["backfill"] = [Idle EXCEPT !.pc = "check", !.cur = s]]
    /\ UNCHANGED <<today, quizVars, busVars, db, xp, tx, dirty, ran, faults>>

-----------------------------------------------------------------------------
(* Failures. *)

InTransaction(w) == work[w].pc \notin {"idle", "ack"}

\* A statement raises and the exception reaches the caller: the consumer rolls
\* back and refuses the message, the job rolls back and goes on.
Abort(w) ==
    /\ InTransaction(w) /\ work[w].pc # "doomed"
    /\ Fault("abort")
    /\ Close(w)
    /\ work' = [work EXCEPT ![w] = Idle]
    /\ UNCHANGED <<today, quizVars, busVars, db, xp, jobVars>>

\* A statement of a best-effort block raises; the block swallows the exception
\* but the transaction can no longer write.  In process_session that is the
\* streak XP or the totals read after it, when no later statement raises again
\* outside such a block; in the callback the fan-out and the session's XP.
Poison(w) ==
    /\ \/ work[w].pc = "booked" /\ (w = "live" => quiz[work[w].cur].shape # "full")
       \/ w = "live" /\ work[w].pc \in {"fan", "award"}
          /\ quiz[work[w].cur].shape = "full"
    /\ Fault("statement")
    /\ Goto(w, "doomed")
    /\ UNCHANGED <<today, quizVars, busVars, db, xp, tx, dirty, jobVars>>

\* The engagement process, or the job, stops: the transaction is rolled back
\* and what was pushed to the process is gone with it.
Crash(w) ==
    /\ work[w].pc # "idle" \/ (IF w = "live" THEN inbox # <<>> ELSE todo # {})
    /\ Fault("crash")
    /\ Close(w)
    /\ work' = [work EXCEPT ![w] = Idle]
    /\ IF w = "live" THEN inbox' = <<>> /\ UNCHANGED todo
                     ELSE todo' = {} /\ UNCHANGED inbox
    /\ UNCHANGED <<today, quizVars, deliveries, acked, db, xp, ran>>

-----------------------------------------------------------------------------
Process(w) ==
    \/ Check(w) \/ ReadMastery(w) \/ WriteMastery(w) \/ ListMastery(w)
    \/ Book(w) \/ StreakXp(w) \/ Commit(w)

Consume == Take \/ Fan \/ AwardXp \/ Ack

Next ==
    \/ \E s \in Session : Submit(s) \/ Deliver(s)
    \/ \E w \in Worker : Process(w) \/ Abort(w) \/ Poison(w) \/ Crash(w)
    \/ Consume \/ StartScan \/ Visit \/ NextDay

\* The bus delivers, the callback and the job run on, the cron starts the job.
Fairness ==
    /\ \A s \in Session : WF_vars(Deliver(s))
    /\ \A w \in Worker : WF_vars(Process(w))
    /\ WF_vars(Consume) /\ WF_vars(StartScan) /\ WF_vars(Visit)

Spec == Init /\ [][Next]_vars
FairSpec == Spec /\ Fairness

-----------------------------------------------------------------------------
\* Every variable keeps its type; a worker holds a session unless it is idle,
\* and only a worker past its booking has rows to commit.
TypeOK ==
    /\ today \in Day
    /\ quiz \in [Session -> [shape : Shape, day : 0 .. MaxDay]]
    /\ log \in Seq(Session)
    /\ stream \subseteq Session /\ acked \subseteq Session /\ todo \subseteq Session
    /\ deliveries \in [Session -> 0 .. MaxDeliver]
    /\ inbox \in Seq(Session)
    /\ db \in Rows
    /\ xp \in [Session -> Nat]
    /\ work \in [Worker -> Work]
    /\ tx \in [Worker -> Rows]
    /\ dirty \in [Worker -> BOOLEAN]
    /\ ran \in BOOLEAN
    /\ faults \in 0 .. MaxFaults
    /\ \A w \in Worker : work[w].cur = NoSession <=> work[w].pc = "idle"

=============================================================================
