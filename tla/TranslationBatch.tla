-------------------------- MODULE TranslationBatch --------------------------
(***************************************************************************)
(* services/learning, localisation: one batch of translations, a task for  *)
(* each (question, language), and the background workers that drain it.    *)
(*                                                                         *)
(* The request that creates the batch starts a worker, and so does every   *)
(* retry of a failed task. Workers live in the memory of the service: one  *)
(* that stops is never started again. Statements run under READ COMMITTED, *)
(* so a count that waits for the lock of the batch's row writes what it    *)
(* saw before it waited.                                                   *)
(***************************************************************************)
EXTENDS FiniteSets

CONSTANTS
  Text,     \* the (question, language) pairs asked for
  Worker,   \* calls of run_batch: one, and one per retry
  NoText

ASSUME TextAssumption == NoText \notin Text

VARIABLES
  batch,    \* its row in translation_batches
  task,     \* translation_batch_tasks
  worker,   \* what each call of run_batch is about
  stopped   \* whether a worker was cut off

vars == <<batch, task, worker, stopped>>

TaskStatus == {"none", "SKIPPED", "PENDING", "RUNNING", "SUCCEEDED", "FAILED"}
BatchStatus == {"none", "QUEUED", "RUNNING", "DONE", "DONE_WITH_ERRORS"}
Over == {"DONE", "DONE_WITH_ERRORS"}

\* The counts of a batch, as the sets they count.
Count == [done: SUBSET Text, failed: SUBSET Text]

Call == [pc: {"spare", "claim", "translate", "commit", "look", "write", "ended"},
         text: Text \cup {NoText},
         result: TaskStatus,   \* the status it is about to commit
         count: Count]         \* the counts it is about to commit

TypeOK ==
  /\ batch \in [status: BatchStatus, done: SUBSET Text, failed: SUBSET Text]
  /\ task \in [Text -> TaskStatus]
  /\ worker \in [Worker -> Call]
  /\ stopped \in BOOLEAN

NoCount == [done |-> {}, failed |-> {}]
Spare == [pc |-> "spare", text |-> NoText, result |-> "none", count |-> NoCount]
Fresh == [Spare EXCEPT !.pc = "claim"]

Init ==
  /\ batch = [status |-> "none", done |-> {}, failed |-> {}]
  /\ task = [t \in Text |-> "none"]
  /\ worker = [w \in Worker |-> Spare]
  /\ stopped = FALSE

-----------------------------------------------------------------------------
(* Requests.                                                               *)

\* create_batch: pairs that are PUBLISHED are skipped, unless the caller wants
\* them overwritten. A batch without work is over at once.
CreateBatch(w, published) ==
  /\ batch.status = "none"
  /\ task' = [t \in Text |-> IF t \in published THEN "SKIPPED" ELSE "PENDING"]
  /\ batch' = [batch EXCEPT !.status = IF published = Text THEN "DONE" ELSE "QUEUED"]
  /\ worker' = IF published = Text THEN worker ELSE [worker EXCEPT ![w] = Fresh]
  /\ UNCHANGED stopped

\* _recount.
Recount(s) == [done   |-> {t \in Text : s[t] = "SUCCEEDED"},
               failed |-> {t \in Text : s[t] = "FAILED"}]

\* retry_task locks the batch's row before it counts.
RetryIfIdle(w, t) ==
  /\ worker[w].pc = "spare"
  /\ task[t] = "FAILED"
  /\ task' = [task EXCEPT ![t] = "PENDING"]
  /\ batch' = [batch EXCEPT !.status = "RUNNING"]
  /\ worker' = IF \A v \in Worker : worker[v].pc \in {"spare", "ended"}
               THEN [worker EXCEPT ![w] = Fresh] ELSE worker
  /\ UNCHANGED stopped

RetryTask(w, t) ==
  /\ worker[w].pc = "spare"
  /\ task[t] = "FAILED"
  /\ LET after == [task EXCEPT ![t] = "PENDING"]
     IN  /\ task' = after
         /\ batch' = [status |-> "RUNNING", done |-> Recount(after).done,
                      failed |-> Recount(after).failed]
  /\ worker' = [worker EXCEPT ![w] = Fresh]
  /\ UNCHANGED stopped

-----------------------------------------------------------------------------
(* run_batch.                                                              *)

\* next_pending_task and its commit: FOR UPDATE SKIP LOCKED hands a task to one
\* worker. The tasks of a batch have one created_at, so any may be the first.
ClaimUnmarked(w, t) ==
  /\ worker[w].pc = "claim"
  /\ task[t] \in {"PENDING", "RUNNING"}
  /\ task' = [task EXCEPT ![t] = "RUNNING"]
  /\ batch' = [batch EXCEPT !.status = IF @ = "QUEUED" THEN "RUNNING" ELSE @]
  /\ worker' = [worker EXCEPT ![w] = [Fresh EXCEPT !.pc = "translate", !.text = t]]
  /\ UNCHANGED stopped

Claim(w, t) ==
  /\ worker[w].pc = "claim"
  /\ task[t] = "PENDING"
  /\ task' = [task EXCEPT ![t] = "RUNNING"]
  /\ batch' = [batch EXCEPT !.status = IF @ = "QUEUED" THEN "RUNNING" ELSE @]
  /\ worker' = [worker EXCEPT ![w] = [Fresh EXCEPT !.pc = "translate", !.text = t]]
  /\ UNCHANGED stopped

NothingLeft(w) ==
  /\ worker[w].pc = "claim"
  /\ \A t \in Text : task[t] # "PENDING"
  /\ worker' = [worker EXCEPT ![w] = [Spare EXCEPT !.pc = "ended"]]
  /\ UNCHANGED <<batch, task, stopped>>

NothingPending(w) ==
  /\ worker[w].pc = "claim"
  /\ \A t \in Text : task[t] # "PENDING"
  /\ worker' = [worker EXCEPT ![w] = [Fresh EXCEPT !.pc = "look"]]
  /\ UNCHANGED <<batch, task, stopped>>

\* complete_task or fail_task: the task's status, and the counts of what is
\* committed and its own task.
Result(t, s) == [pc |-> "commit", text |-> t, result |-> s,
                 count |-> Recount([task EXCEPT ![t] = s])]

\* The gateway has answered, and the draft is written (s = SUCCEEDED), or it
\* has not, and all is rolled back (s = FAILED).
Translated(w, s) ==
  /\ worker[w].pc = "translate"
  /\ s \in {"SUCCEEDED", "FAILED"}
  /\ worker' = [worker EXCEPT ![w] = Result(worker[w].text, s)]
  /\ UNCHANGED <<batch, task, stopped>>

\* A commit that fails to complete a task is answered by fail_task.
CommitFails(w) ==
  /\ worker[w].pc = "commit"
  /\ worker[w].result = "SUCCEEDED"
  /\ worker' = [worker EXCEPT ![w] = Result(worker[w].text, "FAILED")]
  /\ UNCHANGED <<batch, task, stopped>>

CommitUncounted(w) ==
  /\ worker[w].pc = "commit"
  /\ task' = [task EXCEPT ![worker[w].text] = worker[w].result]
  /\ worker' = [worker EXCEPT ![w] = Fresh]
  /\ UNCHANGED <<batch, stopped>>

Commit(w) ==
  /\ worker[w].pc = "commit"
  /\ task' = [task EXCEPT ![worker[w].text] = worker[w].result]
  /\ batch' = [status |-> batch.status, done |-> worker[w].count.done,
               failed |-> worker[w].count.failed]
  /\ worker' = [worker EXCEPT ![w] = Fresh]
  /\ UNCHANGED stopped

\* finalize_batch_if_done is one UPDATE: it looks for tasks, waits for the
\* batch's row, and writes by what that row then says.
Unfinished == \E t \in Text : task[t] \in {"PENDING", "RUNNING"}

Look(w) ==
  /\ worker[w].pc = "look"
  /\ worker' = [worker EXCEPT ![w] =
       [Spare EXCEPT !.pc = IF batch.status \in Over \/ Unfinished THEN "ended" ELSE "write"]]
  /\ UNCHANGED <<batch, task, stopped>>

Finalize(w) ==
  /\ worker[w].pc = "write"
  /\ batch' = IF batch.status \in Over THEN batch
              ELSE [batch EXCEPT !.status = IF batch.failed # {} THEN "DONE_WITH_ERRORS" ELSE "DONE"]
  /\ worker' = [worker EXCEPT ![w] = [Spare EXCEPT !.pc = "ended"]]
  /\ UNCHANGED <<task, stopped>>

\* The service stops, or the database refuses what run_batch does not expect to
\* fail: the call is gone, and what it had not committed.
Stop(w) ==
  /\ worker[w].pc \notin {"spare", "ended"}
  /\ worker' = [worker EXCEPT ![w] = [Spare EXCEPT !.pc = "ended"]]
  /\ stopped' = TRUE
  /\ UNCHANGED <<batch, task>>

-----------------------------------------------------------------------------
RunBatch(w) ==
  \/ \E t \in Text : Claim(w, t)
  \/ NothingPending(w)
  \/ \E s \in TaskStatus : Translated(w, s)
  \/ Commit(w)
  \/ Look(w)
  \/ Finalize(w)

Next ==
  \E w \in Worker :
    \/ \E published \in SUBSET Text : CreateBatch(w, published)
    \/ \E t \in Text : RetryTask(w, t)
    \/ RunBatch(w)
    \/ CommitFails(w)
    \/ Stop(w)

Spec == Init /\ [][Next]_vars

\* A call that runs goes on: the gateway's calls time out.
FairSpec == Spec /\ \A w \in Worker : WF_vars(RunBatch(w))
=============================================================================
