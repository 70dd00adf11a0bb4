--------------------------- MODULE BatchPromises ---------------------------
(***************************************************************************)
(* What a batch of translations promises, with retries, workers that       *)
(* overlap, and workers that stop.                                         *)
(***************************************************************************)
EXTENDS TranslationBatch

At(t) == {w \in Worker : worker[w].pc \in {"translate", "commit"} /\ worker[w].text = t}
AtWork == {w \in Worker : worker[w].pc \in {"claim", "translate", "commit"}}
Retried == \E v, w \in Worker : v # w /\ worker[v].pc # "spare" /\ worker[w].pc # "spare"

\* A text is translated, and paid for, by one worker at a time, however many
\* drain the batch: whoever works on a task has it RUNNING, and alone
\* (batch_repo.py, next_pending_task).
ClaimedOnce ==
  \A t \in Text : \A v, w \in At(t) : v = w /\ task[t] = "RUNNING"

\* While no worker was cut off no task is forgotten: a claimed one has its
\* worker, a pending one, also one that was retried while the last worker was
\* leaving, has a worker that will ask again (batch_worker.py, run_batch).
NothingIsForgotten ==
  ~stopped => \A t \in Text :
                /\ task[t] = "RUNNING" => At(t) # {}
                /\ task[t] = "PENDING" => AtWork # {}

\* Before anything is retried the report is true: the counts are those of the
\* tasks, a batch that is over has no task left, and says DONE exactly when
\* none failed (batch_repo.py, _recount and finalize_batch_if_done).
ReportIsTrue ==
  ~Retried =>
    /\ batch.done = {t \in Text : task[t] = "SUCCEEDED"}
    /\ batch.failed = {t \in Text : task[t] = "FAILED"}
    /\ batch.status \in Over =>
         /\ ~Unfinished
         /\ batch.status = "DONE" <=> \A t \in Text : task[t] # "FAILED"

\* Every batch is over in the end, after retries as well, unless a worker was
\* cut off (batch_worker.py, run_batch).
BatchEnds == (batch.status \in {"QUEUED", "RUNNING"}) ~> (batch.status \in Over \/ stopped)
=============================================================================
