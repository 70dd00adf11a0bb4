---------------------------- MODULE BatchProofs ----------------------------
(***************************************************************************)
(* Proofs about a batch of translations, for any texts and any number of   *)
(* retries: its types, and the safety promises of BatchPromises.           *)
(***************************************************************************)
EXTENDS BatchPromises, TLAPS

Busy(w) == worker[w].pc \in {"translate", "commit"}

\* What a call of run_batch holds.
CallsAreSound ==
  \A w \in Worker :
    /\ Busy(w) => worker[w].text \in Text
    /\ worker[w].pc = "commit" => worker[w].result \in {"SUCCEEDED", "FAILED"}

\* Work begins with the request that creates the batch.
NothingBefore ==
  /\ batch.status = "none" =>
       /\ \A t \in Text : task[t] = "none"
       /\ \A w \in Worker : worker[w].pc = "spare"
       /\ batch.done = {} /\ batch.failed = {}
  /\ \A t \in Text : task[t] \notin {"none", "SKIPPED"} => \E w \in Worker : worker[w].pc # "spare"

\* What the only worker is about to write is still true.
Current ==
  ~Retried =>
    \A w \in Worker :
      /\ worker[w].pc = "commit" =>
           worker[w].count = Recount([task EXCEPT ![worker[w].text] = worker[w].result])
      /\ worker[w].pc = "write" => ~Unfinished

BatchInv == /\ TypeOK /\ CallsAreSound /\ NothingBefore
            /\ ClaimedOnce /\ NothingIsForgotten /\ ReportIsTrue /\ Current

LEMMA SpareTypes == Spare \in Call /\ Spare.pc = "spare"
BY DEF Call, Spare, NoCount, Count, TaskStatus

LEMMA FreshTypes == Fresh \in Call /\ Fresh.pc = "claim"
BY DEF Call, Fresh, Spare, NoCount, Count, TaskStatus

LEMMA CallTypes ==
    /\ \A t \in Text : LET c == [Fresh EXCEPT !.pc = "translate", !.text = t]
                       IN  c \in Call /\ c.pc = "translate" /\ c.text = t
    /\ LET c == [Fresh EXCEPT !.pc = "look"] IN c \in Call /\ c.pc = "look"
    /\ \A p \in {"ended", "write"} :
         LET c == [Spare EXCEPT !.pc = p] IN c \in Call /\ c.pc = p
BY DEF Call, Fresh, Spare, NoCount, Count, TaskStatus

LEMMA RecountTypes == \A s : Recount(s) \in Count
BY DEF Recount, Count

LEMMA ResultTypes ==
    ASSUME NEW t \in Text, NEW s \in TaskStatus
    PROVE  LET c == Result(t, s)
           IN  /\ c \in Call /\ c.pc = "commit" /\ c.text = t /\ c.result = s
               /\ c.count = Recount([task EXCEPT ![t] = s])
BY RecountTypes DEF Result, Call

LEMMA InitBatch == Init => BatchInv
<1> SUFFICES ASSUME Init PROVE BatchInv
  OBVIOUS
<1>1. TypeOK
  BY SpareTypes DEF Init, TypeOK, BatchStatus, TaskStatus
<1>2. \A w \in Worker : worker[w].pc = "spare"
  BY SpareTypes DEF Init
<1> QED
  BY <1>1, <1>2 DEF BatchInv, Init, CallsAreSound, Busy, NothingBefore, ClaimedOnce, At,
     NothingIsForgotten, ReportIsTrue, Retried, Over, Current

\* A call moves on to c, and the others stay.
Moves(w, c) == /\ worker' = [worker EXCEPT ![w] = c]
               /\ c \in Call

LEMMA MoveFacts ==
    ASSUME TypeOK, NEW w \in Worker, NEW c, Moves(w, c)
    PROVE  /\ worker' \in [Worker -> Call]
           /\ worker'[w] = c
           /\ \A v \in Worker \ {w} : worker'[v] = worker[v]
BY DEF TypeOK, Moves

-----------------------------------------------------------------------------
(* The steps.                                                              *)

LEMMA CreateStep ==
    ASSUME BatchInv, NEW w \in Worker, NEW published \in SUBSET Text, CreateBatch(w, published)
    PROVE  BatchInv'
<1> USE DEF BatchInv
<1>1. /\ \A t \in Text : task[t] = "none"
      /\ \A v \in Worker : worker[v].pc = "spare"
      /\ batch.done = {} /\ batch.failed = {}
  BY DEF CreateBatch, NothingBefore
<1>2. /\ task' \in [Text -> TaskStatus]
      /\ \A t \in Text : task'[t] = IF t \in published THEN "SKIPPED" ELSE "PENDING"
  BY DEF CreateBatch, TaskStatus
<1>3. /\ batch' \in [status: BatchStatus, done: SUBSET Text, failed: SUBSET Text]
      /\ batch'.done = {} /\ batch'.failed = {}
      /\ batch'.status = IF published = Text THEN "DONE" ELSE "QUEUED"
  BY <1>1 DEF CreateBatch, TypeOK, BatchStatus
<1>4. CASE published = Text
  <2>1. worker' = worker /\ stopped' = stopped
    BY <1>4 DEF CreateBatch
  <2> QED
    BY <1>1, <1>2, <1>3, <1>4, <2>1 DEF TypeOK, CallsAreSound, Busy, NothingBefore, ClaimedOnce, At,
       NothingIsForgotten, AtWork, ReportIsTrue, Retried, Over, Unfinished, Current
<1>5. CASE published # Text
  <2>1. /\ worker' \in [Worker -> Call] /\ worker'[w].pc = "claim"
        /\ \A v \in Worker \ {w} : worker'[v].pc = "spare"
        /\ stopped' = stopped
    <3>1. Moves(w, Fresh) /\ stopped' = stopped
      BY <1>5, FreshTypes DEF CreateBatch, Moves
    <3> QED
      BY <1>1, <3>1, MoveFacts, FreshTypes
  <2> QED
    BY <1>1, <1>2, <1>3, <1>5, <2>1 DEF TypeOK, CallsAreSound, Busy, NothingBefore, ClaimedOnce, At,
       NothingIsForgotten, AtWork, ReportIsTrue, Retried, Over, Unfinished, Current
<1> QED
  BY <1>4, <1>5

LEMMA RetryStep ==
    ASSUME BatchInv, NEW w \in Worker, NEW t \in Text, RetryTask(w, t)
    PROVE  BatchInv'
<1> USE DEF BatchInv
<1>1. Moves(w, Fresh) /\ worker[w].pc = "spare"
  BY FreshTypes DEF RetryTask, Moves
<1>2. /\ worker' \in [Worker -> Call] /\ worker'[w].pc = "claim"
      /\ \A v \in Worker \ {w} : worker'[v] = worker[v]
  BY <1>1, MoveFacts, FreshTypes
<1>3. /\ task' = [task EXCEPT ![t] = "PENDING"] /\ task[t] = "FAILED" /\ stopped' = stopped
      /\ task' \in [Text -> TaskStatus]
  BY DEF RetryTask, TypeOK, TaskStatus
<1>4. batch' \in [status: BatchStatus, done: SUBSET Text, failed: SUBSET Text]
      /\ batch'.status = "RUNNING"
  BY DEF RetryTask, Recount, BatchStatus
<1>5. Retried'
  <2>1. PICK v \in Worker : worker[v].pc # "spare"
    BY <1>3 DEF NothingBefore
  <2> QED
    BY <1>1, <1>2, <2>1 DEF Retried
<1>6. CallsAreSound' /\ ClaimedOnce' /\ NothingBefore'
  BY <1>1, <1>2, <1>3, <1>4 DEF TypeOK, CallsAreSound, Busy, ClaimedOnce, At, NothingBefore
<1>7. NothingIsForgotten'
  BY <1>1, <1>2, <1>3 DEF TypeOK, NothingIsForgotten, At, AtWork
<1> QED
  BY <1>2, <1>3, <1>4, <1>5, <1>6, <1>7 DEF TypeOK, ReportIsTrue, Current

LEMMA ClaimStep ==
    ASSUME BatchInv, NEW w \in Worker, NEW t \in Text, Claim(w, t)
    PROVE  BatchInv'
<1> USE DEF BatchInv
<1> DEFINE c == [Fresh EXCEPT !.pc = "translate", !.text = t]
<1>1. Moves(w, c) /\ worker[w].pc = "claim" /\ c.pc = "translate" /\ c.text = t
  BY CallTypes DEF Claim, Moves
<1> HIDE DEF c
<1>2. /\ worker' \in [Worker -> Call] /\ worker'[w] = c
      /\ \A v \in Worker \ {w} : worker'[v] = worker[v]
  BY <1>1, MoveFacts
<1>3. /\ task' = [task EXCEPT ![t] = "RUNNING"] /\ task[t] = "PENDING" /\ stopped' = stopped
      /\ task' \in [Text -> TaskStatus]
  BY DEF Claim, TypeOK, TaskStatus
<1>4. /\ batch' \in [status: BatchStatus, done: SUBSET Text, failed: SUBSET Text]
      /\ batch'.status = (IF batch.status = "QUEUED" THEN "RUNNING" ELSE batch.status)
      /\ batch'.done = batch.done /\ batch'.failed = batch.failed
  BY DEF Claim, TypeOK, BatchStatus
<1>5. CallsAreSound' /\ ClaimedOnce'
  BY <1>1, <1>2, <1>3 DEF TypeOK, CallsAreSound, Busy, ClaimedOnce, At
<1>6. NothingBefore'
  BY <1>1, <1>2, <1>3, <1>4 DEF TypeOK, NothingBefore
<1>7. NothingIsForgotten'
  BY <1>1, <1>2, <1>3 DEF TypeOK, NothingIsForgotten, At, AtWork
<1>8. ReportIsTrue' /\ Current'
  <2> SUFFICES ASSUME ~Retried' PROVE ReportIsTrue' /\ Current'
    BY DEF ReportIsTrue, Current
  <2>1. ~Retried /\ \A v \in Worker \ {w} : worker'[v].pc = "spare"
    BY <1>1, <1>2 DEF Retried
  <2>2. Unfinished /\ batch.status \notin Over
    BY <1>3, <2>1 DEF Unfinished, ReportIsTrue
  <2>3. ReportIsTrue'
    BY <1>3, <1>4, <2>1, <2>2 DEF TypeOK, ReportIsTrue, Over
  <2> QED
    BY <1>1, <1>2, <2>1, <2>3 DEF Current
<1> QED
  BY <1>2, <1>3, <1>4, <1>5, <1>6, <1>7, <1>8 DEF TypeOK

LEMMA NothingPendingStep ==
    ASSUME BatchInv, NEW w \in Worker, NothingPending(w)
    PROVE  BatchInv'
<1> USE DEF BatchInv
<1> DEFINE c == [Fresh EXCEPT !.pc = "look"]
<1>1. Moves(w, c) /\ worker[w].pc = "claim" /\ c.pc = "look"
  BY CallTypes DEF NothingPending, Moves
<1> HIDE DEF c
<1>2. /\ worker' \in [Worker -> Call] /\ worker'[w] = c
      /\ \A v \in Worker \ {w} : worker'[v] = worker[v]
  BY <1>1, MoveFacts
<1>3. batch' = batch /\ task' = task /\ stopped' = stopped /\ \A t \in Text : task[t] # "PENDING"
  BY DEF NothingPending
<1> QED
  BY <1>1, <1>2, <1>3 DEF TypeOK, CallsAreSound, Busy, NothingBefore, ClaimedOnce, At,
     NothingIsForgotten, AtWork, ReportIsTrue, Retried, Unfinished, Current

\* A task's result is counted, by complete_task, by fail_task, or by fail_task
\* after complete_task.
LEMMA CountStep ==
    ASSUME BatchInv, NEW w \in Worker, NEW s \in {"SUCCEEDED", "FAILED"},
           Busy(w), UNCHANGED <<batch, task, stopped>>,
           worker' = [worker EXCEPT ![w] = Result(worker[w].text, s)]
    PROVE  BatchInv'
<1> USE DEF BatchInv
<1> DEFINE c == Result(worker[w].text, s)
<1>1. worker[w].text \in Text /\ s \in TaskStatus
  BY DEF CallsAreSound, TaskStatus
<1>2. /\ Moves(w, c)
      /\ c.pc = "commit" /\ c.text = worker[w].text /\ c.result = s
  BY <1>1, ResultTypes DEF Moves
<1>3. c.count = Recount([task' EXCEPT ![worker[w].text] = s])
  BY <1>1, ResultTypes
<1> HIDE DEF c
<1>4. /\ worker' \in [Worker -> Call] /\ worker'[w] = c
      /\ \A v \in Worker \ {w} : worker'[v] = worker[v]
  BY <1>2, MoveFacts
<1>5. CallsAreSound' /\ ClaimedOnce' /\ NothingBefore'
  BY <1>1, <1>2, <1>4 DEF CallsAreSound, Busy, ClaimedOnce, At, NothingBefore
<1>6. NothingIsForgotten' /\ ReportIsTrue'
  BY <1>2, <1>4 DEF Busy, NothingIsForgotten, At, AtWork, ReportIsTrue, Retried, Unfinished
<1>7. Current'
  BY <1>2, <1>3, <1>4 DEF Current, Retried, Unfinished, Busy
<1> QED
  BY <1>4, <1>5, <1>6, <1>7 DEF TypeOK

LEMMA CommitStep ==
    ASSUME BatchInv, NEW w \in Worker, Commit(w)
    PROVE  BatchInv'
<1> USE DEF BatchInv
<1> DEFINE t == worker[w].text
           s == worker[w].result
<1>1. Moves(w, Fresh) /\ worker[w].pc = "commit" /\ t \in Text /\ s \in {"SUCCEEDED", "FAILED"}
  BY FreshTypes DEF Commit, Moves, CallsAreSound, Busy
<1>2. /\ worker' \in [Worker -> Call] /\ worker'[w].pc = "claim"
      /\ \A v \in Worker \ {w} : worker'[v] = worker[v]
  BY <1>1, MoveFacts, FreshTypes
<1>3. /\ task' = [task EXCEPT ![t] = s] /\ task[t] = "RUNNING" /\ stopped' = stopped
      /\ task' \in [Text -> TaskStatus]
  BY <1>1 DEF Commit, TypeOK, TaskStatus, ClaimedOnce, At
<1>4. /\ batch' \in [status: BatchStatus, done: SUBSET Text, failed: SUBSET Text]
      /\ batch'.status = batch.status
      /\ batch'.done = worker[w].count.done /\ batch'.failed = worker[w].count.failed
  <2>1. worker[w].count \in Count
    BY DEF TypeOK, Call
  <2> QED
    BY <2>1 DEF Commit, TypeOK, Count
<1> HIDE DEF t, s
<1>5. ClaimedOnce'
  <2> SUFFICES ASSUME NEW u \in Text, NEW v \in Worker, NEW x \in Worker,
                      v \in At(u)', x \in At(u)'
               PROVE  v = x /\ task'[u] = "RUNNING"
    BY DEF ClaimedOnce, At
  <2>1. v # w /\ x # w /\ v \in At(u) /\ x \in At(u)
    BY <1>2 DEF At
  <2>2. u # t
    BY <1>1, <2>1 DEF ClaimedOnce, At, t
  <2> QED
    BY <1>3, <2>1, <2>2 DEF ClaimedOnce
<1>6. CallsAreSound' /\ NothingBefore'
  BY <1>1, <1>2, <1>3, <1>4 DEF TypeOK, CallsAreSound, Busy, NothingBefore
<1>7. NothingIsForgotten'
  BY <1>1, <1>2, <1>3 DEF TypeOK, NothingIsForgotten, At, AtWork, t
<1>8. ReportIsTrue' /\ Current'
  <2> SUFFICES ASSUME ~Retried' PROVE ReportIsTrue' /\ Current'
    BY DEF ReportIsTrue, Current
  <2>1. ~Retried /\ \A v \in Worker \ {w} : worker'[v].pc = "spare"
    BY <1>1, <1>2 DEF Retried
  <2>2. worker[w].count = Recount(task')
    BY <1>1, <1>3, <2>1 DEF Current, t, s
  <2>3. batch'.done = {u \in Text : task'[u] = "SUCCEEDED"}
        /\ batch'.failed = {u \in Text : task'[u] = "FAILED"}
    BY <1>4, <2>2 DEF Recount
  <2>4. batch'.status \notin Over
    BY <1>1, <1>3, <1>4, <2>1 DEF ReportIsTrue, Unfinished
  <2> QED
    BY <1>2, <2>1, <2>3, <2>4 DEF ReportIsTrue, Current
<1> QED
  BY <1>2, <1>3, <1>4, <1>5, <1>6, <1>7, <1>8 DEF TypeOK

LEMMA LookStep ==
    ASSUME BatchInv, NEW w \in Worker, Look(w)
    PROVE  BatchInv'
<1> USE DEF BatchInv
<1> DEFINE p == IF batch.status \in Over \/ Unfinished THEN "ended" ELSE "write"
           c == [Spare EXCEPT !.pc = p]
<1>1. Moves(w, c) /\ worker[w].pc = "look" /\ c.pc = p /\ p \in {"ended", "write"}
  BY CallTypes DEF Look, Moves
<1>2. p = "write" => ~Unfinished
  OBVIOUS
<1> HIDE DEF c, p
<1>3. /\ worker' \in [Worker -> Call] /\ worker'[w] = c
      /\ \A v \in Worker \ {w} : worker'[v] = worker[v]
  BY <1>1, MoveFacts
<1>4. batch' = batch /\ task' = task /\ stopped' = stopped
  BY DEF Look
<1> QED
  BY <1>1, <1>2, <1>3, <1>4 DEF TypeOK, CallsAreSound, Busy, NothingBefore, ClaimedOnce, At,
     NothingIsForgotten, AtWork, ReportIsTrue, Retried, Unfinished, Current

LEMMA FinalizeStep ==
    ASSUME BatchInv, NEW w \in Worker, Finalize(w)
    PROVE  BatchInv'
<1> USE DEF BatchInv
<1> DEFINE c == [Spare EXCEPT !.pc = "ended"]
<1>1. Moves(w, c) /\ worker[w].pc = "write" /\ c.pc = "ended"
  BY CallTypes DEF Finalize, Moves
<1> HIDE DEF c
<1>2. /\ worker' \in [Worker -> Call] /\ worker'[w] = c
      /\ \A v \in Worker \ {w} : worker'[v] = worker[v]
  BY <1>1, MoveFacts
<1>3. /\ task' = task /\ stopped' = stopped
      /\ batch' \in [status: BatchStatus, done: SUBSET Text, failed: SUBSET Text]
      /\ batch'.done = batch.done /\ batch'.failed = batch.failed
      /\ batch'.status = IF batch.status \in Over THEN batch.status
                         ELSE IF batch.failed # {} THEN "DONE_WITH_ERRORS" ELSE "DONE"
  BY DEF Finalize, TypeOK, BatchStatus
<1>4. CallsAreSound' /\ ClaimedOnce' /\ NothingIsForgotten'
  BY <1>1, <1>2, <1>3 DEF CallsAreSound, Busy, ClaimedOnce, At, NothingIsForgotten, AtWork
<1>5. NothingBefore'
  BY <1>1, <1>2, <1>3 DEF NothingBefore, Over
<1>6. ReportIsTrue' /\ Current'
  <2> SUFFICES ASSUME ~Retried' PROVE ReportIsTrue' /\ Current'
    BY DEF ReportIsTrue, Current
  <2>1. ~Retried /\ \A v \in Worker \ {w} : worker'[v].pc = "spare"
    BY <1>1, <1>2 DEF Retried
  <2>2. ~Unfinished /\ batch.failed = {t \in Text : task[t] = "FAILED"}
    BY <1>1, <2>1 DEF Current, ReportIsTrue
  <2> QED
    BY <1>1, <1>2, <1>3, <2>1, <2>2 DEF ReportIsTrue, Current, Over, Unfinished
<1> QED
  BY <1>2, <1>3, <1>4, <1>5, <1>6 DEF TypeOK

LEMMA StopStep ==
    ASSUME BatchInv, NEW w \in Worker, Stop(w)
    PROVE  BatchInv'
<1> USE DEF BatchInv
<1> DEFINE c == [Spare EXCEPT !.pc = "ended"]
<1>1. Moves(w, c) /\ worker[w].pc # "spare" /\ c.pc = "ended"
  BY CallTypes DEF Stop, Moves
<1> HIDE DEF c
<1>2. /\ worker' \in [Worker -> Call] /\ worker'[w] = c
      /\ \A v \in Worker \ {w} : worker'[v] = worker[v]
  BY <1>1, MoveFacts
<1>3. batch' = batch /\ task' = task /\ stopped' = TRUE
  BY DEF Stop
<1>4. CallsAreSound' /\ ClaimedOnce' /\ NothingIsForgotten' /\ NothingBefore'
  BY <1>1, <1>2, <1>3 DEF CallsAreSound, Busy, ClaimedOnce, At, NothingIsForgotten, NothingBefore
<1>5. ReportIsTrue' /\ Current'
  BY <1>1, <1>2, <1>3 DEF ReportIsTrue, Retried, Unfinished, Current
<1> QED
  BY <1>2, <1>3, <1>4, <1>5 DEF TypeOK

-----------------------------------------------------------------------------

LEMMA NextBatch == BatchInv /\ [Next]_vars => BatchInv'
<1> SUFFICES ASSUME BatchInv, [Next]_vars PROVE BatchInv'
  OBVIOUS
<1>1. CASE UNCHANGED vars
  BY <1>1 DEF vars, BatchInv, TypeOK, CallsAreSound, Busy, NothingBefore, ClaimedOnce, At,
     NothingIsForgotten, AtWork, ReportIsTrue, Retried, Unfinished, Current
<1>2. CASE Next
  <2>1. PICK w \in Worker :
          \/ \E published \in SUBSET Text : CreateBatch(w, published)
          \/ \E t \in Text : RetryTask(w, t)
          \/ RunBatch(w) \/ CommitFails(w) \/ Stop(w)
    BY <1>2 DEF Next
  <2>2. ASSUME NEW s \in TaskStatus, Translated(w, s) PROVE BatchInv'
    BY <2>2, CountStep DEF Translated, Busy
  <2>3. CASE CommitFails(w)
    BY <2>3, CountStep DEF CommitFails, Busy
  <2>4. CASE RunBatch(w)
    BY <2>2, <2>4, ClaimStep, NothingPendingStep, CommitStep, LookStep, FinalizeStep DEF RunBatch
  <2> QED
    BY <2>1, <2>3, <2>4, CreateStep, RetryStep, StopStep
<1> QED
  BY <1>1, <1>2

\* The inductive invariant: types, what calls hold, and the promises.
THEOREM BatchInvariant == Spec => []BatchInv
<1>1. Init => BatchInv
  BY InitBatch
<1>2. BatchInv /\ [Next]_vars => BatchInv'
  BY NextBatch
<1> QED
  BY <1>1, <1>2, PTL DEF Spec

\* A batch, its tasks and its workers keep their types (batch_repo.py).
THEOREM BatchTypes == Spec => []TypeOK
<1>1. BatchInv => TypeOK
  BY DEF BatchInv
<1> QED
  BY <1>1, BatchInvariant, PTL

\* However many retries start workers, a task has one at a time
\* (batch_repo.py, next_pending_task).
THEOREM OneWorkerPerTask == Spec => []ClaimedOnce
<1>1. BatchInv => ClaimedOnce
  BY DEF BatchInv
<1> QED
  BY <1>1, BatchInvariant, PTL

\* Without a worker cut off, every pending or running task has a worker
\* (batch_worker.py, run_batch).
THEOREM NoTaskForgotten == Spec => []NothingIsForgotten
<1>1. BatchInv => NothingIsForgotten
  BY DEF BatchInv
<1> QED
  BY <1>1, BatchInvariant, PTL

\* What a batch reports before anything is retried is true (batch_repo.py,
\* _recount and finalize_batch_if_done).
THEOREM ReportTrue == Spec => []ReportIsTrue
<1>1. BatchInv => ReportIsTrue
  BY DEF BatchInv
<1> QED
  BY <1>1, BatchInvariant, PTL
=============================================================================
