----------------------------- MODULE QuizPromises -----------------------------
(***************************************************************************)
(* What the comments, the README and the requirements of services/quiz say *)
(* of a session beyond AnswerSheet.  Each holds for a client that has one  *)
(* request in flight at a time, and each fails when two requests overlap.  *)
(***************************************************************************)
EXTENDS QuizSession

\* Next "serves the next question and records it": the question a client is
\* shown is the one its item row holds, which its answer is graded against.
NextShowsRecordedRow ==
    \A r \in Requests :
        pc[r] = "shown" => items[work[r].idx].q = work[r].q

\* RecordAnswer "(re-)derives session aggregates atomically": the ability
\* estimate accounts for every recorded answer.
ThetaCoversAnswers == theta = Served \ Unanswered

=============================================================================
