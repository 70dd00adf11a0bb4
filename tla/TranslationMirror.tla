------------------------- MODULE TranslationMirror -------------------------
(***************************************************************************)
(* services/learning, content and localisation: the translations of        *)
(* questions, their drafts and reviews; the event that publishes one; and  *)
(* services/quiz, the copy that students read.                             *)
(*                                                                         *)
(* A translation has one row, whose version every draft raises. The review *)
(* of one translation commits and then emits; a bulk review emits inside   *)
(* its transaction, which holds the rows it has decided on. JetStream      *)
(* delivers an event up to MaxDeliver times, the events in any order.       *)
(***************************************************************************)
EXTENDS Naturals

CONSTANTS
  Text,         \* (question, language) pairs
  Reviewer,     \* requests of reviewers that overlap
  NoText,
  MaxVersion,   \* bound on the drafts of a text
  MaxDeliver,   \* of the durable consumer
  MaxBackfill   \* bound on the runs of the backfill

ASSUME MirrorAssumption ==
  /\ NoText \notin Text
  /\ MaxVersion \in Nat /\ MaxDeliver \in Nat \ {0} /\ MaxBackfill \in Nat

VARIABLES
  row,       \* content_artifact_translations
  review,    \* reviewers' requests
  decided,   \* the versions a reviewer has decided to approve
  stream,    \* deliveries left of the event of each version
  missed,    \* whether a text's event did not get through
  backfills, \* runs of the backfill
  mirror     \* question_translations: the version that students read

vars == <<row, review, decided, stream, missed, backfills, mirror>>

Version == 0..MaxVersion
Verdict == {"PUBLISHED", "REJECTED"}

TypeOK ==
  /\ row \in [Text -> [status: {"none", "DRAFT"} \cup Verdict, version: Version]]
  /\ review \in [Reviewer -> [pc: {"idle", "emit", "bulk"},
                              text: Text \cup {NoText},
                              held: [Text -> {"none"} \cup Verdict]]]
  /\ decided \in [Text -> SUBSET Version]
  /\ stream \in [Text -> [Version -> 0..MaxDeliver]]
  /\ missed \in [Text -> BOOLEAN]
  /\ backfills \in 0..MaxBackfill
  /\ mirror \in [Text -> Version]

Nothing == [t \in Text |-> "none"]
Idle == [pc |-> "idle", text |-> NoText, held |-> Nothing]

Init ==
  /\ row = [t \in Text |-> [status |-> "none", version |-> 0]]
  /\ review = [r \in Reviewer |-> Idle]
  /\ decided = [t \in Text |-> {}]
  /\ stream = [t \in Text |-> [v \in Version |-> 0]]
  /\ missed = [t \in Text |-> FALSE]
  /\ backfills = 0
  /\ mirror = [t \in Text |-> 0]

-----------------------------------------------------------------------------
(* Learning's side.                                                        *)

\* A bulk review has the text's row locked.
Locked(t) == \E r \in Reviewer : review[r].held[t] # "none"

\* upsert_translation_draft and its commit: a request, a task of a batch, or
\* an editor.
Draft(t) ==
  /\ ~Locked(t)
  /\ row[t].version < MaxVersion
  /\ row' = [row EXCEPT ![t] = [status |-> "DRAFT", version |-> row[t].version + 1]]
  /\ UNCHANGED <<review, decided, stream, missed, backfills, mirror>>

\* publish_translation_published for a row at version v, which may fail and is
\* then only logged. Further copies of an event renew its deliveries.
Publish(t, v) ==
  \/ /\ stream' = [stream EXCEPT ![t] = [stream[t] EXCEPT ![v] = MaxDeliver]]
     /\ missed' = [missed EXCEPT ![t] = FALSE]
  \/ /\ missed' = [missed EXCEPT ![t] = TRUE]
     /\ UNCHANGED stream

\* review_translation: neither the status nor the version is looked at.
ApproveAndForget(r, t) ==
  /\ review[r] = Idle
  /\ row[t].status # "none" /\ ~Locked(t)
  /\ row' = [row EXCEPT ![t] = [status |-> "PUBLISHED", version |-> row[t].version]]
  /\ decided' = [decided EXCEPT ![t] = decided[t] \cup {row[t].version}]
  /\ UNCHANGED <<review, stream, missed, backfills, mirror>>

Approve(r, t) ==
  /\ review[r] = Idle
  /\ row[t].status # "none" /\ ~Locked(t)
  /\ row' = [row EXCEPT ![t] = [status |-> "PUBLISHED", version |-> row[t].version]]
  /\ decided' = [decided EXCEPT ![t] = decided[t] \cup {row[t].version}]
  /\ review' = [review EXCEPT ![r] = [Idle EXCEPT !.pc = "emit", !.text = t]]
  /\ UNCHANGED <<stream, missed, backfills, mirror>>

Reject(r, t) ==
  /\ review[r] = Idle
  /\ row[t].status # "none" /\ ~Locked(t)
  /\ row' = [row EXCEPT ![t] = [status |-> "REJECTED", version |-> row[t].version]]
  /\ UNCHANGED <<review, decided, stream, missed, backfills, mirror>>

\* emit_translation_published after the commit: of what the row says by now.
EmitWhatever(r) ==
  /\ review[r].pc = "emit"
  /\ Publish(review[r].text, row[review[r].text].version)
  /\ review' = [review EXCEPT ![r] = Idle]
  /\ UNCHANGED <<row, decided, backfills, mirror>>

Emit(r) ==
  /\ review[r].pc = "emit"
  /\ LET t == review[r].text
     IN  IF row[t].status = "PUBLISHED" THEN Publish(t, row[t].version)
         ELSE UNCHANGED <<stream, missed>>
  /\ review' = [review EXCEPT ![r] = Idle]
  /\ UNCHANGED <<row, decided, backfills, mirror>>

\* bulk_decide: the next decision of the list, an approval with its event.
BulkApprove(r, t) ==
  /\ review[r].pc \in {"idle", "bulk"}
  /\ row[t].status # "none" /\ (Locked(t) => review[r].held[t] # "none")
  /\ review' = [review EXCEPT ![r] =
       [pc |-> "bulk", text |-> NoText, held |-> [review[r].held EXCEPT ![t] = "PUBLISHED"]]]
  /\ decided' = [decided EXCEPT ![t] = decided[t] \cup {row[t].version}]
  /\ Publish(t, row[t].version)
  /\ UNCHANGED <<row, backfills, mirror>>

BulkReject(r, t) ==
  /\ review[r].pc \in {"idle", "bulk"}
  /\ row[t].status # "none" /\ (Locked(t) => review[r].held[t] # "none")
  /\ review' = [review EXCEPT ![r] =
       [pc |-> "bulk", text |-> NoText, held |-> [review[r].held EXCEPT ![t] = "REJECTED"]]]
  /\ UNCHANGED <<row, decided, stream, missed, backfills, mirror>>

\* post_review_bulk commits them all.
CommitBulk(r) ==
  /\ review[r].pc = "bulk"
  /\ row' = [t \in Text |->
       [status |-> IF review[r].held[t] # "none" THEN review[r].held[t] ELSE row[t].status,
        version |-> row[t].version]]
  /\ review' = [review EXCEPT ![r] = Idle]
  /\ UNCHANGED <<decided, stream, missed, backfills, mirror>>

\* A reviewer's request ends early: the service stops before it emits, or the
\* bulk transaction rolls back, its commit refused or one of its statements.
CutOff(r) ==
  /\ review[r].pc # "idle"
  /\ missed' = [t \in Text |-> missed[t] \/ t = review[r].text]
  /\ review' = [review EXCEPT ![r] = Idle]
  /\ UNCHANGED <<row, decided, stream, backfills, mirror>>

\* backfill_translations, for one of the texts it finds published.
Backfill(t) ==
  /\ backfills < MaxBackfill
  /\ row[t].status = "PUBLISHED"
  /\ Publish(t, row[t].version)
  /\ backfills' = backfills + 1
  /\ UNCHANGED <<row, review, decided, mirror>>

-----------------------------------------------------------------------------
(* Quiz's side: handleTranslation.                                         *)

\* The upsert is guarded by the version. The acknowledgement may be lost, or
\* come for one copy of the event and not for another.
DeliverAnyOrder(t, v) ==
  /\ stream[t][v] > 0
  /\ \E n \in 0..(stream[t][v] - 1) :
       stream' = [stream EXCEPT ![t] = [stream[t] EXCEPT ![v] = n]]
  /\ mirror' = [mirror EXCEPT ![t] = v]
  /\ UNCHANGED <<row, review, decided, missed, backfills>>

Deliver(t, v) ==
  /\ stream[t][v] > 0
  /\ \E n \in 0..(stream[t][v] - 1) :
       stream' = [stream EXCEPT ![t] = [stream[t] EXCEPT ![v] = n]]
  /\ mirror' = [mirror EXCEPT ![t] = IF v >= mirror[t] THEN v ELSE mirror[t]]
  /\ UNCHANGED <<row, review, decided, missed, backfills>>

\* The upsert fails and the event is not acknowledged: after the last delivery
\* JetStream gives up.
DeliverFails(t, v) ==
  /\ stream[t][v] > 0
  /\ stream' = [stream EXCEPT ![t] = [stream[t] EXCEPT ![v] = stream[t][v] - 1]]
  /\ missed' = [missed EXCEPT ![t] = missed[t] \/ (stream[t][v] = 1 /\ v = row[t].version)]
  /\ UNCHANGED <<row, review, decided, backfills, mirror>>

-----------------------------------------------------------------------------
Next ==
  \/ \E t \in Text : Draft(t) \/ Backfill(t)
  \/ \E r \in Reviewer, t \in Text : Approve(r, t) \/ Reject(r, t) \/ BulkApprove(r, t) \/ BulkReject(r, t)
  \/ \E r \in Reviewer : Emit(r) \/ CommitBulk(r) \/ CutOff(r)
  \/ \E t \in Text, v \in Version : Deliver(t, v) \/ DeliverFails(t, v)

Spec == Init /\ [][Next]_vars

\* A request that has committed goes on to emit; JetStream delivers what it has.
FairSpec ==
  /\ Spec
  /\ \A r \in Reviewer : WF_vars(Emit(r))
  /\ \A t \in Text, v \in Version : WF_vars(Deliver(t, v))
=============================================================================
