--------------------------- MODULE MirrorPromises ---------------------------
(***************************************************************************)
(* What students see of the translations, although events are lost,        *)
(* doubled and reordered.                                                  *)
(***************************************************************************)
EXTENDS TranslationMirror

\* Students read no version that no reviewer decided to approve, although the
\* event is built from the row as it stands after the commit, when a new draft
\* may have come (translation_events.py, build_translation_event).
SeenWasApproved == \A t \in Text : mirror[t] # 0 => mirror[t] \in decided[t]

\* Once the events of a published text are through, students read the version
\* that is published: none that comes late, or twice, brings an older one back,
\* and none was needed that nobody sent (content_subscriber.go,
\* handleTranslation, and translation_routes.py, review_translation).
Emitting(t) == \E r \in Reviewer : review[r].pc = "emit" /\ review[r].text = t
Settled(t) == row[t].status = "PUBLISHED" /\ stream[t][row[t].version] = 0 /\ ~Emitting(t) /\ ~missed[t]
SettledIsCurrent == \A t \in Text : Settled(t) => mirror[t] = row[t].version

\* A version that stays published, and whose event is not lost, reaches the
\* students (translation_events.py, emit_translation_published).
EventuallyMirrored ==
  \A t \in Text, v \in Version :
    (row[t] = [status |-> "PUBLISHED", version |-> v] /\ ~missed[t])
      ~> (mirror[t] >= v \/ row[t].status # "PUBLISHED" \/ missed[t])
=============================================================================
