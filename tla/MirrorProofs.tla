---------------------------- MODULE MirrorProofs ----------------------------
(***************************************************************************)
(* Proofs about published translations, for any texts, reviewers, numbers  *)
(* of drafts and of deliveries: its types, and what students see.          *)
(***************************************************************************)
EXTENDS MirrorPromises, TLAPS

\* Only versions that were decided on are published, on their way, or seen,
\* and none is later than the row's.
DecidedAt(t) ==
  /\ \A v \in decided[t] : v # 0 /\ v <= row[t].version
  /\ row[t].status # "none" => row[t].version # 0
  /\ row[t].status = "PUBLISHED" => row[t].version \in decided[t]
  /\ \A r \in Reviewer :
       /\ review[r].held[t] # "none" => row[t].version # 0
       /\ review[r].held[t] = "PUBLISHED" => row[t].version \in decided[t]
  /\ \A v \in Version : stream[t][v] > 0 => v \in decided[t]
  /\ mirror[t] # 0 => mirror[t] \in decided[t]
Decided == \A t \in Text : DecidedAt(t)

\* The row's version is with the students or on its way.
Underway(t) == mirror[t] = row[t].version \/ stream[t][row[t].version] > 0

\* What was published, or will be when a bulk review commits, is under way.
NotLost(t) ==
  /\ row[t].status = "PUBLISHED" /\ ~Emitting(t) /\ ~missed[t] => Underway(t)
  /\ \A r \in Reviewer : review[r].held[t] = "PUBLISHED" /\ ~missed[t] => Underway(t)
NothingLost == \A t \in Text : NotLost(t)

EmitsText == \A r \in Reviewer : review[r].pc = "emit" => review[r].text \in Text

MirrorInv == TypeOK /\ EmitsText /\ Decided /\ NothingLost

Request == [pc: {"idle", "emit", "bulk"}, text: Text \cup {NoText},
            held: [Text -> {"none"} \cup Verdict]]

LEMMA IdleTypes ==
    /\ Idle \in Request /\ Idle.pc = "idle"
    /\ \A t \in Text : Idle.held[t] = "none"
BY DEF Idle, Request, Nothing

LEMMA EmitTypes ==
    ASSUME NEW t \in Text
    PROVE  LET c == [Idle EXCEPT !.pc = "emit", !.text = t]
           IN  /\ c \in Request /\ c.pc = "emit" /\ c.text = t
               /\ \A u \in Text : c.held[u] = "none"
BY DEF Idle, Request, Nothing

LEMMA BulkTypes ==
    ASSUME NEW d \in Request, NEW t \in Text, NEW x \in Verdict
    PROVE  LET c == [pc |-> "bulk", text |-> NoText, held |-> [d.held EXCEPT ![t] = x]]
           IN  /\ c \in Request /\ c.pc = "bulk" /\ c.held[t] = x
               /\ \A u \in Text \ {t} : c.held[u] = d.held[u]
BY DEF Request

LEMMA InitMirror == Init => MirrorInv
<1> SUFFICES ASSUME Init PROVE MirrorInv
  OBVIOUS
<1>1. TypeOK
  BY IdleTypes, MirrorAssumption DEF Init, TypeOK, Version, Request
<1>2. EmitsText
  BY IdleTypes DEF Init, EmitsText
<1>3. Decided /\ NothingLost
  BY IdleTypes DEF Init, DecidedAt, Decided, NotLost, NothingLost
<1> QED
  BY <1>1, <1>2, <1>3 DEF MirrorInv

\* A reviewer's request becomes c, and the others stay.
Moves(r, c) == /\ review' = [review EXCEPT ![r] = c]
               /\ c \in Request

LEMMA MoveFacts ==
    ASSUME TypeOK, NEW r \in Reviewer, NEW c, Moves(r, c)
    PROVE  /\ review' \in [Reviewer -> Request]
           /\ review'[r] = c
           /\ \A q \in Reviewer \ {r} : review'[q] = review[q]
BY DEF TypeOK, Moves, Request

\* A row that takes a status, and perhaps a version.
LEMMA RowFacts ==
    ASSUME TypeOK, NEW t \in Text, NEW x \in {"none", "DRAFT"} \cup Verdict, NEW v \in Version,
           row' = [row EXCEPT ![t] = [status |-> x, version |-> v]]
    PROVE  /\ row' \in [Text -> [status: {"none", "DRAFT"} \cup Verdict, version: Version]]
           /\ row'[t].status = x /\ row'[t].version = v
           /\ \A u \in Text \ {t} : row'[u] = row[u]
BY DEF TypeOK

\* An event is sent, or it is missed.
LEMMA PublishFacts ==
    ASSUME TypeOK, NEW t \in Text, NEW v \in Version, Publish(t, v)
    PROVE  /\ stream' \in [Text -> [Version -> 0..MaxDeliver]] /\ missed' \in [Text -> BOOLEAN]
           /\ \A u \in Text \ {t} : stream'[u] = stream[u] /\ missed'[u] = missed[u]
           /\ \A w \in Version : stream'[t][w] > 0 => w = v \/ stream[t][w] > 0
           /\ ~missed'[t] => stream'[t][v] > 0
<1>1. CASE UNCHANGED stream /\ missed' = [missed EXCEPT ![t] = TRUE]
  BY <1>1 DEF TypeOK
<1>2. CASE /\ stream' = [stream EXCEPT ![t] = [stream[t] EXCEPT ![v] = MaxDeliver]]
           /\ missed' = [missed EXCEPT ![t] = FALSE]
  <2>1. MaxDeliver \in 0..MaxDeliver /\ MaxDeliver > 0
    BY MirrorAssumption
  <2>2. [stream[t] EXCEPT ![v] = MaxDeliver] \in [Version -> 0..MaxDeliver]
    BY <2>1 DEF TypeOK
  <2> QED
    BY <1>2, <2>1, <2>2 DEF TypeOK
<1> QED
  BY <1>1, <1>2 DEF Publish

LEMMA VersionTypes == TypeOK => \A t \in Text : row[t].version \in Version /\ mirror[t] \in Version
BY DEF TypeOK

-----------------------------------------------------------------------------
(* Learning's steps.                                                       *)

LEMMA DraftStep ==
    ASSUME MirrorInv, NEW t \in Text, Draft(t)
    PROVE  MirrorInv'
<1> USE DEF MirrorInv
<1> DEFINE v == row[t].version
<1>1. v \in Version /\ v + 1 \in Version /\ v + 1 # 0
  BY VersionTypes, MirrorAssumption DEF Draft, Version
<1>2. /\ row' \in [Text -> [status: {"none", "DRAFT"} \cup Verdict, version: Version]]
      /\ row'[t].status = "DRAFT" /\ row'[t].version = v + 1
      /\ \A u \in Text \ {t} : row'[u] = row[u]
  BY <1>1, RowFacts DEF Draft
<1>3. UNCHANGED <<review, decided, stream, missed, backfills, mirror>>
  BY DEF Draft
<1>4. \A r \in Reviewer : review[r].held[t] = "none"
  BY DEF Draft, Locked
<1>5. \A w \in decided[t] : w # 0 /\ w <= v + 1
  <2> SUFFICES ASSUME NEW w \in decided[t] PROVE w # 0 /\ w <= v + 1
    OBVIOUS
  <2>1. w \in Version /\ w # 0 /\ w <= v
    BY DEF TypeOK, DecidedAt, Decided
  <2> QED
    BY <1>1, <2>1, MirrorAssumption DEF Version
<1> HIDE DEF v
<1>6. Decided'
  BY <1>1, <1>2, <1>3, <1>4, <1>5 DEF DecidedAt, Decided
<1>7. NothingLost'
  BY <1>2, <1>3, <1>4 DEF NotLost, NothingLost, Underway, Emitting
<1> QED
  BY <1>2, <1>3, <1>6, <1>7 DEF TypeOK, EmitsText

LEMMA ApproveStep ==
    ASSUME MirrorInv, NEW r \in Reviewer, NEW t \in Text, Approve(r, t)
    PROVE  MirrorInv'
<1> USE DEF MirrorInv
<1> DEFINE v == row[t].version
           c == [Idle EXCEPT !.pc = "emit", !.text = t]
<1>1. v \in Version /\ v # 0
  BY VersionTypes DEF Approve, DecidedAt, Decided
<1>2. /\ row' \in [Text -> [status: {"none", "DRAFT"} \cup Verdict, version: Version]]
      /\ row'[t].status = "PUBLISHED" /\ row'[t].version = v
      /\ \A u \in Text \ {t} : row'[u] = row[u]
  BY <1>1, RowFacts DEF Approve, Verdict
<1>3. Moves(r, c) /\ c.pc = "emit" /\ c.text = t /\ \A u \in Text : c.held[u] = "none"
  BY EmitTypes DEF Approve, Moves
<1>4. decided' = [decided EXCEPT ![t] = decided[t] \cup {v}]
      /\ UNCHANGED <<stream, missed, backfills, mirror>>
  BY DEF Approve
<1> HIDE DEF c
<1>5. /\ review' \in [Reviewer -> Request] /\ review'[r] = c
      /\ \A q \in Reviewer \ {r} : review'[q] = review[q]
  BY <1>3, MoveFacts
<1>6. decided' \in [Text -> SUBSET Version]
  BY <1>1, <1>4 DEF TypeOK
<1>7. v <= v
  BY <1>1, MirrorAssumption DEF Version
<1> HIDE DEF v
<1>8. Decided'
  <2>1. \A u \in Text \ {t} : DecidedAt(u)'
    <3>1. \A u \in Text \ {t} : row'[u] = row[u] /\ decided'[u] = decided[u]
      BY <1>2, <1>4 DEF TypeOK
    <3>2. \A q \in Reviewer, u \in Text : review'[q].held[u] \in {"none", review[q].held[u]}
      BY <1>3, <1>5
    <3> QED
      BY <1>4, <3>1, <3>2 DEF DecidedAt, Decided
  <2>2. decided'[t] = decided[t] \cup {v}
    BY <1>4 DEF TypeOK
  <2>3. DecidedAt(t)'
    BY <1>1, <1>2, <1>3, <1>4, <1>5, <1>7, <2>2 DEF DecidedAt, Decided, v
  <2> QED
    BY <2>1, <2>3 DEF Decided
<1>9. NothingLost'
  <2>1. \A u \in Text : u # t => (Emitting(u)' <=> Emitting(u))
    BY <1>3, <1>5 DEF Emitting, Approve, Idle
  <2>2. Emitting(t)'
    BY <1>3, <1>5 DEF Emitting
  <2>3. \A u \in Text : Underway(u)' <=> Underway(u)
    BY <1>2, <1>4 DEF Underway, v
  <2> QED
    BY <1>2, <1>3, <1>4, <1>5, <2>1, <2>2, <2>3 DEF NotLost, NothingLost
<1>10. EmitsText'
  BY <1>3, <1>5 DEF EmitsText
<1> QED
  BY <1>2, <1>4, <1>5, <1>6, <1>8, <1>9, <1>10 DEF TypeOK, Request

LEMMA RejectStep ==
    ASSUME MirrorInv, NEW r \in Reviewer, NEW t \in Text, Reject(r, t)
    PROVE  MirrorInv'
<1> USE DEF MirrorInv
<1>1. /\ row' \in [Text -> [status: {"none", "DRAFT"} \cup Verdict, version: Version]]
      /\ row'[t].status = "REJECTED" /\ row'[t].version = row[t].version
      /\ \A u \in Text \ {t} : row'[u] = row[u]
  BY VersionTypes, RowFacts DEF Reject, Verdict
<1>2. UNCHANGED <<review, decided, stream, missed, backfills, mirror>>
  BY DEF Reject
<1>3. row[t].version # 0
  BY DEF Reject, DecidedAt, Decided
<1>4. Decided'
  BY <1>1, <1>2, <1>3 DEF DecidedAt, Decided
<1>5. NothingLost'
  BY <1>1, <1>2 DEF NotLost, NothingLost, Underway, Emitting
<1> QED
  BY <1>1, <1>2, <1>4, <1>5 DEF TypeOK, EmitsText

LEMMA EmitStep ==
    ASSUME MirrorInv, NEW r \in Reviewer, Emit(r)
    PROVE  MirrorInv'
<1> USE DEF MirrorInv
<1>1. PICK t \in Text : t = review[r].text
  BY DEF Emit, EmitsText
<1>2. Moves(r, Idle)
  BY IdleTypes DEF Emit, Moves
<1>3. /\ review' \in [Reviewer -> Request] /\ review'[r] = Idle
      /\ \A q \in Reviewer \ {r} : review'[q] = review[q]
  BY <1>2, MoveFacts
<1>4. UNCHANGED <<row, decided, backfills, mirror>>
  BY DEF Emit
<1>5. EmitsText'
  BY <1>3, IdleTypes DEF EmitsText
<1>6. \A u \in Text : u # t /\ Emitting(u) => Emitting(u)'
  BY <1>1, <1>3 DEF Emitting
<1>7. CASE row[t].status # "PUBLISHED"
  <2>1. UNCHANGED <<stream, missed>>
    BY <1>1, <1>7 DEF Emit
  <2>2. Decided'
    BY <1>3, <1>4, <2>1, IdleTypes DEF DecidedAt, Decided
  <2>3. NothingLost'
    BY <1>3, <1>4, <1>6, <1>7, <2>1, IdleTypes DEF NotLost, NothingLost, Underway
  <2> QED
    BY <1>3, <1>4, <1>5, <2>1, <2>2, <2>3 DEF TypeOK, Request
<1>8. CASE row[t].status = "PUBLISHED"
  <2>1. Publish(t, row[t].version) /\ row[t].version \in Version /\ row[t].version \in decided[t]
    BY <1>1, <1>8, VersionTypes DEF Emit, DecidedAt, Decided
  <2>2. /\ stream' \in [Text -> [Version -> 0..MaxDeliver]] /\ missed' \in [Text -> BOOLEAN]
        /\ \A u \in Text \ {t} : stream'[u] = stream[u] /\ missed'[u] = missed[u]
        /\ \A w \in Version : stream'[t][w] > 0 => w = row[t].version \/ stream[t][w] > 0
        /\ ~missed'[t] => stream'[t][row[t].version] > 0
    BY <1>1, <2>1, PublishFacts
  <2>3. Decided'
    <3>1. \A q \in Reviewer, u \in Text : review'[q].held[u] \in {"none", review[q].held[u]}
      BY <1>3, IdleTypes
    <3>2. \A u \in Text \ {t} : DecidedAt(u)'
      BY <1>4, <2>2, <3>1 DEF DecidedAt, Decided
    <3>3. DecidedAt(t)'
      BY <1>4, <2>1, <2>2, <3>1 DEF DecidedAt, Decided
    <3> QED
      BY <1>1, <3>2, <3>3 DEF Decided
  <2>4. NothingLost'
    <3>1. \A u \in Text \ {t} : NotLost(u)'
      <4>1. \A u \in Text \ {t} : NotLost(u) /\ (Emitting(u) => Emitting(u)')
        BY <1>6, <1>1 DEF NothingLost
      <4>2. \A q \in Reviewer, u \in Text : review'[q].held[u] \in {"none", review[q].held[u]}
        BY <1>3, IdleTypes
      <4>3. \A u \in Text \ {t} : Underway(u)' <=> Underway(u)
        BY <1>4, <2>2 DEF Underway
      <4> QED
        BY <1>4, <2>2, <4>1, <4>2, <4>3 DEF NotLost
    <3>2. NotLost(t)'
      BY <1>4, <2>2 DEF NotLost, Underway
    <3> QED
      BY <1>1, <3>1, <3>2 DEF NothingLost
  <2> QED
    BY <1>3, <1>4, <1>5, <2>2, <2>3, <2>4 DEF TypeOK, Request
<1> QED
  BY <1>7, <1>8

LEMMA BackfillStep ==
    ASSUME MirrorInv, NEW t \in Text, Backfill(t)
    PROVE  MirrorInv'
<1> USE DEF MirrorInv
<1>1. Publish(t, row[t].version) /\ row[t].version \in Version /\ row[t].version \in decided[t]
  BY VersionTypes DEF Backfill, DecidedAt, Decided
<1>2. /\ stream' \in [Text -> [Version -> 0..MaxDeliver]] /\ missed' \in [Text -> BOOLEAN]
      /\ \A u \in Text \ {t} : stream'[u] = stream[u] /\ missed'[u] = missed[u]
      /\ \A w \in Version : stream'[t][w] > 0 => w = row[t].version \/ stream[t][w] > 0
      /\ ~missed'[t] => stream'[t][row[t].version] > 0
  BY <1>1, PublishFacts
<1>3. UNCHANGED <<row, review, decided, mirror>> /\ backfills' \in 0..MaxBackfill
  BY MirrorAssumption DEF Backfill, TypeOK
<1>4. Decided'
  BY <1>1, <1>2, <1>3 DEF DecidedAt, Decided
<1>5. NothingLost'
  BY <1>2, <1>3 DEF NotLost, NothingLost, Underway, Emitting
<1> QED
  BY <1>2, <1>3, <1>4, <1>5 DEF TypeOK, EmitsText

-----------------------------------------------------------------------------
(* Bulk reviews.                                                           *)

LEMMA BulkApproveStep ==
    ASSUME MirrorInv, NEW r \in Reviewer, NEW t \in Text, BulkApprove(r, t)
    PROVE  MirrorInv'
<1> USE DEF MirrorInv
<1> DEFINE v == row[t].version
           c == [pc |-> "bulk", text |-> NoText, held |-> [review[r].held EXCEPT ![t] = "PUBLISHED"]]
<1>1. v \in Version /\ v # 0 /\ review[r] \in Request /\ review[r].pc # "emit"
  BY VersionTypes DEF BulkApprove, DecidedAt, Decided, TypeOK, Request
<1>2. /\ Moves(r, c) /\ c.pc = "bulk" /\ c.held[t] = "PUBLISHED"
      /\ \A u \in Text \ {t} : c.held[u] = review[r].held[u]
  BY <1>1, BulkTypes DEF BulkApprove, Moves, Verdict
<1> HIDE DEF c
<1>3. /\ review' \in [Reviewer -> Request] /\ review'[r] = c
      /\ \A q \in Reviewer \ {r} : review'[q] = review[q]
  BY <1>2, MoveFacts
<1>4. decided' = [decided EXCEPT ![t] = decided[t] \cup {v}]
      /\ UNCHANGED <<row, backfills, mirror>>
  BY DEF BulkApprove
<1>5. /\ stream' \in [Text -> [Version -> 0..MaxDeliver]] /\ missed' \in [Text -> BOOLEAN]
      /\ \A u \in Text \ {t} : stream'[u] = stream[u] /\ missed'[u] = missed[u]
      /\ \A w \in Version : stream'[t][w] > 0 => w = v \/ stream[t][w] > 0
      /\ ~missed'[t] => stream'[t][v] > 0
  BY <1>1, PublishFacts DEF BulkApprove
<1>6. decided' \in [Text -> SUBSET Version]
  BY <1>1, <1>4 DEF TypeOK
<1>7. v <= v
  BY <1>1, MirrorAssumption DEF Version
<1>8. \A u \in Text : Emitting(u)' <=> Emitting(u)
  BY <1>1, <1>2, <1>3 DEF Emitting
<1>9. EmitsText'
  BY <1>2, <1>3 DEF EmitsText
<1> HIDE DEF v
<1>10. Decided'
  <2>1. \A q \in Reviewer, u \in Text \ {t} : review'[q].held[u] = review[q].held[u]
    BY <1>2, <1>3
  <2>2. decided'[t] = decided[t] \cup {v} /\ \A u \in Text \ {t} : decided'[u] = decided[u]
    BY <1>4 DEF TypeOK
  <2>3. ASSUME NEW u \in Text \ {t} PROVE DecidedAt(u)'
    <3>1. DecidedAt(u) /\ decided'[u] = decided[u]
      BY <2>2 DEF Decided
    <3>2. \A q \in Reviewer : review'[q].held[u] = review[q].held[u]
      BY <2>1
    <3>3. stream'[u] = stream[u] /\ UNCHANGED <<row, mirror>>
      BY <1>4, <1>5
    <3> QED
      BY <3>1, <3>2, <3>3 DEF DecidedAt
  <2>4. DecidedAt(t)'
    BY <1>1, <1>4, <1>5, <1>7, <2>2 DEF DecidedAt, Decided, v
  <2> QED
    BY <2>3, <2>4 DEF Decided
<1>11. NothingLost'
  <2>1. \A u \in Text \ {t} : NotLost(u)'
    <3>1. \A u \in Text \ {t} : NotLost(u) /\ (Emitting(u)' <=> Emitting(u))
      BY <1>8 DEF NothingLost
    <3>2. \A q \in Reviewer, u \in Text \ {t} : review'[q].held[u] = review[q].held[u]
      BY <1>2, <1>3
    <3>3. \A u \in Text \ {t} : Underway(u)' <=> Underway(u)
      BY <1>4, <1>5 DEF Underway
    <3> QED
      BY <1>4, <1>5, <3>1, <3>2, <3>3 DEF NotLost
  <2>2. NotLost(t)'
    BY <1>4, <1>5 DEF NotLost, Underway, v
  <2> QED
    BY <2>1, <2>2 DEF NothingLost
<1> QED
  BY <1>3, <1>4, <1>5, <1>6, <1>9, <1>10, <1>11 DEF TypeOK, Request

LEMMA BulkRejectStep ==
    ASSUME MirrorInv, NEW r \in Reviewer, NEW t \in Text, BulkReject(r, t)
    PROVE  MirrorInv'
<1> USE DEF MirrorInv
<1> DEFINE c == [pc |-> "bulk", text |-> NoText, held |-> [review[r].held EXCEPT ![t] = "REJECTED"]]
<1>1. review[r] \in Request /\ review[r].pc # "emit" /\ row[t].version # 0
  BY DEF BulkReject, TypeOK, Request, DecidedAt, Decided
<1>2. /\ Moves(r, c) /\ c.pc = "bulk" /\ c.held[t] = "REJECTED"
      /\ \A u \in Text \ {t} : c.held[u] = review[r].held[u]
  BY <1>1, BulkTypes DEF BulkReject, Moves, Verdict
<1> HIDE DEF c
<1>3. /\ review' \in [Reviewer -> Request] /\ review'[r] = c
      /\ \A q \in Reviewer \ {r} : review'[q] = review[q]
  BY <1>2, MoveFacts
<1>4. UNCHANGED <<row, decided, stream, missed, backfills, mirror>>
  BY DEF BulkReject
<1>5. \A u \in Text : Emitting(u)' <=> Emitting(u)
  BY <1>1, <1>2, <1>3 DEF Emitting
<1>6. \A u \in Text, q \in Reviewer :
        review'[q].held[u] = "PUBLISHED" => review[q].held[u] = "PUBLISHED"
  BY <1>2, <1>3
<1>7. \A u \in Text, q \in Reviewer :
        review'[q].held[u] # "none" => review[q].held[u] # "none" \/ u = t
  BY <1>2, <1>3
<1>8. Decided'
  BY <1>1, <1>4, <1>6, <1>7 DEF DecidedAt, Decided
<1>9. NothingLost'
  <2>1. \A u \in Text : Underway(u)' <=> Underway(u)
    BY <1>4 DEF Underway
  <2> QED
    BY <1>4, <1>5, <1>6, <2>1 DEF NotLost, NothingLost
<1> QED
  BY <1>2, <1>3, <1>4, <1>8, <1>9 DEF TypeOK, Request, EmitsText

LEMMA CommitBulkStep ==
    ASSUME MirrorInv, NEW r \in Reviewer, CommitBulk(r)
    PROVE  MirrorInv'
<1> USE DEF MirrorInv
<1>1. Moves(r, Idle) /\ review[r].pc = "bulk"
  BY IdleTypes DEF CommitBulk, Moves
<1>2. /\ review' \in [Reviewer -> Request] /\ review'[r] = Idle
      /\ \A q \in Reviewer \ {r} : review'[q] = review[q]
  BY <1>1, MoveFacts
<1>3. UNCHANGED <<decided, stream, missed, backfills, mirror>>
  BY DEF CommitBulk
<1>4. \A t \in Text : review[r].held[t] \in {"none"} \cup Verdict
  BY DEF TypeOK
<1>5. /\ row' \in [Text -> [status: {"none", "DRAFT"} \cup Verdict, version: Version]]
      /\ \A t \in Text :
           /\ row'[t].version = row[t].version
           /\ row'[t].status = IF review[r].held[t] # "none" THEN review[r].held[t] ELSE row[t].status
  BY <1>4 DEF CommitBulk, TypeOK
<1>7. \A u \in Text : Emitting(u)' <=> Emitting(u)
  BY <1>1, <1>2, IdleTypes DEF Emitting
<1>8. Decided'
  BY <1>2, <1>3, <1>5, IdleTypes DEF DecidedAt, Decided
<1>9. NothingLost'
  BY <1>2, <1>3, <1>5, <1>7, IdleTypes DEF NotLost, NothingLost, Underway
<1>10. EmitsText'
  BY <1>2, IdleTypes DEF EmitsText
<1> QED
  BY <1>2, <1>3, <1>5, <1>8, <1>9, <1>10 DEF TypeOK, Request

LEMMA CutOffStep ==
    ASSUME MirrorInv, NEW r \in Reviewer, CutOff(r)
    PROVE  MirrorInv'
<1> USE DEF MirrorInv
<1>1. Moves(r, Idle)
  BY IdleTypes DEF CutOff, Moves
<1>2. /\ review' \in [Reviewer -> Request] /\ review'[r] = Idle
      /\ \A q \in Reviewer \ {r} : review'[q] = review[q]
  BY <1>1, MoveFacts
<1>3. UNCHANGED <<row, decided, stream, backfills, mirror>>
  BY DEF CutOff
<1>4. /\ missed' \in [Text -> BOOLEAN]
      /\ \A t \in Text : missed'[t] <=> missed[t] \/ t = review[r].text
  <2>1. missed' = [t \in Text |-> missed[t] \/ t = review[r].text]
    BY DEF CutOff
  <2>2. \A t \in Text : (missed[t] \/ t = review[r].text) \in BOOLEAN
    OBVIOUS
  <2> QED
    BY <2>1, <2>2, Zenon
<1>5. \A t \in Text : t # review[r].text /\ Emitting(t) => Emitting(t)'
  BY <1>2 DEF Emitting
<1>6. Decided'
  BY <1>2, <1>3, IdleTypes DEF DecidedAt, Decided
<1>7. NothingLost'
  BY <1>2, <1>3, <1>4, <1>5, IdleTypes DEF NotLost, NothingLost, Underway
<1>8. EmitsText'
  BY <1>2, IdleTypes DEF EmitsText
<1> QED
  BY <1>2, <1>3, <1>4, <1>6, <1>7, <1>8 DEF TypeOK, Request

-----------------------------------------------------------------------------
(* Deliveries.                                                             *)

LEMMA DeliverStep ==
    ASSUME MirrorInv, NEW t \in Text, NEW v \in Version, Deliver(t, v)
    PROVE  MirrorInv'
<1> USE DEF MirrorInv
<1>1. PICK n \in 0..(stream[t][v] - 1) :
        stream' = [stream EXCEPT ![t] = [stream[t] EXCEPT ![v] = n]]
  BY DEF Deliver
<1>2. stream[t][v] \in 0..MaxDeliver /\ stream[t][v] > 0
  BY DEF Deliver, TypeOK
<1>3. n \in 0..MaxDeliver
  BY <1>2, MirrorAssumption
<1>4. /\ stream' \in [Text -> [Version -> 0..MaxDeliver]]
      /\ \A u \in Text \ {t} : stream'[u] = stream[u]
      /\ \A w \in Version \ {v} : stream'[t][w] = stream[t][w]
  <2>1. [stream[t] EXCEPT ![v] = n] \in [Version -> 0..MaxDeliver]
    BY <1>3 DEF TypeOK
  <2> QED
    BY <1>1, <2>1 DEF TypeOK
<1>5. UNCHANGED <<row, review, decided, missed, backfills>>
      /\ mirror' = [mirror EXCEPT ![t] = IF v >= mirror[t] THEN v ELSE mirror[t]]
  BY DEF Deliver
<1>6. mirror' \in [Text -> Version] /\ \A u \in Text \ {t} : mirror'[u] = mirror[u]
  BY <1>5 DEF TypeOK
<1>7. v \in decided[t] /\ v # 0 /\ v <= row[t].version
  BY <1>2 DEF DecidedAt, Decided
<1>8. mirror'[t] \in decided[t]
  BY <1>5, <1>7, MirrorAssumption DEF DecidedAt, Decided, TypeOK, Version
<1>9. Decided'
  <2>1. \A w \in Version : stream'[t][w] > 0 => w \in decided[t]
    BY <1>4, <1>7 DEF DecidedAt, Decided
  <2> QED
    BY <1>4, <1>5, <1>6, <1>8, <2>1 DEF DecidedAt, Decided
<1>10. \A u \in Text : Underway(u) => Underway(u)'
  <2>1. Underway(t) => Underway(t)'
    <3>1. mirror[t] <= row[t].version
      BY VersionTypes, MirrorAssumption DEF DecidedAt, Decided, Version
    <3>2. CASE v = row[t].version
      BY <1>5, <3>1, <3>2, MirrorAssumption DEF Underway, TypeOK, Version
    <3>3. CASE v # row[t].version
      <4>1. mirror[t] = row[t].version => mirror'[t] = mirror[t]
        BY <1>5, <1>7, <3>3, VersionTypes, MirrorAssumption DEF TypeOK, Version
      <4> QED
        BY <1>4, <1>5, <3>3, <4>1, VersionTypes DEF Underway
    <3> QED
      BY <3>2, <3>3
  <2> QED
    BY <1>4, <1>5, <1>6, <2>1 DEF Underway
<1>11. NothingLost'
  BY <1>5, <1>10 DEF NotLost, NothingLost, Emitting
<1> QED
  BY <1>4, <1>5, <1>6, <1>9, <1>11 DEF TypeOK, EmitsText

LEMMA DeliverFailsStep ==
    ASSUME MirrorInv, NEW t \in Text, NEW v \in Version, DeliverFails(t, v)
    PROVE  MirrorInv'
<1> USE DEF MirrorInv
<1> DEFINE n == stream[t][v] - 1
<1>1. stream[t][v] \in 0..MaxDeliver /\ stream[t][v] > 0
  BY DEF DeliverFails, TypeOK
<1>2. n \in 0..MaxDeliver /\ (n > 0 \/ stream[t][v] = 1)
  BY <1>1, MirrorAssumption
<1>3. stream' = [stream EXCEPT ![t] = [stream[t] EXCEPT ![v] = n]]
  BY DEF DeliverFails
<1> HIDE DEF n
<1>4. /\ stream' \in [Text -> [Version -> 0..MaxDeliver]]
      /\ \A u \in Text \ {t} : stream'[u] = stream[u]
      /\ \A w \in Version \ {v} : stream'[t][w] = stream[t][w]
      /\ stream'[t][v] = n
  <2>1. [stream[t] EXCEPT ![v] = n] \in [Version -> 0..MaxDeliver]
    BY <1>2 DEF TypeOK
  <2> QED
    BY <1>3, <2>1 DEF TypeOK
<1>5. UNCHANGED <<row, review, decided, backfills, mirror>>
  BY DEF DeliverFails
<1>6. /\ missed' \in [Text -> BOOLEAN]
      /\ \A u \in Text \ {t} : missed'[u] = missed[u]
      /\ missed'[t] <=> missed[t] \/ (stream[t][v] = 1 /\ v = row[t].version)
  <2> DEFINE x == missed[t] \/ (stream[t][v] = 1 /\ v = row[t].version)
  <2>1. missed' = [missed EXCEPT ![t] = x] /\ x \in BOOLEAN /\ missed \in [Text -> BOOLEAN]
    BY DEF DeliverFails, TypeOK
  <2> HIDE DEF x
  <2>2. missed' \in [Text -> BOOLEAN] /\ missed'[t] = x
        /\ \A u \in Text \ {t} : missed'[u] = missed[u]
    BY <2>1
  <2> QED
    BY <2>2, Zenon DEF x
<1>7. Decided'
  <2>1. \A w \in Version : stream'[t][w] > 0 => w \in decided[t]
    BY <1>1, <1>4 DEF DecidedAt, Decided
  <2> QED
    BY <1>4, <1>5, <2>1 DEF DecidedAt, Decided
<1>8. \A u \in Text : Underway(u) /\ ~missed'[u] => Underway(u)'
  BY <1>2, <1>4, <1>5, <1>6, VersionTypes DEF Underway
<1>9. \A u \in Text : ~missed'[u] => ~missed[u]
  BY <1>6
<1>10. NothingLost'
  BY <1>5, <1>8, <1>9 DEF NotLost, NothingLost, Emitting
<1> QED
  BY <1>4, <1>5, <1>6, <1>7, <1>10 DEF TypeOK, EmitsText

-----------------------------------------------------------------------------

LEMMA NextMirror == MirrorInv /\ [Next]_vars => MirrorInv'
<1> SUFFICES ASSUME MirrorInv, [Next]_vars PROVE MirrorInv'
  OBVIOUS
<1>1. CASE UNCHANGED vars
  BY <1>1 DEF vars, MirrorInv, TypeOK, EmitsText, DecidedAt, Decided, NotLost, NothingLost, Underway, Emitting
<1>2. ASSUME NEW t \in Text, Draft(t) \/ Backfill(t) PROVE MirrorInv'
  BY <1>2, DraftStep, BackfillStep
<1>3. ASSUME NEW r \in Reviewer, NEW t \in Text,
             Approve(r, t) \/ Reject(r, t) \/ BulkApprove(r, t) \/ BulkReject(r, t)
      PROVE  MirrorInv'
  BY <1>3, ApproveStep, RejectStep, BulkApproveStep, BulkRejectStep
<1>4. ASSUME NEW r \in Reviewer, Emit(r) \/ CommitBulk(r) \/ CutOff(r) PROVE MirrorInv'
  BY <1>4, EmitStep, CommitBulkStep, CutOffStep
<1>5. ASSUME NEW t \in Text, NEW v \in Version, Deliver(t, v) \/ DeliverFails(t, v)
      PROVE  MirrorInv'
  BY <1>5, DeliverStep, DeliverFailsStep
<1> QED
  BY <1>1, <1>2, <1>3, <1>4, <1>5 DEF Next

\* The inductive invariant: types, and where each version may have got to.
THEOREM MirrorInvariant == Spec => []MirrorInv
<1>1. Init => MirrorInv
  BY InitMirror
<1>2. MirrorInv /\ [Next]_vars => MirrorInv'
  BY NextMirror
<1> QED
  BY <1>1, <1>2, PTL DEF Spec

\* Rows, reviews, events and the quiz service's copy keep their types.
THEOREM MirrorTypes == Spec => []TypeOK
<1>1. MirrorInv => TypeOK
  BY DEF MirrorInv
<1> QED
  BY <1>1, MirrorInvariant, PTL

\* Students read no version that no reviewer decided to approve, whatever is
\* drafted between a commit and its event (translation_events.py).
THEOREM SeenIsApproved == Spec => []SeenWasApproved
<1>1. MirrorInv => SeenWasApproved
  BY DEF MirrorInv, DecidedAt, Decided, SeenWasApproved
<1> QED
  BY <1>1, MirrorInvariant, PTL

\* However events are doubled and reordered, students end up with the version
\* that is published (content_subscriber.go, handleTranslation).
THEOREM SettledCurrent == Spec => []SettledIsCurrent
<1>1. ASSUME MirrorInv, NEW t \in Text, Settled(t) PROVE mirror[t] = row[t].version
  <2>1. Underway(t) /\ stream[t][row[t].version] = 0
    BY <1>1 DEF MirrorInv, NotLost, NothingLost, Settled
  <2> QED
    BY <2>1 DEF Underway
<1>2. MirrorInv => SettledIsCurrent
  BY <1>1 DEF SettledIsCurrent
<1> QED
  BY <1>2, MirrorInvariant, PTL
=============================================================================
