-------------------------- MODULE QuizSessionProofs --------------------------
(***************************************************************************)
(* Proofs about QuizSession, for any number of requests, questions and     *)
(* items: the inductive invariant, and what a step may do to the rows.     *)
(***************************************************************************)
EXTENDS QuizInvariant, FiniteSetTheorems, TLAPS

-----------------------------------------------------------------------------
(* Proofs about QuizSession, for any number of requests, questions and     *)
(* items: IInv (QuizInvariant) is inductive, and what follows from it.     *)

LEMMA ConstantTypes == /\ MaxItems \in Nat /\ Target \in 1..MaxItems
                       /\ Bank \subseteq Questions /\ NoQuestion \notin Questions
  BY QuizAssumption

LEMMA RowTypes == /\ NoRow \in Row /\ NoRows \in [Idx -> Row]
                  /\ NoSeen \in Seen /\ NoWork \in Work /\ NoDraft \in Draft
<1>1. 0 \in Idx /\ 0 \in 0..MaxItems
  BY QuizAssumption DEF Idx
<1>2. NoRow \in Row /\ NoRows \in [Idx -> Row]
  BY DEF NoRow, NoRows, Row, Verdicts
<1>. QED
  BY <1>1, <1>2 DEF NoSeen, NoWork, NoDraft, NoItems, ItemEvent, Seen, Work, Draft,
     Verdicts, Statuses

\* A set of item indexes is finite and has at most MaxItems elements.
LEMMA IdxCardinality ==
  ASSUME NEW S \in SUBSET Idx
  PROVE  IsFiniteSet(S) /\ Cardinality(S) \in 0..MaxItems
<1>1. IsFiniteSet(Idx) /\ Cardinality(Idx) = MaxItems
  BY FS_Interval, ConstantTypes DEF Idx
<1>2. IsFiniteSet(S) /\ Cardinality(S) <= MaxItems
  BY <1>1, FS_Subset
<1>. QED
  BY <1>2, FS_CardinalityType, ConstantTypes

\* ServeQuestion at an index that is not beyond the next row keeps the rows
\* a prefix, whether it inserts or finds the row there.
LEMMA ServeKeepsPrefix ==
  ASSUME TypeOK, ServedIsPrefix, AnswersServed,
         NEW i \in Nat, i <= served, i < target, NEW q \in Questions,
         ServeQuestion(i, q), UNCHANGED target
  PROVE  /\ i \in Idx
         /\ items' \in [Idx -> Row] /\ served' \in 0..MaxItems
         /\ served <= served' /\ i < served'
         /\ ServedIsPrefix'
         /\ \A j \in Idx : items'[j].ans = items[j].ans
         /\ \A j \in Idx : items[j].q # NoQuestion => items'[j] = items[j]
         /\ \A j \in Idx : items'[j].q = NoQuestion => items[j].q = NoQuestion
<1>1. i \in Idx
  BY ConstantTypes DEF TypeOK, Idx
<1>2. CASE items[i].q = NoQuestion
  <2>1. /\ items' = [items EXCEPT
                        ![i] = [q |-> q, ans |-> "none", timed |-> FALSE]]
        /\ served' = served + 1
    BY <1>2 DEF ServeQuestion
  <2>2. i = served
    BY <1>1, <1>2, ConstantTypes DEF ServedIsPrefix, Served, TypeOK
  <2>4. /\ items' \in [Idx -> Row]
        /\ items'[i] = [q |-> q, ans |-> "none", timed |-> FALSE]
        /\ \A j \in Idx : j # i => items'[j] = items[j]
    BY <1>1, <2>1 DEF TypeOK, Row, Verdicts
  <2>5. Served' = 0..(served' - 1)
    <3>1. Served' = Served \cup {i}
      BY <1>1, <2>4, ConstantTypes DEF Served
    <3>. QED
      BY <3>1, <2>1, <2>2 DEF ServedIsPrefix, TypeOK
  <2>. QED
    BY <1>1, <1>2, <2>1, <2>2, <2>4, <2>5, ConstantTypes
       DEF ServedIsPrefix, TypeOK, AnswersServed
<1>3. CASE items[i].q # NoQuestion
  <2>1. UNCHANGED <<items, served>>
    BY <1>3 DEF ServeQuestion
  <2>2. i < served
    BY <1>1, <1>3, ConstantTypes DEF ServedIsPrefix, Served, TypeOK
  <2>. QED
    BY <1>1, <2>1, <2>2 DEF ServedIsPrefix, Served, TypeOK
<1>. QED
  BY <1>2, <1>3

\* IInv holds before anything has happened.
LEMMA Initiation == Init => IInv
<1> SUFFICES ASSUME Init PROVE IInv
  OBVIOUS
<1>1. TypeOK
  <2>1. /\ mode \in Modes /\ status \in Statuses
        /\ 0 \in 0..MaxItems
        /\ "idle" \in PCs
    BY ConstantTypes DEF Init, Modes, Statuses, PCs
  <2>2. seedQueue \in Seq(Questions)
    BY DEF Init
  <2>3. /\ pc \in [Requests -> PCs] /\ seen \in [Requests -> Seen]
        /\ work \in [Requests -> Work] /\ draft \in [Requests -> Draft]
    BY <2>1, RowTypes DEF Init
  <2>. QED
    BY <2>1, <2>2, <2>3, RowTypes DEF Init, TypeOK
<1>2. Served = {} /\ Right = {}
  BY DEF Init, Served, Right, NoRows, NoRow
<1>3. ServedIsPrefix /\ ScoreIsExact
  BY <1>2, FS_EmptySet DEF Init, ServedIsPrefix, ScoreIsExact
<1>4. BeforeStart /\ SeedBehind /\ ReadBehind
  BY DEF Init, BeforeStart, SeedBehind, ReadBehind, NoSeen
<1>5. ServeInRange /\ AnswersServed
  BY DEF Init, ServeInRange, AnswersServed, NoRows, NoRow
<1>. QED
  BY <1>1, <1>3, <1>4, <1>5 DEF IInv

\* The step of one request leaves the others where they are.
OnlyMoves(r) ==
    /\ pc' \in [Requests -> PCs] /\ seen' \in [Requests -> Seen]
    /\ work' \in [Requests -> Work] /\ draft' \in [Requests -> Draft]
    /\ \A x \in Requests \ {r} :
         /\ pc'[x] = pc[x] /\ seen'[x] = seen[x]
         /\ work'[x] = work[x] /\ draft'[x] = draft[x]

\* The step neither serves nor answers an item, and there is a session.
RowsKept ==
    /\ UNCHANGED <<mode, target, served, correct, theta, seed>>
    /\ status' \in Statuses \ {"NONE"}
    /\ items' \in [Idx -> Row]
    /\ \A i \in Idx : items'[i].q = items[i].q /\ items'[i].ans = items[i].ans

LEMMA RowUnchanged ==
  ASSUME IInv, UNCHANGED <<row, seed>>, status # "NONE"
  PROVE  RowsKept
BY DEF RowsKept, row, IInv, TypeOK

\* A step that neither serves nor answers an item keeps IInv if the request
\* it moves ends up with values that are behind the row.
LEMMA RequestStep ==
  ASSUME IInv, NEW r \in Requests, RowsKept, OnlyMoves(r),
         late' \in BOOLEAN, events' \subseteq Event,
         seen'[r].served <= served,
         pc'[r] = "pick" => seen'[r].served < target,
         pc'[r] = "serve" =>
           work'[r].idx <= served /\ work'[r].idx < target /\ work'[r].q \in Bank,
         pc'[r] \in {"pick", "serve"} => mode \notin PreServed,
         pc'[r] = "record" =>
           items[work'[r].idx].q # NoQuestion /\ work'[r].ans \in Verdicts
  PROVE  IInv'
<1>1. TypeOK'
  BY DEF IInv, TypeOK, OnlyMoves, RowsKept, seed
<1>2. BeforeStart' /\ SeedBehind'
  BY DEF IInv, BeforeStart, SeedBehind, RowsKept, seed
<1>3. ReadBehind'
  BY DEF IInv, ReadBehind, TypeOK, OnlyMoves, RowsKept
<1>4. ServeInRange'
  BY DEF IInv, ServeInRange, TypeOK, OnlyMoves, RowsKept
<1>5. AnswersServed'
  <2>1. ASSUME NEW i \in Idx, items'[i].q = NoQuestion PROVE items'[i].ans = "none"
    BY <2>1 DEF IInv, AnswersServed, RowsKept
  <2>2. ASSUME NEW x \in Requests, pc'[x] = "record"
        PROVE  items'[work'[x].idx].q # NoQuestion /\ work'[x].ans \in Verdicts
    <3>1. work'[x].idx \in Idx
      BY DEF OnlyMoves, Work
    <3>2. CASE x = r
      BY <2>2, <3>1, <3>2 DEF RowsKept
    <3>3. CASE x # r
      BY <2>2, <3>1, <3>3 DEF IInv, AnswersServed, OnlyMoves, RowsKept
    <3>. QED
      BY <3>2, <3>3
  <2>. QED
    BY <2>1, <2>2 DEF AnswersServed
<1>6. Served' = Served /\ Right' = Right
  BY DEF Served, Right, RowsKept
<1>7. ServedIsPrefix' /\ ScoreIsExact'
  BY <1>6 DEF IInv, ServedIsPrefix, ScoreIsExact, RowsKept
<1>. QED
  BY <1>1, <1>2, <1>3, <1>4, <1>5, <1>7 DEF IInv

\* Creating the session, seeding it and the clock keep IInv.
LEMMA CreationStep ==
  ASSUME IInv, NEW m \in Modes, NEW n \in 1..MaxItems, CreateSession(m, n),
         seedQueue' \in Seq(Questions), Len(seedQueue') <= n
  PROVE  IInv'
<1>1. TypeOK'
  BY ConstantTypes DEF IInv, TypeOK, CreateSession, Statuses
<1>2. served = 0 /\ seedNext = 0 /\ target = 0
  BY DEF IInv, BeforeStart, CreateSession
<1>3. BeforeStart' /\ SeedBehind'
  BY <1>1, <1>2 DEF BeforeStart, SeedBehind, CreateSession, TypeOK
<1>4. ReadBehind'
  BY DEF IInv, ReadBehind, CreateSession
<1>5. ServeInRange'
  BY DEF IInv, BeforeStart, ServeInRange, CreateSession
<1>6. ServedIsPrefix'
  BY <1>2 DEF IInv, ServedIsPrefix, Served, CreateSession
<1>7. AnswersServed' /\ ScoreIsExact'
  BY DEF IInv, AnswersServed, ScoreIsExact, Right, CreateSession
<1>. QED
  BY <1>1, <1>3, <1>4, <1>5, <1>6, <1>7 DEF IInv

\* Inserting a row, by the seeding loop or by /next, keeps what IInv says of
\* the rows and of the requests that read them.
LEMMA ServeStep ==
  ASSUME IInv, NEW i \in Nat, i <= served, i < target, NEW q \in Questions,
         ServeQuestion(i, q), UNCHANGED <<mode, status, target, correct>>,
         UNCHANGED <<seen, work>>, NEW r \in Requests,
         pc' = [pc EXCEPT ![r] = "shown"] \/ UNCHANGED pc
  PROVE  /\ ReadBehind' /\ ServeInRange' /\ ServedIsPrefix'
         /\ AnswersServed' /\ ScoreIsExact'
<1>1. /\ items' \in [Idx -> Row] /\ served' \in 0..MaxItems
      /\ served <= served' /\ ServedIsPrefix'
      /\ \A j \in Idx : items'[j].ans = items[j].ans
      /\ \A j \in Idx : items[j].q # NoQuestion => items'[j] = items[j]
      /\ \A j \in Idx : items'[j].q = NoQuestion => items[j].q = NoQuestion
  BY ServeKeepsPrefix DEF IInv
<1>2. ReadBehind'
  BY <1>1 DEF IInv, ReadBehind, TypeOK, Seen
<1>3. ServeInRange'
  BY <1>1 DEF IInv, ServeInRange, TypeOK, Seen, Work, Idx
<1>4. AnswersServed'
  BY <1>1 DEF IInv, AnswersServed, TypeOK, Work
<1>5. Right' = Right
  BY <1>1 DEF Right
<1>6. ScoreIsExact'
  BY <1>5 DEF IInv, ScoreIsExact
<1>. QED
  BY <1>1, <1>2, <1>3, <1>4, <1>6

\* The first answer to an item adds it to Right exactly if it is right.
LEMMA AnswerCounts ==
  ASSUME IInv, NEW i \in Idx, NEW v \in Verdicts, items[i].ans = "none",
         items[i].q # NoQuestion,
         items' = [items EXCEPT ![i].ans = v],
         correct' = IF v = "right" THEN correct + 1 ELSE correct
  PROVE  /\ items' \in [Idx -> Row]
         /\ \A j \in Idx : items'[j].q = items[j].q
         /\ \A j \in Idx : items[j].ans # "none" => items'[j] = items[j]
         /\ items'[i].ans = v
         /\ \A j \in Idx : items'[j].ans # "none" => j = i \/ items[j].ans # "none"
         /\ ScoreIsExact' /\ correct' \in 0..MaxItems
<1>1. /\ items' \in [Idx -> Row]
      /\ items'[i].ans = v /\ items'[i].q = items[i].q
      /\ \A j \in Idx : j # i => items'[j] = items[j]
  BY DEF IInv, TypeOK, Row, Verdicts
<1>2. IsFiniteSet(Right) /\ i \notin Right
  BY IdxCardinality DEF Right
<1>3. Right' = IF v = "right" THEN Right \cup {i} ELSE Right
  BY <1>1 DEF Right, Verdicts
<1>4. Cardinality(Right \cup {i}) = Cardinality(Right) + 1
  BY <1>2, FS_AddElement
<1>5. ScoreIsExact'
  BY <1>3, <1>4 DEF IInv, ScoreIsExact
<1>6. correct' \in 0..MaxItems
  BY <1>5, IdxCardinality, Right' \in SUBSET Idx DEF ScoreIsExact, Right
<1>. QED
  BY <1>1, <1>5, <1>6

\* Ending a request keeps IInv.
LEMMA LeaveStep ==
  ASSUME IInv, NEW r \in Requests, UNCHANGED <<row, seed, late, events>>,
         pc[r] # "idle", Leave(r)
  PROVE  IInv'
<1>1. OnlyMoves(r)
  BY RowTypes DEF Leave, Goto, OnlyMoves, IInv, TypeOK, PCs
<1>2. status # "NONE"
  BY DEF IInv, BeforeStart
<1>3. pc'[r] = "idle" /\ seen'[r].served = 0
  BY DEF Leave, Goto, NoSeen, IInv, TypeOK
<1>. QED
  BY <1>1, <1>2, <1>3, RowUnchanged, RequestStep DEF IInv, TypeOK

\* Every step keeps IInv, one step of the proof per action.
LEMMA Consecution == IInv /\ [Next]_vars => IInv'
<1> SUFFICES ASSUME IInv, [Next]_vars PROVE IInv'
  OBVIOUS
<1>1. CASE UNCHANGED vars
  BY <1>1 DEF vars, row, seed, IInv, TypeOK, BeforeStart, SeedBehind,
     ReadBehind, ServeInRange, AnswersServed, ServedIsPrefix, ScoreIsExact,
     Served, Right
<1>2. ASSUME NEW m \in StartModes, Start(m) PROVE IInv'
  <2>1. m \in Modes /\ Target \in 1..MaxItems
    BY QuizAssumption DEF Modes
  <2>2. CreateSession(m, Target) /\ seedQueue' = <<>>
    BY <1>2 DEF Start, IInv, BeforeStart, CreateSession
  <2>. QED
    BY <2>1, <2>2, CreationStep
<1>3. ASSUME NEW m \in SeedModes, NEW list \in SeedLists(m), StartSeeded(m, list)
      PROVE IInv'
  <2>1. m \in Modes
    BY QuizAssumption DEF Modes
  <2>2. list \in Seq(Questions) /\ Len(list) \in 1..MaxItems
    <3>1. PICK n \in 1..MaxItems : list \in [1..n -> Questions]
      BY DEF SeedLists
    <3>. QED
      BY <3>1, ConstantTypes
  <2>. QED
    BY <1>3, <2>1, <2>2, CreationStep DEF StartSeeded
<1>4. CASE SeedServe
  <2>1. /\ Len(seedQueue) \in Nat /\ Len(seedQueue) > 0
        /\ Head(seedQueue) \in Questions
        /\ seedQueue' \in Seq(Questions) /\ Len(seedQueue') = Len(seedQueue) - 1
    BY <1>4 DEF SeedServe, IInv, TypeOK
  <2>2. /\ seedNext \in Nat /\ seedNext <= served /\ seedNext < target
        /\ target \in 0..MaxItems /\ seedNext' = seedNext + 1
    BY <1>4, <2>1, ConstantTypes DEF SeedServe, IInv, TypeOK, SeedBehind
  <2>3. /\ ServeQuestion(seedNext, Head(seedQueue))
        /\ UNCHANGED <<mode, status, target, correct, theta, late, pc, seen,
                       work, draft, events>>
    BY <1>4 DEF SeedServe
  <2>4. /\ items' \in [Idx -> Row] /\ served' \in 0..MaxItems
        /\ seedNext < served'
    BY <2>1, <2>2, <2>3, ServeKeepsPrefix DEF IInv
  <2>5. TypeOK'
    BY <2>1, <2>2, <2>3, <2>4, ConstantTypes DEF IInv, TypeOK
  <2>6. BeforeStart'
    BY <1>4, <2>3 DEF IInv, BeforeStart, SeedServe
  <2>7. SeedBehind'
    BY <2>1, <2>2, <2>3, <2>4 DEF IInv, SeedBehind, TypeOK
  <2>8. ReadBehind' /\ ServeInRange' /\ ServedIsPrefix' /\ AnswersServed' /\ ScoreIsExact'
    <3>1. CASE Requests = {}
      BY <3>1, <2>1, <2>2, <2>3, ServeKeepsPrefix
         DEF IInv, ReadBehind, ServeInRange, AnswersServed, ScoreIsExact, Right
    <3>2. CASE Requests # {}
      BY <3>2, <2>1, <2>2, <2>3, ServeStep
    <3>. QED
      BY <3>1, <3>2
  <2>. QED
    BY <2>5, <2>6, <2>7, <2>8 DEF IInv
<1>5. CASE SeedFail
  <2>1. UNCHANGED <<row, seedNext, late, pc, seen, work, draft, events>> /\ seedQueue' = <<>>
    BY <1>5 DEF SeedFail
  <2>2. TypeOK' /\ BeforeStart' /\ SeedBehind'
    BY <2>1 DEF IInv, TypeOK, BeforeStart, SeedBehind, row
  <2>3. ReadBehind' /\ ServeInRange' /\ AnswersServed'
    BY <2>1 DEF IInv, ReadBehind, ServeInRange, AnswersServed, row
  <2>4. ServedIsPrefix' /\ ScoreIsExact'
    BY <2>1 DEF IInv, ServedIsPrefix, ScoreIsExact, Served, Right, row
  <2>. QED
    BY <2>2, <2>3, <2>4 DEF IInv
<1>6. CASE Expiry
  <2>1. UNCHANGED <<row, seed, pc, seen, work, draft, events>> /\ late' = TRUE
    BY <1>6 DEF Expiry
  <2>2. TypeOK' /\ BeforeStart' /\ SeedBehind'
    BY <2>1 DEF IInv, TypeOK, BeforeStart, SeedBehind, row, seed
  <2>3. ReadBehind' /\ ServeInRange' /\ AnswersServed'
    BY <2>1 DEF IInv, ReadBehind, ServeInRange, AnswersServed, row
  <2>4. ServedIsPrefix' /\ ScoreIsExact'
    BY <2>1 DEF IInv, ServedIsPrefix, ScoreIsExact, Served, Right, row
  <2>. QED
    BY <2>2, <2>3, <2>4 DEF IInv
<1>7. ASSUME NEW r \in Requests, NEW op \in Ops, Admit(r, op) PROVE IInv'
  <2>1. OnlyMoves(r) /\ UNCHANGED <<row, seed, late, events>>
    BY <1>7 DEF Admit, Goto, OnlyMoves, IInv, TypeOK, Seen, PCs
  <2>2. /\ pc'[r] = op /\ op \notin {"pick", "serve", "record"}
        /\ seen'[r].served = served /\ status # "NONE"
    BY <1>7 DEF Admit, Goto, IInv, TypeOK, Ops
  <2>. QED
    BY <2>1, <2>2, RowUnchanged, RequestStep DEF IInv, TypeOK
<1>8. ASSUME NEW r \in Requests, FindExpired(r) PROVE IInv'
  <2>1. OnlyMoves(r) /\ UNCHANGED <<row, seed, late, events>>
    BY <1>8 DEF FindExpired, Goto, OnlyMoves, IInv, TypeOK, PCs
  <2>2. /\ pc'[r] = "expire" /\ seen'[r] = seen[r] /\ status # "NONE"
    BY <1>8 DEF FindExpired, Goto, IInv, TypeOK
  <2>. QED
    BY <2>1, <2>2, RowUnchanged, RequestStep DEF IInv, TypeOK, ReadBehind
<1>9. ASSUME NEW r \in Requests, Abandon(r) \/ Finish(r) PROVE IInv'
  <2>1. /\ Leave(r) /\ UNCHANGED <<row, seed, late, events>>
        /\ pc[r] # "idle"
    BY <1>9 DEF Abandon, Finish, Replies
  <2>. QED
    BY <2>1, LeaveStep
<1>10. ASSUME NEW r \in Requests, MarkExpired(r) PROVE IInv'
  <2>1. /\ status # "NONE" /\ UNCHANGED <<late, events, items>>
        /\ UNCHANGED <<mode, target, served, correct, theta, seed>>
        /\ status' \in {status, "EXPIRED"} /\ Leave(r)
    BY <1>10 DEF MarkExpired, IInv, BeforeStart
  <2>2. RowsKept
    BY <2>1 DEF RowsKept, IInv, TypeOK, Statuses
  <2>3. OnlyMoves(r)
    BY <2>1, RowTypes DEF Leave, Goto, OnlyMoves, IInv, TypeOK, PCs
  <2>4. pc'[r] = "idle" /\ seen'[r].served = 0
    BY <2>1 DEF Leave, Goto, NoSeen, IInv, TypeOK
  <2>. QED
    BY <2>1, <2>2, <2>3, <2>4, RequestStep DEF IInv, TypeOK
<1>11. ASSUME NEW r \in Requests, NextLook(r) PROVE IInv'
  <2>1. /\ UNCHANGED <<row, seed, late, seen, draft, events>>
        /\ pc[r] = "look" /\ status # "NONE"
    BY <1>11 DEF NextLook, IInv, BeforeStart
  <2>2. /\ pc' = [pc EXCEPT ![r] = pc'[r]] /\ pc'[r] \in {"done", "shown", "pick"}
        /\ pc'[r] = "pick" => mode \notin PreServed /\ seen[r].served < target
    BY <1>11 DEF NextLook, Show, Goto, IInv, TypeOK
  <2>3. work' \in [Requests -> Work] /\ \A x \in Requests \ {r} : work'[x] = work[x]
    <3>1. CASE UNCHANGED work
      BY <3>1 DEF IInv, TypeOK
    <3>2. ASSUME NEW i \in Unanswered, Show(r, i, items[i].q)
          PROVE  /\ work' \in [Requests -> Work]
                 /\ \A x \in Requests \ {r} : work'[x] = work[x]
      <4>1. i \in Idx /\ items[i].q \in Questions \cup {NoQuestion}
        BY DEF Unanswered, Served, IInv, TypeOK, Row
      <4>. QED
        BY <3>2, <4>1 DEF Show, IInv, TypeOK, Work
    <3>. QED
      BY <1>11, <3>1, <3>2 DEF NextLook
  <2>4. OnlyMoves(r)
    BY <2>1, <2>2, <2>3 DEF OnlyMoves, IInv, TypeOK, PCs, Replies
  <2>. QED
    BY <2>1, <2>2, <2>4, RowUnchanged, RequestStep DEF IInv, TypeOK, ReadBehind
<1>12. ASSUME NEW r \in Requests, NextPick(r) PROVE IInv'
  <2>1. /\ UNCHANGED <<row, seed, late, seen, draft, events>>
        /\ pc[r] = "pick" /\ status # "NONE"
        /\ seen[r].served < target /\ mode \notin PreServed
        /\ seen[r].served \in Idx
    BY <1>12, ConstantTypes
       DEF NextPick, IInv, TypeOK, BeforeStart, ServeInRange, Idx, Seen
  <2>2. CASE Goto(r, "done") /\ UNCHANGED work
    <3>1. OnlyMoves(r) /\ pc'[r] = "done"
      BY <2>1, <2>2 DEF Goto, OnlyMoves, IInv, TypeOK, PCs, Replies
    <3>. QED
      BY <2>1, <3>1, RowUnchanged, RequestStep DEF IInv, TypeOK, ReadBehind
  <2>3. ASSUME NEW q \in Bank, Goto(r, "serve"),
               work' = [work EXCEPT ![r].idx = seen[r].served, ![r].q = q]
        PROVE  IInv'
    <3>1. work' \in [Requests -> Work] /\ work'[r].idx = seen[r].served /\ work'[r].q = q
      BY <2>1, <2>3, ConstantTypes DEF IInv, TypeOK, Work
    <3>2. OnlyMoves(r) /\ pc'[r] = "serve"
      BY <2>1, <2>3, <3>1 DEF Goto, OnlyMoves, IInv, TypeOK, PCs
    <3>. QED
      BY <2>1, <3>1, <3>2, RowUnchanged, RequestStep DEF IInv, TypeOK, ReadBehind
  <2>. QED
    BY <1>12, <2>2, <2>3 DEF NextPick
<1>13. ASSUME NEW r \in Requests, NextServe(r) PROVE IInv'
  <2>1. /\ work[r].idx \in Nat /\ work[r].idx <= served /\ work[r].idx < target
        /\ work[r].q \in Questions /\ status # "NONE" /\ mode \notin PreServed
    BY <1>13, ConstantTypes
       DEF NextServe, IInv, TypeOK, BeforeStart, ServeInRange, Work, Idx
  <2>2. /\ ServeQuestion(work[r].idx, work[r].q)
        /\ pc' = [pc EXCEPT ![r] = "shown"]
        /\ UNCHANGED <<mode, status, target, correct, theta, seed, late, seen,
                       work, draft, events>>
    BY <1>13 DEF NextServe, Goto
  <2>3. /\ items' \in [Idx -> Row] /\ served' \in 0..MaxItems
        /\ served <= served'
    BY <2>1, <2>2, ServeKeepsPrefix DEF IInv
  <2>4. TypeOK'
    BY <2>2, <2>3 DEF IInv, TypeOK, PCs, Replies, seed
  <2>5. BeforeStart' /\ SeedBehind'
    BY <2>1, <2>2, <2>3 DEF IInv, BeforeStart, SeedBehind, TypeOK, seed
  <2>6. ReadBehind' /\ ServeInRange' /\ ServedIsPrefix' /\ AnswersServed' /\ ScoreIsExact'
    BY <2>1, <2>2, ServeStep
  <2>. QED
    BY <2>4, <2>5, <2>6 DEF IInv
<1>14. ASSUME NEW r \in Requests, NEW i \in Idx, NEW v \in Verdicts,
              AnswerBegin(r, i, v)
       PROVE  IInv'
  <2>1. /\ UNCHANGED <<row, seed, late, seen, draft, events>>
        /\ status # "NONE" /\ items[i].q # NoQuestion
        /\ items[i].ans \in Verdicts \cup {"none"}
    BY <1>14 DEF AnswerBegin, IInv, TypeOK, BeforeStart, Served, Row
  <2>2. /\ work' \in [Requests -> Work]
        /\ work'[r].idx = i /\ work'[r].ans = v
        /\ \A x \in Requests \ {r} : work'[x] = work[x]
    BY <1>14, <2>1 DEF AnswerBegin, IInv, TypeOK, Work
  <2>3. OnlyMoves(r) /\ pc'[r] = "record"
    BY <1>14, <2>1, <2>2 DEF AnswerBegin, Goto, OnlyMoves, IInv, TypeOK, PCs
  <2>. QED
    BY <2>1, <2>2, <2>3, RowUnchanged, RequestStep DEF IInv, TypeOK, ReadBehind
<1>15. ASSUME NEW r \in Requests, AnswerCommit(r) PROVE IInv'
  <2>1. /\ UNCHANGED <<mode, status, target, served, seed, late, seen, draft, events>>
        /\ pc[r] = "record" /\ status # "NONE"
        /\ work[r].idx \in Idx /\ work[r].ans \in Verdicts
        /\ work[r].snap \in Verdicts \cup {"none"}
        /\ items[work[r].idx].q # NoQuestion /\ seen[r].theta \subseteq Idx
    BY <1>15 DEF AnswerCommit, IInv, TypeOK, BeforeStart, AnswersServed, Work, Seen
  <2>2. CASE FirstWrite(r)
    <3> DEFINE i == work[r].idx
    <3>1. /\ items' \in [Idx -> Row]
          /\ \A j \in Idx : items'[j].q = items[j].q
          /\ \A j \in Idx : items'[j].ans # "none" => j = i \/ items[j].ans # "none"
          /\ ScoreIsExact' /\ correct' \in 0..MaxItems
      BY <2>1, <2>2, AnswerCounts DEF FirstWrite
    <3>2. /\ theta' \subseteq Idx /\ UNCHANGED work
          /\ pc' = [pc EXCEPT ![r] = "answered"]
      BY <2>1, <2>2 DEF FirstWrite, Goto
    <3>3. TypeOK'
      BY <2>1, <3>1, <3>2 DEF IInv, TypeOK, PCs, Replies, seed
    <3>4. BeforeStart' /\ SeedBehind' /\ ReadBehind'
      BY <2>1, <3>2 DEF IInv, BeforeStart, SeedBehind, ReadBehind, seed
    <3>5. ServeInRange'
      BY <2>1, <3>2 DEF IInv, ServeInRange, TypeOK
    <3>6. AnswersServed'
      BY <2>1, <3>1, <3>2 DEF IInv, AnswersServed, TypeOK, Work
    <3>7. ServedIsPrefix'
      BY <2>1, <3>1 DEF IInv, ServedIsPrefix, Served
    <3>. QED
      BY <3>1, <3>3, <3>4, <3>5, <3>6, <3>7 DEF IInv
  <2>3. CASE LaterWrite(r)
    <3>1. work' \in [Requests -> Work] /\ \A x \in Requests \ {r} : work'[x] = work[x]
      <4>1. work' = [work EXCEPT ![r].ans = work[r].snap]
        BY <2>3 DEF LaterWrite
      <4>2. [work[r] EXCEPT !.ans = work[r].snap] \in Work
        <5>1. ASSUME NEW w \in Work, NEW v \in Verdicts \cup {"none"}
              PROVE  [w EXCEPT !.ans = v] \in Work
          BY DEF Work
        <5>2. work[r] \in Work
          BY DEF IInv, TypeOK
        <5>. QED
          BY <2>1, <5>1, <5>2
      <4>. QED
        BY <4>1, <4>2 DEF IInv, TypeOK
    <3>2. /\ UNCHANGED <<row, seed, late, events>>
          /\ OnlyMoves(r) /\ pc'[r] \in {"panicked", "answered"}
      BY <2>1, <2>3, <3>1
         DEF LaterWrite, Goto, OnlyMoves, IInv, TypeOK, PCs, Replies, row
    <3>. QED
      BY <2>1, <3>2, RowUnchanged, RequestStep DEF IInv, TypeOK, ReadBehind
  <2>. QED
    BY <1>15, <2>2, <2>3 DEF AnswerCommit
<1>16. ASSUME NEW r \in Requests, MarkSubmitted(r) PROVE IInv'
  <2>1. /\ UNCHANGED <<mode, target, served, correct, theta, items, seed, late,
                        seen, work, draft, events>>
        /\ status' \in Statuses \ {"NONE"} /\ pc' = [pc EXCEPT ![r] = "durations"]
    BY <1>16 DEF MarkSubmitted, Goto, IInv, TypeOK, BeforeStart, Statuses
  <2>2. RowsKept
    BY <2>1 DEF RowsKept, IInv, TypeOK
  <2>3. OnlyMoves(r) /\ pc'[r] = "durations"
    BY <2>1 DEF OnlyMoves, IInv, TypeOK, PCs
  <2>. QED
    BY <2>1, <2>2, <2>3, RequestStep DEF IInv, TypeOK, ReadBehind
<1>17. ASSUME NEW r \in Requests, WriteItemDurations(r) PROVE IInv'
  <2>1. /\ UNCHANGED <<mode, status, target, served, correct, theta, seed, late,
                        seen, work, draft, events>>
        /\ status # "NONE" /\ pc' = [pc EXCEPT ![r] = "reload"]
    BY <1>17 DEF WriteItemDurations, Goto, IInv, BeforeStart
  <2>2. /\ items' \in [Idx -> Row]
        /\ \A i \in Idx : items'[i].q = items[i].q /\ items'[i].ans = items[i].ans
    <3>1. ASSUME NEW i \in Idx
          PROVE  LET t == [items[i] EXCEPT !.timed = TRUE]
                 IN  t \in Row /\ t.q = items[i].q /\ t.ans = items[i].ans
      BY DEF IInv, TypeOK, Row
    <3>2. items \in [Idx -> Row]
      BY DEF IInv, TypeOK
    <3>. QED
      BY <1>17, <3>1, <3>2 DEF WriteItemDurations
  <2>3. RowsKept
    BY <2>1, <2>2 DEF RowsKept, IInv, TypeOK
  <2>4. OnlyMoves(r) /\ pc'[r] = "reload"
    BY <2>1 DEF OnlyMoves, IInv, TypeOK, PCs
  <2>. QED
    BY <2>1, <2>3, <2>4, RequestStep DEF IInv, TypeOK, ReadBehind
<1>18. ASSUME NEW r \in Requests, SubmitReload(r) PROVE IInv'
  <2>1. /\ UNCHANGED <<row, seed, late, seen, work, events>> /\ status # "NONE"
    BY <1>18 DEF SubmitReload, IInv, BeforeStart
  <2>2. /\ draft' \in [Requests -> Draft]
        /\ \A x \in Requests \ {r} : draft'[x] = draft[x]
    <3>1. [status |-> status, served |-> served, correct |-> correct,
           items |-> NoItems] \in Draft
      BY RowTypes DEF IInv, TypeOK, Draft, NoDraft
    <3>. QED
      BY <1>18, <3>1 DEF SubmitReload, IInv, TypeOK
  <2>3. OnlyMoves(r) /\ pc'[r] = "load"
    BY <1>18, <2>1, <2>2 DEF SubmitReload, Goto, OnlyMoves, IInv, TypeOK, PCs
  <2>. QED
    BY <2>1, <2>3, RowUnchanged, RequestStep DEF IInv, TypeOK, ReadBehind
<1>19. ASSUME NEW r \in Requests, LoadItemEvents(r) PROVE IInv'
  <2>1. /\ UNCHANGED <<row, seed, late, seen, work, events>> /\ status # "NONE"
    BY <1>19 DEF LoadItemEvents, IInv, BeforeStart
  <2>2. /\ draft' \in [Requests -> Draft]
        /\ \A x \in Requests \ {r} : draft'[x] = draft[x]
    <3>1. ItemsTold \in [Idx -> ItemEvent]
      BY DEF ItemsTold, ItemEvent, IInv, TypeOK, Row
    <3>. QED
      BY <1>19, <3>1 DEF LoadItemEvents, IInv, TypeOK, Draft
  <2>3. OnlyMoves(r) /\ pc'[r] = "publish"
    BY <1>19, <2>1, <2>2 DEF LoadItemEvents, Goto, OnlyMoves, IInv, TypeOK, PCs
  <2>. QED
    BY <2>1, <2>3, RowUnchanged, RequestStep DEF IInv, TypeOK, ReadBehind
<1>20. ASSUME NEW r \in Requests, Publish(r) PROVE IInv'
  <2>1. /\ UNCHANGED <<row, seed, late, seen, work, draft>> /\ status # "NONE"
    BY <1>20 DEF Publish, IInv, BeforeStart
  <2>2. events' \subseteq Event
    BY <1>20 DEF Publish, IInv, TypeOK, Draft, Event
  <2>3. OnlyMoves(r) /\ pc'[r] = "closed"
    BY <1>20, <2>1 DEF Publish, Goto, OnlyMoves, IInv, TypeOK, PCs, Replies
  <2>. QED
    BY <2>1, <2>2, <2>3, RowUnchanged, RequestStep DEF IInv, TypeOK, ReadBehind
<1>21. ASSUME NEW r \in Requests, Handler(r) PROVE IInv'
  BY <1>21, <1>9, <1>10, <1>11, <1>12, <1>13, <1>14, <1>15, <1>16, <1>17,
     <1>18, <1>19, <1>20 DEF Handler
<1>. QED
  BY <1>1, <1>2, <1>3, <1>4, <1>5, <1>6, <1>7, <1>8, <1>9, <1>21 DEF Next

\* The inductive invariant of a session.
THEOREM Invariant == Spec => []IInv
  BY Initiation, Consecution, PTL DEF Spec

\* Every value keeps its type: served_count and correct_count stay within
\* the list, however many requests race.
THEOREM TypeCorrect == Spec => []TypeOK
<1>1. IInv => TypeOK
  BY DEF IInv
<1>. QED
  BY <1>1, Invariant, PTL

\* The rows of a session are exactly 0 .. served_count - 1, up to the target,
\* for any number of overlapping /next requests and a seeding loop.
THEOREM RowsArePrefix == Spec => []ServedIsPrefix
<1>1. IInv => ServedIsPrefix
  BY DEF IInv
<1>. QED
  BY <1>1, Invariant, PTL

\* correct_count counts each right answer once, for any number of duplicate
\* and racing answer requests.
THEOREM ScoreCorrect == Spec => []ScoreIsExact
<1>1. IInv => ScoreIsExact
  BY DEF IInv
<1>. QED
  BY <1>1, Invariant, PTL

-----------------------------------------------------------------------------
(* What a step of QuizSession may do to the rows, and what follows from    *)
(* it: a session is an AnswerSheet, its first writes win, it closes once.  *)

\* The ways a step touches the rows.
Opens   == /\ status = "NONE" /\ status' = "IN_PROGRESS"
           /\ UNCHANGED <<items, correct>>
Closes  == /\ status = "IN_PROGRESS" /\ status' \in {"SUBMITTED", "EXPIRED"}
           /\ UNCHANGED <<items, correct>>
Asks(q) == /\ served \in Idx /\ items[served].q = NoQuestion /\ status # "NONE"
           /\ items' = [items EXCEPT
                          ![served] = [q |-> q, ans |-> "none", timed |-> FALSE]]
           /\ UNCHANGED <<status, correct>>
Marks(i, v) ==
    /\ items[i].ans = "none" /\ items[i].q # NoQuestion
    /\ items' = [items EXCEPT ![i].ans = v]
    /\ correct' = IF v = "right" THEN correct + 1 ELSE correct
    /\ UNCHANGED status
Times   == /\ \A i \in Idx : /\ items'[i].q = items[i].q
                             /\ items'[i].ans = items[i].ans
                             /\ items'[i].timed => items[i].timed \/ items[i].ans # "none"
           /\ UNCHANGED <<status, correct>>

RowMove ==
    \/ Opens \/ Closes \/ Times
    \/ \E q \in Questions : Asks(q)
    \/ \E i \in Idx, v \in Verdicts : Marks(i, v)

\* A ServeQuestion at an index a request may hold asks the next item or
\* finds the row there.
LEMMA ServeMoves ==
  ASSUME IInv, NEW i \in Nat, i <= served, i < target, NEW q \in Questions,
         ServeQuestion(i, q), UNCHANGED <<status, correct>>, status # "NONE"
  PROVE  RowMove
<1>1. i \in Idx
  BY ConstantTypes DEF IInv, TypeOK, Idx
<1>2. CASE items[i].q = NoQuestion
  <2>1. i = served
    BY <1>1, <1>2, ConstantTypes DEF IInv, ServedIsPrefix, Served, TypeOK
  <2>2. Asks(q)
    BY <1>1, <1>2, <2>1 DEF ServeQuestion, Asks
  <2>. QED
    BY <2>2 DEF RowMove
<1>3. CASE items[i].q # NoQuestion
  BY <1>3 DEF ServeQuestion, RowMove, Times
<1>. QED
  BY <1>2, <1>3

\* Every step is one of these moves.
LEMMA StepMoves == IInv /\ [Next]_vars => RowMove
<1> SUFFICES ASSUME IInv, [Next]_vars PROVE RowMove
  OBVIOUS
<1>0. UNCHANGED <<status, items, correct>> => RowMove
  BY DEF RowMove, Times
<1>1. CASE UNCHANGED vars
  BY <1>0, <1>1 DEF vars, row
<1>2. ASSUME NEW m, NEW n, CreateSession(m, n) PROVE RowMove
  BY <1>2 DEF CreateSession, RowMove, Opens
<1>3. CASE SeedServe
  <2>1. /\ Len(seedQueue) \in Nat \ {0} /\ Head(seedQueue) \in Questions
    BY <1>3 DEF SeedServe, IInv, TypeOK
  <2>2. /\ seedNext \in Nat /\ seedNext <= served /\ seedNext < target
        /\ status # "NONE"
    BY <1>3, <2>1, ConstantTypes
       DEF SeedServe, IInv, TypeOK, SeedBehind, BeforeStart
  <2>3. ServeQuestion(seedNext, Head(seedQueue)) /\ UNCHANGED <<status, correct>>
    BY <1>3 DEF SeedServe
  <2>. QED
    BY <2>1, <2>2, <2>3, ServeMoves
<1>4. CASE SeedFail \/ Expiry
  BY <1>0, <1>4 DEF SeedFail, Expiry, row
<1>5. ASSUME NEW r \in Requests, NextServe(r) PROVE RowMove
  <2>1. /\ work[r].idx \in Nat /\ work[r].idx <= served /\ work[r].idx < target
        /\ work[r].q \in Questions /\ status # "NONE"
    BY <1>5, ConstantTypes
       DEF NextServe, IInv, TypeOK, BeforeStart, ServeInRange, Work, Idx
  <2>2. ServeQuestion(work[r].idx, work[r].q) /\ UNCHANGED <<status, correct>>
    BY <1>5 DEF NextServe
  <2>. QED
    BY <2>1, <2>2, ServeMoves
<1>6. ASSUME NEW r \in Requests, AnswerCommit(r) PROVE RowMove
  <2>1. CASE FirstWrite(r)
    <3>1. /\ work[r].idx \in Idx /\ work[r].ans \in Verdicts
          /\ items[work[r].idx].q # NoQuestion
      BY <1>6 DEF AnswerCommit, IInv, TypeOK, AnswersServed, Work
    <3>2. Marks(work[r].idx, work[r].ans)
      BY <1>6, <2>1, <3>1 DEF AnswerCommit, FirstWrite, Marks
    <3>. QED
      BY <3>1, <3>2 DEF RowMove
  <2>2. CASE LaterWrite(r)
    BY <1>0, <1>6, <2>2 DEF AnswerCommit, LaterWrite
  <2>. QED
    BY <1>6, <2>1, <2>2 DEF AnswerCommit
<1>7. ASSUME NEW r \in Requests, MarkExpired(r) \/ MarkSubmitted(r) PROVE RowMove
  BY <1>0, <1>7 DEF MarkExpired, MarkSubmitted, RowMove, Closes
<1>8. ASSUME NEW r \in Requests, WriteItemDurations(r) PROVE RowMove
  <2>1. \A i \in Idx : LET t == [items[i] EXCEPT !.timed = TRUE]
                       IN  t.q = items[i].q /\ t.ans = items[i].ans
    BY DEF IInv, TypeOK, Row
  <2>2. Times
    BY <1>8, <2>1 DEF WriteItemDurations, Times
  <2>. QED
    BY <2>2 DEF RowMove
<1>9. ASSUME NEW r \in Requests, NextLook(r) \/ NextPick(r) PROVE RowMove
  BY <1>0, <1>9 DEF NextLook, NextPick, row
<1>10. ASSUME NEW r \in Requests,
              \/ \E op \in Ops : Admit(r, op)
              \/ \E i \in Idx, v \in Verdicts : AnswerBegin(r, i, v)
              \/ FindExpired(r) \/ Abandon(r) \/ Finish(r)
              \/ SubmitReload(r) \/ LoadItemEvents(r) \/ Publish(r)
       PROVE  RowMove
  BY <1>0, <1>10 DEF Admit, AnswerBegin, FindExpired, Abandon, Finish,
     SubmitReload, LoadItemEvents, Publish, row
<1>. QED
  BY <1>1, <1>2, <1>3, <1>4, <1>5, <1>6, <1>7, <1>8, <1>9, <1>10
     DEF Next, Handler, Start, StartSeeded

\* First write wins, for every interleaving: a served question and a
\* recorded verdict never change.
THEOREM FirstWritesWin == Spec => FirstWriteWins
<1> DEFINE A == \A i \in Idx :
                  /\ items[i].q # NoQuestion => items'[i].q = items[i].q
                  /\ items[i].ans # "none" => items'[i].ans = items[i].ans
<1>1. IInv /\ [Next]_vars => A
  <2> SUFFICES ASSUME IInv, [Next]_vars PROVE A
    OBVIOUS
  <2>1. items \in [Idx -> Row] /\ RowMove
    BY StepMoves DEF IInv, TypeOK
  <2>2. ASSUME NEW q \in Questions, Asks(q) PROVE A
    BY <2>1, <2>2 DEF Asks, IInv, AnswersServed
  <2>3. ASSUME NEW j \in Idx, NEW v \in Verdicts, Marks(j, v) PROVE A
    BY <2>1, <2>3 DEF Marks, Row
  <2>4. CASE Opens \/ Closes \/ Times
    BY <2>4 DEF Opens, Closes, Times
  <2>. QED
    BY <2>1, <2>2, <2>3, <2>4 DEF RowMove
<1>. QED
  BY <1>1, Invariant, PTL DEF Spec, FirstWriteWins

\* A closed session stays closed the way it was closed, whatever submits and
\* expiries race.
THEOREM ClosedStaysClosed == Spec => ClosedIsFinal
<1>1. IInv /\ [Next]_vars => [(status \in {"NONE", "IN_PROGRESS"})]_status
  BY StepMoves DEF RowMove, Opens, Closes, Times, Asks, Marks
<1>2. [(status \in {"NONE", "IN_PROGRESS"})]_status
      => [status' # status => status \in {"NONE", "IN_PROGRESS"}]_status
  OBVIOUS
<1>. QED
  BY <1>1, <1>2, Invariant, PTL DEF Spec, ClosedIsFinal

\* A session with overlapping, failing and abandoned requests implements an
\* AnswerSheet.
THEOREM Refinement == Spec => IsAnswerSheet
<1> DEFINE mark == [i \in Idx |-> IF items[i].q = NoQuestion THEN "blank"
                                 ELSE items[i].ans]
<1>1. Init => Sheet!Init
  BY DEF Init, Sheet!Init, NoRows, NoRow, Idx
<1>2. IInv /\ [Next]_vars => [Sheet!Next]_(Sheet!sheetVars)
  <2> SUFFICES ASSUME IInv, [Next]_vars
               PROVE  Sheet!Next \/ UNCHANGED <<status, mark, correct>>
    BY DEF Sheet!sheetVars
  <2>1. items \in [Idx -> Row] /\ RowMove
    BY StepMoves DEF IInv, TypeOK
  <2>2. /\ Idx = 0..(MaxItems - 1)
        /\ \A i \in Idx : mark[i] = IF items[i].q = NoQuestion THEN "blank"
                                    ELSE items[i].ans
        /\ \A i \in Idx : mark'[i] = IF items'[i].q = NoQuestion THEN "blank"
                                     ELSE items'[i].ans
    BY DEF Idx
  <2>3. CASE Opens
    BY <2>3 DEF Opens, Sheet!Next, Sheet!Open
  <2>4. CASE Closes
    BY <2>4 DEF Closes, Sheet!Next, Sheet!Close
  <2>5. CASE Times
    <3>1. mark' = mark
      BY <2>5 DEF Times
    <3>. QED
      BY <2>5, <3>1 DEF Times
  <2>6. ASSUME NEW q \in Questions, Asks(q) PROVE Sheet!Next
    <3>1. /\ mark[served] = "blank"
          /\ \A j \in 0..(served - 1) : mark[j] # "blank"
      <4>1. \A j \in 0..(served - 1) :
              j \in Idx /\ items[j].q # NoQuestion /\ items[j].ans # "blank"
        BY <2>1 DEF IInv, ServedIsPrefix, Served, Row, Verdicts
      <4>. QED
        BY <2>2, <2>6, <4>1 DEF Asks
    <3>2. mark' = [mark EXCEPT ![served] = "none"]
      <4>1. /\ items'[served].q # NoQuestion /\ items'[served].ans = "none"
            /\ \A j \in Idx : j # served => items'[j] = items[j]
        BY <2>1, <2>6, ConstantTypes DEF Asks
      <4>. QED
        BY <4>1
    <3>3. PICK n \in Idx : n = served
      BY <2>6 DEF Asks
    <3>4. Sheet!Ask(n)
      BY <2>6, <3>1, <3>2, <3>3 DEF Asks, Sheet!Ask
    <3>. QED
      BY <2>2, <3>4 DEF Sheet!Next
  <2>7. ASSUME NEW i \in Idx, NEW v \in Verdicts, Marks(i, v) PROVE Sheet!Next
    <3>1. mark[i] = "none"
      BY <2>2, <2>7 DEF Marks
    <3>2. mark' = [mark EXCEPT ![i] = v]
      <4>1. /\ items'[i].q # NoQuestion /\ items'[i].ans = v
            /\ \A j \in Idx : j # i => items'[j] = items[j]
        BY <2>1, <2>7 DEF Marks, Row
      <4>. QED
        BY <4>1
    <3>3. Sheet!Mark(i, v)
      BY <2>7, <3>1, <3>2 DEF Marks, Sheet!Mark
    <3>. QED
      BY <2>2, <3>3 DEF Sheet!Next, Verdicts
  <2>. QED
    BY <2>1, <2>3, <2>4, <2>5, <2>6, <2>7 DEF RowMove
<1>. QED
  BY <1>1, <1>2, Invariant, PTL DEF Spec, IsAnswerSheet, Sheet!Spec

-----------------------------------------------------------------------------
(* Replies and events: HeldInv is inductive given IInv.                    *)

\* Rows are never taken back: counts grow, questions and verdicts stay, and a
\* closed session stays closed.
Grows ==
    /\ served \in 0..MaxItems /\ served' \in 0..MaxItems /\ served <= served'
    /\ correct \in 0..MaxItems /\ correct' \in 0..MaxItems /\ correct <= correct'
    /\ items \in [Idx -> Row]
    /\ \A i \in Idx : items[i].q # NoQuestion => items'[i].q = items[i].q
    /\ \A i \in Idx : items[i].ans # "none" => items'[i].ans = items[i].ans
    /\ status \in Closed => status' = status

LEMMA StepGrows == IInv /\ [Next]_vars => Grows
<1> SUFFICES ASSUME IInv, [Next]_vars PROVE Grows
  OBVIOUS
<1>1. RowMove /\ IInv' /\ items \in [Idx -> Row]
  BY StepMoves, Consecution DEF IInv, TypeOK
<1>2. /\ \A i \in Idx : items[i].q # NoQuestion => items'[i].q = items[i].q
      /\ \A i \in Idx : items[i].ans # "none" => items'[i].ans = items[i].ans
  <2>1. ASSUME NEW q \in Questions, Asks(q) PROVE <1>2
    BY <1>1, <2>1 DEF Asks, IInv, AnswersServed
  <2>2. ASSUME NEW j \in Idx, NEW v \in Verdicts, Marks(j, v) PROVE <1>2
    BY <1>1, <2>2 DEF Marks, Row
  <2>3. CASE Opens \/ Closes \/ Times
    BY <2>3 DEF Opens, Closes, Times
  <2>. QED
    BY <1>1, <2>1, <2>2, <2>3 DEF RowMove
<1>3. /\ served \in 0..MaxItems /\ served' \in 0..MaxItems
      /\ correct \in 0..MaxItems /\ correct' \in 0..MaxItems
  BY <1>1 DEF IInv, TypeOK
<1>4. served <= served'
  <2>1. Served \subseteq Served'
    BY <1>1, <1>2 DEF Served
  <2>2. Served = 0..(served - 1) /\ Served' = 0..(served' - 1)
    BY <1>1 DEF IInv, ServedIsPrefix
  <2>3. ASSUME NEW m \in Nat, NEW n \in Nat, 0..(m - 1) \subseteq 0..(n - 1)
        PROVE  m <= n
    <3>1. n < m => n \in 0..(m - 1) /\ n \notin 0..(n - 1)
      OBVIOUS
    <3>. QED
      BY <2>3, <3>1
  <2>4. served \in Nat /\ served' \in Nat
    BY <1>3, ConstantTypes
  <2>5. 0..(served - 1) \subseteq 0..(served' - 1)
    BY <2>1, <2>2
  <2>. QED
    BY <2>3, <2>4, <2>5
<1>5. correct <= correct'
  BY <1>1, <1>3 DEF RowMove, Opens, Closes, Asks, Marks, Times
<1>6. status \in Closed => status' = status
  BY <1>1 DEF RowMove, Opens, Closes, Asks, Marks, Times, Closed
<1>. QED
  BY <1>1, <1>2, <1>3, <1>4, <1>5, <1>6 DEF Grows

\* A request that keeps its draft, and neither begins nor ends a recording or
\* a submit, keeps what it holds.
LEMMA HeldStays ==
  ASSUME IInv, Grows, NEW x \in Requests, AnswerHeld(x), DraftHeld(x),
         draft'[x] = draft[x],
         \/ pc'[x] = pc[x] /\ work'[x] = work[x]
         \/ pc'[x] \notin {"record", "answered", "durations", "reload", "load",
                           "publish"}
  PROVE  AnswerHeld(x)' /\ DraftHeld(x)'
<1>1. /\ draft[x].served \in 0..MaxItems /\ draft[x].correct \in 0..MaxItems
      /\ work[x].idx \in Idx
  BY DEF IInv, TypeOK, Draft, Work
<1>2. Lags(draft[x].items)' /\ Covers(draft[x].items, draft[x].served, draft[x].correct)'
  BY DEF DraftHeld, Grows, Lags, Covers
<1>3. draft'[x].served <= served' /\ draft'[x].correct <= correct'
  BY <1>1 DEF DraftHeld, Grows
<1>4. CASE pc'[x] = pc[x] /\ work'[x] = work[x]
  <2>1. AnswerHeld(x)'
    BY <1>1, <1>4 DEF AnswerHeld, Grows, Verdicts
  <2>2. DraftHeld(x)'
    BY <1>2, <1>3, <1>4 DEF DraftHeld, Grows
  <2>. QED
    BY <2>1, <2>2
<1>5. CASE pc'[x] \notin {"record", "answered", "durations", "reload", "load",
                          "publish"}
  BY <1>2, <1>3, <1>5 DEF AnswerHeld, DraftHeld
<1>. QED
  BY <1>4, <1>5

\* A request that is over holds nothing.
LEMMA IdleHolds ==
  ASSUME IInv, Grows, NEW r \in Requests, Leave(r)
  PROVE  AnswerHeld(r)' /\ DraftHeld(r)'
<1>1. pc'[r] = "idle" /\ draft'[r] = NoDraft
  BY DEF Leave, Goto, IInv, TypeOK
<1>2. /\ draft'[r].served = 0 /\ draft'[r].correct = 0
      /\ draft'[r].items = NoItems
      /\ \A i \in Idx : /\ NoItems[i].q = NoQuestion
                         /\ ~NoItems[i].right /\ ~NoItems[i].timed
  BY <1>1 DEF NoDraft, NoItems
<1>3. Lags(draft[r].items)' /\ Covers(draft[r].items, draft[r].served, draft[r].correct)'
  BY <1>2 DEF Lags, Covers
<1>. QED
  BY <1>1, <1>2, <1>3 DEF AnswerHeld, DraftHeld, Grows

\* The step of one request, after which it holds what it should.
LEMMA HeldStep ==
  ASSUME IInv, Grows, HeldInv, NEW r \in Requests,
         \A x \in Requests \ {r} :
           pc'[x] = pc[x] /\ work'[x] = work[x] /\ draft'[x] = draft[x],
         AnswerHeld(r)' /\ DraftHeld(r)'
  PROVE  \A x \in Requests : AnswerHeld(x)' /\ DraftHeld(x)'
BY HeldStays DEF HeldInv

\* What the next event of a request is made from keeps up with a step that
\* leaves it alone.
LEMMA SubmitKeeps ==
  ASSUME IInv, Grows, NEW x \in Requests, DraftHeld(x), draft'[x] = draft[x],
         \/ pc'[x] \in {"answered", "panicked"}
         \/ pc'[x] \in {"durations", "reload"} /\ status' \in Closed
  PROVE  DraftHeld(x)'
<1>1. draft[x].served \in 0..MaxItems /\ draft[x].correct \in 0..MaxItems
  BY DEF IInv, TypeOK, Draft
<1>2. Lags(draft[x].items)' /\ Covers(draft[x].items, draft[x].served, draft[x].correct)'
  BY DEF DraftHeld, Grows, Lags, Covers
<1>3. draft'[x].served <= served' /\ draft'[x].correct <= correct'
  BY <1>1 DEF DraftHeld, Grows
<1>. QED
  BY <1>2, <1>3 DEF DraftHeld

\* Loaded now, the items lag behind nothing and account for counts read before.
LEMMA LoadedItems ==
  ASSUME IInv, TimedAnswered, NEW n \in 0..MaxItems, NEW c \in 0..MaxItems,
         n <= served, c <= correct
  PROVE  /\ Lags(ItemsTold)
         /\ \A i \in 0..(n - 1) : ItemsTold[i].q # NoQuestion
         /\ c <= Cardinality({i \in Idx : ItemsTold[i].right})
<1>1. items \in [Idx -> Row] /\ served \in 0..MaxItems /\ MaxItems \in Nat
  BY ConstantTypes DEF IInv, TypeOK
<1>2. Lags(ItemsTold)
  BY <1>1 DEF Lags, ItemsTold, TimedAnswered, Row, Verdicts
<1>3. ASSUME NEW i \in 0..(n - 1) PROVE ItemsTold[i].q # NoQuestion
  <2>1. i \in Idx /\ i \in 0..(served - 1)
    BY <1>1 DEF Idx
  <2>2. i \in Served
    BY <2>1 DEF IInv, ServedIsPrefix
  <2>. QED
    BY <2>1, <2>2 DEF Served, ItemsTold
<1>4. {i \in Idx : ItemsTold[i].right} = Right
  BY DEF ItemsTold, Right
<1>5. c <= Cardinality(Right)
  BY DEF IInv, ScoreIsExact
<1>. QED
  BY <1>2, <1>3, <1>4, <1>5

\* No step times an unanswered item.
LEMMA TimedStays ==
  ASSUME IInv, TimedAnswered, [Next]_vars
  PROVE  TimedAnswered'
<1>1. RowMove /\ items \in [Idx -> Row]
  BY StepMoves DEF IInv, TypeOK
<1>2. ASSUME NEW q \in Questions, Asks(q) PROVE TimedAnswered'
  BY <1>1, <1>2 DEF Asks, TimedAnswered
<1>3. ASSUME NEW i \in Idx, NEW v \in Verdicts, Marks(i, v) PROVE TimedAnswered'
  BY <1>1, <1>3 DEF Marks, TimedAnswered, Row, Verdicts
<1>4. CASE Opens \/ Closes \/ Times
  BY <1>4 DEF Opens, Closes, Times, TimedAnswered
<1>. QED
  BY <1>1, <1>2, <1>3, <1>4 DEF RowMove

\* Every step leaves each request holding what it should, one step of the proof
\* per action that touches what is held.
LEMMA RequestsHold ==
  ASSUME IInv, HeldInv, [Next]_vars, Grows
  PROVE  \A x \in Requests : AnswerHeld(x)' /\ DraftHeld(x)'
<1> DEFINE Goal == \A x \in Requests : AnswerHeld(x)' /\ DraftHeld(x)'
           Others(r) == \A x \in Requests \ {r} :
             pc'[x] = pc[x] /\ work'[x] = work[x] /\ draft'[x] = draft[x]
<1>0. /\ pc \in [Requests -> PCs] /\ work \in [Requests -> Work]
      /\ draft \in [Requests -> Draft] /\ items \in [Idx -> Row]
  BY DEF IInv, TypeOK
<1>1. ASSUME UNCHANGED <<pc, work, draft>> PROVE Goal
  BY <1>1, HeldStays DEF HeldInv
<1>2. CASE UNCHANGED vars
  BY <1>1, <1>2 DEF vars
<1>3. ASSUME NEW m, NEW n, CreateSession(m, n) PROVE Goal
  BY <1>1, <1>3 DEF CreateSession
<1>4. CASE SeedServe \/ SeedFail \/ Expiry
  BY <1>1, <1>4 DEF SeedServe, SeedFail, Expiry
<1>5. ASSUME NEW r \in Requests, Leave(r) PROVE Goal
  <2>1. Others(r)
    BY <1>0, <1>5 DEF Leave, Goto
  <2>. QED
    BY <1>5, <2>1, IdleHolds, HeldStep
<1>6. ASSUME NEW r \in Requests, UNCHANGED draft,
             \A x \in Requests \ {r} : pc'[x] = pc[x] /\ work'[x] = work[x],
             pc'[r] \notin {"record", "answered", "durations", "reload", "load",
                            "publish"}
      PROVE  Goal
  <2>1. AnswerHeld(r)' /\ DraftHeld(r)'
    BY <1>6, HeldStays DEF HeldInv
  <2>. QED
    BY <1>6, <2>1, HeldStep
<1>7. ASSUME NEW r \in Requests,
             (\E op \in Ops : Admit(r, op)) \/ FindExpired(r) \/ NextServe(r)
      PROVE  Goal
  <2>1. /\ UNCHANGED <<work, draft>>
        /\ pc'[r] \in Ops \cup {"expire", "shown"}
        /\ \A x \in Requests \ {r} : pc'[x] = pc[x]
    BY <1>0, <1>7 DEF Admit, FindExpired, NextServe, Goto
  <2>. QED
    BY <1>6, <2>1 DEF Ops
<1>8. ASSUME NEW r \in Requests, NextLook(r) \/ NextPick(r) PROVE Goal
  <2>1. /\ UNCHANGED draft /\ pc'[r] \in {"done", "shown", "pick", "serve"}
        /\ \A x \in Requests \ {r} : pc'[x] = pc[x] /\ work'[x] = work[x]
    BY <1>0, <1>8 DEF NextLook, NextPick, Show, Goto
  <2>. QED
    BY <1>6, <2>1
<1>9. ASSUME NEW r \in Requests, NEW i \in Idx, NEW v \in Verdicts,
             AnswerBegin(r, i, v)
      PROVE  Goal
  <2>1. Others(r) /\ pc'[r] = "record" /\ UNCHANGED <<items, served, correct, draft>>
    BY <1>0, <1>9 DEF AnswerBegin, Goto, row
  <2>2. work'[r].snap = items'[work'[r].idx].ans
    BY <1>0, <1>9 DEF AnswerBegin, row
  <2>3. AnswerHeld(r)' /\ DraftHeld(r)'
    BY <2>1, <2>2 DEF HeldInv, AnswerHeld, DraftHeld, Lags, Covers
  <2>. QED
    BY <2>1, <2>3, HeldStep
<1>10. ASSUME NEW r \in Requests, AnswerCommit(r) PROVE Goal
  <2>1. /\ pc[r] = "record" /\ UNCHANGED draft /\ Others(r)
        /\ work[r].idx \in Idx /\ work[r].ans \in Verdicts
        /\ work[r].snap \in {"none", items[work[r].idx].ans}
    BY <1>0, <1>10
       DEF AnswerCommit, FirstWrite, LaterWrite, Goto, HeldInv, AnswerHeld,
           IInv, AnswersServed, Work
  <2>2. AnswerHeld(r)'
    <3>1. CASE FirstWrite(r)
      BY <1>0, <2>1, <3>1 DEF FirstWrite, Goto, AnswerHeld, Row
    <3>2. CASE LaterWrite(r)
      <4>1. /\ work'[r].ans = work[r].snap /\ work'[r].idx = work[r].idx
            /\ items[work[r].idx].ans # "none" /\ UNCHANGED items
        BY <1>0, <3>2 DEF LaterWrite, Work
      <4>2. items[work[r].idx].ans \in Verdicts
        BY <1>0, <2>1, <4>1 DEF Row
      <4>3. pc'[r] = IF work[r].snap = "none" THEN "panicked" ELSE "answered"
        BY <1>0, <3>2 DEF LaterWrite, Goto
      <4>. QED
        BY <2>1, <4>1, <4>2, <4>3 DEF AnswerHeld
    <3>. QED
      BY <1>10, <3>1, <3>2 DEF AnswerCommit
  <2>3. DraftHeld(r)'
    <3>1. pc'[r] \in {"answered", "panicked"}
      BY <1>0, <1>10 DEF AnswerCommit, FirstWrite, LaterWrite, Goto
    <3>. QED
      BY <2>1, <3>1, SubmitKeeps DEF HeldInv
  <2>. QED
    BY <2>1, <2>2, <2>3, HeldStep
<1>11. ASSUME NEW r \in Requests, MarkSubmitted(r) PROVE Goal
  <2>1. /\ UNCHANGED <<draft, work>> /\ Others(r) /\ pc'[r] = "durations"
        /\ status' \in Closed
    BY <1>0, <1>11
       DEF MarkSubmitted, Goto, IInv, TypeOK, BeforeStart, Statuses, Closed
  <2>. QED
    BY <2>1, SubmitKeeps, HeldStep DEF HeldInv, AnswerHeld
<1>12. ASSUME NEW r \in Requests, WriteItemDurations(r) PROVE Goal
  <2>1. /\ UNCHANGED <<draft, work>> /\ Others(r) /\ pc'[r] = "reload"
        /\ pc[r] = "durations" /\ UNCHANGED status
    BY <1>0, <1>12 DEF WriteItemDurations, Goto
  <2>2. status \in Closed
    BY <2>1 DEF HeldInv, DraftHeld
  <2>. QED
    BY <2>1, <2>2, SubmitKeeps, HeldStep DEF HeldInv, AnswerHeld
<1>13. ASSUME NEW r \in Requests, SubmitReload(r) PROVE Goal
  <2>1. /\ UNCHANGED <<row, work>> /\ Others(r) /\ pc'[r] = "load"
        /\ pc[r] = "reload"
    BY <1>0, <1>13 DEF SubmitReload, Goto
  <2>2. /\ draft'[r].status = status /\ draft'[r].served = served
        /\ draft'[r].correct = correct /\ draft'[r].items = NoItems
    BY <1>0, <1>13 DEF SubmitReload, Draft
  <2>3. status \in Closed
    BY <2>1 DEF HeldInv, DraftHeld
  <2>4. Lags(draft[r].items)' /\ Covers(draft[r].items, draft[r].served, draft[r].correct)'
    BY <2>2 DEF Lags, Covers, NoItems
  <2>5. AnswerHeld(r)' /\ DraftHeld(r)'
    BY <2>1, <2>2, <2>3, <2>4 DEF AnswerHeld, DraftHeld, row, Grows
  <2>. QED
    BY <2>1, <2>5, HeldStep
<1>14. ASSUME NEW r \in Requests, LoadItemEvents(r) PROVE Goal
  <2>1. /\ UNCHANGED <<row, work>> /\ Others(r) /\ pc'[r] = "publish"
        /\ pc[r] = "load"
    BY <1>0, <1>14 DEF LoadItemEvents, Goto
  <2>2. /\ draft'[r].status = draft[r].status /\ draft'[r].served = draft[r].served
        /\ draft'[r].correct = draft[r].correct
        /\ draft'[r].items \in {draft[r].items, ItemsTold}
    BY <1>0, <1>14 DEF LoadItemEvents, Draft, ItemsTold
  <2>3. DraftHeld(r)
    BY DEF HeldInv
  <2>4. Lags(draft[r].items)' /\ Covers(draft[r].items, draft[r].served, draft[r].correct)'
    <3>1. CASE draft'[r].items = draft[r].items
      BY <2>1, <2>2, <2>3, <3>1 DEF DraftHeld, Lags, Covers, row
    <3>2. CASE draft'[r].items = ItemsTold
      <4>1. /\ draft[r].served \in 0..MaxItems /\ draft[r].correct \in 0..MaxItems
            /\ TimedAnswered
        BY <1>0 DEF Draft, HeldInv
      <4>2. /\ Lags(ItemsTold)
            /\ \A i \in 0..(draft[r].served - 1) : ItemsTold[i].q # NoQuestion
            /\ draft[r].correct <= Cardinality({i \in Idx : ItemsTold[i].right})
        BY <2>3, <4>1, LoadedItems DEF DraftHeld
      <4> HIDE DEF ItemsTold
      <4>3. Covers(draft[r].items, draft[r].served, draft[r].correct)'
        BY <2>2, <3>2, <4>2 DEF Covers
      <4>4. Lags(draft[r].items)'
        BY <2>1, <3>2, <4>2 DEF Lags, row
      <4>. QED
        BY <4>3, <4>4
    <3>. QED
      BY <2>2, <3>1, <3>2
  <2>5. AnswerHeld(r)' /\ DraftHeld(r)'
    BY <2>1, <2>2, <2>3, <2>4 DEF AnswerHeld, DraftHeld, row
  <2>. QED
    BY <2>1, <2>5, HeldStep
<1>15. ASSUME NEW r \in Requests, Publish(r) PROVE Goal
  <2>1. /\ UNCHANGED <<draft, work>> /\ pc'[r] = "closed"
        /\ \A x \in Requests \ {r} : pc'[x] = pc[x] /\ work'[x] = work[x]
    BY <1>0, <1>15 DEF Publish, Goto
  <2>. QED
    BY <1>6, <2>1
<1>. QED
  BY <1>2, <1>3, <1>4, <1>5, <1>7, <1>8, <1>9, <1>10, <1>11, <1>12, <1>13, <1>14, <1>15
     DEF Next, Handler, Start, StartSeeded, MarkExpired, Abandon, Finish

\* Events are published and never taken back.
LEMMA EventsArePublished ==
  [Next]_vars => events' = events \/ \E r \in Requests : Publish(r)
<1> SUFFICES ASSUME [Next]_vars, \A r \in Requests : ~Publish(r)
             PROVE  events' = events
  OBVIOUS
<1>1. CASE UNCHANGED vars \/ SeedServe \/ SeedFail \/ Expiry
  BY <1>1 DEF vars, SeedServe, SeedFail, Expiry
<1>2. ASSUME NEW m, NEW n, CreateSession(m, n) PROVE events' = events
  BY <1>2 DEF CreateSession
<1>3. ASSUME NEW r \in Requests,
             \/ \E op \in Ops : Admit(r, op)
             \/ FindExpired(r) \/ Abandon(r) \/ Finish(r) \/ MarkExpired(r)
             \/ NextLook(r) \/ NextPick(r) \/ NextServe(r)
      PROVE  events' = events
  BY <1>3 DEF Admit, FindExpired, Abandon, Finish, MarkExpired, NextLook,
     NextPick, NextServe
<1>4. ASSUME NEW r \in Requests,
             \/ \E i \in Idx, v \in Verdicts : AnswerBegin(r, i, v)
             \/ AnswerCommit(r) \/ MarkSubmitted(r) \/ WriteItemDurations(r)
             \/ SubmitReload(r) \/ LoadItemEvents(r)
      PROVE  events' = events
  BY <1>4 DEF AnswerBegin, AnswerCommit, MarkSubmitted, WriteItemDurations,
     SubmitReload, LoadItemEvents
<1>. QED
  BY <1>1, <1>2, <1>3, <1>4 DEF Next, Handler, Start, StartSeeded

\* The replies, the drafts and the events of every step are behind the rows.
LEMMA HeldConsecution == IInv /\ HeldInv /\ [Next]_vars => HeldInv'
<1> SUFFICES ASSUME IInv, HeldInv, [Next]_vars PROVE HeldInv'
  OBVIOUS
<1>1. Grows
  BY StepGrows
<1>2. events' = events \/ \E r \in Requests : Publish(r)
  BY EventsArePublished
<1>3. ASSUME NEW e \in events
      PROVE  /\ e.status \in {"SUBMITTED", "EXPIRED"}
             /\ e.served <= served' /\ e.correct <= correct'
             /\ Lags(e.items)' /\ Covers(e.items, e.served, e.correct)
  <2>1. e.served \in 0..MaxItems /\ e.correct \in 0..MaxItems
    BY DEF IInv, TypeOK, Event
  <2>. QED
    BY <1>1, <2>1 DEF HeldInv, EventsAreTrue, Grows, Lags
<1>4. CASE events' = events
  <2>1. EventsAreTrue'
    BY <1>3, <1>4 DEF EventsAreTrue, Covers
  <2>. QED
    BY <1>1, <2>1, RequestsHold, TimedStays DEF HeldInv
<1>5. ASSUME NEW r \in Requests, Publish(r) PROVE HeldInv'
  <2>0. PICK e : e = [by |-> r, status |-> draft[r].status, served |-> draft[r].served,
                      correct |-> draft[r].correct, items |-> draft[r].items]
    OBVIOUS
  <2>1. /\ events' \subseteq events \cup {e} /\ pc[r] = "publish"
        /\ UNCHANGED <<served, correct, items>>
    BY <1>5, <2>0 DEF Publish, row
  <2>2. DraftHeld(r)
    BY DEF HeldInv
  <2>3. EventsAreTrue'
    <3>1. /\ e.status = draft[r].status /\ e.served = draft[r].served
          /\ e.correct = draft[r].correct /\ e.items = draft[r].items
      BY <2>0
    <3>2. /\ e.status \in Closed /\ e.served <= served' /\ e.correct <= correct'
      BY <2>1, <2>2, <3>1 DEF DraftHeld
    <3>3. Covers(e.items, e.served, e.correct)
      <4>1. Covers(draft[r].items, draft[r].served, draft[r].correct)
        BY <2>2 DEF DraftHeld
      <4>. QED
        BY <3>1, <4>1
    <3>4. Lags(e.items)'
      BY <2>1, <2>2, <3>1 DEF DraftHeld, Lags
    <3>5. \A d \in events' : d \in events \/ d = e
      BY <2>1
    <3>6. \A d \in events' : /\ d.status \in {"SUBMITTED", "EXPIRED"}
                              /\ d.served <= served' /\ d.correct <= correct'
                              /\ Lags(d.items)' /\ Covers(d.items, d.served, d.correct)
      BY <1>3, <3>2, <3>3, <3>4, <3>5 DEF Closed
    <3>. QED
      BY <3>6 DEF EventsAreTrue, Covers
  <2>. QED
    BY <1>1, <2>3, RequestsHold, TimedStays DEF HeldInv
<1>. QED
  BY <1>2, <1>4, <1>5

\* What requests and events carry stays behind the rows, whatever overlaps.
THEOREM HeldInvariant == Spec => []HeldInv
<1>1. Init => HeldInv
  <2> SUFFICES ASSUME Init PROVE HeldInv
    OBVIOUS
  <2>1. TimedAnswered /\ EventsAreTrue
    BY DEF Init, TimedAnswered, EventsAreTrue, NoRows, NoRow
  <2>2. ASSUME NEW r \in Requests PROVE AnswerHeld(r) /\ DraftHeld(r)
    <3>1. /\ pc[r] = "idle" /\ served = 0 /\ correct = 0
          /\ draft[r].served = 0 /\ draft[r].correct = 0 /\ draft[r].items = NoItems
      BY DEF Init, NoDraft
    <3>2. Lags(draft[r].items) /\ Covers(draft[r].items, draft[r].served, draft[r].correct)
      BY <3>1 DEF Lags, Covers, NoItems
    <3>. QED
      BY <3>1, <3>2 DEF AnswerHeld, DraftHeld
  <2>. QED
    BY <2>1, <2>2 DEF HeldInv
<1>. QED
  BY <1>1, HeldConsecution, Invariant, PTL DEF Spec

\* An answer request is told the recorded verdict, also when it lost the race.
THEOREM RepliesAreRecorded == Spec => []ReplyIsRecorded
<1>1. HeldInv => ReplyIsRecorded
  BY DEF HeldInv, AnswerHeld, ReplyIsRecorded
<1>. QED
  BY <1>1, HeldInvariant, PTL

\* A completion event is about a closed session, its counts and items only lag
\* behind the session, and its items account for its counts, whatever answers,
\* submits and expiries run between its reads.
THEOREM EventsTellTheTruth == Spec => []EventsAreTrue
<1>1. HeldInv => EventsAreTrue
  BY DEF HeldInv
<1>. QED
  BY <1>1, HeldInvariant, PTL

-----------------------------------------------------------------------------
(* Questions: FreshInv is inductive given IInv, so that none is asked      *)
(* twice unless a replay is being seeded under a /next or a paper repeats. *)

\* A step that adds no row, starts no session and lets nobody serve.
LEMMA FreshStays ==
  ASSUME IInv, FreshInv, UNCHANGED <<mode, served, seedNext>>,
         \A i \in Idx : items'[i].q = items[i].q,
         UNCHANGED seedQueue \/ seedQueue' = <<>>,
         \A r \in Requests :
           pc'[r] = "serve" =>
             \/ pc[r] = "serve" /\ work'[r] = work[r]
             \/ work'[r].q \notin AskedQs
  PROVE  FreshInv'
<1>1. Served' = Served /\ AskedQs' = AskedQs
  BY DEF Served, AskedQs
<1>2. SeedFresh'
  <2>1. CASE UNCHANGED seedQueue
    BY <1>1, <2>1 DEF FreshInv, SeedFresh
  <2>2. CASE seedQueue' = <<>>
    BY <2>2 DEF SeedFresh
  <2>. QED
    BY <2>1, <2>2
<1>3. PickFresh'
  BY <1>1 DEF FreshInv, PickFresh, MayRepeat
<1>4. NoQuestionTwice'
  BY <1>1 DEF FreshInv, NoQuestionTwice, MayRepeat, Served
<1>. QED
  BY <1>2, <1>3, <1>4 DEF FreshInv

\* A new session has no rows; the list of an assignment does not repeat.
LEMMA FreshStart ==
  ASSUME IInv, NEW m \in Modes, NEW n \in 1..MaxItems, CreateSession(m, n),
         seedQueue' \in Seq(Questions),
         seedQueue' # <<>> => m \in PreServed \cup {"PRACTICE"},
         m = "ASSIGNMENT" =>
           \A j, k \in 1..Len(seedQueue') : seedQueue'[j] = seedQueue'[k] => j = k
  PROVE  FreshInv'
<1>1. Served = {} /\ \A r \in Requests : pc[r] = "idle"
  BY DEF IInv, BeforeStart, ServedIsPrefix, CreateSession
<1>2. Served' = {} /\ AskedQs' = {} /\ \A r \in Requests : pc'[r] = "idle"
  BY <1>1 DEF CreateSession, Served, AskedQs
<1>. QED
  BY <1>2 DEF FreshInv, SeedFresh, PickFresh, NoQuestionTwice, CreateSession

\* What a served item adds to the questions asked.
LEMMA AskedAfter ==
  ASSUME IInv, NEW i \in Nat, i <= served, i < target, NEW q \in Questions,
         ServeQuestion(i, q), UNCHANGED target
  PROVE  /\ AskedQs' \subseteq AskedQs \cup {q}
         /\ \/ UNCHANGED <<items, served>> /\ i # served
            \/ /\ i = served /\ served' = served + 1 /\ i \in Idx /\ i \notin Served
               /\ items' = [items EXCEPT ![i] = [q |-> q, ans |-> "none", timed |-> FALSE]]
               /\ Served' = Served \cup {i}
<1>1. i \in Idx /\ items \in [Idx -> Row] /\ served \in 0..MaxItems /\ NoQuestion \notin Questions
  BY ConstantTypes DEF IInv, TypeOK, Idx
<1>2. items[i].q = NoQuestion <=> i = served
  <2>1. i \in Served <=> i < served
    BY <1>1 DEF IInv, ServedIsPrefix
  <2>. QED
    BY <1>1, <2>1 DEF Served
<1>3. CASE i # served
  <2>1. UNCHANGED <<items, served>>
    BY <1>2, <1>3 DEF ServeQuestion
  <2>. QED
    BY <1>3, <2>1 DEF AskedQs, Served
<1>4. CASE i = served
  <2>1. /\ items' = [items EXCEPT ![i] = [q |-> q, ans |-> "none", timed |-> FALSE]]
        /\ served' = served + 1 /\ i \notin Served
    BY <1>2, <1>4 DEF ServeQuestion, Served
  <2>2. /\ items'[i].q = q /\ \A j \in Idx : j # i => items'[j] = items[j]
    BY <1>1, <2>1
  <2>3. Served' = Served \cup {i}
    BY <1>1, <2>2 DEF Served
  <2>4. AskedQs' \subseteq AskedQs \cup {q}
    BY <2>2, <2>3 DEF AskedQs, Served
  <2>. QED
    BY <1>1, <1>4, <2>1, <2>3, <2>4
<1>. QED
  BY <1>3, <1>4

\* A question that is new to the session stays the only row of its kind.
LEMMA NewRow ==
  ASSUME IInv, NoQuestionTwice, NEW i \in Idx, i \notin Served,
         NEW q \in Questions, q \notin AskedQs,
         items' = [items EXCEPT ![i] = [q |-> q, ans |-> "none", timed |-> FALSE]],
         Served' = Served \cup {i}, MayRepeat' = MayRepeat
  PROVE  NoQuestionTwice'
<1>1. items'[i].q = q /\ \A j \in Idx : j # i => items'[j] = items[j]
  BY DEF IInv, TypeOK
<1>2. \A j \in Served : j # i /\ j \in Idx /\ items[j].q # q
  BY DEF Served, AskedQs
<1>. QED
  BY <1>1, <1>2 DEF NoQuestionTwice

\* The seeding loop serves the next of its list.
LEMMA FreshSeed ==
  ASSUME IInv, FreshInv, SeedServe
  PROVE  FreshInv'
<1> DEFINE q == Head(seedQueue)
<1>1. /\ Len(seedQueue) \in Nat /\ Len(seedQueue) > 0 /\ q \in Questions
      /\ q = seedQueue[1]
      /\ seedQueue' \in Seq(Questions) /\ Len(seedQueue') = Len(seedQueue) - 1
      /\ \A k \in 1..Len(seedQueue') : seedQueue'[k] = seedQueue[k + 1]
  BY DEF SeedServe, IInv, TypeOK
<1>2. /\ seedNext \in Nat /\ seedNext <= served /\ seedNext < target
      /\ seedNext' = seedNext + 1 /\ UNCHANGED <<mode, target, pc, work>>
  BY <1>1, ConstantTypes DEF SeedServe, IInv, TypeOK, SeedBehind
<1>3. mode \in PreServed \cup {"PRACTICE"}
  BY DEF SeedServe, FreshInv, SeedFresh
<1>4. CASE mode # "ASSIGNMENT"
  <2>1. MayRepeat' /\ mode' # "ASSIGNMENT"
    BY <1>2, <1>3, <1>4 DEF MayRepeat, PreServed
  <2>. QED
    BY <1>2, <1>3, <1>4, <2>1 DEF FreshInv, SeedFresh, PickFresh, NoQuestionTwice
<1>5. CASE mode = "ASSIGNMENT"
  <2>1. /\ ~MayRepeat /\ ~MayRepeat' /\ q \notin AskedQs
        /\ \A r \in Requests : pc'[r] # "serve"
    BY <1>1, <1>2, <1>5
       DEF MayRepeat, PreServed, FreshInv, SeedFresh, IInv, ServeInRange
  <2>2. ServeQuestion(seedNext, q)
    BY DEF SeedServe
  <2> HIDE DEF q
  <2>3. SeedFresh'
    <3>1. AskedQs' \subseteq AskedQs \cup {q}
      BY <1>1, <1>2, <2>2, AskedAfter
    <3>2. ASSUME NEW j \in 1..Len(seedQueue'), NEW k \in 1..Len(seedQueue')
          PROVE  seedQueue'[j] \notin AskedQs' /\ (seedQueue'[j] = seedQueue'[k] => j = k)
      <4>1. /\ j + 1 \in 1..Len(seedQueue) /\ k + 1 \in 1..Len(seedQueue)
            /\ 1 \in 1..Len(seedQueue) /\ j \in Nat /\ k \in Nat
        BY <1>1
      <4>2. /\ seedQueue[j + 1] \notin AskedQs
            /\ seedQueue[j + 1] = seedQueue[1] => j + 1 = 1
            /\ seedQueue[j + 1] = seedQueue[k + 1] => j + 1 = k + 1
        BY <1>5, <4>1 DEF FreshInv, SeedFresh
      <4>. QED
        BY <1>1, <3>1, <4>1, <4>2
    <3>. QED
      BY <1>2, <1>3, <3>2 DEF SeedFresh
  <2>4. NoQuestionTwice'
    <3>1. CASE UNCHANGED <<items, served>>
      BY <2>1, <3>1 DEF FreshInv, NoQuestionTwice, Served
    <3>2. CASE seedNext \in Idx \ Served /\ Served' = Served \cup {seedNext}
               /\ items' = [items EXCEPT
                              ![seedNext] = [q |-> q, ans |-> "none", timed |-> FALSE]]
      <4>1. /\ seedNext \in Idx /\ seedNext \notin Served /\ q \in Questions
            /\ q \notin AskedQs /\ NoQuestionTwice
        BY <1>1, <2>1, <3>2 DEF FreshInv
      <4>2. MayRepeat' = MayRepeat
        BY <1>2, <1>5 DEF MayRepeat, PreServed
      <4>. QED
        BY <3>2, <4>1, <4>2, NewRow
    <3>. QED
      BY <1>1, <1>2, <2>2, <3>1, <3>2, AskedAfter
  <2>. QED
    BY <2>1, <2>3, <2>4 DEF FreshInv, PickFresh
<1>. QED
  BY <1>3, <1>4, <1>5

\* A /next serves what it picked.
LEMMA FreshServe ==
  ASSUME IInv, FreshInv, NEW r \in Requests, NextServe(r)
  PROVE  FreshInv'
<1> DEFINE i == work[r].idx
           q == work[r].q
<1>1. /\ i \in Nat /\ i <= served /\ i < target /\ q \in Questions
      /\ mode \notin PreServed /\ pc[r] = "serve"
      /\ UNCHANGED <<mode, target, seed, work>> /\ ServeQuestion(i, q)
      /\ pc'[r] = "shown" /\ \A x \in Requests \ {r} : pc'[x] = pc[x]
  BY ConstantTypes
     DEF NextServe, Goto, IInv, TypeOK, ServeInRange, Work, Idx
<1> HIDE DEF i, q
<1>2. SeedFresh'
  BY <1>1 DEF FreshInv, SeedFresh, seed
<1>3. CASE UNCHANGED <<items, served>>
  <2>1. PickFresh' /\ NoQuestionTwice'
    BY <1>1, <1>3
       DEF FreshInv, PickFresh, NoQuestionTwice, MayRepeat, seed, AskedQs, Served
  <2>. QED
    BY <1>2, <2>1 DEF FreshInv
<1>4. CASE /\ i = served /\ served' = served + 1 /\ i \in Idx \ Served
           /\ Served' = Served \cup {i}
           /\ items' = [items EXCEPT ![i] = [q |-> q, ans |-> "none", timed |-> FALSE]]
  <2>1. MayRepeat' = MayRepeat
    BY <1>1 DEF MayRepeat, seed
  <2>2. \A x \in Requests : ~(pc'[x] = "serve" /\ work'[x].idx = served')
    <3>1. \A x \in Requests : pc[x] = "serve" => work[x].idx <= served
      BY DEF IInv, ServeInRange
    <3>2. served \in Nat /\ \A x \in Requests : work[x].idx \in Nat
      BY ConstantTypes DEF IInv, TypeOK, Work, Idx
    <3>. QED
      BY <1>1, <1>4, <3>1, <3>2
  <2>3. PickFresh'
    BY <2>2 DEF PickFresh
  <2>4. ~MayRepeat => q \notin AskedQs
    BY <1>1, <1>4 DEF FreshInv, PickFresh, i, q
  <2>5. NoQuestionTwice'
    <3>1. CASE MayRepeat
      BY <2>1, <3>1 DEF NoQuestionTwice
    <3>2. CASE ~MayRepeat
      BY <1>1, <1>4, <2>1, <2>4, <3>2, NewRow DEF FreshInv
    <3>. QED
      BY <3>1, <3>2
  <2>. QED
    BY <1>2, <2>3, <2>5 DEF FreshInv
<1>. QED
  BY <1>1, <1>3, <1>4, AskedAfter

LEMMA FreshConsecution == IInv /\ FreshInv /\ [Next]_vars => FreshInv'
<1> SUFFICES ASSUME IInv, FreshInv, [Next]_vars PROVE FreshInv'
  OBVIOUS
<1>0. pc \in [Requests -> PCs] /\ work \in [Requests -> Work] /\ items \in [Idx -> Row]
  BY DEF IInv, TypeOK
<1>1. ASSUME UNCHANGED <<mode, served, items, seed, pc, work>> PROVE FreshInv'
  BY <1>1, FreshStays DEF seed
<1>2. CASE UNCHANGED vars \/ Expiry
  BY <1>1, <1>2 DEF vars, Expiry, row
<1>3. ASSUME NEW m \in StartModes, Start(m) PROVE FreshInv'
  <2>1. /\ m \in Modes /\ Target \in 1..MaxItems /\ CreateSession(m, Target)
        /\ seedQueue' = <<>>
    BY <1>3, QuizAssumption DEF Modes, Start, IInv, BeforeStart, CreateSession
  <2>2. seedQueue' \in Seq(Questions) /\ Len(seedQueue') = 0
    BY <2>1
  <2>. QED
    BY <2>1, <2>2, FreshStart
<1>4. ASSUME NEW m \in SeedModes, NEW list \in SeedLists(m), StartSeeded(m, list)
      PROVE  FreshInv'
  <2>1. m \in Modes /\ m \in PreServed \cup {"PRACTICE"}
    BY QuizAssumption DEF Modes, PreServed
  <2>2. /\ list \in Seq(Questions) /\ Len(list) \in 1..MaxItems
        /\ m = "ASSIGNMENT" => \A j, k \in 1..Len(list) : list[j] = list[k] => j = k
    <3>1. PICK n \in 1..MaxItems : list \in {l \in [1..n -> Questions] :
                                     \/ m = "MOCK_BLUEPRINT"
                                     \/ \A j, k \in 1..n : l[j] = l[k] => j = k}
      BY DEF SeedLists
    <3>2. list \in Seq(Questions) /\ Len(list) = n
      BY <3>1, ConstantTypes
    <3>. QED
      BY <3>1, <3>2
  <2>. QED
    BY <1>4, <2>1, <2>2, FreshStart DEF StartSeeded
<1>5. CASE SeedServe
  BY <1>5, FreshSeed
<1>6. CASE SeedFail
  BY <1>6, FreshStays DEF SeedFail, row
<1>7. ASSUME NEW r \in Requests, NextServe(r) PROVE FreshInv'
  BY <1>7, FreshServe
<1>8. ASSUME NEW r \in Requests, UNCHANGED <<mode, served, seed>>,
             \A i \in Idx : items'[i].q = items[i].q,
             \A x \in Requests \ {r} : pc'[x] = pc[x] /\ work'[x] = work[x],
             pc'[r] = "serve" => work'[r].q \notin AskedQs
      PROVE  FreshInv'
  BY <1>8, FreshStays DEF seed
<1>9. ASSUME NEW r \in Requests, NextPick(r) PROVE FreshInv'
  <2>1. /\ UNCHANGED <<row, seed>>
        /\ \A x \in Requests \ {r} : pc'[x] = pc[x] /\ work'[x] = work[x]
        /\ pc'[r] = "serve" => work'[r].q \notin AskedQs
    BY <1>0, <1>9 DEF NextPick, Goto, Work
  <2>. QED
    BY <1>8, <2>1 DEF row
<1>10. ASSUME NEW r \in Requests,
              \/ \E op \in Ops : Admit(r, op)
              \/ FindExpired(r) \/ Abandon(r) \/ Finish(r) \/ MarkExpired(r)
              \/ NextLook(r)
       PROVE  FreshInv'
  <2>1. /\ UNCHANGED <<mode, served, items, seed>>
        /\ \A x \in Requests \ {r} : pc'[x] = pc[x] /\ work'[x] = work[x]
        /\ pc'[r] # "serve"
    BY <1>0, <1>10
       DEF Admit, FindExpired, Abandon, Finish, MarkExpired, NextLook, Leave,
           Show, Goto, row, Ops
  <2>. QED
    BY <1>8, <2>1
<1>11. ASSUME NEW r \in Requests,
              \/ \E i \in Idx, v \in Verdicts : AnswerBegin(r, i, v)
              \/ MarkSubmitted(r) \/ SubmitReload(r) \/ LoadItemEvents(r)
              \/ Publish(r)
       PROVE  FreshInv'
  <2>1. /\ UNCHANGED <<mode, served, items, seed>>
        /\ \A x \in Requests \ {r} : pc'[x] = pc[x] /\ work'[x] = work[x]
        /\ pc'[r] # "serve"
    BY <1>0, <1>11
       DEF AnswerBegin, MarkSubmitted, SubmitReload, LoadItemEvents, Publish,
           Goto, row
  <2>. QED
    BY <1>8, <2>1
<1>12. ASSUME NEW r \in Requests, WriteItemDurations(r) \/ AnswerCommit(r)
       PROVE  FreshInv'
  <2>1. /\ UNCHANGED <<mode, served, seed>>
        /\ \A x \in Requests \ {r} : pc'[x] = pc[x] /\ work'[x] = work[x]
        /\ pc'[r] # "serve"
    BY <1>0, <1>12
       DEF WriteItemDurations, AnswerCommit, FirstWrite, LaterWrite, Goto
  <2>2. CASE WriteItemDurations(r)
    <3>1. \A i \in Idx : [items[i] EXCEPT !.timed = TRUE].q = items[i].q
      BY <1>0 DEF Row
    <3>2. \A i \in Idx : items'[i].q = items[i].q
      BY <2>2, <3>1 DEF WriteItemDurations
    <3>. QED
      BY <1>8, <2>1, <3>2
  <2>3. CASE AnswerCommit(r)
    <3>1. work[r].idx \in Idx
      BY <1>0 DEF Work
    <3>2. \A i \in Idx : items'[i].q = items[i].q
      BY <1>0, <2>3, <3>1 DEF AnswerCommit, FirstWrite, LaterWrite, Row
    <3>. QED
      BY <1>8, <2>1, <3>2
  <2>. QED
    BY <1>12, <2>2, <2>3
<1>. QED
  BY <1>2, <1>3, <1>4, <1>5, <1>6, <1>7, <1>9, <1>10, <1>11, <1>12 DEF Next, Handler

\* No question is asked twice in a session, however many /next pick at once,
\* unless one of them runs into the seeding of a replay.
THEOREM QuestionsAreFresh == Spec => []NoQuestionTwice
<1>1. Init => FreshInv
  <2>1. Init => Served = {} /\ AskedQs = {}
    BY DEF Init, Served, AskedQs, NoRows, NoRow
  <2>. QED
    BY <2>1 DEF Init, FreshInv, SeedFresh, PickFresh, NoQuestionTwice
<1>2. FreshInv => NoQuestionTwice
  BY DEF FreshInv
<1>. QED
  BY <1>1, <1>2, FreshConsecution, Invariant, PTL DEF Spec

-----------------------------------------------------------------------------
(* A client that waits for each reply has one request in flight: what      *)
(* QuizPromises states holds for it.  OneRequest is a hypothesis of the    *)
(* theorems, because each of them fails as soon as two requests overlap.   *)

\* Only the first write of an answer request changes an answer or the ability
\* estimate.
LEMMA OnlyCommitsAnswer ==
  ASSUME IInv, [Next]_vars, ~ \E r \in Requests : AnswerCommit(r)
  PROVE  theta' = theta /\ \A i \in Idx : items'[i].ans = items[i].ans
<1>0. /\ TypeOK /\ ServedIsPrefix /\ AnswersServed
      /\ items \in [Idx -> Row] /\ work \in [Requests -> Work]
  BY DEF IInv, TypeOK
<1>1. CASE UNCHANGED vars \/ SeedFail \/ Expiry
  BY <1>1 DEF vars, SeedFail, Expiry, row
<1>2. ASSUME NEW m, NEW n, CreateSession(m, n)
      PROVE  theta' = theta /\ \A i \in Idx : items'[i].ans = items[i].ans
  BY <1>2 DEF CreateSession
<1>3. CASE SeedServe
  <2>1. Len(seedQueue) \in Nat \ {0} /\ Head(seedQueue) \in Questions
    BY <1>3 DEF SeedServe, IInv, TypeOK
  <2>2. seedNext \in Nat /\ seedNext <= served /\ seedNext < target
    BY <1>3, <2>1, ConstantTypes DEF IInv, TypeOK, SeedBehind
  <2>3. /\ ServeQuestion(seedNext, Head(seedQueue)) /\ UNCHANGED <<target, theta>>
    BY <1>3 DEF SeedServe
  <2>. QED
    BY <1>0, <2>1, <2>2, <2>3, ServeKeepsPrefix
<1>4. ASSUME NEW r \in Requests, NextServe(r)
      PROVE  theta' = theta /\ \A i \in Idx : items'[i].ans = items[i].ans
  <2>1. /\ work[r].idx \in Nat /\ work[r].idx <= served /\ work[r].idx < target
        /\ work[r].q \in Questions
    BY <1>4, ConstantTypes
       DEF NextServe, IInv, TypeOK, ServeInRange, Work, Idx
  <2>2. ServeQuestion(work[r].idx, work[r].q) /\ UNCHANGED <<target, theta>>
    BY <1>4 DEF NextServe
  <2>. QED
    BY <1>0, <2>1, <2>2, ServeKeepsPrefix
<1>5. ASSUME NEW r \in Requests, WriteItemDurations(r)
      PROVE  theta' = theta /\ \A i \in Idx : items'[i].ans = items[i].ans
  <2>1. \A i \in Idx : [items[i] EXCEPT !.timed = TRUE].ans = items[i].ans
    BY <1>0 DEF Row
  <2>. QED
    BY <1>5, <2>1 DEF WriteItemDurations
<1>6. ASSUME NEW r \in Requests,
             \/ \E op \in Ops : Admit(r, op)
             \/ FindExpired(r) \/ Abandon(r) \/ Finish(r) \/ MarkExpired(r)
             \/ NextLook(r) \/ NextPick(r)
      PROVE  theta' = theta /\ \A i \in Idx : items'[i].ans = items[i].ans
  BY <1>6 DEF Admit, FindExpired, Abandon, Finish, MarkExpired, NextLook,
     NextPick, row
<1>7. ASSUME NEW r \in Requests,
             \/ \E i \in Idx, v \in Verdicts : AnswerBegin(r, i, v)
             \/ MarkSubmitted(r) \/ SubmitReload(r) \/ LoadItemEvents(r)
             \/ Publish(r)
      PROVE  theta' = theta /\ \A i \in Idx : items'[i].ans = items[i].ans
  BY <1>7 DEF AnswerBegin, MarkSubmitted, SubmitReload, LoadItemEvents, Publish,
     row
<1>. QED
  BY <1>1, <1>2, <1>3, <1>4, <1>5, <1>6, <1>7
     DEF Next, Handler, Start, StartSeeded

-----------------------------------------------------------------------------
(* The ability estimate of the one client: what a request has read of it   *)
(* when it answers is what the session holds when it commits.              *)

LEMMA ThetaConsecution ==
  ASSUME OneRequest, IInv, ThetaInv, [Next]_vars
  PROVE  ThetaInv'
<1>0. /\ pc \in [Requests -> PCs] /\ seen \in [Requests -> Seen]
      /\ work \in [Requests -> Work] /\ items \in [Idx -> Row]
      /\ AnswersServed /\ AnswersServed'
  BY Consecution DEF IInv, TypeOK
<1>1. /\ Served \ Unanswered = {i \in Idx : items[i].ans # "none"}
      /\ Served' \ Unanswered' = {i \in Idx : items'[i].ans # "none"}
  BY <1>0 DEF AnswersServed, Served, Unanswered
<1>2. CASE \E r \in Requests : AnswerCommit(r)
  <2>1. PICK r \in Requests : AnswerCommit(r)
    BY <1>2
  <2>2. /\ pc[r] = "record" /\ pc'[r] \in {"answered", "panicked"}
        /\ \A x \in Requests : x = r
    BY <1>0, <2>1 DEF AnswerCommit, FirstWrite, LaterWrite, Goto, OneRequest
  <2>3. seen[r].theta = theta
    BY <2>2 DEF ThetaInv
  <2>4. ThetaCoversAnswers'
    <3>1. CASE FirstWrite(r)
      <4>1. /\ work[r].idx \in Idx /\ work[r].ans # "none"
            /\ items' = [items EXCEPT ![work[r].idx].ans = work[r].ans]
            /\ theta' = theta \cup {work[r].idx}
        BY <1>0, <2>2, <2>3, <3>1 DEF FirstWrite, Work, IInv, AnswersServed, Verdicts
      <4>2. \A i \in Idx : items'[i].ans # "none" <=>
                             i = work[r].idx \/ items[i].ans # "none"
        BY <1>0, <4>1 DEF Row
      <4>. QED
        BY <1>0, <1>1, <4>1, <4>2 DEF ThetaInv, ThetaCoversAnswers
    <3>2. CASE LaterWrite(r)
      BY <3>2 DEF LaterWrite, ThetaInv, ThetaCoversAnswers, Served, Unanswered
    <3>. QED
      BY <2>1, <3>1, <3>2 DEF AnswerCommit
  <2>. QED
    BY <2>2, <2>4 DEF ThetaInv
<1>3. CASE ~ \E r \in Requests : AnswerCommit(r)
  <2>1. theta' = theta /\ \A i \in Idx : items'[i].ans = items[i].ans
    BY <1>3, OnlyCommitsAnswer
  <2>2. ThetaCoversAnswers'
    BY <1>1, <2>1 DEF ThetaInv, ThetaCoversAnswers
  <2>3. UNCHANGED <<pc, seen>> => ThetaInv'
    BY <2>1, <2>2 DEF ThetaInv
  <2>4. ASSUME NEW r \in Requests,
               pc'[r] \in {"answer", "record"} => seen'[r].theta = theta
        PROVE  ThetaInv'
    BY <2>1, <2>2, <2>4 DEF ThetaInv, OneRequest
  <2>5. CASE UNCHANGED vars \/ SeedServe \/ SeedFail \/ Expiry
    BY <2>3, <2>5 DEF vars, SeedServe, SeedFail, Expiry
  <2>6. ASSUME NEW m, NEW n, CreateSession(m, n) PROVE ThetaInv'
    BY <2>3, <2>6 DEF CreateSession
  <2>7. ASSUME NEW r \in Requests, \E op \in Ops : Admit(r, op) PROVE ThetaInv'
    <3>1. seen'[r].theta = theta
      BY <1>0, <2>7 DEF Admit
    <3>. QED
      BY <2>4, <3>1
  <2>8. ASSUME NEW r \in Requests, NEW i \in Idx, NEW v \in Verdicts,
               AnswerBegin(r, i, v)
        PROVE  ThetaInv'
    <3>1. seen' = seen /\ pc[r] = "answer"
      BY <2>8 DEF AnswerBegin
    <3>. QED
      BY <2>4, <3>1 DEF ThetaInv
  <2>9. ASSUME NEW r \in Requests,
               \/ FindExpired(r) \/ Abandon(r) \/ Finish(r) \/ MarkExpired(r)
               \/ NextLook(r) \/ NextPick(r) \/ NextServe(r)
        PROVE  ThetaInv'
    <3>1. pc'[r] \notin {"answer", "record"}
      BY <1>0, <2>9
         DEF FindExpired, Abandon, Finish, MarkExpired, NextLook, NextPick,
             NextServe, Leave, Show, Goto
    <3>. QED
      BY <2>4, <3>1
  <2>10. ASSUME NEW r \in Requests,
                \/ MarkSubmitted(r) \/ WriteItemDurations(r)
                \/ SubmitReload(r) \/ LoadItemEvents(r) \/ Publish(r)
         PROVE  ThetaInv'
    <3>1. pc'[r] \notin {"answer", "record"}
      BY <1>0, <2>10
         DEF MarkSubmitted, WriteItemDurations, SubmitReload, LoadItemEvents,
             Publish, Goto
    <3>. QED
      BY <2>4, <3>1
  <2>. QED
    BY <1>3, <2>5, <2>6, <2>7, <2>8, <2>9, <2>10
       DEF Next, Handler, Start, StartSeeded
<1>. QED
  BY <1>2, <1>3

\* For a client with one request in flight the ability estimate accounts for
\* every recorded answer: no answer it was computed from is ever lost.
THEOREM OneClientTheta ==
  ASSUME OneRequest
  PROVE  Spec => []ThetaCoversAnswers
<1>1. Init => ThetaInv
  BY DEF Init, ThetaInv, ThetaCoversAnswers, Served, Unanswered, NoRows, NoRow
<1>2. ThetaInv => ThetaCoversAnswers
  BY DEF ThetaInv
<1>. QED
  BY <1>1, <1>2, ThetaConsecution, Invariant, PTL DEF Spec

-----------------------------------------------------------------------------
(* The question shown.  A replay that is still being seeded moves the next *)
(* index under a /next of the same client, so this is about sessions whose *)
(* list, if any, is an assignment's or a blueprint's.                      *)

\* A step that leaves the session's rows alone keeps ShownInv, if the request
\* it moves agrees with them.
LEMMA ShownKept ==
  ASSUME OneRequest, ShownInv, NEW r \in Requests, UNCHANGED <<mode, served, seed>>,
         \A i \in Idx : items'[i].q = items[i].q,
         work'[r].idx \in Idx,
         pc'[r] \in {"look", "pick"} /\ mode \notin PreServed =>
           seen'[r].served = served,
         pc'[r] = "serve" => work'[r].idx = served,
         pc'[r] = "shown" => /\ work'[r].q # NoQuestion
                             /\ items[work'[r].idx].q = work'[r].q
  PROVE  ShownInv'
BY DEF OneRequest, ShownInv, NextShowsRecordedRow, seed

LEMMA ShownConsecution ==
  ASSUME OneRequest, "PRACTICE" \notin SeedModes, IInv, ShownInv, [Next]_vars
  PROVE  ShownInv'
<1>0. /\ pc \in [Requests -> PCs] /\ seen \in [Requests -> Seen]
      /\ work \in [Requests -> Work] /\ items \in [Idx -> Row]
      /\ work' \in [Requests -> Work]
  BY Consecution DEF IInv, TypeOK
<1>1. \A i \in Idx : items[i].q # NoQuestion => items'[i].q = items[i].q
  BY StepGrows DEF Grows
<1>2. CASE UNCHANGED vars \/ Expiry
  BY <1>2 DEF vars, Expiry, row, seed, ShownInv, NextShowsRecordedRow
<1>3. ASSUME NEW m, NEW n, CreateSession(m, n),
             seedQueue' # <<>> => m \in PreServed
      PROVE  ShownInv'
  <2>1. pc' = pc /\ mode' = m /\ \A r \in Requests : pc[r] = "idle"
    BY <1>3 DEF CreateSession, IInv, BeforeStart
  <2>. QED
    BY <1>3, <2>1 DEF ShownInv, NextShowsRecordedRow
<1>4. ASSUME NEW m \in StartModes, Start(m) PROVE ShownInv'
  <2>1. CreateSession(m, Target) /\ seedQueue' = <<>>
    BY <1>4 DEF Start, CreateSession, IInv, BeforeStart
  <2>. QED
    BY <1>3, <2>1
<1>5. ASSUME NEW m \in SeedModes, NEW l \in SeedLists(m), StartSeeded(m, l)
      PROVE  ShownInv'
  <2>1. CreateSession(m, Len(l)) /\ m \in PreServed
    BY <1>5, QuizAssumption DEF StartSeeded, PreServed
  <2>. QED
    BY <1>3, <2>1
<1>6. CASE SeedServe \/ SeedFail
  <2>1. /\ seedQueue # <<>> /\ mode \in PreServed /\ UNCHANGED <<mode, pc, work>>
    BY <1>6 DEF SeedServe, SeedFail, row, ShownInv
  <2>2. \A r \in Requests : pc[r] # "serve"
    BY <2>1 DEF IInv, ServeInRange
  <2>3. NextShowsRecordedRow'
    BY <1>0, <1>1, <2>1 DEF ShownInv, NextShowsRecordedRow, Work
  <2>. QED
    BY <2>1, <2>2, <2>3 DEF ShownInv
<1>7. ASSUME NEW r \in Requests, NextServe(r) PROVE ShownInv'
  <2>1. /\ pc[r] = "serve" /\ pc'[r] = "shown" /\ \A x \in Requests : x = r
        /\ ServeQuestion(work[r].idx, work[r].q)
        /\ UNCHANGED <<mode, work, seed>>
    BY <1>0, <1>7 DEF NextServe, Goto, OneRequest
  <2>2. work[r].idx = served /\ work[r].idx \in Idx /\ work[r].q \in Questions
    BY <1>0, <2>1, ConstantTypes DEF ShownInv, IInv, ServeInRange, Work
  <2>3. items[work[r].idx].q = NoQuestion
    BY <2>2 DEF IInv, TypeOK, ServedIsPrefix, Served, Idx
  <2>4. items'[work[r].idx].q = work[r].q
    BY <1>0, <2>1, <2>2, <2>3 DEF ServeQuestion
  <2>5. work[r].q # NoQuestion
    BY <2>2, ConstantTypes
  <2>. QED
    BY <2>1, <2>4, <2>5 DEF ShownInv, NextShowsRecordedRow, seed
<1>8. ASSUME NEW r \in Requests, \E op \in Ops : Admit(r, op) PROVE ShownInv'
  <2>1. /\ UNCHANGED <<row, seed, work>> /\ pc'[r] \in Ops
        /\ seen'[r].served = served
    BY <1>0, <1>8 DEF Admit, Goto
  <2>. QED
    BY <1>0, <2>1, ShownKept DEF Ops, row, Work
<1>9. ASSUME NEW r \in Requests, NextLook(r) PROVE ShownInv'
  <2>1. /\ UNCHANGED <<row, seed, seen>> /\ pc[r] = "look"
    BY <1>9 DEF NextLook
  <2>2. \/ pc'[r] \in {"done", "pick"}
        \/ /\ pc'[r] = "shown"
           /\ \E i \in Unanswered : work'[r].idx = i /\ work'[r].q = items[i].q
    <3>1. ASSUME NEW i \in Unanswered, Show(r, i, items[i].q)
          PROVE  pc'[r] = "shown" /\ work'[r].idx = i /\ work'[r].q = items[i].q
      BY <1>0, <3>1 DEF Show, Goto, Work
    <3>2. Goto(r, "done") \/ Goto(r, "pick") => pc'[r] \in {"done", "pick"}
      BY <1>0 DEF Goto
    <3>. QED
      BY <1>9, <3>1, <3>2 DEF NextLook
  <2>3. pc'[r] = "shown" => /\ work'[r].q # NoQuestion
                            /\ items[work'[r].idx].q = work'[r].q
    BY <2>2 DEF Unanswered, Served
  <2>4. pc'[r] \in {"look", "pick"} /\ mode \notin PreServed =>
          seen'[r].served = served
    BY <2>1 DEF ShownInv
  <2>. QED
    BY <1>0, <2>1, <2>2, <2>3, <2>4, ShownKept DEF row, Work
<1>10. ASSUME NEW r \in Requests, NextPick(r) PROVE ShownInv'
  <2>1. /\ UNCHANGED <<row, seed, seen>> /\ pc[r] = "pick" /\ mode \notin PreServed
        /\ \/ pc'[r] = "done"
           \/ pc'[r] = "serve" /\ work'[r].idx = seen[r].served
    BY <1>0, <1>10 DEF NextPick, Goto, IInv, ServeInRange, Work
  <2>2. seen[r].served = served
    BY <2>1 DEF ShownInv
  <2>. QED
    BY <1>0, <2>1, <2>2, ShownKept DEF row, Work
<1>11. ASSUME NEW r \in Requests,
              FindExpired(r) \/ Abandon(r) \/ Finish(r) \/ MarkExpired(r)
       PROVE  ShownInv'
  <2>1. /\ UNCHANGED <<mode, served, items, seed>> /\ pc'[r] \in {"expire", "idle"}
    BY <1>0, <1>11 DEF FindExpired, Abandon, Finish, MarkExpired, Leave, Goto, row
  <2>. QED
    BY <1>0, <2>1, ShownKept DEF Work
<1>12. ASSUME NEW r \in Requests,
              \/ \E i \in Idx, v \in Verdicts : AnswerBegin(r, i, v)
              \/ MarkSubmitted(r) \/ SubmitReload(r) \/ LoadItemEvents(r)
              \/ Publish(r)
       PROVE  ShownInv'
  <2>1. /\ UNCHANGED <<mode, served, items, seed>>
        /\ pc'[r] \notin {"look", "pick", "serve", "shown"}
    BY <1>0, <1>12
       DEF AnswerBegin, MarkSubmitted, SubmitReload, LoadItemEvents, Publish,
           Goto, row
  <2>. QED
    BY <1>0, <2>1, ShownKept DEF Work
<1>13. ASSUME NEW r \in Requests, WriteItemDurations(r) PROVE ShownInv'
  <2>1. \A i \in Idx : [items[i] EXCEPT !.timed = TRUE].q = items[i].q
    BY <1>0 DEF Row
  <2>2. /\ UNCHANGED <<mode, served, seed>> /\ pc'[r] = "reload"
        /\ \A i \in Idx : items'[i].q = items[i].q
    BY <1>0, <1>13, <2>1 DEF WriteItemDurations, Goto
  <2>. QED
    BY <1>0, <2>2, ShownKept DEF Work
<1>14. ASSUME NEW r \in Requests, AnswerCommit(r) PROVE ShownInv'
  <2>1. work[r].idx \in Idx
    BY <1>0 DEF Work
  <2>2. /\ UNCHANGED <<mode, served, seed>> /\ pc'[r] \in {"answered", "panicked"}
    BY <1>0, <1>14 DEF AnswerCommit, FirstWrite, LaterWrite, Goto
  <2>3. \A i \in Idx : items'[i].q = items[i].q
    BY <1>0, <1>14, <2>1 DEF AnswerCommit, FirstWrite, LaterWrite, Row
  <2>. QED
    BY <1>0, <2>2, <2>3, ShownKept DEF Work
<1>. QED
  BY <1>2, <1>4, <1>5, <1>6, <1>7, <1>8, <1>9, <1>10, <1>11, <1>12, <1>13, <1>14
     DEF Next, Handler

\* The question a client is shown is the one its item row holds, for a client
\* with one request in flight and sessions other than replays.
THEOREM OneClientIsShownItsRow ==
  ASSUME OneRequest, "PRACTICE" \notin SeedModes
  PROVE  Spec => []NextShowsRecordedRow
<1>1. Init => ShownInv
  BY DEF Init, ShownInv, NextShowsRecordedRow
<1>2. ShownInv => NextShowsRecordedRow
  BY DEF ShownInv
<1>. QED
  BY <1>1, <1>2, ShownConsecution, Invariant, PTL DEF Spec
=============================================================================
