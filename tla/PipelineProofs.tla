--------------------------- MODULE PipelineProofs ---------------------------
(***************************************************************************)
(* Proofs about SessionPipeline, for any sessions, topics, days and        *)
(* failures.  With both workers: its types, and what the row locks keep.   *)
(* For the consumer alone: it implements SessionLedger, and its streak is  *)
(* the run of the activity days.                                           *)
(***************************************************************************)
EXTENDS PipelineInvariant, TLAPS

-----------------------------------------------------------------------------
(* The types of SessionPipeline, for any sessions, topics, days and number *)
(* of failures, and the lemmas on how a step moves a worker.               *)

LEMMA StreakTypes ==
    ASSUME NEW old \in Streak, NEW d \in Day
    PROVE  NextStreak(old, d) \in Streak
BY PipelineAssumption DEF Streak, NextStreak, Day

LEMMA BookedTypes ==
    ASSUME NEW old \in Rows, NEW s \in Session, NEW d \in Day,
           NEW row \in Row, NEW list \in [Topic -> Row]
    PROVE  Booked(old, s, d, row, list) \in Rows
<1>1. TopicOf[s] \in Topic
  BY PipelineAssumption
<1>2. NextStreak(old.streak, d) \in Streak
  BY StreakTypes DEF Rows
<1>3. [old.mastery EXCEPT ![TopicOf[s]] = row] \in [Topic -> Row]
  BY DEF Rows
<1>4. [old.credit EXCEPT ![s][d] = @ + 1] \in [Session -> [Day -> Nat]]
  BY DEF Rows
<1> QED
  BY <1>2, <1>3, <1>4 DEF Rows, Booked

LEMMA InitialTypes == Blank \in Rows /\ Idle \in Work
BY PipelineAssumption DEF Blank, Rows, Idle, Work, Stage, NoRows, NoRow, Row,
                          NoStreak, Streak

\* g is the work f with w moved to a stage, its session kept.
Moved(f, g, w, stage) ==
    /\ g \in [Worker -> Work]
    /\ \A v \in Worker : g[v].cur = f[v].cur
    /\ \A v \in Worker : g[v].pc = IF v = w THEN stage ELSE f[v].pc
    /\ \A v \in Worker \ {w} : g[v] = f[v]

LEMMA MoveTypes ==
    ASSUME NEW f \in [Worker -> Work], NEW w \in Worker, NEW stage \in Stage
    PROVE  /\ Moved(f, [f EXCEPT ![w].pc = stage], w, stage)
           /\ \A row \in Row :
                Moved(f, [f EXCEPT ![w].pc = stage, ![w].row = row], w, stage)
           /\ \A list \in [Topic -> Row] :
                Moved(f, [f EXCEPT ![w].pc = stage, ![w].list = list], w, stage)
           /\ \A s \in Session :
                Moved(f, [f EXCEPT ![w].pc = stage, ![w].row[s] = @ + 1], w, stage)
<1>1. Moved(f, [f EXCEPT ![w].pc = stage], w, stage)
  BY DEF Moved, Work
<1>2. ASSUME NEW row \in Row
      PROVE  Moved(f, [f EXCEPT ![w].pc = stage, ![w].row = row], w, stage)
  BY DEF Moved, Work
<1>3. ASSUME NEW list \in [Topic -> Row]
      PROVE  Moved(f, [f EXCEPT ![w].pc = stage, ![w].list = list], w, stage)
  BY DEF Moved, Work
<1>4. ASSUME NEW s \in Session
      PROVE  Moved(f, [f EXCEPT ![w].pc = stage, ![w].row[s] = @ + 1], w, stage)
  <2>1. [f[w].row EXCEPT ![s] = @ + 1] \in Row
    BY DEF Work, Row
  <2> QED
    BY <2>1 DEF Moved, Work
<1> QED
  BY <1>1, <1>2, <1>3, <1>4

LEMMA Workers ==
    /\ "live" \in Worker
    /\ Worker \subseteq {"live", "backfill"}
    /\ Backfill <=> "backfill" \in Worker
BY PipelineAssumption DEF Worker

LEMMA TypeInit == Init => TypeOK
<1> SUFFICES ASSUME Init PROVE TypeOK
  OBVIOUS
<1>1. today \in Day /\ faults \in 0 .. MaxFaults
  BY PipelineAssumption DEF Init, Day
<1>2. quiz \in [Session -> [shape : Shape, day : 0 .. MaxDay]]
  BY PipelineAssumption DEF Init, Shape
<1>3. deliveries \in [Session -> 0 .. MaxDeliver] /\ xp \in [Session -> Nat]
  BY PipelineAssumption DEF Init
<1>4. /\ work \in [Worker -> Work] /\ tx \in [Worker -> Rows] /\ db \in Rows
      /\ \A w \in Worker : work[w].cur = NoSession <=> work[w].pc = "idle"
  BY InitialTypes DEF Init, Idle
<1>5. log \in Seq(Session) /\ inbox \in Seq(Session)
  <2>1. <<>> \in Seq(Session)
    OBVIOUS
  <2> QED
    BY <2>1 DEF Init
<1>6. /\ stream \subseteq Session /\ acked \subseteq Session /\ todo \subseteq Session
      /\ dirty \in [Worker -> BOOLEAN] /\ ran \in BOOLEAN
  BY DEF Init
<1> QED
  BY <1>1, <1>2, <1>3, <1>4, <1>5, <1>6 DEF TypeOK

LEMMA CloseTypes ==
    ASSUME TypeOK, NEW w \in Worker, Close(w)
    PROVE  tx' \in [Worker -> Rows] /\ dirty' \in [Worker -> BOOLEAN]
BY InitialTypes DEF Close, TypeOK

\* A step that moves w, keeping its session, or makes it idle keeps the types
\* of the work.
LEMMA MovedWork ==
    ASSUME TypeOK, NEW w \in Worker, work[w].pc # "idle",
           \/ \E stage \in Stage \ {"idle"} : Moved(work, work', w, stage)
           \/ work' = [work EXCEPT ![w] = Idle]
    PROVE  /\ work' \in [Worker -> Work]
           /\ \A v \in Worker : work'[v].cur = NoSession <=> work'[v].pc = "idle"
<1>1. CASE \E stage \in Stage \ {"idle"} : Moved(work, work', w, stage)
  BY <1>1 DEF TypeOK, Moved
<1>2. CASE work' = [work EXCEPT ![w] = Idle]
  BY <1>2, InitialTypes DEF TypeOK, Idle
<1> QED
  BY <1>1, <1>2

\* w goes on with its session, or is done with it.
Moves(w) == \/ \E stage \in Stage : Moved(work, work', w, stage)
            \/ work' = [work EXCEPT ![w] = Idle]

LEMMA WorkerMoves ==
    ASSUME TypeInv, NEW w \in Worker,
           \/ Process(w) \/ Abort(w) \/ Poison(w) \/ Crash(w)
           \/ w = "live" /\ (Fan \/ AwardXp \/ Ack)
    PROVE  /\ Moves(w)
           /\ \A v \in Worker : work'[v].cur \in {work[v].cur, NoSession}
           /\ \A v \in Worker \ {w} : work'[v] = work[v]
<1>0. /\ work \in [Worker -> Work] /\ work[w] \in Work /\ db \in Rows
      /\ work[w].cur \in Session \cup {NoSession}
      /\ work[w].cur # NoSession <=> work[w].pc # "idle"
  BY DEF TypeInv, TypeOK, Work
<1>1. Moves(w)
  <2>1. CASE \E stage \in Stage : Goto(w, stage)
    <3>1. PICK stage \in Stage : Goto(w, stage)
      BY <2>1
    <3> QED
      BY <1>0, <3>1, MoveTypes DEF Goto, Moves
  <2>2. CASE work' = [work EXCEPT ![w] = Idle]
    BY <2>2 DEF Moves
  <2>3. CASE ReadMastery(w)
    <3>1. db.mastery[TopicOf[work[w].cur]] \in Row
      BY <1>0, <2>3, PipelineAssumption DEF ReadMastery, Rows
    <3> QED
      BY <1>0, <2>3, <3>1, MoveTypes DEF ReadMastery, Moves, Stage
  <2>4. CASE WriteMastery(w)
    <3>1. work[w].cur \in Session
      BY <1>0, <2>4, PipelineAssumption DEF WriteMastery
    <3> QED
      BY <1>0, <2>4, <3>1, MoveTypes DEF WriteMastery, Moves, Stage
  <2>5. CASE ListMastery(w)
    <3>1. [db.mastery EXCEPT ![TopicOf[work[w].cur]] = work[w].row] \in [Topic -> Row]
      BY <1>0, <2>5, PipelineAssumption DEF ListMastery, Rows, Work
    <3> QED
      BY <1>0, <2>5, <3>1, MoveTypes DEF ListMastery, Moves, Stage
  <2> QED
    BY <2>1, <2>2, <2>3, <2>4, <2>5
       DEF Process, Check, Book, StreakXp, Commit, Abort, Poison, Crash, Fan,
           AwardXp, Ack, Stage
<1> QED
  BY <1>0, <1>1 DEF Moves, Moved, Idle

LEMMA TickTypes ==
    ASSUME NEW r \in Rows
    PROVE  LET u == [r EXCEPT !.ticks = @ + 1]
           IN  /\ u \in Rows
               /\ u.processed = r.processed /\ u.mastery = r.mastery
               /\ u.readiness = r.readiness /\ u.credit = r.credit
               /\ u.streak = r.streak
BY DEF Rows

LEMMA ProcessTypes ==
    ASSUME TypeInv, NEW w \in Worker, Process(w)
    PROVE  TypeOK'
<1> DEFINE s == work[w].cur
<1>0. /\ work \in [Worker -> Work] /\ work[w] \in Work
      /\ db \in Rows /\ tx[w] \in Rows
  BY DEF TypeInv, TypeOK
<1>a. work[w].pc # "idle" => s \in Session /\ TopicOf[s] \in Topic
  BY <1>0, PipelineAssumption DEF TypeInv, TypeOK, Work
<1> USE DEF TypeInv
<1>1. CASE Check(w)
  <2>1. PICK stage \in Stage \ {"idle"} : Goto(w, stage)
    BY <1>1 DEF Check, Stage
  <2>2. Moved(work, work', w, stage)
    BY <1>0, <2>1, MoveTypes DEF Goto
  <2> QED
    BY <1>1, <2>2, MovedWork DEF Check, TypeOK, quizVars, busVars, jobVars
<1>2. CASE ReadMastery(w)
  <2>1. db.mastery[TopicOf[s]] \in Row
    BY <1>0, <1>a, <1>2 DEF ReadMastery, Rows
  <2>2. Moved(work, work', w, "write")
    BY <1>0, <1>2, <2>1, MoveTypes DEF ReadMastery, Stage
  <2> QED
    BY <1>2, <2>2, MovedWork DEF ReadMastery, TypeOK, Stage, quizVars, busVars, jobVars
<1>3. CASE WriteMastery(w)
  <2>1. Moved(work, work', w, "list")
    BY <1>0, <1>a, <1>3, MoveTypes DEF WriteMastery, Stage
  <2> QED
    BY <1>3, <2>1, MovedWork DEF WriteMastery, TypeOK, Stage, quizVars, busVars, jobVars
<1>4. CASE ListMastery(w)
  <2>1. [db.mastery EXCEPT ![TopicOf[s]] = work[w].row] \in [Topic -> Row]
    BY <1>0, <1>a, <1>4 DEF ListMastery, Rows, Work
  <2>2. Moved(work, work', w, "book")
    BY <1>0, <1>4, <2>1, MoveTypes DEF ListMastery, Stage
  <2> QED
    BY <1>4, <2>2, MovedWork DEF ListMastery, TypeOK, Stage, quizVars, busVars, jobVars
<1>5. CASE Book(w)
  <2> DEFINE d == IF w = "live" THEN today ELSE quiz[s].day
  <2>1. d \in Day
    BY <1>0, <1>a, <1>5 DEF Book, OfSubmitted, TypeOK, Work
  <2>2. Booked(db, s, d, work[w].row, work[w].list) \in Rows
    BY <1>0, <1>a, <1>5, <2>1, BookedTypes DEF Book, Work
  <2>3. tx' \in [Worker -> Rows] /\ dirty' \in [Worker -> BOOLEAN]
    BY <1>5, <2>2 DEF Book, TypeOK
  <2>4. Moved(work, work', w, "booked")
    BY <1>0, <1>5, MoveTypes DEF Book, Goto, Stage
  <2> QED
    BY <1>5, <2>3, <2>4, MovedWork DEF Book, TypeOK, Stage, quizVars, busVars, jobVars
<1>6. CASE StreakXp(w)
  <2>1. [tx[w] EXCEPT !.ticks = @ + 1] \in Rows
    BY <1>0, TickTypes
  <2>2. db' \in Rows /\ tx' \in [Worker -> Rows] /\ dirty' \in [Worker -> BOOLEAN]
    BY <1>6, <2>1, CloseTypes DEF StreakXp, TypeOK
  <2>3. PICK stage \in Stage \ {"idle"} : Goto(w, stage)
    BY <1>6 DEF StreakXp, Stage
  <2>4. Moved(work, work', w, stage)
    BY <1>0, <2>3, MoveTypes DEF Goto
  <2> QED
    BY <1>6, <2>2, <2>4, MovedWork DEF StreakXp, TypeOK, quizVars, busVars, jobVars
<1>7. CASE Commit(w)
  <2>1. db' \in Rows /\ tx' \in [Worker -> Rows] /\ dirty' \in [Worker -> BOOLEAN]
    BY <1>0, <1>7, CloseTypes DEF Commit, TypeOK
  <2>2. \/ Moved(work, work', w, "ack")
        \/ work' = [work EXCEPT ![w] = Idle]
    BY <1>0, <1>7, MoveTypes DEF Commit, Goto, Stage
  <2> QED
    BY <1>7, <2>1, <2>2, MovedWork DEF Commit, TypeOK, Stage, quizVars, busVars, jobVars
<1> QED
  BY <1>1, <1>2, <1>3, <1>4, <1>5, <1>6, <1>7 DEF Process

LEMMA OtherTypes ==
    ASSUME TypeInv, [Next]_vars, \A w \in Worker : ~Process(w)
    PROVE  TypeOK'
<1> USE Workers DEF TypeInv
<1>0. work \in [Worker -> Work]
  BY DEF TypeOK
<1>1. ASSUME NEW s \in Session, Submit(s)
      PROVE  TypeOK'
  <2>1. quiz' \in [Session -> [shape : Shape, day : 0 .. MaxDay]]
    BY <1>1 DEF Submit, TypeOK, Shape, Day
  <2>2. faults' \in 0 .. MaxFaults /\ stream' \subseteq Session
    BY <1>1, PipelineAssumption DEF Submit, TypeOK, Fault
  <2>3. log' \in Seq(Session)
    BY <1>1 DEF Submit, TypeOK
  <2> QED
    BY <1>1, <2>1, <2>2, <2>3
       DEF Submit, TypeOK, busVars, workVars, jobVars
<1>2. ASSUME NEW s \in Session, Deliver(s)
      PROVE  TypeOK'
  <2>1. faults' \in 0 .. MaxFaults
    BY <1>2, PipelineAssumption DEF Deliver, TypeOK, Fault
  <2>2. deliveries' \in [Session -> 0 .. MaxDeliver]
    BY <1>2, PipelineAssumption DEF Deliver, TypeOK
  <2>3. inbox' \in Seq(Session)
    BY <1>2 DEF Deliver, TypeOK
  <2> QED
    BY <1>2, <2>1, <2>2, <2>3 DEF Deliver, TypeOK, quizVars, workVars, jobVars
<1>3. ASSUME NextDay PROVE TypeOK'
  <2>1. today' \in Day
    BY <1>3, PipelineAssumption DEF NextDay, TypeOK, Day
  <2> QED
    BY <1>3, <2>1 DEF NextDay, TypeOK, quizVars, busVars, workVars
<1>4. ASSUME NEW s \in Session, NEW w \in Worker, work[w].pc = "idle",
             work' = [work EXCEPT ![w] = [Idle EXCEPT !.pc = "check", !.cur = s]]
      PROVE  /\ work' \in [Worker -> Work]
             /\ \A v \in Worker : work'[v].cur = NoSession <=> work'[v].pc = "idle"
  <2>1. [Idle EXCEPT !.pc = "check", !.cur = s] \in Work
    BY InitialTypes DEF Work, Stage
  <2>2. /\ [Idle EXCEPT !.pc = "check", !.cur = s].cur = s
        /\ [Idle EXCEPT !.pc = "check", !.cur = s].pc = "check"
    BY DEF Idle
  <2> QED
    BY <1>4, <2>1, <2>2, PipelineAssumption DEF TypeOK
<1>5. ASSUME Take PROVE TypeOK'
  <2>1. Head(inbox) \in Session /\ inbox' \in Seq(Session)
    BY <1>5 DEF Take, TypeOK
  <2> QED
    BY <1>4, <1>5, <2>1 DEF Take, TypeOK, quizVars, jobVars
<1>6. ASSUME Visit PROVE TypeOK'
  <2>1. PICK s \in todo :
          work' = [work EXCEPT !["backfill"] = [Idle EXCEPT !.pc = "check", !.cur = s]]
    BY <1>6 DEF Visit
  <2>2. todo' \subseteq Session
    BY <1>6 DEF Visit, TypeOK
  <2>3. /\ work' \in [Worker -> Work]
        /\ \A v \in Worker : work'[v].cur = NoSession <=> work'[v].pc = "idle"
    BY <1>4, <1>6, <2>1 DEF Visit, TypeOK
  <2> QED
    BY <1>6, <2>2, <2>3 DEF Visit, TypeOK, quizVars, busVars
<1>7. ASSUME Fan PROVE TypeOK'
  <2>1. PICK stage \in Stage \ {"idle"} : Goto("live", stage)
    BY <1>7 DEF Fan, Stage
  <2>2. Moved(work, work', "live", stage)
    BY <1>0, <2>1, MoveTypes DEF Goto
  <2> QED
    BY <1>7, <2>2, MovedWork DEF Fan, TypeOK, quizVars, busVars, jobVars
<1>8. ASSUME AwardXp PROVE TypeOK'
  <2>1. Moved(work, work', "live", "commit")
    BY <1>0, <1>8, MoveTypes DEF AwardXp, Goto, Stage
  <2>2. work["live"].cur \in Session
    BY <1>0, <1>8 DEF AwardXp, TypeOK, Work
  <2>3. xp' \in [Session -> Nat]
    BY <1>8, <2>2 DEF AwardXp, TypeOK
  <2>4. db' \in Rows /\ tx' \in [Worker -> Rows] /\ dirty' \in [Worker -> BOOLEAN]
    BY <1>8, CloseTypes DEF AwardXp, TypeOK
  <2> QED
    BY <1>8, <2>1, <2>3, <2>4, MovedWork
       DEF AwardXp, TypeOK, Stage, quizVars, busVars, jobVars
<1>9. ASSUME Ack PROVE TypeOK'
  <2>1. work["live"].cur \in Session
    BY <1>0, <1>9 DEF Ack, TypeOK, Work
  <2>2. acked' \subseteq Session /\ faults' \in 0 .. MaxFaults
    BY <1>9, <2>1, PipelineAssumption DEF Ack, TypeOK, Fault
  <2> QED
    BY <1>9, <2>2, MovedWork DEF Ack, TypeOK, quizVars, jobVars
<1>10. ASSUME StartScan PROVE TypeOK'
  BY <1>10 DEF StartScan, TypeOK, quizVars, busVars, workVars
<1>11. ASSUME NEW w \in Worker, Abort(w) PROVE TypeOK'
  <2>1. faults' \in 0 .. MaxFaults
    BY <1>11, PipelineAssumption DEF Abort, TypeOK, Fault
  <2> QED
    BY <1>11, <2>1, CloseTypes, MovedWork
       DEF Abort, InTransaction, TypeOK, quizVars, busVars, jobVars
<1>12. ASSUME NEW w \in Worker, Poison(w) PROVE TypeOK'
  <2>1. faults' \in 0 .. MaxFaults
    BY <1>12, PipelineAssumption DEF Poison, TypeOK, Fault
  <2>2. Moved(work, work', w, "doomed")
    BY <1>0, <1>12, MoveTypes DEF Poison, Goto, Stage
  <2> QED
    BY <1>12, <2>1, <2>2, MovedWork
       DEF Poison, TypeOK, Stage, quizVars, busVars, jobVars
<1>13. ASSUME NEW w \in Worker, Crash(w) PROVE TypeOK'
  <2>1. faults' \in 0 .. MaxFaults
    BY <1>13, PipelineAssumption DEF Crash, TypeOK, Fault
  <2>2. /\ work' \in [Worker -> Work]
        /\ \A v \in Worker : work'[v].cur = NoSession <=> work'[v].pc = "idle"
    BY <1>13, InitialTypes DEF Crash, TypeOK, Idle
  <2>3. inbox' \in Seq(Session) /\ todo' \subseteq Session
    <3>1. <<>> \in Seq(Session)
      OBVIOUS
    <3> QED
      BY <1>13, <3>1 DEF Crash, TypeOK
  <2> QED
    BY <1>13, <2>1, <2>2, <2>3, CloseTypes DEF Crash, TypeOK, quizVars
<1>14. ASSUME UNCHANGED vars PROVE TypeOK'
  BY <1>14 DEF TypeOK, vars, quizVars, busVars, workVars, jobVars
<1> QED
  BY <1>1, <1>2, <1>3, <1>5, <1>6, <1>7, <1>8, <1>9, <1>10, <1>11, <1>12, <1>13, <1>14
     DEF Next, Consume

LEMMA SubmittedStep == TypeInv /\ [Next]_vars => OfSubmitted'
<1> SUFFICES ASSUME TypeInv, [Next]_vars PROVE OfSubmitted'
  OBVIOUS
<1> USE Workers
<1>0. TypeOK /\ TypeOK'
  BY ProcessTypes, OtherTypes DEF TypeInv
<1>1. ASSUME NEW s \in Session, Submit(s) PROVE OfSubmitted'
  <2>1. Submitted' = Submitted \cup {s}
    BY <1>0, <1>1 DEF Submit, Submitted, TypeOK, Shape
  <2>2. \A r \in Submitted' : quiz'[r].day \in Day
    BY <1>0, <1>1, <2>1 DEF Submit, Submitted, TypeInv, OfSubmitted, TypeOK
  <2> QED
    BY <1>1, <2>1, <2>2 DEF Submit, TypeInv, OfSubmitted, busVars, workVars, jobVars
<1>2. ASSUME UNCHANGED quizVars PROVE Submitted' = Submitted
  BY <1>2 DEF Submitted, quizVars
<1>3. ASSUME NEW s \in Session, Deliver(s) PROVE OfSubmitted'
  <2>1. \A i \in 1 .. Len(inbox') : inbox'[i] \in Submitted
    BY <1>0, <1>3 DEF Deliver, TypeInv, OfSubmitted, TypeOK
  <2> QED
    BY <1>3, <1>2, <2>1 DEF Deliver, TypeInv, OfSubmitted, quizVars, workVars, jobVars
<1>4. ASSUME NEW w \in Worker, Process(w) PROVE OfSubmitted'
  <2>1. \A v \in Worker : work'[v].cur \in {work[v].cur, NoSession}
    BY <1>4, WorkerMoves
  <2>2. UNCHANGED <<quizVars, busVars, jobVars>>
    BY <1>4 DEF Process, Check, ReadMastery, WriteMastery, ListMastery, Book,
                StreakXp, Commit
  <2> QED
    BY <1>2, <2>1, <2>2 DEF TypeInv, OfSubmitted, quizVars, busVars, jobVars
<1>5. ASSUME Take PROVE OfSubmitted'
  <2>1. inbox # <<>> /\ inbox \in Seq(Session)
    BY <1>0, <1>5 DEF Take, TypeOK
  <2>2. /\ Head(inbox) \in Submitted
        /\ \A i \in 1 .. Len(Tail(inbox)) : Tail(inbox)[i] \in Submitted
    BY <2>1 DEF TypeInv, OfSubmitted
  <2>3. work'["live"].cur = Head(inbox) /\ \A v \in Worker \ {"live"} : work'[v] = work[v]
    BY <1>0, <1>5 DEF Take, TypeOK, Idle
  <2> QED
    BY <1>2, <1>5, <2>2, <2>3 DEF Take, TypeInv, OfSubmitted, quizVars, jobVars
<1>6. ASSUME Visit PROVE OfSubmitted'
  <2>1. \E s \in todo : work'["backfill"].cur = s /\ todo' = todo \ {s}
    BY <1>0, <1>6 DEF Visit, TypeOK, Idle
  <2>2. \A v \in Worker \ {"backfill"} : work'[v] = work[v]
    BY <1>0, <1>6 DEF Visit, TypeOK
  <2> QED
    BY <1>2, <1>6, <2>1, <2>2 DEF Visit, TypeInv, OfSubmitted, quizVars, busVars
<1>7. CASE Fan \/ AwardXp \/ Ack
  <2>1. \A v \in Worker : work'[v].cur \in {work[v].cur, NoSession}
    BY <1>7, WorkerMoves
  <2>2. UNCHANGED <<quizVars, inbox, jobVars>>
    BY <1>7 DEF Fan, AwardXp, Ack, busVars
  <2> QED
    BY <1>2, <2>1, <2>2 DEF TypeInv, OfSubmitted, quizVars, jobVars
<1>8. ASSUME NEW w \in Worker, Abort(w) \/ Poison(w) \/ Crash(w) PROVE OfSubmitted'
  <2>1. \A v \in Worker : work'[v].cur \in {work[v].cur, NoSession}
    BY <1>8, WorkerMoves
  <2>2. /\ UNCHANGED quizVars
        /\ \A i \in 1 .. Len(inbox') : inbox'[i] \in Submitted
        /\ todo' \subseteq todo
    <3>1. Len(<<>>) = 0
      OBVIOUS
    <3> QED
      BY <1>8, <3>1 DEF Abort, Poison, Crash, TypeInv, OfSubmitted, busVars, jobVars
  <2> QED
    BY <1>2, <2>1, <2>2 DEF TypeInv, OfSubmitted, quizVars
<1>9. ASSUME StartScan PROVE OfSubmitted'
  <2>1. todo' \subseteq Submitted
    BY <1>9 DEF StartScan, InWindow, Submitted
  <2> QED
    BY <1>2, <1>9, <2>1 DEF StartScan, TypeInv, OfSubmitted, quizVars, busVars, workVars
<1>10. CASE NextDay \/ UNCHANGED vars
  BY <1>2, <1>10
     DEF NextDay, TypeInv, OfSubmitted, vars, quizVars, busVars, workVars, jobVars
<1> QED
  BY <1>1, <1>3, <1>4, <1>5, <1>6, <1>7, <1>8, <1>9, <1>10 DEF Next, Consume

\* Every behaviour is well typed, with both workers and any failures.
THEOREM TypeCorrect == Spec => []TypeOK
<1>1. Init => TypeInv
  BY TypeInit DEF TypeInv, OfSubmitted, Init, Submitted, Idle
<1>2. TypeInv /\ [Next]_vars => TypeInv'
  BY ProcessTypes, OtherTypes, SubmittedStep DEF TypeInv
<1>3. TypeInv => TypeOK
  BY DEF TypeInv
<1> QED
  BY <1>1, <1>2, <1>3, PTL DEF Spec

-----------------------------------------------------------------------------
(* The safety of SessionPipeline with both workers: what the row locks     *)
(* keep (SharedInv), and the promises that follow from it.                 *)

DirtyStages == {"booked", "fan", "award", "commit", "doomed"}

LEMMA StageAfter ==
    ASSUME TypeInv, NEW w \in Worker
    PROVE  /\ \A stage \in Stage : Goto(w, stage) => Moved(work, work', w, stage)
           /\ ReadMastery(w) => Moved(work, work', w, "write")
           /\ WriteMastery(w) => Moved(work, work', w, "list")
           /\ ListMastery(w) => Moved(work, work', w, "book")
<1>0. /\ work \in [Worker -> Work] /\ work[w] \in Work /\ db \in Rows
      /\ work[w].pc # "idle" => work[w].cur \in Session
  BY DEF TypeInv, TypeOK, Work
<1>1. ASSUME NEW stage \in Stage, Goto(w, stage)
      PROVE  Moved(work, work', w, stage)
  BY <1>0, <1>1, MoveTypes DEF Goto
<1>2. ASSUME ReadMastery(w) PROVE Moved(work, work', w, "write")
  <2>1. db.mastery[TopicOf[work[w].cur]] \in Row
    BY <1>0, <1>2, PipelineAssumption DEF ReadMastery, Rows
  <2> QED
    BY <1>0, <1>2, <2>1, MoveTypes DEF ReadMastery, Stage
<1>3. ASSUME WriteMastery(w) PROVE Moved(work, work', w, "list")
  <2>1. work[w].cur \in Session
    BY <1>0, <1>3 DEF WriteMastery
  <2> QED
    BY <1>0, <1>3, <2>1, MoveTypes DEF WriteMastery, Stage
<1>4. ASSUME ListMastery(w) PROVE Moved(work, work', w, "book")
  <2>1. [db.mastery EXCEPT ![TopicOf[work[w].cur]] = work[w].row] \in [Topic -> Row]
    BY <1>0, <1>4, PipelineAssumption DEF ListMastery, Rows, Work
  <2> QED
    BY <1>0, <1>4, <2>1, MoveTypes DEF ListMastery, Stage
<1> QED
  BY <1>1, <1>2, <1>3, <1>4

LEMMA NextTypes == TypeInv /\ [Next]_vars => TypeInv'
BY ProcessTypes, OtherTypes, SubmittedStep DEF TypeInv

LEMMA BookedCredits ==
    ASSUME NEW old \in Rows, NEW s \in Session, NEW d \in Day,
           NEW row \in Row, NEW list \in [Topic -> Row], CreditsMatch(old)
    PROVE  /\ Booked(old, s, d, row, list).processed = old.processed \cup {s}
           /\ CreditsMatch(Booked(old, s, d, row, list))
<1> DEFINE c == [old.credit EXCEPT ![s][d] = @ + 1]
<1>1. \A r \in Session, e \in Day :
        c[r][e] = IF r = s /\ e = d THEN old.credit[r][e] + 1 ELSE old.credit[r][e]
  BY DEF Rows
<1>2. \A r \in Session, e \in Day : old.credit[r][e] \in Nat
  BY DEF Rows
<1> HIDE DEF c
<1>a. \A r \in Session, e \in Day :
        c[r][e] > 0 <=> (r = s /\ e = d) \/ old.credit[r][e] > 0
  BY <1>1, <1>2
<1>3. \A r \in Session : r \in old.processed \cup {s} <=> \E e \in Day : c[r][e] > 0
  BY <1>a DEF CreditsMatch
<1> QED
  BY <1>3 DEF Booked, CreditsMatch, c

\* A step that touches no row and moves no dirty worker off its session.
LEMMA QuietStep ==
    ASSUME SharedInv, TypeInv', UNCHANGED <<db, xp, acked, tx, dirty>>,
           Submitted \subseteq Submitted',
           PastBooking',
           \A v \in Worker : dirty[v] => /\ work'[v].cur = work[v].cur
                                         /\ work'[v].pc \in DirtyStages,
           "statement" \notin Faults =>
               /\ \A v \in Worker : work'[v].pc # "doomed"
               /\ work'["live"].pc = "ack" => work'["live"].cur \in db.processed
    PROVE  SharedInv'
<1>1. OneWriter' /\ CreditsMatch(db)' /\ XpHasBooking' /\ (db.processed \subseteq Submitted)'
  BY DEF SharedInv, OneWriter, CreditsMatch, XpHasBooking
<1>2. PendingExtends'
  BY DEF SharedInv, PendingExtends, DirtyStages, CreditsMatch
<1>3. AckSafe'
  BY DEF SharedInv, AckSafe, AckedIsBooked
<1> QED
  BY <1>1, <1>2, <1>3 DEF SharedInv

LEMMA SameWork ==
    ASSUME SharedInv, TypeInv', UNCHANGED <<db, xp, acked, work, tx, dirty>>,
           Submitted \subseteq Submitted'
    PROVE  SharedInv'
<1>1. PastBooking'
  BY DEF SharedInv, PastBooking
<1> QED
  BY <1>1, QuietStep DEF SharedInv, PendingExtends, AckSafe, DirtyStages

\* The transaction of w ends, with its rows committed or not.
LEMMA EndStep ==
    ASSUME SharedInv, TypeInv', NEW w \in Worker, Close(w), Moves(w),
           UNCHANGED <<acked, quiz>>,
           \/ db' = db
           \/ /\ dirty[w]
              /\ db'.processed = tx[w].processed /\ db'.credit = tx[w].credit,
           \A s \in Session : xp'[s] > 0 => xp[s] > 0 \/ s \in db'.processed,
           work'[w].pc \in {"idle", "fan", "commit", "ack"},
           work'[w].pc = "fan" => w = "live",
           work'[w].pc \in {"fan", "commit"} => work'[w].cur \in db'.processed,
           "statement" \notin Faults =>
               (work'[w].pc = "ack" => work'[w].cur \in db'.processed)
    PROVE  SharedInv'
<1> USE Workers
<1>0. TypeOK /\ TypeOK'
  BY DEF SharedInv, TypeInv
<1>1. /\ ~dirty'[w] /\ \A v \in Worker \ {w} : dirty'[v] = dirty[v] /\ tx'[v] = tx[v]
      /\ \A v \in Worker \ {w} : work'[v] = work[v]
  BY <1>0 DEF Close, TypeOK, Moves, Moved
<1>2. dirty[w] => \A v \in Worker : ~dirty'[v]
  BY <1>1 DEF SharedInv, OneWriter
<1>3. /\ db.processed \subseteq db'.processed
      /\ dirty[w] \/ db' = db
      /\ db'.processed \subseteq Submitted
  <2>1. CASE db' = db
    BY <2>1 DEF SharedInv
  <2>2. CASE dirty[w] /\ db'.processed = tx[w].processed
    <3>1. db'.processed = db.processed \cup {work[w].cur} /\ work[w].pc # "idle"
      BY <2>2 DEF SharedInv, PendingExtends
    <3>2. work[w].cur \in Submitted
      BY <1>0, <3>1 DEF SharedInv, TypeInv, OfSubmitted, TypeOK
    <3> QED
      BY <2>2, <3>1, <3>2 DEF SharedInv
  <2> QED
    BY <2>1, <2>2
<1>4. OneWriter'
  BY <1>1 DEF SharedInv, OneWriter
<1>5. PendingExtends'
  BY <1>1, <1>2, <1>3 DEF SharedInv, PendingExtends
<1>6. PastBooking'
  BY <1>1, <1>2, <1>3 DEF SharedInv, PastBooking
<1>7. CreditsMatch(db)'
  BY DEF SharedInv, PendingExtends, CreditsMatch
<1>8. XpHasBooking' /\ (db.processed \subseteq Submitted)'
  BY <1>3 DEF SharedInv, XpHasBooking, Submitted
<1>9. AckSafe'
  BY <1>1, <1>3 DEF SharedInv, AckSafe, AckedIsBooked
<1> QED
  BY <1>4, <1>5, <1>6, <1>7, <1>8, <1>9 DEF SharedInv
LEMMA SharedProcess ==
    ASSUME SharedInv, TypeInv', NEW w \in Worker, Process(w)
    PROVE  SharedInv'
<1> USE Workers
<1>0. /\ TypeInv /\ TypeOK /\ TypeOK' /\ Moves(w)
      /\ db \in Rows /\ tx[w] \in Rows /\ work[w] \in Work
      /\ work[w].pc # "idle" => work[w].cur \in Session
  BY WorkerMoves DEF SharedInv, TypeInv, TypeOK, Work
<1>a. UNCHANGED quizVars /\ Submitted' = Submitted
  BY DEF Process, Check, ReadMastery, WriteMastery, ListMastery, Book, StreakXp,
         Commit, Submitted, quizVars
<1>b. \A v \in Worker : dirty[v] => work[v].pc \in DirtyStages
  BY DEF SharedInv, PendingExtends, DirtyStages
<1>1. CASE Check(w)
  <2>1. PICK stage \in {"read", "fan", "commit"} :
          /\ Goto(w, stage)
          /\ stage = "fan" => w = "live"
          /\ stage # "read" => work[w].cur \in db.processed
    BY <1>1 DEF Check
  <2>2. Moved(work, work', w, stage)
    BY <1>0, <2>1, StageAfter DEF Stage
  <2>3. PastBooking' /\ UNCHANGED <<db, xp, acked, tx, dirty>>
    BY <1>1, <2>1, <2>2 DEF Check, Moved, SharedInv, PastBooking, busVars
  <2> QED
    BY <1>1, <1>a, <1>b, <2>1, <2>2, <2>3, QuietStep
       DEF Check, Moved, SharedInv, AckSafe, DirtyStages
<1>2. CASE ReadMastery(w) \/ WriteMastery(w) \/ ListMastery(w)
  <2>1. PICK stage \in {"write", "list", "book"} : Moved(work, work', w, stage)
    BY <1>0, <1>2, StageAfter
  <2>2. /\ UNCHANGED <<db, xp, acked, tx, dirty>>
        /\ work[w].pc \in {"read", "write", "list"}
    BY <1>2 DEF ReadMastery, WriteMastery, ListMastery, busVars
  <2>3. PastBooking'
    BY <2>1, <2>2 DEF Moved, SharedInv, PastBooking
  <2> QED
    BY <1>a, <1>b, <2>1, <2>2, <2>3, QuietStep
       DEF Moved, SharedInv, AckSafe, DirtyStages
<1>3. CASE Book(w)
  <2> DEFINE s == work[w].cur
             d == IF w = "live" THEN today ELSE quiz[s].day
             new == Booked(db, s, d, work[w].row, work[w].list)
  <2>1. s \in Session /\ d \in Day
    BY <1>0, <1>3 DEF Book, TypeInv, OfSubmitted, TypeOK
  <2>2. CreditsMatch(new) /\ new.processed = db.processed \cup {s}
    BY <1>0, <2>1, BookedCredits DEF Work, SharedInv
  <2>3. Moved(work, work', w, "booked")
    BY <1>0, <1>3, StageAfter DEF Book, Stage
  <2>4. /\ tx'[w] = new /\ dirty'[w] /\ UNCHANGED <<db, xp, acked>>
        /\ \A v \in Worker \ {w} : tx'[v] = tx[v] /\ dirty'[v] = dirty[v]
    BY <1>0, <1>3 DEF Book, TypeOK, busVars
  <2>5. \A v \in Worker \ {w} : ~dirty'[v]
    BY <1>3, <2>4 DEF Book, Others, HoldsUser
  <2> HIDE DEF new
  <2>6. OneWriter'
    BY <2>5 DEF OneWriter
  <2>7. PendingExtends'
    BY <2>2, <2>3, <2>4, <2>5 DEF PendingExtends, Moved, CreditsMatch
  <2>8. PastBooking'
    BY <2>3, <2>4 DEF SharedInv, PastBooking, Moved
  <2>9. CreditsMatch(db)' /\ (db.processed \subseteq Submitted)' /\ XpHasBooking'
    BY <1>a, <2>4 DEF SharedInv, CreditsMatch, XpHasBooking
  <2>10. AckSafe'
    BY <2>3, <2>4 DEF SharedInv, AckSafe, AckedIsBooked, Moved
  <2> QED
    BY <2>6, <2>7, <2>8, <2>9, <2>10 DEF SharedInv
<1>4. CASE StreakXp(w)
  <2>1. dirty[w] /\ tx[w].processed = db.processed \cup {work[w].cur}
    BY <1>4 DEF StreakXp, SharedInv, PastBooking, PendingExtends
  <2>2. PICK stage \in {"fan", "commit"} : Goto(w, stage) /\ (stage = "fan" => w = "live")
    BY <1>4 DEF StreakXp
  <2>3. Moved(work, work', w, stage)
    BY <1>0, <2>2, StageAfter DEF Stage
  <2>4. UNCHANGED <<xp, acked, quiz>>
    BY <1>4 DEF StreakXp, busVars, quizVars
  <2>5. CASE Ticked(db.streak, tx[w].streak)
    <3>1. db'.processed = tx[w].processed /\ db'.credit = tx[w].credit /\ Close(w)
      BY <1>0, <1>4, <2>5, TickTypes DEF StreakXp
    <3>2. work[w].cur \in db'.processed /\ \A s \in Session : xp'[s] > 0 => xp[s] > 0
      BY <2>1, <2>4, <3>1
    <3> QED
      BY <1>0, <2>1, <2>2, <2>3, <2>4, <3>1, <3>2, EndStep DEF Moved
  <2>6. CASE ~Ticked(db.streak, tx[w].streak)
    <3>1. UNCHANGED <<db, tx, dirty>>
      BY <1>4, <2>6 DEF StreakXp
    <3>2. PastBooking'
      BY <2>1, <2>2, <2>3, <3>1 DEF SharedInv, PastBooking, Moved
    <3> QED
      BY <1>a, <1>b, <2>2, <2>3, <2>4, <3>1, <3>2, QuietStep
         DEF Moved, SharedInv, AckSafe, DirtyStages
  <2> QED
    BY <2>5, <2>6
<1>5. CASE Commit(w)
  <2>1. /\ Close(w) /\ UNCHANGED <<xp, acked, quiz>>
        /\ \/ db' = db
           \/ dirty[w] /\ db'.processed = tx[w].processed /\ db'.credit = tx[w].credit
    BY <1>5 DEF Commit, busVars, quizVars
  <2>2. \/ w = "live" /\ Moved(work, work', w, "ack")
        \/ work' = [work EXCEPT ![w] = Idle]
    BY <1>0, <1>5, StageAfter DEF Commit, Stage
  <2>3. work'[w].pc \in {"idle", "ack"} /\ \A s \in Session : xp'[s] > 0 => xp[s] > 0
    BY <1>0, <2>1, <2>2 DEF Moved, TypeOK, Idle
  <2>4. "statement" \notin Faults => (work'[w].pc = "ack" => work'[w].cur \in db'.processed)
    <3>1. ASSUME "statement" \notin Faults PROVE work[w].cur \in db'.processed
      BY <1>5, <3>1 DEF Commit, SharedInv, AckSafe, PastBooking, PendingExtends
    <3>2. work'[w].pc = "ack" => work'[w].cur = work[w].cur
      BY <1>0, <2>2 DEF Moved, TypeOK, Idle
    <3> QED
      BY <3>1, <3>2
  <2> QED
    BY <1>0, <2>1, <2>3, <2>4, EndStep
<1> QED
  BY <1>1, <1>2, <1>3, <1>4, <1>5 DEF Process

LEMMA SharedOther ==
    ASSUME SharedInv, TypeInv', [Next]_vars, \A w \in Worker : ~Process(w)
    PROVE  SharedInv'
<1> USE Workers
<1>0. /\ TypeInv /\ TypeOK /\ TypeOK'
      /\ \A v \in Worker : dirty[v] => work[v].pc \in DirtyStages
  BY DEF SharedInv, TypeInv, PendingExtends, DirtyStages
<1>1. ASSUME NEW s \in Session, Submit(s) PROVE SharedInv'
  <2>1. Submitted \subseteq Submitted'
    BY <1>0, <1>1 DEF Submit, Submitted, TypeOK
  <2> QED
    BY <1>1, <2>1, SameWork DEF Submit, busVars, workVars
<1>2. ASSUME UNCHANGED quizVars PROVE Submitted' = Submitted
  BY <1>2 DEF Submitted, quizVars
<1>3. CASE (\E s \in Session : Deliver(s)) \/ NextDay \/ StartScan \/ UNCHANGED vars
  BY <1>2, <1>3, SameWork
     DEF Deliver, NextDay, StartScan, vars, quizVars, busVars, workVars
<1>4. ASSUME NEW w \in Worker, NEW s \in Session, work[w].pc = "idle",
             work' = [work EXCEPT ![w] = [Idle EXCEPT !.pc = "check", !.cur = s]],
             UNCHANGED <<quizVars, db, xp, acked, tx, dirty>>
      PROVE  SharedInv'
  <2>1. work'[w].pc = "check" /\ \A v \in Worker \ {w} : work'[v] = work[v]
    BY <1>0, <1>4 DEF TypeOK, Idle
  <2>2. PastBooking'
    BY <1>4, <2>1 DEF SharedInv, PastBooking
  <2> QED
    BY <1>0, <1>2, <1>4, <2>1, <2>2, QuietStep DEF SharedInv, AckSafe, DirtyStages
<1>5. ASSUME Take PROVE SharedInv'
  <2>1. Head(inbox) \in Session
    BY <1>0, <1>5 DEF Take, TypeOK
  <2> QED
    BY <1>4, <1>5, <2>1 DEF Take
<1>6. ASSUME Visit PROVE SharedInv'
  <2>1. PICK s \in todo :
          work' = [work EXCEPT !["backfill"] = [Idle EXCEPT !.pc = "check", !.cur = s]]
    BY <1>6 DEF Visit
  <2> QED
    BY <1>0, <1>4, <1>6, <2>1 DEF Visit, TypeOK, busVars
<1>7. ASSUME Fan PROVE SharedInv'
  <2>1. PICK stage \in {"award", "commit"} : Goto("live", stage)
    BY <1>7 DEF Fan
  <2>2. Moved(work, work', "live", stage)
    BY <1>0, <2>1, StageAfter DEF Stage
  <2>3. PastBooking'
    BY <1>7, <2>1, <2>2 DEF Fan, Moved, SharedInv, PastBooking
  <2> QED
    BY <1>0, <1>2, <1>7, <2>1, <2>2, <2>3, QuietStep
       DEF Fan, Moved, SharedInv, AckSafe, DirtyStages, busVars
<1>8. ASSUME AwardXp PROVE SharedInv'
  <2> DEFINE s == work["live"].cur
  <2>1. Moved(work, work', "live", "commit")
    BY <1>0, <1>8, StageAfter DEF AwardXp, Stage
  <2>2. /\ Close("live") /\ UNCHANGED <<acked, quiz>>
        /\ db' = IF dirty["live"] THEN tx["live"] ELSE db
    BY <1>8 DEF AwardXp, busVars, quizVars
  <2>3. s \in db'.processed
    BY <1>8, <2>2 DEF AwardXp, SharedInv, PastBooking, PendingExtends
  <2>4. \A r \in Session : xp'[r] > 0 => xp[r] > 0 \/ r \in db'.processed
    BY <1>0, <1>8, <2>3 DEF AwardXp, TypeOK
  <2>5. Moves("live")
    BY <1>0, <1>8, WorkerMoves
  <2> QED
    BY <2>1, <2>2, <2>3, <2>4, <2>5, EndStep DEF Moved
<1>9. ASSUME Ack PROVE SharedInv'
  <2>1. work'["live"].pc = "idle" /\ \A v \in Worker \ {"live"} : work'[v] = work[v]
    BY <1>0, <1>9 DEF Ack, TypeOK, Idle
  <2>2. UNCHANGED <<quizVars, db, xp, tx, dirty>> /\ ~dirty["live"]
    BY <1>0, <1>9 DEF Ack, DirtyStages
  <2>3. OneWriter' /\ CreditsMatch(db)' /\ XpHasBooking' /\ (db.processed \subseteq Submitted)'
    BY <1>2, <2>2 DEF SharedInv, OneWriter, CreditsMatch, XpHasBooking
  <2>4. PendingExtends'
    BY <2>1, <2>2 DEF SharedInv, PendingExtends, CreditsMatch
  <2>5. PastBooking'
    BY <2>1, <2>2 DEF SharedInv, PastBooking
  <2>6. AckSafe'
    BY <1>9, <2>1, <2>2 DEF Ack, SharedInv, AckSafe, AckedIsBooked
  <2> QED
    BY <2>3, <2>4, <2>5, <2>6 DEF SharedInv
<1>10. ASSUME NEW w \in Worker, Abort(w) \/ Crash(w) PROVE SharedInv'
  <2>1. /\ Close(w) /\ work' = [work EXCEPT ![w] = Idle]
        /\ UNCHANGED <<acked, quiz, db, xp>>
    BY <1>10 DEF Abort, Crash, busVars, quizVars
  <2>2. work'[w].pc = "idle" /\ Moves(w)
    BY <1>0, <2>1 DEF TypeOK, Idle, Moves
  <2> QED
    BY <2>1, <2>2, EndStep
<1>11. ASSUME NEW w \in Worker, Poison(w) PROVE SharedInv'
  <2>1. Moved(work, work', w, "doomed")
    BY <1>0, <1>11, StageAfter DEF Poison, Stage
  <2>2. PastBooking'
    BY <1>11, <2>1 DEF Poison, Moved, SharedInv, PastBooking
  <2> QED
    BY <1>0, <1>2, <1>11, <2>1, <2>2, QuietStep
       DEF Poison, Fault, Moved, SharedInv, DirtyStages, busVars
<1> QED
  BY <1>1, <1>3, <1>5, <1>6, <1>7, <1>8, <1>9, <1>10, <1>11 DEF Next, Consume

LEMMA SharedInit == Init => SharedInv
<1> SUFFICES ASSUME Init PROVE SharedInv
  OBVIOUS
<1>1. TypeInv
  BY TypeInit DEF TypeInv, OfSubmitted, Init, Submitted, Idle
<1>2. db.processed = {} /\ \A s \in Session, d \in Day : ~(db.credit[s][d] > 0)
  BY DEF Init, Blank
<1>3. \A w \in Worker : ~dirty[w] /\ work[w].pc = "idle"
  BY DEF Init, Idle
<1>4. XpHasBooking
  <2>1. ASSUME NEW s \in Session, xp[s] > 0 PROVE FALSE
    <3>1. xp[s] = 0
      BY DEF Init
    <3> QED
      BY <2>1, <3>1
  <2> QED
    BY <2>1 DEF XpHasBooking
<1>5. acked = {}
  BY DEF Init
<1> QED
  BY <1>1, <1>2, <1>3, <1>4, <1>5, Workers
     DEF SharedInv, OneWriter, PendingExtends, PastBooking, CreditsMatch,
         AckSafe, AckedIsBooked

LEMMA SharedStep == SharedInv /\ [Next]_vars => SharedInv'
BY NextTypes, SharedProcess, SharedOther DEF SharedInv

\* The inductive invariant, whoever runs and whatever fails: one transaction at
\* a time has written the user's rows, and it extends the committed ones.
THEOREM SharedInvariant == Spec => []SharedInv
BY SharedInit, SharedStep, PTL DEF Spec

\* award_xp commits in the middle of the callback, and still never commits the
\* XP of a session without the session.
THEOREM XpNeverAlone == Spec => []XpHasBooking
<1>1. SharedInv => XpHasBooking
  BY DEF SharedInv
<1> QED
  BY <1>1, SharedInvariant, PTL

\* A session is in processed_sessions exactly when a day was credited for it.
THEOREM BookedMeansCredited == Spec => []BookedIsCredited
<1>1. SharedInv => BookedIsCredited
  BY DEF SharedInv, CreditsMatch, BookedIsCredited
<1> QED
  BY <1>1, SharedInvariant, PTL

\* When no best-effort statement fails, the bus forgets a message only once the
\* rows have its session.
THEOREM NothingAckedIsLost ==
    ASSUME "statement" \notin Faults
    PROVE  Spec => []AckedIsBooked
<1>1. SharedInv => AckedIsBooked
  BY DEF SharedInv, AckSafe
<1> QED
  BY <1>1, SharedInvariant, PTL

-----------------------------------------------------------------------------
(* What the consumer alone keeps (Backfill = FALSE): nothing it reads in a *)
(* transaction changes before it commits, so it books each session exactly *)
(* once and implements SessionLedger.                                      *)

\* Rows u are rows r with session s booked on day d.
NextEntry(r, u, s, d) ==
    /\ u.processed = r.processed \cup {s}
    /\ u.mastery = [r.mastery EXCEPT ![TopicOf[s]][s] = 1]
    /\ u.readiness = u.mastery
    /\ u.credit = [r.credit EXCEPT ![s][d] = 1]

LEMMA EntryTally ==
    ASSUME NEW r \in Rows, NEW u \in Rows, NEW s \in Session, NEW d \in Day,
           Tally(r), s \notin r.processed, NextEntry(r, u, s, d)
    PROVE  Tally(u)
<1>0. \A q \in Session : TopicOf[q] \in Topic
  BY PipelineAssumption
<1>1. \A q \in Session :
        u.mastery[TopicOf[q]][q] = IF q = s THEN 1 ELSE r.mastery[TopicOf[q]][q]
  <2>1. r.mastery \in [Topic -> [Session -> Nat]]
    BY DEF Rows, Row
  <2>2. u.mastery = [r.mastery EXCEPT ![TopicOf[s]] = [r.mastery[TopicOf[s]] EXCEPT ![s] = 1]]
    BY DEF NextEntry
  <2>3. \A t \in Topic :
          u.mastery[t] = IF t = TopicOf[s] THEN [r.mastery[t] EXCEPT ![s] = 1]
                                           ELSE r.mastery[t]
    BY <2>1, <2>2
  <2>4. ASSUME NEW q \in Session
        PROVE  u.mastery[TopicOf[q]][q] = IF q = s THEN 1 ELSE r.mastery[TopicOf[q]][q]
    <3>1. r.mastery[TopicOf[q]] \in [Session -> Nat]
      BY <1>0, <2>1
    <3> QED
      BY <1>0, <2>3, <3>1
  <2> QED
    BY <2>4
<1>2. /\ \A q \in Session : q # s => u.credit[q] = r.credit[q]
      /\ u.credit[s] = [r.credit[s] EXCEPT ![d] = 1]
  BY DEF NextEntry, Rows
<1>3. u.credit[s] = [e \in Day |-> IF e = d THEN 1 ELSE 0]
  <2>1. r.credit[s] \in [Day -> Nat] /\ \A e \in Day : r.credit[s][e] = 0
    BY DEF Rows, Tally
  <2> QED
    BY <1>2, <2>1
<1>4. ASSUME NEW q \in Session, q \in u.processed
      PROVE  /\ u.mastery[TopicOf[q]][q] = 1
             /\ \E b \in Day : u.credit[q] = [e \in Day |-> IF e = b THEN 1 ELSE 0]
  <2>1. CASE q = s
    BY <1>1, <1>3, <2>1
  <2>2. CASE q # s
    <3>1. q \in r.processed /\ u.credit[q] = r.credit[q]
      BY <1>2, <1>4, <2>2 DEF NextEntry
    <3>2. \E b \in Day : r.credit[q] = [e \in Day |-> IF e = b THEN 1 ELSE 0]
      BY <3>1 DEF Tally
    <3>3. u.mastery[TopicOf[q]][q] = 1
      BY <1>1, <2>2, <3>1 DEF Tally
    <3> QED
      BY <3>1, <3>2, <3>3
  <2> QED
    BY <2>1, <2>2
<1>5. ASSUME NEW q \in Session, q \notin u.processed
      PROVE  /\ u.mastery[TopicOf[q]][q] = 0
             /\ \A b \in Day : u.credit[q][b] = 0
  BY <1>1, <1>2, <1>5 DEF Tally, NextEntry
<1> QED
  BY <1>4, <1>5 DEF Tally, NextEntry

\* What is dirty is the next entry of the ledger.
LEMMA PendingEntry ==
    ASSUME LedgerInv, dirty["live"]
    PROVE  /\ work["live"].cur \in Submitted \ db.processed
           /\ work["live"].cur \in Session
           /\ \E d \in Day : NextEntry(db, tx["live"], work["live"].cur, d)
<1>1. "live" \in Worker
  BY Workers
<1>2. work["live"].cur \in Submitted
  BY <1>1 DEF LedgerInv, SharedInv, TypeInv, TypeOK, OfSubmitted, PendingExtends
<1> QED
  BY <1>1, <1>2
     DEF LedgerInv, SharedInv, PendingExtends, PendingIsNext, NextEntry, Submitted

\* Computing and booking a session from the rows as they are is its entry.
LEMMA BookedEntry ==
    ASSUME NEW r \in Rows, NEW s \in Session, NEW d \in Day, Tally(r),
           s \notin r.processed,
           NEW row, row = [r.mastery[TopicOf[s]] EXCEPT ![s] = @ + 1],
           NEW list, list = [r.mastery EXCEPT ![TopicOf[s]] = row]
    PROVE  NextEntry(r, Booked(r, s, d, row, list), s, d)
<1>0. TopicOf[s] \in Topic /\ r.mastery \in [Topic -> Row] /\ r.mastery[TopicOf[s]] \in Row
  BY PipelineAssumption DEF Rows
<1>1. r.mastery[TopicOf[s]][s] = 0 /\ r.credit[s][d] = 0
  BY DEF Tally
<1>2. row = [r.mastery[TopicOf[s]] EXCEPT ![s] = 1]
  BY <1>0, <1>1 DEF Row
<1>3. list = [r.mastery EXCEPT ![TopicOf[s]][s] = 1]
  BY <1>0, <1>2
<1>4. [r.credit EXCEPT ![s][d] = @ + 1] = [r.credit EXCEPT ![s][d] = 1]
  BY <1>1 DEF Rows
<1> QED
  BY <1>3, <1>4 DEF NextEntry, Booked

Reading == {"read", "write", "list", "book"}

\* A step that touches no row.
LEMMA RowsKept ==
    ASSUME LedgerInv, SharedInv', UNCHANGED <<db, tx, dirty>>, ReadsHold',
           dirty["live"] => work'["live"].cur = work["live"].cur
    PROVE  LedgerInv'
<1>1. PendingIsNext'
  BY DEF LedgerInv, PendingIsNext
<1>2. Tally(db)'
  BY DEF LedgerInv, Tally
<1> QED
  BY <1>1, <1>2 DEF LedgerInv

\* The consumer's transaction ends, with its rows committed or not.
LEMMA RowsSettled ==
    ASSUME LedgerInv, SharedInv', Close("live"),
           \/ db' = db
           \/ /\ dirty["live"]
              /\ db'.processed = tx["live"].processed
              /\ db'.mastery = tx["live"].mastery
              /\ db'.readiness = tx["live"].readiness
              /\ db'.credit = tx["live"].credit,
           work'["live"].pc \notin Reading
    PROVE  LedgerInv'
<1>0. /\ "live" \in Worker /\ db \in Rows /\ db' \in Rows
      /\ dirty \in [Worker -> BOOLEAN]
  BY Workers DEF LedgerInv, SharedInv, TypeInv, TypeOK
<1>1. ~dirty'["live"]
  BY <1>0 DEF Close
<1>2. Tally(db)'
  <2>1. CASE db' = db
    BY <2>1 DEF LedgerInv, Tally
  <2>2. CASE db' # db
    <3> DEFINE s == work["live"].cur
    <3>1. PICK d \in Day : NextEntry(db, tx["live"], s, d)
      BY <2>2, PendingEntry
    <3>2. s \in Session /\ s \notin db.processed
      BY <2>2, PendingEntry
    <3>3. NextEntry(db, db', s, d)
      BY <2>2, <3>1 DEF NextEntry
    <3>4. Tally(db)
      BY DEF LedgerInv
    <3> HIDE DEF s
    <3>5. Tally(db')
      BY <1>0, <3>2, <3>3, <3>4, EntryTally
    <3> QED
      BY <3>5 DEF Tally
  <2> QED
    BY <2>1, <2>2
<1>3. ReadsHold' /\ PendingIsNext'
  BY <1>1 DEF ReadsHold, PendingIsNext, Reading
<1> QED
  BY <1>2, <1>3 DEF LedgerInv

LEMMA ProcessKeeps ==
    ASSUME LedgerInv, SharedInv', Process("live")
    PROVE  LedgerInv'
<1> DEFINE k == work["live"]
<1>0. /\ "live" \in Worker /\ db \in Rows /\ tx["live"] \in Rows
      /\ k \in Work /\ work \in [Worker -> Work]
      /\ k.pc # "idle" => k.cur \in Session /\ TopicOf[k.cur] \in Topic
      /\ dirty["live"] => k.pc \notin Reading \cup {"check"}
  BY Workers, PipelineAssumption
     DEF LedgerInv, SharedInv, TypeInv, TypeOK, Work, PendingExtends, Reading
<1>1. CASE Check("live")
  <2>1. /\ UNCHANGED <<db, tx, dirty>> /\ work'["live"].cur = k.cur
        /\ work'["live"].pc \notin {"write", "list", "book"}
        /\ work'["live"].pc = "read" => k.cur \notin db.processed
    BY <1>0, <1>1 DEF Check, Goto, Work
  <2>2. ReadsHold'
    BY <2>1 DEF ReadsHold
  <2> QED
    BY <2>1, <2>2, RowsKept
<1>2. CASE ReadMastery("live")
  <2>1. /\ UNCHANGED <<db, tx, dirty>> /\ work'["live"].cur = k.cur
        /\ work'["live"].pc = "write" /\ k.pc = "read"
        /\ work'["live"].row = db.mastery[TopicOf[k.cur]]
    BY <1>0, <1>2 DEF ReadMastery, Work
  <2>2. ReadsHold'
    BY <2>1 DEF LedgerInv, ReadsHold
  <2> QED
    BY <2>1, <2>2, RowsKept
<1>3. CASE WriteMastery("live")
  <2>1. /\ UNCHANGED <<db, tx, dirty>> /\ work'["live"].cur = k.cur
        /\ work'["live"].pc = "list" /\ k.pc = "write"
        /\ work'["live"].row = [k.row EXCEPT ![k.cur] = @ + 1]
    BY <1>0, <1>3 DEF WriteMastery, Work
  <2>2. ReadsHold'
    BY <2>1 DEF LedgerInv, ReadsHold
  <2> QED
    BY <2>1, <2>2, RowsKept
<1>4. CASE ListMastery("live")
  <2>1. /\ UNCHANGED <<db, tx, dirty>> /\ work'["live"].cur = k.cur
        /\ work'["live"].pc = "book" /\ k.pc = "list"
        /\ work'["live"].row = k.row
        /\ work'["live"].list = [db.mastery EXCEPT ![TopicOf[k.cur]] = k.row]
    BY <1>0, <1>4 DEF ListMastery, Work
  <2>2. ReadsHold'
    BY <2>1 DEF LedgerInv, ReadsHold
  <2> QED
    BY <2>1, <2>2, RowsKept
<1>5. CASE Book("live")
  <2>1. /\ db' = db /\ work'["live"].cur = k.cur /\ work'["live"].pc = "booked"
        /\ k.pc = "book" /\ today \in Day /\ k.cur \in Session
        /\ tx'["live"] = Booked(db, k.cur, today, k.row, k.list)
    BY <1>0, <1>5 DEF Book, Goto, Work, LedgerInv, SharedInv, TypeInv, TypeOK
  <2>2. /\ k.cur \notin db.processed
        /\ k.row = [db.mastery[TopicOf[k.cur]] EXCEPT ![k.cur] = @ + 1]
        /\ k.list = [db.mastery EXCEPT ![TopicOf[k.cur]] = k.row]
    BY <2>1 DEF LedgerInv, ReadsHold
  <2>3. Tally(db)
    BY DEF LedgerInv
  <2> HIDE DEF k
  <2>4. NextEntry(db, tx'["live"], k.cur, today)
    BY <1>0, <2>1, <2>2, <2>3, BookedEntry
  <2>5. PendingIsNext'
    <3>1. /\ tx'["live"].mastery = [db'.mastery EXCEPT ![TopicOf[k.cur]][k.cur] = 1]
          /\ tx'["live"].readiness = tx'["live"].mastery
          /\ tx'["live"].credit = [db'.credit EXCEPT ![k.cur][today] = 1]
      BY <2>1, <2>4 DEF NextEntry
    <3>2. k.cur \notin db'.processed
      BY <2>1, <2>2
    <3>3. /\ tx'["live"].mastery = [db'.mastery EXCEPT ![TopicOf[work'["live"].cur]][work'["live"].cur] = 1]
          /\ \E d \in Day : tx'["live"].credit = [db'.credit EXCEPT ![work'["live"].cur][d] = 1]
      BY <2>1, <3>1
    <3> QED
      BY <2>1, <3>1, <3>2, <3>3 DEF PendingIsNext
  <2>6. ReadsHold' /\ Tally(db)'
    BY <2>1, <2>3 DEF ReadsHold, Tally
  <2> QED
    BY <2>5, <2>6 DEF LedgerInv
<1>6. CASE StreakXp("live")
  <2>1. work'["live"].pc = "fan" /\ work'["live"].cur = k.cur
    BY <1>0, <1>6 DEF StreakXp, Goto, Work
  <2>2. CASE Ticked(db.streak, tx["live"].streak)
    <3>1. dirty["live"]
      BY <1>0, <1>6 DEF StreakXp, LedgerInv, SharedInv, PastBooking
    <3>2. Close("live") /\ db' = [tx["live"] EXCEPT !.ticks = @ + 1]
      BY <1>6, <2>2 DEF StreakXp
    <3>3. /\ db'.processed = tx["live"].processed /\ db'.mastery = tx["live"].mastery
          /\ db'.readiness = tx["live"].readiness /\ db'.credit = tx["live"].credit
      BY <1>0, <3>2, TickTypes
    <3> QED
      BY <2>1, <3>1, <3>2, <3>3, RowsSettled DEF Reading
  <2>3. CASE ~Ticked(db.streak, tx["live"].streak)
    <3>1. UNCHANGED <<db, tx, dirty>>
      BY <1>6, <2>3 DEF StreakXp
    <3>2. ReadsHold'
      BY <2>1 DEF ReadsHold
    <3> QED
      BY <2>1, <3>1, <3>2, RowsKept
  <2> QED
    BY <2>2, <2>3
<1>7. CASE Commit("live")
  <2>1. work'["live"].pc = "ack"
    BY <1>0, <1>7 DEF Commit, Goto, Work
  <2>2. Close("live") /\ (db' = db \/ (dirty["live"] /\ db' = tx["live"]))
    BY <1>7 DEF Commit
  <2> QED
    BY <2>1, <2>2, RowsSettled DEF Reading
<1> QED
  BY <1>1, <1>2, <1>3, <1>4, <1>5, <1>6, <1>7 DEF Process

LEMMA OthersKeep ==
    ASSUME Backfill = FALSE, LedgerInv, SharedInv', [Next]_vars, ~Process("live")
    PROVE  LedgerInv'
<1> DEFINE k == work["live"]
<1>0. /\ Worker = {"live"} /\ k \in Work /\ work \in [Worker -> Work]
      /\ dirty["live"] => k.pc \in {"booked", "fan", "award", "commit", "doomed"}
      /\ dirty["live"] \in BOOLEAN
  BY DEF Worker, LedgerInv, SharedInv, TypeInv, TypeOK, PendingExtends
<1>1. CASE UNCHANGED <<db, work, tx, dirty>>
  <2>1. ReadsHold'
    BY <1>1 DEF LedgerInv, ReadsHold
  <2> QED
    BY <1>1, <2>1, RowsKept
<1>2. CASE Take \/ Ack
  <2>1. UNCHANGED <<db, tx, dirty>> /\ ~dirty["live"] /\ work'["live"].pc \in {"check", "idle"}
    <3>1. CASE Take
      BY <1>0, <3>1 DEF Take, Idle
    <3>2. CASE Ack
      BY <1>0, <3>2 DEF Ack, Idle
    <3> QED
      BY <1>2, <3>1, <3>2
  <2>2. ReadsHold'
    BY <2>1 DEF ReadsHold
  <2> QED
    BY <2>1, <2>2, RowsKept
<1>3. CASE Fan \/ Poison("live")
  <2>1. /\ UNCHANGED <<db, tx, dirty>> /\ work'["live"].cur = k.cur
        /\ work'["live"].pc \in {"award", "commit", "doomed"}
    BY <1>0, <1>3 DEF Fan, Poison, Goto, Work
  <2>2. ReadsHold'
    BY <2>1 DEF ReadsHold
  <2> QED
    BY <2>1, <2>2, RowsKept
<1>4. CASE AwardXp \/ Abort("live") \/ Crash("live")
  <2>1. Close("live") /\ (db' = db \/ (dirty["live"] /\ db' = tx["live"]))
    <3>1. CASE AwardXp
      BY <3>1 DEF AwardXp
    <3>2. CASE Abort("live")
      BY <3>2 DEF Abort
    <3>3. CASE Crash("live")
      BY <3>3 DEF Crash
    <3> QED
      BY <1>4, <3>1, <3>2, <3>3
  <2>2. work'["live"].pc \in {"commit", "idle"}
    BY <1>0, <1>4 DEF AwardXp, Abort, Crash, Goto, Idle, Work
  <2> QED
    BY <2>1, <2>2, RowsSettled DEF Reading
<1>5. CASE \/ \E s \in Session : Submit(s) \/ Deliver(s)
          \/ NextDay \/ StartScan \/ UNCHANGED vars
  BY <1>1, <1>5 DEF Submit, Deliver, NextDay, StartScan, vars, workVars
<1> QED
  BY <1>0, <1>2, <1>3, <1>4, <1>5 DEF Next, Consume, Visit

LEMMA LedgerInit == Init => LedgerInv
<1> SUFFICES ASSUME Init PROVE LedgerInv
  OBVIOUS
<1>0. SharedInv
  BY SharedInit
<1>1. Tally(db)
  BY PipelineAssumption DEF Init, Blank, NoRows, NoRow, Tally
<1>2. work["live"].pc = "idle" /\ ~dirty["live"]
  BY Workers DEF Init, Idle
<1> QED
  BY <1>0, <1>1, <1>2 DEF LedgerInv, ReadsHold, PendingIsNext

LEMMA LedgerStep ==
    ASSUME Backfill = FALSE
    PROVE  LedgerInv /\ [Next]_vars => LedgerInv'
<1>1. LedgerInv => SharedInv
  BY DEF LedgerInv
<1> QED
  BY <1>1, SharedStep, ProcessKeeps, OthersKeep

\* The inductive invariant of the consumer: the rows tally, and what it holds
\* in a transaction is computed from the rows as they still are.
THEOREM LedgerInvariant ==
    ASSUME Backfill = FALSE
    PROVE  Spec => []LedgerInv
<1>1. LedgerInv /\ [Next]_vars => LedgerInv'
  BY LedgerStep
<1> QED
  BY <1>1, LedgerInit, PTL DEF Spec

\* However its event is redelivered, refused or cut off by a crash, a session
\* enters the average of its topic once and one day's counters once.
THEOREM CountsOnce ==
    ASSUME Backfill = FALSE
    PROVE  Spec => []CountedOnce
<1>1. LedgerInv => CountedOnce
  BY DEF LedgerInv, Tally, CountedOnce
<1>2. Spec => []LedgerInv
  BY LedgerInvariant
<1> QED
  BY <1>1, <1>2, PTL

\* The readiness row is always the mean of the mastery rows as they are.
THEOREM ReadinessIsFresh ==
    ASSUME Backfill = FALSE
    PROVE  Spec => []ReadinessFresh
<1>1. LedgerInv => ReadinessFresh
  BY DEF LedgerInv, Tally, ReadinessFresh
<1>2. Spec => []LedgerInv
  BY LedgerInvariant
<1> QED
  BY <1>1, <1>2, PTL

LEMMA EntryIsCount ==
    ASSUME NEW s \in Session, NEW d \in Day, s \in Submitted \ db.processed,
           NextEntry(db, db', s, d), Submitted' = Submitted
    PROVE  Ledger!Next
<1>1. d \in Ledger!Day
  BY DEF Day, Ledger!Day
<1>2. Ledger!Count(s, d)
  BY DEF NextEntry, Ledger!Count
<1> QED
  BY <1>1, <1>2 DEF Ledger!Next

LEMMA StepIsLedgers ==
    ASSUME Backfill = FALSE, LedgerInv, [Next]_vars
    PROVE  [Ledger!Next]_Ledger!vars
<1> DEFINE k == work["live"]
<1>0. Worker = {"live"} /\ tx["live"] \in Rows /\ TypeOK
  BY DEF Worker, LedgerInv, SharedInv, TypeInv, TypeOK
<1>1. CASE db' = db /\ UNCHANGED quiz
  <2>1. Submitted' = Submitted
    BY <1>1 DEF Submitted
  <2> QED
    BY <1>1, <2>1 DEF Ledger!vars
<1>2. ASSUME NEW s \in Session, Submit(s) PROVE Ledger!Next
  <2>1. s \notin Submitted /\ Submitted' = Submitted \cup {s}
    BY <1>0, <1>2 DEF Submit, Submitted, TypeOK, Shape
  <2>2. db' = db
    BY <1>2 DEF Submit
  <2>3. Ledger!Submit(s)
    BY <2>1, <2>2 DEF Ledger!Submit
  <2> QED
    BY <2>3 DEF Ledger!Next
<1>3. CASE db' # db
  <2>1. /\ UNCHANGED quiz /\ dirty["live"]
        /\ \/ db' = tx["live"]
           \/ db' = [tx["live"] EXCEPT !.ticks = @ + 1]
    BY <1>0, <1>3
       DEF Next, Submit, Deliver, Process, Check, ReadMastery, WriteMastery,
           ListMastery, Book, StreakXp, Commit, Abort, Poison, Crash, Consume, Take,
           Fan, AwardXp, Ack, StartScan, Visit, NextDay, vars, quizVars,
           LedgerInv, SharedInv, PastBooking
  <2>2. /\ db'.processed = tx["live"].processed /\ db'.mastery = tx["live"].mastery
        /\ db'.readiness = tx["live"].readiness /\ db'.credit = tx["live"].credit
    BY <1>0, <2>1, TickTypes
  <2>3. PICK d \in Day : NextEntry(db, tx["live"], k.cur, d)
    BY <2>1, PendingEntry
  <2>4. NextEntry(db, db', k.cur, d)
    BY <2>2, <2>3 DEF NextEntry
  <2>5. k.cur \in Session /\ k.cur \in Submitted \ db.processed
    BY <2>1, PendingEntry
  <2>6. Submitted' = Submitted
    BY <2>1 DEF Submitted
  <2>7. PICK s \in Session : s = k.cur
    BY <2>5
  <2> QED
    BY <2>4, <2>5, <2>6, <2>7, EntryIsCount
<1>4. CASE \E s \in Session : Submit(s)
  BY <1>2, <1>4
<1>5. CASE ~\E s \in Session : Submit(s)
  <2>1. UNCHANGED quiz
    BY <1>5
       DEF Next, Deliver, Process, Check, ReadMastery, WriteMastery,
           ListMastery, Book, StreakXp, Commit, Abort, Poison, Crash, Consume, Take,
           Fan, AwardXp, Ack, StartScan, Visit, NextDay, vars, quizVars
  <2> QED
    BY <1>1, <1>3, <2>1
<1> QED
  BY <1>4, <1>5

\* The consumer, with at-least-once delivery, a transaction of many statements
\* and crashes, implements the ledger that books a session in one step.
THEOREM ImplementsLedger ==
    ASSUME Backfill = FALSE
    PROVE  Spec => IsSessionLedger
<1>1. Init => Ledger!Init
  BY DEF Init, Submitted, Blank, NoRows, NoRow, Day,
         Ledger!Init, Ledger!NoRows, Ledger!Day
<1>2. LedgerInv /\ [Next]_vars => [Ledger!Next]_Ledger!vars
  BY StepIsLedgers
<1>3. Spec => []LedgerInv
  BY LedgerInvariant
<1> QED
  BY <1>1, <1>2, <1>3, PTL DEF Spec, IsSessionLedger, Ledger!Spec

-----------------------------------------------------------------------------
(* The streak arithmetic: a session credited to a day that is not before   *)
(* the last active one keeps the streak row the run of the activity days,  *)
(* and the consumer never credits an earlier day.                          *)

\* Rows u are rows r with a session credited to day d, the streak moved on.
NextActive(r, u, d) ==
    /\ \A e \in Day : Active(u, e) <=> e = d \/ Active(r, e)
    /\ u.streak = NextStreak(r.streak, d)

LEMMA BookedActive ==
    ASSUME NEW r \in Rows, NEW s \in Session, NEW d \in Day,
           NEW row \in Row, NEW list \in [Topic -> Row]
    PROVE  NextActive(r, Booked(r, s, d, row, list), d)
<1> DEFINE u == Booked(r, s, d, row, list)
<1>1. \A q \in Session, e \in Day :
        /\ r.credit[q][e] \in Nat
        /\ u.credit[q][e] = IF q = s /\ e = d THEN r.credit[q][e] + 1
                                              ELSE r.credit[q][e]
  BY DEF Rows, Booked
<1>2. u.streak = NextStreak(r.streak, d)
  BY DEF Booked
<1> HIDE DEF u
<1>3. \A q \in Session, e \in Day :
        u.credit[q][e] > 0 <=> (q = s /\ e = d) \/ r.credit[q][e] > 0
  BY <1>1
<1>4. \A e \in Day : Active(u, e) <=> e = d \/ Active(r, e)
  BY <1>3 DEF Active
<1> QED
  BY <1>2, <1>4 DEF NextActive, u

LEMMA StreakStep ==
    ASSUME NEW r \in Rows, NEW u \in Rows, NEW d \in Day, StreakOf(r),
           r.streak.last <= d, NextActive(r, u, d)
    PROVE  StreakOf(u) /\ u.streak.last = d
<1> DEFINE A(e) == Active(r, e)
           B(e) == Active(u, e)
           c == r.streak.current
           l == r.streak.last
           g == r.streak.longest
<1>0. /\ c \in Nat /\ l \in 0 .. MaxDay /\ g \in Nat /\ MaxDay \in Nat
      /\ Day = 1 .. MaxDay
  BY PipelineAssumption DEF Rows, Streak, Day
<1>1. /\ \A e \in Day : l < e => ~A(e)
      /\ c <= l
      /\ l > 0 => c > 0
      /\ \A e \in Day : l - c < e /\ e <= l => A(e)
      /\ l - c \in Day => ~A(l - c)
      /\ \A a, b \in Day : a <= b /\ (\A e \in a .. b : A(e)) => b - a < g
  BY DEF StreakOf
<1>2. \A e \in Day : B(e) <=> e = d \/ A(e)
  BY DEF NextActive
<1>3. u.streak = NextStreak(r.streak, d)
  BY DEF NextActive
<1> DEFINE c2 == u.streak.current
           g2 == u.streak.longest
<1>4. /\ c2 \in Nat /\ g2 \in Nat /\ u.streak.last = d
      /\ l = 0 \/ g <= g2
      /\ d = l => c2 = c /\ g2 = g
      /\ d = l + 1 => c2 = c + 1
      /\ d > l + 1 => c2 = 1
      /\ d # l => c2 <= g2
  <2>1. CASE l = 0
    <3>1. u.streak = [current |-> 1, longest |-> 1, last |-> d]
      BY <1>3, <2>1 DEF NextStreak
    <3> QED
      BY <1>0, <1>1, <2>1, <3>1
  <2>2. CASE l # 0 /\ d = l
    <3>1. u.streak = r.streak
      BY <1>3, <2>2 DEF NextStreak
    <3> QED
      BY <1>0, <2>2, <3>1
  <2>3. CASE l # 0 /\ d # l
    <3> DEFINE n == IF d = l + 1 THEN c + 1 ELSE 1
    <3>1. u.streak = [current |-> n, longest |-> IF g < n THEN n ELSE g, last |-> d]
      BY <1>3, <2>3 DEF NextStreak
    <3>2. n \in Nat /\ (d = l + 1 => n = c + 1) /\ (d > l + 1 => n = 1)
      BY <1>0
    <3> HIDE DEF n
    <3> QED
      BY <1>0, <2>3, <3>1, <3>2
  <2> QED
    BY <2>1, <2>2, <2>3
<1>5. d = l \/ d = l + 1 \/ d > l + 1
  BY <1>0
<1>6. d = l => A(d)
  BY <1>0, <1>1
<1> HIDE DEF A, B, c, l, g, c2, g2
<1>7. /\ \A e \in Day : d < e => ~B(e)
      /\ c2 <= d
      /\ d > 0 => c2 > 0
  BY <1>0, <1>1, <1>2, <1>4, <1>5
<1>8. \A e \in Day : d - c2 < e /\ e <= d => B(e)
  BY <1>0, <1>1, <1>2, <1>4, <1>5
<1>9. d - c2 \in Day => ~B(d - c2)
  BY <1>0, <1>1, <1>2, <1>4, <1>5
<1>10. ASSUME NEW a \in Day, NEW b \in Day, a <= b, \A e \in a .. b : B(e)
       PROVE  b - a < g2
  <2>0. a \in Nat /\ b \in Nat /\ a > 0 /\ b <= d /\ b \in a .. b
    BY <1>0, <1>7, <1>10
  <2>a. ASSUME NEW e \in a .. b PROVE e \in Day
    BY <1>0, <2>0
  <2>1. CASE d = l \/ b < d
    <3>1. \A e \in a .. b : A(e)
      BY <1>0, <1>2, <1>6, <1>10, <2>0, <2>1, <2>a
    <3>2. l # 0
      BY <1>0, <1>1, <2>0, <3>1
    <3>3. b - a < g
      BY <1>1, <1>10, <3>1
    <3> QED
      BY <1>0, <1>4, <2>0, <3>2, <3>3
  <2>2. CASE b = d /\ d = l + 1
    <3>1. ~(a <= l - c)
      <4> SUFFICES ASSUME a <= l - c PROVE FALSE
        OBVIOUS
      <4>1. l - c \in Day /\ l - c \in a .. b /\ l - c # d
        BY <1>0, <1>1, <2>0, <2>2
      <4> QED
        BY <1>1, <1>2, <1>10, <4>1
    <3> QED
      BY <1>0, <1>4, <2>0, <2>2, <3>1
  <2>3. CASE b = d /\ d > l + 1
    <3>1. a = d
      <4> SUFFICES ASSUME a # d PROVE FALSE
        OBVIOUS
      <4>1. d - 1 \in Day /\ d - 1 \in a .. b /\ l < d - 1
        BY <1>0, <2>0, <2>3
      <4> QED
        BY <1>0, <1>1, <1>2, <1>10, <4>1
    <3> QED
      BY <1>0, <1>4, <2>0, <2>3, <3>1
  <2> QED
    BY <1>0, <1>5, <2>0, <2>1, <2>2, <2>3
<1> QED
  BY <1>4, <1>7, <1>8, <1>9, <1>10 DEF StreakOf, A, B, c, l, g, c2, g2

\* What a set of rows must satisfy for the consumer to credit today to it.
Follows(r, day) == r.streak.last <= day /\ StreakOf(r)

LEMMA SameFollows ==
    ASSUME NEW r, NEW u, NEW day, Follows(r, day),
           u.streak = r.streak, u.credit = r.credit
    PROVE  Follows(u, day)
<1>1. \A e : Active(u, e) <=> Active(r, e)
  BY DEF Active
<1> QED
  BY <1>1 DEF Follows, StreakOf

LEMMA TodayStep ==
    ASSUME TypeOK, [Next]_vars
    PROVE  today \in Nat /\ today' \in Nat /\ today <= today'
<1>1. today \in Nat
  BY PipelineAssumption DEF TypeOK, Day
<1>2. today' = today \/ today' = today + 1
  BY DEF Next, Submit, Deliver, Process, Check, ReadMastery, WriteMastery,
         ListMastery, Book, StreakXp, Commit, Abort, Poison, Crash, Consume, Take,
         Fan, AwardXp, Ack, StartScan, Visit, NextDay, vars
<1> QED
  BY <1>1, <1>2

LEMMA FollowsStep ==
    ASSUME Backfill = FALSE, LedgerInv, StreakFollows, [Next]_vars
    PROVE  StreakFollows'
<1>0. /\ Worker = {"live"} /\ TypeOK /\ db \in Rows /\ tx["live"] \in Rows
      /\ tx \in [Worker -> Rows] /\ dirty \in [Worker -> BOOLEAN]
  BY DEF Worker, LedgerInv, SharedInv, TypeInv, TypeOK
<1>1. today \in Nat /\ today' \in Nat /\ today <= today'
  BY <1>0, TodayStep
<1>2. Follows(db, today) /\ (dirty["live"] => Follows(tx["live"], today))
  BY DEF StreakFollows, Follows
<1>3. ASSUME Follows(db', today'), dirty'["live"] => Follows(tx'["live"], today')
      PROVE  StreakFollows'
  <2>1. db'.streak.last <= today' /\ StreakOf(db')
    BY <1>3 DEF Follows
  <2>2. dirty'["live"] => tx'["live"].streak.last <= today' /\ StreakOf(tx'["live"])
    BY <1>3 DEF Follows
  <2> QED
    BY <2>1, <2>2 DEF StreakFollows
<1>4. ASSUME NEW r \in Rows, Follows(r, today) PROVE Follows(r, today')
  <2>1. r.streak.last \in Int
    BY PipelineAssumption DEF Rows, Streak
  <2> QED
    BY <1>1, <1>4, <2>1 DEF Follows
<1>5. CASE UNCHANGED <<db, tx, dirty>>
  BY <1>0, <1>2, <1>3, <1>4, <1>5
<1>6. CASE Book("live")
  <2> DEFINE k == work["live"]
             u == Booked(db, k.cur, today, k.row, k.list)
  <2>1. /\ k.cur \in Session /\ today \in Day /\ k.row \in Row
        /\ k.list \in [Topic -> Row]
    BY <1>0, <1>6 DEF Book, TypeOK, Work
  <2>2. /\ db' = db /\ today' = today /\ tx'["live"] = u
    BY <1>0, <1>6 DEF Book
  <2>3. u \in Rows /\ NextActive(db, u, today)
    BY <1>0, <2>1, BookedTypes, BookedActive
  <2> HIDE DEF u
  <2>4. StreakOf(db) /\ db.streak.last <= today
    BY <1>2 DEF Follows
  <2>5. StreakOf(u) /\ u.streak.last = today
    BY <1>0, <2>1, <2>3, <2>4, StreakStep
  <2>6. Follows(u, today')
    BY <1>1, <2>2, <2>5 DEF Follows
  <2> QED
    BY <1>2, <1>3, <2>2, <2>6
<1>7. CASE /\ Close("live")
           /\ \/ db' = db
              \/ dirty["live"] /\ db' = tx["live"]
              \/ dirty["live"] /\ db' = [tx["live"] EXCEPT !.ticks = @ + 1]
  <2>1. ~dirty'["live"]
    BY <1>0, <1>7 DEF Close
  <2>2. CASE db' = db
    BY <1>0, <1>2, <1>3, <1>4, <2>1, <2>2
  <2>3. CASE dirty["live"] /\ db' = tx["live"]
    BY <1>0, <1>2, <1>3, <1>4, <2>1, <2>3
  <2>4. CASE dirty["live"] /\ db' = [tx["live"] EXCEPT !.ticks = @ + 1]
    <3>1. db'.streak = tx["live"].streak /\ db'.credit = tx["live"].credit
      BY <1>0, <2>4, TickTypes
    <3>2. Follows(tx["live"], today')
      BY <1>0, <1>2, <1>4, <2>4
    <3>3. Follows(db', today')
      BY <3>1, <3>2, SameFollows
    <3> QED
      BY <1>3, <2>1, <3>3
  <2> QED
    BY <1>7, <2>2, <2>3, <2>4
<1>8. CASE Process("live")
  <2>1. CASE StreakXp("live")
    <3>1. dirty["live"]
      BY <1>0, <2>1 DEF StreakXp, LedgerInv, SharedInv, PastBooking
    <3> QED
      BY <1>5, <1>7, <2>1, <3>1 DEF StreakXp
  <2>2. CASE Commit("live")
    BY <1>7, <2>2 DEF Commit
  <2>3. CASE \/ Check("live") \/ ReadMastery("live") \/ WriteMastery("live")
            \/ ListMastery("live")
    BY <1>5, <2>3 DEF Check, ReadMastery, WriteMastery, ListMastery
  <2> QED
    BY <1>6, <1>8, <2>1, <2>2, <2>3 DEF Process
<1>9. CASE AwardXp \/ Abort("live") \/ Crash("live")
  BY <1>7, <1>9 DEF AwardXp, Abort, Crash
<1>10. CASE \/ \E s \in Session : Submit(s) \/ Deliver(s)
           \/ Take \/ Fan \/ Ack \/ Poison("live") \/ StartScan \/ NextDay
           \/ UNCHANGED vars
  BY <1>5, <1>10
     DEF Submit, Deliver, Take, Fan, Ack, Poison, StartScan, NextDay, vars, workVars
<1> QED
  BY <1>0, <1>8, <1>9, <1>10 DEF Next, Consume, Visit

LEMMA FollowsInit == Init => StreakFollows
<1> SUFFICES ASSUME Init PROVE StreakFollows
  OBVIOUS
<1>1. ~dirty["live"]
  BY Workers DEF Init
<1>2. db.streak = [current |-> 0, longest |-> 0, last |-> 0]
  BY DEF Init, Blank, NoStreak
<1>3. \A e \in Day : ~Active(db, e)
  BY DEF Init, Blank, Active
<1>4. StreakOf(db)
  BY <1>2, <1>3, PipelineAssumption DEF StreakOf, Day
<1> QED
  BY <1>1, <1>2, <1>4 DEF StreakFollows, Init

\* All that the consumer keeps, as one inductive invariant.
THEOREM ConsumerInvariant ==
    ASSUME Backfill = FALSE
    PROVE  Spec => []LiveInv
<1>1. Init => LiveInv
  BY LedgerInit, FollowsInit DEF LiveInv
<1>2. LiveInv /\ [Next]_vars => LiveInv'
  BY LedgerStep, FollowsStep DEF LiveInv
<1> QED
  BY <1>1, <1>2, PTL DEF Spec

\* The streak row is the run of the user's activity days, for any number of
\* days and sessions and whatever the bus redelivers.
THEOREM StreakIsTheRun ==
    ASSUME Backfill = FALSE
    PROVE  Spec => []StreakIsRun
<1>1. LiveInv => StreakIsRun
  BY DEF LiveInv, StreakFollows, StreakIsRun
<1>2. Spec => []LiveInv
  BY ConsumerInvariant
<1> QED
  BY <1>1, <1>2, PTL
=============================================================================
