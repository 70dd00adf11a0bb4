----------------------------- MODULE MatchProofs -----------------------------
(***************************************************************************)
(* Proofs about matches, for any users, matches, choices, numbers of       *)
(* questions and capacities: types, that a match shown as done is ranked,  *)
(* and that the first answer stands, with both engines at work.            *)
(***************************************************************************)
EXTENDS MatchPromises, FiniteSetTheorems, TLAPS

\* Before a match is formed nothing is stored of it and nobody runs.
NotYet(m) ==
  party[m] = {} => status[m] = "none" /\ \A u \in User : run[m][u].phase = "none"

\* The players an engine, or its callback, has joined and ranked.
JoinedBy(e, P) ==
  IF e.phase \in {"none", "create"} THEN {}
  ELSE IF e.phase = "join" THEN P \ e.todo ELSE P
RankedBy(e, P) == IF e.phase = "final" THEN P \ e.todo ELSE {}

\* Who was joined has a row, who was ranked a rank, unless a statement failed.
Present(m, p) == p \in players[m] \/ <<"player", p>> \in failed[m]
Settled(m, p) == ranks[m][p] > 0 \/ Excused(m, p)

Through(m) ==
  \A u \in User : /\ \A p \in JoinedBy(run[m][u], party[m]) : Present(m, p)
                  /\ \A p \in RankedBy(run[m][u], party[m]) : Settled(m, p)

MatchInv ==
  /\ TypeOK
  /\ \A m \in Match : IsFiniteSet(party[m]) /\ NotYet(m) /\ Through(m)
  /\ DoneIsRanked

-----------------------------------------------------------------------------
(* Engines, as the steps leave them.                                       *)

InPhase(d, x) == [d EXCEPT !.phase = x]
LEMMA InPhaseFacts ==
    ASSUME NEW d \in Engine, NEW x \in Phase
    PROVE  InPhase(d, x) \in Engine /\ InPhase(d, x).phase = x
BY DEF InPhase, Engine

Joining(d, P) == [d EXCEPT !.phase = "join", !.todo = P]
LEMMA JoiningFacts ==
    ASSUME NEW d \in Engine, NEW P \in SUBSET User
    PROVE  LET j == Joining(d, P)
           IN  j \in Engine /\ j.phase = "join" /\ j.todo = P
BY DEF Joining, Engine, Phase

Joined(d, p) == [d EXCEPT !.todo = d.todo \ {p},
                          !.phase = IF d.todo = {p} THEN "launch" ELSE "join"]
LEMMA JoinedFacts ==
    ASSUME NEW d \in Engine, NEW p
    PROVE  LET j == Joined(d, p)
           IN  /\ j \in Engine /\ j.todo = d.todo \ {p}
               /\ j.phase = IF d.todo = {p} THEN "launch" ELSE "join"
BY DEF Joined, Engine, Phase

Receiving(d, q) == [d EXCEPT !.inbox = q]
LEMMA ReceivingFacts ==
    ASSUME NEW d \in Engine, NEW q \in Seq(Msg)
    PROVE  LET j == Receiving(d, q)
           IN  j \in Engine /\ j.phase = d.phase /\ j.todo = d.todo
BY DEF Receiving, Engine

Begun(d) == [d EXCEPT !.phase = "asking", !.idx = 1]
LEMMA BegunFacts ==
    ASSUME NEW d \in Engine
    PROVE  Begun(d) \in Engine /\ Begun(d).phase = "asking"
BY DEF Begun, Engine, Phase

Received(d, q, g) == [d EXCEPT !.inbox = q, !.given = g]
LEMMA ReceivedFacts ==
    ASSUME NEW d \in Engine, NEW q \in Seq(Msg), NEW g \in [User -> Pick \cup {None}]
    PROVE  LET j == Received(d, q, g)
           IN  j \in Engine /\ j.phase = d.phase /\ j.todo = d.todo
BY DEF Received, Engine

Closed(d, i, q, g, s) == [d EXCEPT !.idx = i, !.inbox = q, !.given = g, !.score = s]
LEMMA ClosedFacts ==
    ASSUME NEW d \in Engine, NEW i \in Nat, NEW q \in Seq(Msg),
           NEW g \in [User -> Pick \cup {None}], NEW s \in [User -> Nat]
    PROVE  LET j == Closed(d, i, q, g, s)
           IN  j \in Engine /\ j.phase = d.phase /\ j.todo = d.todo
BY DEF Closed, Engine

Scored(d, P) == [d EXCEPT !.phase = "final", !.todo = P, !.inbox = <<>>]
LEMMA ScoredFacts ==
    ASSUME NEW d \in Engine, NEW P \in SUBSET User
    PROVE  Scored(d, P) \in Engine /\ Scored(d, P).phase = "final" /\ Scored(d, P).todo = P
<1>1. <<>> \in Seq(Msg)
  OBVIOUS
<1> QED
  BY <1>1 DEF Scored, Engine, Phase

Finalized(d, p) == [d EXCEPT !.todo = d.todo \ {p}]
LEMMA FinalizedFacts ==
    ASSUME NEW d \in Engine, NEW p
    PROVE  LET j == Finalized(d, p)
           IN  j \in Engine /\ j.phase = d.phase /\ j.todo = d.todo \ {p}
BY DEF Finalized, Engine

LEMMA NoEngineFacts ==
    /\ NoEngine \in Engine /\ NoEngine.phase = "none"
    /\ InPhase(NoEngine, "over") \in Engine /\ InPhase(NoEngine, "over").phase = "over"
<1>1. NoEngine \in Engine /\ NoEngine.phase = "none"
  <2>1. <<>> \in Seq(Msg) /\ 0 \in Nat /\ {} \in SUBSET User
    OBVIOUS
  <2>2. [u \in User |-> None] \in [User -> Pick \cup {None}] /\ [u \in User |-> 0] \in [User -> Nat]
    OBVIOUS
  <2> QED
    BY <2>1, <2>2 DEF NoEngine, Engine, Phase
<1>2. "over" \in Phase
  BY DEF Phase
<1> QED
  BY <1>1, <1>2, InPhaseFacts

-----------------------------------------------------------------------------
(* What all steps of callbacks and engines have in common.                 *)

\* Rows of players, failures and ranks are added, never taken back.
RowsGrow ==
  /\ players' \in [Match -> SUBSET User] /\ failed' \in [Match -> SUBSET (Lossy \X User)]
  /\ ranks' \in [Match -> [User -> Nat]]
  /\ \A n \in Match : players[n] \subseteq players'[n] /\ failed[n] \subseteq failed'[n]
  /\ \A n \in Match, p \in User : ranks[n][p] > 0 => ranks'[n][p] > 0

LEMMA Grown ==
    ASSUME RowsGrow, NEW n \in Match, NEW p \in User
    PROVE  (Present(n, p) => Present(n, p)') /\ (Settled(n, p) => Settled(n, p)')
BY DEF RowsGrow, Present, Settled, Excused

LEMMA RowsStay ==
    ASSUME MatchInv, UNCHANGED <<players, ranks, failed>>
    PROVE  RowsGrow
BY DEF RowsGrow, MatchInv, TypeOK

LEMMA Moved ==
    ASSUME MatchInv, NEW m \in Match, NEW u \in User, NEW j \in Engine, Move(m, u, j),
           UNCHANGED party, RowsGrow,
           party[m] = {} => j.phase = "none" /\ status'[m] = "none",
           status' \in [Match -> Status], \A n \in Match \ {m} : status'[n] = status[n],
           \A p \in JoinedBy(j, party[m]) : Present(m, p)',
           \A p \in RankedBy(j, party[m]) : Settled(m, p)',
           status'[m] = "DONE" => status[m] = "DONE" \/ \A p \in party[m] : Settled(m, p)'
    PROVE  /\ run' \in [Match -> [User -> Engine]]
           /\ (\A n \in Match : IsFiniteSet(party[n]) /\ NotYet(n) /\ Through(n))'
           /\ DoneIsRanked'
<1>1. run' = [run EXCEPT ![m] = [run[m] EXCEPT ![u] = j]]
  BY DEF Move
<1>2. [run[m] EXCEPT ![u] = j] \in [User -> Engine]
  BY DEF MatchInv, TypeOK
<1>3. /\ run' \in [Match -> [User -> Engine]]
      /\ run'[m][u] = j
      /\ \A n \in Match, v \in User : n # m \/ v # u => run'[n][v] = run[n][v]
  BY <1>1, <1>2 DEF MatchInv, TypeOK
<1>4. ASSUME NEW n \in Match PROVE NotYet(n)'
  <2>1. NotYet(n) /\ NotYet(m)
    BY DEF MatchInv
  <2>2. CASE n # m
    BY <1>3, <2>1, <2>2 DEF NotYet
  <2>3. CASE n = m
    BY <1>3, <2>1, <2>3 DEF NotYet
  <2> QED
    BY <2>2, <2>3
<1>5. \A n \in Match : party[n] \subseteq User
  BY DEF MatchInv, TypeOK
<1>6. \A n \in Match : Through(n)'
  <2>1. ASSUME NEW n \in Match, NEW v \in User, n # m \/ v # u
        PROVE  /\ \A p \in JoinedBy(run'[n][v], party'[n]) : Present(n, p)'
               /\ \A p \in RankedBy(run'[n][v], party'[n]) : Settled(n, p)'
    <3>1. /\ \A p \in JoinedBy(run[n][v], party[n]) : Present(n, p)
          /\ \A p \in RankedBy(run[n][v], party[n]) : Settled(n, p)
      BY DEF MatchInv, Through
    <3>2. /\ JoinedBy(run[n][v], party[n]) \subseteq User
          /\ RankedBy(run[n][v], party[n]) \subseteq User
      BY <1>5 DEF JoinedBy, RankedBy
    <3>3. run'[n][v] = run[n][v] /\ party' = party
      BY <1>3, <2>1
    <3> QED
      BY <3>1, <3>2, <3>3, Grown
  <2>2. run'[m][u] = j /\ party' = party
    BY <1>3
  <2> QED
    BY <2>1, <2>2 DEF Through
<1>7. DoneIsRanked'
  <2> SUFFICES ASSUME NEW n \in Match, status'[n] = "DONE", NEW p \in party[n]
               PROVE  Settled(n, p)'
    BY DEF DoneIsRanked, Settled
  <2>1. status[n] = "DONE" => Settled(n, p)
    BY DEF MatchInv, DoneIsRanked, Settled
  <2> QED
    BY <1>5, <2>1, Grown
<1> QED
  BY <1>3, <1>4, <1>6, <1>7 DEF MatchInv

\* The steps that leave the rows alone, or set a status that is not an end.
LEMMA MovedOnly ==
    ASSUME MatchInv, NEW m \in Match, NEW u \in User, NEW j \in Engine, Move(m, u, j),
           UNCHANGED <<party, players, ranks, failed>>,
           party[m] = {} => j.phase = "none" /\ status'[m] = "none",
           status' = status \/ \E s \in Status \ {"DONE"} : SetStatus(m, s),
           JoinedBy(j, party[m]) \subseteq JoinedBy(run[m][u], party[m]),
           RankedBy(j, party[m]) \subseteq RankedBy(run[m][u], party[m])
    PROVE  /\ run' \in [Match -> [User -> Engine]] /\ status' \in [Match -> Status]
           /\ (\A n \in Match : IsFiniteSet(party[n]) /\ NotYet(n) /\ Through(n))'
           /\ DoneIsRanked'
<1>1. /\ status' \in [Match -> Status] /\ \A n \in Match \ {m} : status'[n] = status[n]
      /\ status'[m] = "DONE" => status[m] = "DONE"
  <2>1. status \in [Match -> Status]
    BY DEF MatchInv, TypeOK
  <2>2. CASE status' = status
    BY <2>1, <2>2
  <2>3. CASE \E s \in Status \ {"DONE"} : SetStatus(m, s)
    BY <2>1, <2>3 DEF SetStatus
  <2> QED
    BY <2>2, <2>3
<1>2. RowsGrow
  BY RowsStay
<1>3. /\ \A p \in JoinedBy(run[m][u], party[m]) : Present(m, p)
      /\ \A p \in RankedBy(run[m][u], party[m]) : Settled(m, p)
  BY DEF MatchInv, Through
<1>4. /\ \A p \in JoinedBy(j, party[m]) : Present(m, p)'
      /\ \A p \in RankedBy(j, party[m]) : Settled(m, p)'
  BY <1>3 DEF Present, Settled, Excused
<1> QED
  BY <1>1, <1>2, <1>4, Moved

-----------------------------------------------------------------------------
(* The gateway, and the matchmaker.                                        *)

LEMMA ConnStep ==
    ASSUME MatchInv, NEW u \in User, Connect(u) \/ Disconnect(u) \/ Unmap(u)
    PROVE  MatchInv'
<1>1. PICK c \in Connection : conn' = [conn EXCEPT ![u] = c]
  <2>1. NoConn \in Connection /\ NewConn \in Connection
    BY DEF NoConn, NewConn, Connection
  <2>2. [conn[u] EXCEPT !.mapped = FALSE] \in Connection
    <3>1. PICK c \in Connection : c = conn[u]
      BY DEF MatchInv, TypeOK
    <3>2. [c EXCEPT !.mapped = FALSE] \in Connection
      BY DEF Connection
    <3> QED
      BY <3>1, <3>2
  <2> QED
    BY <2>1, <2>2 DEF Connect, Disconnect, Unmap
<1>2. conn' \in [User -> Connection]
  BY <1>1 DEF MatchInv, TypeOK
<1>3. UNCHANGED <<party, run, matches, status, answers, players, ranks, rated, failed>>
  BY DEF Connect, Disconnect, Unmap, rowVars
<1> QED
  BY <1>2, <1>3 DEF MatchInv, TypeOK, NotYet, Through, Present, Settled, Excused, DoneIsRanked

LEMMA MatchedStep ==
    ASSUME MatchInv, NEW m \in Match, NEW u \in User, NEW v \in User, Matched(m, u, v)
    PROVE  MatchInv'
<1>1. /\ party[m] = {} /\ party' = [party EXCEPT ![m] = {u, v}]
      /\ UNCHANGED <<conn, matches, status, answers, players, ranks, rated, failed>>
  BY DEF Matched, rowVars
<1>2. IsFiniteSet({u, v})
  <2>1. IsFiniteSet({u})
    BY FS_Singleton
  <2>2. IsFiniteSet({u} \cup {v})
    BY <2>1, FS_AddElement
  <2>3. {u, v} = {u} \cup {v}
    OBVIOUS
  <2> QED
    BY <2>2, <2>3, Zenon
<1>3. status[m] = "none" /\ \A w \in User : run[m][w].phase = "none"
  BY <1>1 DEF MatchInv, NotYet
<1> DEFINE row == [w \in User |-> IF w \in {u, v} THEN InPhase(run[m][w], "create") ELSE run[m][w]]
<1>4. run' = [run EXCEPT ![m] = row]
  BY DEF Matched, InPhase
<1>5. row \in [User -> Engine] /\ \A w \in User : row[w].phase \in {"create", "none"}
  <2>1. ASSUME NEW w \in User
        PROVE  /\ run[m][w] \in Engine /\ InPhase(run[m][w], "create") \in Engine
               /\ InPhase(run[m][w], "create").phase = "create"
    <3>1. run[m][w] \in Engine /\ "create" \in Phase
      BY DEF MatchInv, TypeOK, Phase
    <3> QED
      BY <3>1, InPhaseFacts
  <2> QED
    BY <1>3, <2>1
<1> HIDE DEF row
<1>6. /\ run' \in [Match -> [User -> Engine]] /\ run'[m] = row
      /\ \A n \in Match \ {m} : run'[n] = run[n]
  BY <1>4, <1>5 DEF MatchInv, TypeOK
<1>7. /\ party' \in [Match -> SUBSET User] /\ party'[m] = {u, v}
      /\ \A n \in Match \ {m} : party'[n] = party[n]
  BY <1>1 DEF MatchInv, TypeOK
<1>8. ASSUME NEW n \in Match PROVE (IsFiniteSet(party[n]) /\ NotYet(n) /\ Through(n))'
  <2>1. CASE n = m
    BY <1>2, <1>5, <1>6, <1>7, <2>1 DEF NotYet, Through, JoinedBy, RankedBy, Present, Settled, Excused
  <2>2. CASE n # m
    <3>1. IsFiniteSet(party[n]) /\ NotYet(n) /\ Through(n)
      BY DEF MatchInv
    <3>2. run'[n] = run[n] /\ party'[n] = party[n] /\ UNCHANGED <<status, players, ranks, failed>>
      BY <1>1, <1>6, <1>7, <2>2
    <3> QED
      BY <3>1, <3>2 DEF NotYet, Through, JoinedBy, RankedBy, Present, Settled, Excused
  <2> QED
    BY <2>1, <2>2
<1>9. DoneIsRanked'
  BY <1>1, <1>3, <1>7 DEF MatchInv, DoneIsRanked, Excused
<1> QED
  BY <1>1, <1>6, <1>7, <1>8, <1>9 DEF MatchInv, TypeOK

LEMMA MatchAnswerStep ==
    ASSUME MatchInv, NEW v \in User, NEW i \in Idx, NEW p \in Pick, MatchAnswer(v, i, p)
    PROVE  MatchInv'
<1>1. PICK m \in Match : m = conn[v].match
  BY DEF MatchAnswer, MatchInv, TypeOK, Connection
<1>2. PICK u \in User : u = matches[m]
  BY <1>1 DEF MatchAnswer, MatchInv, TypeOK
<1>3. PICK d \in Engine : d = run[m][u]
  BY DEF MatchInv, TypeOK
<1> DEFINE q == Append(d.inbox, [user |-> v, idx |-> i, pick |-> p])
<1>4. q \in Seq(Msg)
  <2>1. [user |-> v, idx |-> i, pick |-> p] \in Msg /\ d.inbox \in Seq(Msg)
    BY DEF Msg, Engine
  <2> QED
    BY <2>1
<1>5. Move(m, u, Receiving(d, q)) /\ UNCHANGED <<conn, party, matches, status, answers, players, ranks, rated, failed>>
  BY <1>1, <1>2, <1>3 DEF MatchAnswer, Receiving, rowVars
<1> HIDE DEF q
<1>6. PICK j \in Engine : j = Receiving(d, q) /\ j.phase = d.phase /\ j.todo = d.todo
  BY <1>4, ReceivingFacts
<1>7. party[m] = {} => j.phase = "none" /\ status'[m] = "none"
  BY <1>3, <1>5, <1>6 DEF MatchInv, NotYet
<1>8. /\ run' \in [Match -> [User -> Engine]]
      /\ (\A n \in Match : IsFiniteSet(party[n]) /\ NotYet(n) /\ Through(n))'
      /\ DoneIsRanked'
  BY <1>3, <1>5, <1>6, <1>7, MovedOnly DEF JoinedBy, RankedBy
<1> QED
  BY <1>5, <1>8 DEF MatchInv, TypeOK

-----------------------------------------------------------------------------
(* Callbacks and engines.                                                  *)

\* An engine that is somewhere belongs to a match that was formed.
LEMMA Formed ==
    ASSUME MatchInv, NEW m \in Match, NEW u \in User, run[m][u].phase # "none"
    PROVE  run[m][u] \in Engine /\ party[m] # {} /\ party[m] \in SUBSET User
BY DEF MatchInv, TypeOK, NotYet

LEMMA PartyOfUsers == MatchInv => \A m \in Match : party[m] \subseteq User
BY DEF MatchInv, TypeOK

\* A step that takes an engine to phase x, which is not the final one.
LEMMA PhaseStep ==
    ASSUME MatchInv, NEW m \in Match, NEW u \in User, run[m][u].phase \notin {"none", "create", "join"},
           NEW x \in Phase \ {"final"}, Move(m, u, InPhase(run[m][u], x)),
           UNCHANGED <<party, players, ranks, failed>>,
           status' = status \/ \E s \in Status \ {"DONE"} : SetStatus(m, s)
    PROVE  /\ run' \in [Match -> [User -> Engine]] /\ status' \in [Match -> Status]
           /\ (\A n \in Match : IsFiniteSet(party[n]) /\ NotYet(n) /\ Through(n))'
           /\ DoneIsRanked'
<1>1. party[m] # {} /\ run[m][u] \in Engine
  BY Formed
<1>2. PICK j \in Engine : j = InPhase(run[m][u], x) /\ j.phase = x
  BY <1>1, InPhaseFacts
<1> QED
  BY <1>1, <1>2, MovedOnly DEF JoinedBy, RankedBy

LEMMA CreateMatchStep ==
    ASSUME MatchInv, NEW m \in Match, NEW u \in User, CreateMatch(m, u)
    PROVE  MatchInv'
<1>1. run[m][u] \in Engine /\ party[m] # {} /\ party[m] \in SUBSET User
  BY Formed DEF CreateMatch, At
<1>2. PICK j \in Engine : j = Joining(run[m][u], party[m]) /\ j.phase = "join" /\ j.todo = party[m]
  BY <1>1, JoiningFacts
<1>3. Move(m, u, j) /\ UNCHANGED <<conn, party, matches, answers, players, ranks, rated, failed>>
  BY <1>2 DEF CreateMatch, Joining
<1>4. status' = status \/ SetStatus(m, "LOBBY")
  BY DEF CreateMatch, SetStatus, MatchInv, TypeOK
<1>5. "LOBBY" \in Status \ {"DONE"}
  BY DEF Status
<1>6. /\ run' \in [Match -> [User -> Engine]] /\ status' \in [Match -> Status]
      /\ (\A n \in Match : IsFiniteSet(party[n]) /\ NotYet(n) /\ Through(n))'
      /\ DoneIsRanked'
  BY <1>1, <1>2, <1>3, <1>4, <1>5, MovedOnly DEF JoinedBy, RankedBy
<1> QED
  BY <1>3, <1>6 DEF MatchInv, TypeOK

LEMMA FailingGrows ==
    ASSUME MatchInv, NEW m \in Match, NEW S, NEW P, Failing(m, S, P)
    PROVE  /\ failed' \in [Match -> SUBSET (Lossy \X User)]
           /\ \A n \in Match : failed[n] \subseteq failed'[n]
           /\ S \X P \subseteq failed'[m]
<1>1. failed \in [Match -> SUBSET (Lossy \X User)] /\ S \X P \subseteq Lossy \X User
  BY DEF MatchInv, TypeOK, Failing
<1>2. PICK x \in SUBSET (Lossy \X User) : x = S \X P
  BY <1>1
<1>3. failed' = [failed EXCEPT ![m] = failed[m] \cup x]
  BY <1>2 DEF Failing
<1> QED
  BY <1>1, <1>2, <1>3

LEMMA JoinPeerStep ==
    ASSUME MatchInv, NEW m \in Match, NEW u \in User, NEW p \in User, JoinPeer(m, u, p)
    PROVE  MatchInv'
<1>1. /\ run[m][u] \in Engine /\ party[m] # {} /\ party[m] \in SUBSET User
      /\ run[m][u].phase = "join"
  BY Formed DEF JoinPeer, At
<1>2. PICK j \in Engine : /\ j = Joined(run[m][u], p) /\ j.todo = run[m][u].todo \ {p}
                          /\ j.phase = IF run[m][u].todo = {p} THEN "launch" ELSE "join"
  BY <1>1, JoinedFacts
<1>3. Move(m, u, j) /\ UNCHANGED <<party, matches, status, answers, ranks, rated>>
  BY <1>2 DEF JoinPeer, Joined
<1>4. conn' \in [User -> Connection]
  <2>1. PICK c \in Connection : c = conn[p]
    BY DEF MatchInv, TypeOK
  <2>2. [c EXCEPT !.match = m] \in Connection
    BY DEF Connection
  <2>3. conn \in [User -> Connection]
    BY DEF MatchInv, TypeOK
  <2> QED
    BY <2>1, <2>2, <2>3 DEF JoinPeer
<1>5. RowsGrow /\ Present(m, p)'
  <2>1. /\ players \in [Match -> SUBSET User] /\ failed \in [Match -> SUBSET (Lossy \X User)]
        /\ ranks \in [Match -> [User -> Nat]]
    BY DEF MatchInv, TypeOK
  <2>2. CASE players' = [players EXCEPT ![m] = players[m] \cup {p}] /\ UNCHANGED failed
    BY <1>3, <2>1, <2>2 DEF RowsGrow, Present
  <2>3. CASE Failing(m, {"player"}, {p}) /\ UNCHANGED players
    <3>1. <<"player", p>> \in failed'[m]
      BY <2>1, <2>3 DEF Failing
    <3> QED
      BY <1>3, <2>1, <2>3, <3>1, FailingGrows DEF RowsGrow, Present
  <2> QED
    BY <2>2, <2>3 DEF JoinPeer
<1>6. \A v \in JoinedBy(j, party[m]) : Present(m, v)'
  <2>1. JoinedBy(j, party[m]) \subseteq JoinedBy(run[m][u], party[m]) \cup {p}
    BY <1>1, <1>2 DEF JoinedBy
  <2>2. \A v \in JoinedBy(run[m][u], party[m]) : v \in User /\ Present(m, v)
    BY <1>1 DEF MatchInv, Through, JoinedBy
  <2> QED
    BY <1>5, <2>1, <2>2, Grown
<1>7. RankedBy(j, party[m]) = {}
  BY <1>2 DEF RankedBy
<1>8. /\ status' \in [Match -> Status] /\ status' = status
  BY <1>3 DEF MatchInv, TypeOK
<1>9. /\ run' \in [Match -> [User -> Engine]]
      /\ (\A n \in Match : IsFiniteSet(party[n]) /\ NotYet(n) /\ Through(n))'
      /\ DoneIsRanked'
  BY <1>1, <1>3, <1>5, <1>6, <1>7, <1>8, Moved
<1>10. players' \in [Match -> SUBSET User] /\ failed' \in [Match -> SUBSET (Lossy \X User)]
  BY <1>5 DEF RowsGrow
<1> QED
  BY <1>3, <1>4, <1>8, <1>9, <1>10 DEF MatchInv, TypeOK

LEMMA LaunchStep ==
    ASSUME MatchInv, NEW m \in Match, NEW u \in User, Launch(m, u)
    PROVE  MatchInv'
<1>1. /\ Move(m, u, InPhase(run[m][u], "starting")) /\ run[m][u].phase = "launch"
      /\ UNCHANGED <<conn, party, status, answers, players, ranks, rated, failed>>
  BY DEF Launch, At, InPhase, rowVars
<1>2. matches' \in [Match -> User \cup {None}]
  BY DEF Launch, MatchInv, TypeOK
<1>3. "starting" \in Phase \ {"final"}
  BY DEF Phase
<1>4. /\ run' \in [Match -> [User -> Engine]]
      /\ (\A n \in Match : IsFiniteSet(party[n]) /\ NotYet(n) /\ Through(n))'
      /\ DoneIsRanked'
  BY <1>1, <1>3, PhaseStep
<1> QED
  BY <1>1, <1>2, <1>4 DEF MatchInv, TypeOK

\* Those that only set a status and go on.
LEMMA StatusStep ==
    ASSUME MatchInv, NEW m \in Match, NEW u \in User, EngineStarting(m, u) \/ FetchFails(m, u)
    PROVE  MatchInv'
<1>1. PICK x \in Phase \ {"final"}, s \in Status \ {"DONE"} :
        Move(m, u, InPhase(run[m][u], x)) /\ SetStatus(m, s)
  BY DEF EngineStarting, FetchFails, InPhase, Phase, Status
<1>2. run[m][u].phase \in {"starting", "fetch"} /\ UNCHANGED <<conn, party, matches, answers, players, ranks, rated, failed>>
  BY DEF EngineStarting, FetchFails, At
<1>3. /\ run' \in [Match -> [User -> Engine]] /\ status' \in [Match -> Status]
      /\ (\A n \in Match : IsFiniteSet(party[n]) /\ NotYet(n) /\ Through(n))'
      /\ DoneIsRanked'
  BY <1>1, <1>2, PhaseStep
<1> QED
  BY <1>2, <1>3 DEF MatchInv, TypeOK

LEMMA EngineBeginsStep ==
    ASSUME MatchInv, NEW m \in Match, NEW u \in User, EngineBegins(m, u)
    PROVE  MatchInv'
<1>1. run[m][u] \in Engine /\ party[m] # {} /\ run[m][u].phase = "fetch"
  BY Formed DEF EngineBegins, At
<1>2. PICK j \in Engine : j = Begun(run[m][u]) /\ j.phase = "asking"
  BY <1>1, BegunFacts
<1>3. /\ Move(m, u, j) /\ SetStatus(m, "IN_PROGRESS")
      /\ UNCHANGED <<conn, party, matches, answers, players, ranks, rated, failed>>
  BY <1>2 DEF EngineBegins, Begun
<1>4. "IN_PROGRESS" \in Status \ {"DONE"}
  BY DEF Status
<1>5. /\ run' \in [Match -> [User -> Engine]] /\ status' \in [Match -> Status]
      /\ (\A n \in Match : IsFiniteSet(party[n]) /\ NotYet(n) /\ Through(n))'
      /\ DoneIsRanked'
  BY <1>1, <1>2, <1>3, <1>4, MovedOnly DEF JoinedBy, RankedBy
<1> QED
  BY <1>3, <1>5 DEF MatchInv, TypeOK

LEMMA ReceiveAnswerStep ==
    ASSUME MatchInv, NEW m \in Match, NEW u \in User, ReceiveAnswer(m, u)
    PROVE  MatchInv'
<1>1. run[m][u] \in Engine /\ party[m] # {} /\ run[m][u].phase = "asking"
  BY Formed DEF ReceiveAnswer, At
<1>2. PICK d \in Engine : d = run[m][u]
  BY <1>1
<1>3. d.inbox \in Seq(Msg) /\ d.inbox # <<>> /\ d.given \in [User -> Pick \cup {None}]
  BY <1>2 DEF Engine, ReceiveAnswer
<1>4. Tail(d.inbox) \in Seq(Msg) /\ Head(d.inbox) \in Msg
  BY <1>3
<1>5. PICK a \in Msg, q \in Seq(Msg) : a = Head(d.inbox) /\ q = Tail(d.inbox)
  BY <1>4
<1> DEFINE g == IF a.idx = d.idx /\ a.user \in party[m] /\ d.given[a.user] = None
                THEN [d.given EXCEPT ![a.user] = a.pick] ELSE d.given
<1>6. g \in [User -> Pick \cup {None}]
  BY <1>3 DEF Msg
<1>7. /\ Move(m, u, Received(d, q, g))
      /\ UNCHANGED <<conn, party, matches, status, answers, players, ranks, rated, failed>>
  BY <1>2, <1>5 DEF ReceiveAnswer, Received, rowVars
<1> HIDE DEF g
<1>8. PICK j \in Engine : j = Received(d, q, g) /\ j.phase = d.phase /\ j.todo = d.todo
  BY <1>6, ReceivedFacts
<1>9. /\ run' \in [Match -> [User -> Engine]]
      /\ (\A n \in Match : IsFiniteSet(party[n]) /\ NotYet(n) /\ Through(n))'
      /\ DoneIsRanked'
  BY <1>1, <1>2, <1>7, <1>8, MovedOnly DEF JoinedBy, RankedBy
<1> QED
  BY <1>7, <1>9 DEF MatchInv, TypeOK

\* What is recorded at a deadline has its type and replaces nothing.
LEMMA RecordFacts ==
    ASSUME MatchInv, NEW m \in Match, NEW i, NEW g \in [User -> Pick \cup {None}], NEW key,
           NEW stored
    PROVE  LET a == RecordAnswers(m, i, g, key, stored)
           IN  /\ a \in [User -> [Idx -> Row]]
               /\ \A v \in User, k \in Idx : answers[m][v][k] # NoRow => a[v][k] = answers[m][v][k]
<1>1. ASSUME NEW v \in User PROVE RowOf(v, g, key) \in Row
  <2>1. g[v] \in Pick \cup {None} /\ (g[v] = key) \in BOOLEAN
    OBVIOUS
  <2> QED
    BY <2>1 DEF RowOf, Row
<1>2. ASSUME NEW v \in User
      PROVE  /\ answers[m][v] \in [Idx -> Row]
             /\ [answers[m][v] EXCEPT ![i] = RowOf(v, g, key)] \in [Idx -> Row]
  <2>1. PICK f \in [Idx -> Row], r \in Row : f = answers[m][v] /\ r = RowOf(v, g, key)
    BY <1>1 DEF MatchInv, TypeOK
  <2>2. [f EXCEPT ![i] = r] \in [Idx -> Row]
    OBVIOUS
  <2> QED
    BY <2>1, <2>2
<1> DEFINE a == RecordAnswers(m, i, g, key, stored)
<1>3. ASSUME NEW v \in User
      PROVE  a[v] = IF v \notin stored \/ answers[m][v][i] # NoRow THEN answers[m][v]
                    ELSE [answers[m][v] EXCEPT ![i] = RowOf(v, g, key)]
  BY DEF RecordAnswers
<1>4. a \in [User -> [Idx -> Row]]
  BY <1>2 DEF RecordAnswers
<1>5. ASSUME NEW v \in User, NEW k \in Idx, answers[m][v][k] # NoRow
      PROVE  a[v][k] = answers[m][v][k]
  <2>1. CASE a[v] = answers[m][v]
    BY <2>1
  <2>2. CASE answers[m][v][i] = NoRow /\ a[v] = [answers[m][v] EXCEPT ![i] = RowOf(v, g, key)]
    BY <1>2, <1>5, <2>2
  <2> QED
    BY <1>3, <2>1, <2>2
<1> HIDE DEF a
<1>6. /\ a \in [User -> [Idx -> Row]]
      /\ \A v \in User, k \in Idx : answers[m][v][k] # NoRow => a[v][k] = answers[m][v][k]
  BY <1>4, <1>5
<1> QED
  BY <1>6 DEF a

LEMMA DeadlineStep ==
    ASSUME MatchInv, NEW m \in Match, NEW u \in User, NEW key \in Pick \cup {None},
           Deadline(m, u, key)
    PROVE  MatchInv'
<1>1. run[m][u] \in Engine /\ party[m] # {} /\ run[m][u].phase = "asking"
  BY Formed DEF Deadline, At
<1>2. PICK d \in Engine : d = run[m][u]
  BY <1>1
<1>3. d.idx \in Nat /\ d.given \in [User -> Pick \cup {None}] /\ d.score \in [User -> Nat]
      /\ d.inbox \in Seq(Msg) /\ <<>> \in Seq(Msg)
  BY <1>2 DEF Engine
<1> DEFINE g == [v \in User |-> None]
           s == [v \in User |-> d.score[v] +
                  IF d.given[v] # None /\ d.given[v] = key THEN 1 ELSE 0]
           q == IF d.idx = Questions THEN <<>> ELSE d.inbox
<1>4. d.idx + 1 \in Nat /\ q \in Seq(Msg) /\ g \in [User -> Pick \cup {None}] /\ s \in [User -> Nat]
  BY <1>3
<1>5. PICK stored, S, P :
        /\ Move(m, u, Closed(d, d.idx + 1, q, g, s)) /\ Failing(m, S, P)
        /\ answers' = [answers EXCEPT ![m] = RecordAnswers(m, d.idx, d.given, key, stored)]
        /\ UNCHANGED <<conn, party, matches, status, players, ranks, rated>>
  BY <1>2 DEF Deadline, Closed
<1> HIDE DEF g, s, q
<1>6. PICK a \in [User -> [Idx -> Row]] : a = RecordAnswers(m, d.idx, d.given, key, stored)
  BY <1>3, RecordFacts
<1>7. PICK j \in Engine : /\ j = Closed(d, d.idx + 1, q, g, s)
                          /\ j.phase = d.phase /\ j.todo = d.todo
  BY <1>4, ClosedFacts
<1>8. answers' \in [Match -> [User -> [Idx -> Row]]]
  BY <1>5, <1>6 DEF MatchInv, TypeOK
<1>9. RowsGrow
  BY <1>5, FailingGrows DEF RowsGrow, MatchInv, TypeOK
<1>10. /\ \A p \in JoinedBy(j, party[m]) : Present(m, p)'
       /\ \A p \in RankedBy(j, party[m]) : Settled(m, p)'
  <2>1. \A p \in JoinedBy(j, party[m]) : p \in User /\ Present(m, p)
    BY <1>1, <1>2, <1>7, PartyOfUsers DEF MatchInv, Through, JoinedBy
  <2>2. RankedBy(j, party[m]) = {}
    BY <1>1, <1>2, <1>7 DEF RankedBy
  <2> QED
    BY <1>9, <2>1, <2>2, Grown
<1>11. status' \in [Match -> Status] /\ status' = status /\ UNCHANGED party /\ Move(m, u, j)
  BY <1>5, <1>7 DEF MatchInv, TypeOK
<1>12. /\ run' \in [Match -> [User -> Engine]]
       /\ (\A n \in Match : IsFiniteSet(party[n]) /\ NotYet(n) /\ Through(n))'
       /\ DoneIsRanked'
  BY <1>1, <1>9, <1>10, <1>11, Moved
<1>13. failed' \in [Match -> SUBSET (Lossy \X User)]
  BY <1>9 DEF RowsGrow
<1> QED
  BY <1>5, <1>8, <1>11, <1>12, <1>13 DEF MatchInv, TypeOK

LEMMA ScoringStep ==
    ASSUME MatchInv, NEW m \in Match, NEW u \in User, Scoring(m, u)
    PROVE  MatchInv'
<1>1. /\ run[m][u] \in Engine /\ party[m] # {} /\ party[m] \in SUBSET User
      /\ run[m][u].phase = "asking"
  BY Formed DEF Scoring, At
<1>2. PICK j \in Engine : /\ j = Scored(run[m][u], party[m])
                          /\ j.phase = "final" /\ j.todo = party[m]
  BY <1>1, ScoredFacts
<1>3. /\ Move(m, u, j) /\ SetStatus(m, "SCORING")
      /\ UNCHANGED <<conn, party, matches, answers, players, ranks, rated, failed>>
  BY <1>2 DEF Scoring, Scored
<1>4. /\ status' \in [Match -> Status] /\ status'[m] = "SCORING"
      /\ \A n \in Match \ {m} : status'[n] = status[n]
  BY <1>3 DEF SetStatus, MatchInv, TypeOK, Status
<1>5. RowsGrow
  BY <1>3, RowsStay
<1>6. \A p \in JoinedBy(j, party[m]) : Present(m, p)'
  <2>1. \A p \in JoinedBy(j, party[m]) : p \in User /\ Present(m, p)
    BY <1>1, <1>2 DEF MatchInv, Through, JoinedBy
  <2> QED
    BY <1>5, <2>1, Grown
<1>7. RankedBy(j, party[m]) = {}
  BY <1>2 DEF RankedBy
<1>8. /\ run' \in [Match -> [User -> Engine]]
      /\ (\A n \in Match : IsFiniteSet(party[n]) /\ NotYet(n) /\ Through(n))'
      /\ DoneIsRanked'
  BY <1>1, <1>3, <1>4, <1>5, <1>6, <1>7, Moved
<1> QED
  BY <1>3, <1>4, <1>8 DEF MatchInv, TypeOK

LEMMA FinalizePlayerStep ==
    ASSUME MatchInv, NEW m \in Match, NEW u \in User, NEW p \in User, FinalizePlayer(m, u, p)
    PROVE  MatchInv'
<1>1. /\ run[m][u] \in Engine /\ party[m] # {} /\ party[m] \in SUBSET User
      /\ run[m][u].phase = "final"
  BY Formed DEF FinalizePlayer, At
<1>2. PICK j \in Engine : /\ j = Finalized(run[m][u], p)
                          /\ j.phase = "final" /\ j.todo = run[m][u].todo \ {p}
  BY <1>1, FinalizedFacts
<1> DEFINE k == Cardinality(party[m] \ run[m][u].todo) + 1
<1>3. k \in Nat /\ k > 0
  <2>1. IsFiniteSet(party[m])
    BY DEF MatchInv
  <2>2. IsFiniteSet(party[m] \ run[m][u].todo)
    BY <2>1, FS_Difference
  <2>3. Cardinality(party[m] \ run[m][u].todo) \in Nat
    BY <2>2, FS_CardinalityType
  <2> QED
    BY <2>3
<1>4. PICK lost \in SUBSET ({"rank", "rating"} \cap Lossy) :
        /\ Move(m, u, j) /\ Failing(m, lost, {p})
        /\ ranks' = IF "rank" \in lost \/ p \notin players[m] THEN ranks
                    ELSE [ranks EXCEPT ![m] = [ranks[m] EXCEPT ![p] = k]]
        /\ rated' = IF "rating" \in lost THEN rated
                    ELSE [rated EXCEPT ![m] = [rated[m] EXCEPT ![p] = rated[m][p] + 1]]
        /\ UNCHANGED <<conn, party, matches, status, players, answers>>
  BY <1>2 DEF FinalizePlayer, Finalized
<1> HIDE DEF k
<1>5. /\ ranks' \in [Match -> [User -> Nat]]
      /\ "rank" \in lost \/ p \notin players[m] \/ ranks'[m][p] > 0
      /\ \A n \in Match, v \in User : ranks[n][v] > 0 => ranks'[n][v] > 0
  <2>1. ranks \in [Match -> [User -> Nat]]
    BY DEF MatchInv, TypeOK
  <2>2. [ranks[m] EXCEPT ![p] = k] \in [User -> Nat]
    BY <1>3, <2>1
  <2>3. CASE ranks' = ranks
    BY <1>3, <1>4, <2>1, <2>2, <2>3
  <2>4. CASE ranks' = [ranks EXCEPT ![m] = [ranks[m] EXCEPT ![p] = k]]
    BY <1>3, <2>1, <2>2, <2>4
  <2> QED
    BY <1>4, <2>3, <2>4
<1>6. rated' \in [Match -> [User -> Nat]]
  <2>1. rated[m][p] + 1 \in Nat
    BY DEF MatchInv, TypeOK
  <2>2. [rated[m] EXCEPT ![p] = rated[m][p] + 1] \in [User -> Nat]
    BY <2>1 DEF MatchInv, TypeOK
  <2> QED
    BY <1>4, <2>2 DEF MatchInv, TypeOK
<1>7. /\ failed' \in [Match -> SUBSET (Lossy \X User)]
      /\ \A n \in Match : failed[n] \subseteq failed'[n]
      /\ lost \X {p} \subseteq failed'[m]
  BY <1>4, FailingGrows
<1>8. RowsGrow
  BY <1>4, <1>5, <1>7 DEF RowsGrow, MatchInv, TypeOK
<1>9. \A v \in party[m] : Present(m, v)
  BY <1>1 DEF MatchInv, Through, JoinedBy
<1>10. \A v \in JoinedBy(j, party[m]) : Present(m, v)'
  BY <1>1, <1>2, <1>8, <1>9, Grown DEF JoinedBy
<1>11. p \in party[m] => Settled(m, p)'
  <2>1. CASE "rank" \in lost
    <3>1. <<"rank", p>> \in failed'[m]
      BY <1>7, <2>1
    <3> QED
      BY <3>1 DEF Settled, Excused
  <2>2. CASE p \notin players[m] /\ p \in party[m]
    <3>1. <<"player", p>> \in failed'[m]
      BY <1>7, <1>9, <2>2 DEF Present
    <3> QED
      BY <3>1 DEF Settled, Excused
  <2>3. CASE ranks'[m][p] > 0
    BY <2>3 DEF Settled
  <2> QED
    BY <1>5, <2>1, <2>2, <2>3
<1>12. \A v \in RankedBy(j, party[m]) : Settled(m, v)'
  <2>1. RankedBy(j, party[m]) \subseteq party[m]
    BY DEF RankedBy
  <2>2. RankedBy(j, party[m]) \subseteq RankedBy(run[m][u], party[m]) \cup {p}
    BY <1>1, <1>2 DEF RankedBy
  <2>3. \A v \in RankedBy(run[m][u], party[m]) : v \in User /\ Settled(m, v)
    BY <1>1 DEF MatchInv, Through, RankedBy
  <2> QED
    BY <1>8, <1>11, <2>1, <2>2, <2>3, Grown
<1>13. status' \in [Match -> Status] /\ status' = status
  BY <1>4 DEF MatchInv, TypeOK
<1>14. /\ run' \in [Match -> [User -> Engine]]
       /\ (\A n \in Match : IsFiniteSet(party[n]) /\ NotYet(n) /\ Through(n))'
       /\ DoneIsRanked'
  BY <1>1, <1>4, <1>8, <1>10, <1>12, <1>13, Moved
<1> QED
  BY <1>4, <1>5, <1>6, <1>7, <1>13, <1>14 DEF MatchInv, TypeOK

LEMMA EngineDoneStep ==
    ASSUME MatchInv, NEW m \in Match, NEW u \in User, EngineDone(m, u)
    PROVE  MatchInv'
<1>1. run[m][u] \in Engine /\ party[m] # {} /\ run[m][u].phase = "final" /\ "cleanup" \in Phase
  BY Formed DEF EngineDone, At, Phase
<1>2. PICK j \in Engine : j = InPhase(run[m][u], "cleanup") /\ j.phase = "cleanup"
  BY <1>1, InPhaseFacts
<1>3. /\ Move(m, u, j) /\ SetStatus(m, "DONE") /\ run[m][u].todo = {}
      /\ UNCHANGED <<conn, party, matches, answers, players, ranks, rated, failed>>
  BY <1>2 DEF EngineDone, InPhase
<1>4. /\ status' \in [Match -> Status] /\ \A n \in Match \ {m} : status'[n] = status[n]
  BY <1>3 DEF SetStatus, MatchInv, TypeOK, Status
<1>5. RowsGrow
  BY <1>3, RowsStay
<1>6. \A p \in party[m] : p \in User /\ Present(m, p) /\ Settled(m, p)
  BY <1>1, <1>3, PartyOfUsers DEF MatchInv, Through, JoinedBy, RankedBy
<1>7. \A p \in party[m] : Present(m, p)' /\ Settled(m, p)'
  BY <1>5, <1>6, Grown
<1>8. JoinedBy(j, party[m]) \subseteq party[m] /\ RankedBy(j, party[m]) = {}
  BY <1>2 DEF JoinedBy, RankedBy
<1>9. /\ run' \in [Match -> [User -> Engine]]
      /\ (\A n \in Match : IsFiniteSet(party[n]) /\ NotYet(n) /\ Through(n))'
      /\ DoneIsRanked'
  BY <1>1, <1>3, <1>4, <1>5, <1>7, <1>8, Moved
<1> QED
  BY <1>3, <1>4, <1>9 DEF MatchInv, TypeOK

LEMMA EngineOverStep ==
    ASSUME MatchInv, NEW m \in Match, NEW u \in User, EngineOver(m, u)
    PROVE  MatchInv'
<1>1. party[m] # {} /\ run[m][u].phase = "cleanup"
  BY Formed DEF EngineOver, At
<1>2. PICK j \in Engine : j = InPhase(NoEngine, "over") /\ j.phase = "over"
  BY NoEngineFacts
<1>3. Move(m, u, j) /\ UNCHANGED <<party, status, answers, players, ranks, rated, failed>>
  BY <1>2 DEF EngineOver, InPhase, rowVars
<1>4. matches' \in [Match -> User \cup {None}]
  BY DEF EngineOver, MatchInv, TypeOK
<1>5. conn' \in [User -> Connection]
  <2>1. ASSUME NEW p \in User
        PROVE  conn[p] \in Connection /\ [conn[p] EXCEPT !.match = None] \in Connection
    <3>1. PICK c \in Connection : c = conn[p]
      BY DEF MatchInv, TypeOK
    <3>2. [c EXCEPT !.match = None] \in Connection
      BY DEF Connection
    <3> QED
      BY <3>1, <3>2
  <2> QED
    BY <2>1 DEF EngineOver
<1>6. /\ run' \in [Match -> [User -> Engine]]
      /\ (\A n \in Match : IsFiniteSet(party[n]) /\ NotYet(n) /\ Through(n))'
      /\ DoneIsRanked'
  BY <1>1, <1>2, <1>3, MovedOnly DEF JoinedBy, RankedBy
<1> QED
  BY <1>3, <1>4, <1>5, <1>6 DEF MatchInv, TypeOK

-----------------------------------------------------------------------------

LEMMA InitMatches == Init => MatchInv
<1> SUFFICES ASSUME Init PROVE MatchInv
  OBVIOUS
<1>1. NoConn \in Connection /\ NoRow \in Row /\ "none" \in Status /\ 0 \in Nat
  BY DEF NoConn, Connection, NoRow, Row, Status
<1>2. TypeOK
  <2>1. /\ conn \in [User -> Connection] /\ party \in [Match -> SUBSET User]
        /\ matches \in [Match -> User \cup {None}] /\ status \in [Match -> Status]
    BY <1>1 DEF Init
  <2>2. run \in [Match -> [User -> Engine]]
    BY NoEngineFacts DEF Init
  <2>3. answers \in [Match -> [User -> [Idx -> Row]]]
    BY <1>1 DEF Init
  <2>4. /\ ranks \in [Match -> [User -> Nat]] /\ rated \in [Match -> [User -> Nat]]
        /\ players \in [Match -> SUBSET User] /\ failed \in [Match -> SUBSET (Lossy \X User)]
    BY DEF Init
  <2> QED
    BY <2>1, <2>2, <2>3, <2>4 DEF TypeOK
<1>3. \A m \in Match : IsFiniteSet(party[m])
  BY FS_EmptySet DEF Init
<1>4. \A m \in Match, u \in User : run[m][u].phase = "none" /\ status[m] = "none"
  BY NoEngineFacts DEF Init
<1> QED
  BY <1>2, <1>3, <1>4 DEF MatchInv, NotYet, Through, JoinedBy, RankedBy, DoneIsRanked, Init

LEMMA NextMatches == MatchInv /\ [Next]_vars => MatchInv'
<1> SUFFICES ASSUME MatchInv, [Next]_vars PROVE MatchInv'
  OBVIOUS
<1>1. CASE UNCHANGED vars
  <2>1. UNCHANGED <<conn, party, run, matches, status, answers, players, ranks, rated, failed>>
    BY <1>1 DEF vars, rowVars
  <2> QED
    BY <2>1 DEF MatchInv, TypeOK, NotYet, Through, Present, Settled, Excused, DoneIsRanked
<1>2. ASSUME NEW u \in User, Gateway(u) PROVE MatchInv'
  <2>1. ASSUME NEW i \in Idx, NEW p \in Pick, MatchAnswer(u, i, p) PROVE MatchInv'
    BY <2>1, MatchAnswerStep
  <2> QED
    BY <1>2, <2>1, ConnStep DEF Gateway
<1>3. ASSUME NEW m \in Match, NEW u \in User, NEW v \in User, Matched(m, u, v) PROVE MatchInv'
  BY <1>3, MatchedStep
<1>4. ASSUME NEW m \in Match, NEW u \in User, Engines(m, u) PROVE MatchInv'
  <2>1. ASSUME NEW p \in User, JoinPeer(m, u, p) \/ FinalizePlayer(m, u, p) PROVE MatchInv'
    BY <2>1, JoinPeerStep, FinalizePlayerStep
  <2>2. ASSUME NEW key \in Pick \cup {None}, Deadline(m, u, key) PROVE MatchInv'
    BY <2>2, DeadlineStep
  <2> QED
    BY <1>4, <2>1, <2>2, CreateMatchStep, LaunchStep, StatusStep, EngineBeginsStep, ScoringStep,
       EngineDoneStep, EngineOverStep DEF Engines
<1>5. ASSUME NEW m \in Match, NEW u \in User, ReceiveAnswer(m, u) PROVE MatchInv'
  BY <1>5, ReceiveAnswerStep
<1> QED
  BY <1>1, <1>2, <1>3, <1>4, <1>5, BattleMatchAssumption DEF Next

\* The inductive invariant: who an engine has been through has a rank, and
\* nobody runs for a match that was not formed.
THEOREM MatchInvariant == Spec => []MatchInv
<1> QED
  BY InitMatches, NextMatches, PTL DEF Spec

\* Connections, engines and rows keep their types.
THEOREM MatchTypes == Spec => []TypeOK
<1>1. MatchInv => TypeOK
  BY DEF MatchInv
<1> QED
  BY <1>1, MatchInvariant, PTL

\* What the history shows is ranked, whatever the other engine of the match is
\* doing to its rows (store.go, ListUserHistory; engine.go, finalize).
THEOREM DoneMatchIsRanked == Spec => []DoneIsRanked
<1>1. MatchInv => DoneIsRanked
  BY DEF MatchInv
<1> QED
  BY <1>1, MatchInvariant, PTL

\* An answer that is recorded is never replaced, by either engine (store.go,
\* RecordAnswer).
THEOREM AnswerStands == Spec => FirstAnswerStands
<1> DEFINE Stands == \A m \in Match, u \in User, i \in Idx :
                       answers[m][u][i] # NoRow => answers'[m][u][i] = answers[m][u][i]
<1>1. ASSUME MatchInv, [Next]_vars PROVE [Stands]_vars
  <2>1. CASE UNCHANGED answers
    BY <2>1
  <2>2. CASE \E m \in Match, u \in User, key \in Pick \cup {None} : Deadline(m, u, key)
    <3>1. PICK m \in Match, u \in User, key \in Pick \cup {None} : Deadline(m, u, key)
      BY <2>2
    <3>2. PICK d \in Engine : d = run[m][u]
      BY <1>1 DEF MatchInv, TypeOK
    <3>3. d.given \in [User -> Pick \cup {None}]
      BY <3>2 DEF Engine
    <3>4. PICK stored :
            answers' = [answers EXCEPT ![m] = RecordAnswers(m, d.idx, d.given, key, stored)]
      BY <3>1, <3>2 DEF Deadline
    <3> DEFINE a == RecordAnswers(m, d.idx, d.given, key, stored)
    <3>5. answers' = [answers EXCEPT ![m] = a]
      BY <3>4
    <3>6. \A v \in User, k \in Idx : answers[m][v][k] # NoRow => a[v][k] = answers[m][v][k]
      BY <1>1, <3>3, RecordFacts
    <3> HIDE DEF a
    <3> QED
      BY <1>1, <3>5, <3>6 DEF MatchInv, TypeOK
  <2>3. ASSUME NEW u \in User, Gateway(u) PROVE UNCHANGED answers
    BY <2>3 DEF Gateway, Connect, Disconnect, Unmap, MatchAnswer, rowVars
  <2>4. ASSUME NEW m \in Match, NEW u \in User, NEW v \in User, Matched(m, u, v)
        PROVE  UNCHANGED answers
    BY <2>4 DEF Matched, rowVars
  <2>5. ASSUME NEW m \in Match, NEW u \in User, Engines(m, u) \/ ReceiveAnswer(m, u),
               ~\E key \in Pick \cup {None} : Deadline(m, u, key)
        PROVE  UNCHANGED answers
    BY <2>5 DEF Engines, CreateMatch, JoinPeer, Launch, EngineStarting, FetchFails, EngineBegins,
       ReceiveAnswer, Scoring, FinalizePlayer, EngineDone, EngineOver, rowVars
  <2>6. CASE UNCHANGED vars
    BY <2>1, <2>6 DEF vars, rowVars
  <2> HIDE DEF Stands
  <2> QED
    BY <1>1, <2>1, <2>2, <2>3, <2>4, <2>5, <2>6, BattleMatchAssumption DEF Next
<1> QED
  BY <1>1, MatchInvariant, PTL DEF Spec, FirstAnswerStands
=============================================================================
