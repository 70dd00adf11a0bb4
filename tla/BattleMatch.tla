---------------------------- MODULE BattleMatch ----------------------------
(***************************************************************************)
(* services/battle, from the tick that pairs players: startMatch and       *)
(* Engine.Run. The matchmaker starts the OnMatched callback of each player *)
(* it picked; each callback creates the match, joins the players and       *)
(* launches an engine: run[m][u] is the callback of player u of match m    *)
(* and then the engine it launched.                                        *)
(*                                                                         *)
(* The connections (BattleLobby) are abstracted to what a match needs: per *)
(* user the last one, whether it is in Server.conns, and the match it is   *)
(* marked with. One that is neither in the map nor marked is as good as    *)
(* none.                                                                   *)
(*                                                                         *)
(* The callbacks and the engines discard the errors of their statements:   *)
(* the insert of a player, of an answer, the update of a rank and of a     *)
(* rating may each fail, and the caller goes on. The row of the match is   *)
(* the exception: its insert and its status are modelled as succeeding.    *)
(***************************************************************************)
EXTENDS Integers, Sequences, FiniteSets

CONSTANTS
  User,
  Online,      \* the users who have a client while the match is on
  Match,       \* ids of matches
  None,        \* no user, no match, no choice
  Pick,        \* choices of a question
  Questions,   \* QuestionsPerMatch
  ChanCap,     \* capacity of answerCh
  Lossy,       \* the kinds of statement that may fail
  MaxFailed    \* bound: statements that fail in a match, one of a kind and player

ASSUME BattleMatchAssumption ==
  /\ Online \subseteq User
  /\ Questions \in Nat /\ ChanCap \in Nat /\ MaxFailed \in Nat
  /\ Lossy \subseteq {"player", "answer", "rank", "rating"}
  /\ None \notin User \cup Match \cup Pick

VARIABLES
  conn,     \* the connections
  party,    \* the peers of a match
  run,      \* callbacks and engines
  matches,  \* Server.matches: match -> the player whose callback stored last
  status,   \* matches.status
  players,  \* the rows of match_players
  answers,  \* match_answers
  ranks,    \* match_players.final_rank, 0 when NULL
  rated,    \* updates of a player's rating for a match
  failed    \* statements that failed: the code keeps no trace of them

rowVars == <<status, players, answers, ranks, rated, failed>>
vars == <<conn, party, run, matches, rowVars>>

Idx == 1..Questions
Msg == [user: User, idx: Idx, pick: Pick]
Row == [pick: Pick \cup {None}, correct: BOOLEAN]
Phase == {"none", "create", "join", "launch", "starting", "fetch",
          "asking", "final", "cleanup", "over"}
Status == {"none", "LOBBY", "STARTING", "IN_PROGRESS", "SCORING", "DONE", "ABANDONED"}
Ended == {"DONE", "ABANDONED"}

Connection == [mapped: BOOLEAN, match: Match \cup {None}]
Engine == [phase: Phase,
           todo: SUBSET User,                    \* players a loop has yet to visit
           idx: Nat,                             \* the question asked
           inbox: Seq(Msg),                      \* answerCh
           given: [User -> Pick \cup {None}],    \* Answers[idx]
           score: [User -> Nat]]

TypeOK ==
  /\ conn \in [User -> Connection]
  /\ party \in [Match -> SUBSET User]
  /\ run \in [Match -> [User -> Engine]]
  /\ matches \in [Match -> User \cup {None}]
  /\ status \in [Match -> Status]
  /\ answers \in [Match -> [User -> [Idx -> Row]]]
  /\ ranks \in [Match -> [User -> Nat]]
  /\ rated \in [Match -> [User -> Nat]]
  /\ players \in [Match -> SUBSET User]
  /\ failed \in [Match -> SUBSET (Lossy \X User)]

NoConn == [mapped |-> FALSE, match |-> None]
NewConn == [mapped |-> TRUE, match |-> None]
NoRow == [pick |-> None, correct |-> FALSE]
NoEngine == [phase |-> "none", todo |-> {}, idx |-> 0, inbox |-> <<>>,
             given |-> [u \in User |-> None], score |-> [u \in User |-> 0]]

Init ==
  /\ conn = [u \in User |-> NoConn]
  /\ party = [m \in Match |-> {}]
  /\ run = [m \in Match |-> [u \in User |-> NoEngine]]
  /\ matches = [m \in Match |-> None]
  /\ status = [m \in Match |-> "none"]
  /\ answers = [m \in Match |-> [u \in User |-> [i \in Idx |-> NoRow]]]
  /\ ranks = [m \in Match |-> [u \in User |-> 0]]
  /\ rated = [m \in Match |-> [u \in User |-> 0]]
  /\ players = [m \in Match |-> {}]
  /\ failed = [m \in Match |-> {}]

-----------------------------------------------------------------------------
(* What the gateway and the lobby do.                                      *)

\* handleWebsocket: a new connection takes the place of an older one.
Connect(u) ==
  /\ conn' = [conn EXCEPT ![u] = NewConn]
  /\ UNCHANGED <<party, run, matches, rowVars>>

Disconnect(u) ==
  /\ conn[u] # NoConn
  /\ conn' = [conn EXCEPT ![u] = NoConn]
  /\ UNCHANGED <<party, run, matches, rowVars>>

\* The write loop of an older connection deletes the user's entry.
Unmap(u) ==
  /\ conn[u].mapped
  /\ conn' = [conn EXCEPT ![u] = [conn[u] EXCEPT !.mapped = FALSE]]
  /\ UNCHANGED <<party, run, matches, rowVars>>

\* tick forms a match and starts the callbacks. Who is in a match may queue
\* again: nothing asks.
Matched(m, u, v) ==
  /\ party[m] = {} /\ u # v
  /\ party' = [party EXCEPT ![m] = {u, v}]
  /\ run' = [run EXCEPT ![m] = [w \in User |->
       IF w \in {u, v} THEN [run[m][w] EXCEPT !.phase = "create"] ELSE run[m][w]]]
  /\ UNCHANGED <<conn, matches, rowVars>>

-----------------------------------------------------------------------------
(* startMatch, once per matched player.                                    *)

Move(m, u, e) == run' = [run EXCEPT ![m] = [run[m] EXCEPT ![u] = e]]
At(m, u, phase) == run[m][u].phase = phase

\* CreateMatch: the second INSERT of the id fails, and nobody looks.
CreateMatch(m, u) ==
  /\ At(m, u, "create")
  /\ status' = [status EXCEPT ![m] = IF status[m] = "none" THEN "LOBBY" ELSE status[m]]
  /\ Move(m, u, [run[m][u] EXCEPT !.phase = "join", !.todo = party[m]])
  /\ UNCHANGED <<conn, party, matches, players, answers, ranks, rated, failed>>

\* These statements fail for the players of P; their errors are discarded.
Failing(m, S, P) ==
  /\ S \X P \subseteq Lossy \X User
  /\ failed' = [failed EXCEPT ![m] = failed[m] \cup (S \X P)]
  /\ Cardinality(failed'[m]) <= MaxFailed

\* One peer: AddPlayer, ON CONFLICT DO NOTHING and its error discarded; then
\* its connection, if there is one in the map, is told and marked.
JoinPeer(m, u, p) ==
  /\ At(m, u, "join")
  /\ p \in run[m][u].todo
  /\ \/ /\ players' = [players EXCEPT ![m] = players[m] \cup {p}]
        /\ UNCHANGED failed
     \/ Failing(m, {"player"}, {p}) /\ UNCHANGED players
  /\ conn' = IF conn[p].mapped THEN [conn EXCEPT ![p] = [conn[p] EXCEPT !.match = m]] ELSE conn
  /\ Move(m, u, [run[m][u] EXCEPT
       !.todo = run[m][u].todo \ {p},
       !.phase = IF run[m][u].todo = {p} THEN "launch" ELSE "join"])
  /\ UNCHANGED <<party, matches, status, answers, ranks, rated>>

\* matches.Store and the goroutine of the engine.
Launch(m, u) ==
  /\ At(m, u, "launch")
  /\ matches' = [matches EXCEPT ![m] = u]
  /\ Move(m, u, [run[m][u] EXCEPT !.phase = "starting"])
  /\ UNCHANGED <<conn, party, rowVars>>

-----------------------------------------------------------------------------
(* Engine.Run.                                                             *)

SetStatus(m, s) == status' = [status EXCEPT ![m] = s]

\* handleMatchAnswer: to the engine that is in the map. It is dropped when
\* the channel is full, and may be when c.matchID, which nothing guards, is
\* read torn. After the last question nobody receives: the channel is left out.
MatchAnswer(v, i, p) ==
  /\ conn[v].match # None
  /\ matches[conn[v].match] # None
  /\ LET m == conn[v].match
         e == run[m][matches[m]]
     IN  /\ e.phase \notin {"final", "cleanup"} /\ e.idx <= Questions
         /\ Len(e.inbox) < ChanCap
         /\ Move(m, matches[m], [e EXCEPT !.inbox =
              Append(e.inbox, [user |-> v, idx |-> i, pick |-> p])])
  /\ UNCHANGED <<conn, party, matches, rowVars>>

EngineStarting(m, u) ==
  /\ At(m, u, "starting")
  /\ SetStatus(m, "STARTING")
  /\ Move(m, u, [run[m][u] EXCEPT !.phase = "fetch"])
  /\ UNCHANGED <<conn, party, matches, players, answers, ranks, rated, failed>>

\* FetchForMatch fails: the match is abandoned.
FetchFails(m, u) ==
  /\ At(m, u, "fetch")
  /\ SetStatus(m, "ABANDONED")
  /\ Move(m, u, [run[m][u] EXCEPT !.phase = "cleanup"])
  /\ UNCHANGED <<conn, party, matches, players, answers, ranks, rated, failed>>

\* The questions are there, the ratings are seeded, three seconds pass.
EngineBegins(m, u) ==
  /\ At(m, u, "fetch")
  /\ SetStatus(m, "IN_PROGRESS")
  /\ Move(m, u, [run[m][u] EXCEPT !.phase = "asking", !.idx = 1])
  /\ UNCHANGED <<conn, party, matches, players, answers, ranks, rated, failed>>

\* runQuestion receives an answer: late ones, those of others and all but the
\* first are ignored.
ReceiveAnswer(m, u) ==
  /\ At(m, u, "asking")
  /\ run[m][u].idx <= Questions
  /\ run[m][u].inbox # <<>>
  /\ LET e == run[m][u]
         a == Head(e.inbox)
         counts == a.idx = e.idx /\ a.user \in party[m] /\ e.given[a.user] = None
     IN  Move(m, u, [e EXCEPT
           !.inbox = Tail(e.inbox),
           !.given = IF counts THEN [e.given EXCEPT ![a.user] = a.pick] ELSE e.given])
  /\ UNCHANGED <<conn, party, matches, rowVars>>

\* RecordAnswer: ON CONFLICT DO NOTHING, and its error discarded. It fails for
\* a player without a row in match_players, the foreign key, and may for any
\* other: stored are those it succeeds for. The inserts of the players are one
\* step: each has rows of its own.
RowOf(v, given, key) == [pick |-> given[v], correct |-> given[v] = key]
\* Mutant of RecordAnswers: the last answer stands.
RecordOver(m, i, given, key, stored) ==
  [v \in User |-> IF v \notin stored THEN answers[m][v]
                  ELSE [answers[m][v] EXCEPT ![i] = RowOf(v, given, key)]]
RecordAnswers(m, i, given, key, stored) ==
  [v \in User |-> IF v \notin stored \/ answers[m][v][i] # NoRow THEN answers[m][v]
                  ELSE [answers[m][v] EXCEPT ![i] = RowOf(v, given, key)]]

\* The deadline: each engine fetched and shuffled its own questions, so any
\* choice may be the right one, or none that was given. A right answer scores
\* one point here, less than with its time.
\* Mutant of Deadline: the question closes only when everybody answered.
AllAnswered(m, u, key) ==
  /\ At(m, u, "asking")
  /\ run[m][u].idx <= Questions
  /\ \A v \in party[m] : run[m][u].given[v] # None
  /\ Move(m, u, [run[m][u] EXCEPT !.idx = run[m][u].idx + 1, !.given = [v \in User |-> None]])
  /\ UNCHANGED <<conn, party, matches, rowVars>>

Deadline(m, u, key) ==
  /\ At(m, u, "asking")
  /\ run[m][u].idx <= Questions
  /\ LET e == run[m][u]
         answered == {v \in User : e.given[v] # None}
         tried == answered \cap players[m]
     IN  /\ \E stored \in SUBSET tried :
              /\ answers' = [answers EXCEPT ![m] = RecordAnswers(m, e.idx, e.given, key, stored)]
              /\ Failing(m, {"answer"}, tried \ stored)
         /\ Move(m, u, [e EXCEPT
              !.idx = e.idx + 1,
              !.inbox = IF e.idx = Questions THEN <<>> ELSE e.inbox,
              !.given = [v \in User |-> None],
              !.score = [v \in User |-> e.score[v] +
                          IF e.given[v] # None /\ e.given[v] = key THEN 1 ELSE 0]])
  /\ UNCHANGED <<conn, party, matches, status, players, ranks, rated>>

Scoring(m, u) ==
  /\ At(m, u, "asking")
  /\ run[m][u].idx > Questions
  /\ SetStatus(m, "SCORING")
  /\ Move(m, u, [run[m][u] EXCEPT !.phase = "final", !.todo = party[m], !.inbox = <<>>])
  /\ UNCHANGED <<conn, party, matches, players, answers, ranks, rated, failed>>

\* finalize, for the best of the players that are left. The errors of both
\* statements are discarded: the update of the rank may fail, or find no row,
\* and the rating's may fail, each whatever the other does.
FinalizePlayer(m, u, p) ==
  /\ At(m, u, "final")
  /\ p \in run[m][u].todo
  /\ \A v \in run[m][u].todo : run[m][u].score[v] <= run[m][u].score[p]
  /\ \E lost \in SUBSET ({"rank", "rating"} \cap Lossy) :
       /\ ranks' = IF "rank" \in lost \/ p \notin players[m] THEN ranks
                   ELSE [ranks EXCEPT ![m] = [ranks[m] EXCEPT ![p] =
                           Cardinality(party[m] \ run[m][u].todo) + 1]]
       /\ rated' = IF "rating" \in lost THEN rated
                   ELSE [rated EXCEPT ![m] = [rated[m] EXCEPT ![p] = rated[m][p] + 1]]
       /\ Failing(m, lost, {p})
  /\ Move(m, u, [run[m][u] EXCEPT !.todo = run[m][u].todo \ {p}])
  /\ UNCHANGED <<conn, party, matches, status, players, answers>>

\* Mutant of EngineDone: the match is done before its players are ranked.
EngineDoneEarly(m, u) ==
  /\ At(m, u, "final")
  /\ SetStatus(m, "DONE")
  /\ Move(m, u, [run[m][u] EXCEPT !.phase = "cleanup"])
  /\ UNCHANGED <<conn, party, matches, players, answers, ranks, rated, failed>>

EngineDone(m, u) ==
  /\ At(m, u, "final")
  /\ run[m][u].todo = {}
  /\ SetStatus(m, "DONE")
  /\ Move(m, u, [run[m][u] EXCEPT !.phase = "cleanup"])
  /\ UNCHANGED <<conn, party, matches, players, answers, ranks, rated, failed>>

\* After Run: matches.Delete, whichever engine is stored, and the peers'
\* connections of now are no longer in a match, whichever they are in.
EngineOver(m, u) ==
  /\ At(m, u, "cleanup")
  /\ matches' = [matches EXCEPT ![m] = None]
  /\ conn' = [p \in User |-> IF p \in party[m] /\ conn[p].mapped
                          THEN [conn[p] EXCEPT !.match = None] ELSE conn[p]]
  /\ Move(m, u, [NoEngine EXCEPT !.phase = "over"])
  /\ UNCHANGED <<party, rowVars>>

-----------------------------------------------------------------------------
Gateway(u) ==
  \/ Connect(u) \/ Disconnect(u) \/ Unmap(u)
  \/ \E i \in Idx, p \in Pick : MatchAnswer(u, i, p)

Engines(m, u) ==
  \/ CreateMatch(m, u)
  \/ \E p \in User : JoinPeer(m, u, p)
  \/ Launch(m, u)
  \/ EngineStarting(m, u)
  \/ FetchFails(m, u)
  \/ EngineBegins(m, u)
  \/ \E key \in Pick \cup {None} : Deadline(m, u, key)
  \/ Scoring(m, u)
  \/ \E p \in User : FinalizePlayer(m, u, p)
  \/ EngineDone(m, u)
  \/ EngineOver(m, u)

Next ==
  \/ \E u \in Online : Gateway(u)
  \/ \E m \in Match, u, v \in User : Matched(m, u, v)
  \/ \E m \in Match, u \in User : Engines(m, u) \/ ReceiveAnswer(m, u)

Spec == Init /\ [][Next]_vars

\* Callbacks and engines run on; a question has a deadline whatever is received.
FairSpec == Spec /\ \A m \in Match, u \in User : WF_vars(Engines(m, u))
=============================================================================
