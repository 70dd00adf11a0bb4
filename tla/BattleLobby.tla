---------------------------- MODULE BattleLobby ----------------------------
(***************************************************************************)
(* services/battle, up to a match: players connect over WebSockets, queue  *)
(* in the lobby and are paired by the matchmaker's tick. What a match does *)
(* is BattleMatch.                                                         *)
(*                                                                         *)
(* Goroutines: per connection a read loop and a write loop; one for the    *)
(* ticks. The matchmaker's mutex is held during a whole tick: while        *)
(* `ticking`, no other operation of the lobby runs. Time is counted in     *)
(* units of widenAfter, as the age of the queue's entries.                 *)
(***************************************************************************)
EXTENDS Integers, FiniteSets

CONSTANTS
  User, Exam,
  Band,        \* rating bands that occur
  Conn,        \* slots for connections
  None,        \* no user, no connection
  Timeout      \* QueueTimeoutSec, in units of QueueWidenAfterSec (4)

ASSUME BattleLobbyAssumption ==
  /\ Band \subseteq Int
  /\ Timeout \in Nat
  /\ None \notin User \cup Conn

VARIABLES
  conns,    \* Server.conns: user -> connection
  conn,     \* the connections
  pending,  \* Matchmaker.pending: a set, in the order of `place`
  ticking   \* a tick holds the mutex

lobbyVars == <<pending, ticking>>
vars == <<conns, conn, lobbyVars>>

Entry == [place: Nat, user: User, exam: Exam, band: Band, age: Nat]
Connection == [user: User \cup {None}, opening: BOOLEAN, reading: BOOLEAN,
               writing: BOOLEAN, closed: BOOLEAN]

TypeOK ==
  /\ conns \in [User -> Conn \cup {None}]
  /\ conn \in [Conn -> Connection]
  /\ pending \in SUBSET Entry
  /\ ticking \in BOOLEAN

FreeConn == [user |-> None, opening |-> FALSE, reading |-> FALSE, writing |-> FALSE,
             closed |-> FALSE]

Init ==
  /\ conns = [u \in User |-> None]
  /\ conn = [c \in Conn |-> FreeConn]
  /\ pending = {}
  /\ ticking = FALSE

-----------------------------------------------------------------------------
(* Connections.                                                            *)

\* handleWebsocket up to conns.LoadAndDelete: an older connection is closed.
Open(c, u) ==
  /\ conn[c].user = None
  /\ conn' = [d \in Conn |->
       IF d = c THEN [FreeConn EXCEPT !.user = u, !.opening = TRUE]
       ELSE IF d = conns[u] THEN [conn[d] EXCEPT !.closed = TRUE] ELSE conn[d]]
  /\ conns' = [conns EXCEPT ![u] = None]
  /\ UNCHANGED lobbyVars

\* conns.Store, and the two loops start.
Store(c) ==
  /\ conn[c].opening
  /\ conns' = [conns EXCEPT ![conn[c].user] = c]
  /\ conn' = [conn EXCEPT ![c] = [conn[c] EXCEPT
                !.opening = FALSE, !.reading = TRUE, !.writing = TRUE]]
  /\ UNCHANGED lobbyVars

\* The queue without those who leave it: the others move up.
Ranked(S) == {[e EXCEPT !.place = 1 + Cardinality({f \in S : f.place < e.place})] : e \in S}

\* Matchmaker.Cancel.
Cancelled(u) == Ranked({e \in pending : e.user # u})

\* A slot is free again when both loops have returned.
Returned(c, d) == IF d.reading \/ d.writing THEN [conn EXCEPT ![c] = d]
                  ELSE [conn EXCEPT ![c] = FreeConn]

\* readLoop returns, since the client went away or Close was called.
ReadEnds(c) ==
  /\ conn[c].reading
  /\ ~ticking
  /\ pending' = Cancelled(conn[c].user)
  /\ conn' = Returned(c, [conn[c] EXCEPT !.reading = FALSE, !.closed = TRUE])
  /\ UNCHANGED <<conns, ticking>>

\* writeLoop returns: a write failed or Close was called. It deletes the
\* user's entry, whichever connection that is.
WriteEndsLeaving(c) ==
  /\ conn[c].writing
  /\ conn' = Returned(c, [conn[c] EXCEPT !.writing = FALSE, !.closed = TRUE])
  /\ UNCHANGED <<conns, lobbyVars>>

WriteEnds(c) ==
  /\ conn[c].writing
  /\ conns' = [conns EXCEPT ![conn[c].user] = None]
  /\ conn' = Returned(c, [conn[c] EXCEPT !.writing = FALSE, !.closed = TRUE])
  /\ UNCHANGED lobbyVars

-----------------------------------------------------------------------------
(* The lobby.                                                              *)

\* Enqueue: one who is queued is replaced in place (but waits from now),
\* another goes to the end.
EnqueueTwice(e) == pending \cup {[e EXCEPT !.place = Cardinality(pending) + 1]}

Enqueued(e) ==
  LET old == {f \in pending : f.user = e.user}
      at  == IF old = {} THEN Cardinality(pending) + 1
             ELSE (CHOOSE f \in old : TRUE).place
  IN  (pending \ old) \cup {[e EXCEPT !.place = at]}

\* handleLobbyQueue. The band is that of the rating the database has now.
LobbyQueue(c, x, b) ==
  /\ conn[c].reading
  /\ ~ticking
  /\ pending' = Enqueued([place |-> 0, user |-> conn[c].user, exam |-> x, band |-> b, age |-> 0])
  /\ UNCHANGED <<conns, conn, ticking>>

\* room.leave.
RoomLeave(c) ==
  /\ conn[c].reading
  /\ ~ticking
  /\ pending' = Cancelled(conn[c].user)
  /\ UNCHANGED <<conns, conn, ticking>>

\* QueueWidenAfterSec pass.
Wait ==
  /\ ~ticking
  /\ \E e \in pending : e.age < Timeout
  /\ pending' = {[e EXCEPT !.age = IF e.age < Timeout THEN e.age + 1 ELSE e.age] :
                   e \in pending}
  /\ UNCHANGED <<conns, conn, ticking>>

\* tick, up to the loop: who waited too long is removed.
KeepAll == pending
Kept == Ranked({e \in pending : e.age < Timeout})

TickStart ==
  /\ ~ticking
  /\ ticking' = TRUE
  /\ pending' = Kept
  /\ UNCHANGED <<conns, conn>>

Anchor == CHOOSE e \in pending : \A f \in pending : e.place <= f.place

\* findMates: the window widens with the anchor's age, and the exam counts
\* only in the first one.
Distance(a, b) == IF a <= b THEN b - a ELSE a - b

FitsAnyExam(a, e) ==
  /\ e.user # a.user
  /\ a.age < 1 => e.band = a.band
  /\ a.age < 3 => Distance(a.band, e.band) <= 1

Fits(a, e) ==
  /\ e.user # a.user
  /\ a.age < 1 => e.exam = a.exam /\ e.band = a.band
  /\ a.age < 3 => Distance(a.band, e.band) <= 1

Mates == {e \in pending : Fits(Anchor, e)}
Mate == CHOOSE e \in Mates : \A f \in Mates : e.place <= f.place

\* What removeUsers leaves.
Unpicked(a, e) == Ranked({f \in pending : f.user \notin {a.user, e.user}})

\* One turn of tick's loop: anchor and mate leave the queue (and the callback
\* of each is started).
FormMatch ==
  /\ ticking
  /\ pending # {} /\ Mates # {}
  /\ pending' = Unpicked(Anchor, Mate)
  /\ UNCHANGED <<conns, conn, ticking>>

\* The tick returns: the oldest finds no mate.
TickEnd ==
  /\ ticking
  /\ pending = {} \/ Mates = {}
  /\ ticking' = FALSE
  /\ UNCHANGED <<conns, conn, pending>>

-----------------------------------------------------------------------------
Loops(c) == ReadEnds(c) \/ WriteEnds(c)

Client(c) ==
  \/ \E u \in User : Open(c, u)
  \/ \E x \in Exam, b \in Band : LobbyQueue(c, x, b)
  \/ RoomLeave(c)

Tick == TickStart \/ TickEnd \/ FormMatch

Next ==
  \/ \E c \in Conn : Client(c) \/ Store(c) \/ Loops(c)
  \/ Wait
  \/ Tick

Spec == Init /\ [][Next]_vars

\* The ticker ticks and time passes between ticks (a mutex starves nobody);
\* a handler goes on, and the loops of a closed connection end.
FairSpec ==
  /\ Spec
  /\ WF_vars(Tick) /\ SF_vars(Wait)
  /\ \A c \in Conn : /\ WF_vars(Store(c))
                     /\ WF_vars(conn[c].closed /\ WriteEnds(c))
                     /\ SF_vars(conn[c].closed /\ ReadEnds(c))
=============================================================================
