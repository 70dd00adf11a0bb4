--------------------------- MODULE LobbyPromises ---------------------------
(***************************************************************************)
(* What the lobby of the battle service promises those who queue.          *)
(***************************************************************************)
EXTENDS BattleLobby

\* A user has one place in the queue, and a place has one user: Enqueue
\* replaces, whoever reconnects, leaves or is picked (matchmaker.go, Enqueue).
QueuedOnce ==
  \A e, f \in pending : e.user = f.user \/ e.place = f.place => e = f

\* A turn of the tick takes two players out of the queue. Two who both waited
\* less than widenAfter (30 s) are of one exam and one band; two who both waited
\* less than three times that are of one band or neighbouring ones, but of any
\* exams: the filter on the exam ends with the first window, as the comment in
\* findMates has it and not the one above findMates, which keeps it until the
\* second widening. Whoever of the two was first in the queue (matchmaker.go,
\* tick and findMates).
MatchIsFair ==
  [][ticking /\ ticking' =>
       \E e, f \in pending :
         /\ {g.user : g \in pending} \ {g.user : g \in pending'} = {e.user, f.user}
         /\ e.user # f.user
         /\ e.age < 1 /\ f.age < 1 => e.exam = f.exam /\ e.band = f.band
         /\ e.age < 3 /\ f.age < 3 => Distance(e.band, f.band) <= 1]_pending

\* Who waits does not stay in the queue: a match, a timeout or a leave ends it,
\* or queueing again begins another wait (matchmaker.go, tick).
EventuallyLeavesQueue ==
  \A u \in User :
    (\E e \in pending : e.user = u /\ e.age > 0)
      ~> ~(\E e \in pending : e.user = u /\ e.age > 0)

\* A connection that was closed leaves the map (server.go, writeLoop).
ClosedLeaves ==
  \A c \in Conn :
    conn[c].closed ~> ~(\E u \in User : conns[u] = c)

-----------------------------------------------------------------------------
\* The inductive invariant: the queue is a line of finitely many users, one
\* behind the other without a gap, and a connection in use has a user.
Lined(S) ==
  /\ IsFiniteSet(S)
  /\ \A e, f \in S : e.user = f.user \/ e.place = f.place => e = f
  /\ \A e \in S : e.place \in 1..Cardinality(S)

UserKnown ==
  \A c \in Conn :
    conn[c].opening \/ conn[c].reading \/ conn[c].writing => conn[c].user \in User

LobbyInv == TypeOK /\ Lined(pending) /\ UserKnown
=============================================================================
