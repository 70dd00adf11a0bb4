---------------------------- MODULE LobbyProofs -----------------------------
(***************************************************************************)
(* LobbyInv is inductive, for any users, exams, bands and connections: the *)
(* queue keeps its types and one place per user, and every match is fair.  *)
(***************************************************************************)
EXTENDS LobbyPromises, FiniteSetTheorems, FunctionTheorems, WellFoundedInduction,
        TLAPS

-----------------------------------------------------------------------------
(* Finite sets of numbers and of entries.                                  *)

\* Numbers have a least among them.
LEMMA LeastOf ==
  ASSUME NEW S \in SUBSET Nat, S # {}
  PROVE  \E n \in S : \A m \in S : n <= m
<1> DEFINE R == {ss \in Nat \X Nat : ss[1] < ss[2]}
<1>1. IsWellFoundedOn(R, Nat)
  BY NatLessThanWellFounded DEF OpToRel
<1>2. \A x, y \in Nat : <<x, y>> \in R <=> x < y
  OBVIOUS
<1>3. \E n \in S : \A y \in S : ~ (<<y, n>> \in R)
  <2> HIDE DEF R
  <2>. QED
    BY <1>1, WFMin
<1>4. PICK n \in S : \A y \in S : ~ (<<y, n>> \in R)
  BY <1>3
<1>5. \A m \in S : ~ (m < n)
  BY <1>2, <1>4
<1>6. \A m \in S : m \in Nat /\ n \in Nat
  OBVIOUS
<1>. QED
  BY <1>5, <1>6

\* Somebody is first.
LEMMA FirstOf ==
  ASSUME NEW S \in SUBSET Entry, S # {}
  PROVE  \E e \in S : \A f \in S : e.place <= f.place
<1>1. {e.place : e \in S} \in SUBSET Nat /\ {e.place : e \in S} # {}
  BY DEF Entry
<1>2. PICK n \in {e.place : e \in S} : \A m \in {e.place : e \in S} : n <= m
  BY <1>1, LeastOf
<1>. QED
  BY <1>2

\* Two sets of entries with the same users have the same number of entries.
LEMMA SameUsers ==
  ASSUME NEW S, NEW T, IsFiniteSet(S),
         \A e, f \in S : e.user = f.user => e = f,
         \A s, t \in T : s.user = t.user => s = t,
         \A e \in S : \E t \in T : t.user = e.user,
         \A t \in T : \E e \in S : e.user = t.user
  PROVE  IsFiniteSet(T) /\ Cardinality(T) = Cardinality(S)
<1> DEFINE g == [e \in S |-> CHOOSE t \in T : t.user = e.user]
<1>1. \A e \in S : g[e] \in T /\ g[e].user = e.user
  OBVIOUS
<1>2. g \in [S -> T]
  BY <1>1
<1> HIDE DEF g
<1>3. \A e, f \in S : g[e] = g[f] => e = f
  BY <1>1
<1>4. \A t \in T : \E e \in S : g[e] = t
  BY <1>1
<1>5. g \in Injection(S, T) /\ g \in Surjection(S, T)
  BY <1>2, <1>3, <1>4 DEF Injection, Surjection, IsInjective
<1>6. ExistsBijection(S, T)
  BY <1>5 DEF ExistsBijection, Bijection
<1>. QED
  BY <1>6, FS_Bijection

\* A line that some have left closes up, and keeps its users.
LEMMA RankedIsLined ==
  ASSUME NEW S \in SUBSET Entry, IsFiniteSet(S),
         \A e, f \in S : e.user = f.user \/ e.place = f.place => e = f
  PROVE  /\ Ranked(S) \subseteq Entry /\ Lined(Ranked(S))
         /\ \A e \in S : \E t \in Ranked(S) : t.user = e.user
         /\ \A t \in Ranked(S) : \E e \in S : e.user = t.user
<1> DEFINE Ahead(e) == {f \in S : f.place < e.place}
           rank == [e \in S |-> [e EXCEPT !.place = 1 + Cardinality(Ahead(e))]]
           T == Ranked(S)
<1>1. Cardinality(S) \in Nat
  BY FS_CardinalityType
<1>2. ASSUME NEW e \in S
      PROVE  /\ IsFiniteSet(Ahead(e)) /\ Cardinality(Ahead(e)) \in Nat
             /\ Cardinality(Ahead(e)) < Cardinality(S)
  <2>1. /\ IsFiniteSet(Ahead(e)) /\ Cardinality(Ahead(e)) <= Cardinality(S)
        /\ Cardinality(S) = Cardinality(Ahead(e)) => S = Ahead(e)
    BY FS_Subset
  <2>2. e \notin Ahead(e)
    BY DEF Entry
  <2>3. Cardinality(Ahead(e)) \in Nat
    BY <2>1, FS_CardinalityType
  <2>. QED
    BY <1>1, <2>1, <2>2, <2>3
<1>3. ASSUME NEW e \in S, NEW f \in S, e.place < f.place
      PROVE  Cardinality(Ahead(e)) < Cardinality(Ahead(f))
  <2>1. Ahead(e) \subseteq Ahead(f) /\ e \in Ahead(f) /\ e \notin Ahead(e)
    BY <1>3 DEF Entry
  <2>2. /\ Cardinality(Ahead(e)) <= Cardinality(Ahead(f))
        /\ Cardinality(Ahead(f)) = Cardinality(Ahead(e)) => Ahead(f) = Ahead(e)
    BY <1>2, <2>1, FS_Subset
  <2> HIDE DEF Ahead
  <2>. QED
    BY <1>2, <2>1, <2>2
<1>4. ASSUME NEW e \in S
      PROVE  /\ rank[e] \in Entry /\ rank[e] \in T /\ rank[e].user = e.user
             /\ rank[e].place = 1 + Cardinality(Ahead(e))
  <2>1. Cardinality(Ahead(e)) \in Nat
    BY <1>2
  <2>2. rank[e] = [e EXCEPT !.place = 1 + Cardinality(Ahead(e))]
    OBVIOUS
  <2>3. rank[e] \in T
    BY DEF Ranked
  <2>4. ASSUME NEW n \in Nat
        PROVE  LET t == [e EXCEPT !.place = 1 + n]
               IN  t \in Entry /\ t.user = e.user /\ t.place = 1 + n
    BY DEF Entry
  <2> HIDE DEF rank, T, Ahead
  <2>. QED
    BY <2>1, <2>2, <2>3, <2>4
<1>5. \A t \in T : \E e \in S : t = rank[e]
  BY DEF Ranked
<1> HIDE DEF rank, T, Ahead
<1>6. \A s, t \in T : s.user = t.user => s = t
  BY <1>4, <1>5
<1>7. IsFiniteSet(T) /\ Cardinality(T) = Cardinality(S)
  <2>1. /\ \A e \in S : \E t \in T : t.user = e.user
        /\ \A t \in T : \E e \in S : e.user = t.user
    BY <1>4, <1>5
  <2>2. \A e, f \in S : e.user = f.user => e = f
    OBVIOUS
  <2>. QED
    BY <1>6, <2>1, <2>2, SameUsers
<1>8. \A s, t \in T : s.place = t.place => s = t
  <2>1. ASSUME NEW e \in S, NEW f \in S, rank[e].place = rank[f].place
        PROVE  e = f
    <3>1. /\ Cardinality(Ahead(e)) = Cardinality(Ahead(f))
          /\ e.place \in Nat /\ f.place \in Nat
      BY <1>2, <1>4, <2>1 DEF Entry
    <3>2. ~ (e.place < f.place) /\ ~ (f.place < e.place)
      BY <1>2, <1>3, <3>1
    <3>. QED
      BY <3>1, <3>2
  <2>. QED
    BY <1>5, <2>1
<1>9. \A t \in T : t.place \in 1..Cardinality(T)
  BY <1>1, <1>2, <1>4, <1>5, <1>7
<1>10. T \subseteq Entry /\ Lined(T)
  BY <1>4, <1>5, <1>6, <1>7, <1>8, <1>9 DEF Lined
<1>. QED
  BY <1>4, <1>5, <1>10 DEF T

\* So do those who stay, whoever leaves the queue.
LEMMA LeavingIsLined ==
  ASSUME LobbyInv, NEW S \in SUBSET pending
  PROVE  /\ Ranked(S) \subseteq Entry /\ Lined(Ranked(S))
         /\ \A e \in S : \E t \in Ranked(S) : t.user = e.user
         /\ \A t \in Ranked(S) : \E e \in S : e.user = t.user
<1>1. /\ IsFiniteSet(S) /\ S \in SUBSET Entry
      /\ \A e, f \in S : e.user = f.user \/ e.place = f.place => e = f
  BY FS_Subset DEF LobbyInv, TypeOK, Lined
<1>. QED
  BY <1>1, RankedIsLined

\* Who queues gets the place of the entry it replaces, or the last.
LEMMA EnqueuedIsLined ==
  ASSUME LobbyInv, NEW e \in Entry
  PROVE  Enqueued(e) \subseteq Entry /\ Lined(Enqueued(e))
<1> DEFINE old == {f \in pending : f.user = e.user}
           at  == IF old = {} THEN Cardinality(pending) + 1
                  ELSE (CHOOSE f \in old : TRUE).place
           new == [e EXCEPT !.place = at]
           rest == pending \ old
<1>1. /\ Enqueued(e) = rest \cup {new}
      /\ IsFiniteSet(pending) /\ pending \subseteq Entry
      /\ Cardinality(pending) \in Nat
      /\ \A f, g \in pending : f.user = g.user \/ f.place = g.place => f = g
      /\ \A f \in pending : f.place \in 1..Cardinality(pending)
  BY FS_CardinalityType DEF Enqueued, LobbyInv, TypeOK, Lined
<1>2. /\ IsFiniteSet(rest) /\ at \in Nat \ {0}
      /\ \A f \in rest : f.user # e.user /\ f.place # at
      /\ at <= Cardinality(rest) + 1
      /\ \A f \in rest : f.place \in 1..(Cardinality(rest) + 1)
  <2>1. CASE old = {}
    <3>1. rest = pending /\ at = Cardinality(pending) + 1
      BY <2>1
    <3>2. \A f \in rest : f.user # e.user
      OBVIOUS
    <3> HIDE DEF rest, at
    <3>. QED
      BY <1>1, <3>1, <3>2
  <2>2. CASE old # {}
    <3> DEFINE f == CHOOSE g \in old : TRUE
    <3>1. f \in pending /\ f.user = e.user /\ at = f.place
      BY <2>2
    <3> HIDE DEF f, at
    <3>2. old = {f}
      BY <1>1, <3>1
    <3>3. IsFiniteSet(rest) /\ Cardinality(rest) = Cardinality(pending) - 1
      BY <1>1, <3>1, <3>2, FS_RemoveElement
    <3>4. \A g \in rest : g \in pending /\ g # f
      BY <3>2
    <3> HIDE DEF rest, old
    <3>5. \A g \in rest : g.user # e.user /\ g.place # at
      BY <1>1, <3>1, <3>4
    <3>. QED
      BY <1>1, <3>1, <3>3, <3>4, <3>5
  <2>. QED
    BY <2>1, <2>2
<1>3. rest \subseteq pending
  OBVIOUS
<1> HIDE DEF old, at, rest
<1>4. new \in Entry /\ new.user = e.user /\ new.place = at
  BY <1>2 DEF Entry
<1> HIDE DEF new
<1>5. /\ IsFiniteSet(rest \cup {new}) /\ Cardinality(rest) \in Nat
      /\ Cardinality(rest \cup {new}) = Cardinality(rest) + 1
  <2>1. new \notin rest
    BY <1>2, <1>4
  <2>. QED
    BY <1>2, <2>1, FS_AddElement, FS_CardinalityType
<1>6. \A f, g \in rest \cup {new} : f.user = g.user \/ f.place = g.place => f = g
  BY <1>1, <1>2, <1>3, <1>4
<1>7. \A f \in rest \cup {new} : f.place \in 1..(Cardinality(rest) + 1)
  BY <1>2, <1>4, <1>5
<1>. QED
  BY <1>1, <1>3, <1>4, <1>5, <1>6, <1>7 DEF Lined

\* Growing older moves nobody.
LEMMA WaitingIsLined ==
  ASSUME LobbyInv, Wait
  PROVE  pending' \subseteq Entry /\ Lined(pending')
<1> DEFINE older == [e \in pending |->
                       [e EXCEPT !.age = IF e.age < Timeout THEN e.age + 1 ELSE e.age]]
<1>1. /\ pending' = {[e EXCEPT !.age = IF e.age < Timeout THEN e.age + 1 ELSE e.age] :
                       e \in pending}
      /\ IsFiniteSet(pending) /\ pending \subseteq Entry
      /\ \A f, g \in pending : f.user = g.user \/ f.place = g.place => f = g
      /\ \A f \in pending : f.place \in 1..Cardinality(pending)
  BY DEF Wait, LobbyInv, TypeOK, Lined
<1>2. \A e \in pending : /\ older[e] \in pending' /\ older[e] \in Entry
                         /\ older[e].user = e.user /\ older[e].place = e.place
  BY <1>1 DEF Entry
<1>3. \A t \in pending' : \E e \in pending : t = older[e]
  BY <1>1
<1> HIDE DEF older
<1>4. \A s, t \in pending' : s.user = t.user \/ s.place = t.place => s = t
  BY <1>1, <1>2, <1>3
<1>5. \A e, f \in pending : e.user = f.user => e = f
  BY <1>1
<1>6. IsFiniteSet(pending') /\ Cardinality(pending') = Cardinality(pending)
  <2>1. /\ \A e \in pending : \E t \in pending' : t.user = e.user
        /\ \A t \in pending' : \E e \in pending : e.user = t.user
    BY <1>2, <1>3
  <2>2. \A s, t \in pending' : s.user = t.user => s = t
    BY <1>4
  <2>3. IsFiniteSet(pending)
    BY <1>1
  <2>. QED
    BY <1>5, <2>1, <2>2, <2>3, SameUsers
<1>7. \A t \in pending' : t \in Entry /\ t.place \in 1..Cardinality(pending')
  BY <1>1, <1>2, <1>3, <1>6
<1>. QED
  BY <1>4, <1>6, <1>7 DEF Lined

-----------------------------------------------------------------------------
(* The steps.                                                              *)

\* Any queue that is a line of entries keeps the rest of LobbyInv.
LEMMA ConnectionsKept ==
  ASSUME LobbyInv, UNCHANGED <<conns, conn>>, ticking' \in BOOLEAN,
         pending' \subseteq Entry, Lined(pending')
  PROVE  LobbyInv'
BY DEF LobbyInv, TypeOK, UserKnown

LEMMA InitLobby == Init => LobbyInv
<1> SUFFICES ASSUME Init PROVE LobbyInv
  OBVIOUS
<1>1. TypeOK /\ UserKnown
  BY DEF Init, TypeOK, UserKnown, FreeConn, Connection
<1>2. Lined(pending)
  BY FS_EmptySet DEF Init, Lined
<1>. QED
  BY <1>1, <1>2 DEF LobbyInv

\* A connection that opens, is stored or loses a loop.
LEMMA ReturnedTypes ==
  ASSUME LobbyInv, NEW c \in Conn, NEW d \in Connection,
         d.opening \/ d.reading \/ d.writing => d.user \in User,
         conn' = Returned(c, d)
  PROVE  conn' \in [Conn -> Connection] /\ UserKnown'
<1>1. conn \in [Conn -> Connection] /\ FreeConn \in Connection
  BY DEF LobbyInv, TypeOK, FreeConn, Connection
<1>2. conn' \in [Conn -> Connection] /\ conn'[c] \in {d, FreeConn}
      /\ \A x \in Conn : x # c => conn'[x] = conn[x]
  BY <1>1 DEF Returned
<1>. QED
  BY <1>2 DEF LobbyInv, UserKnown, FreeConn

LEMMA OpenLobby ==
  ASSUME LobbyInv, NEW c \in Conn, NEW u \in User, Open(c, u)
  PROVE  LobbyInv'
<1>1. conn \in [Conn -> Connection] /\ conns \in [User -> Conn \cup {None}]
  BY DEF LobbyInv, TypeOK
<1> DEFINE fresh == [FreeConn EXCEPT !.user = u, !.opening = TRUE]
<1>2. fresh \in Connection /\ fresh.user = u
  BY DEF FreeConn, Connection
<1>3. \A d \in Conn : LET x == [conn[d] EXCEPT !.closed = TRUE]
                      IN  /\ x \in Connection /\ x.user = conn[d].user
                          /\ x.opening = conn[d].opening
                          /\ x.reading = conn[d].reading
                          /\ x.writing = conn[d].writing
  BY <1>1 DEF Connection
<1> HIDE DEF fresh
<1>4. conn' = [d \in Conn |->
        IF d = c THEN fresh
        ELSE IF d = conns[u] THEN [conn[d] EXCEPT !.closed = TRUE] ELSE conn[d]]
  BY DEF Open, fresh
<1>5. conn' \in [Conn -> Connection]
  BY <1>1, <1>2, <1>3, <1>4
<1>6. UserKnown'
  BY <1>2, <1>3, <1>4 DEF LobbyInv, UserKnown
<1>7. conns' \in [User -> Conn \cup {None}]
  BY <1>1 DEF Open
<1>. QED
  BY <1>5, <1>6, <1>7 DEF Open, LobbyInv, TypeOK, lobbyVars

LEMMA StoreLobby ==
  ASSUME LobbyInv, NEW c \in Conn, Store(c)
  PROVE  LobbyInv'
<1>1. /\ conn \in [Conn -> Connection] /\ conns \in [User -> Conn \cup {None}]
      /\ conn[c].user \in User
  BY DEF LobbyInv, TypeOK, UserKnown, Store
<1> DEFINE d == [conn[c] EXCEPT !.opening = FALSE, !.reading = TRUE, !.writing = TRUE]
<1>2. d \in Connection /\ d.user = conn[c].user
  BY <1>1 DEF Connection
<1>3. conn' = [conn EXCEPT ![c] = d] /\ conns' = [conns EXCEPT ![conn[c].user] = c]
      /\ UNCHANGED lobbyVars
  BY DEF Store
<1> HIDE DEF d
<1>4. conn' \in [Conn -> Connection] /\ conns' \in [User -> Conn \cup {None}]
  BY <1>1, <1>2, <1>3
<1>5. UserKnown'
  BY <1>1, <1>2, <1>3 DEF LobbyInv, UserKnown
<1>. QED
  BY <1>3, <1>4, <1>5 DEF LobbyInv, TypeOK, lobbyVars

LEMMA LoopsLobby ==
  ASSUME LobbyInv, NEW c \in Conn, Loops(c)
  PROVE  LobbyInv'
<1>1. /\ conn \in [Conn -> Connection] /\ conns \in [User -> Conn \cup {None}]
      /\ conn[c].user \in User /\ pending \subseteq Entry
  BY DEF LobbyInv, TypeOK, UserKnown, Loops, ReadEnds, WriteEnds
<1>2. CASE ReadEnds(c)
  <2> DEFINE d == [conn[c] EXCEPT !.reading = FALSE, !.closed = TRUE]
  <2>1. d \in Connection /\ d.user = conn[c].user /\ conn' = Returned(c, d)
    BY <1>1, <1>2 DEF Connection, ReadEnds
  <2> HIDE DEF d
  <2>2. conn' \in [Conn -> Connection] /\ UserKnown'
    BY <1>1, <2>1, ReturnedTypes
  <2>3. pending' \subseteq Entry /\ Lined(pending')
    <3> DEFINE S == {e \in pending : e.user # conn[c].user}
    <3>1. S \in SUBSET pending /\ pending' = Ranked(S)
      BY <1>2 DEF ReadEnds, Cancelled
    <3> HIDE DEF S
    <3>. QED
      BY <3>1, LeavingIsLined
  <2>. QED
    BY <1>2, <2>2, <2>3 DEF ReadEnds, LobbyInv, TypeOK
<1>3. CASE WriteEnds(c)
  <2> DEFINE d == [conn[c] EXCEPT !.writing = FALSE, !.closed = TRUE]
  <2>1. d \in Connection /\ d.user = conn[c].user /\ conn' = Returned(c, d)
    BY <1>1, <1>3 DEF Connection, WriteEnds
  <2> HIDE DEF d
  <2>2. conn' \in [Conn -> Connection] /\ UserKnown'
    BY <1>1, <2>1, ReturnedTypes
  <2>. QED
    BY <1>1, <1>3, <2>2 DEF WriteEnds, LobbyInv, TypeOK, lobbyVars
<1>. QED
  BY <1>2, <1>3 DEF Loops

LEMMA QueueLobby ==
  ASSUME LobbyInv, NEW c \in Conn,
         RoomLeave(c) \/ \E x \in Exam, b \in Band : LobbyQueue(c, x, b)
  PROVE  LobbyInv'
<1>1. /\ conn[c].user \in User /\ UNCHANGED <<conns, conn>>
      /\ ticking' \in BOOLEAN
  BY DEF LobbyInv, TypeOK, UserKnown, RoomLeave, LobbyQueue
<1>2. CASE RoomLeave(c)
  <2> DEFINE S == {e \in pending : e.user # conn[c].user}
  <2>1. S \in SUBSET pending /\ pending' = Ranked(S)
    BY <1>2 DEF RoomLeave, Cancelled
  <2> HIDE DEF S
  <2>. QED
    BY <1>1, <2>1, LeavingIsLined, ConnectionsKept
<1>3. ASSUME NEW x \in Exam, NEW b \in Band, LobbyQueue(c, x, b) PROVE LobbyInv'
  <2> DEFINE e == [place |-> 0, user |-> conn[c].user, exam |-> x, band |-> b, age |-> 0]
  <2>1. e \in Entry /\ pending' = Enqueued(e)
    BY <1>1, <1>3 DEF LobbyQueue, Entry
  <2> HIDE DEF e
  <2>. QED
    BY <1>1, <2>1, EnqueuedIsLined, ConnectionsKept
<1>. QED
  BY <1>2, <1>3

LEMMA TickLobby ==
  ASSUME LobbyInv, Wait \/ Tick
  PROVE  LobbyInv'
<1>1. pending \subseteq Entry /\ Lined(pending)
  BY DEF LobbyInv, TypeOK
<1>2. CASE Wait
  <2>1. UNCHANGED <<conns, conn, ticking>>
    BY <1>2 DEF Wait
  <2>2. ticking' \in BOOLEAN
    BY <2>1 DEF LobbyInv, TypeOK
  <2>. QED
    BY <1>2, <2>1, <2>2, WaitingIsLined, ConnectionsKept
<1>3. CASE TickStart
  <2> DEFINE S == {e \in pending : e.age < Timeout}
  <2>1. S \in SUBSET pending /\ pending' = Ranked(S)
        /\ ticking' = TRUE /\ UNCHANGED <<conns, conn>>
    BY <1>3 DEF TickStart, Kept
  <2> HIDE DEF S
  <2>. QED
    BY <2>1, LeavingIsLined, ConnectionsKept
<1>4. CASE FormMatch
  <2> DEFINE S == {f \in pending : f.user \notin {Anchor.user, Mate.user}}
  <2>1. S \in SUBSET pending /\ pending' = Ranked(S)
        /\ UNCHANGED <<conns, conn, ticking>>
    BY <1>4 DEF FormMatch, Unpicked
  <2>2. ticking' \in BOOLEAN
    BY <2>1 DEF LobbyInv, TypeOK
  <2> HIDE DEF S
  <2>. QED
    BY <2>1, <2>2, LeavingIsLined, ConnectionsKept
<1>5. CASE TickEnd
  BY <1>1, <1>5, ConnectionsKept DEF TickEnd
<1>. QED
  BY <1>2, <1>3, <1>4, <1>5 DEF Tick

LEMMA StepLobby == LobbyInv /\ [Next]_vars => LobbyInv'
<1> SUFFICES ASSUME LobbyInv, [Next]_vars PROVE LobbyInv'
  OBVIOUS
<1>1. CASE UNCHANGED vars
  BY <1>1 DEF vars, lobbyVars, LobbyInv, TypeOK, UserKnown
<1>2. CASE Next
  BY <1>2, OpenLobby, StoreLobby, LoopsLobby, QueueLobby, TickLobby
     DEF Next, Client
<1>. QED
  BY <1>1, <1>2

-----------------------------------------------------------------------------
(* What follows.                                                           *)

\* Reconnecting, queueing, leaving, waiting and being picked keep LobbyInv.
THEOREM LobbyInvariant == Spec => []LobbyInv
<1>. QED
  BY InitLobby, StepLobby, PTL DEF Spec

\* Places and ages of the queue stay numbers, connections stay connections.
THEOREM LobbyTypes == Spec => []TypeOK
<1>1. LobbyInv => TypeOK
  BY DEF LobbyInv
<1>. QED
  BY <1>1, LobbyInvariant, PTL

\* A user is in the queue at most once, and no place is given twice.
THEOREM OnePlaceEach == Spec => []QueuedOnce
<1>1. LobbyInv => QueuedOnce
  BY DEF LobbyInv, Lined, QueuedOnce
<1>. QED
  BY <1>1, LobbyInvariant, PTL

\* The oldest of the queue and the oldest it fits are picked: two entries of
\* the queue, which leave it and alone do.
LEMMA PickedPair ==
  ASSUME LobbyInv, FormMatch
  PROVE  /\ Anchor \in pending /\ Mate \in pending /\ Fits(Anchor, Mate)
         /\ {g.user : g \in pending} \ {g.user : g \in pending'}
              = {Anchor.user, Mate.user}
<1>1. pending \subseteq Entry /\ pending # {} /\ Mates # {} /\ Mates \subseteq pending
  BY DEF LobbyInv, TypeOK, FormMatch, Mates
<1>2. Anchor \in pending
  BY <1>1, FirstOf DEF Anchor
<1>3. Mate \in Mates
  BY <1>1, FirstOf DEF Mate
<1>4. Mate \in pending /\ Fits(Anchor, Mate)
  BY <1>3 DEF Mates
<1> DEFINE S == {f \in pending : f.user \notin {Anchor.user, Mate.user}}
<1>5. S \in SUBSET pending /\ pending' = Ranked(S)
  BY DEF FormMatch, Unpicked
<1>6. /\ \A e \in S : \E t \in pending' : t.user = e.user
      /\ \A t \in pending' : \E e \in S : e.user = t.user
  <2> HIDE DEF S
  <2>. QED
    BY <1>5, LeavingIsLined
<1>7. {g.user : g \in pending'} = {g.user : g \in S}
  <2> HIDE DEF S
  <2>. QED
    BY <1>6
<1>8. {g.user : g \in pending} \ {g.user : g \in S} = {Anchor.user, Mate.user}
  BY <1>2, <1>4
<1>. QED
  BY <1>2, <1>4, <1>7, <1>8

\* Every match the tick makes keeps to the windows of its players' waiting: one
\* exam and band in the first, neighbouring bands and any exam in the second,
\* anybody after it; however long the queue is and whoever came, left or queued
\* again before it.
THEOREM MatchesAreFair == Spec => MatchIsFair
<1> DEFINE A == ticking /\ ticking' =>
       \E e, f \in pending :
         /\ {g.user : g \in pending} \ {g.user : g \in pending'} = {e.user, f.user}
         /\ e.user # f.user
         /\ e.age < 1 /\ f.age < 1 => e.exam = f.exam /\ e.band = f.band
         /\ e.age < 3 /\ f.age < 3 => Distance(e.band, f.band) <= 1
<1>1. ASSUME LobbyInv, [Next]_vars, ticking, ticking', pending' # pending
      PROVE  FormMatch
  <2>1. ~ UNCHANGED vars
    BY <1>1 DEF vars, lobbyVars
  <2>2. ASSUME NEW c \in Conn
        PROVE  ~ (Client(c) \/ Store(c) \/ Loops(c))
    <3>1. \A u \in User : ~ Open(c, u)
      BY <1>1 DEF Open, lobbyVars
    <3>2. ~ RoomLeave(c) /\ \A x \in Exam, b \in Band : ~ LobbyQueue(c, x, b)
      BY <1>1 DEF RoomLeave, LobbyQueue
    <3>3. ~ Store(c) /\ ~ Loops(c)
      BY <1>1 DEF Store, Loops, ReadEnds, WriteEnds, lobbyVars
    <3>. QED
      BY <3>1, <3>2, <3>3 DEF Client
  <2>. QED
    BY <1>1, <2>1, <2>2 DEF Next, Wait, Tick, TickStart, TickEnd
<1>2. ASSUME LobbyInv, FormMatch PROVE A
  <2>1. /\ Anchor \in pending /\ Mate \in pending /\ Fits(Anchor, Mate)
        /\ {g.user : g \in pending} \ {g.user : g \in pending'}
             = {Anchor.user, Mate.user}
    BY <1>2, PickedPair
  <2>. QED
    BY <2>1 DEF Fits
<1>3. LobbyInv /\ [Next]_vars => [A]_pending
  BY <1>1, <1>2
<1>. QED
  BY <1>3, LobbyInvariant, PTL DEF Spec, MatchIsFair
=============================================================================
