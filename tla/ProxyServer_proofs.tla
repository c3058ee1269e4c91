--------------------------- MODULE ProxyServer_proofs ---------------------------
(***************************************************************************)
(* Proofs about ProxyServer for any number of clients.                     *)
(*                                                                         *)
(* What stop() misses is bounded by an invariant in three parts.  Turns:   *)
(* the accept and the handshake take turns, each with one client.  Listed: *)
(* sessions hold exactly the clients that were handed over, and a stopped  *)
(* server neither waits for an accept nor has a backlog.  Missed: a client *)
(* out of stop()'s reach is the only one, and while a listed session is    *)
(* still in its handshake there is none.                                   *)
(***************************************************************************)
EXTENDS ProxyServer, TLAPS

InHandshake(c) == client[c] \in {"version", "auth"}

Turns ==
    /\ loop \in {"free", "crashed"} => accept # "none" /\ \A c \in Clients : ~InHandshake(c)
    /\ loop = "threw" => \A c \in Clients : ~InHandshake(c)
    /\ loop = "handshake" => accept = "none"
    /\ accept = "ok" <=> \E c \in Clients : client[c] = "socket"
    /\ \A c, d \in Clients : client[c] = "socket" /\ client[d] = "socket" => c = d
    /\ \A c, d \in Clients : InHandshake(c) /\ InHandshake(d) => c = d

Listed ==
    /\ \A c \in Clients : client[c] \in {"version", "auth", "active", "closed"} => c \in sessions
    /\ \A c \in sessions : client[c] \in {"version", "auth", "active", "closed"}
    /\ acceptor <=> stopper = "idle"
    /\ stopper # "idle" => accept # "pending" /\ \A c \in Clients : client[c] # "queued"
    /\ stopper # "closing" => todo = {}

(* A client that is open and that stop() will not come to.                 *)
Late(c) == client[c] \in {"socket", "version", "auth", "active"} /\ c \notin todo

Missed ==
    stopper \in {"closing", "done"} =>
        /\ \A c, d \in Clients : Late(c) /\ Late(d) => c = d
        /\ \A c \in todo, d \in Clients : InHandshake(c) => ~Late(d)

ServerInv == TypeOK /\ Turns /\ Listed /\ Missed

-----------------------------------------------------------------------------
(* Nobody has connected to a fresh server.                                 *)
LEMMA InitServerInv == Init => ServerInv
  BY DEF Init, ServerInv, TypeOK, ClientState, LoopState, StopState,
         Turns, Listed, Missed, Late, InHandshake

(* Every action keeps it.  The one that matters is StopIterates: it finds  *)
(* a handshake or a completed accept, never both.                          *)
LEMMA NextServerInv == ServerInv /\ [Next]_vars => ServerInv'
<1> SUFFICES ASSUME ServerInv, [Next]_vars PROVE ServerInv'
  OBVIOUS
<1> USE DEF ServerInv, TypeOK, ClientState, LoopState, StopState, InHandshake
<1>1. CASE HandleAccept
  <2>1. TypeOK'
    BY <1>1 DEF HandleAccept, In, Listed
  <2>2. Turns'
    BY <1>1 DEF HandleAccept, In, Turns, Listed
  <2>3. Listed'
    BY <1>1 DEF HandleAccept, In, Turns, Listed
  <2>4. Missed'
    BY <1>1 DEF HandleAccept, In, Turns, Listed, Missed, Late
  <2> QED
    BY <2>1, <2>2, <2>3, <2>4
<1>2. CASE AppendCrashes
  <2>1. TypeOK'
    BY <1>2 DEF AppendCrashes, AppendRaces, Listed
  <2>2. Turns'
    BY <1>2 DEF AppendCrashes, AppendRaces, Turns, Listed
  <2>3. Listed'
    BY <1>2 DEF AppendCrashes, AppendRaces, Turns, Listed
  <2>4. Missed'
    BY <1>2 DEF AppendCrashes, AppendRaces, Turns, Listed, Missed, Late
  <2> QED
    BY <2>1, <2>2, <2>3, <2>4
<1>3. CASE HandleAcceptError
  <2>1. TypeOK'
    BY <1>3 DEF HandleAcceptError, StartAccept, Listed
  <2>2. Turns'
    BY <1>3 DEF HandleAcceptError, StartAccept, Turns, Listed
  <2>3. Listed'
    BY <1>3 DEF HandleAcceptError, StartAccept, Turns, Listed
  <2>4. Missed'
    BY <1>3 DEF HandleAcceptError, StartAccept, Turns, Listed, Missed, Late
  <2> QED
    BY <2>1, <2>2, <2>3, <2>4
<1>4. CASE HandshakeMovesSocket
  <2>1. TypeOK'
    BY <1>4 DEF HandshakeMovesSocket, In, Listed
  <2>2. Turns'
    BY <1>4 DEF HandshakeMovesSocket, In, Turns, Listed
  <2>3. Listed'
    BY <1>4 DEF HandshakeMovesSocket, In, Turns, Listed
  <2>4. Missed'
    BY <1>4 DEF HandshakeMovesSocket, In, Turns, Listed, Missed, Late
  <2> QED
    BY <2>1, <2>2, <2>3, <2>4
<1>5. CASE HandshakeReturns
  <2>1. TypeOK'
    BY <1>5 DEF HandshakeReturns, StartAccept, In, Listed
  <2>2. Turns'
    BY <1>5 DEF HandshakeReturns, StartAccept, In, Turns, Listed
  <2>3. Listed'
    BY <1>5 DEF HandshakeReturns, StartAccept, In, Turns, Listed
  <2>4. Missed'
    BY <1>5 DEF HandshakeReturns, StartAccept, In, Turns, Listed, Missed, Late
  <2> QED
    BY <2>1, <2>2, <2>3, <2>4
<1>6. CASE HandshakeThrows
  <2>1. TypeOK'
    BY <1>6 DEF HandshakeThrows, In, Listed
  <2>2. Turns'
    BY <1>6 DEF HandshakeThrows, In, Turns, Listed
  <2>3. Listed'
    BY <1>6 DEF HandshakeThrows, In, Turns, Listed
  <2>4. Missed'
    BY <1>6 DEF HandshakeThrows, In, Turns, Listed, Missed, Late
  <2> QED
    BY <2>1, <2>2, <2>3, <2>4
<1>7. CASE Stop
  <2>1. TypeOK'
    BY <1>7 DEF Stop, Listed
  <2>2. Turns'
    BY <1>7 DEF Stop, Turns, Listed
  <2>3. Listed'
    BY <1>7 DEF Stop, Turns, Listed
  <2>4. Missed'
    BY <1>7 DEF Stop, Turns, Listed, Missed, Late
  <2> QED
    BY <2>1, <2>2, <2>3, <2>4
<1>8. CASE StopIterates
  <2>1. TypeOK'
    BY <1>8 DEF StopIterates, Listed
  <2>2. Turns'
    BY <1>8 DEF StopIterates, Turns, Listed
  <2>3. Listed'
    BY <1>8 DEF StopIterates, Turns, Listed
  <2>4. Missed'
    BY <1>8 DEF StopIterates, Turns, Listed, Missed, Late
  <2> QED
    BY <2>1, <2>2, <2>3, <2>4
<1>9. CASE StopReturns
  <2>1. TypeOK'
    BY <1>9 DEF StopReturns, Listed
  <2>2. Turns'
    BY <1>9 DEF StopReturns, Turns, Listed
  <2>3. Listed'
    BY <1>9 DEF StopReturns, Turns, Listed
  <2>4. Missed'
    BY <1>9 DEF StopReturns, Turns, Listed, Missed, Late
  <2> QED
    BY <2>1, <2>2, <2>3, <2>4
<1>10. ASSUME NEW c \in Clients, SessionCloses(c) PROVE ServerInv'
  <2>1. TypeOK'
    BY <1>10 DEF SessionCloses, Listed
  <2>2. Turns'
    BY <1>10 DEF SessionCloses, Turns, Listed
  <2>3. Listed'
    BY <1>10 DEF SessionCloses, Turns, Listed
  <2>4. Missed'
    BY <1>10 DEF SessionCloses, Turns, Listed, Missed, Late
  <2> QED
    BY <2>1, <2>2, <2>3, <2>4
<1>11. ASSUME NEW c \in Clients, SessionThrows(c) PROVE ServerInv'
  <2>1. TypeOK'
    BY <1>11 DEF SessionThrows, Listed
  <2>2. Turns'
    BY <1>11 DEF SessionThrows, Turns, Listed
  <2>3. Listed'
    BY <1>11 DEF SessionThrows, Turns, Listed
  <2>4. Missed'
    BY <1>11 DEF SessionThrows, Turns, Listed, Missed, Late
  <2> QED
    BY <2>1, <2>2, <2>3, <2>4
<1>17. ASSUME NEW c \in Clients, SessionCrashes(c) PROVE ServerInv'
  <2>1. TypeOK'
    BY <1>17 DEF SessionCrashes, Listed
  <2>2. Turns'
    BY <1>17 DEF SessionCrashes, Turns, Listed
  <2>3. Listed'
    BY <1>17 DEF SessionCrashes, Turns, Listed
  <2>4. Missed'
    BY <1>17 DEF SessionCrashes, Turns, Listed, Missed, Late
  <2> QED
    BY <2>1, <2>2, <2>3, <2>4
<1>12. ASSUME NEW c \in Clients, StopCloses(c) PROVE ServerInv'
  <2>1. TypeOK'
    BY <1>12 DEF StopCloses, Listed
  <2>2. Turns'
    BY <1>12 DEF StopCloses, Turns, Listed
  <2>3. Listed'
    BY <1>12 DEF StopCloses, Turns, Listed
  <2>4. Missed'
    BY <1>12 DEF StopCloses, Turns, Listed, Missed, Late
  <2> QED
    BY <2>1, <2>2, <2>3, <2>4
<1>13. ASSUME NEW c \in Clients, ClientConnects(c) PROVE ServerInv'
  <2>1. TypeOK'
    BY <1>13 DEF ClientConnects, Listed
  <2>2. Turns'
    BY <1>13 DEF ClientConnects, Turns, Listed
  <2>3. Listed'
    BY <1>13 DEF ClientConnects, Turns, Listed
  <2>4. Missed'
    BY <1>13 DEF ClientConnects, Turns, Listed, Missed, Late
  <2> QED
    BY <2>1, <2>2, <2>3, <2>4
<1>14. ASSUME NEW c \in Clients, AcceptCompletes(c) PROVE ServerInv'
  <2>1. TypeOK'
    BY <1>14 DEF AcceptCompletes, Listed
  <2>2. Turns'
    BY <1>14 DEF AcceptCompletes, Turns, Listed
  <2>3. Listed'
    BY <1>14 DEF AcceptCompletes, Turns, Listed
  <2>4. Missed'
    BY <1>14 DEF AcceptCompletes, Turns, Listed, Missed, Late
  <2> QED
    BY <2>1, <2>2, <2>3, <2>4
<1>15. ASSUME NEW c \in Clients, AcceptFails(c) PROVE ServerInv'
  <2>1. TypeOK'
    BY <1>15 DEF AcceptFails, Listed
  <2>2. Turns'
    BY <1>15 DEF AcceptFails, Turns, Listed
  <2>3. Listed'
    BY <1>15 DEF AcceptFails, Turns, Listed
  <2>4. Missed'
    BY <1>15 DEF AcceptFails, Turns, Listed, Missed, Late
  <2> QED
    BY <2>1, <2>2, <2>3, <2>4
<1>16. CASE UNCHANGED vars
  BY <1>16 DEF vars, Turns, Listed, Missed, Late
<1> QED
  BY <1>1, <1>2, <1>3, <1>4, <1>5, <1>6, <1>7, <1>8, <1>9, <1>10, <1>11, <1>12, <1>13, <1>14, <1>15, <1>16, <1>17 DEF Next

THEOREM ServerInvHolds == Spec => []ServerInv
  BY InitServerInv, NextServerInv, PTL DEF Spec

(* The state keeps its types, and stop() only ever has listed sessions to  *)
(* close (StopIterates, StopCloses).                                       *)
THEOREM ServerTypes == Spec => []TypeOK
<1>1. ServerInv => TypeOK
  BY DEF ServerInv
<1> QED
  BY <1>1, ServerInvHolds, PTL

(* A running server never goes deaf (HandleAccept, HandleAcceptError,      *)
(* HandshakeReturns: each way to leave an accept behind starts another).   *)
THEOREM ServerListens == Spec => []KeepsListening
<1>1. ServerInv => KeepsListening
  BY DEF ServerInv, Turns, KeepsListening, In
<1> QED
  BY <1>1, ServerInvHolds, PTL

(* stop() leaves at most one client with an open socket, however many      *)
(* sessions there were and wherever it caught the loop (Stop, StopReturns  *)
(* against HandleAccept and the handshake).                                *)
THEOREM StopMissesOne == Spec => []StopMissesAtMostOne
<1>1. ServerInv => StopMissesAtMostOne
  BY DEF ServerInv, Listed, Missed, Late, StopMissesAtMostOne, In
<1> QED
  BY <1>1, ServerInvHolds, PTL

(* A session that was started stays listed (HandleAccept; stop() and the   *)
(* handlers that close a session leave active_sessions_ alone).            *)
THEOREM ServerKeepsSessions == Spec => []SessionsAreKept
<1>1. ServerInv => SessionsAreKept
  BY DEF ServerInv, Listed, SessionsAreKept, In
<1> QED
  BY <1>1, ServerInvHolds, PTL

-----------------------------------------------------------------------------
(* Where SessionLife sees the sessions.                                    *)
Place(c) == IF client[c] \in {"version", "auth", "active", "closed"} THEN client[c] ELSE "none"
Places == [c \in Clients |-> Place(c)]
Up == IF loop \in {"threw", "crashed"} THEN loop ELSE "up"

(* Handlers run only between handshakes.                                   *)
LEMMA FreeMeansNoHandshake ==
    ASSUME Turns, loop = "free" PROVE Life!HandlersRun
  BY DEF Turns, InHandshake, Life!HandlersRun, Life!InHandshake

(* A step that moves one session only moves it for SessionLife.            *)
LEMMA OneMoves ==
    ASSUME TypeOK, NEW c \in Clients, NEW p \in ClientState, client' = [client EXCEPT ![c] = p]
    PROVE  Places' = [Places EXCEPT ![c] = IF p \in {"version", "auth", "active", "closed"}
                                           THEN p ELSE "none"]
  BY DEF TypeOK, Places, Place

(* Every step is a step of SessionLife or none.                            *)
LEMMA NextLife == ASSUME ServerInv, [Next]_vars PROVE [Life!Next]_(Life!vars)
<1> DEFINE P == Places
<1>0. TypeOK /\ Turns /\ Listed
  BY DEF ServerInv
<1>a. /\ client \in [Clients -> ClientState]
      /\ loop \in LoopState
  BY <1>0 DEF TypeOK
<1> USE DEF Life!Next, Life!vars, Up, Place, Places
<1>1. CASE HandleAccept
  <2>1. PICK c \in Clients : client[c] = "socket" /\ client' = [client EXCEPT ![c] = "version"]
    BY <1>1 DEF HandleAccept, In
  <2>2. Life!Begin(c)
    BY <2>1, <1>1, <1>0, <1>a, FreeMeansNoHandshake, OneMoves DEF HandleAccept, Life!Begin, ClientState
  <2> QED
    BY <2>2
<1>2. CASE AppendCrashes
  <2>1. Life!End
    BY <1>2, <1>0, FreeMeansNoHandshake DEF AppendCrashes, Life!End
  <2> QED
    BY <2>1
<1>3. CASE HandleAcceptError
  BY <1>3 DEF HandleAcceptError
<1>4. CASE HandshakeMovesSocket
  <2>1. PICK c \in Clients : client[c] = "version" /\ client' = [client EXCEPT ![c] = "auth"]
    BY <1>4 DEF HandshakeMovesSocket, In
  <2>2. Life!EnterAuth(c)
    BY <2>1, <1>4, <1>0, <1>a, OneMoves DEF HandshakeMovesSocket, Life!EnterAuth, ClientState
  <2> QED
    BY <2>2
<1>5. CASE HandshakeReturns
  <2>1. PICK c \in Clients : client[c] \in {"version", "auth"} /\ client' = [client EXCEPT ![c] = "active"]
    BY <1>5 DEF HandshakeReturns, In
  <2>2. Life!Return(c)
    BY <2>1, <1>5, <1>0, <1>a, OneMoves DEF HandshakeReturns, Life!Return, Life!InHandshake, ClientState
  <2> QED
    BY <2>2
<1>6. CASE HandshakeThrows
  <2>1. ASSUME NEW c \in Clients, client[c] \in {"version", "auth"}, client' = [client EXCEPT ![c] = "active"]
        PROVE  Life!Return(c)
    BY <2>1, <1>6, <1>0, <1>a, OneMoves DEF HandshakeThrows, Life!Return, Life!InHandshake, ClientState
  <2>2. ASSUME NEW c \in Clients, client[c] = "auth", client' = [client EXCEPT ![c] = "closed"]
        PROVE  Life!Lose(c)
    BY <2>2, <1>6, <1>0, <1>a, OneMoves DEF HandshakeThrows, Life!Lose, ClientState
  <2>3. ASSUME In({"version", "auth"}) = {}, UNCHANGED client PROVE Life!End
    BY <2>3, <1>6 DEF HandshakeThrows, In, Life!End, Life!HandlersRun, Life!InHandshake
  <2> QED
    BY <2>1, <2>2, <2>3, <1>6 DEF HandshakeThrows, In
<1>7. CASE Stop
  <2>1. Places' = Places
    BY <1>7, <1>a DEF Stop
  <2> QED
    BY <2>1, <1>7 DEF Stop
<1>8. CASE StopIterates \/ StopReturns
  BY <1>8 DEF StopIterates, StopReturns
<1>9. ASSUME NEW c \in Clients, SessionCloses(c) PROVE Life!Close(c)
  BY <1>9, <1>0, <1>a, OneMoves DEF SessionCloses, Life!Close, ClientState
<1>10. ASSUME NEW c \in Clients, SessionThrows(c) \/ SessionCrashes(c) PROVE Life!End
  BY <1>10, <1>0, FreeMeansNoHandshake DEF SessionThrows, SessionCrashes, Life!End
<1>11. ASSUME NEW c \in Clients, StopCloses(c) PROVE Life!Close(c) \/ UNCHANGED Life!vars
  <2>1. CASE client[c] \in {"version", "active"}
    BY <2>1, <1>11, <1>0, <1>a, OneMoves DEF StopCloses, Life!Close, ClientState, LoopState
  <2>2. CASE client[c] \notin {"version", "active"}
    BY <2>2, <1>11 DEF StopCloses
  <2> QED
    BY <2>1, <2>2
<1>12. ASSUME NEW c \in Clients, ClientConnects(c) \/ AcceptCompletes(c) \/ AcceptFails(c)
       PROVE  UNCHANGED Life!vars
  <2>1. Places' = Places
    BY <1>12, <1>a DEF ClientConnects, AcceptCompletes, AcceptFails
  <2> QED
    BY <2>1, <1>12 DEF ClientConnects, AcceptCompletes, AcceptFails
<1>13. CASE UNCHANGED vars
  BY <1>13 DEF vars
<1> QED
  BY <1>1, <1>2, <1>3, <1>4, <1>5, <1>6, <1>7, <1>8, <1>9, <1>10, <1>11, <1>12, <1>13 DEF Next

(* ProxyServer implements SessionLife for any number of clients: handshakes *)
(* exclude one another and every handler, and stop() reaches no session in *)
(* its authenticator (HandleAccept, start, close, stop).                   *)
THEOREM ServerImplementsLife == Spec => LifePromise
<1>1. Init => Life!Init
  BY DEF Init, Life!Init, Life!InHandshake
<1>2. ServerInv /\ [Next]_vars => [Life!Next]_(Life!vars)
  BY NextLife
<1> QED
  BY <1>1, <1>2, ServerInvHolds, PTL DEF Spec, LifePromise, Life!Spec

-----------------------------------------------------------------------------
(* The server as one of its clients sees it: the contract that             *)
(* ProxySession implements, for the session of c and no other.             *)
One(c) == INSTANCE SessionLife WITH
    Sessions <- {c},
    place    <- [d \in {c} |-> Place(d)],
    loop     <- Up

(* At most one session is in its handshake.                                *)
OneHandshake ==
    \A c, d \in Clients :
        Place(c) \in {"version", "auth"} /\ Place(d) \in {"version", "auth"} => c = d

(* What the others do one session alone does not notice, unless they take  *)
(* the loop with them, and then this one was not in its handshake.         *)
LEMMA LifeIsLocal ==
    ASSUME NEW c \in Clients, OneHandshake, [Life!Next]_(Life!vars)
    PROVE  [One(c)!Next]_(One(c)!vars)
<1>1. CASE UNCHANGED Life!vars
  <2>1. Place(c)' = Place(c) /\ Up' = Up
    BY <1>1 DEF Life!vars, Place, Up
  <2> QED
    BY <2>1 DEF One!vars
<1>2. ASSUME NEW s \in Clients, Life!Begin(s) PROVE [One(c)!Next]_(One(c)!vars)
  <2>1. Place(c)' = (IF c = s THEN "version" ELSE Place(c)) /\ Up' = Up
    BY <1>2 DEF Life!Begin, Place, Up
  <2>2. CASE c = s
    <3>1. One(c)!Begin(c)
      BY <1>2, <2>1, <2>2 DEF Life!Begin, One!Begin, Life!HandlersRun, Life!InHandshake, One!HandlersRun, One!InHandshake,
         Place, Up
    <3> QED
      BY <3>1 DEF One!Next
  <2>3. CASE c # s
    BY <2>1, <2>3 DEF One!vars
  <2> QED
    BY <2>2, <2>3
<1>3. ASSUME NEW s \in Clients, Life!EnterAuth(s) PROVE [One(c)!Next]_(One(c)!vars)
  <2>1. Place(c)' = (IF c = s THEN "auth" ELSE Place(c)) /\ Up' = Up
    BY <1>3 DEF Life!EnterAuth, Place, Up
  <2>2. CASE c = s
    <3>1. One(c)!EnterAuth(c)
      BY <1>3, <2>1, <2>2 DEF Life!EnterAuth, One!EnterAuth, Place, Up
    <3> QED
      BY <3>1 DEF One!Next
  <2>3. CASE c # s
    BY <2>1, <2>3 DEF One!vars
  <2> QED
    BY <2>2, <2>3
<1>4. ASSUME NEW s \in Clients, Life!Close(s) PROVE [One(c)!Next]_(One(c)!vars)
  <2>1. Place(c)' = (IF c = s THEN "closed" ELSE Place(c)) /\ Up' = Up
    BY <1>4 DEF Life!Close, Place, Up
  <2>2. CASE c = s
    <3>1. One(c)!Close(c)
      BY <1>4, <2>1, <2>2 DEF Life!Close, One!Close, Place, Up
    <3> QED
      BY <3>1 DEF One!Next
  <2>3. CASE c # s
    BY <2>1, <2>3 DEF One!vars
  <2> QED
    BY <2>2, <2>3
<1>5. ASSUME NEW s \in Clients, Life!Return(s) \/ Life!Lose(s)
      PROVE  [One(c)!Next]_(One(c)!vars)
  <2>1. /\ Up = "up" /\ Up' \in {"up", "threw"} /\ Place(s) \in {"version", "auth"}
        /\ c # s => Place(c)' = Place(c)
    BY <1>5 DEF Life!Return, Life!Lose, Life!InHandshake, Place, Up
  <2>2. CASE c = s
    <3>1. One(c)!Return(c) \/ One(c)!Lose(c)
      BY <1>5, <2>2 DEF Life!Return, Life!Lose, Life!InHandshake, One!Return, One!Lose,
         One!InHandshake, Place, Up
    <3> QED
      BY <3>1 DEF One!Next
  <2>3. CASE c # s /\ Up' = "up"
    BY <2>1, <2>3 DEF One!vars
  <2>4. CASE c # s /\ Up' = "threw"
    <3>1. Place(c) \notin {"version", "auth"}
      BY <2>1, <2>4 DEF OneHandshake
    <3>2. One(c)!End
      BY <2>1, <2>4, <3>1 DEF One!End, One!HandlersRun, One!InHandshake
    <3> QED
      BY <3>2 DEF One!Next
  <2> QED
    BY <2>1, <2>2, <2>3, <2>4
<1>6. CASE Life!End
  <2>1. /\ Up = "up" /\ Up' \in {"threw", "crashed"} /\ Place(c)' = Place(c)
        /\ Place(c) \notin {"version", "auth"}
    BY <1>6 DEF Life!End, Life!HandlersRun, Life!InHandshake, Place, Up
  <2>2. One(c)!End
    BY <2>1 DEF One!End, One!HandlersRun, One!InHandshake
  <2> QED
    BY <2>2 DEF One!Next
<1> QED
  BY <1>1, <1>2, <1>3, <1>4, <1>5, <1>6 DEF Life!Next

(* Every session of the server, seen by itself, lives as ProxySession      *)
(* proves that a session does: the two models meet in one contract (start, *)
(* close, stop).                                                           *)
THEOREM EverySessionLives == ASSUME NEW c \in Clients PROVE Spec => One(c)!Spec
<1>1. Init => One(c)!Init
  BY DEF Init, One!Init, One!InHandshake, Place, Up
<1>2. ServerInv => OneHandshake
  <2> SUFFICES ASSUME Turns, NEW d \in Clients, NEW e \in Clients,
                      Place(d) \in {"version", "auth"}, Place(e) \in {"version", "auth"}
               PROVE  d = e
    BY DEF ServerInv, OneHandshake
  <2>1. InHandshake(d) /\ InHandshake(e)
    BY DEF Place, InHandshake
  <2> QED
    BY <2>1 DEF Turns
<1>3. ServerInv /\ [Next]_vars => [One(c)!Next]_(One(c)!vars)
  BY <1>2, NextLife, LifeIsLocal
<1> QED
  BY <1>1, <1>3, ServerInvHolds, PTL DEF Spec, One!Spec
=============================================================================
