------------------------------- MODULE ProxyServer -------------------------------
(***************************************************************************)
(* ProxyServer: the accept loop, the list of active sessions and stop().   *)
(*                                                                         *)
(* A completion handler is one action of the event loop thread, but the    *)
(* handler of an accept runs the blocking handshake of the new session     *)
(* (ReadVersion and Authenticate of ProxySession) before it accepts again. *)
(* stop() runs on the thread of the service control dispatcher, one step   *)
(* per statement.  Of a session only what stop() and the loop see of it is *)
(* kept: where its client is.                                              *)
(*                                                                         *)
(* A client is "away", "queued" in the backlog, taken by a completed       *)
(* accept whose handler has not run ("socket"), a session in the handshake *)
(* with its socket in the session ("version") or moved into the            *)
(* authenticator ("auth"), a session whose handlers run ("active"), a      *)
(* session that was closed ("closed"), or was "dropped" with the backlog.  *)
(***************************************************************************)
EXTENDS Integers, FiniteSets

CONSTANT Clients

ASSUME ClientsAssumption == IsFiniteSet(Clients)

ClientState == {"away", "queued", "socket", "version", "auth", "active", "closed", "dropped"}
LoopState   == {"free", "handshake", "threw", "crashed"}
StopState   == {"idle", "called", "closing", "done"}

VARIABLES
    client,    \* where each client is
    acceptor,  \* whether acceptor_ is open
    accept,    \* the accept operation: "pending", completed "ok" or "fail", or "none"
    sessions,  \* active_sessions_, from which nothing is ever taken away
    loop,      \* the thread in io_context.run(): free for the next handler, inside a
               \* handshake, gone with an exception, or crashed with the process
    stopper,   \* where stop() is
    todo       \* sessions that stop() has still to close

vars == <<client, acceptor, accept, sessions, loop, stopper, todo>>

In(state) == {c \in Clients : client[c] \in state}

-----------------------------------------------------------------------------
(* start_accept: on a closed acceptor the operation fails at once.         *)
StartAccept == accept' = IF acceptor THEN "pending" ELSE "fail"

(* The iteration of stop() over active_sessions_ while the other thread    *)
(* appends to it is a data race: the vector may move under the iterator.   *)
AppendRaces == stopper = "closing" /\ todo # {}

HandleAcceptUnlisted ==
    /\ loop = "free" /\ accept = "ok"
    /\ \E c \in In({"socket"}) : client' = [client EXCEPT ![c] = "version"]
    /\ loop' = "handshake"
    /\ accept' = "none"
    /\ UNCHANGED <<acceptor, sessions, stopper, todo>>

HandleAcceptOverlapped ==
    /\ loop = "free" /\ accept = "ok"
    /\ \E c \in In({"socket"}) :
          /\ client' = [client EXCEPT ![c] = "version"]
          /\ sessions' = sessions \cup {c}
    /\ StartAccept
    /\ UNCHANGED <<acceptor, loop, stopper, todo>>

(* The accept handler on success: the session is made, listed and started. *)
HandleAccept ==
    /\ loop = "free" /\ accept = "ok"
    /\ \E c \in In({"socket"}) :
          /\ client' = [client EXCEPT ![c] = "version"]
          /\ sessions' = sessions \cup {c}
    /\ loop' = "handshake"
    /\ accept' = "none"
    /\ UNCHANGED <<acceptor, stopper, todo>>

AppendCrashes ==
    /\ loop = "free" /\ accept = "ok" /\ AppendRaces
    /\ loop' = "crashed"
    /\ UNCHANGED <<client, acceptor, accept, sessions, stopper, todo>>

HandleAcceptGivesUp ==
    /\ loop = "free" /\ accept = "fail"
    /\ accept' = "none"
    /\ UNCHANGED <<client, acceptor, sessions, loop, stopper, todo>>

(* On an error the handler accepts again, whatever the error was.          *)
HandleAcceptError ==
    /\ loop = "free" /\ accept = "fail"
    /\ StartAccept
    /\ UNCHANGED <<client, acceptor, sessions, loop, stopper, todo>>

(* session->start(): the version octet, then the authenticator with the    *)
(* socket in its hands.                                                    *)
HandshakeMovesSocket ==
    /\ loop = "handshake"
    /\ \E c \in In({"version"}) : client' = [client EXCEPT ![c] = "auth"]
    /\ UNCHANGED <<acceptor, accept, sessions, loop, stopper, todo>>

HandshakeForgetsAccept ==
    /\ loop = "handshake"
    /\ \E c \in In({"version", "auth"}) : client' = [client EXCEPT ![c] = "active"]
    /\ loop' = "free"
    /\ UNCHANGED <<acceptor, accept, sessions, stopper, todo>>

(* start() returns, the socket back in the session: it waits for a request *)
(* or for nothing, a client that was turned down included.                 *)
HandshakeReturns ==
    /\ loop = "handshake"
    /\ \E c \in In({"version", "auth"}) : client' = [client EXCEPT ![c] = "active"]
    /\ loop' = "free"
    /\ StartAccept
    /\ UNCHANGED <<acceptor, sessions, stopper, todo>>

(* start() throws, as it must when stop() has closed the socket: the       *)
(* exception leaves io_context.run(), and nothing accepts any more.  The   *)
(* socket stays open in the session, or was lost with the authenticator.   *)
HandshakeThrows ==
    /\ loop = "handshake"
    /\ loop' = "threw"
    /\ \/ \E c \in In({"version", "auth"}) : client' = [client EXCEPT ![c] = "active"]
       \/ \E c \in In({"auth"}) : client' = [client EXCEPT ![c] = "closed"]
       \/ In({"version", "auth"}) = {} /\ UNCHANGED client
    /\ UNCHANGED <<acceptor, accept, sessions, stopper, todo>>

SessionErases(c) ==
    /\ loop = "free" /\ client[c] = "active"
    /\ client' = [client EXCEPT ![c] = "closed"]
    /\ sessions' = sessions \ {c}
    /\ UNCHANGED <<acceptor, accept, loop, stopper, todo>>

(* A handler of an active session closes it, or throws.                    *)
SessionCloses(c) ==
    /\ loop = "free" /\ client[c] = "active"
    /\ client' = [client EXCEPT ![c] = "closed"]
    /\ UNCHANGED <<acceptor, accept, sessions, loop, stopper, todo>>

SessionThrows(c) ==
    /\ loop = "free" /\ client[c] \in {"active", "closed"}
    /\ loop' = "threw"
    /\ UNCHANGED <<client, acceptor, accept, sessions, stopper, todo>>

(* handle_socks_request looks at the first entry of an empty allow list.   *)
SessionCrashes(c) ==
    /\ loop = "free" /\ client[c] = "active"
    /\ loop' = "crashed"
    /\ UNCHANGED <<client, acceptor, accept, sessions, stopper, todo>>

-----------------------------------------------------------------------------
(* stop(): the acceptor is closed, which aborts the accept and drops the   *)
(* backlog.  socket_ holds an open socket only inside the accept handler.  *)
Stop ==
    /\ stopper = "idle" /\ loop # "crashed"
    /\ stopper' = "called"
    /\ acceptor' = FALSE
    /\ accept' = IF accept = "pending" THEN "fail" ELSE accept
    /\ client' = [c \in Clients |-> IF client[c] = "queued" THEN "dropped" ELSE client[c]]
    /\ UNCHANGED <<sessions, loop, todo>>

(* The loop over active_sessions_: begin() and end() are taken once.       *)
StopIterates ==
    /\ stopper = "called" /\ loop # "crashed"
    /\ stopper' = "closing"
    /\ todo' = sessions
    /\ UNCHANGED <<client, acceptor, accept, sessions, loop>>

(* session->close() finds the socket in the session, or the empty socket   *)
(* that a move has left there.                                             *)
StopCloses(c) ==
    /\ stopper = "closing" /\ loop # "crashed" /\ c \in todo
    /\ todo' = todo \ {c}
    /\ client' = IF client[c] \in {"version", "active"}
                 THEN [client EXCEPT ![c] = "closed"] ELSE client
    /\ UNCHANGED <<acceptor, accept, sessions, loop, stopper>>

StopReturns ==
    /\ stopper = "closing" /\ loop # "crashed" /\ todo = {}
    /\ stopper' = "done"
    /\ UNCHANGED <<client, acceptor, accept, sessions, loop, todo>>

-----------------------------------------------------------------------------
(* Clients, and the kernel that completes accepts.                         *)
ClientConnects(c) ==
    /\ client[c] = "away" /\ acceptor
    /\ client' = [client EXCEPT ![c] = "queued"]
    /\ UNCHANGED <<acceptor, accept, sessions, loop, stopper, todo>>

AcceptCompletes(c) ==
    /\ accept = "pending" /\ client[c] = "queued" /\ loop # "crashed"
    /\ accept' = "ok"
    /\ client' = [client EXCEPT ![c] = "socket"]
    /\ UNCHANGED <<acceptor, sessions, loop, stopper, todo>>

(* The client is gone before it is accepted.                               *)
AcceptFails(c) ==
    /\ accept = "pending" /\ client[c] = "queued" /\ loop # "crashed"
    /\ accept' = "fail"
    /\ client' = [client EXCEPT ![c] = "dropped"]
    /\ UNCHANGED <<acceptor, sessions, loop, stopper, todo>>

-----------------------------------------------------------------------------
Init ==
    /\ client = [c \in Clients |-> "away"]
    /\ acceptor = TRUE
    /\ accept = "pending"
    /\ sessions = {}
    /\ loop = "free"
    /\ stopper = "idle"
    /\ todo = {}

Next ==
    \/ HandleAccept \/ AppendCrashes \/ HandleAcceptError
    \/ HandshakeMovesSocket \/ HandshakeReturns \/ HandshakeThrows
    \/ Stop \/ StopIterates \/ StopReturns
    \/ \E c \in Clients : \/ SessionCloses(c) \/ SessionThrows(c) \/ SessionCrashes(c)
                          \/ StopCloses(c) \/ ClientConnects(c) \/ AcceptCompletes(c) \/ AcceptFails(c)

(* The loop thread runs a handler that is ready, the kernel completes an   *)
(* accept, and stop() runs on.                                             *)
LoopFairness ==
    /\ WF_vars(HandleAccept) /\ WF_vars(HandleAcceptError)
    /\ WF_vars(StopIterates) /\ WF_vars(StopReturns)
    /\ \A c \in Clients : WF_vars(AcceptCompletes(c)) /\ WF_vars(StopCloses(c))

(* Besides, every client finishes its handshake in one way or another.     *)
HandshakeFairness == WF_vars(HandshakeReturns \/ HandshakeThrows)

Spec == Init /\ [][Next]_vars
LoopFairSpec == Spec /\ LoopFairness
FairSpec == LoopFairSpec /\ HandshakeFairness
-----------------------------------------------------------------------------
(* Properties.                                                             *)

TypeOK ==
    /\ client \in [Clients -> ClientState]
    /\ acceptor \in BOOLEAN
    /\ accept \in {"pending", "ok", "fail", "none"}
    /\ sessions \subseteq Clients
    /\ loop \in LoopState
    /\ stopper \in StopState
    /\ todo \subseteq sessions

(* The server never goes deaf: between two handlers of a server that was   *)
(* not stopped an accept is outstanding or has its handler waiting, with a *)
(* client to hand over exactly if it succeeded, whatever became of the     *)
(* accepts and handshakes before (start_accept).                           *)
KeepsListening ==
    loop = "free" /\ acceptor =>
        /\ accept # "none"
        /\ accept = "ok" <=> In({"socket"}) # {}
        /\ \A c, d \in In({"socket"}) : c = d

(* How much stop() can miss: once it has returned at most one client still *)
(* has an open socket, the one in the authenticator or else the one whose  *)
(* accept had completed: a handshake never runs beside an accept (stop,    *)
(* HandleAccept, read_socks_request).                                      *)
StopMissesAtMostOne ==
    stopper = "done" => \A c, d \in In({"socket", "version", "auth", "active"}) : c = d

(* A session that was started is listed for good.  The handler of a reply  *)
(* holds its session by a raw pointer, which only this list keeps valid    *)
(* (HandleAccept; send_socks_reply).                                       *)
SessionsAreKept == In({"version", "auth", "active", "closed"}) \subseteq sessions

(* The server treats its sessions as ProxySession behaves: at most one is  *)
(* in its handshake, and what stop() and the handlers do to the others     *)
(* fits what each session does (HandleAccept, start, close).               *)
Life == INSTANCE SessionLife WITH
    Sessions <- Clients,
    place    <- [c \in Clients |->
                   IF client[c] \in {"version", "auth", "active", "closed"} THEN client[c] ELSE "none"],
    loop     <- IF loop \in {"threw", "crashed"} THEN loop ELSE "up"
LifePromise == Life!Spec

(* If every handshake comes to an end, everybody in the backlog is         *)
(* accepted, or the server has stopped or lost its loop.                   *)
QueuedAreAccepted ==
    \A c \in Clients : client[c] = "queued" ~>
        client[c] # "queued" \/ loop \in {"threw", "crashed"}

-----------------------------------------------------------------------------
(* README.md says the proxy supports thousands of concurrent connections:  *)
(* a client in the backlog of a running server is accepted, whatever the   *)
(* other clients do.                                                       *)
ClientsAreServed ==
    \A c \in Clients : client[c] = "queued" ~>
        client[c] # "queued" \/ ~acceptor \/ loop \in {"threw", "crashed"}
=============================================================================
