------------------------------ MODULE ProxySession ------------------------------
(***************************************************************************)
(* One ProxyServer::ProxySession, from start() to the end of its last      *)
(* asynchronous operation, with the two peers it relays between.           *)
(*                                                                         *)
(* The completion handlers run on the one thread that calls                *)
(* io_context.run(), so a handler is one action.  read_socks_request and   *)
(* handle_socks_request are split where they block: for octets of the      *)
(* client, for the authenticator, for the name resolver.                   *)
(* ProxyServer::stop() runs on the thread of the service control           *)
(* dispatcher and may close the session between any two of those actions.  *)
(*                                                                         *)
(* An asynchronous operation is "idle", "pending" in the kernel, or has    *)
(* completed ("ok" or "fail") with its handler waiting to be run.  What    *)
(* flows is a pair <<kind, number>>: the n-th piece a peer sent is         *)
(* <<"data", n>>, a SOCKS reply <<"reply", status>>.                       *)
(***************************************************************************)
EXTENDS Integers, Sequences, SocksRequest

CONSTANTS MaxPieces,   \* bound: pieces of data each peer sends
          SendCopies   \* TRUE: the kernel copies what is sent when the write starts;
                       \* FALSE: it reads the buffer at any time until the write ends,
                       \* as the contract of async_write allows

ASSUME SessionAssumption == MaxPieces \in Nat /\ SendCopies \in BOOLEAN

Side == {"client", "server"}
Other(s) == IF s = "client" THEN "server" ELSE "client"

(* The asynchronous operations of a session, each on the socket of a side. *)
Read(s)  == IF s = "client" THEN "readClient" ELSE "readServer"
Write(s) == IF s = "client" THEN "writeClient" ELSE "writeServer"
Op == {"request", "connect", "reply", "readClient", "readServer", "writeClient", "writeServer"}

OpStatus   == {"idle", "pending", "ok", "fail"}
LoopState  == {"version", "auth", "resolve", "run", "threw", "crashed"}
PeerState  == {"absent", "up", "fin", "reset"}

Zeroed    == <<"zero", 0>>
Data(n)   == <<"data", n>>
Reply(st) == <<"reply", st>>
ReplyStatus == {0, 1, 5, 7, 8}
Piece == {Zeroed} \cup {Data(n) : n \in 1..MaxPieces} \cup {Reply(st) : st \in ReplyStatus}

VARIABLES
    loop,    \* what the event loop thread does with this session: waits for the
             \* version octet, waits inside the authenticator, waits for the name
             \* resolver, runs handlers, has left io_context.run() by an exception,
             \* or died with the process
    ops,     \* the status of each operation
    open,    \* whether client_socket_ and server_socket_ hold an open socket
    buf,     \* what client_data_ and server_data_ hold, named after the side read
    peer,    \* the remote end of each connection
    sent,    \* pieces each peer has sent
    taken,   \* pieces the kernel has moved into the session's buffer
    got,     \* what each peer has been sent, in order
    stopped  \* whether ProxyServer::stop() has closed this session

vars == <<loop, ops, open, buf, peer, sent, taken, got, stopped>>
peers == <<peer, sent, taken, got>>

(* The client has been told that its request was granted.                  *)
Granted == got["client"] # <<>> /\ got["client"][1] = Reply(0)

-----------------------------------------------------------------------------
(* An operation started on a closed socket fails at once.                  *)
Started(s, isOpen) == IF isOpen[s] THEN "pending" ELSE "fail"

(* close(): both sockets are closed and what is pending on them is aborted; *)
(* an operation that has already completed keeps its result.               *)
Closed == [s \in Side |-> FALSE]
AbortedClientOnly(o) ==
    [x \in Op |-> IF o[x] = "pending" /\ x # "readServer" THEN "fail" ELSE o[x]]
Aborted(o) == [x \in Op |-> IF o[x] = "pending" THEN "fail" ELSE o[x]]

(* client_socket_.remote_endpoint(), which every log line evaluates,       *)
(* throws on a closed socket and may throw once the client has reset.      *)
EndpointThrows == ~open["client"] \/ peer["client"] = "reset"
EndpointReturns == open["client"]

(* send_socks_reply(status), in a handler that leaves the operations o:    *)
(* it logs, which may throw, and then writes from the start of             *)
(* server_data_.                                                           *)
SendReplyThrows(o) ==
    /\ EndpointThrows
    /\ loop' = "threw"
    /\ ops' = o
    /\ UNCHANGED <<open, buf, got>>

SendReply(status, o) ==
    /\ EndpointReturns
    /\ loop' = "run"
    /\ ops' = [o EXCEPT !["reply"] = "pending"]
    /\ buf' = [buf EXCEPT !["server"] = Reply(status)]
    /\ got' = IF SendCopies THEN [got EXCEPT !["client"] = Append(@, Reply(status))] ELSE got
    /\ UNCHANGED open

(* close(), in a handler that leaves the operations o.                     *)
CloseSession(o) ==
    /\ open' = Closed
    /\ ops' = Aborted(o)
    /\ UNCHANGED <<loop, buf, got>>

-----------------------------------------------------------------------------
(* read_socks_request: the blocking read of the version octet, up to the   *)
(* move of client_socket_ into Handle_Authentication or to the return.     *)
ReadVersion ==
    /\ loop = "version"
    /\ \/ /\ open["client"]
          /\ loop' = "auth"
          /\ open' = [open EXCEPT !["client"] = FALSE]
          /\ UNCHANGED <<ops, buf, got>>
       \/ open["client"] /\ (SendReplyThrows(ops) \/ SendReply(5, ops))
       \/ /\ ~open["client"] \/ peer["client"] # "up"
          /\ \/ EndpointThrows /\ loop' = "threw"
             \/ EndpointReturns /\ loop' = "run"
          /\ UNCHANGED <<ops, open, buf, got>>
    /\ UNCHANGED <<peer, sent, taken, stopped>>

AuthenticateSwallows ==
    /\ loop = "auth"
    /\ \/ peer["client"] # "up" /\ loop' = "run" /\ UNCHANGED <<ops, open, buf>>
       \/ /\ open' = [open EXCEPT !["client"] = TRUE]
          /\ \/ loop' = "run" /\ UNCHANGED <<ops, buf>>
             \/ /\ loop' = "run"
                /\ ops' = [ops EXCEPT !["request"] = "pending"]
                /\ buf' = [s \in Side |-> Zeroed]
    /\ UNCHANGED <<peer, sent, taken, got, stopped>>

(* read_socks_request from the return of handle_authentication: either it  *)
(* threw, and the socket it held is gone, or the socket is moved back and  *)
(* the client is turned down or its request awaited.                       *)
Authenticate ==
    /\ loop = "auth"
    /\ \/ /\ peer["client"] # "up"
          /\ loop' = "threw"
          /\ UNCHANGED <<ops, open, buf>>
       \/ /\ open' = [open EXCEPT !["client"] = TRUE]
          /\ \/ peer["client"] = "reset" /\ loop' = "threw" /\ UNCHANGED <<ops, buf>>
             \/ loop' = "run" /\ UNCHANGED <<ops, buf>>
             \/ /\ loop' = "run"
                /\ ops' = [ops EXCEPT !["request"] = "pending"]
                /\ buf' = [s \in Side |-> Zeroed]
    /\ UNCHANGED <<peer, sent, taken, got, stopped>>

(* handle_socks_request, up to its return or to the call of the resolver.  *)
(* Every path that logs evaluates remote_endpoint.                         *)
HandleRequest ==
    LET o == [ops EXCEPT !["request"] = "idle"] IN
    /\ loop = "run"
    /\ \/ ops["request"] = "fail" /\ CloseSession(o)
       \/ /\ ops["request"] = "ok"
          /\ \E v \in Verdicts :
                \/ v = Silent /\ ops' = o /\ UNCHANGED <<loop, open, buf, got>>
                \/ v = Throw /\ loop' = "threw" /\ ops' = o /\ UNCHANGED <<open, buf, got>>
                \/ v \notin {Silent, Throw} /\ SendReplyThrows(o)
                \/ v.kind = "refuse" /\ SendReply(v.status, o)
                \/ /\ v = Crash /\ EndpointReturns
                   /\ loop' = "crashed" /\ ops' = o /\ UNCHANGED <<open, buf, got>>
                \/ /\ v = Connect /\ EndpointReturns
                   /\ loop' = "resolve" /\ ops' = o /\ UNCHANGED <<open, buf, got>>
    /\ UNCHANGED <<peer, sent, taken, stopped>>

(* handle_socks_request from the return of resolver.resolve: async_connect *)
(* opens server_socket_, or the exception is caught and logged, which may  *)
(* throw again.                                                            *)
Resolve ==
    /\ loop = "resolve"
    /\ \/ /\ loop' = "run"
          /\ ops' = [ops EXCEPT !["connect"] = "pending"]
          /\ open' = [open EXCEPT !["server"] = TRUE]
       \/ EndpointReturns /\ loop' = "run" /\ UNCHANGED <<ops, open>>
       \/ EndpointThrows /\ loop' = "threw" /\ UNCHANGED <<ops, open>>
    /\ UNCHANGED <<buf, peer, sent, taken, got, stopped>>

(* forward_data: both directions start with a read.                        *)
ForwardData(o) == [o EXCEPT !["readClient"] = Started("client", open),
                            !["readServer"] = Started("server", open)]

HandleConnectSilently ==
    LET o == [ops EXCEPT !["connect"] = "idle"] IN
    /\ loop = "run"
    /\ \/ ops["connect"] = "ok" /\ ops' = ForwardData(o) /\ UNCHANGED <<loop, open, buf, got>>
       \/ ops["connect"] = "fail" /\ SendReply(5, o)
    /\ UNCHANGED <<peer, sent, taken, stopped>>

HandleConnectDropsErrors ==
    LET o == [ops EXCEPT !["connect"] = "idle"] IN
    /\ loop = "run"
    /\ \/ ops["connect"] = "ok" /\ SendReplyThrows(o)
       \/ ops["connect"] = "ok" /\ SendReply(0, ForwardData(o))
       \/ ops["connect"] = "fail" /\ CloseSession(o)
    /\ UNCHANGED <<peer, sent, taken, stopped>>

(* handle_connect.                                                         *)
HandleConnect ==
    LET o == [ops EXCEPT !["connect"] = "idle"] IN
    /\ loop = "run"
    /\ \/ ops["connect"] \in {"ok", "fail"} /\ SendReplyThrows(o)
       \/ ops["connect"] = "ok" /\ SendReply(0, ForwardData(o))
       \/ ops["connect"] = "fail" /\ SendReply(5, o)
    /\ UNCHANGED <<peer, sent, taken, stopped>>

HandleReplyWriteLogs ==
    LET o == [ops EXCEPT !["reply"] = "idle"] IN
    /\ loop = "run"
    /\ \/ ops["reply"] # "pending" /\ ops["reply"] # "idle" /\ SendReplyThrows(o)
       \/ ops["reply"] = "ok" /\ ops' = o /\ UNCHANGED <<loop, open, buf, got>>
       \/ ops["reply"] = "fail" /\ CloseSession(o)
    /\ UNCHANGED <<peer, sent, taken, stopped>>

(* handle_write, the handler of the reply.                                 *)
HandleReplyWrite ==
    LET o == [ops EXCEPT !["reply"] = "idle"] IN
    /\ loop = "run"
    /\ \/ ops["reply"] = "ok" /\ ops' = o /\ UNCHANGED <<loop, open, buf, got>>
       \/ ops["reply"] = "fail" /\ CloseSession(o)
    /\ UNCHANGED <<peer, sent, taken, stopped>>

HandleReadEager(s) ==
    LET o == [ops EXCEPT ![Read(s)] = Started(s, open)] IN
    /\ loop = "run"
    /\ \/ /\ ops[Read(s)] = "ok"
          /\ ops' = [o EXCEPT ![Write(Other(s))] = Started(Other(s), open)]
          /\ UNCHANGED <<loop, open, buf, got>>
       \/ ops[Read(s)] = "fail" /\ CloseSession([ops EXCEPT ![Read(s)] = "idle"])
    /\ UNCHANGED <<peer, sent, taken, stopped>>

HandleReadIgnoresEnd(s) ==
    LET o == [ops EXCEPT ![Read(s)] = "idle"] IN
    /\ loop = "run"
    /\ \/ /\ ops[Read(s)] = "ok"
          /\ ops' = [o EXCEPT ![Write(Other(s))] = Started(Other(s), open)]
       \/ ops[Read(s)] = "fail" /\ ops' = o
    /\ UNCHANGED <<loop, open, buf, peer, sent, taken, got, stopped>>

(* handle_client_read and handle_server_read: what was read from s is      *)
(* written to the other side, an error closes both.                        *)
HandleRead(s) ==
    LET o == [ops EXCEPT ![Read(s)] = "idle"] IN
    /\ loop = "run"
    /\ \/ /\ ops[Read(s)] = "ok"
          /\ ops' = [o EXCEPT ![Write(Other(s))] = Started(Other(s), open)]
          /\ UNCHANGED <<loop, open, buf, got>>
       \/ ops[Read(s)] = "fail" /\ CloseSession(o)
    /\ UNCHANGED <<peer, sent, taken, stopped>>

HandleWriteSameSide(s) ==
    LET o == [ops EXCEPT ![Write(s)] = "idle"] IN
    /\ loop = "run"
    /\ \/ /\ ops[Write(s)] = "ok"
          /\ ops' = [o EXCEPT ![Read(s)] = Started(s, open)]
          /\ UNCHANGED <<loop, open, buf, got>>
       \/ ops[Write(s)] = "fail" /\ CloseSession(o)
    /\ UNCHANGED <<peer, sent, taken, stopped>>

(* The handlers of the two relaying writes: a finished write to s is       *)
(* followed by the next read from the other side.                          *)
HandleWrite(s) ==
    LET o == [ops EXCEPT ![Write(s)] = "idle"] IN
    /\ loop = "run"
    /\ \/ /\ ops[Write(s)] = "ok"
          /\ ops' = [o EXCEPT ![Read(Other(s))] = Started(Other(s), open)]
          /\ UNCHANGED <<loop, open, buf, got>>
       \/ ops[Write(s)] = "fail" /\ CloseSession(o)
    /\ UNCHANGED <<peer, sent, taken, stopped>>

(* ProxyServer::stop() reaching this session, from the other thread.       *)
StopSession ==
    /\ ~stopped /\ loop # "crashed"
    /\ stopped' = TRUE
    /\ open' = Closed
    /\ ops' = Aborted(ops)
    /\ UNCHANGED <<loop, buf, peer, sent, taken, got>>

-----------------------------------------------------------------------------
(* The kernel: how pending operations complete.                            *)
Completes(op, status) ==
    /\ loop = "run"
    /\ ops[op] = "pending"
    /\ ops' = [ops EXCEPT ![op] = status]
    /\ UNCHANGED <<loop, open, sent, stopped>>

(* The octets of the client's request arrive, or its end of stream.        *)
RequestCompletes ==
    \/ /\ Completes("request", "ok") /\ peer["client"] # "reset"
       /\ buf' = [buf EXCEPT !["client"] = <<"request", 0>>]
       /\ UNCHANGED peers
    \/ /\ Completes("request", "fail") /\ peer["client"] # "up"
       /\ UNCHANGED <<buf, peers>>

ConnectCompletes ==
    \/ Completes("connect", "ok") /\ peer' = [peer EXCEPT !["server"] = "up"]
          /\ UNCHANGED <<buf, taken, got>>
    \/ Completes("connect", "fail") /\ UNCHANGED <<buf, peers>>

ReplyCompletes ==
    \/ /\ Completes("reply", "ok")
       /\ got' = IF SendCopies THEN got
                 ELSE [got EXCEPT !["client"] = Append(@, buf["server"])]
       /\ UNCHANGED <<buf, peer, taken>>
    \/ Completes("reply", "fail") /\ peer["client"] = "reset" /\ UNCHANGED <<buf, peers>>

(* A read returns the next piece, the end of the stream after the last     *)
(* piece, or the reset of the connection.                                  *)
ReadCompletes(s) ==
    \/ /\ Completes(Read(s), "ok")
       /\ peer[s] # "reset" /\ taken[s] < sent[s]
       /\ taken' = [taken EXCEPT ![s] = @ + 1]
       /\ buf' = [buf EXCEPT ![s] = Data(taken[s] + 1)]
       /\ UNCHANGED <<peer, got>>
    \/ /\ Completes(Read(s), "fail")
       /\ peer[s] = "reset" \/ (peer[s] = "fin" /\ taken[s] = sent[s])
       /\ UNCHANGED <<buf, peers>>

(* Sends on one socket end in the order in which they were started.        *)
WriteCompletes(s) ==
    \/ /\ Completes(Write(s), "ok")
       /\ s = "client" => ops["reply"] # "pending"
       /\ got' = [got EXCEPT ![s] = Append(@, buf[Other(s)])]
       /\ UNCHANGED <<buf, peer, taken>>
    \/ Completes(Write(s), "fail") /\ peer[s] = "reset" /\ UNCHANGED <<buf, peers>>

(* The peers.  The client speaks after its request was granted.            *)
PeerSends(s) ==
    /\ peer[s] = "up" /\ sent[s] < MaxPieces
    /\ s = "client" => Granted
    /\ sent' = [sent EXCEPT ![s] = @ + 1]
    /\ UNCHANGED <<loop, ops, open, buf, peer, taken, got, stopped>>

PeerEnds(s) ==
    /\ \/ peer[s] = "up" /\ peer' = [peer EXCEPT ![s] = "fin"]
       \/ peer[s] \in {"up", "fin"} /\ peer' = [peer EXCEPT ![s] = "reset"]
    /\ UNCHANGED <<loop, ops, open, buf, sent, taken, got, stopped>>

-----------------------------------------------------------------------------
Init ==
    /\ loop = "version"
    /\ ops = [x \in Op |-> "idle"]
    /\ open = [s \in Side |-> s = "client"]
    /\ buf = [s \in Side |-> Zeroed]
    /\ peer = [s \in Side |-> IF s = "client" THEN "up" ELSE "absent"]
    /\ sent = [s \in Side |-> 0]
    /\ taken = [s \in Side |-> 0]
    /\ got = [s \in Side |-> <<>>]
    /\ stopped = FALSE

Handlers ==
    \/ HandleRequest \/ HandleConnect \/ HandleReplyWrite
    \/ \E s \in Side : HandleRead(s) \/ HandleWrite(s)

Kernel ==
    \/ RequestCompletes \/ ConnectCompletes \/ ReplyCompletes
    \/ \E s \in Side : ReadCompletes(s) \/ WriteCompletes(s)

Peers == \E s \in Side : PeerSends(s) \/ PeerEnds(s)

Next == ReadVersion \/ Authenticate \/ Resolve \/ Handlers \/ StopSession \/ Kernel \/ Peers

(* The loop thread runs what is ready and the resolver returns; the kernel *)
(* completes connects, reads that can complete and writes, the peers being *)
(* assumed to take what is sent to them.  Nobody promises that a client    *)
(* ever sends its handshake or its request, or that the server is stopped. *)
Fairness ==
    /\ WF_vars(Resolve) /\ WF_vars(HandleRequest) /\ WF_vars(HandleConnect) /\ WF_vars(HandleReplyWrite)
    /\ WF_vars(ConnectCompletes) /\ WF_vars(ReplyCompletes)
    /\ \A s \in Side : /\ WF_vars(HandleRead(s)) /\ WF_vars(HandleWrite(s))
                       /\ WF_vars(ReadCompletes(s)) /\ WF_vars(WriteCompletes(s))

Spec == Init /\ [][Next]_vars
FairSpec == Spec /\ Fairness
-----------------------------------------------------------------------------
(* Properties.                                                             *)

TypeOK ==
    /\ loop \in LoopState
    /\ ops \in [Op -> OpStatus]
    /\ open \in [Side -> BOOLEAN]
    /\ buf \in [Side -> Piece \cup {<<"request", 0>>}]
    /\ peer \in [Side -> PeerState]
    /\ sent \in [Side -> 0..MaxPieces]
    /\ taken \in [Side -> 0..MaxPieces]
    /\ got \in [Side -> Seq(Piece)]
    /\ stopped \in BOOLEAN

(* The two peers see nothing but the promise of SocksRelay.                *)
Relay == INSTANCE SocksRelay
RelayPromise == Relay!Spec

(* The session's half of what it and the server agree on: whatever its     *)
(* handlers and stop() do, the client's socket goes from one place to the  *)
(* next and is lost only together with the loop (start, close, stop).      *)
Life == INSTANCE SessionLife WITH
    Sessions <- {"this"},
    place    <- [c \in {"this"} |-> IF loop = "auth" THEN "auth"
                                   ELSE IF ~open["client"] THEN "closed"
                                   ELSE IF loop = "version" THEN "version" ELSE "active"],
    loop     <- IF loop \in {"threw", "crashed"} THEN loop ELSE "up"
LifePromise == Life!Spec

(* The read from s and the write of what it returned share one buffer and  *)
(* are never outstanding together; while a granted session is open exactly *)
(* one of them is, so neither direction stalls or is pumped twice          *)
(* (forward_data, handle_client_read, handle_server_read).                 *)
PumpWorks(s) ==
    /\ ops[Read(s)] = "idle" \/ ops[Write(Other(s))] = "idle"
    /\ Granted /\ open["client"] =>
          ops[Read(s)] # "idle" \/ ops[Write(Other(s))] # "idle"
OnePumpPerDirection == \A s \in Side : PumpWorks(s)

(* close() after an end of stream cuts nothing off in that direction: when *)
(* handle_client_read or handle_server_read is about to see the end of     *)
(* s's stream, all that s sent has been written to the other side.         *)
EofMeansDrained ==
    \A s \in Side : open[s] /\ peer[s] = "fin" /\ ops[Read(s)] = "fail" =>
        Relay!Delivered(Other(s)) = sent[s]

(* A session past its grant cannot end the event loop of all sessions: no  *)
(* handler that can still run evaluates remote_endpoint.                   *)
GrantedNeverThrows == Granted => loop = "run"

(* After the first peer of a granted session has gone, both sockets are    *)
(* closed, whatever the other peer does.                                   *)
PeerEndClosesBoth ==
    \A s \in Side : Granted /\ peer[s] \in {"fin", "reset"} ~> open = Closed

(* An attempt to connect is never forgotten: it ends in an answer to the   *)
(* client, or, where the client or stop() has closed the socket meanwhile, *)
(* in an exception that nobody can miss (handle_connect, send_socks_reply). *)
ConnectIsAnswered ==
    ops["connect"] # "idle" ~> got["client"] # <<>> \/ loop = "threw"

(* A closed session lets go of every operation that keeps it alive.        *)
ClosedDrains ==
    loop = "run" /\ open = Closed ~> loop # "run" \/ \A x \in Op : ops[x] = "idle"

-----------------------------------------------------------------------------
(* ProxyServer.h says stop() closes the active sessions: afterwards no     *)
(* handler finds a socket of the session open.                             *)
StopCloses == stopped /\ loop = "run" => open = Closed

(* ProxyServer.h says send_socks_reply sends a reply with the given        *)
(* status: what the client receives first is a reply.                      *)
ClientIsAnswered == got["client"] # <<>> => got["client"][1] \in {Reply(st) : st \in ReplyStatus}
=============================================================================
