--------------------------- MODULE ProxySession_proofs ---------------------------
(***************************************************************************)
(* Proofs about ProxySession for any number of pieces, with SendCopies and *)
(* without unless a theorem assumes it.                                    *)
(*                                                                         *)
(* The invariant has two halves.  CoreInv is about the operations.         *)
(* Phases: the handshake, the request and the connect exclude one another  *)
(* and all that follows, so that nothing is left to throw once the client  *)
(* has its answer.  Buffers: what a write sends is what a read returned.   *)
(* Pumps: each direction is either reading or writing.  StreamInv is about *)
(* what the peers receive.  Slot: the client gets at most one piece, the   *)
(* reply, that is not the server's, and gets it first.  Flow: what a       *)
(* direction has taken from its source is what it has delivered, in order, *)
(* or one more while that piece is in its buffer.  Ends: a read that       *)
(* failed on an open socket failed because the stream had ended.  Copied:  *)
(* what SendCopies adds, that the client is answered before anything else. *)
(***************************************************************************)
EXTENDS ProxySession, TLAPS

Answered == got["client"] # <<>>

Phases ==
    /\ loop \in {"version", "auth", "resolve"} => \A x \in Op : ops[x] = "idle"
    /\ loop # "run" => ~Answered
    /\ \A x \in {"request", "connect"} :
          ops[x] # "idle" => ~Answered /\ \A y \in Op \ {x} : ops[y] = "idle"

Buffers ==
    /\ buf["server"] \in Piece
    /\ \A s \in Side : ops[Read(s)] = "ok" \/ ops[Write(Other(s))] # "idle" =>
                           \E n \in 1..MaxPieces : buf[s] = Data(n)

(* The kernel may still read the grant from the buffer.                    *)
Granting == ops["reply"] = "pending" /\ buf["server"] = Reply(0)

(* OnePumpPerDirection, from the start of the reply on.                    *)
Pumps ==
    \A s \in Side :
        /\ ops[Read(s)] = "idle" \/ ops[Write(Other(s))] = "idle"
        /\ (Granted \/ Granting) /\ open["client"] =>
              ops[Read(s)] # "idle" \/ ops[Write(Other(s))] # "idle"

CoreInv == TypeOK /\ Phases /\ Buffers /\ Pumps

-----------------------------------------------------------------------------
(* Pieces of the other side's stream that s has got, if r replies are      *)
(* among what the client has got.                                          *)
Received(s, r) == IF s = "client" THEN Len(got["client"]) - r ELSE Len(got["server"])

(* The direction from s has a piece in its buffer, or has none.            *)
Carrying(s) == ops[Read(s)] = "ok" \/ ops[Write(Other(s))] = "pending"
Settled(s)  == ops[Read(s)] = "pending" \/ ops[Write(Other(s))] = "ok"

(* No reply has been sent yet.                                             *)
Early == \/ loop \in {"version", "auth", "resolve"}
         \/ ops["request"] # "idle" \/ ops["connect"] # "idle"

Replies == {Reply(st) : st \in ReplyStatus}

(* A reply read late may be the server's first piece instead.              *)
Slot(r) ==
    /\ r = 1 => Answered /\ got["client"][1] \in Replies \cup {Data(1)}
    /\ Early => r = 0 /\ got["server"] = <<>> /\ \A s \in Side : taken[s] = 0
    /\ ops["reply"] = "pending" /\ ~SendCopies =>
          ~Answered /\ buf["server"] \in Replies \cup {Data(1)}

Flow(r) ==
    /\ \A i \in 1..Len(got["server"]) : got["server"][i] = Data(i)
    /\ \A i \in (r + 1)..Len(got["client"]) : got["client"][i] = Data(i - r)
    /\ \A s \in Side :
          /\ taken[s] <= sent[s] /\ Received(Other(s), r) <= taken[s]
          /\ Carrying(s) => buf[s] = Data(taken[s]) /\ taken[s] = Received(Other(s), r) + 1
          /\ Settled(s) => taken[s] = Received(Other(s), r)

Ends(r) ==
    \A s \in Side : open[s] /\ ops[Read(s)] = "fail" =>
        \/ peer[s] = "reset"
        \/ peer[s] = "fin" /\ taken[s] = sent[s] /\ taken[s] = Received(Other(s), r)

Copied(r) ==
    SendCopies =>
        /\ ops["reply"] # "idle" => Answered
        /\ Answered => r = 1 /\ got["client"][1] \in Replies
        /\ ~Granted => \A s \in Side : ops[Read(s)] = "idle" /\ ops[Write(s)] = "idle"

StreamInv(r) == Slot(r) /\ Flow(r) /\ Ends(r) /\ Copied(r)

-----------------------------------------------------------------------------
(* A piece may be appended to what a peer gets.                            *)
LEMMA GotIsTyped ==
    ASSUME TypeOK, NEW s \in Side, NEW p \in Piece,
           got' = got \/ got' = [got EXCEPT ![s] = Append(@, p)]
    PROVE  got' \in [Side -> Seq(Piece)]
<1>1. got[s] \in Seq(Piece) /\ got \in [Side -> Seq(Piece)]
  BY DEF TypeOK
<1>2. Append(got[s], p) \in Seq(Piece)
  BY <1>1
<1> QED
  BY <1>1, <1>2

(* Replies are pieces, and so are the data of the two streams.             *)
LEMMA PiecesAreTyped ==
    /\ \A st \in ReplyStatus : Reply(st) \in Piece
    /\ \A n \in 1..MaxPieces : Data(n) \in Piece
    /\ Zeroed \in Piece
BY DEF Piece

(* Data is not the grant.                                                  *)
LEMMA DataIsNoReply == ASSUME NEW n, NEW st PROVE Data(n) # Reply(st)
BY DEF Data, Reply

(* A fresh session has done nothing yet.                                   *)
LEMMA InitInvs == Init => CoreInv /\ StreamInv(0)
<1> SUFFICES ASSUME Init PROVE CoreInv /\ StreamInv(0)
  OBVIOUS
<1> USE SessionAssumption DEF SessionAssumption, Init, Side, Op
<1>1. TypeOK
  <2>1. loop \in LoopState /\ ops \in [Op -> OpStatus]
    BY DEF LoopState, OpStatus
  <2>2. open \in [Side -> BOOLEAN]
    OBVIOUS
  <2>3. buf \in [Side -> Piece \cup {<<"request", 0>>}]
    BY DEF Piece
  <2>4. peer \in [Side -> PeerState]
    BY DEF PeerState
  <2>5. sent \in [Side -> 0..MaxPieces] /\ taken \in [Side -> 0..MaxPieces]
    OBVIOUS
  <2>6. got \in [Side -> Seq(Piece)]
    OBVIOUS
  <2>7. stopped \in BOOLEAN
    OBVIOUS
  <2> QED
    BY <2>1, <2>2, <2>3, <2>4, <2>5, <2>6, <2>7 DEF TypeOK
<1>2. Phases
  BY DEF Phases, Answered
<1>3. Buffers
  BY PiecesAreTyped DEF Buffers, Read, Write, Other
<1>4. Pumps
  BY DEF Pumps, Read, Write, Other, Granted, Granting
<1>5. Slot(0) /\ Ends(0) /\ Copied(0)
  BY DEF Slot, Early, Answered, Granted, Ends, Copied, Read, Write
<1>6. Flow(0)
  BY DEF Flow, Carrying, Settled, Received, Read, Write, Other
<1> QED
  BY <1>1, <1>2, <1>3, <1>4, <1>5, <1>6 DEF CoreInv, StreamInv

-----------------------------------------------------------------------------
(* CoreInv is inductive, action by action.                                 *)

(* The version octet: at most the first reply goes out.                    *)
LEMMA ReadVersionCore == ASSUME CoreInv, ReadVersion PROVE CoreInv'
<1> USE SessionAssumption DEF SessionAssumption, CoreInv, Side, Op, ReadVersion,
       SendReply, SendReplyThrows, EndpointThrows, EndpointReturns
<1>1. TypeOK'
  <2>1. loop' \in LoopState /\ open' \in [Side -> BOOLEAN]
    BY DEF TypeOK, LoopState
  <2>2. ops' \in [Op -> OpStatus]
    BY DEF TypeOK, OpStatus, Read, Write, Other
  <2>3. buf' \in [Side -> Piece \cup {<<"request", 0>>}]
    BY PiecesAreTyped DEF TypeOK, ReplyStatus
  <2>4. got' \in [Side -> Seq(Piece)]
    <3>1. PICK st \in ReplyStatus :
             got' = got \/ got' = [got EXCEPT !["client"] = Append(@, Reply(st))]
      BY DEF ReplyStatus
    <3> QED
      BY <3>1, PiecesAreTyped, GotIsTyped
  <2>5. UNCHANGED <<peer, sent, taken>> /\ stopped' \in BOOLEAN
    BY DEF TypeOK
  <2> QED
    BY <2>1, <2>2, <2>3, <2>4, <2>5 DEF TypeOK
<1>2. Phases'
  BY DEF TypeOK, Phases, Answered, Read, Write, Other
<1>3. Buffers'
  <2>1. \A s \in Side : ops'[Read(s)] # "ok" /\ ops'[Write(s)] = "idle"
    BY DEF TypeOK, Phases, Read, Write, Other
  <2>2. buf'["server"] \in Piece
    BY PiecesAreTyped DEF TypeOK, Buffers, ReplyStatus
  <2> QED
    BY <2>1, <2>2 DEF Buffers, Other<1>4. Pumps'
  BY DEF TypeOK, Phases, Answered, Pumps, Granted, Granting, Reply, Read, Write, Other
<1> QED
  BY <1>1, <1>2, <1>3, <1>4

(* The authenticator returns: the request is awaited or nothing is.        *)
LEMMA AuthenticateCore == ASSUME CoreInv, Authenticate PROVE CoreInv'
<1> USE SessionAssumption DEF SessionAssumption, CoreInv, Side, Op, Authenticate
<1>1. TypeOK'
  <2>1. loop' \in LoopState /\ open' \in [Side -> BOOLEAN]
    BY DEF TypeOK, LoopState
  <2>2. ops' \in [Op -> OpStatus]
    BY DEF TypeOK, OpStatus, Read, Write, Other
  <2>3. buf' \in [Side -> Piece \cup {<<"request", 0>>}]
    BY PiecesAreTyped DEF TypeOK, ReplyStatus
  <2>4. got' \in [Side -> Seq(Piece)]
    BY DEF TypeOK
  <2>5. UNCHANGED <<peer, sent, taken>> /\ stopped' \in BOOLEAN
    BY DEF TypeOK
  <2> QED
    BY <2>1, <2>2, <2>3, <2>4, <2>5 DEF TypeOK
<1>2. Phases'
  BY DEF TypeOK, Phases, Answered, Read, Write, Other
<1>3. Buffers'
  BY PiecesAreTyped DEF TypeOK, Phases, Buffers, Read, Write, Other
<1>4. Pumps'
  BY DEF TypeOK, Phases, Answered, Pumps, Granted, Granting, Reply, Read, Write, Other
<1> QED
  BY <1>1, <1>2, <1>3, <1>4

(* The resolver returns: the connect is all there is to wait for.          *)
LEMMA ResolveCore == ASSUME CoreInv, Resolve PROVE CoreInv'
<1> USE SessionAssumption DEF SessionAssumption, CoreInv, Side, Op, Resolve,
       EndpointThrows, EndpointReturns
<1>1. TypeOK'
  BY DEF TypeOK, LoopState, OpStatus, PeerState, Read, Write, Other
<1>2. Phases'
  BY DEF TypeOK, Phases, Answered, Read, Write, Other
<1>3. Buffers'
  BY PiecesAreTyped DEF TypeOK, Phases, Buffers, Read, Write, Other
<1>4. Pumps'
  BY DEF TypeOK, Phases, Answered, Pumps, Granted, Granting, Reply, Read, Write, Other
<1> QED
  BY <1>1, <1>2, <1>3, <1>4

(* The request: a reply, a call of the resolver, or the end.               *)
LEMMA HandleRequestCore == ASSUME CoreInv, HandleRequest PROVE CoreInv'
<1> USE SessionAssumption DEF SessionAssumption, CoreInv, Side, Op, HandleRequest,
       SendReply, SendReplyThrows, EndpointThrows, EndpointReturns, CloseSession, Aborted, Closed,
       Verdicts, Refuse, Silent, Throw, Crash, Connect
<1>1. TypeOK'
  <2>1. loop' \in LoopState /\ open' \in [Side -> BOOLEAN]
    BY DEF TypeOK, LoopState
  <2>2. ops' \in [Op -> OpStatus]
    BY DEF TypeOK, OpStatus, Read, Write, Other
  <2>3. buf' \in [Side -> Piece \cup {<<"request", 0>>}]
    BY PiecesAreTyped DEF TypeOK, ReplyStatus
  <2>4. got' \in [Side -> Seq(Piece)]
    <3>1. PICK st \in ReplyStatus :
             got' = got \/ got' = [got EXCEPT !["client"] = Append(@, Reply(st))]
      BY DEF ReplyStatus
    <3> QED
      BY <3>1, PiecesAreTyped, GotIsTyped
  <2>5. UNCHANGED <<peer, sent, taken>> /\ stopped' \in BOOLEAN
    BY DEF TypeOK
  <2> QED
    BY <2>1, <2>2, <2>3, <2>4, <2>5 DEF TypeOK
<1>2. Phases'
  BY DEF TypeOK, Phases, Answered, Read, Write, Other
<1>3. Buffers'
  <2>1. \A s \in Side : ops'[Read(s)] # "ok" /\ ops'[Write(s)] = "idle"
    BY DEF TypeOK, Phases, Read, Write, Other
  <2>2. buf'["server"] \in Piece
    BY PiecesAreTyped DEF TypeOK, Buffers, ReplyStatus
  <2> QED
    BY <2>1, <2>2 DEF Buffers, Other<1>4. Pumps'
  BY DEF TypeOK, Phases, Answered, Pumps, Granted, Granting, Reply, Read, Write, Other
<1> QED
  BY <1>1, <1>2, <1>3, <1>4

(* The connect: the reply, and with a grant the two first reads.           *)
LEMMA HandleConnectCore == ASSUME CoreInv, HandleConnect PROVE CoreInv'
<1> USE SessionAssumption DEF SessionAssumption, CoreInv, Side, Op, HandleConnect,
       SendReply, SendReplyThrows, EndpointThrows, EndpointReturns,
       ForwardData, Started
<1>1. TypeOK'
  <2>1. loop' \in LoopState /\ open' \in [Side -> BOOLEAN]
    BY DEF TypeOK, LoopState
  <2>2. ops' \in [Op -> OpStatus]
    BY DEF TypeOK, OpStatus, Read, Write, Other
  <2>3. buf' \in [Side -> Piece \cup {<<"request", 0>>}]
    BY PiecesAreTyped DEF TypeOK, ReplyStatus
  <2>4. got' \in [Side -> Seq(Piece)]
    <3>1. PICK st \in ReplyStatus :
             got' = got \/ got' = [got EXCEPT !["client"] = Append(@, Reply(st))]
      BY DEF ReplyStatus
    <3> QED
      BY <3>1, PiecesAreTyped, GotIsTyped
  <2>5. UNCHANGED <<peer, sent, taken>> /\ stopped' \in BOOLEAN
    BY DEF TypeOK
  <2> QED
    BY <2>1, <2>2, <2>3, <2>4, <2>5 DEF TypeOK
<1>2. Phases'
  BY DEF TypeOK, Phases, Answered, Read, Write, Other
<1>3. Buffers'
  <2>1. \A s \in Side : ops'[Read(s)] # "ok" /\ ops'[Write(s)] = "idle"
    BY DEF TypeOK, Phases, Read, Write, Other
  <2>2. buf'["server"] \in Piece
    BY PiecesAreTyped DEF TypeOK, Buffers, ReplyStatus
  <2> QED
    BY <2>1, <2>2 DEF Buffers, Other<1>4. Pumps'
  BY DEF TypeOK, Phases, Answered, Pumps, Granted, Granting, Reply, Read, Write, Other
<1> QED
  BY <1>1, <1>2, <1>3, <1>4

(* The end of the reply does not touch the relay.                          *)
LEMMA HandleReplyWriteCore == ASSUME CoreInv, HandleReplyWrite PROVE CoreInv'
<1> USE SessionAssumption DEF SessionAssumption, CoreInv, Side, Op, HandleReplyWrite,
       CloseSession, Aborted, Closed
<1>1. TypeOK'
  <2>1. loop' \in LoopState /\ open' \in [Side -> BOOLEAN]
    BY DEF TypeOK, LoopState
  <2>2. ops' \in [Op -> OpStatus]
    BY DEF TypeOK, OpStatus, Read, Write, Other
  <2>3. buf' \in [Side -> Piece \cup {<<"request", 0>>}]
    BY PiecesAreTyped DEF TypeOK, ReplyStatus
  <2>4. got' \in [Side -> Seq(Piece)]
    BY DEF TypeOK
  <2>5. UNCHANGED <<peer, sent, taken>> /\ stopped' \in BOOLEAN
    BY DEF TypeOK
  <2> QED
    BY <2>1, <2>2, <2>3, <2>4, <2>5 DEF TypeOK
<1>2. Phases'
  BY DEF TypeOK, Phases, Answered, Read, Write, Other
<1>3. Buffers'
  BY PiecesAreTyped DEF TypeOK, Phases, Buffers, Read, Write, Other
<1>4. Pumps'
  BY DEF TypeOK, Phases, Answered, Pumps, Granted, Granting, Reply, Read, Write, Other
<1> QED
  BY <1>1, <1>2, <1>3, <1>4

(* A read hands its piece to the write of the same direction.              *)
LEMMA HandleReadCore == ASSUME CoreInv, NEW s \in Side, HandleRead(s) PROVE CoreInv'
<1> USE SessionAssumption DEF SessionAssumption, CoreInv, Side, Op, HandleRead,
       CloseSession, Aborted, Closed, Started
<1>1. TypeOK'
  <2>1. loop' \in LoopState /\ open' \in [Side -> BOOLEAN]
    BY DEF TypeOK, LoopState
  <2>2. ops' \in [Op -> OpStatus]
    BY DEF TypeOK, OpStatus, Read, Write, Other
  <2>3. buf' \in [Side -> Piece \cup {<<"request", 0>>}]
    BY PiecesAreTyped DEF TypeOK, ReplyStatus
  <2>4. got' \in [Side -> Seq(Piece)]
    BY DEF TypeOK
  <2>5. UNCHANGED <<peer, sent, taken>> /\ stopped' \in BOOLEAN
    BY DEF TypeOK
  <2> QED
    BY <2>1, <2>2, <2>3, <2>4, <2>5 DEF TypeOK
<1>2. Phases'
  BY DEF TypeOK, Phases, Answered, Read, Write, Other
<1>3. Buffers'
  BY PiecesAreTyped DEF TypeOK, Phases, Buffers, Read, Write, Other
<1>4. Pumps'
  BY DEF TypeOK, Phases, Answered, Pumps, Granted, Granting, Reply, Read, Write, Other
<1> QED
  BY <1>1, <1>2, <1>3, <1>4

(* A write hands over to the next read of the same direction.              *)
LEMMA HandleWriteCore == ASSUME CoreInv, NEW s \in Side, HandleWrite(s) PROVE CoreInv'
<1> USE SessionAssumption DEF SessionAssumption, CoreInv, Side, Op, HandleWrite,
       CloseSession, Aborted, Closed, Started
<1>1. TypeOK'
  <2>1. loop' \in LoopState /\ open' \in [Side -> BOOLEAN]
    BY DEF TypeOK, LoopState
  <2>2. ops' \in [Op -> OpStatus]
    BY DEF TypeOK, OpStatus, Read, Write, Other
  <2>3. buf' \in [Side -> Piece \cup {<<"request", 0>>}]
    BY PiecesAreTyped DEF TypeOK, ReplyStatus
  <2>4. got' \in [Side -> Seq(Piece)]
    BY DEF TypeOK
  <2>5. UNCHANGED <<peer, sent, taken>> /\ stopped' \in BOOLEAN
    BY DEF TypeOK
  <2> QED
    BY <2>1, <2>2, <2>3, <2>4, <2>5 DEF TypeOK
<1>2. Phases'
  BY DEF TypeOK, Phases, Answered, Read, Write, Other
<1>3. Buffers'
  BY PiecesAreTyped DEF TypeOK, Phases, Buffers, Read, Write, Other
<1>4. Pumps'
  BY DEF TypeOK, Phases, Answered, Pumps, Granted, Granting, Reply, Read, Write, Other
<1> QED
  BY <1>1, <1>2, <1>3, <1>4

(* stop() leaves the data alone and fails what is pending.                 *)
LEMMA StopSessionCore == ASSUME CoreInv, StopSession PROVE CoreInv'
<1> USE SessionAssumption DEF SessionAssumption, CoreInv, Side, Op, StopSession,
       Aborted, Closed
<1>1. TypeOK'
  BY DEF TypeOK, LoopState, OpStatus, PeerState, Read, Write, Other
<1>2. Phases'
  BY DEF TypeOK, Phases, Answered, Read, Write, Other
<1>3. Buffers'
  BY PiecesAreTyped DEF TypeOK, Phases, Buffers, Read, Write, Other
<1>4. Pumps'
  BY DEF TypeOK, Phases, Answered, Pumps, Granted, Granting, Reply, Read, Write, Other
<1> QED
  BY <1>1, <1>2, <1>3, <1>4

(* The octets of the request arrive before any piece does.                 *)
LEMMA RequestCompletesCore == ASSUME CoreInv, RequestCompletes PROVE CoreInv'
<1> USE SessionAssumption DEF SessionAssumption, CoreInv, Side, Op, RequestCompletes,
       Completes, peers
<1>1. TypeOK'
  BY DEF TypeOK, LoopState, OpStatus, PeerState, Read, Write, Other
<1>2. Phases'
  BY DEF TypeOK, Phases, Answered, Read, Write, Other
<1>3. Buffers'
  BY PiecesAreTyped DEF TypeOK, Phases, Buffers, Read, Write, Other
<1>4. Pumps'
  BY DEF TypeOK, Phases, Answered, Pumps, Granted, Granting, Reply, Read, Write, Other
<1> QED
  BY <1>1, <1>2, <1>3, <1>4

(* The connect ends.                                                       *)
LEMMA ConnectCompletesCore == ASSUME CoreInv, ConnectCompletes PROVE CoreInv'
<1> USE SessionAssumption DEF SessionAssumption, CoreInv, Side, Op, ConnectCompletes,
       Completes, peers
<1>1. TypeOK'
  BY DEF TypeOK, LoopState, OpStatus, PeerState, Read, Write, Other
<1>2. Phases'
  BY DEF TypeOK, Phases, Answered, Read, Write, Other
<1>3. Buffers'
  BY PiecesAreTyped DEF TypeOK, Phases, Buffers, Read, Write, Other
<1>4. Pumps'
  BY DEF TypeOK, Phases, Answered, Pumps, Granted, Granting, Reply, Read, Write, Other
<1> QED
  BY <1>1, <1>2, <1>3, <1>4

(* A read takes the next piece, or meets the end of its stream.            *)
LEMMA ReadCompletesCore == ASSUME CoreInv, NEW s \in Side, ReadCompletes(s) PROVE CoreInv'
<1> USE SessionAssumption DEF SessionAssumption, CoreInv, Side, Op, ReadCompletes, Completes, peers
<1>1. TypeOK'
  <2>1. ops' \in [Op -> OpStatus] /\ UNCHANGED <<loop, open, sent, peer, got, stopped>>
    BY DEF TypeOK, OpStatus
  <2>2. CASE UNCHANGED <<taken, buf>>
    BY <2>1, <2>2 DEF TypeOK
  <2>3. CASE /\ taken[s] < sent[s]
             /\ taken' = [taken EXCEPT ![s] = @ + 1]
             /\ buf' = [buf EXCEPT ![s] = Data(taken[s] + 1)]
    <3>1. taken[s] \in 0..MaxPieces /\ sent[s] \in 0..MaxPieces
      BY DEF TypeOK
    <3>2. taken[s] + 1 \in 1..MaxPieces
      BY <2>3, <3>1
    <3>3. taken' \in [Side -> 0..MaxPieces]
      BY <2>3, <3>2 DEF TypeOK
    <3>4. buf' \in [Side -> Piece \cup {<<"request", 0>>}]
      BY <2>3, <3>2, PiecesAreTyped DEF TypeOK
    <3> QED
      BY <2>1, <3>3, <3>4 DEF TypeOK
  <2> QED
    BY <2>2, <2>3
<1>2. Phases'
  BY DEF TypeOK, Phases, Answered, Read, Write, Other
<1>3. Buffers'
  <2>1. ops' = [ops EXCEPT ![Read(s)] = "ok"] \/ ops' = [ops EXCEPT ![Read(s)] = "fail"]
    OBVIOUS
  <2>2. \/ buf' = buf /\ ops'[Read(s)] = "fail"
        \/ \E n \in 1..MaxPieces : buf' = [buf EXCEPT ![s] = Data(n)]
    <3>1. taken[s] \in 0..MaxPieces /\ sent[s] \in 0..MaxPieces
      BY DEF TypeOK
    <3>2. taken[s] < sent[s] => taken[s] + 1 \in 1..MaxPieces
      BY <3>1
    <3> QED
      BY <3>2 DEF TypeOK, Read
  <2> QED
    BY <2>1, <2>2, PiecesAreTyped DEF TypeOK, Buffers, Read, Write, Other
<1>4. Pumps'
  BY DataIsNoReply DEF TypeOK, Phases, Answered, Pumps, Granted, Granting, Read, Write, Other
<1> QED
  BY <1>1, <1>2, <1>3, <1>4

(* What the client gets first is not the grant unless the buffer held it.  *)
LEMMA FirstPiece ==
    ASSUME TypeOK, NEW s \in Side, NEW p, got' = [got EXCEPT ![s] = Append(@, p)], Granted'
    PROVE  Granted \/ (s = "client" /\ p = Reply(0))
<1>1. got \in [Side -> Seq(Piece)] /\ got["client"] \in Seq(Piece)
  BY DEF TypeOK, Side
<1>2. CASE s = "server"
  BY <1>1, <1>2 DEF Granted, Side
<1>3. CASE s = "client" /\ got["client"] = <<>>
  <2>1. got'["client"] = <<p>>
    BY <1>1, <1>3 DEF Side
  <2> QED
    BY <1>3, <2>1 DEF Granted
<1>4. CASE s = "client" /\ got["client"] # <<>>
  <2>1. got'["client"] = Append(got["client"], p) /\ Len(got["client"]) > 0
    BY <1>1, <1>4 DEF Side
  <2>2. got'["client"][1] = got["client"][1]
    BY <1>1, <2>1
  <2> QED
    BY <1>4, <2>2 DEF Granted
<1> QED
  BY <1>2, <1>3, <1>4 DEF Side

(* What the client gets comes after the request and the connect.           *)
LEMMA DeliveryKeepsPhases ==
    ASSUME CoreInv, NEW op \in Op \ {"request", "connect"}, Completes(op, "ok")
    PROVE  Phases'
BY DEF CoreInv, TypeOK, Phases, Answered, Completes, Op

(* The reply is in the buffer, or was copied when its write was started.   *)
LEMMA ReplyCompletesCore == ASSUME CoreInv, ReplyCompletes PROVE CoreInv'
<1> USE SessionAssumption DEF SessionAssumption, CoreInv, Side, Op, ReplyCompletes, Completes, peers
<1>1. got' = got \/ got' = [got EXCEPT !["client"] = Append(@, buf["server"])]
  OBVIOUS
<1>2. TypeOK'
  <2>1. ops' \in [Op -> OpStatus]
    BY DEF TypeOK, OpStatus
  <2>2. got' \in [Side -> Seq(Piece)]
    BY <1>1, GotIsTyped DEF Buffers
  <2> QED
    BY <2>1, <2>2 DEF TypeOK
<1>3. Phases'
  <2>1. CASE got' = got
    BY <2>1 DEF TypeOK, Phases, Answered
  <2>2. CASE Completes("reply", "ok")
    BY <2>2, DeliveryKeepsPhases
  <2> QED
    BY <2>1, <2>2
<1>4. Buffers'
  BY DEF TypeOK, Buffers, Read, Write, Other
<1>5. Pumps'
  <2>1. Granted' => Granted \/ Granting
    BY <1>1, FirstPiece DEF Granted, Granting
  <2> QED
    BY <2>1 DEF TypeOK, Pumps, Granting, Read, Write, Other
<1> QED
  BY <1>2, <1>3, <1>4, <1>5

(* A write delivers the piece its direction carries, which is no grant.    *)
LEMMA WriteCompletesCore == ASSUME CoreInv, NEW s \in Side, WriteCompletes(s) PROVE CoreInv'
<1> USE SessionAssumption DEF SessionAssumption, CoreInv, Side, Op, WriteCompletes, Completes, peers
<1>1. PICK n \in 1..MaxPieces : buf[Other(s)] = Data(n)
  <2>1. Other(s) \in Side /\ Other(Other(s)) = s /\ ops[Write(s)] # "idle"
    BY DEF Other
  <2> QED
    BY <2>1 DEF Buffers
<1>2. got' = got \/ got' = [got EXCEPT ![s] = Append(@, Data(n))]
  BY <1>1
<1>3. TypeOK'
  <2>1. ops' \in [Op -> OpStatus]
    BY DEF TypeOK, OpStatus, Write
  <2>2. got' \in [Side -> Seq(Piece)]
    BY <1>2, GotIsTyped, PiecesAreTyped
  <2> QED
    BY <2>1, <2>2 DEF TypeOK
<1>4. Phases'
  <2>1. CASE got' = got
    BY <2>1 DEF TypeOK, Phases, Answered, Write
  <2>2. CASE Completes(Write(s), "ok")
    BY <2>2, DeliveryKeepsPhases DEF Write
  <2> QED
    BY <2>1, <2>2
<1>5. Buffers'
  BY DEF TypeOK, Buffers, Read, Write, Other
<1>6. Pumps'
  <2>1. Granted' => Granted
    <3>1. CASE got' = got
      BY <3>1 DEF Granted
    <3>2. CASE got' = [got EXCEPT ![s] = Append(@, Data(n))]
      <4>1. Granted' => Granted \/ Data(n) = Reply(0)
        BY <3>2, FirstPiece
      <4> QED
        BY <4>1, DataIsNoReply
    <3> QED
      BY <1>2, <3>1, <3>2
  <2> QED
    BY <2>1 DEF TypeOK, Pumps, Granting, Read, Write, Other
<1> QED
  BY <1>3, <1>4, <1>5, <1>6

(* A peer that sends changes nothing that the session has.                 *)
LEMMA PeerSendsCore == ASSUME CoreInv, NEW s \in Side, PeerSends(s) PROVE CoreInv'
<1> USE SessionAssumption DEF SessionAssumption, CoreInv, Side, Op, PeerSends
<1>1. TypeOK'
  BY DEF TypeOK, LoopState, OpStatus, PeerState, Read, Write, Other
<1>2. Phases'
  BY DEF TypeOK, Phases, Answered, Read, Write, Other
<1>3. Buffers'
  BY PiecesAreTyped DEF TypeOK, Phases, Buffers, Read, Write, Other
<1>4. Pumps'
  BY DEF TypeOK, Phases, Answered, Pumps, Granted, Granting, Reply, Read, Write, Other
<1> QED
  BY <1>1, <1>2, <1>3, <1>4

(* Nor does a peer that ends its stream.                                   *)
LEMMA PeerEndsCore == ASSUME CoreInv, NEW s \in Side, PeerEnds(s) PROVE CoreInv'
<1> USE SessionAssumption DEF SessionAssumption, CoreInv, Side, Op, PeerEnds
<1>1. TypeOK'
  BY DEF TypeOK, LoopState, OpStatus, PeerState, Read, Write, Other
<1>2. Phases'
  BY DEF TypeOK, Phases, Answered, Read, Write, Other
<1>3. Buffers'
  BY PiecesAreTyped DEF TypeOK, Phases, Buffers, Read, Write, Other
<1>4. Pumps'
  BY DEF TypeOK, Phases, Answered, Pumps, Granted, Granting, Reply, Read, Write, Other
<1> QED
  BY <1>1, <1>2, <1>3, <1>4

LEMMA NextCoreInv == CoreInv /\ [Next]_vars => CoreInv'
<1> SUFFICES ASSUME CoreInv, [Next]_vars PROVE CoreInv'
  OBVIOUS
<1>1. CASE UNCHANGED vars
  BY <1>1 DEF vars, CoreInv, TypeOK, Phases, Answered, Buffers, Pumps, Granted, Granting
<1>2. CASE ReadVersion \/ Authenticate \/ Resolve \/ StopSession
  BY <1>2, ReadVersionCore, AuthenticateCore, ResolveCore, StopSessionCore
<1>3. CASE Handlers
  BY <1>3, HandleRequestCore, HandleConnectCore, HandleReplyWriteCore, HandleReadCore,
     HandleWriteCore DEF Handlers
<1>4. CASE Kernel
  BY <1>4, RequestCompletesCore, ConnectCompletesCore, ReplyCompletesCore,
     ReadCompletesCore, WriteCompletesCore DEF Kernel
<1>5. CASE Peers
  BY <1>5, PeerSendsCore, PeerEndsCore DEF Peers
<1> QED
  BY <1>1, <1>2, <1>3, <1>4, <1>5 DEF Next

LEMMA SpecCoreInv == Spec => []CoreInv
BY InitInvs, NextCoreInv, PTL DEF Spec

-----------------------------------------------------------------------------
(* StreamInv is inductive too, action by action.                           *)

(* Nothing is read or written yet.                                         *)
LEMMA AuthenticateStream ==
    ASSUME CoreInv, NEW r \in {0, 1}, StreamInv(r), Authenticate
    PROVE  StreamInv(r)'
<1> USE DEF CoreInv, StreamInv, Side, Op, Authenticate
<1>1. Slot(r)'
  BY DEF TypeOK, Phases, Slot, Early, Answered, Read, Write, Other
<1>2. Flow(r)'
  BY DEF TypeOK, Phases, Slot, Early, Pumps, Flow, Carrying, Settled, Received, Read, Write, Other
<1>3. Ends(r)'
  BY DEF TypeOK, Phases, Pumps, Flow, Ends, Carrying, Settled, Received, Read, Write, Other
<1>4. Copied(r)'
  BY DEF TypeOK, Phases, Answered, Copied, Granted, Read, Write, Other
<1> QED
  BY <1>1, <1>2, <1>3, <1>4

(* Nothing is read or written yet.                                         *)
LEMMA ResolveStream ==
    ASSUME CoreInv, NEW r \in {0, 1}, StreamInv(r), Resolve
    PROVE  StreamInv(r)'
<1> USE DEF CoreInv, StreamInv, Side, Op, Resolve,
       EndpointThrows, EndpointReturns
<1>1. Slot(r)'
  BY DEF TypeOK, Phases, Slot, Early, Answered, Read, Write, Other
<1>2. Flow(r)'
  BY DEF TypeOK, Phases, Slot, Early, Pumps, Flow, Carrying, Settled, Received, Read, Write, Other
<1>3. Ends(r)'
  BY DEF TypeOK, Phases, Pumps, Flow, Ends, Carrying, Settled, Received, Read, Write, Other
<1>4. Copied(r)'
  BY DEF TypeOK, Phases, Answered, Copied, Granted, Read, Write, Other
<1> QED
  BY <1>1, <1>2, <1>3, <1>4

(* The end of the reply leaves the streams alone.                          *)
LEMMA HandleReplyWriteStream ==
    ASSUME CoreInv, NEW r \in {0, 1}, StreamInv(r), HandleReplyWrite
    PROVE  StreamInv(r)'
<1> USE DEF CoreInv, StreamInv, Side, Op, HandleReplyWrite,
       CloseSession, Aborted, Closed
<1>1. Slot(r)'
  BY DEF TypeOK, Phases, Slot, Early, Answered, Read, Write, Other
<1>2. Flow(r)'
  BY DEF TypeOK, Phases, Slot, Early, Pumps, Flow, Carrying, Settled, Received, Read, Write, Other
<1>3. Ends(r)'
  BY DEF TypeOK, Phases, Pumps, Flow, Ends, Carrying, Settled, Received, Read, Write, Other
<1>4. Copied(r)'
  BY DEF TypeOK, Phases, Answered, Copied, Granted, Read, Write, Other
<1> QED
  BY <1>1, <1>2, <1>3, <1>4

(* The piece read is the piece the next write carries.                     *)
LEMMA HandleReadStream ==
    ASSUME CoreInv, NEW r \in {0, 1}, StreamInv(r), NEW s \in Side, HandleRead(s)
    PROVE  StreamInv(r)'
<1> USE DEF CoreInv, StreamInv, Side, Op, HandleRead,
       CloseSession, Aborted, Closed, Started
<1>1. Slot(r)'
  BY DEF TypeOK, Phases, Slot, Early, Answered, Read, Write, Other
<1>2. Flow(r)'
  BY DEF TypeOK, Phases, Slot, Early, Pumps, Flow, Carrying, Settled, Received, Read, Write, Other
<1>3. Ends(r)'
  BY DEF TypeOK, Phases, Pumps, Flow, Ends, Carrying, Settled, Received, Read, Write, Other
<1>4. Copied(r)'
  BY DEF TypeOK, Phases, Answered, Copied, Granted, Read, Write, Other
<1> QED
  BY <1>1, <1>2, <1>3, <1>4

(* What was written was taken, and nothing more.                           *)
LEMMA HandleWriteStream ==
    ASSUME CoreInv, NEW r \in {0, 1}, StreamInv(r), NEW s \in Side, HandleWrite(s)
    PROVE  StreamInv(r)'
<1> USE DEF CoreInv, StreamInv, Side, Op, HandleWrite,
       CloseSession, Aborted, Closed, Started
<1>1. Slot(r)'
  BY DEF TypeOK, Phases, Slot, Early, Answered, Read, Write, Other
<1>2. Flow(r)'
  BY DEF TypeOK, Phases, Slot, Early, Pumps, Flow, Carrying, Settled, Received, Read, Write, Other
<1>3. Ends(r)'
  BY DEF TypeOK, Phases, Pumps, Flow, Ends, Carrying, Settled, Received, Read, Write, Other
<1>4. Copied(r)'
  BY DEF TypeOK, Phases, Answered, Copied, Granted, Read, Write, Other
<1> QED
  BY <1>1, <1>2, <1>3, <1>4

(* A close fails pending reads, but on a socket that is no longer open.    *)
LEMMA StopSessionStream ==
    ASSUME CoreInv, NEW r \in {0, 1}, StreamInv(r), StopSession
    PROVE  StreamInv(r)'
<1> USE DEF CoreInv, StreamInv, Side, Op, StopSession,
       Aborted, Closed
<1>1. Slot(r)'
  BY DEF TypeOK, Phases, Slot, Early, Answered, Read, Write, Other
<1>2. Flow(r)'
  BY DEF TypeOK, Phases, Slot, Early, Pumps, Flow, Carrying, Settled, Received, Read, Write, Other
<1>3. Ends(r)'
  BY DEF TypeOK, Phases, Pumps, Flow, Ends, Carrying, Settled, Received, Read, Write, Other
<1>4. Copied(r)'
  BY DEF TypeOK, Phases, Answered, Copied, Granted, Read, Write, Other
<1> QED
  BY <1>1, <1>2, <1>3, <1>4

(* No stream has begun.                                                    *)
LEMMA RequestCompletesStream ==
    ASSUME CoreInv, NEW r \in {0, 1}, StreamInv(r), RequestCompletes
    PROVE  StreamInv(r)'
<1> USE DEF CoreInv, StreamInv, Side, Op, RequestCompletes,
       Completes, peers
<1>1. Slot(r)'
  BY DEF TypeOK, Phases, Slot, Early, Answered, Read, Write, Other
<1>2. Flow(r)'
  BY DEF TypeOK, Phases, Slot, Early, Pumps, Flow, Carrying, Settled, Received, Read, Write, Other
<1>3. Ends(r)'
  BY DEF TypeOK, Phases, Pumps, Flow, Ends, Carrying, Settled, Received, Read, Write, Other
<1>4. Copied(r)'
  BY DEF TypeOK, Phases, Answered, Copied, Granted, Read, Write, Other
<1> QED
  BY <1>1, <1>2, <1>3, <1>4

(* No stream has begun.                                                    *)
LEMMA ConnectCompletesStream ==
    ASSUME CoreInv, NEW r \in {0, 1}, StreamInv(r), ConnectCompletes
    PROVE  StreamInv(r)'
<1> USE DEF CoreInv, StreamInv, Side, Op, ConnectCompletes,
       Completes, peers
<1>1. Slot(r)'
  BY DEF TypeOK, Phases, Slot, Early, Answered, Read, Write, Other
<1>2. Flow(r)'
  BY DEF TypeOK, Phases, Slot, Early, Pumps, Flow, Carrying, Settled, Received, Read, Write, Other
<1>3. Ends(r)'
  BY DEF TypeOK, Phases, Pumps, Flow, Ends, Carrying, Settled, Received, Read, Write, Other
<1>4. Copied(r)'
  BY DEF TypeOK, Phases, Answered, Copied, Granted, Read, Write, Other
<1> QED
  BY <1>1, <1>2, <1>3, <1>4

(* A peer that sends widens the gap between sent and taken.                *)
LEMMA PeerSendsStream ==
    ASSUME CoreInv, NEW r \in {0, 1}, StreamInv(r), NEW s \in Side, PeerSends(s)
    PROVE  StreamInv(r)'
<1> USE DEF CoreInv, StreamInv, Side, Op, PeerSends
<1>1. Slot(r)'
  BY DEF TypeOK, Phases, Slot, Early, Answered, Read, Write, Other
<1>2. Flow(r)'
  BY DEF TypeOK, Phases, Slot, Early, Pumps, Flow, Carrying, Settled, Received, Read, Write, Other
<1>3. Ends(r)'
  BY DEF TypeOK, Phases, Pumps, Flow, Ends, Carrying, Settled, Received, Read, Write, Other
<1>4. Copied(r)'
  BY DEF TypeOK, Phases, Answered, Copied, Granted, Read, Write, Other
<1> QED
  BY <1>1, <1>2, <1>3, <1>4

(* A peer that ends its stream has sent what it has sent.                  *)
LEMMA PeerEndsStream ==
    ASSUME CoreInv, NEW r \in {0, 1}, StreamInv(r), NEW s \in Side, PeerEnds(s)
    PROVE  StreamInv(r)'
<1> USE DEF CoreInv, StreamInv, Side, Op, PeerEnds
<1>1. Slot(r)'
  BY DEF TypeOK, Phases, Slot, Early, Answered, Read, Write, Other
<1>2. Flow(r)'
  BY DEF TypeOK, Phases, Slot, Early, Pumps, Flow, Carrying, Settled, Received, Read, Write, Other
<1>3. Ends(r)'
  BY DEF TypeOK, Phases, Pumps, Flow, Ends, Carrying, Settled, Received, Read, Write, Other
<1>4. Copied(r)'
  BY DEF TypeOK, Phases, Answered, Copied, Granted, Read, Write, Other
<1> QED
  BY <1>1, <1>2, <1>3, <1>4

(* The first reply, whether it is copied or stays in the buffer.           *)
LEMMA FirstReply ==
    ASSUME CoreInv, NEW r \in {0, 1}, StreamInv(r), Early, UNCHANGED <<peer, sent, taken>>,
           NEW st \in ReplyStatus, NEW o \in [Op -> OpStatus], SendReply(st, o),
           o["request"] = "idle", o["connect"] = "idle",
           \A s \in Side : /\ o[Read(s)] \in {"idle", "pending", "fail"} /\ o[Write(s)] = "idle"
                           /\ o[Read(s)] # "idle" => st = 0
                           /\ o[Read(s)] = "fail" => ~open[s]
    PROVE  \E q \in {0, 1} : StreamInv(q)'
<1> USE DEF Side, Op
<1>1. /\ r = 0 /\ got["server"] = <<>> /\ got["client"] = <<>> /\ taken["client"] = 0 /\ taken["server"] = 0
      /\ got \in [Side -> Seq(Piece)] /\ sent["client"] \in Nat /\ sent["server"] \in Nat
      /\ buf \in [Side -> Piece \cup {<<"request", 0>>}]
  BY SessionAssumption DEF SessionAssumption, CoreInv, TypeOK, Phases, Answered, StreamInv, Slot, Early
<1>2. /\ loop' = "run" /\ ops' = [o EXCEPT !["reply"] = "pending"] /\ open' = open
      /\ buf'["server"] = Reply(st) /\ taken' = taken /\ sent' = sent /\ got'["server"] = <<>>
  BY <1>1 DEF SendReply
<1>3. /\ ~Early'
      /\ \A s \in Side : ~Carrying(s)' /\ (ops'[Read(s)] = "fail" => ~open'[s])
      /\ \A s \in Side : ops'[Write(s)] = "idle" /\ (ops'[Read(s)] # "idle" => st = 0)
  BY <1>2 DEF Early, Carrying, Read, Write, Other
<1>4. CASE SendCopies
  <2>1. got'["client"] = <<Reply(st)>>
    BY <1>1, <1>4 DEF SendReply
  <2>2. Received("client", 1)' = 0 /\ Received("server", 1)' = 0
    BY <1>2, <2>1 DEF Received
  <2>3. Slot(1)'
    BY <1>3, <1>4, <2>1 DEF Slot, Answered, Replies
  <2>4. Flow(1)'
    BY <1>1, <1>2, <1>3, <2>1, <2>2 DEF Flow, Other
  <2>5. Ends(1)' /\ Copied(1)'
    BY <1>3, <2>1 DEF Ends, Copied, Answered, Granted, Replies
  <2> QED
    BY <2>3, <2>4, <2>5 DEF StreamInv
<1>5. CASE ~SendCopies
  <2>1. got'["client"] = <<>>
    BY <1>1, <1>5 DEF SendReply
  <2>2. Received("client", 0)' = 0 /\ Received("server", 0)' = 0
    BY <1>2, <2>1 DEF Received
  <2>3. Slot(0)'
    BY <1>2, <1>3, <2>1 DEF Slot, Answered, Replies
  <2>4. Flow(0)'
    BY <1>1, <1>2, <1>3, <2>1, <2>2 DEF Flow, Other
  <2>5. Ends(0)' /\ Copied(0)'
    BY <1>3, <1>5 DEF Ends, Copied
  <2> QED
    BY <2>3, <2>4, <2>5 DEF StreamInv
<1> QED
  BY <1>4, <1>5

(* A step before the first reply that sends none.                          *)
LEMMA NoReply ==
    ASSUME CoreInv, NEW r \in {0, 1}, StreamInv(r), Early, UNCHANGED <<peer, sent, taken, got>>,
           \A s \in Side : ops'[Read(s)] = "idle" /\ ops'[Write(s)] = "idle",
           ops'["reply"] = "idle"
    PROVE  StreamInv(r)'
<1> USE DEF Side
<1>1. /\ got["client"] = <<>> /\ r = 0
      /\ \A s \in Side : taken[s] <= sent[s] /\ Received(Other(s), r) <= taken[s]
  BY DEF CoreInv, Phases, Answered, StreamInv, Slot, Early, Flow
<1>2. Slot(r)'
  BY <1>1 DEF StreamInv, Slot, Answered
<1>3. Flow(r)' /\ Ends(r)'
  BY <1>1 DEF StreamInv, Flow, Ends, Received, Carrying, Settled, Read, Write, Other
<1>4. Copied(r)'
  BY <1>1 DEF Copied, Answered
<1> QED
  BY <1>2, <1>3, <1>4 DEF StreamInv

(* The version octet: a reply is given, or the handshake goes on.          *)
LEMMA ReadVersionStream ==
    ASSUME CoreInv, NEW r \in {0, 1}, StreamInv(r), ReadVersion
    PROVE  \E q \in {0, 1} : StreamInv(q)'
<1>1. Early /\ ops \in [Op -> OpStatus] /\ \A x \in Op : ops[x] = "idle"
  BY DEF ReadVersion, Early, CoreInv, TypeOK, Phases
<1>2. \A s \in Side : Read(s) \in Op /\ Write(s) \in Op
  BY DEF Side, Op, Read, Write
<1>3. CASE SendReply(5, ops)
  BY <1>1, <1>2, <1>3, FirstReply DEF ReadVersion, ReplyStatus, Op
<1>4. CASE ~SendReply(5, ops)
  <2>1. ops' = ops /\ UNCHANGED <<peer, sent, taken, got>>
    BY <1>4 DEF ReadVersion, SendReplyThrows
  <2> QED
    BY <1>1, <1>2, <2>1, NoReply DEF Op
<1> QED
  BY <1>3, <1>4

(* The request: a refusal, or the way to the connect.                      *)
LEMMA HandleRequestStream ==
    ASSUME CoreInv, NEW r \in {0, 1}, StreamInv(r), HandleRequest
    PROVE  \E q \in {0, 1} : StreamInv(q)'
<1> DEFINE o == [ops EXCEPT !["request"] = "idle"]
<1>1. Early /\ o \in [Op -> OpStatus] /\ \A x \in Op : o[x] = "idle"
  BY DEF HandleRequest, Early, CoreInv, TypeOK, Phases, Op, OpStatus
<1>2. \A s \in Side : Read(s) \in Op /\ Write(s) \in Op
  BY DEF Side, Op, Read, Write
<1>3. ASSUME NEW st \in ReplyStatus, SendReply(st, o)
      PROVE  \E q \in {0, 1} : StreamInv(q)'
  <2>1. UNCHANGED <<peer, sent, taken>>
    BY DEF HandleRequest
  <2> HIDE DEF o
  <2> QED
    BY <1>1, <1>2, <1>3, <2>1, FirstReply DEF Op
<1>4. CASE (ops' = o \/ ops' = Aborted(o)) /\ got' = got
  <2>1. \A x \in Op : ops'[x] = "idle"
    BY <1>1, <1>4 DEF Aborted
  <2>2. UNCHANGED <<peer, sent, taken, got>>
    BY <1>4 DEF HandleRequest
  <2> QED
    BY <1>1, <1>2, <2>1, <2>2, NoReply DEF Op
<1>5. (\E st \in ReplyStatus : SendReply(st, o)) \/ ((ops' = o \/ ops' = Aborted(o)) /\ got' = got)
  <2>1. CASE CloseSession(o)
    BY <2>1 DEF CloseSession
  <2>2. CASE \E v \in Verdicts : v.kind = "refuse" /\ SendReply(v.status, o)
    <3>1. PICK v \in Verdicts : v.kind = "refuse" /\ SendReply(v.status, o)
      BY <2>2
    <3>2. v.status \in ReplyStatus
      BY <3>1 DEF Verdicts, Refuse, Silent, Throw, Crash, Connect, ReplyStatus
    <3> QED
      BY <3>1, <3>2
  <2>3. CASE ops' = o /\ got' = got
    BY <2>3
  <2> QED
    BY <2>1, <2>2, <2>3 DEF HandleRequest, SendReplyThrows
<1> QED
  BY <1>3, <1>4, <1>5

(* The connect: the grant with the first reads, or a refusal.              *)
LEMMA HandleConnectStream ==
    ASSUME CoreInv, NEW r \in {0, 1}, StreamInv(r), HandleConnect
    PROVE  \E q \in {0, 1} : StreamInv(q)'
<1> DEFINE o == [ops EXCEPT !["connect"] = "idle"]
<1>1. Early /\ o \in [Op -> OpStatus] /\ \A x \in Op : o[x] = "idle"
  BY DEF HandleConnect, Early, CoreInv, TypeOK, Phases, Op, OpStatus
<1>2. \A s \in Side : Read(s) \in Op /\ Write(s) \in Op
  BY DEF Side, Op, Read, Write
<1>3. UNCHANGED <<peer, sent, taken>>
  BY DEF HandleConnect
<1>4. /\ ForwardData(o) \in [Op -> OpStatus]
      /\ ForwardData(o)["request"] = "idle" /\ ForwardData(o)["connect"] = "idle"
      /\ \A s \in Side : /\ ForwardData(o)[Read(s)] \in {"idle", "pending", "fail"}
                         /\ ForwardData(o)[Write(s)] = "idle"
                         /\ ForwardData(o)[Read(s)] = "fail" => ~open[s]
  BY <1>1 DEF ForwardData, Started, Side, Op, OpStatus, Read, Write
<1> HIDE DEF o
<1>5. CASE SendReply(0, ForwardData(o))
  BY <1>3, <1>4, <1>1, <1>5, FirstReply DEF ReplyStatus
<1>6. CASE SendReply(5, o)
  BY <1>1, <1>2, <1>3, <1>6, FirstReply DEF ReplyStatus, Op
<1>7. CASE SendReplyThrows(o)
  <2>1. ops' = o /\ got' = got
    BY <1>7 DEF SendReplyThrows
  <2> QED
    BY <1>1, <1>2, <1>3, <2>1, NoReply DEF Op
<1> QED
  BY <1>5, <1>6, <1>7 DEF HandleConnect, o

(* The reply was copied, or goes out as what the buffer then holds.        *)
LEMMA ReplyCompletesStream ==
    ASSUME CoreInv, NEW r \in {0, 1}, StreamInv(r), ReplyCompletes
    PROVE  \E q \in {0, 1} : StreamInv(q)'
<1> USE DEF Side, Op
<1>1. /\ ops["reply"] = "pending" /\ loop = "run" /\ ~Early /\ ~Early'
      /\ UNCHANGED <<loop, open, sent, stopped, buf, taken, peer>>
      /\ \A s \in Side : ops'[Read(s)] = ops[Read(s)] /\ ops'[Write(s)] = ops[Write(s)]
      /\ ops'["reply"] \in {"ok", "fail"}
  BY DEF ReplyCompletes, Completes, peers, CoreInv, TypeOK, Phases, Early, Read, Write
<1>2. \A s \in Side : Carrying(s)' = Carrying(s) /\ Settled(s)' = Settled(s)
  BY <1>1 DEF Carrying, Settled, Other
<1>3. CASE got' = got
  <2>1. Slot(r)'
    BY <1>1, <1>3 DEF StreamInv, Slot, Answered
  <2>2. Flow(r)'
    BY <1>1, <1>2, <1>3 DEF StreamInv, Flow, Received
  <2>3. Ends(r)' /\ Copied(r)'
    BY <1>1, <1>3 DEF StreamInv, Ends, Copied, Answered, Granted, Received
  <2> QED
    BY <2>1, <2>2, <2>3 DEF StreamInv
<1>4. CASE ~SendCopies /\ got' = [got EXCEPT !["client"] = Append(@, buf["server"])]
  <2>1. got["client"] = <<>> /\ r = 0 /\ buf["server"] \in Replies \cup {Data(1)}
    BY <1>1, <1>4 DEF StreamInv, Slot, Answered
  <2>2. got'["client"] = <<buf["server"]>> /\ got'["server"] = got["server"]
    BY <1>4, <2>1 DEF CoreInv, TypeOK
  <2>3. /\ Received("client", 1)' = Received("client", r)
        /\ Received("server", 1)' = Received("server", r)
    BY <2>1, <2>2 DEF Received
  <2>4. Slot(1)'
    BY <1>1, <2>1, <2>2 DEF Slot, Answered
  <2>5. Flow(1)'
    BY <1>1, <1>2, <2>1, <2>2, <2>3 DEF StreamInv, Flow, Other
  <2>6. Ends(1)' /\ Copied(1)'
    BY <1>1, <1>4, <2>3 DEF StreamInv, Ends, Copied, Other
  <2> QED
    BY <2>4, <2>5, <2>6 DEF StreamInv
<1> QED
  BY <1>3, <1>4 DEF ReplyCompletes, peers

(* A read takes the next piece, or fails at the end of the stream.         *)
LEMMA ReadCompletesStream ==
    ASSUME CoreInv, NEW r \in {0, 1}, StreamInv(r), NEW s \in Side, ReadCompletes(s)
    PROVE  StreamInv(r)'
<1> USE DEF Side, Op
<1>1. /\ ops[Read(s)] = "pending" /\ loop = "run" /\ ~Early /\ ~Early' /\ ops'["reply"] = ops["reply"]
      /\ UNCHANGED <<loop, open, sent, stopped, got, peer>> /\ Settled(s)
  BY DEF ReadCompletes, Completes, peers, CoreInv, TypeOK, Phases, Early, Read, Settled
<1>2. /\ taken[s] = Received(Other(s), r) /\ taken[s] \in Nat /\ sent[s] \in Nat
      /\ \A t \in Side : Received(t, r)' = Received(t, r)
  BY <1>1 DEF StreamInv, Flow, CoreInv, TypeOK, Received
<1>3. /\ ~Settled(s)' /\ ops'[Write(Other(s))] = "idle"
      /\ \A t \in Side \ {s} : /\ Carrying(t)' = Carrying(t) /\ Settled(t)' = Settled(t)
                               /\ ops'[Read(t)] = ops[Read(t)]
  BY <1>1 DEF ReadCompletes, Completes, CoreInv, TypeOK, Pumps, Carrying, Settled, Read, Write, Other
<1>4. Copied(r)'
  BY <1>1 DEF ReadCompletes, Completes, StreamInv, Copied, CoreInv, TypeOK, Answered, Granted, Read, Write
<1>5. CASE UNCHANGED <<taken, buf>> /\ ops'[Read(s)] = "fail"
              /\ (peer[s] = "reset" \/ (peer[s] = "fin" /\ taken[s] = sent[s]))
  <2>1. Slot(r)'
    BY <1>1, <1>5 DEF StreamInv, Slot, Answered
  <2>2. Flow(r)'
    BY <1>1, <1>2, <1>3, <1>5 DEF StreamInv, Flow, Carrying, Other
  <2>3. Ends(r)'
    BY <1>1, <1>2, <1>3, <1>5 DEF StreamInv, Ends, Other
  <2> QED
    BY <1>4, <2>1, <2>2, <2>3 DEF StreamInv
<1>6. CASE /\ taken[s] < sent[s] /\ taken' = [taken EXCEPT ![s] = @ + 1]
           /\ buf' = [buf EXCEPT ![s] = Data(taken[s] + 1)] /\ ops'[Read(s)] = "ok"
  <2>1. /\ taken'[s] = taken[s] + 1 /\ buf'[s] = Data(taken'[s])
        /\ \A t \in Side \ {s} : taken'[t] = taken[t] /\ buf'[t] = buf[t]
    BY <1>6 DEF CoreInv, TypeOK
  <2>2. Slot(r)'
    <3>1. ASSUME ops["reply"] = "pending", ~SendCopies
          PROVE  buf'["server"] \in Replies \cup {Data(1)}
      <4>1. CASE s = "client"
        BY <2>1, <3>1, <4>1 DEF StreamInv, Slot
      <4>2. CASE s = "server"
        <5>1. got["client"] = <<>> /\ r = 0
          BY <3>1 DEF StreamInv, Slot, Answered
        <5>2. taken["server"] = 0
          BY <1>2, <4>2, <5>1 DEF Received, Other
        <5> QED
          BY <2>1, <4>2, <5>2
      <4> QED
        BY <4>1, <4>2
    <3> QED
      BY <1>1, <3>1 DEF StreamInv, Slot, Answered
  <2>3. Flow(r)'
    <3>1. /\ \A i \in 1..Len(got'["server"]) : got'["server"][i] = Data(i)
          /\ \A i \in (r + 1)..Len(got'["client"]) : got'["client"][i] = Data(i - r)
      BY <1>1 DEF StreamInv, Flow
    <3>2. \A t \in Side \ {s} :
             /\ taken'[t] <= sent'[t] /\ Received(Other(t), r)' <= taken'[t]
             /\ Carrying(t)' => buf'[t] = Data(taken'[t]) /\ taken'[t] = Received(Other(t), r)' + 1
             /\ Settled(t)' => taken'[t] = Received(Other(t), r)'
      BY <1>1, <1>2, <1>3, <2>1 DEF StreamInv, Flow, Other
    <3>3. /\ taken'[s] <= sent'[s] /\ Received(Other(s), r)' <= taken'[s]
          /\ buf'[s] = Data(taken'[s]) /\ taken'[s] = Received(Other(s), r)' + 1
      BY <1>1, <1>2, <1>6, <2>1 DEF Other
    <3> QED
      BY <1>3, <3>1, <3>2, <3>3 DEF Flow
  <2>4. Ends(r)'
    BY <1>1, <1>2, <1>3, <1>6, <2>1 DEF StreamInv, Ends, Other
  <2> QED
    BY <1>4, <2>2, <2>3, <2>4 DEF StreamInv
<1> QED
  BY <1>5, <1>6 DEF ReadCompletes, Completes, peers, CoreInv, TypeOK, Read

(* A write delivers the piece its direction carries.                       *)
LEMMA WriteCompletesStream ==
    ASSUME CoreInv, NEW r \in {0, 1}, StreamInv(r), NEW s \in Side, WriteCompletes(s)
    PROVE  StreamInv(r)'
<1> USE DEF Side, Op
<1>1. /\ ops[Write(s)] = "pending" /\ loop = "run" /\ ~Early /\ ~Early' /\ ops'["reply"] = ops["reply"]
      /\ UNCHANGED <<loop, open, sent, stopped, buf, peer, taken>>
      /\ \A t \in Side : ops'[Read(t)] = ops[Read(t)]
  BY DEF WriteCompletes, Completes, peers, CoreInv, TypeOK, Phases, Early, Read, Write
<1>2. /\ ~Carrying(Other(s))'
      /\ \A t \in Side \ {Other(s)} : Carrying(t)' = Carrying(t) /\ Settled(t)' = Settled(t)
  BY <1>1 DEF WriteCompletes, Completes, CoreInv, TypeOK, Pumps, Carrying, Settled, Read, Write, Other
<1>3. CASE got' = got /\ ops'[Write(s)] = "fail"
  <2>1. Slot(r)' /\ Ends(r)'
    BY <1>1, <1>3 DEF StreamInv, Slot, Ends, Answered, Received
  <2>2. ~Settled(Other(s))'
    BY <1>1, <1>3 DEF CoreInv, Pumps, Settled, Other
  <2>3. Flow(r)'
    BY <1>1, <1>2, <1>3, <2>2 DEF StreamInv, Flow, Received
  <2>4. Copied(r)'
    BY <1>1, <1>3 DEF StreamInv, Copied, Answered, Granted, Write
  <2> QED
    BY <2>1, <2>3, <2>4 DEF StreamInv
<1>4. CASE /\ ops'[Write(s)] = "ok" /\ (s = "client" => ops["reply"] # "pending")
           /\ got' = [got EXCEPT ![s] = Append(@, buf[Other(s)])]
  <2>1. /\ buf[Other(s)] = Data(taken[Other(s)]) /\ taken[Other(s)] = Received(s, r) + 1
        /\ taken[Other(s)] \in Nat
    BY <1>1 DEF StreamInv, Flow, Carrying, CoreInv, TypeOK, Other
  <2>2. got[s] \in Seq(Piece) /\ got \in [Side -> Seq(Piece)] /\ got["client"] \in Seq(Piece)
    BY DEF CoreInv, TypeOK
  <2>3. /\ got'[s] = Append(got[s], buf[Other(s)]) /\ got'[Other(s)] = got[Other(s)]
        /\ Len(got'[s]) = Len(got[s]) + 1 /\ got'[s][Len(got[s]) + 1] = buf[Other(s)]
        /\ \A i \in 1..Len(got[s]) : got'[s][i] = got[s][i]
        /\ Len(got[s]) \in Nat
    BY <1>4, <2>2 DEF Other
  <2>4. Received(s, r)' = Received(s, r) + 1 /\ Received(Other(s), r)' = Received(Other(s), r)
    BY <2>3 DEF Received, Other
  <2>5. /\ Answered => Answered' /\ got'["client"][1] = got["client"][1]
        /\ s = "server" => got'["client"] = got["client"]
    <3>1. CASE s = "server"
      BY <2>3, <3>1 DEF Answered, Other
    <3>2. CASE s = "client"
      <4> SUFFICES ASSUME Answered PROVE Answered' /\ got'["client"][1] = got["client"][1]
        BY <3>2
      <4>1. Len(got["client"]) >= 1
        BY <2>2 DEF Answered
      <4>2. Len(got'["client"]) >= 1 /\ got'["client"][1] = got["client"][1]
        BY <2>3, <3>2, <4>1
      <4> QED
        BY <4>2 DEF Answered
    <3> QED
      BY <3>1, <3>2
  <2>6. Slot(r)'
    <3>1. ops["reply"] = "pending" /\ ~SendCopies =>
             ~Answered' /\ buf["server"] \in Replies \cup {Data(1)}
      BY <1>4, <2>5 DEF StreamInv, Slot, Answered
    <3> QED
      BY <1>1, <2>5, <3>1 DEF StreamInv, Slot
  <2>7. Flow(r)'
    <3>1. \A t \in Side :
             /\ taken'[t] <= sent'[t] /\ Received(Other(t), r)' <= taken'[t]
             /\ Carrying(t)' => buf'[t] = Data(taken'[t]) /\ taken'[t] = Received(Other(t), r)' + 1
             /\ Settled(t)' => taken'[t] = Received(Other(t), r)'
      <4> SUFFICES ASSUME NEW t \in Side
                   PROVE  /\ taken'[t] <= sent'[t] /\ Received(Other(t), r)' <= taken'[t]
                          /\ Carrying(t)' => buf'[t] = Data(taken'[t]) /\ taken'[t] = Received(Other(t), r)' + 1
                          /\ Settled(t)' => taken'[t] = Received(Other(t), r)'
        OBVIOUS
      <4>1. CASE t = Other(s)
        <5>1. Other(t) = s
          BY <4>1 DEF Other
        <5> QED
          BY <1>1, <1>2, <2>1, <2>4, <4>1, <5>1 DEF StreamInv, Flow
      <4>2. CASE t # Other(s)
        <5>1. Other(t) = Other(s) /\ t \in Side \ {Other(s)}
          BY <4>2 DEF Other
        <5> QED
          BY <1>1, <1>2, <2>4, <5>1 DEF StreamInv, Flow
      <4> QED
        BY <4>1, <4>2
    <3>2. CASE s = "server"
      <4>1. \A i \in 1..(Len(got["server"]) + 1) : got'["server"][i] = Data(i)
        <5> SUFFICES ASSUME NEW i \in 1..(Len(got["server"]) + 1) PROVE got'["server"][i] = Data(i)
          OBVIOUS
        <5>1. CASE i \in 1..Len(got["server"])
          BY <2>3, <3>2, <5>1 DEF StreamInv, Flow
        <5>2. CASE i = Len(got["server"]) + 1
          BY <2>1, <2>3, <3>2, <5>2 DEF Received
        <5>3. i \in 1..Len(got["server"]) \/ i = Len(got["server"]) + 1
          BY <2>3, <3>2
        <5> QED
          BY <5>1, <5>2, <5>3
      <4>2. \A i \in (r + 1)..Len(got'["client"]) : got'["client"][i] = Data(i - r)
        BY <2>5, <3>2 DEF StreamInv, Flow
      <4> QED
        BY <2>3, <3>1, <3>2, <4>1, <4>2 DEF Flow
    <3>3. CASE s = "client"
      <4>1. \A i \in (r + 1)..(Len(got["client"]) + 1) : got'["client"][i] = Data(i - r)
        <5> SUFFICES ASSUME NEW i \in (r + 1)..(Len(got["client"]) + 1)
                     PROVE  got'["client"][i] = Data(i - r)
          OBVIOUS
        <5>1. CASE i \in (r + 1)..Len(got["client"])
          <6>1. i \in 1..Len(got["client"])
            BY <5>1
          <6> QED
            BY <2>3, <3>3, <5>1, <6>1 DEF StreamInv, Flow
        <5>2. CASE i = Len(got["client"]) + 1
          <6>1. taken["server"] = i - r
            BY <2>1, <2>3, <3>3, <5>2 DEF Received, Other
          <6> QED
            BY <2>1, <2>3, <3>3, <5>2, <6>1 DEF Other
        <5>3. i \in (r + 1)..Len(got["client"]) \/ i = Len(got["client"]) + 1
          BY <2>3, <3>3
        <5> QED
          BY <5>1, <5>2, <5>3
      <4>2. \A i \in 1..Len(got'["server"]) : got'["server"][i] = Data(i)
        BY <2>3, <3>3 DEF StreamInv, Flow, Other
      <4> QED
        BY <2>3, <3>1, <3>3, <4>1, <4>2 DEF Flow
    <3> QED
      BY <3>2, <3>3
  <2>8. Ends(r)'
    <3> SUFFICES ASSUME NEW t \in Side, open[t], ops[Read(t)] = "fail"
                 PROVE  peer[t] = "reset" \/ (peer[t] = "fin" /\ taken[t] = sent[t] /\ taken[t] = Received(Other(t), r)')
      BY <1>1 DEF Ends
    <3>1. t # Other(s)
      BY <1>1 DEF CoreInv, Pumps, Other
    <3>2. Other(t) = Other(s)
      BY <3>1 DEF Other
    <3> QED
      BY <2>4, <3>2 DEF StreamInv, Ends
  <2>9. Copied(r)'
    <3> SUFFICES ASSUME SendCopies PROVE Copied(r)'
      BY DEF Copied
    <3>1. Granted
      BY <1>1 DEF StreamInv, Copied
    <3>2. Answered /\ Answered' /\ Granted'
      BY <2>5, <3>1 DEF Answered, Granted
    <3> QED
      BY <1>1, <2>5, <3>2 DEF StreamInv, Copied
  <2> QED
    BY <2>6, <2>7, <2>8, <2>9 DEF StreamInv
<1> QED
  BY <1>3, <1>4 DEF WriteCompletes, Completes, peers, CoreInv, TypeOK, Write

AnyStream == \E r \in {0, 1} : StreamInv(r)

LEMMA NextAnyStream == CoreInv /\ AnyStream /\ [Next]_vars => AnyStream'
<1> SUFFICES ASSUME CoreInv, NEW r \in {0, 1}, StreamInv(r), [Next]_vars
             PROVE  \E q \in {0, 1} : StreamInv(q)'
  BY DEF AnyStream
<1>1. CASE UNCHANGED vars
  <2>1. StreamInv(r)'
    BY <1>1 DEF vars, StreamInv, Slot, Early, Answered, Flow, Carrying, Settled, Received, Ends,
       Copied, Granted
  <2> QED
    BY <2>1
<1>2. CASE ReadVersion \/ Authenticate \/ Resolve \/ StopSession
  BY <1>2, ReadVersionStream, AuthenticateStream, ResolveStream, StopSessionStream
<1>3. CASE Handlers
  BY <1>3, HandleRequestStream, HandleConnectStream, HandleReplyWriteStream, HandleReadStream,
     HandleWriteStream DEF Handlers
<1>4. CASE Kernel
  BY <1>4, RequestCompletesStream, ConnectCompletesStream, ReplyCompletesStream,
     ReadCompletesStream, WriteCompletesStream DEF Kernel
<1>5. CASE Peers
  BY <1>5, PeerSendsStream, PeerEndsStream DEF Peers
<1> QED
  BY <1>1, <1>2, <1>3, <1>4, <1>5 DEF Next

LEMMA SpecAnyStream == Spec => []AnyStream
<1>1. Init => AnyStream
  BY InitInvs DEF AnyStream
<1> QED
  BY <1>1, InitInvs, NextAnyStream, SpecCoreInv, PTL DEF Spec

-----------------------------------------------------------------------------
(* The variables keep their types.                                         *)
THEOREM SessionTypes == Spec => []TypeOK
<1>1. CoreInv => TypeOK
  BY DEF CoreInv
<1> QED
  BY <1>1, SpecCoreInv, PTL

(* However many pieces flow, each direction is pumped by exactly one       *)
(* operation: it neither stalls nor overwrites its own buffer, whenever    *)
(* the kernel reads what is sent.                                          *)
THEOREM OnePump == Spec => []OnePumpPerDirection
<1>1. CoreInv => OnePumpPerDirection
  BY DEF CoreInv, Pumps, OnePumpPerDirection, PumpWorks
<1> QED
  BY <1>1, SpecCoreInv, PTL

(* Once the client is told that its request is granted, nothing that this  *)
(* session still does can end the event loop of all sessions.              *)
THEOREM GrantedSessionsAreSafe == Spec => []GrantedNeverThrows
<1>1. CoreInv => GrantedNeverThrows
  BY DEF CoreInv, Phases, Answered, Granted, GrantedNeverThrows
<1> QED
  BY <1>1, SpecCoreInv, PTL

(* A handler that is about to close the session on an end of stream finds  *)
(* everything sent before that end delivered.                              *)
THEOREM EndsCutNothingOff == ASSUME SendCopies PROVE Spec => []EofMeansDrained
<1>1. CoreInv /\ AnyStream => EofMeansDrained
  <2> SUFFICES ASSUME NEW r \in {0, 1}, CoreInv, StreamInv(r), NEW s \in Side,
                      open[s], peer[s] = "fin", ops[Read(s)] = "fail"
               PROVE  Relay!Delivered(Other(s)) = sent[s]
    BY DEF AnyStream, EofMeansDrained
  <2>1. sent[s] = Received(Other(s), r)
    BY DEF StreamInv, Ends
  <2>2. Granted
    BY DEF StreamInv, Copied
  <2>3. r = 1
    BY <2>2 DEF StreamInv, Copied, Granted, Answered
  <2> QED
    BY <2>1, <2>3 DEF Received, Relay!Delivered
<1> QED
  BY <1>1, SpecCoreInv, SpecAnyStream, PTL

(* The session with its buffers, handlers and sockets implements the relay *)
(* promised to the two peers: the answer first, then two FIFO channels.    *)
THEOREM SessionImplementsRelay == ASSUME SendCopies PROVE Spec => RelayPromise
<1>1. Init => Relay!Init
  BY DEF Init, Relay!Init, Side, Relay!Side
<1>2. CoreInv /\ AnyStream /\ [Next]_vars => [Relay!Next]_(Relay!vars)
  <2> SUFFICES ASSUME CoreInv, NEW r \in {0, 1}, StreamInv(r), [Next]_vars PROVE [Relay!Next]_(Relay!vars)
    BY DEF AnyStream
  <2>1. ASSUME NEW st \in ReplyStatus, ~Answered, sent' = sent,
               got' = [got EXCEPT !["client"] = Append(@, Reply(st))]
        PROVE  Relay!Next
    <3>1. got' = [got EXCEPT !["client"] = <<Reply(st)>>]
      <4>1. got["client"] = <<>> /\ Append(<<>>, Reply(st)) = <<Reply(st)>>
        BY <2>1 DEF Answered
      <4> QED
        BY <2>1, <4>1
    <3> QED
      BY <2>1, <3>1 DEF Answered, ReplyStatus, Reply, Relay!Next, Relay!Answer,
                        Relay!ReplyStatus, Relay!Reply
  <2>2. ASSUME UNCHANGED <<sent, got>> PROVE UNCHANGED Relay!vars
    BY <2>2 DEF Relay!vars
  <2>3. CASE ReadVersion
    <3>1. ~Answered /\ sent' = sent
      BY <2>3 DEF ReadVersion, CoreInv, Phases
    <3>2. got' = got \/ got' = [got EXCEPT !["client"] = Append(@, Reply(5))]
      BY <2>3 DEF ReadVersion, SendReply, SendReplyThrows
    <3> QED
      BY <2>1, <2>2, <3>1, <3>2 DEF ReplyStatus
  <2>4. CASE HandleRequest
    <3>1. ~Answered /\ sent' = sent
      BY <2>4 DEF HandleRequest, CoreInv, Phases
    <3>2. \/ got' = got
          \/ \E st \in ReplyStatus : got' = [got EXCEPT !["client"] = Append(@, Reply(st))]
      BY <2>4 DEF HandleRequest, SendReply, SendReplyThrows, CloseSession, Verdicts, Refuse,
                  Silent, Throw, Crash, Connect, ReplyStatus
    <3> QED
      BY <2>1, <2>2, <3>1, <3>2
  <2>5. CASE HandleConnect
    <3>1. ~Answered /\ sent' = sent
      BY <2>5 DEF HandleConnect, CoreInv, Phases
    <3>2. \/ got' = got
          \/ got' = [got EXCEPT !["client"] = Append(@, Reply(0))]
          \/ got' = [got EXCEPT !["client"] = Append(@, Reply(5))]
      BY <2>5 DEF HandleConnect, SendReply, SendReplyThrows
    <3> QED
      BY <2>1, <2>2, <3>1, <3>2 DEF ReplyStatus
  <2>6. CASE \/ Authenticate \/ Resolve \/ HandleReplyWrite \/ StopSession
             \/ RequestCompletes \/ ConnectCompletes \/ ReplyCompletes \/ UNCHANGED vars
    BY <2>2, <2>6 DEF Authenticate, Resolve, HandleReplyWrite, CloseSession, StopSession,
       RequestCompletes, ConnectCompletes, ReplyCompletes, Completes, peers, vars
  <2>7. ASSUME NEW s \in Side, HandleRead(s) \/ HandleWrite(s) \/ ReadCompletes(s) \/ PeerEnds(s)
        PROVE  UNCHANGED Relay!vars
    BY <2>2, <2>7 DEF HandleRead, HandleWrite, CloseSession, ReadCompletes, Completes,
       peers, PeerEnds
  <2>8. ASSUME NEW s \in Side, PeerSends(s) PROVE Relay!Next
    BY <2>8 DEF PeerSends, Relay!Next, Relay!Send, Side, Relay!Side
  <2>9. ASSUME NEW s \in Side, WriteCompletes(s) PROVE [Relay!Next]_(Relay!vars)
    <3>1. CASE got' = got
      BY <2>2, <2>9, <3>1 DEF WriteCompletes, Completes
    <3>2. CASE /\ Completes(Write(s), "ok")
               /\ got' = [got EXCEPT ![s] = Append(@, buf[Other(s)])]
      <4>1. Granted
        BY <3>2 DEF Completes, StreamInv, Copied, Write, Side
      <4>2. r = 1
        BY <4>1 DEF StreamInv, Copied, Answered, Granted
      <4>3. /\ buf[Other(s)] = Data(taken[Other(s)])
            /\ taken[Other(s)] = Received(s, 1) + 1 /\ taken[Other(s)] <= sent[Other(s)]
        BY <3>2, <4>2 DEF Completes, StreamInv, Flow, Carrying, Write, Other, Side
      <4>4. Relay!Delivered(s) = Received(s, 1) /\ Relay!Granted
        BY <4>1 DEF Relay!Delivered, Received, Granted, Relay!Granted, Reply, Relay!Reply
      <4>5. Relay!Delivered(s) < sent[Other(s)]
        <5>1. Received(s, 1) \in Int /\ sent[Other(s)] \in Int
          BY DEF Received, CoreInv, TypeOK, Side, Other
        <5> QED
          BY <4>3, <4>4, <5>1
      <4> QED
        BY <3>2, <4>3, <4>4, <4>5
           DEF Completes, Data, Other, Relay!Next, Relay!Deliver, Relay!Data, Relay!Other,
               Side, Relay!Side
    <3> QED
      BY <2>9, <3>1, <3>2 DEF WriteCompletes, peers
  <2> QED
    BY <2>3, <2>4, <2>5, <2>6, <2>7, <2>8, <2>9 DEF Next, Handlers, Kernel, Peers
<1> QED
  BY <1>1, <1>2, SpecCoreInv, SpecAnyStream, PTL DEF Spec, RelayPromise, Relay!Spec

(* What each peer has got: of the other's pieces the first so many, in     *)
(* order, and nothing else but one reply that the client got before.  Read *)
(* late, the reply may be the server's first piece instead.  A handler that *)
(* is about to see the end of a stream finds all of it delivered.          *)
InOrder ==
    /\ Len(got["server"]) <= sent["client"]
    /\ \A i \in 1..Len(got["server"]) : got["server"][i] = Data(i)
    /\ \E r \in {0, 1} :
          /\ r = 1 => Answered /\ got["client"][1] \in Replies \cup {Data(1)}
          /\ Len(got["client"]) - r <= sent["server"]
          /\ \A i \in (r + 1)..Len(got["client"]) : got["client"][i] = Data(i - r)
          /\ \A s \in Side : open[s] /\ peer[s] = "fin" /\ ops[Read(s)] = "fail" =>
                                Received(Other(s), r) = sent[s]

(* Whenever the kernel reads what is sent, the two streams arrive whole:   *)
(* nothing is lost in between, repeated, reordered or invented, or cut off *)
(* at an end.  The run session_reply shows what the shared buffer can do   *)
(* to the reply; it can do no more than that.                              *)
THEOREM OnlyTheReplyIsAtRisk == Spec => []InOrder
<1>1. CoreInv /\ AnyStream => InOrder
  <2> SUFFICES ASSUME NEW r \in {0, 1}, CoreInv, StreamInv(r) PROVE InOrder
    BY DEF AnyStream
  <2>1. /\ Len(got["server"]) \in Nat /\ Len(got["client"]) \in Nat
        /\ \A s \in Side : taken[s] \in Nat /\ sent[s] \in Nat
    BY SessionAssumption DEF SessionAssumption, CoreInv, TypeOK, Side
  <2>2. Len(got["server"]) <= sent["client"] /\ Len(got["client"]) - r <= sent["server"]
    BY <2>1 DEF StreamInv, Flow, Received, Other, Side
  <2>3. ASSUME NEW s \in Side, open[s], peer[s] = "fin", ops[Read(s)] = "fail"
        PROVE  Received(Other(s), r) = sent[s]
    BY <2>3 DEF StreamInv, Ends
  <2> QED
    BY <2>2, <2>3 DEF StreamInv, Slot, Flow, InOrder
<1> QED
  BY <1>1, SpecCoreInv, SpecAnyStream, PTL

(* If the kernel copies what is sent, the first thing a client gets is a   *)
(* reply.                                                                  *)
THEOREM ClientsAreAnswered == ASSUME SendCopies PROVE Spec => []ClientIsAnswered
<1>1. AnyStream => ClientIsAnswered
  BY DEF AnyStream, StreamInv, Copied, Answered, Replies, ClientIsAnswered
<1> QED
  BY <1>1, SpecAnyStream, PTL

-----------------------------------------------------------------------------
(* The life of the session.  That the session has no open socket while the *)
(* authenticator has it is all that is needed, however the kernel sends.   *)
Owned == /\ loop \in LoopState
         /\ open \in [Side -> BOOLEAN]
         /\ loop = "auth" => ~open["client"]

(* What happens beside the handlers moves neither the loop nor a socket.   *)
LEMMA BesideHandlers ==
    ASSUME Kernel \/ Peers PROVE UNCHANGED <<loop, open>>
  BY DEF Kernel, Peers, RequestCompletes, ConnectCompletes, ReplyCompletes, ReadCompletes,
         WriteCompletes, Completes, PeerSends, PeerEnds

(* What the handlers do to the loop and the sockets: nothing, a close, or  *)
(* an end of the loop; the way to the resolver keeps the loop up.          *)
LEMMA HandlersMove ==
    ASSUME Handlers \/ Resolve
    PROVE  /\ loop \in {"run", "resolve"}
           /\ \/ /\ loop' \in {"run", "resolve", "threw", "crashed"}
                 /\ open' = open \/ open' = [open EXCEPT !["server"] = TRUE]
              \/ loop' = loop /\ open' = Closed
<1>1. CASE Resolve
  BY <1>1 DEF Resolve
<1>2. CASE HandleRequest
  BY <1>2 DEF HandleRequest, CloseSession, SendReply, SendReplyThrows
<1>3. CASE HandleConnect
  BY <1>3 DEF HandleConnect, SendReply, SendReplyThrows
<1>4. CASE HandleReplyWrite
  BY <1>4 DEF HandleReplyWrite, CloseSession
<1>5. ASSUME NEW s \in Side, HandleRead(s) \/ HandleWrite(s)
      PROVE  loop = "run" /\ loop' = loop /\ (open' = open \/ open' = Closed)
  BY <1>5 DEF HandleRead, HandleWrite, CloseSession
<1> QED
  BY <1>1, <1>2, <1>3, <1>4, <1>5 DEF Handlers

LEMMA OwnedStep == ASSUME Owned, [Next]_vars PROVE Owned'
<1> USE DEF Owned, Side, LoopState
<1>1. CASE ReadVersion
  BY <1>1 DEF ReadVersion, SendReply, SendReplyThrows
<1>2. CASE Authenticate
  BY <1>2 DEF Authenticate
<1>3. CASE Handlers \/ Resolve
  BY <1>3, HandlersMove DEF Closed
<1>4. CASE StopSession
  BY <1>4 DEF StopSession, Closed
<1>5. CASE Kernel \/ Peers \/ UNCHANGED vars
  BY <1>5, BesideHandlers DEF vars
<1> QED
  BY <1>1, <1>2, <1>3, <1>4, <1>5 DEF Next

(* A close of the client's socket is one for SessionLife, unless it was    *)
(* closed or the authenticator has it.                                     *)
LEMMA CloseIsClose ==
    ASSUME Owned, loop # "crashed", loop' = loop, open' = Closed
    PROVE  [Life!Next]_(Life!vars)
<1>1. CASE loop # "auth" /\ open["client"]
  <2>1. Life!Close("this")
    BY <1>1 DEF Owned, LoopState, Side, Closed, Life!Close
  <2> QED
    BY <2>1 DEF Life!Next
<1>2. CASE loop = "auth" \/ ~open["client"]
  BY <1>2 DEF Owned, Side, Closed, Life!vars
<1> QED
  BY <1>1, <1>2 DEF Owned, Side

LEMMA SessionNextLife == ASSUME Owned, [Next]_vars PROVE [Life!Next]_(Life!vars)
<1>1. CASE ReadVersion
  <2>1. CASE loop' = "auth"
    <3>1. Life!EnterAuth("this")
      BY <1>1, <2>1 DEF ReadVersion, SendReply, SendReplyThrows, Life!EnterAuth, Owned, Side
    <3> QED
      BY <3>1 DEF Life!Next
  <2>2. CASE loop' \in {"run", "threw"} /\ open["client"]
    <3>1. open' = open /\ loop = "version"
      BY <1>1, <2>2 DEF ReadVersion, SendReply, SendReplyThrows
    <3>2. Life!Return("this")
      BY <3>1, <2>2 DEF Life!Return, Life!InHandshake
    <3> QED
      BY <3>2 DEF Life!Next
  <2>3. CASE ~open["client"]
    <3>1. open' = open /\ loop = "version" /\ loop' = "threw"
      BY <1>1, <2>3 DEF ReadVersion, SendReply, SendReplyThrows, EndpointReturns
    <3>2. Life!End
      BY <3>1, <2>3 DEF Life!End, Life!HandlersRun, Life!InHandshake
    <3> QED
      BY <3>2 DEF Life!Next
  <2>4. loop' \in {"auth", "run", "threw"}
    BY <1>1 DEF ReadVersion, SendReply, SendReplyThrows
  <2> QED
    BY <2>1, <2>2, <2>3, <2>4
<1>2. CASE Authenticate
  <2>1. CASE open' = open
    <3>1. loop = "auth" /\ loop' = "threw" /\ ~open'["client"]
      BY <1>2, <2>1 DEF Authenticate, Owned, Side
    <3>2. Life!Lose("this")
      BY <3>1 DEF Life!Lose
    <3> QED
      BY <3>2 DEF Life!Next
  <2>2. CASE open' = [open EXCEPT !["client"] = TRUE]
    <3>1. loop = "auth" /\ loop' \in {"run", "threw"} /\ open'["client"]
      BY <1>2, <2>2 DEF Authenticate, Owned, Side
    <3>2. Life!Return("this")
      BY <3>1 DEF Life!Return, Life!InHandshake
    <3> QED
      BY <3>2 DEF Life!Next
  <2> QED
    BY <1>2, <2>1, <2>2 DEF Authenticate
<1>3. CASE Handlers \/ Resolve
  <2>1. loop \in {"run", "resolve"}
    BY <1>3, HandlersMove
  <2>2. CASE loop' = loop /\ open' = Closed
    BY <2>1, <2>2, CloseIsClose
  <2>3. CASE /\ loop' \in {"run", "resolve", "threw", "crashed"}
             /\ open' = open \/ open' = [open EXCEPT !["server"] = TRUE]
    <3>1. open'["client"] = open["client"]
      BY <2>3 DEF Owned, Side
    <3>2. CASE loop' \in {"run", "resolve"}
      BY <2>1, <3>1, <3>2 DEF Life!vars
    <3>3. CASE loop' \in {"threw", "crashed"}
      <4>1. Life!End
        BY <2>1, <3>1, <3>3 DEF Life!End, Life!HandlersRun, Life!InHandshake
      <4> QED
        BY <4>1 DEF Life!Next
    <3> QED
      BY <2>3, <3>2, <3>3
  <2> QED
    BY <1>3, <2>2, <2>3, HandlersMove
<1>4. CASE StopSession
  BY <1>4, CloseIsClose DEF StopSession
<1>5. CASE Kernel \/ Peers \/ UNCHANGED vars
  BY <1>5, BesideHandlers DEF vars, Life!vars
<1> QED
  BY <1>1, <1>2, <1>3, <1>4, <1>5 DEF Next

(* The session implements the part of SessionLife that is its own: its     *)
(* socket is lost only together with the loop, and stays closed once it is *)
(* closed, whatever stop() interrupts (start, close, stop).                *)
THEOREM SessionImplementsLife == Spec => LifePromise
<1>1. Init => Owned /\ Life!Init
  BY DEF Init, Owned, LoopState, Side, Life!Init, Life!InHandshake
<1>2. Owned /\ [Next]_vars => Owned'
  BY OwnedStep
<1>3. Owned /\ [Next]_vars => [Life!Next]_(Life!vars)
  BY SessionNextLife
<1> QED
  BY <1>1, <1>2, <1>3, PTL DEF Spec, LifePromise, Life!Spec
=============================================================================
