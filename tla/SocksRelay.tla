------------------------------- MODULE SocksRelay -------------------------------
(***************************************************************************)
(* What a proxy session promises to the two peers, whatever its buffers,   *)
(* handlers and sockets do: the client is answered at most once and before *)
(* anything else, and once its request is granted each direction is a FIFO *)
(* channel that loses, repeats, invents and reorders nothing.              *)
(***************************************************************************)
EXTENDS Integers, Sequences

Side == {"client", "server"}
Other(s) == IF s = "client" THEN "server" ELSE "client"

Data(n)   == <<"data", n>>
Reply(st) == <<"reply", st>>
ReplyStatus == {0, 1, 5, 7, 8}

VARIABLES sent,  \* number of pieces each peer has sent
          got    \* the sequence of what each peer has received

vars == <<sent, got>>

Granted == got["client"] # <<>> /\ got["client"][1] = Reply(0)

(* Pieces of the other peer's stream among what s has received: the client *)
(* received the reply besides.                                             *)
Delivered(s) == IF s = "client" THEN Len(got["client"]) - 1 ELSE Len(got["server"])

Init == /\ sent = [s \in Side |-> 0]
        /\ got = [s \in Side |-> <<>>]

Send(s) == /\ sent' = [sent EXCEPT ![s] = @ + 1]
           /\ UNCHANGED got

Answer(status) == /\ got["client"] = <<>>
                  /\ got' = [got EXCEPT !["client"] = <<Reply(status)>>]
                  /\ UNCHANGED sent

Deliver(s) == /\ Granted
              /\ Delivered(s) < sent[Other(s)]
              /\ got' = [got EXCEPT ![s] = Append(@, Data(Delivered(s) + 1))]
              /\ UNCHANGED sent

Next == \/ \E s \in Side : Send(s) \/ Deliver(s)
        \/ \E status \in ReplyStatus : Answer(status)

Spec == Init /\ [][Next]_vars
=============================================================================
