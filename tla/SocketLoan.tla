------------------------------- MODULE SocketLoan -------------------------------
(***************************************************************************)
(* What read_socks_request relies on when it moves the client's socket     *)
(* into the authenticator: the socket comes back once, whatever the        *)
(* verdict, and is lost to an exception only if the client has gone.       *)
(***************************************************************************)
VARIABLES
    peer,   \* the client's end of the connection: "up", "fin" or "reset"
    holder  \* "authenticator", "session" when it is back, or "nobody"

vars == <<peer, holder>>

Init == peer = "up" /\ holder = "authenticator"

PeerEnds ==
    /\ \/ peer = "up" /\ peer' = "fin"
       \/ peer \in {"up", "fin"} /\ peer' = "reset"
    /\ UNCHANGED holder

GiveBack ==
    /\ holder = "authenticator"
    /\ holder' = "session"
    /\ UNCHANGED peer

Lose ==
    /\ holder = "authenticator" /\ peer # "up"
    /\ holder' = "nobody"
    /\ UNCHANGED peer

Next == PeerEnds \/ GiveBack \/ Lose

Spec == Init /\ [][Next]_vars
=============================================================================
