------------------------------- MODULE SessionLife -------------------------------
(***************************************************************************)
(* What a session and the server that runs it agree on: where the socket   *)
(* of its client is, and whether the event loop still runs.  At most one   *)
(* session is in its handshake; meanwhile no handler of another runs.  The *)
(* socket of a session that is in the authenticator is out of everybody's  *)
(* reach, what the authenticator loses it loses together with the loop,    *)
(* and a closed socket stays closed.  ProxySession implements this for one *)
(* session, ProxyServer for all of them.                                   *)
(***************************************************************************)
CONSTANT Sessions

VARIABLES place,  \* of each session: "none" yet, waiting for the "version" octet,
                  \* inside the authenticator ("auth"), "active" or "closed"
          loop    \* "up", left by an exception ("threw"), or "crashed"

vars == <<place, loop>>

InHandshake(s) == place[s] \in {"version", "auth"}
HandlersRun == loop = "up" /\ \A s \in Sessions : ~InHandshake(s)

Init == /\ place \in [Sessions -> {"none", "version"}]
        /\ \A s, t \in Sessions : InHandshake(s) /\ InHandshake(t) => s = t
        /\ loop = "up"

Begin(s) == /\ HandlersRun /\ place[s] = "none"
            /\ place' = [place EXCEPT ![s] = "version"]
            /\ UNCHANGED loop

EnterAuth(s) == /\ loop = "up" /\ place[s] = "version"
                /\ place' = [place EXCEPT ![s] = "auth"]
                /\ UNCHANGED loop

(* The handshake is over, with an exception or without.                    *)
Return(s) == /\ loop = "up" /\ InHandshake(s)
             /\ place' = [place EXCEPT ![s] = "active"]
             /\ loop' \in {"up", "threw"}

Lose(s) == /\ loop = "up" /\ place[s] = "auth"
           /\ place' = [place EXCEPT ![s] = "closed"]
           /\ loop' = "threw"

(* By a handler of the session or by stop(), with or without a loop.       *)
Close(s) == /\ loop # "crashed" /\ place[s] \in {"version", "active"}
            /\ place' = [place EXCEPT ![s] = "closed"]
            /\ UNCHANGED loop

(* A handler throws, or undefined behaviour ends the process.              *)
End == /\ HandlersRun
       /\ loop' \in {"threw", "crashed"}
       /\ UNCHANGED place

Next == \/ \E s \in Sessions : Begin(s) \/ EnterAuth(s) \/ Return(s) \/ Lose(s) \/ Close(s)
        \/ End

Spec == Init /\ [][Next]_vars
=============================================================================
