----------------------------- MODULE MCSocksRequest -----------------------------
(***************************************************************************)
(* SocksRequest evaluated on bounded inputs: every shape of request under  *)
(* one configuration, and every configuration for one complete request.    *)
(***************************************************************************)
EXTENDS SocksRequest

CONSTANTS Sites,        \* destinations a client may ask for
          Ports,        \* ports a client may ask for
          LengthOctets, \* values of the domain length octet
          ReadSizes     \* values of bytes_transferred

ASSUME InputAssumption == LengthOctets \subseteq 0..255 /\ ReadSizes \subseteq Nat \ {0}

VARIABLES cfg, req, verdict

vars == <<cfg, req, verdict>>

Pending == [kind |-> "pending", status |-> 0]

(* Lists of at most two entries, the wildcard in either place.             *)
ListsOf(S) == {<<>>} \cup {<<x>> : x \in S} \cup {<<x, y>> : x, y \in S}

Configurations ==
    [allowedIPs : ListsOf(Sites \cup {"all"}), blockedIPs : {<<>>} \cup {<<x>> : x \in Sites},
     allowedPorts : ListsOf(Ports \cup {-1}),  blockedPorts : {<<>>} \cup {<<x>> : x \in Ports}]

Requests ==
    [n : ReadSizes, version : {4, 5}, command : {1, 2}, atyp : {1, 2, 3, 4},
     len : LengthOctets, address : Sites, port : Ports]

CompleteRequests ==
    [n : {10}, version : {5}, command : {1}, atyp : {1}, len : {0},
     address : Sites, port : Ports]

OpenConfiguration ==
    [allowedIPs |-> <<"all">>, blockedIPs |-> <<>>, allowedPorts |-> <<-1>>, blockedPorts |-> <<>>]

Init == /\ verdict = Pending
        /\ \/ cfg = OpenConfiguration /\ req \in Requests
           \/ cfg \in Configurations /\ req \in CompleteRequests

Handle == /\ verdict = Pending
          /\ verdict' = Verdict(cfg, req)
          /\ UNCHANGED <<cfg, req>>

Spec == Init /\ [][Handle]_vars

-----------------------------------------------------------------------------
TypeOK == /\ cfg \in Configurations
          /\ req \in Requests \cup CompleteRequests
          /\ verdict \in Verdicts \cup {Pending}

(* A request of which the single read returned only a part never makes the *)
(* proxy connect anywhere, whatever the zeroed rest of the buffer spells   *)
(* (the size tests of handle_socks_request).                               *)
TruncatedNeverConnects == verdict = Connect => req.n >= WireLength(req)

(* The signed length octet of a domain name is harmless up to 248: only    *)
(* 249..255, the values -7..-1, pass the size test and throw.              *)
ThrowsOnlyAtTheEdge == verdict = Throw => req.atyp = 3 /\ req.len \in 249..255

(* A request that was read in full, with an address or with a name of at   *)
(* most 127 octets, gets as far as the lists: the size tests ask for no    *)
(* octet too many, the length tests of handle_socks_request.               *)
ShortNamesAreUnderstood ==
    /\ req.version = 5 /\ req.command = 1 /\ req.n >= WireLength(req)
    /\ req.atyp \in {1, 4} \/ (req.atyp = 3 /\ req.len <= 127)
    => verdict \notin {Refuse(8), Throw}

(* The decision of the four lists by set algebra: an entry of a consulted  *)
(* block list refuses with 7, otherwise both sides must be allowed, and    *)
(* nobody is let through because a list was forgotten.                     *)
PolicyDecides ==
    verdict # Pending /\ req.n = 10 /\ req.atyp = 1 /\ req.version = 5 /\ req.command = 1
      /\ cfg.allowedIPs # <<>> /\ cfg.allowedPorts # <<>> =>
        LET sites == IF cfg.allowedIPs[1] = "all" THEN Sites ELSE ToSet(cfg.allowedIPs)
            ports == IF cfg.allowedPorts[1] = -1 THEN Ports ELSE ToSet(cfg.allowedPorts)
            denied == \/ cfg.allowedIPs[1] # "all" /\ req.address \in ToSet(cfg.blockedIPs)
                      \/ cfg.allowedPorts[1] # -1 /\ req.port \in ToSet(cfg.blockedPorts)
        IN  /\ verdict = Connect <=> ~denied /\ <<req.address, req.port>> \in sites \X ports
            /\ verdict = Refuse(7) <=> denied
=============================================================================
