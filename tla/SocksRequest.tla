------------------------------ MODULE SocksRequest ------------------------------
(***************************************************************************)
(* What ProxySession::handle_socks_request makes of the bytes that one     *)
(* async_read_some returned: the parse of the SOCKS5 request and the       *)
(* decision of the site and port lists.  Pure operators, no state.         *)
(*                                                                         *)
(* A request is a record                                                   *)
(*   n        bytes the read returned (at least 1, at most BUFFER_SIZE)    *)
(*   version, command, atyp, len    octets 0, 1, 3 and 4 on the wire       *)
(*   address, port                  the destination the octets spell       *)
(* and a configuration a record of the four lists of ProxyConfiguration.   *)
(***************************************************************************)
EXTENDS Integers, Sequences, SequencesExt

SOCKS_VERSION == 5

(* The outcomes of the handler, before any I/O: a reply with a status, no  *)
(* reply and nothing scheduled, an attempt to resolve and connect, an      *)
(* exception that leaves the handler, or a crash of the process.           *)
Refuse(status) == [kind |-> "refuse", status |-> status]
Silent  == [kind |-> "silent",  status |-> 0]
Connect == [kind |-> "connect", status |-> 0]
Throw   == [kind |-> "throw",   status |-> 0]
Crash   == [kind |-> "crash",   status |-> 0]

Verdicts == {Refuse(st) : st \in {1, 5, 7, 8}} \cup {Silent, Connect, Throw, Crash}

-----------------------------------------------------------------------------
(* client_data_ was zeroed before the read: an octet past n reads as 0.    *)
Octet(r, i, value) == IF i < r.n THEN value ELSE 0

(* int length = client_data_[4]: plain char is signed in this build.       *)
Length(r) == LET octet == Octet(r, 4, r.len)
             IN  IF octet > 127 THEN octet - 256 ELSE octet

AtLeastSigned(n, k) == n >= k

AtLeastStrict(n, k) == k >= 0 /\ n > k

(* bytes_transferred >= k compares as size_t: a negative k is beyond every *)
(* possible n.                                                             *)
AtLeast(n, k) == k >= 0 /\ n >= k

ParseUnchecked(r) == IF Octet(r, 3, r.atyp) \in {1, 3, 4} THEN "address" ELSE "unsupported"

(* Octets of a complete request on the wire, where SOCKS5 has the length   *)
(* octet unsigned.                                                         *)
WireLength(r) == CASE r.atyp = 1 -> 10
                   [] r.atyp = 3 -> 7 + r.len
                   [] r.atyp = 4 -> 22
                   [] OTHER -> 4

(* The switch on the address type: "address" when a destination was read,  *)
(* "unsupported" when reply 8 is sent, "throws" when std::string is built  *)
(* with a negative length.                                                 *)
Parse(r) ==
    CASE Octet(r, 3, r.atyp) = 1 -> IF r.n >= 10 THEN "address" ELSE "unsupported"
      [] Octet(r, 3, r.atyp) = 3 ->
            IF r.n >= 5 /\ AtLeast(r.n, 5 + Length(r) + 2)
            THEN IF Length(r) < 0 THEN "throws" ELSE "address"
            ELSE "unsupported"
      [] Octet(r, 3, r.atyp) = 4 -> IF r.n >= 22 THEN "address" ELSE "unsupported"
      [] OTHER -> "unsupported"

-----------------------------------------------------------------------------
(* The wildcard counts only as the first entry of its allow list.          *)
AnySite(cfg) == cfg.allowedIPs[1] = "all"
AnyPort(cfg) == cfg.allowedPorts[1] = -1

(* isSiteBlocked || isPortBlocked: a block list is consulted only when the *)
(* allow list of its kind does not start with the wildcard.                *)
Blocked(cfg, r) ==
    \/ ~AnySite(cfg) /\ Contains(cfg.blockedIPs, r.address)
    \/ ~AnyPort(cfg) /\ Contains(cfg.blockedPorts, r.port)

AllowedEither(cfg, r) ==
    \/ AnySite(cfg) \/ Contains(cfg.allowedIPs, r.address)
    \/ AnyPort(cfg) \/ Contains(cfg.allowedPorts, r.port)

(* isSiteAllowed && isPortAllowed.                                         *)
Allowed(cfg, r) ==
    /\ AnySite(cfg) \/ Contains(cfg.allowedIPs, r.address)
    /\ AnyPort(cfg) \/ Contains(cfg.allowedPorts, r.port)

(* allowed_sites[0] and allowed_ports[0] are read unchecked: with an empty *)
(* vector that is a read through a null pointer.                           *)
Filter(cfg, r) ==
    CASE cfg.allowedIPs = <<>> \/ cfg.allowedPorts = <<>> -> Crash
      [] OTHER -> CASE Blocked(cfg, r) -> Refuse(7)
                    [] ~Blocked(cfg, r) /\ Allowed(cfg, r) -> Connect
                    [] OTHER -> Refuse(5)

(* handle_socks_request on a successful read.                              *)
Verdict(cfg, r) ==
    CASE Octet(r, 0, r.version) # SOCKS_VERSION -> Refuse(1)
      [] Octet(r, 0, r.version) = SOCKS_VERSION /\ Octet(r, 1, r.command) # 1 -> Silent
      [] OTHER -> CASE Parse(r) = "unsupported" -> Refuse(8)
                    [] Parse(r) = "throws" -> Throw
                    [] OTHER -> Filter(cfg, r)
=============================================================================
