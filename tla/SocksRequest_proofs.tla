--------------------------- MODULE SocksRequest_proofs ---------------------------
(***************************************************************************)
(* What handle_socks_request makes of a request, for every read size, every *)
(* length octet, every destination and every four lists.                   *)
(***************************************************************************)
EXTENDS MCSocksRequest, TLAPS

(* What is known of a request that came off the wire.                      *)
OnTheWire(r) == r.n \in Nat \ {0} /\ r.len \in 0..255 /\ r.atyp \in 1..4

-----------------------------------------------------------------------------
(* Only a parsed address gets to the lists.                                *)
LEMMA ConnectNeedsAddress ==
    ASSUME NEW c, NEW r, Verdict(c, r) = Connect
    PROVE  Parse(r) = "address"
BY DEF Verdict, Parse, Refuse, Silent, Throw, Connect

(* An address is parsed only from a read that is long enough.              *)
LEMMA AddressIsComplete ==
    ASSUME NEW r, OnTheWire(r), Parse(r) = "address"
    PROVE  r.n >= WireLength(r)
<1>1. CASE Octet(r, 3, r.atyp) = 1
  BY <1>1 DEF Parse, Octet, WireLength, OnTheWire
<1>2. CASE Octet(r, 3, r.atyp) = 4
  BY <1>2 DEF Parse, Octet, WireLength, OnTheWire
<1>3. CASE Octet(r, 3, r.atyp) = 3
  <2>1. r.atyp = 3 /\ r.n >= 5 /\ AtLeast(r.n, 5 + Length(r) + 2) /\ Length(r) >= 0
    BY <1>3 DEF Parse, Octet, OnTheWire, Length
  <2>2. Length(r) = r.len
    BY <2>1 DEF Length, Octet, OnTheWire
  <2> QED
    BY <2>1, <2>2 DEF AtLeast, WireLength, OnTheWire
<1>4. CASE Octet(r, 3, r.atyp) \notin {1, 3, 4}
  BY <1>4 DEF Parse
<1> QED
  BY <1>1, <1>2, <1>3, <1>4

(* An exception of the parse stands for a negative length that passed the  *)
(* size test: seven octets or fewer before the address.                    *)
LEMMA ThrowIsAtTheEdge ==
    ASSUME NEW c, NEW r, OnTheWire(r), Verdict(c, r) = Throw
    PROVE  r.atyp = 3 /\ r.len \in 249..255
<1>1. Parse(r) = "throws"
  BY DEF Verdict, Filter, Parse, Refuse, Silent, Throw, Connect, Crash
<1>2. r.atyp = 3 /\ AtLeast(r.n, 5 + Length(r) + 2) /\ Length(r) < 0
  BY <1>1 DEF Parse, Octet, OnTheWire
<1> QED
  BY <1>2 DEF AtLeast, Length, Octet, OnTheWire

(* Every size test of the parser is met by a read as long as the request.   *)
LEMMA CompleteIsParsed ==
    ASSUME NEW r, OnTheWire(r), r.n >= WireLength(r),
           r.atyp \in {1, 4} \/ (r.atyp = 3 /\ r.len <= 127)
    PROVE  Parse(r) = "address"
<1>1. CASE r.atyp \in {1, 4}
  BY <1>1 DEF Parse, Octet, WireLength, OnTheWire
<1>2. CASE r.atyp = 3 /\ r.len <= 127
  <2>1. r.n >= 7 + r.len /\ r.len \in 0..127 /\ r.n \in Nat
    BY <1>2 DEF WireLength, OnTheWire
  <2>2. Octet(r, 3, r.atyp) = 3 /\ Length(r) = r.len
    BY <1>2, <2>1 DEF Length, Octet
  <2>3. AtLeast(r.n, 5 + Length(r) + 2) /\ ~(Length(r) < 0)
    BY <2>1, <2>2 DEF AtLeast
  <2> QED
    BY <2>1, <2>2, <2>3 DEF Parse
<1> QED
  BY <1>1, <1>2

-----------------------------------------------------------------------------
(* The handler runs once, on a request off the wire.                       *)
HandlerInv == OnTheWire(req) /\ verdict \in {Pending, Verdict(cfg, req)}

LEMMA SpecHandlerInv == Spec => []HandlerInv
<1>1. Init => HandlerInv
  <2>1. ASSUME NEW r \in Requests PROVE OnTheWire(r)
    <3>1. r.n \in ReadSizes /\ r.len \in LengthOctets /\ r.atyp \in {1, 2, 3, 4}
      BY <2>1 DEF Requests
    <3>2. r.n \in Nat \ {0} /\ r.len \in 0..255
      BY <3>1, InputAssumption, Zenon DEF InputAssumption
    <3>3. r.atyp \in 1..4
      BY <3>1
    <3> QED
      BY <3>2, <3>3 DEF OnTheWire
  <2>2. ASSUME NEW r \in CompleteRequests PROVE OnTheWire(r)
    <3>1. r.n \in {10} /\ r.len \in {0} /\ r.atyp \in {1}
      BY <2>2 DEF CompleteRequests
    <3> QED
      BY <3>1 DEF OnTheWire
  <2> QED
    BY <2>1, <2>2 DEF Init, HandlerInv
<1>2. HandlerInv /\ [Handle]_vars => HandlerInv'
  BY DEF HandlerInv, Handle, vars, OnTheWire
<1> QED
  BY <1>1, <1>2, PTL DEF Spec

(* A truncated request never makes the proxy connect.                      *)
THEOREM TruncatedRequestsAreHarmless == Spec => []TruncatedNeverConnects
<1>1. HandlerInv => TruncatedNeverConnects
  <2> SUFFICES ASSUME HandlerInv, verdict = Connect PROVE req.n >= WireLength(req)
    BY DEF TruncatedNeverConnects
  <2>1. Verdict(cfg, req) = Connect
    BY DEF HandlerInv, Pending, Connect
  <2> QED
    BY <2>1, ConnectNeedsAddress, AddressIsComplete DEF HandlerInv
<1> QED
  BY <1>1, SpecHandlerInv, PTL

(* Of all requests only those with a domain length of 249..255 end the     *)
(* handler by an exception.                                                *)
THEOREM OnlyLongNamesThrow == Spec => []ThrowsOnlyAtTheEdge
<1>1. HandlerInv => ThrowsOnlyAtTheEdge
  <2> SUFFICES ASSUME HandlerInv, verdict = Throw
               PROVE  req.atyp = 3 /\ req.len \in 249..255
    BY DEF ThrowsOnlyAtTheEdge
  <2>1. Verdict(cfg, req) = Throw
    BY DEF HandlerInv, Pending, Throw
  <2> QED
    BY <2>1, ThrowIsAtTheEdge DEF HandlerInv
<1> QED
  BY <1>1, SpecHandlerInv, PTL

(* A request that was read in full is refused as unknown, or throws, only  *)
(* if its name is longer than 127 octets.                                  *)
THEOREM CompleteRequestsAreParsed == Spec => []ShortNamesAreUnderstood
<1>1. HandlerInv => ShortNamesAreUnderstood
  <2> SUFFICES ASSUME HandlerInv, req.version = 5, req.command = 1, req.n >= WireLength(req),
                      req.atyp \in {1, 4} \/ (req.atyp = 3 /\ req.len <= 127)
               PROVE  verdict \notin {Refuse(8), Throw}
    BY DEF ShortNamesAreUnderstood
  <2>1. Parse(req) = "address"
    BY CompleteIsParsed DEF HandlerInv
  <2>2. Octet(req, 0, req.version) = SOCKS_VERSION /\ Octet(req, 1, req.command) = 1
    <3>1. req.n \in Nat /\ req.n >= 7
      BY DEF HandlerInv, OnTheWire, WireLength
    <3> QED
      BY <3>1 DEF Octet, SOCKS_VERSION
  <2>3. Verdict(cfg, req) = Filter(cfg, req)
    BY <2>1, <2>2 DEF Verdict
  <2> QED
    BY <2>3 DEF HandlerInv, Pending, Filter, Refuse, Throw, Connect, Crash
<1> QED
  BY <1>1, SpecHandlerInv, PTL

-----------------------------------------------------------------------------
(* The verdicts are those that are listed.                                 *)
LEMMA VerdictIsListed == ASSUME NEW c, NEW r PROVE Verdict(c, r) \in Verdicts
<1>1. Filter(c, r) \in {Refuse(5), Refuse(7), Connect, Crash}
  BY DEF Filter
<1>2. Verdict(c, r) \in {Refuse(1), Refuse(8), Silent, Throw, Filter(c, r)}
  BY DEF Verdict
<1> QED
  BY <1>1, <1>2 DEF Verdicts

(* The configuration and the request stay as they were given.              *)
THEOREM RequestTypes == Spec => []TypeOK
<1>1. Init => TypeOK
  <2>1. OpenConfiguration \in Configurations
    <3>1. /\ <<"all">> \in ListsOf(Sites \cup {"all"}) /\ <<-1>> \in ListsOf(Ports \cup {-1})
          /\ <<>> \in {<<>>} \cup {<<x>> : x \in Sites} /\ <<>> \in {<<>>} \cup {<<x>> : x \in Ports}
      BY DEF ListsOf
    <3> QED
      BY <3>1 DEF OpenConfiguration, Configurations
  <2> QED
    BY <2>1 DEF Init, TypeOK
<1>2. TypeOK /\ [Handle]_vars => TypeOK'
  BY VerdictIsListed DEF TypeOK, Handle, vars
<1> QED
  BY <1>1, <1>2, PTL DEF Spec

(* A list as a set: std::find finds exactly the members.                   *)
LEMMA ListOfIsSeq ==
    ASSUME NEW S, NEW l \in ListsOf(S) PROVE l \in Seq(S)
<1>1. ASSUME NEW x \in S, NEW y \in S PROVE <<x>> \in Seq(S) /\ <<x, y>> \in Seq(S)
  OBVIOUS
<1>2. <<>> \in Seq(S)
  OBVIOUS
<1>3. l = <<>> \/ (\E x \in S : l = <<x>>) \/ (\E x, y \in S : l = <<x, y>>)
  BY DEF ListsOf
<1>4. CASE \E x \in S : l = <<x>>
  BY <1>1, <1>4
<1>5. CASE \E x, y \in S : l = <<x, y>>
  BY <1>1, <1>5
<1> QED
  BY <1>2, <1>3, <1>4, <1>5

LEMMA ContainsIsMember ==
    ASSUME NEW S, NEW l \in Seq(S), NEW x PROVE Contains(l, x) <=> x \in ToSet(l)
  BY DEF Contains, ToSet

(* The decision for one destination and any four lists.                    *)
LEMMA FilterDecides ==
    ASSUME NEW S, NEW P, NEW c, NEW r,
           c.allowedIPs \in Seq(S), c.blockedIPs \in Seq(S),
           c.allowedPorts \in Seq(P), c.blockedPorts \in Seq(P),
           c.allowedIPs # <<>>, c.allowedPorts # <<>>
    PROVE  LET denied == \/ c.allowedIPs[1] # "all" /\ r.address \in ToSet(c.blockedIPs)
                         \/ c.allowedPorts[1] # -1 /\ r.port \in ToSet(c.blockedPorts)
           IN  /\ Filter(c, r) = Refuse(7) <=> denied
               /\ Filter(c, r) = Connect <=>
                     /\ ~denied
                     /\ c.allowedIPs[1] = "all" \/ r.address \in ToSet(c.allowedIPs)
                     /\ c.allowedPorts[1] = -1 \/ r.port \in ToSet(c.allowedPorts)
<1>1. /\ Contains(c.allowedIPs, r.address) <=> r.address \in ToSet(c.allowedIPs)
      /\ Contains(c.blockedIPs, r.address) <=> r.address \in ToSet(c.blockedIPs)
      /\ Contains(c.allowedPorts, r.port) <=> r.port \in ToSet(c.allowedPorts)
      /\ Contains(c.blockedPorts, r.port) <=> r.port \in ToSet(c.blockedPorts)
  BY ContainsIsMember
<1>2. Refuse(7) # Connect /\ Refuse(7) # Refuse(5) /\ Refuse(5) # Connect
  BY DEF Refuse, Connect
<1>3. Filter(c, r) = IF Blocked(c, r) THEN Refuse(7) ELSE IF Allowed(c, r) THEN Connect ELSE Refuse(5)
  BY DEF Filter
<1> HIDE DEF Filter
<1> QED
  BY <1>1, <1>2, <1>3 DEF Blocked, Allowed, AnySite, AnyPort

(* A complete request is decided on as the four lists say, for lists over  *)
(* any sites and ports (handle_socks_request).                             *)
THEOREM ListsDecide == Spec => []PolicyDecides
<1>1. TypeOK /\ HandlerInv => PolicyDecides
  <2> SUFFICES ASSUME TypeOK, HandlerInv,
                      verdict # Pending, req.n = 10, req.atyp = 1, req.version = 5, req.command = 1,
                      cfg.allowedIPs # <<>>, cfg.allowedPorts # <<>>
               PROVE  PolicyDecides
    BY DEF PolicyDecides
  <2>1. verdict = Filter(cfg, req)
    <3>1. Parse(req) = "address"
      BY DEF Parse, Octet
    <3>2. Octet(req, 0, req.version) = SOCKS_VERSION /\ Octet(req, 1, req.command) = 1
      BY DEF Octet, SOCKS_VERSION
    <3> QED
      BY <3>1, <3>2 DEF HandlerInv, Verdict
  <2>2. /\ cfg.allowedIPs \in Seq(Sites \cup {"all"}) /\ cfg.blockedIPs \in Seq(Sites \cup {"all"})
        /\ cfg.allowedPorts \in Seq(Ports \cup {-1}) /\ cfg.blockedPorts \in Seq(Ports \cup {-1})
    <3>1. /\ cfg.allowedIPs \in ListsOf(Sites \cup {"all"}) /\ cfg.allowedPorts \in ListsOf(Ports \cup {-1})
          /\ cfg.blockedIPs \in {<<>>} \cup {<<x>> : x \in Sites}
          /\ cfg.blockedPorts \in {<<>>} \cup {<<x>> : x \in Ports}
      BY DEF TypeOK, Configurations
    <3>2. /\ cfg.blockedIPs \in ListsOf(Sites \cup {"all"})
          /\ cfg.blockedPorts \in ListsOf(Ports \cup {-1})
      BY <3>1 DEF ListsOf
    <3> QED
      BY <3>1, <3>2, ListOfIsSeq
  <2>3. req.address \in Sites /\ req.port \in Ports
    BY DEF TypeOK, Requests, CompleteRequests
  <2> DEFINE denied == \/ cfg.allowedIPs[1] # "all" /\ req.address \in ToSet(cfg.blockedIPs)
                       \/ cfg.allowedPorts[1] # -1 /\ req.port \in ToSet(cfg.blockedPorts)
  <2>4. /\ verdict = Refuse(7) <=> denied
        /\ verdict = Connect <=>
              /\ ~denied
              /\ cfg.allowedIPs[1] = "all" \/ req.address \in ToSet(cfg.allowedIPs)
              /\ cfg.allowedPorts[1] = -1 \/ req.port \in ToSet(cfg.allowedPorts)
    BY <2>1, <2>2, FilterDecides
  <2> QED
    BY <2>3, <2>4 DEF PolicyDecides
<1> QED
  BY <1>1, RequestTypes, SpecHandlerInv, PTL
=============================================================================
