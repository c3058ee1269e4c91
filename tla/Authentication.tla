----------------------------- MODULE Authentication -----------------------------
(***************************************************************************)
(* Handle_Authentication and the three methods: the blocking dialogue with *)
(* a client whose version octet has been read.                             *)
(*                                                                         *)
(* What the client has to say is fixed at the start, as six fields: the    *)
(* count of methods, the methods, the login header with the length of the  *)
(* user name, the user name, the length of the password, the password.  It *)
(* sends them at its own pace, ahead of the server too, and may end or     *)
(* reset the connection at any time.  One blocking read is one action, and *)
(* so is what follows the last read up to the return.                      *)
(***************************************************************************)
EXTENDS Integers, Sequences

CONSTANTS MethodOctets, \* bound: the octets a client may offer as methods
          MaxOffer      \* bound: methods in an offer

ASSUME DialogueAssumption == MethodOctets \subseteq 0..255 /\ MaxOffer \in Nat

Offers == UNION {[1..n -> MethodOctets] : n \in 0..MaxOffer}
Scripts == [offer : Offers, header : BOOLEAN, user : BOOLEAN, password : BOOLEAN]
Fields == 6

(* A message to the client: the method selected or the status of its login. *)
Selection(m) == <<"method", m>>
Status(st)   == <<"status", st>>
Grants  == {Selection(0), Status(0)}
Endings == {Selection(0), Selection(1), Status(0), Status(1)}
Answers == {Selection(m) : m \in 0..2} \cup {Status(st) : st \in 0..1}

VARIABLES
    method,  \* authenticationMethod of the configuration
    script,  \* what the client says; header, user and password: whether they are right
    peer,    \* the client's end of the connection
    sent,    \* fields sent by the client
    read,    \* fields read by the server
    at,      \* where handle_authentication is
    told,    \* what the server has written
    result   \* the Authentication_Result

vars == <<method, script, peer, sent, read, at, told, result>>

Unknown == [authenticated |-> FALSE, method |-> -1, error |-> FALSE]

-----------------------------------------------------------------------------
(* A read returns the next field, or fails at the end of the stream or     *)
(* after a reset.  The read of no octets at all returns at once.           *)
Arrived == peer # "reset" /\ sent > read
Broken  == peer = "reset" \/ (peer = "fin" /\ sent = read)

Return(authenticated, m, error) ==
    /\ at' = "returned"
    /\ result' = [authenticated |-> authenticated, method |-> m, error |-> error]

Throw == at' = "threw" /\ UNCHANGED result

(* The throwing write: it may fail once the client has reset.              *)
WriteThrows == peer = "reset" /\ Throw /\ UNCHANGED told
Tell(answer) == told' = Append(told, answer)

(* handle_authentication: the two reads of the greeting.                   *)
ReadCount ==
    /\ at = "greeting" /\ read = 0
    /\ \/ Arrived /\ read' = 1 /\ UNCHANGED <<at, result>>
       \/ Broken /\ Return(FALSE, -1, TRUE) /\ UNCHANGED read
    /\ UNCHANGED <<method, script, peer, sent, told>>

ReadMethods ==
    /\ at = "greeting" /\ read = 1
    /\ \/ /\ Arrived \/ script.offer = <<>>
          /\ read' = 2 /\ at' = "select" /\ UNCHANGED result
       \/ Broken /\ script.offer # <<>> /\ Return(FALSE, -1, TRUE) /\ UNCHANGED read
    /\ UNCHANGED <<method, script, peer, sent, told>>

UsernamePasswordUntold == at' = "login" /\ UNCHANGED <<told, result>>

(* The methods.  No_Authentication and GSSAPI write and return.            *)
NoAuthentication == WriteThrows \/ (Tell(Selection(0)) /\ Return(TRUE, 0, FALSE))
GSSAPI == WriteThrows \/ (Tell(Selection(1)) /\ Return(FALSE, 1, FALSE))
UsernamePassword ==
    WriteThrows \/ (Tell(Selection(2)) /\ at' = "login" /\ UNCHANGED result)

ConfiguredOrAny(m) == m \in 0..2 /\ (method \in {m, -1} \/ m = 0)

SelectWithoutError ==
    /\ at = "select"
    /\ IF script.offer # <<>> /\ script.offer[1] \in 0..2 /\ method \in {script.offer[1], -1}
       THEN \/ script.offer[1] = 0 /\ NoAuthentication
            \/ script.offer[1] = 1 /\ GSSAPI
            \/ script.offer[1] = 2 /\ UsernamePassword
       ELSE Return(FALSE, -1, FALSE) /\ UNCHANGED told
    /\ UNCHANGED <<method, script, peer, sent, read>>

(* The loop over the methods offered returns in its first iteration: only  *)
(* the first one is looked at.                                             *)
Configured(m) == m \in 0..2 /\ method \in {m, -1}

Select ==
    /\ at = "select"
    /\ IF script.offer # <<>> /\ Configured(script.offer[1])
       THEN \/ script.offer[1] = 0 /\ NoAuthentication
            \/ script.offer[1] = 1 /\ GSSAPI
            \/ script.offer[1] = 2 /\ UsernamePassword
       ELSE Return(FALSE, -1, TRUE) /\ UNCHANGED told
    /\ UNCHANGED <<method, script, peer, sent, read>>

ReadLoginThrowsOnHeader ==
    /\ at = "login"
    /\ \/ /\ Arrived
          /\ read' = read + 1
          /\ IF read = 2 /\ ~script.header THEN Throw
             ELSE /\ at' = IF read' = Fields THEN "verify" ELSE "login"
                  /\ UNCHANGED result
       \/ Broken /\ Throw /\ UNCHANGED read
    /\ UNCHANGED <<method, script, peer, sent, told>>

(* Username_Password: four reads, all of which throw when they fail; a bad *)
(* header is an error without an answer.                                   *)
ReadLogin ==
    /\ at = "login"
    /\ \/ /\ Arrived
          /\ read' = read + 1
          /\ IF read = 2 /\ ~script.header THEN Return(FALSE, 2, TRUE)
             ELSE /\ at' = IF read' = Fields THEN "verify" ELSE "login"
                  /\ UNCHANGED result
       \/ Broken /\ Throw /\ UNCHANGED read
    /\ UNCHANGED <<method, script, peer, sent, told>>

VerifyTellsAll ==
    /\ at = "verify"
    /\ \/ WriteThrows
       \/ Tell(Status(0)) /\ Return(script.user /\ script.password, 2, FALSE)
    /\ UNCHANGED <<method, script, peer, sent, read>>

Verify ==
    /\ at = "verify"
    /\ \/ WriteThrows
       \/ LET ok == script.user /\ script.password
          IN  Tell(Status(IF ok THEN 0 ELSE 1)) /\ Return(ok, 2, FALSE)
    /\ UNCHANGED <<method, script, peer, sent, read>>

-----------------------------------------------------------------------------
(* The client.                                                             *)
PeerSends ==
    /\ peer = "up" /\ sent < Fields
    /\ sent' = sent + 1
    /\ UNCHANGED <<method, script, peer, read, at, told, result>>

PeerEnds ==
    /\ \/ peer = "up" /\ peer' = "fin"
       \/ peer \in {"up", "fin"} /\ peer' = "reset"
    /\ UNCHANGED <<method, script, sent, read, at, told, result>>

Init ==
    /\ method \in -1..2
    /\ script \in Scripts
    /\ peer = "up"
    /\ sent = 0 /\ read = 0
    /\ at = "greeting"
    /\ told = <<>>
    /\ result = Unknown

Next == ReadCount \/ ReadMethods \/ Select \/ ReadLogin \/ Verify \/ PeerSends \/ PeerEnds

(* A client that follows the protocol sends its greeting, and its login    *)
(* once it has been told to; the server thread does nothing else.          *)
Asked == sent < 2 \/ told = <<Selection(2)>>

Fairness ==
    /\ WF_vars(ReadCount) /\ WF_vars(ReadMethods) /\ WF_vars(Select)
    /\ WF_vars(ReadLogin) /\ WF_vars(Verify)
    /\ WF_vars(Asked /\ PeerSends)

Spec == Init /\ [][Next]_vars
FairSpec == Spec /\ Fairness
-----------------------------------------------------------------------------
(* Properties.                                                             *)

TypeOK ==
    /\ method \in -1..2
    /\ script \in Scripts
    /\ peer \in {"up", "fin", "reset"}
    /\ sent \in 0..Fields /\ read \in 0..Fields
    /\ at \in {"greeting", "select", "login", "verify", "returned", "threw"}
    /\ told \in Seq(Answers)
    /\ result \in [authenticated : BOOLEAN, method : -1..2, error : BOOLEAN]

(* A client is let in only by the method it offered first, if the          *)
(* configuration admits that one, and where it is the user name and        *)
(* password, with all of the login read and right (handle_authentication,  *)
(* Username_Password::authenticate).                                       *)
AdmissionIsEarned ==
    result.authenticated =>
        /\ script.offer # <<>> /\ script.offer[1] = result.method
        /\ method \in {-1, result.method}
        /\ \/ result.method = 0
           \/ /\ result.method = 2 /\ read = Fields
              /\ script.header /\ script.user /\ script.password

(* The two ends never disagree: a client that was told it is in is let in, *)
(* and the other way round (No_Authentication, Username_Password).         *)
AdmittedIsTold ==
    result.authenticated <=> \E i \in 1..Len(told) : told[i] \in Grants

(* A client that was never told how its offer or its login ended comes     *)
(* back with an error for the log, and only such a client: whoever is      *)
(* turned down in silence leaves a trace (handle_authentication, the three *)
(* methods).                                                               *)
SilenceIsLogged ==
    at = "returned" => (result.error <=> \A i \in 1..Len(told) : told[i] \notin Endings)

(* The session gets its socket back unless the client itself has gone,     *)
(* although half of the reads and all writes throw.                        *)
Loan == INSTANCE SocketLoan
            WITH holder <- CASE at = "returned" -> "session"
                             [] at = "threw" -> "nobody"
                             [] OTHER -> "authenticator"
LoanPromise == Loan!Spec

(* With a client that follows the protocol the two never wait for each     *)
(* other: the answer is written before the next field is awaited.          *)
DialogueEnds == <>(at \in {"returned", "threw"})
=============================================================================
