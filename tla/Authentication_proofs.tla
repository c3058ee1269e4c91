-------------------------- MODULE Authentication_proofs --------------------------
(***************************************************************************)
(* Proofs about Authentication for any octets, offers and lengths.         *)
(*                                                                         *)
(* The invariant follows the dialogue: Selected says what is known once a  *)
(* method was selected, Silence what has been told at each place, Reading  *)
(* how far the fields have been read there.                                *)
(***************************************************************************)
EXTENDS Authentication, TLAPS

Selected ==
    at \in {"login", "verify"} => script.offer # <<>> /\ script.offer[1] = 2 /\ method \in {-1, 2}

Reading ==
    /\ at = "select" => read = 2
    /\ at = "login" => read \in 2..(Fields - 1) /\ (read > 2 => script.header)
    /\ at = "verify" => read = Fields /\ script.header

NoGrant == \A i \in 1..Len(told) : told[i] \notin Grants

Silence == at # "returned" => ~result.authenticated /\ NoGrant

DialogueInv == TypeOK /\ Selected /\ Reading /\ Silence /\ AdmissionIsEarned /\ AdmittedIsTold

-----------------------------------------------------------------------------
LEMMA InitDialogueInv == Init => DialogueInv
<1> SUFFICES ASSUME Init PROVE DialogueInv
  OBVIOUS
<1> USE DEF Init, Unknown, Fields
<1>1. TypeOK
  BY DEF TypeOK
<1>2. Selected /\ Reading /\ Silence /\ AdmissionIsEarned /\ AdmittedIsTold
  BY DEF Selected, Reading, Silence, NoGrant, AdmissionIsEarned, AdmittedIsTold
<1> QED
  BY <1>1, <1>2 DEF DialogueInv

(* What one more message does to the grants that were told.                *)
LEMMA ToldGrant ==
    ASSUME NEW s \in Seq(Answers), NEW a \in Answers
    PROVE  /\ Append(s, a) \in Seq(Answers)
           /\ (\E i \in 1..Len(Append(s, a)) : Append(s, a)[i] \in Grants)
                 <=> a \in Grants \/ \E i \in 1..Len(s) : s[i] \in Grants
<1>1. /\ Append(s, a) \in Seq(Answers)
      /\ Len(Append(s, a)) = Len(s) + 1
      /\ \A i \in 1..Len(s) : Append(s, a)[i] = s[i]
      /\ Append(s, a)[Len(s) + 1] = a
  OBVIOUS
<1>2. 1..(Len(s) + 1) = (1..Len(s)) \cup {Len(s) + 1}
  OBVIOUS
<1> QED
  BY <1>1, <1>2

(* The messages, and which of them are grants.                             *)
LEMMA Messages ==
    /\ \A m \in 0..2 : Selection(m) \in Answers /\ (Selection(m) \in Grants <=> m = 0)
    /\ \A st \in 0..1 : Status(st) \in Answers /\ (Status(st) \in Grants <=> st = 0)
  BY DEF Selection, Status, Answers, Grants

(* The results, one by one.                                                *)
Results == [authenticated : BOOLEAN, method : -1..2, error : BOOLEAN]

LEMMA Refused == \A m \in -1..2 :
    Return(FALSE, m, TRUE) => result' \in Results
  BY Z3 DEF Return, Results

LEMMA LetIn == Return(TRUE, 0, FALSE) =>
    at' = "returned" /\ result'.authenticated = TRUE /\ result'.method = 0 /\ result' \in Results
  BY Z3 DEF Return, Results

LEMMA Declined == Return(FALSE, 1, FALSE) =>
    at' = "returned" /\ result'.authenticated = FALSE /\ result'.method = 1 /\ result' \in Results
  BY Z3 DEF Return, Results

(* Every action keeps the invariant.                                       *)
LEMMA NextDialogueInv == DialogueInv /\ [Next]_vars => DialogueInv'
<1> SUFFICES ASSUME DialogueInv, [Next]_vars PROVE DialogueInv'
  OBVIOUS
<1> USE DEF DialogueInv, TypeOK, Fields, Return, Throw
<1>0. told \in Seq(Answers) /\ script \in Scripts
  OBVIOUS
<1>1. CASE ReadCount
  <2>1. TypeOK'
    BY <1>1, Refused DEF Results, ReadCount, Reading
  <2>2. Selected' /\ Reading'
    BY <1>1 DEF ReadCount, Selected, Reading
  <2>3. Silence'
    BY <1>1 DEF ReadCount, Silence, NoGrant
  <2>4. AdmissionIsEarned'
    BY <1>1 DEF ReadCount, Silence, AdmissionIsEarned
  <2>5. AdmittedIsTold'
    BY <1>1 DEF ReadCount, Silence, NoGrant, AdmittedIsTold
  <2> QED
    BY <2>1, <2>2, <2>3, <2>4, <2>5
<1>2. CASE ReadMethods
  <2>1. TypeOK'
    BY <1>2, Refused DEF Results, ReadMethods, Reading
  <2>2. Selected' /\ Reading'
    BY <1>2 DEF ReadMethods, Selected, Reading
  <2>3. Silence'
    BY <1>2 DEF ReadMethods, Silence, NoGrant
  <2>4. AdmissionIsEarned'
    BY <1>2 DEF ReadMethods, Silence, AdmissionIsEarned
  <2>5. AdmittedIsTold'
    BY <1>2 DEF ReadMethods, Silence, NoGrant, AdmittedIsTold
  <2> QED
    BY <2>1, <2>2, <2>3, <2>4, <2>5
<1>3. CASE Select
  <2>1. CASE script.offer # <<>> /\ Configured(script.offer[1]) /\ ~WriteThrows
    <3>1. PICK m \in 0..2 :
            /\ script.offer[1] = m /\ method \in {m, -1} /\ told' = Append(told, Selection(m))
            /\ m = 0 => Return(TRUE, 0, FALSE)
            /\ m = 1 => Return(FALSE, 1, FALSE)
            /\ m = 2 => at' = "login" /\ UNCHANGED result
      BY <1>3, <2>1 DEF Select, Configured, NoAuthentication, GSSAPI, UsernamePassword, Tell
    <3>2. /\ told' \in Seq(Answers)
          /\ (\E k \in 1..Len(told') : told'[k] \in Grants)
                <=> m = 0 \/ \E k \in 1..Len(told) : told[k] \in Grants
      BY <3>1, ToldGrant, Messages
    <3>3. NoGrant /\ ~result.authenticated /\ read = 2
      BY <1>3 DEF Select, Silence, Reading
    <3>4. UNCHANGED <<method, script, peer, sent, read>>
      BY <1>3 DEF Select
    <3>5. CASE m = 2
      BY <3>1, <3>2, <3>3, <3>4, <3>5, <2>1 DEF Selected, Reading, Silence, NoGrant, AdmissionIsEarned, AdmittedIsTold
    <3>6. CASE m # 2
      <4>1. /\ at' = "returned"
            /\ result' \in [authenticated : BOOLEAN, method : -1..2, error : BOOLEAN]
            /\ result'.authenticated <=> m = 0
            /\ result'.method = m
        <5>1. CASE m = 0
          BY <3>1, <5>1, LetIn DEF Results
        <5>2. CASE m = 1
          BY <3>1, <5>2, Declined DEF Results
        <5> QED
          BY <3>6, <5>1, <5>2
      <4> QED
        BY <3>1, <3>2, <3>3, <3>4, <4>1, <2>1 DEF Selected, Reading, Silence, NoGrant, AdmissionIsEarned, AdmittedIsTold
    <3> QED
      BY <3>5, <3>6
  <2>2. CASE WriteThrows
    BY <1>3, <2>2 DEF Select, WriteThrows, Selected, Reading, Silence, NoGrant, AdmissionIsEarned, AdmittedIsTold
  <2>3. CASE ~(script.offer # <<>> /\ Configured(script.offer[1]))
    <3>1. TypeOK'
      BY <1>3, <2>3, Refused DEF Results, Select, Reading
    <3>2. Selected' /\ Reading'
      BY <1>3, <2>3 DEF Select, Selected, Reading
    <3>3. Silence'
      BY <1>3, <2>3 DEF Select, Silence, NoGrant
    <3>4. AdmissionIsEarned'
      BY <1>3, <2>3 DEF Select, Silence, AdmissionIsEarned
    <3>5. AdmittedIsTold'
      BY <1>3, <2>3 DEF Select, Silence, NoGrant, AdmittedIsTold
    <3> QED
      BY <3>1, <3>2, <3>3, <3>4, <3>5
  <2> QED
    BY <2>1, <2>2, <2>3
<1>4. CASE ReadLogin
  <2>1. TypeOK'
    BY <1>4, Refused DEF Results, ReadLogin, Reading
  <2>2. Selected' /\ Reading'
    BY <1>4 DEF ReadLogin, Selected, Reading
  <2>3. Silence'
    BY <1>4 DEF ReadLogin, Silence, NoGrant
  <2>4. AdmissionIsEarned'
    BY <1>4 DEF ReadLogin, Silence, AdmissionIsEarned
  <2>5. AdmittedIsTold'
    BY <1>4 DEF ReadLogin, Silence, NoGrant, AdmittedIsTold
  <2> QED
    BY <2>1, <2>2, <2>3, <2>4, <2>5
<1>5. CASE Verify
  <2>1. CASE WriteThrows
    BY <1>5, <2>1 DEF Verify, WriteThrows, Selected, Reading, Silence, NoGrant, AdmissionIsEarned, AdmittedIsTold
  <2>2. CASE ~WriteThrows
    <3> DEFINE ok == script.user /\ script.password
               st == IF ok THEN 0 ELSE 1
    <3>1. told' = Append(told, Status(st)) /\ Return(ok, 2, FALSE)
      BY <1>5, <2>2 DEF Verify, Tell
    <3>2. /\ told' \in Seq(Answers)
          /\ (\E k \in 1..Len(told') : told'[k] \in Grants)
                <=> ok \/ \E k \in 1..Len(told) : told[k] \in Grants
      BY <3>1, ToldGrant, Messages
    <3>3. NoGrant /\ ok \in BOOLEAN
      BY <1>5, <1>0 DEF Verify, Silence, Scripts
    <3> HIDE DEF ok, st
    <3>4. result'.authenticated = ok /\ result'.method = 2 /\ at' = "returned"
          /\ result' \in [authenticated : BOOLEAN, method : -1..2, error : BOOLEAN]
      BY <3>1, <3>3
    <3>5. AdmissionIsEarned'
      BY <1>5, <3>4 DEF Verify, Selected, Reading, AdmissionIsEarned, ok
    <3> QED
      BY <1>5, <3>2, <3>3, <3>4, <3>5 DEF Verify, Selected, Reading, Silence, NoGrant, AdmittedIsTold
  <2> QED
    BY <2>1, <2>2
<1>6. CASE PeerSends
  <2>1. TypeOK'
    BY <1>6 DEF PeerSends, Reading
  <2>2. Selected' /\ Reading'
    BY <1>6 DEF PeerSends, Selected, Reading
  <2>3. Silence'
    BY <1>6 DEF PeerSends, Silence, NoGrant
  <2>4. AdmissionIsEarned'
    BY <1>6 DEF PeerSends, Silence, AdmissionIsEarned
  <2>5. AdmittedIsTold'
    BY <1>6 DEF PeerSends, Silence, NoGrant, AdmittedIsTold
  <2> QED
    BY <2>1, <2>2, <2>3, <2>4, <2>5
<1>7. CASE PeerEnds
  <2>1. TypeOK'
    BY <1>7 DEF PeerEnds, Reading
  <2>2. Selected' /\ Reading'
    BY <1>7 DEF PeerEnds, Selected, Reading
  <2>3. Silence'
    BY <1>7 DEF PeerEnds, Silence, NoGrant
  <2>4. AdmissionIsEarned'
    BY <1>7 DEF PeerEnds, Silence, AdmissionIsEarned
  <2>5. AdmittedIsTold'
    BY <1>7 DEF PeerEnds, Silence, NoGrant, AdmittedIsTold
  <2> QED
    BY <2>1, <2>2, <2>3, <2>4, <2>5
<1>8. CASE UNCHANGED vars
  BY <1>8 DEF vars, Selected, Reading, Silence, NoGrant, AdmissionIsEarned, AdmittedIsTold
<1> QED
  BY <1>1, <1>2, <1>3, <1>4, <1>5, <1>6, <1>7, <1>8 DEF Next

THEOREM DialogueInvHolds == Spec => []DialogueInv
  BY InitDialogueInv, NextDialogueInv, PTL DEF Spec

(* The dialogue keeps its types.                                           *)
THEOREM DialogueTypes == Spec => []TypeOK
<1>1. DialogueInv => TypeOK
  BY DEF DialogueInv
<1> QED
  BY <1>1, DialogueInvHolds, PTL

(* Nobody is let in without the method that is configured and a login that *)
(* was read in full (Select, ReadLogin, Verify).                           *)
THEOREM AdmissionsAreEarned == Spec => []AdmissionIsEarned
<1>1. DialogueInv => AdmissionIsEarned
  BY DEF DialogueInv
<1> QED
  BY <1>1, DialogueInvHolds, PTL

(* What the client was told and what the session was given agree.          *)
THEOREM BothEndsAgree == Spec => []AdmittedIsTold
<1>1. DialogueInv => AdmittedIsTold
  BY DEF DialogueInv
<1> QED
  BY <1>1, DialogueInvHolds, PTL

(* The dialogue implements SocketLoan: each way out gives the socket back, *)
(* or is an exception after the client has ended the connection.           *)
THEOREM DialogueImplementsLoan == Spec => LoanPromise
<1>1. Init => Loan!Init
  BY DEF Init, Loan!Init
<1>2. [Next]_vars => [Loan!Next]_Loan!vars
  <2> SUFFICES ASSUME [Next]_vars PROVE [Loan!Next]_Loan!vars
    OBVIOUS
  <2> USE DEF Loan!Next, Loan!vars, Loan!PeerEnds, Loan!GiveBack, Loan!Lose, Return, Throw
  <2>1. CASE ReadCount
    BY <2>1 DEF ReadCount
  <2>2. CASE ReadMethods
    BY <2>2 DEF ReadMethods
  <2>3. CASE Select
    BY <2>3 DEF Select, NoAuthentication, GSSAPI, UsernamePassword, WriteThrows
  <2>4. CASE ReadLogin
    BY <2>4 DEF ReadLogin, Broken
  <2>5. CASE Verify
    BY <2>5 DEF Verify, WriteThrows
  <2>6. CASE PeerSends
    BY <2>6 DEF PeerSends
  <2>7. CASE PeerEnds
    BY <2>7 DEF PeerEnds
  <2>8. CASE UNCHANGED vars
    BY <2>8 DEF vars
  <2> QED
    BY <2>1, <2>2, <2>3, <2>4, <2>5, <2>6, <2>7, <2>8 DEF Next
<1> QED
  BY <1>1, <1>2, PTL DEF Spec, LoanPromise, Loan!Spec

-----------------------------------------------------------------------------
(* What one more message does to the endings that were told.               *)
NoEnding(s) == \A i \in 1..Len(s) : s[i] \notin Endings

LEMMA ToldEnding ==
    ASSUME NEW s \in Seq(Answers), NEW a \in Answers
    PROVE  NoEnding(Append(s, a)) <=> a \notin Endings /\ NoEnding(s)
<1>1. /\ Len(Append(s, a)) = Len(s) + 1
      /\ \A i \in 1..Len(s) : Append(s, a)[i] = s[i]
      /\ Append(s, a)[Len(s) + 1] = a
  OBVIOUS
<1>2. 1..(Len(s) + 1) = (1..Len(s)) \cup {Len(s) + 1}
  OBVIOUS
<1> QED
  BY <1>1, <1>2 DEF NoEnding

LEMMA WhichEnd ==
    /\ \A m \in 0..2 : Selection(m) \in Answers /\ (Selection(m) \in Endings <=> m # 2)
    /\ \A st \in 0..1 : Status(st) \in Answers /\ Status(st) \in Endings
  BY DEF Selection, Status, Answers, Endings

(* Nothing final is told before the return, and what is told with it says  *)
(* whether there is an error.                                              *)
EndingInv == /\ at # "returned" => NoEnding(told)
             /\ at = "returned" => (result.error <=> NoEnding(told))

LEMMA ReturnSays ==
    /\ \A m \in {-1, 2} : Return(FALSE, m, TRUE) => at' = "returned" /\ result'.error = TRUE
    /\ Return(TRUE, 0, FALSE) => at' = "returned" /\ result'.error = FALSE
    /\ Return(FALSE, 1, FALSE) => at' = "returned" /\ result'.error = FALSE
    /\ \A ok \in BOOLEAN : Return(ok, 2, FALSE) => at' = "returned" /\ result'.error = FALSE
  BY Z3 DEF Return

LEMMA NextEndingInv == DialogueInv /\ EndingInv /\ [Next]_vars => EndingInv'
<1> SUFFICES ASSUME DialogueInv, EndingInv, [Next]_vars PROVE EndingInv'
  OBVIOUS
<1>0. told \in Seq(Answers) /\ script \in Scripts
  BY DEF DialogueInv, TypeOK
<1>a. ASSUME UNCHANGED told, at # "returned", at' # "returned" PROVE EndingInv'
  BY <1>a DEF EndingInv, NoEnding
<1>b. ASSUME UNCHANGED told, at # "returned", at' = "returned", result'.error = TRUE PROVE EndingInv'
  BY <1>b DEF EndingInv, NoEnding
<1>c. ASSUME NEW x \in Answers, x \in Endings, told' = Append(told, x),
             at' = "returned", result'.error = FALSE
      PROVE  EndingInv'
  <2>1. ~NoEnding(Append(told, x))
    BY <1>0, <1>c, ToldEnding
  <2> QED
    BY <1>c, <2>1 DEF EndingInv, NoEnding
<1>1. CASE ReadCount \/ ReadMethods
  BY <1>1, <1>a, <1>b, ReturnSays DEF ReadCount, ReadMethods
<1>2. CASE Select
  <2>1. at # "returned"
    BY <1>2 DEF Select
  <2>2. CASE UNCHANGED told /\ (Throw \/ Return(FALSE, -1, TRUE))
    BY <2>1, <2>2, <1>a, <1>b, ReturnSays DEF Throw
  <2>3. CASE Tell(Selection(0)) /\ Return(TRUE, 0, FALSE)
    <3>1. Selection(0) \in Answers /\ Selection(0) \in Endings
      BY WhichEnd
    <3>2. at' = "returned" /\ result'.error = FALSE
      BY <2>3, ReturnSays
    <3>3. told' = Append(told, Selection(0))
      BY <2>3 DEF Tell
    <3> QED
      BY <3>1, <3>2, <3>3, <1>c
  <2>4. CASE Tell(Selection(1)) /\ Return(FALSE, 1, FALSE)
    <3>1. Selection(1) \in Answers /\ Selection(1) \in Endings
      BY WhichEnd
    <3>2. at' = "returned" /\ result'.error = FALSE
      BY <2>4, ReturnSays
    <3>3. told' = Append(told, Selection(1))
      BY <2>4 DEF Tell
    <3> QED
      BY <3>1, <3>2, <3>3, <1>c
  <2>5. CASE Tell(Selection(2)) /\ at' = "login"
    <3>1. NoEnding(told')
      BY <1>0, <2>1, <2>5, ToldEnding, WhichEnd DEF Tell, EndingInv
    <3> QED
      BY <2>5, <3>1 DEF EndingInv
  <2> QED
    BY <1>2, <2>2, <2>3, <2>4, <2>5
       DEF Select, NoAuthentication, GSSAPI, UsernamePassword, WriteThrows
<1>3. CASE ReadLogin
  BY <1>3, <1>a, <1>b, ReturnSays DEF ReadLogin, Throw
<1>4. CASE Verify
  <2>1. at # "returned"
    BY <1>4 DEF Verify
  <2>2. CASE WriteThrows
    BY <2>1, <2>2, <1>a DEF WriteThrows, Throw
  <2>3. CASE ~WriteThrows
    <3> DEFINE ok == script.user /\ script.password
    <3>1. ok \in BOOLEAN
      BY <1>0 DEF Scripts
    <3>2. Tell(Status(IF ok THEN 0 ELSE 1)) /\ Return(ok, 2, FALSE)
      BY <1>4, <2>3 DEF Verify
    <3>3. Status(IF ok THEN 0 ELSE 1) \in Answers \cap Endings
      BY WhichEnd
    <3>4. at' = "returned" /\ result'.error = FALSE
      BY <3>1, <3>2, ReturnSays
    <3> HIDE DEF ok
    <3> QED
      BY <3>2, <3>3, <3>4, <1>c DEF Tell
  <2> QED
    BY <2>2, <2>3
<1>5. CASE PeerSends \/ PeerEnds \/ UNCHANGED vars
  BY <1>5 DEF PeerSends, PeerEnds, vars, EndingInv, NoEnding
<1> QED
  BY <1>1, <1>2, <1>3, <1>4, <1>5 DEF Next

(* Whoever gets no answer to the end is reported with an error, for any    *)
(* offer (handle_authentication, Username_Password::authenticate).         *)
THEOREM SilencesAreLogged == Spec => []SilenceIsLogged
<1>1. Init => EndingInv
  BY DEF Init, EndingInv, NoEnding
<1>2. EndingInv => SilenceIsLogged
  BY DEF EndingInv, NoEnding, SilenceIsLogged
<1> QED
  BY <1>1, <1>2, NextEndingInv, DialogueInvHolds, PTL DEF Spec
-----------------------------------------------------------------------------
(* Whose turn it is: what has been told at each place where the server may *)
(* wait, and that it never is ahead of the client there.                   *)
Turns ==
    /\ at = "greeting" => read \in 0..1
    /\ at \in {"greeting", "select"} => told = <<>>
    /\ at = "login" => told = <<Selection(2)>>
    /\ at \in {"greeting", "login"} => sent >= read
    /\ at = "select" /\ script.offer # <<>> => sent >= read

LEMMA InitTurns == Init => Turns
BY DEF Init, Turns

LEMMA NextTurns == DialogueInv /\ Turns /\ [Next]_vars => Turns'
<1> SUFFICES ASSUME DialogueInv, Turns, [Next]_vars PROVE Turns'
  OBVIOUS
<1> USE DEF Turns, DialogueInv, TypeOK, Reading, Fields, Return, Throw
<1>1. CASE ReadCount
  BY <1>1 DEF ReadCount, Arrived
<1>2. CASE ReadMethods
  BY <1>2 DEF ReadMethods, Arrived
<1>3. CASE Select
  <2>1. /\ at = "select" /\ told = <<>> /\ read = 2
        /\ UNCHANGED <<script, sent, read>>
    BY <1>3 DEF Select
  <2>2. CASE at' = "login"
    <3>1. script.offer # <<>> /\ UsernamePassword
      BY <1>3, <2>2 DEF Select, NoAuthentication, GSSAPI, WriteThrows
    <3>2. told' = <<Selection(2)>>
      BY <2>1, <2>2, <3>1 DEF UsernamePassword, WriteThrows, Tell
    <3> QED
      BY <2>1, <2>2, <3>1, <3>2
  <2>3. CASE at' # "login"
    <3>1. at' \in {"returned", "threw"}
      BY <1>3, <2>3 DEF Select, NoAuthentication, GSSAPI, UsernamePassword, WriteThrows
    <3> QED
      BY <3>1
  <2> QED
    BY <2>2, <2>3
<1>4. CASE ReadLogin
  BY <1>4 DEF ReadLogin, Arrived
<1>5. CASE Verify
  <2>1. at' \in {"returned", "threw"}
    BY <1>5 DEF Verify, WriteThrows
  <2> QED
    BY <2>1
<1>6. CASE PeerSends
  BY <1>6 DEF PeerSends
<1>7. CASE PeerEnds
  BY <1>7 DEF PeerEnds
<1>8. CASE UNCHANGED vars
  BY <1>8 DEF vars
<1> QED
  BY <1>1, <1>2, <1>3, <1>4, <1>5, <1>6, <1>7, <1>8 DEF Next

(* The server has something to do: an octet to read or the end of them to  *)
(* report, or an answer to write.                                          *)
ServerCanGo == \/ at \in {"greeting", "login"} /\ (Arrived \/ Broken)
               \/ at \in {"select", "verify"}

(* The client has something to say that the protocol asks of it now.       *)
ClientIsToSend == peer = "up" /\ sent < Fields /\ Asked

(* Two blocking ends never wait for each other: when the server waits in a *)
(* read, the client has been asked for what is awaited (the writes of      *)
(* Username_Password come before its reads).                               *)
THEOREM NobodyWaitsInVain ==
    Spec => [](at \in {"returned", "threw"} \/ ServerCanGo \/ ClientIsToSend)
<1>1. DialogueInv /\ Turns => at \in {"returned", "threw"} \/ ServerCanGo \/ ClientIsToSend
  BY DEF DialogueInv, TypeOK, Reading, Turns, ServerCanGo, ClientIsToSend, Asked,
         Arrived, Broken, Fields
<1>2. Init /\ [][Next]_vars => []Turns
  BY InitTurns, NextTurns, DialogueInvHolds, PTL DEF Spec
<1> QED
  BY <1>1, <1>2, DialogueInvHolds, PTL DEF Spec
==============================================================================
