---------------------------- MODULE Database_proofs ----------------------------
(***************************************************************************)
(* Proofs about Database for any number of workers, producers, entries,    *)
(* calls of clear_database and lives of the process.  Every step of        *)
(* Database but a restart is a step of the pool or leaves it alone, and a  *)
(* restart starts the pool anew, so that PoolInv carries over; the table   *)
(* is tied to the entries written by DbInv.                                *)
(***************************************************************************)
EXTENDS Database, LogPool_proofs, SequenceTheorems

(* The rows of this life.                                                  *)
Rows == [i \in 1..(Len(written) - dropped) |-> <<life, dropped + i>>]

DbInv ==
    /\ PoolInv
    /\ life \in 1..MaxLives /\ dead \in BOOLEAN /\ clears \in 0..MaxClears
    /\ kept \in Seq(Row) /\ DOMAIN query = DOMAIN NoQuery
    /\ dropped \in 0..Len(written)
    /\ IF table = Absent THEN dropped = Len(written) /\ kept = <<>> ELSE table = kept \o Rows
    /\ pc[Owner] # "idle" => table # Absent

-----------------------------------------------------------------------------
(* Database drives the pool as LogPool allows.                             *)
LEMMA DbStepIsPoolStep == [DbNext]_dbVars => [Next]_vars \/ Restart
<1> SUFFICES ASSUME [DbNext]_dbVars, ~Restart PROVE [Next]_vars
  OBVIOUS
<1>1. CASE DbDestructor \/ \E p \in Producers : DbAddToQueue(p)
  BY <1>1 DEF DbDestructor, DbAddToQueue, Next
<1>2. ASSUME NEW w \in Workers, DbWork(w) \/ Insert(w) \/ InsertThrows(w)
      PROVE  [Next]_vars
  BY <1>2 DEF DbWork, Insert, InsertThrows, Next, Worker, vars
<1>3. CASE Clear \/ GetData \/ Die \/ UNCHANGED dbVars
  BY <1>3 DEF Clear, Drop, Create, GetData, Begin, StepRow, Answer, Die, dbVars, vars
<1> QED
  BY <1>1, <1>2, <1>3 DEF DbNext, DbDone

(* A restart begins with the pool as the constructor leaves it.            *)
LEMMA RestartedPool == Restart => PoolInv'
<1>1. Restart => Init'
  BY DEF Restart, Init
<1>2. Init' => PoolInv'
  BY InitPoolInv, PTL
<1> QED
  BY <1>1, <1>2

LEMMA DbPoolInv == PoolInv /\ [DbNext]_dbVars => PoolInv'
BY DbStepIsPoolStep, NextPoolInv, RestartedPool

(* The table, when there is one, is a sequence of rows, and never looks    *)
(* absent.                                                                 *)
LEMMA TablesAreNotAbsent == ASSUME NEW t \in Seq(Row) PROVE t # Absent
<1> SUFFICES ASSUME t = Absent PROVE FALSE
  OBVIOUS
<1>1. Len(t) = 1 /\ t[1] = <<0, 0>>
  BY DEF Absent
<1>2. t[1] \in Row
  BY <1>1, ElementOfSeq
<1> QED
  BY <1>1, <1>2 DEF Row

LEMMA RowsType ==
    ASSUME DbInv
    PROVE  /\ Len(written) \in 0..MaxEntries
           /\ Rows \in Seq(Row) /\ kept \o Rows \in Seq(Row)
<1>1. Len(written) \in 0..MaxEntries
  <2>1. /\ Len(written) \in Nat /\ Len(queue) \in Nat /\ accepted \in 0..MaxEntries
        /\ Gone + Len(queue) = accepted /\ (Popping => Len(queue) > 0)
    BY DEF DbInv, PoolInv, TypeOK, Order
  <2>2. Len(written) <= Gone + Len(queue)
    BY <2>1 DEF Gone
  <2> QED
    BY <2>1, <2>2, PoolAssumption DEF PoolAssumption
<1>2. \A i \in 1..(Len(written) - dropped) : <<life, dropped + i>> \in Row
  BY <1>1, PoolAssumption DEF PoolAssumption, DbInv, Row
<1>3. Len(written) - dropped \in Nat
  BY <1>1 DEF DbInv
<1>4. Rows \in Seq(Row)
  BY <1>2, <1>3 DEF Rows
<1>5. kept \o Rows \in Seq(Row)
  BY <1>4, ConcatProperties DEF DbInv
<1> QED
  BY <1>1, <1>4, <1>5

LEMMA InitDbInv == DbInit => DbInv
<1> SUFFICES ASSUME DbInit PROVE DbInv
  OBVIOUS
<1>1. PoolInv
  BY InitPoolInv DEF DbInit
<1>2. written = <<>> /\ dropped = 0 /\ table = <<>> /\ kept = <<>> /\ pc[Owner] = "idle"
  BY PoolAssumption DEF PoolAssumption, DbInit, Init, Started, Thread
<1>3. Rows = <<>>
  BY <1>2 DEF Rows
<1>4. life \in 1..MaxLives /\ dead \in BOOLEAN /\ clears \in 0..MaxClears /\ DOMAIN query = DOMAIN NoQuery
  <2>1. MaxClears \in Nat /\ MaxLives \in Nat \ {0}
    BY BoundsAssumption DEF BoundsAssumption
  <2>2. life = 1 /\ dead = FALSE /\ clears = 0 /\ query = NoQuery
    BY DEF DbInit
  <2>3. DOMAIN query = DOMAIN NoQuery
    BY <2>2
  <2>4. life \in 1..MaxLives /\ clears \in 0..MaxClears
    BY <2>1, <2>2
  <2> QED
    BY <2>2, <2>3, <2>4
<1>5. table # Absent
  BY <1>2 DEF Absent
<1>6. table = kept \o Rows /\ dropped \in 0..Len(written) /\ kept \in Seq(Row)
  BY <1>2, <1>3
<1> QED
  BY <1>1, <1>2, <1>4, <1>5, <1>6 DEF DbInv

LEMMA NextDbInv == DbInv /\ [DbNext]_dbVars => DbInv'
<1> SUFFICES ASSUME DbInv, [DbNext]_dbVars PROVE DbInv'
  OBVIOUS
<1>1. PoolInv'
  BY DbPoolInv DEF DbInv
<1>2. ASSUME UNCHANGED <<table, clears, life, dropped, kept, query, written>>, dead' \in BOOLEAN,
             pc'[Owner] # "idle" => table # Absent
      PROVE  DbInv'
  BY <1>1, <1>2 DEF DbInv, Rows
<1>3. ASSUME NEW w \in Workers, DbWork(w) PROVE DbInv'
  <2>1. UNCHANGED <<tableVars, written>>
    BY <1>3 DEF DbWork, Acquire, Wait, Exit, Pop, WakeSpuriously
  <2>2. pc'[Owner] = pc[Owner]
    BY <1>3, PoolAssumption DEF PoolAssumption, DbWork, Acquire, Wait, Exit, Pop,
       WakeSpuriously, DbInv, PoolInv, TypeOK, Thread
  <2> QED
    BY <1>2, <2>1, <2>2 DEF DbInv, tableVars
<1>4. ASSUME NEW p \in Producers, DbAddToQueue(p) PROVE DbInv'
  <2>1. UNCHANGED <<tableVars, written>>
    BY <1>4 DEF DbAddToQueue, Producer, Enter, Push, Release
  <2>2. pc'[Owner] = pc[Owner]
    BY <1>4, PoolAssumption DEF PoolAssumption, DbAddToQueue, Producer, Enter, Push,
       Release, Waiting, DbInv, PoolInv, TypeOK, Thread
  <2> QED
    BY <1>2, <2>1, <2>2 DEF DbInv, tableVars
<1>5. CASE DbDestructor
  <2>1. UNCHANGED <<tableVars, written>> /\ table # Absent
    BY <1>5 DEF DbDestructor, OwnerIsFree, Destructor, Destroy, StopAll, Join, DbInv
  <2> QED
    BY <1>2, <2>1 DEF DbInv, tableVars
<1>6. ASSUME NEW w \in Workers, Insert(w) PROVE DbInv'
  <2>1. Head(queue) = Len(written) + 1
    BY <1>6, FrontIsNext DEF Insert, Write, DbInv
  <2>2. /\ table = kept \o Rows /\ dropped \in 0..Len(written) /\ Len(written) \in Nat
        /\ table' = Append(table, <<life, Len(written) + 1>>)
        /\ UNCHANGED <<clears, life, dropped, kept, query, dead>>
    <3>1. table # Absent /\ table' = Append(table, <<life, Head(queue)>>)
      BY <1>6 DEF Insert
    <3>2. UNCHANGED <<clears, life, dropped, kept, query, dead>>
      BY <1>6 DEF Insert
    <3>3. Len(written) \in Nat
      BY RowsType
    <3>4. table = kept \o Rows /\ dropped \in 0..Len(written)
      BY <3>1 DEF DbInv
    <3> QED
      BY <2>1, <3>1, <3>2, <3>3, <3>4
  <2>3. Len(written') = Len(written) + 1
    BY <1>6 DEF Insert, Write, DbInv, PoolInv, TypeOK
  <2>4. Rows' = Append(Rows, <<life, Len(written) + 1>>)
    <3>1. Rows' = [i \in 1..(Len(written) + 1 - dropped) |-> <<life, dropped + i>>]
      BY <2>2, <2>3 DEF Rows
    <3>2. Rows \in Seq(Row)
      BY RowsType
    <3>3. Len(Rows) = Len(written) - dropped
      BY <2>2 DEF Rows
    <3> QED
      BY <2>2, <3>1, <3>2, <3>3 DEF Rows
  <2>5. table' = kept' \o Rows'
    <3>1. DEFINE r == <<life, Len(written) + 1>>
    <3>2. Rows \in Seq(Row) /\ kept \in Seq(Row)
      BY RowsType DEF DbInv
    <3>3. r \in Row
      <4>1. Len(written') \in 0..MaxEntries
        BY <1>1, PoolAssumption DEF PoolAssumption, PoolInv, TypeOK, Order, Gone
      <4>2. Len(written) + 1 \in 1..MaxEntries
        BY <2>2, <2>3, <4>1
      <4>3. life \in 1..MaxLives
        BY DEF DbInv
      <4> QED
        BY <4>2, <4>3 DEF Row
    <3> HIDE DEF r
    <3>4. Append(kept \o Rows, r) = kept \o Append(Rows, r)
      BY <3>2, <3>3
    <3> QED
      BY <2>2, <2>4, <3>4 DEF r
  <2>6. dropped' \in 0..Len(written')
    BY <2>2, <2>3
  <2>7. table' # Absent
    <3>1. kept \o Rows \in Seq(Row) /\ <<life, Len(written) + 1>> \in Int \X Int
      BY <2>2, RowsType DEF DbInv
    <3>2. table'[Len(table')] = <<life, Len(written) + 1>> /\ Len(table') \in Nat
      BY <2>2, <3>1, AppendProperties
    <3>3. Absent[Len(Absent)] = <<0, 0>>
      BY DEF Absent
    <3> QED
      BY <2>2, <3>2, <3>3 DEF DbInv
  <2> QED
    BY <1>1, <2>2, <2>5, <2>6, <2>7 DEF DbInv
<1>7. ASSUME NEW w \in Workers, InsertThrows(w) PROVE DbInv'
  BY <1>2, <1>7 DEF InsertThrows, vars, DbInv
<1>8. CASE Drop
  <2>1. table' = Absent /\ pc' = pc /\ pc[Owner] = "idle"
    BY <1>8 DEF Drop, OwnerIsFree, vars
  <2>2. /\ dropped' = Len(written) /\ written' = written /\ Len(written) \in Nat
        /\ kept' = <<>> /\ UNCHANGED <<life, dead, query>>
    BY <1>8, RowsType DEF Drop, vars
  <2>3. clears' \in 0..MaxClears
    BY <1>8, BoundsAssumption DEF BoundsAssumption, Drop, DbInv
  <2> QED
    BY <1>1, <2>1, <2>2, <2>3, EmptySeq DEF DbInv
<1>9. CASE Create
  <2>1. /\ table' = <<>> /\ pc' = pc /\ written' = written
        /\ UNCHANGED <<clears, life, dropped, kept, query, dead>>
        /\ table = Absent /\ <<>> # Absent
    BY <1>9 DEF Create, vars, Absent
  <2>2. Len(written) \in Nat /\ dropped = Len(written) /\ kept = <<>>
    BY <2>1, RowsType DEF DbInv
  <2>3. Rows' = <<>>
    BY <2>1, <2>2 DEF Rows
  <2> QED
    BY <1>1, <2>1, <2>2, <2>3 DEF DbInv
<1>10. CASE GetData \/ Die
  <2>1. UNCHANGED <<vars, table, clears, life, dropped, kept>> /\ dead' \in BOOLEAN
    BY <1>10 DEF GetData, Begin, StepRow, Answer, Die, DbInv
  <2>2. DOMAIN query' = DOMAIN NoQuery
    <3>1. DOMAIN NoQuery = {"selects", "looked", "result", "begun"}
      BY DEF NoQuery
    <3>2. \A s, n : DOMAIN [selects |-> s, looked |-> 0, result |-> <<>>, begun |-> n]
                      = {"selects", "looked", "result", "begun"}
      OBVIOUS
    <3> QED
      BY <1>10, <3>1, <3>2 DEF GetData, Begin, StepRow, Answer, Die, DbInv
  <2> QED
    BY <1>1, <2>1, <2>2 DEF DbInv, Rows, vars
<1>11. CASE Restart
  <2>1. /\ written' = <<>> /\ dropped' = 0 /\ dead' = FALSE /\ clears' = clears /\ query' = NoQuery
        /\ kept' = table' /\ pc'[Owner] = "idle"
    BY <1>11, PoolAssumption DEF PoolAssumption, Restart, Started, Thread
  <2>2. life' \in 1..MaxLives
    BY <1>11, BoundsAssumption DEF BoundsAssumption, Restart, DbInv
  <2>3. table' \in Seq(Row)
    <3>1. table = Absent \/ table \in Seq(Row)
      BY RowsType DEF DbInv
    <3> QED
      BY <1>11, <3>1, EmptySeq DEF Restart
  <2>4. Rows' = <<>> /\ dropped' \in 0..Len(written')
    BY <2>1 DEF Rows
  <2>5. table' # Absent
    BY <2>3, TablesAreNotAbsent
  <2>6. table' = kept' \o Rows'
    BY <2>1, <2>3, <2>4, ConcatEmptySeq
  <2> QED
    BY <1>1, <2>1, <2>2, <2>3, <2>4, <2>5, <2>6 DEF DbInv
<1>12. CASE UNCHANGED dbVars
  BY <1>2, <1>12 DEF dbVars, vars, tableVars, DbInv
<1> QED
  BY <1>3, <1>4, <1>5, <1>6, <1>7, <1>8, <1>9, <1>10, <1>11, <1>12 DEF DbNext, DbDone, Clear

LEMMA SpecDbInv == DbSpec => []DbInv
<1> QED
  BY InitDbInv, NextDbInv, PTL DEF DbSpec
-----------------------------------------------------------------------------
(* The variables keep their types, over all lives of the process.          *)
THEOREM DatabaseTypes == DbSpec => []DbTypeOK
<1>1. DbInv => DbTypeOK
  <2> SUFFICES ASSUME DbInv PROVE DbTypeOK
    OBVIOUS
  <2>1. table \in Seq(Row) \cup {Absent}
    BY RowsType DEF DbInv
  <2>2. dropped \in 0..MaxEntries
    BY RowsType, PoolAssumption DEF PoolAssumption, DbInv
  <2> QED
    BY <2>1, <2>2 DEF DbInv, PoolInv, DbTypeOK
<1> QED
  BY <1>1, SpecDbInv, PTL

(* Whenever the table exists it holds what earlier lives left in it and,   *)
(* once and in order, exactly the entries written since it was last        *)
(* dropped.                                                                *)
THEOREM TableIsTheLog == DbSpec => []TableFollowsQueue
<1>1. DbInv => TableFollowsQueue
  BY DEF DbInv, TableFollowsQueue, Rows
<1> QED
  BY <1>1, SpecDbInv, PTL

(* What the destructor leaves behind lacks nothing accepted after the last *)
(* drop.                                                                   *)
THEOREM DestructorLosesNothing == DbSpec => []NothingMissingAtEnd
<1>1. DbInv => NothingMissingAtEnd
  <2> SUFFICES ASSUME DbInv, pc[Owner] = "gone", NEW n \in (dropped + 1)..accepted
               PROVE  \E i \in 1..Len(table) : table[i] = <<life, n>>
    BY DEF NothingMissingAtEnd
  <2>1. ~Popping /\ queue = <<>>
    BY PoolAssumption DEF PoolAssumption, DbInv, PoolInv, Stopping, Popping
  <2>2. Len(written) = accepted
    BY <2>1 DEF DbInv, PoolInv, TypeOK, Order, Gone
  <2>3. table = kept \o Rows /\ dropped \in 0..Len(written) /\ Len(written) \in Nat
    BY RowsType DEF DbInv
  <2>4. n - dropped \in 1..Len(Rows) /\ Rows[n - dropped] = <<life, n>>
    BY <2>2, <2>3 DEF Rows
  <2>5. kept \in Seq(Row) /\ Rows \in Seq(Row) /\ Len(kept) \in Nat /\ Len(Rows) \in Nat
    BY RowsType, LenProperties DEF DbInv
  <2>6. /\ Len(kept) + (n - dropped) \in 1..Len(table)
        /\ table[Len(kept) + (n - dropped)] = <<life, n>>
    BY <2>3, <2>4, <2>5, ConcatProperties
  <2> QED
    BY <2>6
<1> QED
  BY <1>1, SpecDbInv, PTL

(* Database implements DurableLog: clears, queries and deaths of the       *)
(* process included, its table is the rows it promises.                    *)
THEOREM DatabaseImplementsDurableLog == DbSpec => DurablePromise
<1> DEFINE rows == IF table = Absent THEN <<>> ELSE table
           inserted == Len(written)
           closed == pc[Owner] = "gone"
<1>1. DbInit => Durable!Init
  BY PoolAssumption DEF PoolAssumption, DbInit, Init, Started, Thread, Durable!Init, Absent
<1>2. DbInv /\ DbInv' /\ [DbNext]_dbVars => [Durable!Next]_(Durable!vars)
  <2> SUFFICES ASSUME DbInv, DbInv', [DbNext]_dbVars PROVE [Durable!Next]_(Durable!vars)
    OBVIOUS
  <2>1. CASE Restart
    <3>1. rows' = rows
      BY <2>1 DEF Restart, DbInv
    <3>2. life' = life + 1 /\ accepted' = 0 /\ inserted' = 0 /\ closed' = FALSE
      BY <2>1, PoolAssumption DEF PoolAssumption, Restart, Started, Thread
    <3> QED
      BY <3>1, <3>2 DEF Durable!Next, Durable!Restart
  <2>2. ASSUME NEW w \in Workers, Insert(w) PROVE Durable!Next
    <3>1. Head(queue) = inserted + 1 /\ inserted < accepted /\ ~closed
      <4>1. ~Popping /\ Head(queue) = Len(written) + 1 /\ queue # <<>>
        BY <2>2, FrontIsNext DEF Insert, Write, DbInv
      <4>2. Len(written) < accepted
        BY <4>1 DEF DbInv, PoolInv, TypeOK, Order, Gone
      <4>3. pc[Owner] # "gone"
        BY <2>2 DEF Insert, Write, DbInv, PoolInv, Stopping
      <4> QED
        BY <4>1, <4>2, <4>3
    <3>2. inserted' = inserted + 1 /\ accepted' = accepted /\ life' = life
      BY <2>2 DEF Insert, Write, DbInv, PoolInv, TypeOK
    <3>3. closed' = closed
      BY <2>2, PoolAssumption DEF PoolAssumption, Insert, Write, DbInv, PoolInv, TypeOK, Thread
    <3>4. rows' = Append(rows, <<life, inserted + 1>>)
      <4>1. table # Absent /\ table' = Append(table, <<life, inserted + 1>>)
        BY <2>2, <3>1 DEF Insert
      <4>2. table' # Absent
        <5>1. table' = Append(kept \o Rows, <<life, inserted + 1>>) /\ kept \o Rows \in Seq(Row)
          BY <4>1, RowsType DEF DbInv
        <5>2. Len(table') \in Nat /\ table'[Len(table')] = <<life, inserted + 1>>
          BY <5>1
        <5>3. Absent[Len(Absent)] = <<0, 0>>
          BY DEF Absent
        <5>4. life # 0
          BY DEF DbInv
        <5> QED
          BY <5>2, <5>3, <5>4
      <4> QED
        BY <4>1, <4>2
    <3> QED
      BY <3>1, <3>2, <3>3, <3>4 DEF Durable!Next, Durable!Insert
  <2>3. CASE Drop
    <3>1. rows' = <<>> /\ ~closed /\ UNCHANGED <<life, accepted, inserted, closed>>
      BY <2>3 DEF Drop, OwnerIsFree, vars
    <3> QED
      BY <3>1 DEF Durable!Next, Durable!Clear
  <2>4. CASE Create
    <3>1. rows' = rows /\ UNCHANGED <<life, accepted, inserted, closed>>
      BY <2>4 DEF Create, vars
    <3> QED
      BY <3>1 DEF Durable!vars
  <2>5. ASSUME [Next]_vars, UNCHANGED <<table, life, written>>
        PROVE  [Durable!Next]_(Durable!vars)
    <3>1. CASE Log!Accept
      BY <2>5, <3>1 DEF Log!Accept, Durable!Next, Durable!Accept
    <3>2. CASE Log!Close
      BY <2>5, <3>2 DEF Log!Close, Durable!Next, Durable!Close
    <3>3. CASE UNCHANGED Log!vars
      BY <2>5, <3>3 DEF Log!vars, Durable!vars
    <3>4. ~Log!Write
      <4>1. written \in Seq(1..MaxEntries)
        BY DEF DbInv, PoolInv, TypeOK
      <4>2. Append(written, Len(written) + 1) # written
        BY <4>1
      <4> QED
        BY <2>5, <4>2 DEF Log!Write
    <3> QED
      BY <2>5, <3>1, <3>2, <3>3, <3>4, PoolStepIsQueueStep DEF Log!Next, DbInv
  <2>6. CASE UNCHANGED <<table, life, written>> /\ ~Restart
    BY <2>5, <2>6, DbStepIsPoolStep
  <2>7. ASSUME NEW w \in Workers, DbWork(w) \/ InsertThrows(w)
        PROVE  UNCHANGED <<table, life, written>>
    BY <2>7 DEF DbWork, InsertThrows, Acquire, Wait, Exit, Pop, WakeSpuriously, tableVars, vars
  <2>8. ASSUME NEW p \in Producers, DbAddToQueue(p)
        PROVE  UNCHANGED <<table, life, written>>
    BY <2>8 DEF DbAddToQueue, Producer, Enter, Push, Release, tableVars
  <2>9. CASE DbDestructor \/ GetData \/ Die \/ UNCHANGED dbVars
    BY <2>6, <2>1, <2>9 DEF DbDestructor, Destructor, Destroy, StopAll, Join, GetData, Begin, StepRow, Answer,
       Die, dbVars, tableVars, vars
  <2> QED
    BY <2>1, <2>2, <2>3, <2>4, <2>6, <2>7, <2>8, <2>9 DEF DbNext, DbDone, Clear
<1> QED
  BY <1>1, <1>2, SpecDbInv, PTL DEF DbSpec, DurablePromise, Durable!Spec
-----------------------------------------------------------------------------
(* While a query is answered the table exists, and the result so far is    *)
(* what the query selects of the rows it has looked at.                    *)
QueryInv ==
    Asking =>
        /\ table # Absent
        /\ query.looked \in 0..Len(table)
        /\ query.begun \in 0..Len(table)
        /\ query.result \in Seq(Row)
        /\ Returns(query.looked)

(* The table of a query that is answered is a sequence of rows.            *)
LEMMA TableIsRows == ASSUME DbInv, table # Absent
                     PROVE  table \in Seq(Row) /\ Len(table) \in Nat
<1>1. table \in Seq(Row)
  BY RowsType DEF DbInv
<1> QED
  BY <1>1, LenProperties

(* sqlite3_step delivers the next row selected, and none has been missed.  *)
LEMMA StepRowKeepsQueryInv == DbInv /\ QueryInv /\ StepRow => QueryInv'
<1> SUFFICES ASSUME DbInv, QueryInv, StepRow PROVE QueryInv'
  OBVIOUS
<1>1. PICK k \in Selected(query.looked + 1, Len(table)) :
          /\ Selected(query.looked + 1, k - 1) = {}
          /\ query' = [query EXCEPT !.looked = k, !.result = Append(@, table[k])]
  BY DEF StepRow
<1>2. /\ table # Absent /\ table \in Seq(Row) /\ Len(table) \in Nat /\ table' = table
      /\ query.looked \in 0..Len(table) /\ query.begun \in 0..Len(table)
      /\ query.result \in Seq(Row) /\ Returns(query.looked)
  BY TableIsRows DEF QueryInv, StepRow
<1>3. /\ k \in (query.looked + 1)..Len(table) /\ k \in 1..Len(table)
      /\ table[k] \in Row /\ table[k][2] \in query.selects
  BY <1>1, <1>2, ElementOfSeq DEF Selected
<1>4. /\ query'.looked = k /\ query'.result = Append(query.result, table[k])
      /\ query'.begun = query.begun /\ query'.selects = query.selects
  <2>1. DOMAIN query = {"selects", "looked", "result", "begun"}
    BY DEF DbInv, NoQuery
  <2> QED
    BY <1>1, <2>1
<1>5. Selected(1, k)' = Selected(1, query.looked) \cup {k}
  <2>1. Selected(1, k)' = {r \in 1..k : table[r][2] \in query.selects}
    BY <1>2, <1>4 DEF Selected
  <2>2. \A r \in (query.looked + 1)..(k - 1) : table[r][2] \notin query.selects
    BY <1>1 DEF Selected
  <2> QED
    BY <1>2, <1>3, <2>1, <2>2 DEF Selected
<1>6. Returns(k)'
  <2> DEFINE n == Len(query.result)
  <2>1. PICK at \in [DOMAIN query.result -> Selected(1, query.looked)] :
          /\ \A i \in DOMAIN query.result : query.result[i] = table[at[i]]
          /\ \A i, j \in DOMAIN query.result : i < j => at[i] < at[j]
          /\ \A r \in Selected(1, query.looked) : \E i \in DOMAIN query.result : at[i] = r
    BY <1>2 DEF Returns
  <2>2. /\ n \in Nat /\ DOMAIN query.result = 1..n /\ DOMAIN query'.result = 1..(n + 1)
        /\ query'.result[n + 1] = table[k]
        /\ \A i \in 1..n : query'.result[i] = query.result[i]
    BY <1>2, <1>3, <1>4, AppendProperties
  <2> DEFINE to == [i \in 1..(n + 1) |-> IF i = n + 1 THEN k ELSE at[i]]
  <2>3. /\ to \in [DOMAIN query'.result -> Selected(1, k)'] /\ to[n + 1] = k
        /\ \A i \in 1..n : to[i] = at[i] /\ at[i] < k /\ at[i] \in Nat
    <3>1. \A i \in 1..n : at[i] \in Selected(1, query.looked)
      BY <2>1, <2>2
    <3>2. \A r \in Selected(1, query.looked) : r < k /\ r \in Nat
      BY <1>2, <1>3 DEF Selected
    <3>3. \A i \in 1..n : to[i] = at[i]
      BY <2>2
    <3>4. to[n + 1] = k
      BY <2>2
    <3>5. \A i \in 1..(n + 1) : to[i] \in Selected(1, k)'
      BY <1>5, <2>2, <3>1, <3>3, <3>4
    <3>6. to \in [1..(n + 1) -> Selected(1, k)']
      BY <3>5
    <3> QED
      BY <2>2, <3>1, <3>2, <3>3, <3>4, <3>6
  <2> HIDE DEF to
  <2>4. \A i \in DOMAIN query'.result : query'.result[i] = table'[to[i]]
    <3> SUFFICES ASSUME NEW i \in 1..(n + 1) PROVE query'.result[i] = table[to[i]]
      BY <1>2, <2>2
    <3>1. CASE i = n + 1
      BY <2>2, <2>3, <3>1
    <3>2. CASE i \in 1..n
      BY <2>1, <2>2, <2>3, <3>2
    <3> QED
      BY <2>2, <3>1, <3>2
  <2>5. \A i, j \in DOMAIN query'.result : i < j => to[i] < to[j]
    <3> SUFFICES ASSUME NEW i \in 1..(n + 1), NEW j \in 1..(n + 1), i < j
                 PROVE  to[i] < to[j]
      BY <2>2
    <3>1. i \in 1..n
      BY <2>2
    <3>2. CASE j = n + 1
      BY <2>3, <3>1, <3>2
    <3>3. CASE j \in 1..n
      <4>1. at[i] < at[j]
        BY <2>1, <2>2, <3>1, <3>3
      <4> QED
        BY <2>3, <3>1, <3>3, <4>1
    <3> QED
      BY <2>2, <3>2, <3>3
  <2>6. \A r \in Selected(1, k)' : \E i \in DOMAIN query'.result : to[i] = r
    <3> SUFFICES ASSUME NEW r \in Selected(1, k)' PROVE \E i \in 1..(n + 1) : to[i] = r
      BY <2>2
    <3>1. CASE r = k
      BY <2>2, <2>3, <3>1
    <3>2. CASE r # k
      <4>1. PICK i \in 1..n : at[i] = r
        BY <1>5, <2>1, <2>2, <3>2
      <4> QED
        BY <2>2, <2>3, <4>1
    <3> QED
      BY <3>1, <3>2
  <2> QED
    BY <2>3, <2>4, <2>5, <2>6 DEF Returns
<1>7. query'.looked \in 0..Len(table') /\ query'.begun \in 0..Len(table') /\ table' # Absent
  BY <1>2, <1>3, <1>4
<1>8. query'.result \in Seq(Row)
  BY <1>2, <1>3, <1>4, AppendProperties
<1>9. Returns(query.looked)'
  BY <1>4, <1>6
<1> QED
  BY <1>7, <1>8, <1>9 DEF QueryInv

(* A worker appends to the table and leaves the rows looked at as they are. *)
LEMMA InsertKeepsQueryInv == ASSUME DbInv, DbInv', QueryInv, NEW w \in Workers, Insert(w)
                             PROVE  QueryInv'
<1> SUFFICES ASSUME Asking' PROVE QueryInv'
  BY DEF QueryInv
<1>1. query' = query /\ Asking
  BY DEF Insert, Asking
<1>2. /\ table # Absent /\ table \in Seq(Row) /\ Len(table) \in Nat
      /\ query.looked \in 0..Len(table) /\ query.begun \in 0..Len(table)
      /\ query.result \in Seq(Row) /\ Returns(query.looked)
  BY <1>1, TableIsRows DEF QueryInv
<1>3. Head(queue) \in 1..MaxEntries
  BY DEF Insert, Write, DbInv, PoolInv, TypeOK
<1>4. <<life, Head(queue)>> \in Row
  BY <1>3 DEF DbInv, Row
<1>5. /\ table' \in Seq(Row) /\ Len(table') = Len(table) + 1
      /\ \A r \in 1..Len(table) : table'[r] = table[r]
  BY <1>2, <1>4, AppendProperties DEF Insert
<1>6. Selected(1, query.looked)' = Selected(1, query.looked)
  BY <1>1, <1>2, <1>5 DEF Selected
<1>7. Returns(query.looked)'
  <2>1. \A r \in Selected(1, query.looked) : table'[r] = table[r]
    BY <1>2, <1>5 DEF Selected
  <2>2. PICK at \in [DOMAIN query.result -> Selected(1, query.looked)] :
          /\ \A i \in DOMAIN query.result : query.result[i] = table[at[i]]
          /\ \A i, j \in DOMAIN query.result : i < j => at[i] < at[j]
          /\ \A r \in Selected(1, query.looked) : \E i \in DOMAIN query.result : at[i] = r
    BY <1>2 DEF Returns
  <2>3. \A i \in DOMAIN query.result : query.result[i] = table'[at[i]]
    BY <2>1, <2>2
  <2> QED
    BY <1>1, <1>6, <2>2, <2>3 DEF Returns
<1>8. table' # Absent
  BY <1>5, TablesAreNotAbsent
<1> QED
  BY <1>1, <1>2, <1>5, <1>7, <1>8 DEF QueryInv

LEMMA NextQueryInv == DbInv /\ DbInv' /\ QueryInv /\ [DbNext]_dbVars => QueryInv'
<1> SUFFICES ASSUME DbInv, DbInv', QueryInv, [DbNext]_dbVars PROVE QueryInv'
  OBVIOUS
<1>1. ASSUME UNCHANGED <<table, query>> PROVE QueryInv'
  BY <1>1 DEF QueryInv, Asking, Returns, Selected
<1>2. ASSUME NEW w \in Workers, DbWork(w) \/ InsertThrows(w) PROVE QueryInv'
  BY <1>1, <1>2 DEF DbWork, InsertThrows, tableVars
<1>3. ASSUME NEW p \in Producers, DbAddToQueue(p) PROVE QueryInv'
  BY <1>1, <1>3 DEF DbAddToQueue, tableVars
<1>4. CASE DbDestructor \/ Die \/ UNCHANGED dbVars
  BY <1>1, <1>4 DEF DbDestructor, Die, tableVars, dbVars
<1>5. CASE Drop \/ Answer \/ Restart
  <2>1. query' = NoQuery
    BY <1>5 DEF Drop, OwnerIsFree, Answer, Restart
  <2>2. ~Asking'
    BY <2>1 DEF Asking, NoQuery
  <2> QED
    BY <2>2 DEF QueryInv
<1>6. CASE Create
  <2>1. ~Asking /\ query' = query
    BY <1>6 DEF Create, QueryInv
  <2> QED
    BY <2>1 DEF Asking, QueryInv
<1>7. ASSUME NEW call \in Calls, Begin(call) PROVE QueryInv'
  <2>1. /\ query'.looked = 0 /\ query'.result = <<>> /\ query'.begun = Len(table)
        /\ table' = table /\ table # Absent
    BY <1>7 DEF Begin, OwnerIsFree
  <2>2. Selected(1, 0)' = {}
    BY DEF Selected
  <2>3. Returns(0)'
    <3>1. DOMAIN query'.result = {}
      BY <2>1
    <3>2. [i \in {} |-> i] \in [DOMAIN query'.result -> Selected(1, 0)']
      BY <3>1
    <3> QED
      BY <2>2, <3>1, <3>2 DEF Returns
  <2>4. Len(table) \in Nat
    BY <2>1, TableIsRows
  <2> QED
    BY <2>1, <2>3, <2>4, EmptySeq DEF QueryInv
<1> QED
  BY <1>2, <1>3, <1>4, <1>5, <1>6, <1>7, StepRowKeepsQueryInv, InsertKeepsQueryInv
     DEF DbNext, DbDone, Clear, GetData

(* When no row is left the result is the answer as of the last row looked  *)
(* at, or of the begin of the query if that is later: the rows in between  *)
(* are none the query selects.  So an answer is the table at one time,     *)
(* whatever the workers insert meanwhile.                                  *)
THEOREM AnswersAreOfOneMoment == DbSpec => AnswersAreConsistent
<1>1. DbInv /\ QueryInv /\ Answer => \E k \in query.begun..Len(table) : Returns(k)
  <2> SUFFICES ASSUME DbInv, QueryInv, Answer
               PROVE  \E k \in query.begun..Len(table) : Returns(k)
    OBVIOUS
  <2>1. /\ Len(table) \in Nat
        /\ query.looked \in 0..Len(table) /\ query.begun \in 0..Len(table)
        /\ Returns(query.looked)
    BY TableIsRows DEF Answer, QueryInv
  <2>2. CASE query.begun <= query.looked
    BY <2>1, <2>2
  <2>3. CASE query.begun > query.looked
    <3>1. \A r \in (query.looked + 1)..query.begun : table[r][2] \notin query.selects
      BY DEF Answer, Selected
    <3>2. Selected(1, query.begun) = Selected(1, query.looked)
      BY <2>1, <2>3, <3>1 DEF Selected
    <3>3. Returns(query.begun)
      BY <2>1, <3>2 DEF Returns
    <3> QED
      BY <2>1, <3>3
  <2> QED
    BY <2>1, <2>2, <2>3
<1>2. DbInit => QueryInv
  BY DEF DbInit, QueryInv, Asking, NoQuery
<1> QED
  BY <1>1, <1>2, NextQueryInv, SpecDbInv, PTL DEF DbSpec, AnswersAreConsistent
=============================================================================
