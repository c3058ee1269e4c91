-------------------------------- MODULE Database --------------------------------
(***************************************************************************)
(* Database: the pool of LogPool whose workers insert rows into the table  *)
(* logs, the queries that read it and clear_database, which drops and      *)
(* recreates it, both called by the thread that owns the database without  *)
(* taking the mutex of the pool, as in Database_example.cpp, and the file, *)
(* which outlives the process.                                             *)
(*                                                                         *)
(* One sqlite3 call is one step: the library serialises the calls on a     *)
(* connection.  insert prepares and steps a statement; both fail when the  *)
(* table is missing, so that one step for the two has all their outcomes.  *)
(* A row is the pair of the life of the process that inserted it and its   *)
(* entry; what a WHERE clause tells rows apart by is a set of entries.     *)
(***************************************************************************)
EXTENDS LogPool

CONSTANTS MaxClears,   \* bound: calls of clear_database
          MaxLives     \* bound: starts of the process

ASSUME BoundsAssumption == MaxClears \in Nat /\ MaxLives \in Nat \ {0}

VARIABLES table,     \* the rows of logs, or Absent between DROP and CREATE
          dead,      \* the process has ended otherwise than by the destructor
          clears,    \* calls of clear_database begun
          life,      \* the number of this life of the process
          dropped,   \* history: entries of this life written when the last of them
                     \* dropped the table
          kept,      \* history: the rows of earlier lives that were not dropped
          query      \* the query being answered: its selection, the rows looked at
                     \* and delivered, and, as history, the rows there at its begin

tableVars == <<table, dead, clears, life, dropped, kept, query>>
dbVars == <<vars, tableVars>>

Absent  == <<<<0, 0>>>>   \* no row is of a life 0
NoQuery == [selects |-> {}, looked |-> -1, result |-> <<>>, begun |-> 0]

-----------------------------------------------------------------------------
InsertNext(w) ==
    /\ Write(w) /\ table # Absent
    /\ table' = Append(table, <<life, Head(queue) + 1>>)
    /\ UNCHANGED <<dead, clears, life, dropped, kept, query>>

InsertTwice(w) ==
    /\ Write(w) /\ table # Absent
    /\ table' = table \o <<<<life, Head(queue)>>, <<life, Head(queue)>>>>
    /\ UNCHANGED <<dead, clears, life, dropped, kept, query>>

(* work with insert: the row goes into the table under the lock.           *)
Insert(w) ==
    /\ Write(w) /\ table # Absent
    /\ table' = Append(table, <<life, Head(queue)>>)
    /\ UNCHANGED <<dead, clears, life, dropped, kept, query>>

(* insert throws, always without a table and otherwise when SQLite fails;  *)
(* nothing in work catches it: std::terminate.                             *)
InsertThrows(w) ==
    /\ pc[w] = "check" /\ queue # <<>>
    /\ dead' = TRUE
    /\ UNCHANGED <<vars, table, clears, life, dropped, kept, query>>

(* The rest of work, add_to_queue and ~Database are the pool's.            *)
DbWork(w) ==
    /\ Acquire(w) \/ Wait(w) \/ Exit(w) \/ Pop(w) \/ WakeSpuriously(w)
    /\ UNCHANGED tableVars

DbAddToQueue(p) == Producer(p) /\ UNCHANGED tableVars

(* The thread that owns the database is in none of its calls.              *)
OwnerIsFree == pc[Owner] = "idle" /\ table # Absent /\ query = NoQuery

(* It destroys the database when it is done with it.                       *)
DbDestructor ==
    /\ pc[Owner] = "idle" => OwnerIsFree
    /\ Destructor
    /\ UNCHANGED tableVars

-----------------------------------------------------------------------------
(* clear_database: DROP TABLE, and create_table a call later.              *)
Drop ==
    /\ OwnerIsFree /\ clears < MaxClears
    /\ table' = Absent
    /\ clears' = clears + 1
    /\ dropped' = Len(written) /\ kept' = <<>>
    /\ UNCHANGED <<vars, dead, life, query>>

Create ==
    /\ table = Absent
    /\ table' = <<>>
    /\ UNCHANGED <<vars, dead, clears, life, dropped, kept, query>>

(* The queries.  query_all selects every row, and query_date with a time   *)
(* none: of the two placeholders one is bound, and a comparison with NULL  *)
(* is not true.  The others select by what their parameter says.           *)
Selects(call) == CASE call = "query_all"            -> {1..MaxEntries}
                   [] call = "query_date with time" -> {{}}
                   [] OTHER                         -> SUBSET (1..MaxEntries)

Calls == {"query_all", "query_date", "query_date with time", "query_IP",
          "query_log_level", "query_message"}

Begin(call) ==
    /\ OwnerIsFree
    /\ \E entries \in Selects(call) :
          query' = [selects |-> entries, looked |-> 0, result |-> <<>>, begun |-> Len(table)]
    /\ UNCHANGED <<vars, table, dead, clears, life, dropped, kept>>

Asking == query.looked >= 0

(* The rows from i to j that the query selects.                            *)
Selected(i, j) == {k \in i..j : table[k][2] \in query.selects}

StepRowTwice ==
    /\ Asking
    /\ \E k \in Selected(query.looked + 1, Len(table)) :
          query' = [query EXCEPT !.looked = k, !.result = Append(@, table[k])]
    /\ UNCHANGED <<vars, table, dead, clears, life, dropped, kept>>

(* sqlite3_step goes on to the next row selected, and sees rows inserted   *)
(* since the query began.                                                  *)
StepRow ==
    /\ Asking
    /\ \E k \in Selected(query.looked + 1, Len(table)) :
          /\ Selected(query.looked + 1, k - 1) = {}
          /\ query' = [query EXCEPT !.looked = k, !.result = Append(@, table[k])]
    /\ UNCHANGED <<vars, table, dead, clears, life, dropped, kept>>

(* It finds no row, and get_data returns what it has: all rows there were  *)
(* when it began, and of those inserted since, on the same connection, as  *)
(* many as SQLite may choose to show.                                      *)
Answer ==
    /\ Asking /\ Selected(query.looked + 1, query.begun) = {}
    /\ query' = NoQuery
    /\ UNCHANGED <<vars, table, dead, clears, life, dropped, kept>>

-----------------------------------------------------------------------------
(* The process is killed, or ends with its threads at work.                *)
Die == /\ dead' = TRUE
       /\ UNCHANGED <<vars, table, clears, life, dropped, kept, query>>

RestartCleared ==
    /\ dead \/ pc[Owner] = "gone"
    /\ life < MaxLives /\ life' = life + 1
    /\ pc' = Started /\ queue' = <<>> /\ stop' = FALSE /\ accepted' = 0 /\ written' = <<>>
    /\ table' = <<>>
    /\ kept' = table' /\ dropped' = 0
    /\ dead' = FALSE /\ query' = NoQuery
    /\ UNCHANGED clears

(* The constructors: CREATE TABLE IF NOT EXISTS finds the rows of earlier  *)
(* lives, or no table if the last one died in clear_database.              *)
Restart ==
    /\ dead \/ pc[Owner] = "gone"
    /\ life < MaxLives /\ life' = life + 1
    /\ pc' = Started /\ queue' = <<>> /\ stop' = FALSE /\ accepted' = 0 /\ written' = <<>>
    /\ table' = IF table = Absent THEN <<>> ELSE table
    /\ kept' = table' /\ dropped' = 0
    /\ dead' = FALSE /\ query' = NoQuery
    /\ UNCHANGED clears

-----------------------------------------------------------------------------
DbInit ==
    /\ Init
    /\ table = <<>>
    /\ dead = FALSE
    /\ clears = 0 /\ dropped = 0
    /\ life = 1 /\ kept = <<>>
    /\ query = NoQuery

DbDone == (dead \/ pc[Owner] = "gone") /\ UNCHANGED dbVars

Clear == Drop \/ Create
GetData == (\E call \in Calls : Begin(call)) \/ StepRow \/ Answer

DbNext == \/ /\ ~dead
             /\ \/ \E w \in Workers : DbWork(w) \/ Insert(w) \/ InsertThrows(w)
                \/ \E p \in Producers : DbAddToQueue(p)
                \/ DbDestructor \/ Clear \/ GetData \/ Die
          \/ Restart
          \/ DbDone

DbSpec == DbInit /\ [][DbNext]_dbVars

(* As for the pool; a call of clear_database or of a query that was begun  *)
(* goes on.                                                                *)
DbFairness ==
    /\ \A w \in Workers :
          /\ SF_dbVars(~dead /\ Acquire(w) /\ UNCHANGED tableVars)
          /\ WF_dbVars(/\ ~dead
                       /\ \/ (Wait(w) \/ Exit(w) \/ Pop(w)) /\ UNCHANGED tableVars
                          \/ Insert(w) \/ InsertThrows(w))
    /\ \A p \in Producers : WF_dbVars(~dead /\ Push(p) /\ UNCHANGED tableVars)
    /\ WF_dbVars(~dead /\ (StopAll \/ Join) /\ UNCHANGED tableVars)
    /\ WF_dbVars(~dead /\ (Create \/ StepRow \/ Answer))

DbFairSpec == DbSpec /\ DbFairness
-----------------------------------------------------------------------------
(* Properties.                                                             *)

Row == (1..MaxLives) \X (1..MaxEntries)

DbTypeOK ==
    /\ TypeOK
    /\ table \in Seq(Row) \cup {Absent}
    /\ dead \in BOOLEAN
    /\ clears \in 0..MaxClears
    /\ life \in 1..MaxLives
    /\ dropped \in 0..MaxEntries
    /\ kept \in Seq(Row)
    /\ DOMAIN query = DOMAIN NoQuery

(* The table holds what earlier lives left in it and every entry written   *)
(* since it was last dropped, once and in the order of the calls of        *)
(* add_to_queue, although two workers insert, clear_database takes no lock *)
(* and a process may die at any point (work, insert, clear_database, the   *)
(* constructors).                                                          *)
TableFollowsQueue ==
    table # Absent =>
        table = kept \o [i \in 1..(Len(written) - dropped) |-> <<life, dropped + i>>]

(* The destructor closes a database that lacks nothing accepted after the  *)
(* table was last dropped (~Database).                                     *)
NothingMissingAtEnd ==
    pc[Owner] = "gone" =>
        \A n \in (dropped + 1)..accepted : \E i \in 1..Len(table) : table[i] = <<life, n>>

(* Entries are inserted in order and once, a row stays until a clear, and  *)
(* a process that dies loses what it had queued and nothing else (insert,  *)
(* clear_database, the constructors and ~Database together).               *)
Durable == INSTANCE DurableLog WITH
    inserted <- Len(written),
    rows     <- IF table = Absent THEN <<>> ELSE table,
    closed   <- pc[Owner] = "gone"
DurablePromise == Durable!Spec

(* The result is the rows up to k that the query selects: the place in the *)
(* table of each row delivered goes up, and no row selected is passed by.  *)
Returns(k) ==
    \E at \in [DOMAIN query.result -> Selected(1, k)] :
        /\ \A i \in DOMAIN query.result : query.result[i] = table[at[i]]
        /\ \A i, j \in DOMAIN query.result : i < j => at[i] < at[j]
        /\ \A r \in Selected(1, k) : \E i \in DOMAIN query.result : at[i] = r

(* The answer to a query is what it selects of the rows that were there at *)
(* one time between its begin and its end, in their order, although        *)
(* workers insert in between (get_data).                                   *)
AnswersAreConsistent ==
    [][Answer => \E k \in query.begun..Len(table) : Returns(k)]_dbVars

(* Every entry accepted is inserted at some time, unless the process ends  *)
(* before its destructor.                                                  *)
EntriesAreInserted ==
    \A n \in 1..MaxEntries : accepted >= n ~> dead \/ Len(written) >= n

=============================================================================
