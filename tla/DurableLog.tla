------------------------------- MODULE DurableLog -------------------------------
(***************************************************************************)
(* What Database promises over several lives of its process: entries are   *)
(* numbered in the order in which a life accepted them, their rows appear  *)
(* once each and in that order, a row that is in the table stays until the *)
(* table is cleared, the end of a life costs the entries it had accepted   *)
(* and not inserted and nothing else, and a destructor costs none.         *)
(***************************************************************************)
EXTENDS Integers, Sequences

VARIABLES life,      \* the number of this life of the process
          accepted,  \* entries accepted in this life
          inserted,  \* entries of this life that were inserted
          rows,      \* the rows of the table: pairs of a life and an entry
          closed     \* whether this life's destructor has returned

vars == <<life, accepted, inserted, rows, closed>>

Init == life = 1 /\ accepted = 0 /\ inserted = 0 /\ rows = <<>> /\ closed = FALSE

Accept == /\ ~closed
          /\ accepted' = accepted + 1
          /\ UNCHANGED <<life, inserted, rows, closed>>

Insert == /\ ~closed /\ inserted < accepted
          /\ inserted' = inserted + 1
          /\ rows' = Append(rows, <<life, inserted + 1>>)
          /\ UNCHANGED <<life, accepted, closed>>

Clear == /\ ~closed
         /\ rows' = <<>>
         /\ UNCHANGED <<life, accepted, inserted, closed>>

Close == /\ ~closed /\ inserted = accepted
         /\ closed' = TRUE
         /\ UNCHANGED <<life, accepted, inserted, rows>>

Restart == /\ life' = life + 1
           /\ accepted' = 0 /\ inserted' = 0 /\ closed' = FALSE
           /\ UNCHANGED rows

Next == Accept \/ Insert \/ Clear \/ Close \/ Restart

Spec == Init /\ [][Next]_vars
=============================================================================
