-------------------------------- MODULE LogQueue --------------------------------
(***************************************************************************)
(* What Logger and Database promise to whoever calls add_to_queue, however *)
(* many worker threads there are: entries are numbered in the order in     *)
(* which they were accepted, each is written once and in that order, and   *)
(* the destructor returns only when nothing accepted is left unwritten.    *)
(***************************************************************************)
EXTENDS Integers, Sequences

VARIABLES accepted,  \* number of entries accepted so far
          written,   \* the entries written so far, in order
          closed     \* whether the destructor has returned

vars == <<accepted, written, closed>>

Init == accepted = 0 /\ written = <<>> /\ closed = FALSE

Accept == /\ ~closed
          /\ accepted' = accepted + 1
          /\ UNCHANGED <<written, closed>>

Write == /\ ~closed /\ Len(written) < accepted
         /\ written' = Append(written, Len(written) + 1)
         /\ UNCHANGED <<accepted, closed>>

Close == /\ ~closed /\ Len(written) = accepted
         /\ closed' = TRUE
         /\ UNCHANGED <<accepted, written>>

Next == Accept \/ Write \/ Close

Spec == Init /\ [][Next]_vars
=============================================================================
