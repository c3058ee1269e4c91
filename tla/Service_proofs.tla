----------------------------- MODULE Service_proofs -----------------------------
(***************************************************************************)
(* Proofs about Service: both threads report through one variable and      *)
(* close one log file, and yet the last word is STOPPED and the closed log *)
(* tells of the stop.                                                      *)
(*                                                                         *)
(* The inductive invariant has three parts.  Order: what each thread's     *)
(* place says of the other's, since STOP comes only to a service that has  *)
(* reported RUNNING.  Words: which state is in service_status and which    *)
(* one was heard, by the places of the two.  LogLines: a thread that is    *)
(* about to close the log has its line in it.                              *)
(***************************************************************************)
EXTENDS Service, TLAPS

(* service_main has not reported RUNNING yet.                              *)
Unheard == {"start", "setRunning", "tellRunning"}

Order ==
    /\ svc \in Unheard => ctl = "idle" /\ scm = "START_PENDING"
    /\ svc = "start" => ~registered
    /\ ~registered => svc \in {"start", "ended"} /\ ctl = "idle" /\ scm = "START_PENDING"

(* service_main is behind its last Put, the control handler has not come   *)
(* to its first, or is behind its last.                                    *)
Words ==
    registered =>
        /\ svc \in {"tellStopped", "logStopped", "close", "ended"} /\ ctl \in {"idle", "sent"}
              => cell = "STOPPED"
        /\ svc \in {"logStopped", "close", "ended"} /\ ctl = "idle" => scm = "STOPPED"
        /\ ctl \in {"tellStopped", "done"} => cell = "STOPPED"
        /\ ctl = "done" => scm = "STOPPED"

LogLines ==
    registered =>
        /\ ~fileOpen => "stopped" \in lines
        /\ svc = "close" => "stopped" \in lines
        /\ ctl = "close" => "stopped" \in lines

ServiceInv == TypeOK /\ Order /\ Words /\ LogLines

-----------------------------------------------------------------------------
LEMMA InitServiceInv == Init => ServiceInv
  BY DEF Init, ServiceInv, TypeOK, Order, Words, LogLines, Unheard, ServiceAt, ControlAt,
         Status, Line

(* A step of one thread leaves the place of the other alone.               *)
LEMMA NextServiceInv == ServiceInv /\ [Next]_vars => ServiceInv'
<1> SUFFICES ASSUME ServiceInv, [Next]_vars PROVE ServiceInv'
  OBVIOUS
<1> USE DEF ServiceInv, TypeOK, Order, Words, LogLines, Unheard, ServiceAt, ControlAt,
            Status, Line, ServiceStep, ControlStep, Put, Tell, Log
<1>1. CASE StartFails
  BY <1>1 DEF StartFails
<1>2. CASE Starting
  <2>1. CASE Register
    BY <2>1 DEF Register
  <2>2. CASE SetRunning
    BY <2>2 DEF SetRunning
  <2>3. CASE TellRunning
    BY <2>3 DEF TellRunning
  <2>4. CASE Configure
    BY <2>4 DEF Configure
  <2>5. CASE CreateServer
    BY <2>5 DEF CreateServer
  <2> QED
    BY <1>2, <2>1, <2>2, <2>3, <2>4, <2>5 DEF Starting
<1>3. CASE RunThrows
  BY <1>3 DEF RunThrows
<1>4. CASE Ending
  <2>1. CASE CatchStops
    BY <2>1 DEF CatchStops
  <2>2. CASE LogException
    BY <2>2 DEF LogException
  <2>3. CASE SetStopped
    BY <2>3 DEF SetStopped
  <2>4. CASE TellStopped
    BY <2>4 DEF TellStopped
  <2>5. CASE LogStopped
    BY <2>5 DEF LogStopped
  <2>6. CASE CloseLog
    BY <2>6 DEF CloseLog
  <2> QED
    BY <1>4, <2>1, <2>2, <2>3, <2>4, <2>5, <2>6 DEF Ending
<1>5. CASE Control
  <2>1. CASE CtrlSetPending
    BY <2>1 DEF CtrlSetPending
  <2>2. CASE CtrlTellPending
    BY <2>2 DEF CtrlTellPending
  <2>3. CASE CtrlStops
    BY <2>3 DEF CtrlStops
  <2>4. CASE CtrlLogStopped
    BY <2>4 DEF CtrlLogStopped
  <2>5. CASE CtrlCloseLog
    BY <2>5 DEF CtrlCloseLog
  <2>6. CASE CtrlSetStopped
    BY <2>6 DEF CtrlSetStopped
  <2>7. CASE CtrlTellStopped
    BY <2>7 DEF CtrlTellStopped
  <2> QED
    BY <1>5, <2>1, <2>2, <2>3, <2>4, <2>5, <2>6, <2>7 DEF Control
<1>6. CASE SendStop
  BY <1>6 DEF SendStop
<1>7. CASE Exit
  BY <1>7 DEF Exit
<1>8. CASE UNCHANGED vars
  BY <1>8 DEF vars
<1> QED
  BY <1>1, <1>2, <1>3, <1>4, <1>5, <1>6, <1>7, <1>8 DEF Next

LEMMA SpecServiceInv == Spec => []ServiceInv
  BY InitServiceInv, NextServiceInv, PTL DEF Spec

-----------------------------------------------------------------------------
(* What main.cpp shares between its threads keeps its types.               *)
THEOREM ServiceTypes == Spec => []TypeOK
<1>1. ServiceInv => TypeOK
  BY DEF ServiceInv
<1> QED
  BY <1>1, SpecServiceInv, PTL

(* When both threads are through, the manager has heard STOPPED last: the  *)
(* control handler puts STOPPED after its STOP_PENDING, and after RUNNING  *)
(* service_main puts nothing else (report_service_status).                 *)
THEOREM LastWordIsStopped == Spec => []QuietMeansStopped
<1>1. ServiceInv => QuietMeansStopped
  BY DEF ServiceInv, Words, QuietMeansStopped
<1> QED
  BY <1>1, SpecServiceInv, PTL

(* Each thread writes its line before it closes the file, so that the      *)
(* other can close it in between and lose only a second copy of the line   *)
(* (service_main, service_ctrl_handler).                                   *)
THEOREM ClosedLogTellsTheStop == Spec => []ClosedLogIsComplete
<1>1. ServiceInv => ClosedLogIsComplete
  BY DEF ServiceInv, LogLines, ClosedLogIsComplete
<1> QED
  BY <1>1, SpecServiceInv, PTL
=============================================================================
