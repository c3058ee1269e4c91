--------------------------------- MODULE Service ---------------------------------
(***************************************************************************)
(* main.cpp: the Windows service around the proxy.                         *)
(*                                                                         *)
(* service_main runs on a thread of its own; the thread of main is inside  *)
(* StartServiceCtrlDispatcher, runs service_ctrl_handler there and returns *)
(* from main once the service control manager has heard STOPPED.  The two  *)
(* share server, log_file and service_status without a lock, so that a     *)
(* report is two steps: the state is put into service_status, and what is  *)
(* found there is sent.  A statement on log_file is one step.              *)
(***************************************************************************)
EXTENDS Integers

ServiceAt == {"start", "setRunning", "tellRunning", "configure", "create", "run", "catch",
              "logException", "setStopped", "tellStopped", "logStopped", "close", "ended"}
ControlAt == {"idle", "sent", "tellPending", "stop", "logStopped", "close",
              "setStopped", "tellStopped", "done"}
Status    == {"START_PENDING", "RUNNING", "STOP_PENDING", "STOPPED"}
Line      == {"started", "exception", "stopped"}

VARIABLES
    svc,         \* where service_main is
    ctl,         \* where service_ctrl_handler is; "sent": the control is on its way
    registered,  \* handle_status is a handle, without which no report arrives
    cell,        \* service_status.dwCurrentState
    scm,         \* what the service control manager heard last
    server,      \* the global pointer: "null", an object that is "up", or an "orphan"
                 \* whose io_context has been destroyed
    fileOpen,    \* log_file.is_open()
    lines,       \* the lines in the log file
    process      \* "up", "exited" or "crashed"

vars == <<svc, ctl, registered, cell, scm, server, fileOpen, lines, process>>

-----------------------------------------------------------------------------
PutSwapped(state) == cell' = "NO_ERROR"

(* report_service_status in its two steps.                                 *)
Put(state) == cell' = state
Tell == scm' = IF registered THEN cell ELSE scm

(* A line reaches the file while it is open and is lost otherwise.         *)
Log(line) == lines' = IF fileOpen THEN lines \cup {line} ELSE lines

(* server->stop(): through a null pointer it ends the process; on an       *)
(* orphan it uses a destroyed io_context and may do so.                    *)
StopCrashes == server # "up"
StopEnds    == server # "null"

-----------------------------------------------------------------------------
(* service_main.                                                           *)
ServiceStep(from, to) == process = "up" /\ svc = from /\ svc' = to

(* Without a log file or a handle it reports STOPPED to nobody.            *)
StartFails ==
    /\ ServiceStep("start", "ended")
    /\ Put("STOPPED")
    /\ UNCHANGED <<ctl, registered, scm, server, fileOpen, lines, process>>

Register ==
    /\ ServiceStep("start", "setRunning") /\ fileOpen
    /\ registered' = TRUE
    /\ UNCHANGED <<ctl, cell, scm, server, fileOpen, lines, process>>

SetRunning ==
    /\ ServiceStep("setRunning", "tellRunning")
    /\ Put("RUNNING")
    /\ UNCHANGED <<ctl, registered, scm, server, fileOpen, lines, process>>

TellRunning ==
    /\ ServiceStep("tellRunning", "configure")
    /\ Tell
    /\ UNCHANGED <<ctl, registered, cell, server, fileOpen, lines, process>>

(* The configuration is loaded and logger and database are made.           *)
Configure ==
    /\ ServiceStep("configure", "create") \/ ServiceStep("configure", "catch")
    /\ Log("started")
    /\ UNCHANGED <<ctl, registered, cell, scm, server, fileOpen, process>>

CreateServer ==
    /\ \/ ServiceStep("create", "run") /\ server' = "up"
       \/ ServiceStep("create", "catch") /\ UNCHANGED server
    /\ UNCHANGED <<ctl, registered, cell, scm, fileOpen, lines, process>>

(* io_context.run() ends only by an exception, which destroys io_context   *)
(* before the handler of it runs.                                          *)
RunThrows ==
    /\ ServiceStep("run", "catch")
    /\ server' = "orphan"
    /\ UNCHANGED <<ctl, registered, cell, scm, fileOpen, lines, process>>

CatchStops ==
    /\ \/ StopEnds /\ ServiceStep("catch", "logException") /\ UNCHANGED process
       \/ /\ StopCrashes /\ process = "up" /\ svc = "catch"
          /\ process' = "crashed" /\ UNCHANGED svc
    /\ UNCHANGED <<ctl, registered, cell, scm, server, fileOpen, lines>>

LogException ==
    /\ ServiceStep("logException", "setStopped")
    /\ Log("exception")
    /\ UNCHANGED <<ctl, registered, cell, scm, server, fileOpen, process>>

SetStopped ==
    /\ ServiceStep("setStopped", "tellStopped")
    /\ Put("STOPPED")
    /\ UNCHANGED <<ctl, registered, scm, server, fileOpen, lines, process>>

TellStopped ==
    /\ ServiceStep("tellStopped", "logStopped")
    /\ Tell
    /\ UNCHANGED <<ctl, registered, cell, server, fileOpen, lines, process>>

LogStopped ==
    /\ ServiceStep("logStopped", "close")
    /\ Log("stopped")
    /\ UNCHANGED <<ctl, registered, cell, scm, server, fileOpen, process>>

CloseLog ==
    /\ ServiceStep("close", "ended")
    /\ fileOpen' = FALSE
    /\ UNCHANGED <<ctl, registered, cell, scm, server, lines, process>>

-----------------------------------------------------------------------------
(* service_ctrl_handler.                                                   *)
ControlStep(from, to) == process = "up" /\ ctl = from /\ ctl' = to

CtrlSetPending ==
    /\ ControlStep("sent", "tellPending")
    /\ Put("STOP_PENDING")
    /\ UNCHANGED <<svc, registered, scm, server, fileOpen, lines, process>>

CtrlTellPending ==
    /\ ControlStep("tellPending", "stop")
    /\ Tell
    /\ UNCHANGED <<svc, registered, cell, server, fileOpen, lines, process>>

CtrlJoins ==
    /\ \/ StopEnds /\ svc = "ended" /\ ControlStep("stop", "logStopped") /\ UNCHANGED process
       \/ /\ StopCrashes /\ process = "up" /\ ctl = "stop"
          /\ process' = "crashed" /\ UNCHANGED ctl
    /\ UNCHANGED <<svc, registered, cell, scm, server, fileOpen, lines>>

CtrlStops ==
    /\ \/ StopEnds /\ ControlStep("stop", "logStopped") /\ UNCHANGED process
       \/ /\ StopCrashes /\ process = "up" /\ ctl = "stop"
          /\ process' = "crashed" /\ UNCHANGED ctl
    /\ UNCHANGED <<svc, registered, cell, scm, server, fileOpen, lines>>

CtrlForgetsToLog ==
    /\ ControlStep("logStopped", "close")
    /\ UNCHANGED <<svc, registered, cell, scm, server, fileOpen, lines, process>>

CtrlLogStopped ==
    /\ ControlStep("logStopped", "close")
    /\ Log("stopped")
    /\ UNCHANGED <<svc, registered, cell, scm, server, fileOpen, process>>

CtrlCloseLog ==
    /\ ControlStep("close", "setStopped")
    /\ fileOpen' = FALSE
    /\ UNCHANGED <<svc, registered, cell, scm, server, lines, process>>

CtrlSetsNothing ==
    /\ ControlStep("setStopped", "tellStopped")
    /\ UNCHANGED <<svc, registered, cell, scm, server, fileOpen, lines, process>>

CtrlSetStopped ==
    /\ ControlStep("setStopped", "tellStopped")
    /\ Put("STOPPED")
    /\ UNCHANGED <<svc, registered, scm, server, fileOpen, lines, process>>

CtrlTellStopped ==
    /\ ControlStep("tellStopped", "done")
    /\ Tell
    /\ UNCHANGED <<svc, registered, cell, server, fileOpen, lines, process>>

-----------------------------------------------------------------------------
(* The service control manager sends STOP to a service that runs, and lets *)
(* main return, and with it the process, after STOPPED.                    *)
SendStop ==
    /\ process = "up" /\ ctl = "idle" /\ scm = "RUNNING"
    /\ ctl' = "sent"
    /\ UNCHANGED <<svc, registered, cell, scm, server, fileOpen, lines, process>>

Exit ==
    /\ process = "up" /\ scm = "STOPPED" /\ ctl \in {"idle", "sent", "done"}
    /\ process' = "exited"
    /\ UNCHANGED <<svc, ctl, registered, cell, scm, server, fileOpen, lines>>

Init ==
    /\ svc = "start" /\ ctl = "idle"
    /\ registered = FALSE
    /\ cell = "START_PENDING" /\ scm = "START_PENDING"
    /\ server = "null"
    /\ fileOpen \in BOOLEAN
    /\ lines = {}
    /\ process = "up"

Starting == Register \/ SetRunning \/ TellRunning \/ Configure \/ CreateServer
Ending   == CatchStops \/ LogException \/ SetStopped \/ TellStopped \/ LogStopped \/ CloseLog
Control  == \/ CtrlSetPending \/ CtrlTellPending \/ CtrlStops \/ CtrlLogStopped
            \/ CtrlCloseLog \/ CtrlSetStopped \/ CtrlTellStopped

Next == StartFails \/ Starting \/ RunThrows \/ Ending \/ Control \/ SendStop \/ Exit

(* Both threads run on; nobody has to throw or to send STOP.               *)
Fairness == WF_vars(Starting) /\ WF_vars(Ending) /\ WF_vars(Control)

Spec == Init /\ [][Next]_vars
FairSpec == Spec /\ Fairness
-----------------------------------------------------------------------------
(* Properties.                                                             *)

TypeOK ==
    /\ svc \in ServiceAt /\ ctl \in ControlAt
    /\ registered \in BOOLEAN
    /\ cell \in Status /\ scm \in Status
    /\ server \in {"null", "up", "orphan"}
    /\ fileOpen \in BOOLEAN
    /\ lines \subseteq Line
    /\ process \in {"up", "exited", "crashed"}

(* When neither thread has anything left to do, the manager's last word is *)
(* STOPPED, although both report through one variable without a lock and   *)
(* one's STOPPED can be followed by the other's STOP_PENDING (service_main, *)
(* service_ctrl_handler, report_service_status).                           *)
QuietMeansStopped ==
    registered /\ \/ ctl = "done"
                  \/ ctl = "idle" /\ svc \in {"logStopped", "close", "ended"}
        => scm = "STOPPED"

(* Whichever thread closes the log file, the line that the service stopped *)
(* is in it.                                                               *)
ClosedLogIsComplete == registered /\ ~fileOpen => "stopped" \in lines

(* A STOP that was sent, and an exception, end in a report of STOPPED,     *)
(* unless server->stop() has crashed the process: stop() waits for nobody. *)
EndIsReported ==
    ctl = "sent" \/ svc = "catch" ~> scm = "STOPPED" \/ process = "crashed"

-----------------------------------------------------------------------------
(* main.cpp says of its exception handler that it stops the server and     *)
(* logs any exception.                                                     *)
ExceptionsAreLogged == ~(svc = "catch" /\ process = "crashed")
=============================================================================
