------------------------------ MODULE Recovery ------------------------------
(* The recovery controller and the button of the display that asks for it:    *)
(* one worker thread per controller, the status file, the restart of the     *)
(* services with the display last, and deaths of the controller.             *)
EXTENDS Integers

CONSTANTS
  MaxPresses,   \* bound: presses of the button
  MaxDeaths     \* bound: deaths of the controller

ASSUME RecoveryAssumption == MaxPresses \in Nat /\ MaxDeaths \in Nat

VARIABLES
  controller,           \* "up" or "down"
  memory, statusFile,   \* self.state, status.json
  thread,               \* the worker thread
  restarting,           \* systemd has yet to restart the display
  asking,               \* recovery_future: none, sent, or its reply
  page, button,         \* the system page is open; recovery_status
  presses, deaths

recoveryVars ==
  <<controller, memory, statusFile, thread, restarting, asking, page, button, presses, deaths>>

States == {"idle", "running", "complete", "failed"}
Stages == {"none", "start", "write", "services", "display", "paper", "finish"}

RecoveryTypeOK ==
  /\ controller \in {"up", "down"}
  /\ memory \in States /\ statusFile \in States
  /\ thread \in Stages /\ (controller = "down" => thread = "none")
  /\ restarting \in BOOLEAN
  /\ asking \in {"none", "sent", "accepted", "refused"}
  /\ page \in BOOLEAN /\ button \in States
  /\ presses \in 0..MaxPresses /\ deaths \in 0..MaxDeaths

RecoveryInit ==
  /\ controller = "up" /\ memory = "idle" /\ statusFile = "idle"
  /\ thread = "none" /\ restarting = FALSE
  /\ asking = "none" /\ page = FALSE /\ button = "idle"
  /\ presses = 0 /\ deaths = 0

desk  == <<asking, page, button, presses>>
control   == <<controller, memory, statusFile, thread, restarting, deaths>>

------------------------------------------------------------------------------
(* The display.                                                              *)

OpensPage  == ~page /\ page' = TRUE /\ UNCHANGED <<asking, button, presses, control>>
ClosesPage == page /\ page' = FALSE /\ UNCHANGED <<asking, button, presses, control>>

(* request_full_recovery: the button answers before the controller does.     *)
Presses ==
  /\ page /\ asking = "none" /\ presses < MaxPresses
  /\ asking' = "sent" /\ button' = "running" /\ presses' = presses + 1
  /\ UNCHANGED <<page, control>>

(* update_full_recovery: the reply is taken, then the file is read at once if *)
(* the page is open.  A refusal counts only while nothing runs.              *)
TakesReply ==
  /\ asking \in {"accepted", "refused"}
  /\ asking' = "none"
  /\ button' = IF page THEN statusFile
               ELSE IF asking = "refused" THEN "failed" ELSE button
  /\ UNCHANGED <<page, presses, control>>

ReadsStatus ==
  /\ page /\ button # statusFile
  /\ asking \notin {"accepted", "refused"}
  /\ button' = statusFile
  /\ UNCHANGED <<asking, page, presses, control>>

DisplayRestarts ==
  /\ restarting /\ restarting' = FALSE
  /\ asking' = "none" /\ page' = FALSE /\ button' = "idle"
  /\ UNCHANGED <<presses, controller, memory, statusFile, thread, deaths>>

------------------------------------------------------------------------------
(* The controller.                                                           *)

(* start_recovery under its guard, or no answer at all.  The reply to a      *)
(* second request carries what memory says, so that it counts as refused     *)
(* until the thread has set it.                                              *)
Answers ==
  /\ asking = "sent"
  /\ CASE controller = "down" -> asking' = "refused" /\ UNCHANGED thread
       [] controller = "up" /\ thread = "none" -> asking' = "accepted" /\ thread' = "start"
       [] OTHER -> /\ asking' = IF memory = "running" THEN "accepted" ELSE "refused"
                   /\ UNCHANGED thread
  /\ UNCHANGED <<controller, memory, statusFile, restarting, deaths, page, button, presses>>

Goes(stage1, stage2) == thread = stage1 /\ thread' = stage2

(* recover(): running in memory, then on disk; each service's restart is     *)
(* queued and the status written again, the display's last; then the report. *)
Recovers ==
  /\ \/ Goes("start", "write") /\ memory' = "running" /\ UNCHANGED <<statusFile, restarting>>
     \/ Goes("write", "services") /\ statusFile' = memory /\ UNCHANGED <<memory, restarting>>
     \/ /\ thread = "services" /\ thread' \in {"services", "display"}
        /\ statusFile' = memory /\ UNCHANGED <<memory, restarting>>
     \/ Goes("display", "paper") /\ restarting' = TRUE /\ UNCHANGED <<memory, statusFile>>
     \/ Goes("paper", "finish") /\ memory' \in {"complete", "failed"}
        /\ UNCHANGED <<statusFile, restarting>>
     \/ Goes("finish", "none") /\ statusFile' = memory /\ UNCHANGED <<memory, restarting>>
  /\ UNCHANGED <<controller, deaths, desk>>

ControllerDies ==
  /\ controller = "up" /\ deaths < MaxDeaths
  /\ controller' = "down" /\ thread' = "none" /\ deaths' = deaths + 1
  /\ UNCHANGED <<memory, statusFile, restarting, desk>>

(* __init__ writes the status of a controller that has done nothing.         *)
ControllerStartsSilently ==
  /\ controller = "down"
  /\ controller' = "up" /\ memory' = "idle"
  /\ UNCHANGED <<statusFile, thread, restarting, deaths, desk>>

ControllerStarts ==
  /\ controller = "down"
  /\ controller' = "up" /\ memory' = "idle" /\ statusFile' = "idle"
  /\ UNCHANGED <<thread, restarting, deaths, desk>>

RecoveryNext ==
  \/ OpensPage \/ ClosesPage \/ Presses \/ TakesReply \/ ReadsStatus \/ DisplayRestarts
  \/ Answers \/ Recovers \/ ControllerDies \/ ControllerStarts

(* The display draws frames, the thread's commands have time limits, systemd *)
(* restarts a controller that failed.                                        *)
DisplayStep == TakesReply \/ ReadsStatus \/ Answers
Progress == Recovers /\ ~(thread = "services" /\ thread' = "services")

RecoverySpec ==
  /\ RecoveryInit /\ [][RecoveryNext]_recoveryVars
  /\ WF_recoveryVars(DisplayStep) /\ WF_recoveryVars(Progress)
  /\ WF_recoveryVars(DisplayRestarts) /\ WF_recoveryVars(ControllerStarts)

------------------------------------------------------------------------------
(* A button that says running does not say so for ever: the recovery ends,   *)
(* and the death of its controller is written over (RecoveryManager.__init__, *)
(* recover, read_recovery_status).                                           *)
RunningIsOver == page /\ button = "running" ~> ~page \/ button # "running"
=============================================================================
