----------------------------- MODULE PaperRadar -----------------------------
(* The daily report of Paper Radar: the run that Hermes starts at eight, the  *)
(* guarded catch-up service, the run that the recovery controller queues, and *)
(* the requests for a special focus that users queue for the next day.        *)
(* A run is the collector, the reading agent and finalize_run one after the   *)
(* other; Hermes runs the job once at a time.  Access to arXiv is modelled in *)
(* ArxivAccess; here a collection ends in one of four states.                 *)
EXTENDS Integers, FiniteSets

CONSTANTS
  Focus,          \* requests for a special focus
  MaxAttempts,    \* max_automatic_attempts
  Windows,        \* catch-ups of the timer per day
  MaxDay,         \* bound
  MaxEdits,       \* bound: edits of a request
  NoFocus

(* A copy of a request, as runs and files carry it: which and in what wording *)
(* (the number of edits it has seen).                                         *)
Wording == 0..MaxEdits
Copy == Focus \X Wording

ASSUME RadarAssumption ==
  /\ IsFiniteSet(Focus) /\ NoFocus \notin Copy
  /\ MaxAttempts \in Nat \ {0} /\ Windows \in Nat
  /\ MaxDay \in Nat \ {0} /\ MaxEdits \in Nat

Day == 1..MaxDay
Copies == Copy \cup {NoFocus}

(* A request in the queue; `late' is a ghost: it was edited while a copy of   *)
(* it was under way.                                                          *)
Entry == [status : {"absent", "pending", "superseded", "removed", "consumed"},
          target : 0..MaxDay + 1, for : {0} \cup Day, wording : Wording, late : BOOLEAN]

VARIABLES
  day, due, windows,    \* today, is the scheduled run still to come, catch-ups left
  source,               \* source-status.json
  manifest,             \* candidates/<date>.json, the latest one
  report,               \* latest-report.json: date and special_focus_request
  cooling,              \* ArxivAccess: a cooldown is active
  requests,             \* special-focus/requests.json
  run,                  \* the run in progress
  catchup, queued,      \* catchup.lock is held; a run queued by the recovery
  pages                 \* history: copies shown on the page of a day

calendar  == <<day, due, windows>>
radarVars == <<day, due, windows, source, manifest, report, cooling, requests, run,
               catchup, queued, pages>>

NoRun == [at |-> "none", day |-> 0, attempts |-> 0, state |-> "none", focus |-> NoFocus]
Outcomes == {"ready", "degraded", "cooldown", "unavailable"}

RadarTypeOK ==
  /\ day \in Day /\ due \in BOOLEAN /\ windows \in 0..Windows
  /\ source \in [day : {0} \cup Day, attempts : 0..MaxAttempts,
                 state : Outcomes \cup {"none", "collecting"}]
  /\ manifest \in [day : {0} \cup Day, attempts : 0..MaxAttempts,
                   state : Outcomes \cup {"none"}, focus : Copies]
  /\ report \in [day : {0} \cup Day, focus : Copies]
  /\ cooling \in BOOLEAN
  /\ requests \in [Focus -> Entry]
  /\ run \in [at : {"none", "begin", "fetch", "record", "manifest", "read", "render", "mark",
                    "finish"},
              day : {0} \cup Day, attempts : 0..MaxAttempts,
              state : Outcomes \cup {"none"}, focus : Copies]
  /\ catchup \in {"idle", "checked", "waits"} /\ queued \in BOOLEAN
  /\ pages \in [Day -> SUBSET Copy]

RadarInit ==
  /\ day = 1 /\ due = TRUE /\ windows = Windows
  /\ source = [day |-> 0, attempts |-> 0, state |-> "none"]
  /\ manifest = [day |-> 0, attempts |-> 0, state |-> "none", focus |-> NoFocus]
  /\ report = [day |-> 0, focus |-> NoFocus]
  /\ cooling = FALSE
  /\ requests = [f \in Focus |-> [status |-> "absent", target |-> 0, for |-> 0,
                                 wording |-> 0, late |-> FALSE]]
  /\ run = NoRun
  /\ catchup = "idle" /\ queued = FALSE
  /\ pages = [d \in Day |-> {}]

------------------------------------------------------------------------------
(* Users (special_focus.py): every operation holds the queue's lock.         *)

SubmitFocus(f) ==
  /\ requests[f].status = "absent"
  /\ requests' = [g \in Focus |->
       IF g = f THEN [requests[g] EXCEPT !.status = "pending", !.target = day + 1]
       ELSE IF requests[g].status = "pending" /\ requests[g].target = day + 1
            THEN [requests[g] EXCEPT !.status = "superseded"] ELSE requests[g]]
  /\ UNCHANGED <<calendar, source, manifest, report, cooling, run, catchup, queued, pages>>

Remove(gone) ==
  /\ gone # {}
  /\ requests' = [f \in Focus |->
                 IF f \in gone THEN [requests[f] EXCEPT !.status = "removed"] ELSE requests[f]]
  /\ UNCHANGED <<calendar, source, manifest, report, cooling, run, catchup, queued, pages>>

Pending == {f \in Focus : requests[f].status = "pending"}

CancelFocus(f) == f \in Pending /\ Remove({f})

(* update_request: the description changes, not the day, nor any copy.        *)
UnderWay == {c[1] : c \in {run.focus, manifest.focus, report.focus} \ {NoFocus}}

UpdateRequest(f) ==
  /\ f \in Pending /\ requests[f].wording < MaxEdits
  /\ requests' = [requests EXCEPT ![f].wording = @ + 1, ![f].late = @ \/ f \in UnderWay]
  /\ UNCHANGED <<calendar, source, manifest, report, cooling, run, catchup, queued, pages>>

ClearUnconsumed == Remove({f \in Focus : requests[f].status \in {"pending", "superseded"}})

------------------------------------------------------------------------------
(* What starts a run.                                                        *)

Starts == run.at = "none" /\ run' = [NoRun EXCEPT !.at = "begin", !.day = day]

ScheduledRun ==
  /\ due /\ due' = FALSE
  /\ Starts
  /\ UNCHANGED <<day, windows, source, manifest, report, cooling, requests, catchup, queued, pages>>

Attempts == IF source.day = day THEN source.attempts ELSE 0

(* catchup.py, up to its lock: what it reads is used once Hermes is called.  *)
CatchupChecks ==
  /\ ~due /\ windows > 0 /\ windows' = windows - 1
  /\ catchup = "idle"
  /\ catchup' = IF \/ report.day = day /\ source.state = "ready"
                   \/ Attempts >= MaxAttempts
                   \/ cooling
                THEN "idle" ELSE "checked"
  /\ UNCHANGED <<day, due, source, manifest, report, cooling, requests, run, queued, pages>>

(* `hermes cron run': refused while the job runs, else waited for.           *)
CatchupRuns ==
  /\ catchup = "checked"
  /\ \/ Starts /\ catchup' = "waits"
     \/ run.at # "none" /\ catchup' = "idle" /\ UNCHANGED run
  /\ UNCHANGED <<calendar, source, manifest, report, cooling, requests, queued, pages>>

CatchupEnds ==
  /\ catchup = "waits" /\ run.at = "none"
  /\ catchup' = "idle"
  /\ UNCHANGED <<calendar, source, manifest, report, cooling, requests, run, queued, pages>>

(* RecoveryManager.trigger_paper_catchup, and the unit it queues.            *)
RecoveryQueues ==
  /\ ~due /\ report.day # day
  /\ run.at = "none" /\ ~queued
  /\ queued' = TRUE
  /\ UNCHANGED <<calendar, source, manifest, report, cooling, requests, run, catchup, pages>>

QueuedRuns ==
  /\ queued /\ queued' = FALSE
  /\ \/ Starts
     \/ run.at # "none" /\ UNCHANGED run
  /\ UNCHANGED <<calendar, source, manifest, report, cooling, requests, catchup, pages>>

------------------------------------------------------------------------------
(* The run.                                                                  *)

Due(d) == {f \in Pending : requests[f].target <= d}

Selected(d) ==
  IF Due(d) = {} THEN NoFocus
  ELSE LET f == CHOOSE f \in Due(d) : \A g \in Due(d) : requests[f].target <= requests[g].target
       IN <<f, requests[f].wording>>

Counted == IF source.day = run.day THEN source.attempts ELSE 0

Begins ==
  /\ run.at = "begin"
  /\ IF Counted + 1 > MaxAttempts
     THEN run' = NoRun /\ UNCHANGED source
     ELSE /\ run' = [run EXCEPT !.at = "fetch", !.attempts = Counted + 1,
                                !.focus = Selected(run.day)]
          /\ source' = [day |-> run.day, attempts |-> Counted + 1, state |-> "collecting"]
  /\ UNCHANGED <<calendar, manifest, report, cooling, requests, catchup, queued, pages>>

(* The requests, until a cooldown or two network failures open the circuit.  *)
Fetches ==
  /\ run.at = "fetch"
  /\ \E outcome \in Outcomes :
       /\ cooling => outcome = "cooldown"
       /\ run' = [run EXCEPT !.at = "record", !.state = outcome]
       /\ cooling' = (outcome = "cooldown")
  /\ UNCHANGED <<calendar, source, manifest, report, requests, catchup, queued, pages>>

RecordsSource ==
  /\ run.at = "record"
  /\ source' = [day |-> run.day, attempts |-> run.attempts, state |-> run.state]
  /\ run' = [run EXCEPT !.at = "manifest"]
  /\ UNCHANGED <<calendar, manifest, report, cooling, requests, catchup, queued, pages>>

(* An unreachable source leaves the request for a special focus pending.     *)
WritesManifest ==
  /\ run.at = "manifest"
  /\ manifest' = [day |-> run.day, attempts |-> run.attempts, state |-> run.state,
                  focus |-> IF run.state \in {"cooldown", "unavailable"}
                            THEN NoFocus ELSE run.focus]
  /\ run' = [run EXCEPT !.at = "read"]
  /\ UNCHANGED <<calendar, source, report, cooling, requests, catchup, queued, pages>>

(* The agent writes the report, anew or over the one it finds.               *)
AgentReports ==
  /\ run.at = "read"
  /\ \E kept \in {NoFocus, report.focus} : report' = [day |-> run.day, focus |-> kept]
  /\ run' = [run EXCEPT !.at = "render"]
  /\ UNCHANGED <<calendar, source, manifest, cooling, requests, catchup, queued, pages>>

Carried ==
  CASE manifest.focus # NoFocus -> manifest.focus
    [] manifest.focus = NoFocus /\ report.focus # NoFocus
         /\ requests[report.focus[1]].target = report.day -> report.focus
    [] OTHER -> NoFocus

RendersAsReported ==
  /\ run.at = "render"
  /\ report' = [report EXCEPT !.focus = Carried]
  /\ pages' = [pages EXCEPT ![report.day] = @ \cup ({report.focus} \ {NoFocus})]
  /\ run' = [run EXCEPT !.at = "mark", !.focus = Carried]
  /\ UNCHANGED <<calendar, source, manifest, cooling, requests, catchup, queued>>

(* finalize_run: validate and render, archive and pages.                     *)
Renders ==
  /\ run.at = "render"
  /\ report' = [report EXCEPT !.focus = Carried]
  /\ pages' = [pages EXCEPT ![report.day] = @ \cup ({Carried} \ {NoFocus})]
  /\ run' = [run EXCEPT !.at = "mark", !.focus = Carried]
  /\ UNCHANGED <<calendar, source, manifest, cooling, requests, catchup, queued>>

(* mark_consumed, the last step of render: it fails for a request that was   *)
(* removed meanwhile, and the run with it; it knows the request by its id.   *)
Found == IF run.focus = NoFocus THEN "consumed" ELSE requests[run.focus[1]].status

Marks ==
  /\ run.at = "mark"
  /\ \/ /\ Found = "consumed"
        /\ run' = [run EXCEPT !.at = "finish"] /\ UNCHANGED requests
     \/ /\ Found = "pending"
        /\ requests' = [requests EXCEPT ![run.focus[1]].status = "consumed",
                                        ![run.focus[1]].for = report.day]
        /\ run' = [run EXCEPT !.at = "finish"]
     \/ /\ Found \notin {"pending", "consumed"}
        /\ run' = NoRun /\ UNCHANGED requests
  /\ UNCHANGED <<calendar, source, manifest, report, cooling, catchup, queued, pages>>

(* finalized_source_status: the manifest's, completed.                       *)
Finishes ==
  /\ run.at = "finish"
  /\ source' = [day |-> manifest.day, attempts |-> manifest.attempts, state |-> manifest.state]
  /\ run' = NoRun
  /\ UNCHANGED <<calendar, manifest, report, cooling, requests, catchup, queued, pages>>

RunDies ==
  /\ run.at # "none"
  /\ run' = NoRun
  /\ UNCHANGED <<calendar, source, manifest, report, cooling, requests, catchup, queued, pages>>

CooldownEnds ==
  /\ cooling /\ cooling' = FALSE
  /\ UNCHANGED <<calendar, source, manifest, report, requests, run, catchup, queued, pages>>

(* Runs, the catch-up and queued units are over by midnight.                 *)
Midnight ==
  /\ day < MaxDay /\ ~due
  /\ run.at = "none" /\ catchup = "idle" /\ ~queued
  /\ day' = day + 1 /\ due' = TRUE /\ windows' = Windows
  /\ UNCHANGED <<source, manifest, report, cooling, requests, run, catchup, queued, pages>>

RunStep ==
  \/ Begins \/ Fetches \/ RecordsSource \/ WritesManifest \/ AgentReports
  \/ Renders \/ Marks \/ Finishes \/ RunDies

RadarNext ==
  \/ ScheduledRun \/ CatchupChecks \/ CatchupRuns \/ CatchupEnds
  \/ RecoveryQueues \/ QueuedRuns
  \/ RunStep
  \/ CooldownEnds \/ Midnight \/ ClearUnconsumed
  \/ \E f \in Focus : SubmitFocus(f) \/ CancelFocus(f) \/ UpdateRequest(f)

RadarSpec == RadarInit /\ [][RadarNext]_radarVars

------------------------------------------------------------------------------
(* A request for a special focus is consumed by a day only if its page showed *)
(* it; until then it waits (render, mark_consumed).  What the page showed is  *)
(* the request in its last wording, unless it was edited while a run, or what *)
(* a run has left in the manifest or the report, carried a copy of it: such   *)
(* an edit is accepted (update_request), shown by no page, and used up.       *)
FocusIsPublished ==
  \A f \in Focus : requests[f].status = "consumed" =>
    \E shown \in pages[requests[f].for] :
      shown[1] = f /\ (shown[2] = requests[f].wording \/ requests[f].late)
================================================================================
