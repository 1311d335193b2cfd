---------------------------- MODULE HealthMonitor ----------------------------
(* health_monitor.py: checks are measured in cycles, failures are counted to  *)
(* a threshold, and alerts and recoveries are shown on a desktop that may not *)
(* be there.  One run of the monitor: what it has told is kept in memory.     *)
EXTENDS Integers, TLC

CONSTANTS
  Check,       \* the enabled checks
  CheckType,   \* their types
  Slow,        \* checks with an interval_seconds of their own
  Interval,    \* cycles that interval spans
  Threshold,   \* failure_threshold
  Repeat,      \* cycles in repeat_alert_seconds
  MaxChanges   \* bound: changes of what is checked and of the desktop: four are an
               \* outage that begins with a desktop and ends while there is none

(* run_check: the condition a target may be in, by type, and which are sound. *)
Conditions ==
  "systemd_service" :> {"active", "activating", "failed"}
  @@ "http" :> {"2xx", "3xx", "4xx", "unreachable"}
  @@ "http_json" :> {"expected", "other value", "no JSON", "unreachable"}
  @@ "tcp" :> {"connects", "refuses"}
  @@ "mount" :> {"mounted", "on the root filesystem", "missing"}
  @@ "path" :> {"present", "missing"}
  @@ "fresh_path" :> {"fresh", "old", "missing"}
  @@ "command" :> {"exits 0", "exits 1", "times out"}

Sound ==
  "systemd_service" :> {"active"} @@ "http" :> {"2xx", "3xx"} @@ "http_json" :> {"expected"}
  @@ "tcp" :> {"connects"} @@ "mount" :> {"mounted"} @@ "path" :> {"present"}
  @@ "fresh_path" :> {"fresh"} @@ "command" :> {"exits 0"}

(* load_config                                                                *)
ConfigLoads ==
  /\ Check # {} /\ CheckType \in [Check -> DOMAIN Sound] /\ Slow \subseteq Check
  /\ Interval \in Nat /\ Threshold \in Nat /\ Repeat \in Nat

ASSUME HealthAssumption == ConfigLoads /\ MaxChanges \in Nat

VARIABLES
  target,    \* the condition of what each check looks at
  desktop,   \* a popup would be displayed
  changes,
  monitor,   \* "grace", "collect", "alert", "recover", "announce", "wait", "stopped"
  measured,  \* checks with a record in this cycle
  healthy,   \* the records
  age,       \* check_cache: cycles since a record was measured
  tracking,  \* status, failures, alerted, pending recovery, cycles since the alert
  alertDue, recoveryDue,
  announced, \* startup_announced
  reported,  \* status.json: the checks that fail
  lastTold       \* what the last popup about a check said

healthVars == <<target, desktop, changes, monitor, measured, healthy, age, tracking,
                alertDue, recoveryDue, announced, reported, lastTold>>
outside == <<target, desktop, changes>>
records == <<measured, healthy, age>>
due == <<alertDue, recoveryDue>>

Failing == IF Threshold < 1 THEN 1 ELSE Threshold
Works(c) == target[c] \in Sound[CheckType[c]]

HealthTypeOK ==
  /\ \A c \in Check : target[c] \in Conditions[CheckType[c]]
  /\ desktop \in BOOLEAN /\ changes \in 0..MaxChanges
  /\ monitor \in {"grace", "collect", "alert", "recover", "announce", "wait", "stopped"}
  /\ measured \subseteq Check /\ healthy \in [Check -> BOOLEAN]
  /\ age \in [Check -> 0..Interval]
  /\ tracking \in [Check -> [status : {"unknown", "up", "down"}, failures : 0..Failing,
                             alerted : BOOLEAN, pending : BOOLEAN, since : 0..Repeat]]
  /\ alertDue \cap recoveryDue = {} /\ alertDue \cup recoveryDue \subseteq Check
  /\ announced \in BOOLEAN /\ reported \subseteq Check
  /\ lastTold \in [Check -> {"nothing", "down", "up"}]

HealthInit ==
  /\ target = [c \in Check |-> CHOOSE t \in Sound[CheckType[c]] : TRUE]
  /\ desktop = TRUE /\ changes = 0
  /\ monitor = "grace" /\ measured = {}
  /\ healthy = [c \in Check |-> FALSE] /\ age = [c \in Check |-> Interval]
  /\ tracking = [c \in Check |-> [status |-> "unknown", failures |-> 0, alerted |-> FALSE,
                                  pending |-> FALSE, since |-> Repeat]]
  /\ alertDue = {} /\ recoveryDue = {} /\ announced = FALSE /\ reported = {}
  /\ lastTold = [c \in Check |-> "nothing"]

------------------------------------------------------------------------------
(* What the monitor looks at, and the session of the desktop.                 *)

Changes ==
  /\ changes < MaxChanges /\ changes' = changes + 1
  /\ \/ \E c \in Check :
          /\ target' \in {[target EXCEPT ![c] = t] : t \in Conditions[CheckType[c]] \ {target[c]}}
          /\ UNCHANGED desktop
     \/ desktop' = ~desktop /\ UNCHANGED target
  /\ UNCHANGED <<monitor, records, tracking, due, announced, reported, lastTold>>

GraceEnds ==
  /\ monitor = "grace"
  /\ monitor' = "collect"
  /\ UNCHANGED <<outside, records, tracking, due, announced, reported, lastTold>>

(* request_stop, found at the end of a wait.                                  *)
Stops ==
  /\ monitor \in {"grace", "wait"}
  /\ monitor' = "stopped"
  /\ UNCHANGED <<outside, records, tracking, due, announced, reported, lastTold>>

(* collect: one check after the other, from the cache while that is young.    *)
Collects(c) ==
  /\ monitor = "collect" /\ c \notin measured
  /\ measured' = measured \cup {c}
  /\ IF c \in Slow /\ age[c] < Interval
     THEN UNCHANGED <<healthy, age>>
     ELSE healthy' = [healthy EXCEPT ![c] = Works(c)] /\ age' = [age EXCEPT ![c] = 0]
  /\ UNCHANGED <<outside, monitor, tracking, due, announced, reported, lastTold>>

(* update_tracking.  Mutant: a recovery is due in the cycle that finds it,    *)
(* whether or not it could be shown.                                          *)
HealedOnce(t) ==
  [t EXCEPT !.failures = 0, !.status = "up",
            !.pending = t.status = "down" /\ t.alerted]

Healed(t) ==
  [t EXCEPT !.failures = 0, !.status = "up",
            !.pending = @ \/ (t.status = "down" /\ t.alerted)]

Failed(t) ==
  LET n == IF t.failures < Failing THEN t.failures + 1 ELSE t.failures
  IN [t EXCEPT !.failures = n, !.status = IF n = Failing THEN "down" ELSE @]

Tracks ==
  /\ monitor = "collect" /\ measured = Check
  /\ tracking' = [c \in Check |-> IF healthy[c] THEN Healed(tracking[c]) ELSE Failed(tracking[c])]
  /\ recoveryDue' = {c \in Check : healthy[c] /\ tracking'[c].pending}
  /\ alertDue' = {c \in Check : /\ ~healthy[c] /\ tracking'[c].failures = Failing
                                /\ tracking'[c].alerted => tracking'[c].since = Repeat}
  /\ reported' = {c \in Check : ~healthy[c]}
  /\ monitor' = "alert"
  /\ UNCHANGED <<outside, records, announced, lastTold>>

(* notify_events: a popup that is not displayed changes nothing.              *)
Alerts ==
  /\ monitor = "alert" /\ monitor' = "recover"
  /\ IF alertDue # {} /\ desktop
     THEN /\ tracking' = [c \in Check |-> IF c \in alertDue
                            THEN [tracking[c] EXCEPT !.alerted = TRUE, !.since = 0]
                            ELSE tracking[c]]
          /\ lastTold' = [c \in Check |-> IF c \in alertDue THEN "down" ELSE lastTold[c]]
          /\ announced' = TRUE
     ELSE UNCHANGED <<tracking, lastTold, announced>>
  /\ UNCHANGED <<outside, records, due, reported>>

TellsRecovery ==
  /\ monitor = "recover" /\ monitor' = "announce"
  /\ IF recoveryDue # {} /\ desktop
     THEN /\ tracking' = [c \in Check |-> IF c \in recoveryDue
                            THEN [tracking[c] EXCEPT !.alerted = FALSE, !.pending = FALSE,
                                                     !.since = Repeat]
                            ELSE tracking[c]]
          /\ lastTold' = [c \in Check |-> IF c \in recoveryDue THEN "up" ELSE lastTold[c]]
     ELSE UNCHANGED <<tracking, lastTold>>
  /\ UNCHANGED <<outside, records, due, announced, reported>>

Announces ==
  /\ monitor = "announce" /\ monitor' = "wait"
  /\ IF ~announced /\ alertDue = {} /\ (\A c \in Check : healthy[c]) /\ desktop
     THEN announced' = TRUE /\ lastTold' = [c \in Check |-> "up"]
     ELSE UNCHANGED <<announced, lastTold>>
  /\ UNCHANGED <<outside, records, tracking, due, reported>>

(* The rest of the interval; a cycle later the cache and the alerts are older. *)
NextCycle ==
  /\ monitor = "wait"
  /\ monitor' = "collect" /\ measured' = {}
  /\ age' = [c \in Check |-> IF age[c] < Interval THEN age[c] + 1 ELSE age[c]]
  /\ tracking' = [c \in Check |-> [tracking[c] EXCEPT !.since = IF @ < Repeat THEN @ + 1 ELSE @]]
  /\ UNCHANGED <<outside, healthy, due, announced, reported, lastTold>>

MonitorStep ==
  \/ GraceEnds \/ Tracks \/ Alerts \/ TellsRecovery \/ Announces \/ NextCycle
  \/ \E c \in Check : Collects(c)

HealthNext == Changes \/ Stops \/ MonitorStep

(* The loop of the monitor runs unless it is stopped.                         *)
HealthFairness == WF_healthVars(MonitorStep)

HealthSpec == HealthInit /\ [][HealthNext]_healthVars /\ HealthFairness

------------------------------------------------------------------------------
(* A check that stays down, or stays up, while the desktop is there is in the *)
(* end what the user was last told about it, whatever popups were lost        *)
(* before: an outage is announced, and one that was announced is not left     *)
(* standing ("notification will be retried", health_monitor.py:265).          *)
TellsTheTruth ==
  \A c \in Check :
    /\ <>[](desktop /\ monitor # "stopped" /\ ~Works(c)) => <>[](lastTold[c] = "down")
    /\ <>[](desktop /\ monitor # "stopped" /\ Works(c)) => <>[](lastTold[c] # "down")
=============================================================================
