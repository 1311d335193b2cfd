--------------------------- MODULE WorkshopVision ---------------------------
(***************************************************************************)
(* The workshop's use of the accelerator, composed with HailoArbiter:       *)
(* workshop_runtime.py runs one thread per launched camera application      *)
(* (Session), launch and stop requests arrive in server threads (Control),  *)
(* and all of them share the broker of workshop_host.py: its reservation    *)
(* and its YOLO detector process.  None of start_vision, stop_vision and    *)
(* vision_heartbeat takes a lock, so the id and the application on record   *)
(* are set, read and cleared one by one; detector.start and the first half  *)
(* of detector.stop do take one.                                            *)
(*                                                                          *)
(* Assumed of the system: SIGKILL ends a process before terminate_group     *)
(* gives up, one second later.                                              *)
(***************************************************************************)
EXTENDS HailoArbiter

CONSTANTS Control,  \* threads that serve launch and stop requests
          App,      \* [Session -> the application it runs]
          NoOne,
          Prompt    \* TRUE: a session on record never lets its reservation expire

Session == Client       \* every session makes one reservation
Thread  == Session \cup Control

ASSUME WorkshopAssumption ==
  /\ NoOne \notin Session \cup Control
  /\ Session \cap Control = {}
  /\ \A s \in Session : App[s] # NoOne
  /\ Prompt \in BOOLEAN

VARIABLES
  pc,         \* [Thread -> where it is]
  active,     \* runtime: thread and active_app_id of this session
  target,     \* [Control -> the session to launch, NoOne for a plain stop]
  seen,       \* [Control -> the session runtime.stop found active]
  victim,     \* [Thread -> the detector process it is terminating]
  heldId,     \* broker: hailo_reservation_id, named by the session that made it
  heldApp,    \* broker: hailo_reservation_app_id
  det,        \* detector.process, named by the session that spawned it
  yolo        \* YOLO processes that are alive

runtime == <<active, target, seen>>
record  == <<heldId, heldApp>>
broker  == <<record, det, yolo, victim>>
wvars   == <<avars, pc, runtime, broker>>

Dropping  == {"release", "dropId", "dropApp"}
SessionPc == Dropping \cup
             {"off", "check", "call", "assign", "spawn", "undoId", "undoApp",
              "loop", "detach", "kill", "letgo", "done"}
ControlPc == Dropping \cup {"idle", "stop", "join", "detach", "kill", "letgo", "clear"}

WorkshopTypeOK ==
  /\ ArbiterTypeOK
  /\ pc \in [Thread -> SessionPc \cup ControlPc]
  /\ \A s \in Session : pc[s] \in SessionPc
  /\ \A c \in Control : pc[c] \in ControlPc
  /\ active \in Session \cup {NoOne}
  /\ target \in [Control -> Session \cup {NoOne}]
  /\ seen \in [Control -> Session \cup {NoOne}]
  /\ victim \in [Thread -> Session \cup {NoOne}]
  /\ heldId \in Session \cup {NoOne}
  /\ heldApp \in {App[s] : s \in Session} \cup {NoOne}
  /\ det \in Session \cup {NoOne}
  /\ yolo \subseteq Session
  /\ active # NoOne => pc[active] # "off"
  /\ \A c \in Control : pc[c] \in {"join", "detach", "kill", "letgo"} => seen[c] # NoOne

WorkshopInit ==
  /\ ArbiterInit
  /\ pc = [t \in Thread |-> IF t \in Session THEN "off" ELSE "idle"]
  /\ active = NoOne
  /\ target = [c \in Control |-> NoOne]
  /\ seen = [c \in Control |-> NoOne]
  /\ victim = [t \in Thread |-> NoOne]
  /\ heldId = NoOne /\ heldApp = NoOne /\ det = NoOne /\ yolo = {}

Goto(t, label) == pc' = [pc EXCEPT ![t] = label]

------------------------------------------------------------------------------
(* start_vision, in the session's thread.                                   *)

Check(s) ==
  /\ pc[s] = "check"
  /\ \/ heldId = NoOne /\ Ask(s) /\ Goto(s, "call")
     \/ heldId # NoOne /\ Goto(s, "detach") /\ UNCHANGED avars
  /\ UNCHANGED <<runtime, broker>>

(* The check that no session holds a reservation is not repeated.           *)
Reserved(s) ==
  /\ pc[s] = "call"
  /\ call[s] = "granted"
  /\ heldId' = s
  /\ Goto(s, "assign")
  /\ UNCHANGED <<avars, runtime, heldApp, det, yolo, victim>>

ReserveRaises(s) ==
  /\ pc[s] = "call"
  /\ call[s] \in {"failed", "late"}
  /\ Goto(s, "detach")
  /\ UNCHANGED <<avars, runtime, broker>>

Assign(s) ==
  /\ pc[s] = "assign"
  /\ heldApp' = App[s]
  /\ Goto(s, "spawn")
  /\ UNCHANGED <<avars, runtime, heldId, det, yolo, victim>>

(* Mutant: detector.start does not look for a process of another session.   *)
SpawnAnyway(s) ==
  /\ pc[s] = "spawn"
  /\ det' = s
  /\ yolo' = yolo \cup {s}
  /\ Goto(s, "loop")
  /\ UNCHANGED <<avars, runtime, record, victim>>

(* detector.start: a process that is alive is taken as it is.               *)
Spawn(s) ==
  /\ pc[s] = "spawn"
  /\ \/ /\ det \in yolo
        /\ UNCHANGED <<det, yolo>>
     \/ /\ det \notin yolo
        /\ det' = s
        /\ yolo' = yolo \cup {s}
  /\ Goto(s, "loop")
  /\ UNCHANGED <<avars, runtime, record, victim>>

(* The session releases its own reservation; the record follows (ClearId).  *)
SpawnRaises(s) ==
  /\ pc[s] = "spawn"
  /\ det \notin yolo
  /\ ReleaseReservation(s) \/ UNCHANGED avars
  /\ det' = NoOne
  /\ Goto(s, "undoId")
  /\ UNCHANGED <<runtime, record, yolo, victim>>

(* Mutant: renewing a reservation that has expired makes it anew.           *)
HeartbeatUpserts(s) ==
  /\ pc[s] = "loop"
  /\ heldId # NoOne /\ heldApp = App[s]
  /\ LockFree
  /\ externals' = externals \cup {heldId}
  /\ UNCHANGED <<up, faces, device, faults, call, pc, runtime, broker>>

(* The heartbeat renews the broker's reservation, which a later session of  *)
(* the same application may have made.                                      *)
Heartbeat(s) ==
  /\ pc[s] = "loop"
  /\ heldId # NoOne /\ heldApp = App[s]
  /\ RenewReservation(heldId)
  /\ UNCHANGED <<pc, runtime, broker>>

(* The stop event, the end of the camera lease, or any error: a heartbeat   *)
(* refused, a detector that does not run, a host call that fails.  It may   *)
(* happen at any moment, so the stop event is no variable.                  *)
LoopEnds(s) ==
  /\ pc[s] = "loop"
  /\ Goto(s, "detach")
  /\ UNCHANGED <<avars, runtime, broker>>

------------------------------------------------------------------------------
(* stop_vision, in the session's own thread (finally) or in the thread that *)
(* stops the session.                                                       *)

AppOf(t) == IF t \in Session THEN App[t] ELSE App[seen[t]]

(* The detector is detached whichever session started it.                   *)
Detach(t) ==
  /\ pc[t] = "detach"
  /\ victim' = [victim EXCEPT ![t] = det]
  /\ det' = NoOne
  /\ Goto(t, "kill")
  /\ UNCHANGED <<avars, runtime, record, yolo>>

(* terminate_group returns once its process is gone.                        *)
Killed(t) ==
  /\ pc[t] = "kill"
  /\ yolo' = yolo \ {victim[t]}
  /\ victim' = [victim EXCEPT ![t] = NoOne]
  /\ Goto(t, "letgo")
  /\ UNCHANGED <<avars, runtime, record, det>>

After(t) == IF t \in Session THEN "done" ELSE "clear"

(* The two attributes of the comparison are read in one step.               *)
LetGo(t) ==
  /\ pc[t] = "letgo"
  /\ Goto(t, IF heldApp = AppOf(t) /\ heldId # NoOne THEN "release" ELSE After(t))
  /\ UNCHANGED <<avars, runtime, broker>>

(* Whatever is on record by now is released.  The request may fail; its     *)
(* errors are swallowed.                                                    *)
ReleaseHeld(t) ==
  /\ pc[t] = "release"
  /\ \/ heldId # NoOne /\ ReleaseReservation(heldId)
     \/ UNCHANGED avars
  /\ Goto(t, "dropId")
  /\ UNCHANGED <<runtime, broker>>

(* The two clears, here and in the except clause of start_vision.           *)
ClearId(t) ==
  /\ pc[t] \in {"undoId", "dropId"}
  /\ heldId' = NoOne
  /\ Goto(t, IF pc[t] = "undoId" THEN "undoApp" ELSE "dropApp")
  /\ UNCHANGED <<avars, runtime, heldApp, det, yolo, victim>>

ClearApp(t) ==
  /\ pc[t] \in {"undoApp", "dropApp"}
  /\ heldApp' = NoOne
  /\ Goto(t, IF pc[t] = "undoApp" THEN "detach" ELSE After(t))
  /\ UNCHANGED <<avars, runtime, heldId, det, yolo, victim>>

------------------------------------------------------------------------------
(* runtime.stop and runtime.launch, in a server thread.                     *)

Launch(c, s) ==
  /\ pc[c] = "idle"
  /\ pc[s] = "off"
  /\ \A d \in Control : target[d] # s
  /\ target' = [target EXCEPT ![c] = s]
  /\ Goto(c, "stop")
  /\ UNCHANGED <<avars, active, seen, broker>>

StopRequest(c) ==
  /\ pc[c] = "idle"
  /\ active # NoOne
  /\ Goto(c, "stop")
  /\ UNCHANGED <<avars, runtime, broker>>

StopActive(c) ==
  /\ pc[c] = "stop"
  /\ seen' = [seen EXCEPT ![c] = active]
  /\ Goto(c, IF active = NoOne THEN "clear" ELSE "join")
  /\ UNCHANGED <<avars, active, target, broker>>

(* thread.join(timeout=6.0): over with or without the thread.               *)
Join(c) ==
  /\ pc[c] = "join"
  /\ Goto(c, "detach")
  /\ UNCHANGED <<avars, runtime, broker>>

(* The runtime is idle, and the next session takes its place.               *)
Clear(c) ==
  /\ pc[c] = "clear"
  /\ active' = target[c]
  /\ target' = [target EXCEPT ![c] = NoOne]
  /\ seen' = [seen EXCEPT ![c] = NoOne]
  /\ pc' = [t \in Thread |-> CASE t = c -> "idle"
                               [] t = target[c] -> "check"
                               [] OTHER -> pc[t]]
  /\ UNCHANGED <<avars, broker>>

------------------------------------------------------------------------------
YoloExits ==
  /\ \E y \in yolo : yolo' = yolo \ {y}
  /\ UNCHANGED <<avars, pc, runtime, record, det, victim>>

(* The workshop service dies and its cgroup with it; reservations remain.   *)
HostExits ==
  /\ \E s \in Session : pc[s] # "off"
  /\ CallersDie
  /\ pc' = [t \in Thread |-> IF t \in Control THEN "idle"
                             ELSE IF pc[t] = "off" THEN "off" ELSE "done"]
  /\ active' = NoOne
  /\ target' = [c \in Control |-> NoOne]
  /\ seen' = [c \in Control |-> NoOne]
  /\ victim' = [t \in Thread |-> NoOne]
  /\ heldId' = NoOne /\ heldApp' = NoOne /\ det' = NoOne /\ yolo' = {}

(* Nobody renews the reservation of a session that is not on record.  One   *)
(* that is on record, but held up between two renewals or slow to stop its  *)
(* detector, sees its reservation expire too; Prompt rules that out.        *)
Lapses(s) ==
  /\ Prompt => \/ pc[s] = "done" \/ call[s] = "failed"
               \/ pc[s] \notin {"call", "assign"} /\ (heldId # s \/ heldApp # App[s])
  /\ ReservationExpires(s)

Outside == UNCHANGED <<pc, runtime, broker>>

SessionStep(s) ==
  \/ Check(s) \/ Reserved(s) \/ ReserveRaises(s) \/ Assign(s)
  \/ Spawn(s) \/ SpawnRaises(s) \/ Heartbeat(s) \/ LoopEnds(s)

StopVision(t) ==
  \/ Detach(t) \/ Killed(t) \/ LetGo(t) \/ ReleaseHeld(t) \/ ClearId(t) \/ ClearApp(t)

ControlStep(c) == StopActive(c) \/ Join(c) \/ Clear(c)

WorkshopNext ==
  \/ Serve /\ Outside
  \/ \E s \in Session :
       \/ SessionStep(s)
       \/ Coordinate(s) /\ Outside
       \/ Lapses(s) /\ Outside
  \/ \E t \in Thread : StopVision(t)
  \/ \E c \in Control :
       \/ ControlStep(c)
       \/ StopRequest(c)
       \/ \E s \in Session : Launch(c, s)
  \/ YoloExits \/ HostExits

(* Threads run, sockets time out, leases and camera sessions run out.       *)
WorkshopFairness ==
  /\ WF_wvars((StopEnds \/ SupervisorStarts) /\ Outside)
  /\ \A s \in Session :
       /\ WF_wvars(Check(s) \/ Reserved(s) \/ ReserveRaises(s) \/ Assign(s)
                    \/ Spawn(s) \/ SpawnRaises(s))
       /\ WF_wvars(LoopEnds(s))
       /\ WF_wvars(GiveUp(s) /\ Outside)
       /\ WF_wvars(Lapses(s) /\ Outside)
  /\ \A t \in Thread : WF_wvars(StopVision(t))
  /\ \A c \in Control : WF_wvars(ControlStep(c))

WorkshopSpec == WorkshopInit /\ [][WorkshopNext]_wvars /\ WorkshopFairness

------------------------------------------------------------------------------
(* The workshop's calls are calls the arbiter allows, so what holds of the  *)
(* arbiter holds of the two together.                                       *)
ArbiterSafety == ArbiterInit /\ [][ArbiterNext]_avars

(* Every YOLO process that is alive is the detector's or is being           *)
(* terminated by a thread that knows it, whatever the launches and stops in *)
(* flight: detector.start and detector.stop together lose no process.       *)
EveryDetectorOwned == yolo \subseteq {det} \cup {victim[t] : t \in Thread}

Quiet ==
  /\ \A s \in Session : pc[s] \in {"off", "done"}
  /\ \A c \in Control : pc[c] = "idle"

(* MAINTENANCE.zh-CN.md:138, without a session there is no inference        *)
(* process: each session ends in stop_vision, on every path.                *)
IdleMeansNoInference == Quiet => yolo = {} /\ det = NoOne

(* While no two threads are between the first and the last of the record's  *)
(* assignments or clears ...                                                *)
AtRecord == Dropping \cup {"assign", "undoId", "undoApp"}

OneAtTheRecord ==
  \A t, u \in Thread : {pc[t], pc[u]} \subseteq AtRecord => t = u

(* ... the broker's record is whole, and one that is set belongs to a       *)
(* session that will still run LetGo, so a session that ends does not lock  *)
(* the others out of the detector.  When two threads overlap there, the     *)
(* code breaks both: an id without its application stays for ever.          *)
HeldWillBeReleased ==
  (\A t \in Thread : pc[t] \notin AtRecord) =>
    \/ heldId = NoOne /\ heldApp = NoOne
    \/ /\ heldId # NoOne
       /\ \E s \in Session : /\ App[s] = heldApp
                             /\ pc[s] \in {"spawn", "loop", "detach", "kill", "letgo"}

(* Every session that was launched ends.                                    *)
SessionsEnd == \A s \in Session : pc[s] = "check" ~> pc[s] = "done"

(* MAINTENANCE.zh-CN.md:138, the workshop's YOLO process and the face       *)
(* worker never exist at the same time.  The code breaks it.                *)
DeviceExclusive == ~(FaceProcess /\ yolo # {})
============================================================================
