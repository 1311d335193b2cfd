---------------------------- MODULE HailoArbiter ----------------------------
(***************************************************************************)
(* The single Hailo accelerator and its arbiter, face_tracker_supervisor.py *)
(* with vision_leases.py: face leases start the face worker, external       *)
(* reservations keep it away, both expire unless renewed.  The other side   *)
(* of the socket is HailoResourceCoordinator of workshop_host.py: it asks   *)
(* for a reservation, polls until the face pipeline is unloaded, and gives  *)
(* up after a socket timeout whatever the supervisor goes on to do.         *)
(*                                                                          *)
(* A request is one action, because handle_request and maintain hold the    *)
(* lock throughout; the exception is stop_worker, which may wait 13 s with  *)
(* the lock held (stopping) while clients time out and leases expire.       *)
(***************************************************************************)
EXTENDS Naturals, FiniteSets

CONSTANTS FaceClient,    \* holders of face leases, one lease each
          Client,        \* external reservations, one per call of reserve()
          MaxFaults      \* bound: worker exits, failed starts and restarts

ASSUME ArbiterAssumption == MaxFaults \in Nat

VARIABLES
  up,         \* the supervisor process is running
  faces,      \* leases.leases
  externals,  \* external_reservations.leases
  worker,     \* the handle self.worker: none, alive, or exited (not yet noticed)
  stopping,   \* stop_worker is waiting for the process it signalled
  backoff,    \* next_restart_monotonic is in the future
  faults,
  call        \* [Client -> where its HailoResourceCoordinator.reserve call is]

tables     == <<faces, externals>>
device     == <<worker, stopping, backoff>>
supervisor == <<up, tables, device, faults>>
avars      == <<supervisor, call>>

Call == {"idle", "reserve", "served", "poll", "late", "granted", "failed"}

ArbiterTypeOK ==
  /\ up \in BOOLEAN
  /\ faces \subseteq FaceClient
  /\ externals \subseteq Client
  /\ worker \in {"none", "alive", "exited"}
  /\ stopping \in BOOLEAN /\ (stopping => worker = "none" /\ up)
  /\ backoff \in BOOLEAN
  /\ faults \in 0..MaxFaults
  /\ call \in [Client -> Call]

ArbiterInit ==
  /\ up = TRUE
  /\ faces = {} /\ externals = {}
  /\ worker = "none" /\ stopping = FALSE /\ backoff = FALSE
  /\ faults = 0
  /\ call = [x \in Client |-> "idle"]

(* Mutant: stop_worker waits for the process without the lock.              *)
LockFreeWhileStopping == up

LockFree == up /\ ~stopping

FaceProcess == worker = "alive" \/ stopping

------------------------------------------------------------------------------
(* reconcile(): start or stop the worker to match the two tables.           *)

Desired(f, x) == f # {} /\ x = {}

Started ==
  /\ worker' = "alive"
  /\ UNCHANGED <<stopping, backoff, faults>>

Stop ==
  /\ worker' = "none"
  /\ stopping' = (worker = "alive")
  /\ UNCHANGED <<backoff, faults>>

Reconcile(f, x) ==
  \/ Desired(f, x) /\ worker # "alive" /\ ~backoff /\ Started
  \/ Desired(f, x) /\ (worker = "alive" \/ backoff) /\ UNCHANGED <<device, faults>>
  \/ ~Desired(f, x) /\ Stop

(* Popen raised inside reconcile(): a request answers with an error but      *)
(* keeps the change it has made to the table.                               *)
StartRaises(f, x) ==
  /\ Desired(f, x) /\ worker # "alive" /\ ~backoff
  /\ faults < MaxFaults
  /\ faults' = faults + 1
  /\ UNCHANGED <<worker, stopping>>

ReconcileInRequest(f, x) ==
  \/ Reconcile(f, x)
  \/ StartRaises(f, x) /\ UNCHANGED backoff

StopEnds ==
  /\ stopping
  /\ stopping' = FALSE
  /\ UNCHANGED <<up, tables, worker, backoff, faults, call>>

------------------------------------------------------------------------------
(* Face leases.                                                             *)

Acquire(f) ==
  /\ LockFree
  /\ externals = {}
  /\ faces' = faces \cup {f}
  /\ ReconcileInRequest(faces', externals)
  /\ UNCHANGED <<up, externals, call>>

Renew(f) ==
  /\ LockFree
  /\ f \in faces
  /\ ReconcileInRequest(faces, externals)
  /\ UNCHANGED <<up, tables, call>>

Release(f) ==
  /\ LockFree
  /\ f \in faces
  /\ faces' = faces \ {f}
  /\ ReconcileInRequest(faces', externals)
  /\ UNCHANGED <<up, externals, call>>

(* Every access to a table first drops what has expired, so a lease leaves  *)
(* the table the moment its time is over, whoever holds the lock.           *)
FaceExpires(f) ==
  /\ f \in faces
  /\ faces' = faces \ {f}
  /\ UNCHANGED <<up, externals, device, faults, call>>

ReservationExpires(x) ==
  /\ x \in externals
  /\ externals' = externals \ {x}
  /\ UNCHANGED <<up, faces, device, faults, call>>

------------------------------------------------------------------------------
(* External reservations: the server side, then the caller's.               *)

(* The request is still served when its caller has given up (late).         *)
ServeReserve(x) ==
  /\ LockFree
  /\ call[x] \in {"reserve", "late"}
  /\ \/ /\ faces # {}
        /\ call' = [call EXCEPT ![x] = "failed"]
        /\ UNCHANGED supervisor
     \/ /\ faces = {}
        /\ externals' = externals \cup {x}
        /\ ReconcileInRequest(faces, externals')
        /\ call' = [call EXCEPT ![x] = IF @ = "reserve" THEN "served" ELSE "failed"]
        /\ UNCHANGED <<up, faces>>

RenewReservation(x) ==
  /\ LockFree
  /\ x \in externals
  /\ ReconcileInRequest(faces, externals)
  /\ UNCHANGED <<up, tables, call>>

(* release_external; the caller swallows every error.                       *)
ReleaseReservation(x) ==
  /\ LockFree
  /\ externals' = externals \ {x}
  /\ ReconcileInRequest(faces, externals')
  /\ UNCHANGED <<up, faces, call>>

Ask(x) ==
  /\ call[x] = "idle"
  /\ call' = [call EXCEPT ![x] = IF up THEN "reserve" ELSE "failed"]
  /\ UNCHANGED supervisor

Reply(x) ==
  /\ LockFree
  /\ call[x] = "served"
  /\ call' = [call EXCEPT ![x] = "poll"]
  /\ UNCHANGED supervisor

(* status answers "unloaded" when the handle is not that of a live process. *)
Poll(x) ==
  /\ LockFree
  /\ call[x] = "poll"
  /\ worker # "alive"
  /\ call' = [call EXCEPT ![x] = "granted"]
  /\ UNCHANGED supervisor

(* Mutant: no deadline on the polling.                                      *)
GiveUpOnSocket(x) ==
  /\ call[x] \in {"reserve", "served"}
  /\ call' = [call EXCEPT ![x] = IF @ = "reserve" /\ up THEN "late" ELSE "failed"]
  /\ UNCHANGED supervisor

(* A socket timeout or a refused connection: reserve() raises and leaves    *)
(* whatever it has reserved to the expiry.                                  *)
GiveUp(x) ==
  /\ call[x] \in {"reserve", "served", "poll"}
  /\ call' = [call EXCEPT ![x] = IF @ = "reserve" /\ up THEN "late" ELSE "failed"]
  /\ UNCHANGED supervisor

(* The six seconds of polling are over: release, then raise.                *)
PollDeadline(x) ==
  /\ LockFree
  /\ call[x] = "poll"
  /\ externals' = externals \ {x}
  /\ ReconcileInRequest(faces, externals')
  /\ call' = [call EXCEPT ![x] = "failed"]
  /\ UNCHANGED <<up, faces>>

------------------------------------------------------------------------------
(* The maintenance thread, every 0.25 s, and what happens to the processes. *)

(* Mutant: the thread clears the handle but leaves the rest to requests.    *)
MaintainClearing ==
  /\ LockFree
  /\ worker = "exited"
  /\ worker' = "none"
  /\ backoff' = TRUE
  /\ UNCHANGED <<up, tables, stopping, faults, call>>

Maintain ==
  /\ LockFree
  /\ \/ /\ worker = "exited"
        /\ worker' = "none"
        /\ backoff' = TRUE
        /\ UNCHANGED <<stopping, faults>>
     \/ /\ worker # "exited"
        /\ \/ Reconcile(faces, externals)
           \/ StartRaises(faces, externals) /\ backoff' = TRUE
  /\ UNCHANGED <<up, tables, call>>

BackoffOver ==
  /\ backoff
  /\ backoff' = FALSE
  /\ UNCHANGED <<up, tables, worker, stopping, faults, call>>

WorkerExits ==
  /\ worker = "alive"
  /\ faults < MaxFaults
  /\ worker' = "exited"
  /\ faults' = faults + 1
  /\ UNCHANGED <<up, tables, stopping, backoff, call>>

(* The service ends, its cgroup with it; the tables are in memory only.     *)
SupervisorExits ==
  /\ up
  /\ faults < MaxFaults
  /\ up' = FALSE
  /\ faces' = {} /\ externals' = {}
  /\ worker' = "none" /\ stopping' = FALSE /\ backoff' = FALSE
  /\ faults' = faults + 1
  /\ call' = [x \in Client |-> IF call[x] \in {"idle", "granted"} THEN call[x] ELSE "failed"]

(* The process of the callers dies; a request it has sent is still served.  *)
CallersDie ==
  /\ faults < MaxFaults
  /\ faults' = faults + 1
  /\ call' = [x \in Client |-> CASE call[x] = "reserve" -> "late"
                                [] call[x] \in {"served", "poll"} -> "failed"
                                [] OTHER -> call[x]]
  /\ UNCHANGED <<up, tables, device>>

SupervisorStarts ==
  /\ ~up
  /\ up' = TRUE
  /\ UNCHANGED <<tables, device, faults, call>>

------------------------------------------------------------------------------
Serve ==
  \/ \E f \in FaceClient : Acquire(f) \/ Renew(f) \/ Release(f) \/ FaceExpires(f)
  \/ Maintain \/ StopEnds \/ BackoffOver \/ WorkerExits
  \/ SupervisorExits \/ SupervisorStarts

Coordinate(x) ==
  \/ ServeReserve(x) \/ Reply(x) \/ Poll(x) \/ GiveUp(x) \/ PollDeadline(x)

ArbiterNext ==
  \/ Serve \/ CallersDie
  \/ \E x \in Client :
       \/ Ask(x) \/ Coordinate(x) \/ ReservationExpires(x)
       \/ call[x] = "granted" /\ (RenewReservation(x) \/ ReleaseReservation(x))

ArbiterFairness ==
  /\ WF_avars(StopEnds) /\ WF_avars(BackoffOver) /\ WF_avars(SupervisorStarts)
  /\ WF_avars(Maintain)

ArbiterSpec == ArbiterInit /\ [][ArbiterNext]_avars /\ ArbiterFairness

------------------------------------------------------------------------------
(* acquire and reserve_external each refuse while the other table has a     *)
(* live entry, across expiry, late requests and restarts.                   *)
TablesExclude == faces = {} \/ externals = {}

(* What reserve() promises its caller: as long as the reservation it        *)
(* returned is in the table, no face process holds the device, not even one *)
(* that is being stopped.                                                   *)
GrantExcludesFace ==
  \A x \in externals : call[x] = "granted" => ~FaceProcess

(* A face lease that stays is served: the worker starts however often it    *)
(* exits or fails to start (within the bound on faults).                    *)
FaceIsServed ==
  \A f \in FaceClient : f \in faces ~> (worker = "alive" \/ f \notin faces)
============================================================================
