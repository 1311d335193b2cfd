------------------------- MODULE HailoArbiter_proofs -------------------------
(***************************************************************************)
(* Proofs about HailoArbiter for any sets of face clients and callers.      *)
(*                                                                          *)
(* GrantExcludesFace alone is not inductive: a reservation excludes the     *)
(* face worker from the moment it enters the table (Cleared: its handle is  *)
(* gone), and its caller hears of it only after the process has been waited *)
(* for (Waited).                                                            *)
(***************************************************************************)
EXTENDS HailoArbiter, TLAPS

Cleared == externals # {} => worker = "none"

Waited == \A x \in externals : call[x] \in {"poll", "granted"} => ~stopping

AInv ==
  /\ ArbiterTypeOK
  /\ TablesExclude
  /\ Cleared
  /\ Waited

------------------------------------------------------------------------------

(* Reconciling with no external reservation keeps the device well typed.    *)
LEMMA ReconcileTypes ==
  ASSUME NEW f, NEW x, ArbiterTypeOK, up, ~stopping, ReconcileInRequest(f, x)
  PROVE  /\ worker' \in {"none", "alive", "exited"}
         /\ stopping' \in BOOLEAN /\ (stopping' => worker' = "none")
         /\ backoff' \in BOOLEAN
         /\ faults' \in 0..MaxFaults
<1> USE ArbiterAssumption DEF ArbiterTypeOK, device
<1>1. CASE Reconcile(f, x) /\ Stop
  BY <1>1 DEF Stop
<1>2. CASE Reconcile(f, x) /\ ~Stop
  BY <1>2 DEF Reconcile, Started
<1>3. CASE StartRaises(f, x) /\ UNCHANGED backoff
  BY <1>3 DEF StartRaises
<1> QED
  BY <1>1, <1>2, <1>3 DEF ReconcileInRequest

(* Reconciling while a reservation is in the table clears the worker, and   *)
(* waits for its process only if there was one.                             *)
LEMMA ReconcileReserved ==
  ASSUME NEW f, NEW x, x # {}, ReconcileInRequest(f, x)
  PROVE  worker' = "none" /\ (stopping' => worker = "alive")
BY DEF ReconcileInRequest, Reconcile, StartRaises, Stop, Desired

LEMMA InitAInv == ArbiterInit => AInv
<1> SUFFICES ASSUME ArbiterInit PROVE AInv
  OBVIOUS
<1>1. ArbiterTypeOK
  <2>1. faults \in 0..MaxFaults
    BY ArbiterAssumption DEF ArbiterInit
  <2>2. call \in [Client -> Call]
    BY DEF ArbiterInit, Call
  <2>3. worker = "none" /\ up /\ stopping = FALSE /\ backoff = FALSE /\ up \in BOOLEAN
    BY DEF ArbiterInit
  <2> QED
    BY <2>1, <2>2, <2>3 DEF ArbiterInit, ArbiterTypeOK
<1>2. TablesExclude /\ Cleared /\ Waited
  BY DEF ArbiterInit, TablesExclude, Cleared, Waited
<1> QED
  BY <1>1, <1>2 DEF AInv

(* A request that reconciles new tables, whatever it does to its caller.    *)
LEMMA RequestAInv ==
  ASSUME AInv, LockFree, up' = up,
         faces' \subseteq FaceClient, externals' \subseteq Client,
         call' \in [Client -> Call],
         faces' = {} \/ externals' = {},
         ReconcileInRequest(faces', externals'),
         externals # {} \/ \A x \in externals' : call'[x] \notin {"poll", "granted"}
  PROVE  AInv'
<1>1. ArbiterTypeOK'
  BY ReconcileTypes DEF AInv, ArbiterTypeOK, LockFree
<1>2. externals' # {} => worker' = "none" /\ (stopping' => worker = "alive")
  BY ReconcileReserved
<1> QED
  BY <1>1, <1>2 DEF AInv, TablesExclude, Cleared, Waited

(* Every step of the supervisor, its clients and its processes keeps AInv.  *)
LEMMA NextAInv == AInv /\ [ArbiterNext]_avars => AInv'
<1> SUFFICES ASSUME AInv, [ArbiterNext]_avars PROVE AInv'
  OBVIOUS
<1> USE DEF tables, device, supervisor
<1>1. ASSUME NEW f \in FaceClient, Acquire(f) PROVE AInv'
  BY <1>1, RequestAInv DEF Acquire, AInv, ArbiterTypeOK
<1>2. ASSUME NEW f \in FaceClient, Renew(f) PROVE AInv'
  <2>1. ReconcileInRequest(faces', externals') /\ externals = externals' /\ call = call'
    BY <1>2 DEF Renew
  <2> QED
    BY <1>2, <2>1, RequestAInv DEF Renew, AInv, ArbiterTypeOK, TablesExclude
<1>3. ASSUME NEW f \in FaceClient, Release(f) PROVE AInv'
  <2>1. ReconcileInRequest(faces', externals') /\ externals = externals' /\ call = call'
    BY <1>3 DEF Release
  <2> QED
    BY <1>3, <2>1, RequestAInv DEF Release, AInv, ArbiterTypeOK, TablesExclude
<1>4. ASSUME NEW f \in FaceClient, FaceExpires(f) PROVE AInv'
  BY <1>4 DEF FaceExpires, AInv, ArbiterTypeOK, TablesExclude, Cleared, Waited
<1>5. ASSUME NEW x \in Client, ReservationExpires(x) PROVE AInv'
  BY <1>5 DEF ReservationExpires, AInv, ArbiterTypeOK, TablesExclude, Cleared, Waited
<1>6. CASE Maintain
  <2>1. LockFree /\ up' = up /\ faces' = faces /\ externals' = externals /\ call' = call
    BY <1>6 DEF Maintain
  <2>2. CASE Reconcile(faces, externals)
    <3>1. ReconcileInRequest(faces', externals')
      BY <2>1, <2>2 DEF ReconcileInRequest
    <3> QED
      BY <2>1, <3>1, RequestAInv DEF AInv, ArbiterTypeOK, TablesExclude
  <2>3. CASE worker = "exited" /\ worker' = "none" /\ backoff' = TRUE /\ UNCHANGED <<stopping, faults>>
    BY <2>1, <2>3 DEF AInv, ArbiterTypeOK, TablesExclude, Cleared, Waited
  <2>4. CASE StartRaises(faces, externals) /\ backoff' = TRUE
    BY <2>1, <2>4, ArbiterAssumption
    DEF StartRaises, LockFree, AInv, ArbiterTypeOK, TablesExclude, Cleared, Waited
  <2> QED
    BY <1>6, <2>2, <2>3, <2>4 DEF Maintain
<1>7. CASE StopEnds \/ BackoffOver
  <2>1. CASE StopEnds
    BY <2>1 DEF StopEnds, AInv, ArbiterTypeOK, TablesExclude, Cleared, Waited
  <2>2. CASE BackoffOver
    BY <2>2 DEF BackoffOver, AInv, ArbiterTypeOK, TablesExclude, Cleared, Waited
  <2> QED
    BY <1>7, <2>1, <2>2
<1>8. CASE WorkerExits
  BY <1>8, ArbiterAssumption
  DEF WorkerExits, AInv, ArbiterTypeOK, TablesExclude, Cleared, Waited
<1>9. CASE SupervisorExits \/ SupervisorStarts \/ CallersDie
  <2>1. CASE SupervisorExits
    <3>1. call' \in [Client -> Call]
      BY <2>1 DEF SupervisorExits, Call, AInv, ArbiterTypeOK
    <3>2. faults' \in 0..MaxFaults
      BY <2>1, ArbiterAssumption DEF SupervisorExits, AInv, ArbiterTypeOK
    <3>3. /\ faces' = {} /\ externals' = {} /\ worker' = "none"
          /\ up' = FALSE /\ stopping' = FALSE /\ backoff' = FALSE
      BY <2>1 DEF SupervisorExits
    <3> QED
      BY <3>1, <3>2, <3>3
      DEF AInv, ArbiterTypeOK, TablesExclude, Cleared, Waited
  <2>2. CASE SupervisorStarts
    BY <2>2 DEF SupervisorStarts, AInv, ArbiterTypeOK, TablesExclude, Cleared, Waited
  <2>3. CASE CallersDie
    <3>1. /\ call' \in [Client -> Call]
          /\ \A x \in Client : call'[x] \in {"poll", "granted"} => call'[x] = call[x]
      BY <2>3 DEF CallersDie, Call, AInv, ArbiterTypeOK
    <3> QED
      BY <2>3, <3>1, ArbiterAssumption
      DEF CallersDie, AInv, ArbiterTypeOK, TablesExclude, Cleared, Waited
  <2> QED
    BY <1>9, <2>1, <2>2, <2>3
<1>10. ASSUME NEW x \in Client, ServeReserve(x) PROVE AInv'
  <2>1. CASE faces # {} /\ UNCHANGED supervisor
    BY <1>10, <2>1
    DEF ServeReserve, Call, AInv, ArbiterTypeOK, TablesExclude, Cleared, Waited
  <2>2. CASE faces = {} /\ externals' = externals \cup {x}
    <3>1. ReconcileInRequest(faces', externals') /\ LockFree /\ up' = up /\ faces' = {}
      BY <1>10, <2>2 DEF ServeReserve
    <3>2. call' \in [Client -> Call] /\ call'[x] \in {"served", "failed"}
          /\ \A y \in Client : y # x => call'[y] = call[y]
      BY <1>10, <2>2 DEF ServeReserve, Call, AInv, ArbiterTypeOK
    <3> QED
      BY <2>2, <3>1, <3>2, RequestAInv DEF AInv, ArbiterTypeOK
  <2> QED
    BY <1>10, <2>1, <2>2 DEF ServeReserve
<1>11. ASSUME NEW x \in Client, RenewReservation(x) PROVE AInv'
  <2>1. ReconcileInRequest(faces', externals') /\ externals = externals' /\ call = call'
    BY <1>11 DEF RenewReservation
  <2> QED
    BY <1>11, <2>1, RequestAInv DEF RenewReservation, AInv, ArbiterTypeOK, TablesExclude
<1>12. ASSUME NEW x \in Client, ReleaseReservation(x) \/ PollDeadline(x) PROVE AInv'
  <2>1. /\ ReconcileInRequest(faces', externals') /\ externals' = externals \ {x}
        /\ faces' = faces /\ LockFree /\ up' = up
    BY <1>12 DEF ReleaseReservation, PollDeadline
  <2>2. call' \in [Client -> Call]
    BY <1>12 DEF ReleaseReservation, PollDeadline, Call, AInv, ArbiterTypeOK
  <2> QED
    BY <2>1, <2>2, RequestAInv DEF AInv, ArbiterTypeOK, TablesExclude
<1>13. ASSUME NEW x \in Client, Ask(x) \/ Reply(x) \/ Poll(x) \/ GiveUp(x) PROVE AInv'
  BY <1>13
  DEF Ask, Reply, Poll, GiveUp, LockFree, Call,
      AInv, ArbiterTypeOK, TablesExclude, Cleared, Waited
<1>14. CASE UNCHANGED avars
  BY <1>14 DEF avars, AInv, ArbiterTypeOK, TablesExclude, Cleared, Waited
<1> QED
  BY <1>1, <1>2, <1>3, <1>4, <1>5, <1>6, <1>7, <1>8, <1>9, <1>10, <1>11, <1>12, <1>13, <1>14
  DEF ArbiterNext, Serve, Coordinate

------------------------------------------------------------------------------

THEOREM ArbiterInductive == ArbiterSpec => []AInv
BY InitAInv, NextAInv, PTL DEF ArbiterSpec

(* At any time face leases or external reservations are in the tables,      *)
(* never both.                                                              *)
THEOREM TablesExcludeAlways == ArbiterSpec => []TablesExclude
<1>1. AInv => TablesExclude
  BY DEF AInv
<1> QED
  BY <1>1, ArbiterInductive, PTL

(* A caller that holds a granted reservation shares the device with no face *)
(* process, running or being stopped.                                       *)
THEOREM GrantExcludesFaceAlways == ArbiterSpec => []GrantExcludesFace
<1>1. AInv => GrantExcludesFace
  BY DEF AInv, GrantExcludesFace, FaceProcess, Cleared, Waited
<1> QED
  BY <1>1, ArbiterInductive, PTL
=============================================================================
