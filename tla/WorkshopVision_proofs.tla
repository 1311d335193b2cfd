------------------------ MODULE WorkshopVision_proofs ------------------------
(***************************************************************************)
(* Proofs about WorkshopVision for any number of sessions, applications and *)
(* threads that launch and stop them at the same time.                      *)
(*                                                                          *)
(* Each checked invariant is a debt some thread still has to pay, and WInv  *)
(* names the debtor: a detached process is in the hands of a thread at      *)
(* "kill" (VictimsInHand), the detector belongs to a session that has not   *)
(* detached it yet (DetectorWillBeDetached), and the broker's record is a   *)
(* reservation that was granted (HeldIsGranted).  RecordInv follows the     *)
(* record itself while no two threads overlap at it.  The microphone of the *)
(* workshop, a component of its own, follows at the end.                    *)
(***************************************************************************)
EXTENDS WorkshopVision, Microphone, HailoArbiter_proofs

VictimsInHand == \A t \in Thread : victim[t] # NoOne => pc[t] = "kill"

DetectorWillBeDetached ==
  det # NoOne => \E s \in Session : pc[s] \in {"loop", "detach"}

HeldIsGranted ==
  /\ heldId # NoOne => call[heldId] = "granted"
  /\ \A s \in Session : pc[s] \in {"assign", "spawn", "loop"} => call[s] = "granted"

(* A session a thread is about to launch has not run yet.                   *)
TargetsAreOff ==
  /\ \A c \in Control : target[c] # NoOne => pc[target[c]] = "off"
  /\ \A c, d \in Control : target[c] = target[d] => target[c] = NoOne \/ c = d

WInv ==
  /\ AInv
  /\ WorkshopTypeOK
  /\ VictimsInHand
  /\ EveryDetectorOwned
  /\ DetectorWillBeDetached
  /\ HeldIsGranted
  /\ TargetsAreOff

------------------------------------------------------------------------------

(* A granted reservation stays granted, whatever the arbiter does.          *)
LEMMA GrantedStays ==
  ASSUME AInv, [ArbiterNext]_avars, NEW x \in Client, call[x] = "granted"
  PROVE  call'[x] = "granted"
<1> USE DEF AInv, ArbiterTypeOK, supervisor
<1>1. CASE Serve
  <2>1. CASE SupervisorExits
    BY <2>1 DEF SupervisorExits
  <2>2. CASE ~SupervisorExits
    BY <1>1, <2>2
    DEF Serve, Acquire, Renew, Release, FaceExpires, Maintain, StopEnds, BackoffOver,
        WorkerExits, SupervisorStarts
  <2> QED
    BY <2>1, <2>2
<1>2. CASE CallersDie
  BY <1>2 DEF CallersDie
<1>3. ASSUME NEW y \in Client,
             \/ Ask(y) \/ Coordinate(y) \/ ReservationExpires(y)
             \/ RenewReservation(y) \/ ReleaseReservation(y)
      PROVE  call'[x] = "granted"
  BY <1>3
  DEF Ask, Coordinate, ServeReserve, Reply, Poll, GiveUp, PollDeadline,
      ReservationExpires, RenewReservation, ReleaseReservation
<1>4. CASE UNCHANGED avars
  BY <1>4 DEF avars
<1> QED
  BY <1>1, <1>2, <1>3, <1>4 DEF ArbiterNext

(* Every step of the workshop is a step of the arbiter, or none.            *)
LEMMA StepIsArbiterStep == WInv /\ [WorkshopNext]_wvars => [ArbiterNext]_avars
<1> SUFFICES ASSUME WInv, [WorkshopNext]_wvars PROVE [ArbiterNext]_avars
  OBVIOUS
<1>1. CASE Serve /\ Outside
  BY <1>1 DEF ArbiterNext
<1>2. ASSUME NEW s \in Session, SessionStep(s) PROVE [ArbiterNext]_avars
  <2>1. CASE Check(s)
    BY <2>1 DEF Check, ArbiterNext, Session
  <2>2. CASE Reserved(s) \/ ReserveRaises(s) \/ Assign(s) \/ Spawn(s) \/ LoopEnds(s)
    BY <2>2 DEF Reserved, ReserveRaises, Assign, Spawn, LoopEnds
  <2>3. CASE SpawnRaises(s)
    BY <2>3 DEF SpawnRaises, ArbiterNext, Session, WInv, HeldIsGranted
  <2>4. CASE Heartbeat(s)
    <3>1. heldId \in Session /\ call[heldId] = "granted"
      BY <2>4 DEF Heartbeat, WInv, HeldIsGranted, WorkshopTypeOK
    <3> QED
      BY <2>4, <3>1 DEF Heartbeat, ArbiterNext, Session
  <2> QED
    BY <1>2, <2>1, <2>2, <2>3, <2>4 DEF SessionStep
<1>3. ASSUME NEW s \in Session, Coordinate(s) /\ Outside PROVE [ArbiterNext]_avars
  BY <1>3 DEF ArbiterNext, Session
<1>4. ASSUME NEW s \in Session, Lapses(s) /\ Outside PROVE [ArbiterNext]_avars
  BY <1>4 DEF Lapses, ArbiterNext, Session
<1>5. ASSUME NEW t \in Thread, StopVision(t) PROVE [ArbiterNext]_avars
  <2>1. CASE Detach(t) \/ Killed(t)
    BY <2>1 DEF Detach, Killed
  <2>2. CASE ReleaseHeld(t) /\ heldId # NoOne
    <3>1. heldId \in Session /\ call[heldId] = "granted"
      BY <2>2 DEF WInv, HeldIsGranted, WorkshopTypeOK
    <3> QED
      BY <2>2, <3>1 DEF ReleaseHeld, ArbiterNext, Session
  <2>3. CASE ReleaseHeld(t) /\ heldId = NoOne
    BY <2>3 DEF ReleaseHeld
  <2>4. CASE LetGo(t) \/ ClearId(t) \/ ClearApp(t)
    BY <2>4 DEF LetGo, ClearId, ClearApp
  <2> QED
    BY <1>5, <2>1, <2>2, <2>3, <2>4 DEF StopVision
<1>6. ASSUME NEW c \in Control, ControlStep(c) \/ StopRequest(c) PROVE [ArbiterNext]_avars
  BY <1>6 DEF ControlStep, StopActive, Join, Clear, StopRequest
<1>7. ASSUME NEW c \in Control, NEW s \in Session, Launch(c, s) PROVE [ArbiterNext]_avars
  BY <1>7 DEF Launch
<1>8. CASE YoloExits
  BY <1>8 DEF YoloExits
<1>9. CASE HostExits
  BY <1>9 DEF HostExits, ArbiterNext
<1>10. CASE UNCHANGED wvars
  BY <1>10 DEF wvars
<1> QED
  BY <1>1, <1>2, <1>3, <1>4, <1>5, <1>6, <1>7, <1>8, <1>9, <1>10 DEF WorkshopNext

LEMMA InitWInv == WorkshopInit => WInv
<1> SUFFICES ASSUME WorkshopInit PROVE WInv
  OBVIOUS
<1>1. AInv
  BY InitAInv DEF WorkshopInit
<1>2. pc \in [Thread -> SessionPc \cup ControlPc]
  BY DEF WorkshopInit, SessionPc, ControlPc, Dropping
<1>3. /\ \A s \in Session : pc[s] = "off"
      /\ \A c \in Control : pc[c] = "idle"
  BY WorkshopAssumption DEF WorkshopInit, Thread
<1>4. WorkshopTypeOK
  BY <1>1, <1>2, <1>3 DEF WorkshopInit, WorkshopTypeOK, AInv, SessionPc, ControlPc, Dropping
<1> QED
  BY <1>1, <1>3, <1>4
  DEF WorkshopInit, WInv, VictimsInHand, EveryDetectorOwned, DetectorWillBeDetached,
      HeldIsGranted, TargetsAreOff

(* The arbiter's own steps do not touch the workshop.                       *)
LEMMA OutsideKeeps ==
  ASSUME WInv, AInv', UNCHANGED <<pc, runtime, broker>>,
         \A x \in Client : call[x] = "granted" => call'[x] = "granted"
  PROVE  WInv'
<1> USE DEF runtime, broker, record
<1>1. WorkshopTypeOK'
  BY DEF WInv, AInv, WorkshopTypeOK
<1>2. HeldIsGranted'
  BY DEF WInv, WorkshopTypeOK, HeldIsGranted, Session
<1> QED
  BY <1>1, <1>2
  DEF WInv, VictimsInHand, EveryDetectorOwned, DetectorWillBeDetached, TargetsAreOff

(* Steps of a session outside stop_vision.                                  *)
LEMMA SessionKeeps ==
  ASSUME WInv, AInv', NEW s \in Session, SessionStep(s),
         \A x \in Client : call[x] = "granted" => call'[x] = "granted"
  PROVE  WInv'
<1> USE DEF runtime, broker, record, Goto, Thread, Dropping
<1>1. CASE Check(s)
  <2>1. WorkshopTypeOK'
    BY <1>1, WorkshopAssumption DEF Check, WInv, AInv, WorkshopTypeOK, SessionPc, ControlPc
  <2> QED
    BY <1>1, <2>1
    DEF Check, WInv, WorkshopTypeOK, VictimsInHand, EveryDetectorOwned,
        DetectorWillBeDetached, HeldIsGranted, TargetsAreOff, Session
<1>2. CASE Reserved(s)
  <2>1. WorkshopTypeOK'
    BY <1>2, WorkshopAssumption DEF Reserved, WInv, AInv, WorkshopTypeOK, SessionPc, ControlPc
  <2> QED
    BY <1>2, <2>1
    DEF Reserved, WInv, WorkshopTypeOK, VictimsInHand, EveryDetectorOwned,
        DetectorWillBeDetached, HeldIsGranted, TargetsAreOff, Session, avars
<1>3. CASE ReserveRaises(s)
  <2>1. WorkshopTypeOK'
    BY <1>3, WorkshopAssumption DEF ReserveRaises, WInv, AInv, WorkshopTypeOK, SessionPc, ControlPc
  <2> QED
    BY <1>3, <2>1
    DEF ReserveRaises, WInv, WorkshopTypeOK, VictimsInHand, EveryDetectorOwned,
        DetectorWillBeDetached, HeldIsGranted, TargetsAreOff, Session, avars
<1>4. CASE Assign(s)
  <2>1. WorkshopTypeOK'
    BY <1>4, WorkshopAssumption DEF Assign, WInv, AInv, WorkshopTypeOK, SessionPc, ControlPc
  <2> QED
    BY <1>4, <2>1
    DEF Assign, WInv, WorkshopTypeOK, VictimsInHand, EveryDetectorOwned,
        DetectorWillBeDetached, HeldIsGranted, TargetsAreOff, Session, avars
<1>5. CASE Spawn(s)
  <2>1. WorkshopTypeOK'
    BY <1>5, WorkshopAssumption DEF Spawn, WInv, AInv, WorkshopTypeOK, SessionPc, ControlPc
  <2> QED
    BY <1>5, <2>1
    DEF Spawn, WInv, WorkshopTypeOK, VictimsInHand, EveryDetectorOwned,
        DetectorWillBeDetached, HeldIsGranted, TargetsAreOff, Session, avars
<1>6. CASE SpawnRaises(s)
  <2>1. WorkshopTypeOK'
    BY <1>6, WorkshopAssumption DEF SpawnRaises, WInv, AInv, WorkshopTypeOK, SessionPc, ControlPc
  <2> QED
    BY <1>6, <2>1
    DEF SpawnRaises, WInv, WorkshopTypeOK, VictimsInHand, EveryDetectorOwned,
        DetectorWillBeDetached, HeldIsGranted, TargetsAreOff, Session
<1>7. CASE Heartbeat(s)
  BY <1>7, OutsideKeeps DEF Heartbeat
<1>8. CASE LoopEnds(s)
  <2>1. WorkshopTypeOK'
    BY <1>8, WorkshopAssumption DEF LoopEnds, WInv, AInv, WorkshopTypeOK, SessionPc, ControlPc
  <2> QED
    BY <1>8, <2>1
    DEF LoopEnds, WInv, WorkshopTypeOK, VictimsInHand, EveryDetectorOwned,
        DetectorWillBeDetached, HeldIsGranted, TargetsAreOff, Session, avars
<1> QED
  BY <1>1, <1>2, <1>3, <1>4, <1>5, <1>6, <1>7, <1>8 DEF SessionStep

(* stop_vision, in the thread of a session or in one that serves a request. *)
LEMMA StopVisionKeeps ==
  ASSUME WInv, AInv', NEW t \in Thread, StopVision(t),
         \A x \in Client : call[x] = "granted" => call'[x] = "granted"
  PROVE  WInv'
<1> USE DEF runtime, broker, record, Goto, Dropping
<1>0. TargetsAreOff'
  BY WorkshopAssumption
  DEF StopVision, Detach, Killed, LetGo, ReleaseHeld, ClearId, ClearApp, After, Thread, WInv, WorkshopTypeOK, TargetsAreOff
<1>1. CASE Detach(t)
  <2>1. WorkshopTypeOK'
    BY <1>1, WorkshopAssumption DEF Detach, Thread, WInv, AInv, WorkshopTypeOK, SessionPc, ControlPc
  <2>2. victim[t] = NoOne
    BY <1>1 DEF Detach, WInv, VictimsInHand
  <2>3. yolo \subseteq Session /\ NoOne \notin yolo
    BY WorkshopAssumption DEF WInv, WorkshopTypeOK
  <2>4. EveryDetectorOwned'
    BY <1>1, <2>2, <2>3 DEF Detach, WInv, WorkshopTypeOK, EveryDetectorOwned
  <2>5. VictimsInHand' /\ DetectorWillBeDetached' /\ HeldIsGranted'
    BY <1>1, WorkshopAssumption
    DEF Detach, Thread, WInv, WorkshopTypeOK, VictimsInHand, DetectorWillBeDetached,
        HeldIsGranted, Session
  <2> QED
    BY <1>0, <2>1, <2>4, <2>5 DEF WInv
<1>2. CASE Killed(t)
  <2>1. WorkshopTypeOK'
    BY <1>2, WorkshopAssumption DEF Killed, Thread, WInv, AInv, WorkshopTypeOK, SessionPc, ControlPc
  <2>2. EveryDetectorOwned'
    BY <1>2 DEF Killed, WInv, WorkshopTypeOK, EveryDetectorOwned
  <2>3. VictimsInHand' /\ HeldIsGranted'
    BY <1>2, WorkshopAssumption
    DEF Killed, Thread, WInv, WorkshopTypeOK, VictimsInHand, HeldIsGranted, Session
  <2>4. DetectorWillBeDetached'
    BY <1>2, WorkshopAssumption
    DEF Killed, Thread, WInv, WorkshopTypeOK, DetectorWillBeDetached
  <2> QED
    BY <1>0, <2>1, <2>2, <2>3, <2>4 DEF WInv
<1>3. CASE LetGo(t) \/ ReleaseHeld(t) \/ ClearId(t) \/ ClearApp(t)
  <2>0. /\ pc[t] \in {"letgo", "undoId", "undoApp"} \cup Dropping
        /\ \E label \in {"undoApp", "detach", "done", "clear"} \cup Dropping :
             /\ pc' = [pc EXCEPT ![t] = label]
             /\ t \in Session => label # "clear"
             /\ t \in Control => label \in ControlPc /\ label # "detach"
        /\ heldId' = heldId \/ heldId' = NoOne
        /\ heldApp' = heldApp \/ heldApp' = NoOne
        /\ UNCHANGED <<runtime, det, yolo, victim>>
    BY <1>3, WorkshopAssumption
    DEF LetGo, ReleaseHeld, ClearId, ClearApp, After, Thread, WInv, WorkshopTypeOK, ControlPc
  <2>1. WorkshopTypeOK'
    BY <2>0, WorkshopAssumption
    DEF Thread, WInv, AInv, WorkshopTypeOK, SessionPc, ControlPc
  <2>2. VictimsInHand' /\ EveryDetectorOwned'
    BY <2>0 DEF WInv, WorkshopTypeOK, VictimsInHand, EveryDetectorOwned
  <2>3. DetectorWillBeDetached'
    BY <2>0 DEF Thread, WInv, WorkshopTypeOK, DetectorWillBeDetached
  <2>4. HeldIsGranted'
    BY <2>0 DEF Thread, WInv, WorkshopTypeOK, HeldIsGranted, Session
  <2> QED
    BY <1>0, <2>1, <2>2, <2>3, <2>4 DEF WInv
<1> QED
  BY <1>1, <1>2, <1>3 DEF StopVision

(* Launches and stops move only the threads that serve them, and the        *)
(* session they start.                                                      *)
LEMMA ControlKeeps ==
  ASSUME WInv, AInv', NEW c \in Control,
         \/ ControlStep(c) \/ StopRequest(c)
         \/ \E s \in Session : Launch(c, s)
  PROVE  WInv'
<1> USE DEF runtime, broker, record, Goto, Dropping
<1>0. ASSUME Clear(c)
      PROVE  /\ UNCHANGED <<record, det, yolo, victim, call>>
             /\ pc[c] = "clear" /\ pc'[c] = "idle"
             /\ pc' \in [Thread -> SessionPc \cup ControlPc]
             /\ \A t \in Thread : t # c /\ t # target[c] => pc'[t] = pc[t]
             /\ target[c] # NoOne => pc[target[c]] = "off" /\ pc'[target[c]] = "check"
             /\ active' = target[c]
             /\ target' = [target EXCEPT ![c] = NoOne]
             /\ seen' = [seen EXCEPT ![c] = NoOne]
  <2>1. /\ UNCHANGED <<record, det, yolo, victim, call>>
        /\ pc[c] = "clear" /\ active' = target[c]
        /\ target' = [target EXCEPT ![c] = NoOne]
        /\ seen' = [seen EXCEPT ![c] = NoOne]
    BY <1>0 DEF Clear, avars, supervisor
  <2>2. target[c] # NoOne => target[c] \in Session /\ pc[target[c]] = "off"
    BY DEF WInv, WorkshopTypeOK, TargetsAreOff
  <2>3. \A t \in Thread : pc'[t] = CASE t = c -> "idle" [] t = target[c] -> "check" [] OTHER -> pc[t]
    BY <1>0 DEF Clear
  <2>4. pc' \in [Thread -> SessionPc \cup ControlPc]
    <3>1. \A t \in Thread : pc'[t] \in SessionPc \cup ControlPc
      BY <2>3 DEF WInv, WorkshopTypeOK, SessionPc, ControlPc
    <3>2. pc' = [t \in Thread |-> pc'[t]]
      BY <1>0 DEF Clear
    <3> QED
      BY <3>1, <3>2
  <2>5. c \in Thread /\ c # target[c]
    BY WorkshopAssumption DEF Thread, WInv, WorkshopTypeOK
  <2>6. \A t \in Thread : t # c /\ t # target[c] => pc'[t] = pc[t]
    BY <2>3
  <2>7. pc'[c] = "idle" /\ (target[c] # NoOne => pc'[target[c]] = "check")
    BY <2>2, <2>3, <2>5 DEF Thread
  <2> QED
    BY <2>1, <2>2, <2>4, <2>6, <2>7
<1>1. /\ UNCHANGED <<record, det, yolo, victim, call>>
      /\ \A s \in Session : pc[s] # "off" => pc'[s] = pc[s]
      /\ pc' \in [Thread -> SessionPc \cup ControlPc]
      /\ \A s \in Session : pc'[s] = pc[s] \/ pc'[s] = "check"
      /\ \A d \in Control : pc[d] = "kill" => pc'[d] = "kill"
  <2> USE WorkshopAssumption
  <2>1. CASE StopActive(c) \/ Join(c) \/ StopRequest(c) \/ \E s \in Session : Launch(c, s)
    BY <2>1
    DEF StopActive, Join, StopRequest, Launch, avars, supervisor, WInv, WorkshopTypeOK,
        Thread, SessionPc, ControlPc
  <2>2. CASE Clear(c)
    <3>1. \A s \in Session : s # c /\ s \in Thread
      BY WorkshopAssumption DEF Thread
    <3>2. \A s \in Session : pc'[s] = pc[s] \/ (pc[s] = "off" /\ pc'[s] = "check")
      BY <1>0, <2>2, <3>1, WorkshopAssumption DEF WInv, WorkshopTypeOK
    <3>3. \A d \in Control : pc[d] = "kill" => pc'[d] = "kill"
      <4>1. \A d \in Control : d \in Thread /\ d # target[c]
        BY WorkshopAssumption DEF Thread, WInv, WorkshopTypeOK
      <4> QED
        BY <1>0, <2>2, <4>1
    <3> QED
      BY <1>0, <2>2, <3>2, <3>3
  <2> QED
    BY <2>1, <2>2 DEF ControlStep
<1>2. WorkshopTypeOK' /\ TargetsAreOff'
  <2> USE WorkshopAssumption
  <2>1. CASE StopActive(c)
    <3>1. /\ seen' = [seen EXCEPT ![c] = active]
          /\ UNCHANGED <<active, target, victim, record, det, yolo>>
      BY <2>1 DEF StopActive, WInv, WorkshopTypeOK
    <3>2. \/ active = NoOne /\ pc' = [pc EXCEPT ![c] = "clear"]
          \/ active # NoOne /\ pc' = [pc EXCEPT ![c] = "join"]
      BY <2>1 DEF StopActive
    <3> QED
      BY <3>1, <3>2, <1>1 DEF WInv, AInv, WorkshopTypeOK, TargetsAreOff, Thread, SessionPc, ControlPc
  <2>2. CASE Join(c)
    BY <2>2 DEF Join, WInv, AInv, WorkshopTypeOK, TargetsAreOff, Thread, SessionPc, ControlPc
  <2>3. CASE Clear(c)
    <3>1. WorkshopTypeOK'
      <4>1. \A s \in Session : pc'[s] \in SessionPc
        BY <1>1 DEF WInv, WorkshopTypeOK, SessionPc
      <4>2. \A d \in Control : d # c => pc'[d] = pc[d] /\ seen'[d] = seen[d]
        <5>1. \A d \in Control : d \in Thread /\ d # target[c]
          BY WorkshopAssumption DEF Thread, WInv, WorkshopTypeOK
        <5> QED
          BY <1>0, <2>3, <5>1 DEF WInv, WorkshopTypeOK
      <4>3. /\ \A d \in Control : pc'[d] \in ControlPc
            /\ \A d \in Control :
                  pc'[d] \in {"join", "detach", "kill", "letgo"} => seen'[d] # NoOne
        <5>1. pc'[c] = "idle"
          BY <1>0, <2>3
        <5>2. ASSUME NEW d \in Control, d # c
              PROVE  /\ pc'[d] \in ControlPc
                     /\ pc'[d] \in {"join", "detach", "kill", "letgo"} => seen'[d] # NoOne
          BY <4>2, <5>2 DEF WInv, WorkshopTypeOK
        <5> QED
          BY <5>1, <5>2 DEF ControlPc
      <4>4. /\ active' \in Session \cup {NoOne} /\ target' \in [Control -> Session \cup {NoOne}]
            /\ seen' \in [Control -> Session \cup {NoOne}]
            /\ active' # NoOne => pc'[active'] # "off"
        BY <1>0, <2>3 DEF WInv, WorkshopTypeOK
      <4> QED
        <5>1. ArbiterTypeOK'
          BY DEF AInv
        <5>2. /\ pc' \in [Thread -> SessionPc \cup ControlPc]
              /\ UNCHANGED <<record, det, yolo, victim>>
          BY <1>0, <2>3
        <5>3. /\ victim' \in [Thread -> Session \cup {NoOne}]
              /\ heldId' \in Session \cup {NoOne}
              /\ heldApp' \in {App[x] : x \in Session} \cup {NoOne}
              /\ det' \in Session \cup {NoOne}
              /\ yolo' \subseteq Session
          BY <5>2 DEF WInv, WorkshopTypeOK
        <5> QED
          BY <4>1, <4>3, <4>4, <5>1, <5>2, <5>3 DEF WorkshopTypeOK
    <3>2. TargetsAreOff'
      BY <1>0, <2>3 DEF WInv, WorkshopTypeOK, TargetsAreOff, Thread
    <3> QED
      BY <3>1, <3>2
  <2>4. CASE StopRequest(c)
    BY <2>4
    DEF StopRequest, WInv, AInv, WorkshopTypeOK, TargetsAreOff, Thread, SessionPc, ControlPc
  <2>5. ASSUME NEW s \in Session, Launch(c, s) PROVE WorkshopTypeOK' /\ TargetsAreOff'
    BY <2>5 DEF Launch, WInv, AInv, WorkshopTypeOK, TargetsAreOff, Thread, SessionPc, ControlPc
  <2> QED
    BY <2>1, <2>2, <2>3, <2>4, <2>5 DEF ControlStep
<1>3. VictimsInHand' /\ EveryDetectorOwned'
  BY <1>1 DEF WInv, WorkshopTypeOK, VictimsInHand, EveryDetectorOwned, Thread, SessionPc
<1>4. DetectorWillBeDetached'
  BY <1>1 DEF WInv, DetectorWillBeDetached
<1>5. HeldIsGranted'
  BY <1>1 DEF WInv, HeldIsGranted
<1> QED
  BY <1>2, <1>3, <1>4, <1>5 DEF WInv

LEMMA NextWInv == WInv /\ [WorkshopNext]_wvars => WInv'
<1> SUFFICES ASSUME WInv, [WorkshopNext]_wvars PROVE WInv'
  OBVIOUS
<1>1. [ArbiterNext]_avars
  BY StepIsArbiterStep
<1>2. AInv'
  BY <1>1, NextAInv DEF WInv
<1>3. \A x \in Client : call[x] = "granted" => call'[x] = "granted"
  BY <1>1, GrantedStays DEF WInv
<1>4. CASE YoloExits
  <2>1. WorkshopTypeOK'
    BY <1>2, <1>4 DEF YoloExits, WInv, AInv, WorkshopTypeOK, runtime, record
  <2> QED
    BY <1>2, <1>4, <2>1
    DEF YoloExits, WInv, VictimsInHand, EveryDetectorOwned, DetectorWillBeDetached,
        HeldIsGranted, TargetsAreOff, avars, runtime, record
<1>5. CASE HostExits
  <2>1. /\ pc' \in [Thread -> SessionPc \cup ControlPc]
        /\ \A s \in Session : pc'[s] \in {"off", "done"}
        /\ \A c \in Control : pc'[c] = "idle"
    BY <1>5, WorkshopAssumption DEF HostExits, Thread, SessionPc, ControlPc
  <2>2. /\ heldId' = NoOne /\ heldApp' = NoOne /\ det' = NoOne /\ yolo' = {}
        /\ victim' = [t \in Thread |-> NoOne]
        /\ active' = NoOne
        /\ target' = [c \in Control |-> NoOne]
        /\ seen' = [c \in Control |-> NoOne]
    BY <1>5 DEF HostExits
  <2>3. WorkshopTypeOK'
    BY <1>2, <2>1, <2>2 DEF AInv, WorkshopTypeOK, SessionPc, ControlPc
  <2> QED
    BY <1>2, <2>1, <2>2, <2>3
    DEF WInv, VictimsInHand, EveryDetectorOwned, DetectorWillBeDetached, HeldIsGranted,
        TargetsAreOff
<1>6. CASE \/ Serve /\ Outside
           \/ \E s \in Session : (Coordinate(s) \/ Lapses(s)) /\ Outside
  BY <1>2, <1>3, <1>6, OutsideKeeps DEF Outside
<1>7. ASSUME NEW s \in Session, SessionStep(s) PROVE WInv'
  BY <1>2, <1>3, <1>7, SessionKeeps
<1>8. ASSUME NEW t \in Thread, StopVision(t) PROVE WInv'
  BY <1>2, <1>3, <1>8, StopVisionKeeps
<1>9. ASSUME NEW c \in Control,
             ControlStep(c) \/ StopRequest(c) \/ \E s \in Session : Launch(c, s)
      PROVE  WInv'
  BY <1>2, <1>9, ControlKeeps
<1>10. CASE UNCHANGED wvars
  BY <1>2, <1>3, <1>10, OutsideKeeps DEF wvars
<1> QED
  BY <1>4, <1>5, <1>6, <1>7, <1>8, <1>9, <1>10 DEF WorkshopNext

------------------------------------------------------------------------------

THEOREM WorkshopInductive == WorkshopSpec => []WInv
BY InitWInv, NextWInv, PTL DEF WorkshopSpec

(* However many threads launch and stop applications at once, no YOLO       *)
(* process is ever lost track of.                                           *)
THEOREM DetectorsOwned == WorkshopSpec => []EveryDetectorOwned
<1>1. WInv => EveryDetectorOwned
  BY DEF WInv
<1> QED
  BY <1>1, WorkshopInductive, PTL

(* When every session has ended and no request is being served, there is no *)
(* inference process.                                                       *)
THEOREM IdleIsQuiet == WorkshopSpec => []IdleMeansNoInference
<1>1. WInv => IdleMeansNoInference
  <2> SUFFICES ASSUME WInv, Quiet PROVE yolo = {} /\ det = NoOne
    BY DEF IdleMeansNoInference
  <2>1. \A t \in Thread : pc[t] # "kill"
    BY DEF Quiet, Thread
  <2>2. \A t \in Thread : victim[t] = NoOne
    BY <2>1 DEF WInv, VictimsInHand
  <2>3. det = NoOne
    BY DEF WInv, Quiet, DetectorWillBeDetached
  <2>4. NoOne \notin yolo
    BY WorkshopAssumption DEF WInv, WorkshopTypeOK
  <2> QED
    BY <2>2, <2>3, <2>4 DEF WInv, EveryDetectorOwned
<1> QED
  BY <1>1, WorkshopInductive, PTL

(* What a thread at the record has already done to it.                      *)
RecordInv ==
  /\ \A s \in Session : pc[s] = "assign" => heldId = s
  /\ \A t \in Thread : pc[t] \in {"undoApp", "dropApp"} => heldId = NoOne
  /\ HeldWillBeReleased

WillLetGo == {"spawn", "loop", "detach", "kill", "letgo"}

(* Steps away from the record, by which no session passes its LetGo.        *)
LEMMA RecordStays ==
  ASSUME WInv, RecordInv, UNCHANGED record,
         \A t \in Thread : \/ pc'[t] = pc[t]
                           \/ /\ pc[t] \notin AtRecord /\ pc'[t] \notin AtRecord
                              /\ t \in Session /\ pc[t] \in WillLetGo => pc'[t] \in WillLetGo
  PROVE  RecordInv'
<1> USE DEF record, Thread, Dropping, AtRecord
<1>1. \A s \in Session : pc'[s] = "assign" => heldId' = s
  BY DEF RecordInv
<1>2. \A t \in Thread : pc'[t] \in {"undoApp", "dropApp"} => heldId' = NoOne
  BY DEF RecordInv
<1>3. HeldWillBeReleased'
  BY DEF RecordInv, HeldWillBeReleased, WillLetGo
<1> QED
  BY <1>1, <1>2, <1>3 DEF RecordInv

(* The steps at the record, of the only thread there.                       *)
LEMMA RecordMoves ==
  ASSUME WInv, RecordInv, OneAtTheRecord, OneAtTheRecord', NEW t \in Thread,
         \/ t \in Session /\ (Reserved(t) \/ Assign(t) \/ SpawnRaises(t))
         \/ LetGo(t) \/ ReleaseHeld(t) \/ ClearId(t) \/ ClearApp(t)
  PROVE  RecordInv'
<1> USE WorkshopAssumption DEF Goto
<1>1. pc \in [Thread -> SessionPc \cup ControlPc]
  BY DEF WInv, WorkshopTypeOK
<1>2. \A s \in Session : s \in Thread
  BY DEF Thread
<1>3. ASSUME pc[t] \in AtRecord \/ pc'[t] \in AtRecord,
             \A u \in Thread : u # t => pc'[u] = pc[u]
      PROVE  \A u \in Thread : u # t => pc[u] \notin AtRecord /\ pc'[u] \notin AtRecord
  BY <1>3 DEF OneAtTheRecord
<1>4. \A u \in Thread : u # t => pc'[u] = pc[u]
  BY <1>1 DEF Reserved, Assign, SpawnRaises, LetGo, ReleaseHeld, ClearId, ClearApp
<1>5. CASE t \in Session /\ Reserved(t)
  <2>1. heldId' = t /\ pc'[t] = "assign"
    BY <1>1, <1>5 DEF Reserved
  <2>2. \A u \in Thread : u # t => pc'[u] \notin AtRecord
    BY <1>3, <1>4, <2>1 DEF AtRecord
  <2> QED
    BY <1>2, <2>1, <2>2 DEF RecordInv, HeldWillBeReleased, AtRecord, Dropping
<1>6. CASE t \in Session /\ Assign(t)
  <2>1. heldId' = t /\ heldApp' = App[t] /\ pc'[t] = "spawn" /\ pc[t] = "assign"
    BY <1>1, <1>6 DEF Assign, RecordInv
  <2>2. \A u \in Thread : pc'[u] \notin AtRecord
    BY <1>3, <1>4, <2>1 DEF AtRecord, Dropping
  <2> QED
    BY <1>2, <1>6, <2>1, <2>2 DEF RecordInv, HeldWillBeReleased, AtRecord, Dropping
<1>7. CASE \/ t \in Session /\ SpawnRaises(t)
           \/ LetGo(t) /\ heldApp = AppOf(t) /\ heldId # NoOne
           \/ ReleaseHeld(t)
  <2>1. pc'[t] \in {"undoId", "release", "dropId"}
    BY <1>1, <1>7 DEF SpawnRaises, LetGo, ReleaseHeld
  <2>2. \A u \in Thread : u # t => pc'[u] \notin AtRecord
    BY <1>3, <1>4, <2>1 DEF AtRecord, Dropping
  <2> QED
    BY <1>2, <2>1, <2>2 DEF RecordInv, HeldWillBeReleased, AtRecord, Dropping
<1>8. CASE ClearId(t)
  <2>1. heldId' = NoOne /\ pc'[t] \in {"undoApp", "dropApp"}
    BY <1>1, <1>8 DEF ClearId
  <2>2. \A u \in Thread : u # t => pc'[u] \notin AtRecord
    BY <1>3, <1>4, <2>1 DEF AtRecord, Dropping
  <2> QED
    BY <1>2, <2>1, <2>2 DEF RecordInv, HeldWillBeReleased, AtRecord, Dropping
<1>9. CASE ClearApp(t)
  <2>1. /\ heldId' = NoOne /\ heldApp' = NoOne
        /\ pc[t] \in {"undoApp", "dropApp"} /\ pc'[t] \in {"detach", "done", "clear"}
    BY <1>1, <1>9 DEF ClearApp, RecordInv, After
  <2>2. \A u \in Thread : pc'[u] \notin AtRecord
    BY <1>3, <1>4, <2>1 DEF AtRecord, Dropping
  <2> QED
    BY <1>2, <2>1, <2>2 DEF RecordInv, HeldWillBeReleased, AtRecord, Dropping
<1>10. CASE LetGo(t) /\ ~(heldApp = AppOf(t) /\ heldId # NoOne)
  <2>1. UNCHANGED record /\ pc[t] = "letgo" /\ pc'[t] \in {"done", "clear"}
    BY <1>1, <1>10 DEF LetGo, After, broker
  <2>2. \A u \in Thread : pc[u] \in AtRecord <=> pc'[u] \in AtRecord
    BY <1>4, <2>1 DEF AtRecord, Dropping
  <2>3. \A s \in Session : pc[s] \in WillLetGo /\ s # t => pc'[s] \in WillLetGo
    BY <1>2, <1>4
  <2>4. t \in Session => App[t] # heldApp \/ heldId = NoOne
    BY <1>10 DEF AppOf
  <2>5. HeldWillBeReleased'
    BY <2>1, <2>2, <2>3, <2>4 DEF RecordInv, HeldWillBeReleased, WillLetGo, record
  <2>6. /\ \A s \in Session : pc'[s] = "assign" => heldId' = s
        /\ \A u \in Thread : pc'[u] \in {"undoApp", "dropApp"} => heldId' = NoOne
    BY <1>2, <1>4, <2>1 DEF RecordInv, record
  <2> QED
    BY <2>5, <2>6 DEF RecordInv
<1> QED
  BY <1>5, <1>6, <1>7, <1>8, <1>9, <1>10

LEMMA NextRecordInv ==
  ASSUME WInv, RecordInv, OneAtTheRecord, OneAtTheRecord', [WorkshopNext]_wvars
  PROVE  RecordInv'
<1> USE DEF AtRecord, WillLetGo, Dropping
<1>1. pc \in [Thread -> SessionPc \cup ControlPc] /\ Thread = Session \cup Control
  BY DEF WInv, WorkshopTypeOK, Thread
<1>2. CASE HostExits
  <2>1. /\ heldId' = NoOne /\ heldApp' = NoOne
        /\ \A t \in Thread : pc'[t] \in {"idle", "off", "done"}
    BY <1>2 DEF HostExits
  <2> QED
    BY <1>1, <2>1 DEF RecordInv, HeldWillBeReleased
<1>3. ASSUME pc' = pc, UNCHANGED record PROVE RecordInv'
  BY <1>3, RecordStays
<1>4. CASE \/ Serve /\ Outside
           \/ \E s \in Session : (Coordinate(s) \/ Lapses(s)) /\ Outside
           \/ YoloExits \/ UNCHANGED wvars
           \/ \E s \in Session : Heartbeat(s)
  BY <1>3, <1>4 DEF Outside, YoloExits, Heartbeat, wvars, broker
<1>5. ASSUME NEW s \in Session,
             Check(s) \/ ReserveRaises(s) \/ Spawn(s) \/ LoopEnds(s)
      PROVE  RecordInv'
  <2>1. /\ UNCHANGED record
        /\ \/ pc[s] = "check" /\ pc' = [pc EXCEPT ![s] = "call"]
           \/ pc[s] \in {"check", "call", "loop"} /\ pc' = [pc EXCEPT ![s] = "detach"]
           \/ pc[s] = "spawn" /\ pc' = [pc EXCEPT ![s] = "loop"]
    BY <1>5 DEF Check, ReserveRaises, Spawn, LoopEnds, Goto, broker
  <2> QED
    BY <1>1, <2>1, RecordStays
<1>6. ASSUME NEW t \in Thread, Detach(t) \/ Killed(t) PROVE RecordInv'
  <2>1. /\ UNCHANGED record
        /\ \/ pc[t] = "detach" /\ pc' = [pc EXCEPT ![t] = "kill"]
           \/ pc[t] = "kill" /\ pc' = [pc EXCEPT ![t] = "letgo"]
    BY <1>6 DEF Detach, Killed, Goto
  <2> QED
    BY <1>1, <2>1, RecordStays
<1>7. ASSUME NEW c \in Control,
             ControlStep(c) \/ StopRequest(c) \/ \E s \in Session : Launch(c, s)
      PROVE  RecordInv'
  <2>1. CASE Clear(c)
    <3>1. /\ UNCHANGED record /\ pc[c] = "clear"
          /\ target[c] # NoOne => pc[target[c]] = "off"
          /\ target[c] # c
      BY <2>1, WorkshopAssumption DEF Clear, broker, WInv, WorkshopTypeOK, TargetsAreOff
    <3>2. \A t \in Thread : \/ pc'[t] = pc[t]
                            \/ pc[t] \in {"clear", "off"} /\ pc'[t] \in {"idle", "check"}
      <4>1. \A t \in Thread : pc'[t] = CASE t = c -> "idle"
                                        [] t = target[c] -> "check"
                                        [] OTHER -> pc[t]
        BY <2>1 DEF Clear
      <4>2. \A t \in Thread : t # NoOne
        BY WorkshopAssumption DEF Thread
      <4> QED
        BY <3>1, <4>1, <4>2
    <3> QED
      BY <3>1, <3>2, RecordStays
  <2>2. CASE StopActive(c) \/ Join(c) \/ StopRequest(c) \/ \E s \in Session : Launch(c, s)
    <3>1. /\ UNCHANGED record /\ pc[c] \in {"idle", "stop", "join"}
          /\ \E label \in {"stop", "clear", "join", "detach"} : pc' = [pc EXCEPT ![c] = label]
      BY <2>2 DEF StopActive, Join, StopRequest, Launch, Goto, broker
    <3>2. c \notin Session
      BY WorkshopAssumption
    <3> QED
      BY <1>1, <3>1, <3>2, RecordStays
  <2> QED
    BY <1>7, <2>1, <2>2 DEF ControlStep
<1>8. ASSUME NEW s \in Session, Reserved(s) \/ Assign(s) \/ SpawnRaises(s) PROVE RecordInv'
  BY <1>1, <1>8, RecordMoves
<1>9. ASSUME NEW t \in Thread, LetGo(t) \/ ReleaseHeld(t) \/ ClearId(t) \/ ClearApp(t)
      PROVE  RecordInv'
  BY <1>9, RecordMoves
<1> QED
  BY <1>2, <1>4, <1>5, <1>6, <1>7, <1>8, <1>9
  DEF WorkshopNext, SessionStep, StopVision

(* As long as no two threads overlap while they set or clear the broker's   *)
(* record, however often sessions overlap otherwise, the record is whole    *)
(* and belongs to a session that will clear it.                             *)
THEOREM HeldIsReleased == WorkshopSpec /\ []OneAtTheRecord => []HeldWillBeReleased
<1>1. WorkshopInit => RecordInv
  <2> SUFFICES ASSUME WorkshopInit PROVE RecordInv
    OBVIOUS
  <2>1. /\ heldId = NoOne /\ heldApp = NoOne
        /\ \A t \in Thread : pc[t] \in {"off", "idle"}
    BY DEF WorkshopInit
  <2> QED
    BY <2>1 DEF RecordInv, HeldWillBeReleased, Thread
<1>2. WInv /\ RecordInv /\ OneAtTheRecord /\ OneAtTheRecord' /\ [WorkshopNext]_wvars
        => RecordInv'
  BY NextRecordInv
<1>3. RecordInv => HeldWillBeReleased
  BY DEF RecordInv
<1> QED
  BY <1>1, <1>2, <1>3, WorkshopInductive, PTL DEF WorkshopSpec

(* The workshop drives the arbiter only through steps the arbiter allows:   *)
(* every theorem about HailoArbiter holds of the composed system.           *)
THEOREM ImplementsArbiter == WorkshopSpec => ArbiterSafety
<1>1. WorkshopInit => ArbiterInit
  BY DEF WorkshopInit
<1>2. WInv /\ [WorkshopNext]_wvars => [ArbiterNext]_avars
  BY StepIsArbiterStep
<1> QED
  BY <1>1, <1>2, WorkshopInductive, PTL DEF WorkshopSpec, ArbiterSafety

------------------------------------------------------------------------------
(* The microphone of the workshop.                                          *)

(* A pw-cat that runs is in somebody's hands: its opener is about to         *)
(* register it, its lease has a timer that is set or will be, or a thread    *)
(* has taken it to close it (open_microphone, _close_microphone_lease): what *)
(* RecordingsEnd rests on.                                                   *)
CapturesAreHeld ==
  \A s \in capturing :
    \/ at[s] = "register"
    \/ s \in leases /\ (at[s] = "timer" \/ alarm[s] = "set")
    \/ \E h \in Hand : s \in grip[h]

Unregistered == {"off", "open", "start", "register"}

(* A lease has its timer from the moment it is registered to its end.        *)
SittingOK(s) ==
  /\ at[s] \in Unregistered => s \notin leases /\ alarm[s] = "unset"
  /\ s \in leases => alarm[s] = "set" \/ (at[s] = "timer" /\ alarm[s] = "unset")
  /\ at[s] = "timer" => alarm[s] # "set"
  /\ s \in capturing => at[s] = "register" \/ s \in leases \/ \E h \in Hand : s \in grip[h]

(* A sitting that a server thread is to launch has not begun, and is its own. *)
WantedAreOff ==
  \A c, d \in Server : wanted[c] # NoSitting =>
    at[wanted[c]] = "off" /\ (wanted[c] = wanted[d] => c = d)

MicrophoneInv ==
  /\ MicrophoneTypeOK
  /\ \A s \in Sitting : SittingOK(s)
  /\ WantedAreOff

LEMMA InitMicrophoneInv == MicrophoneInit => MicrophoneInv
<1> SUFFICES ASSUME MicrophoneInit PROVE MicrophoneInv
  OBVIOUS
<1>1. /\ at \in [Sitting \cup Server -> SittingAt \cup ServerAt]
      /\ \A s \in Sitting : at[s] = "off"
  BY DEF MicrophoneInit, SittingAt, ServerAt
<1>2. /\ wanted \in [Server -> Sitting \cup {NoSitting}]
      /\ found \in [Server -> Sitting \cup {NoSitting}]
      /\ \A c \in Server : wanted[c] = NoSitting
  BY DEF MicrophoneInit
<1>3. /\ alarm \in [Sitting -> {"unset", "set", "over"}]
      /\ \A s \in Sitting : alarm[s] = "unset"
  BY DEF MicrophoneInit
<1>4. sweep \in [Hand -> SUBSET Sitting] /\ grip \in [Hand -> SUBSET Sitting]
  BY DEF MicrophoneInit
<1>5. halted = {} /\ foreground = NoSitting /\ leases = {} /\ capturing = {}
  BY DEF MicrophoneInit
<1>6. MicrophoneTypeOK
  BY <1>1, <1>2, <1>3, <1>4, <1>5 DEF MicrophoneTypeOK
<1> QED BY <1>1, <1>2, <1>3, <1>5, <1>6 DEF MicrophoneInv, SittingOK, WantedAreOff, Unregistered

(* A sitting that has registered goes on, and nothing of its lease changes.  *)
LEMMA LeaseStays ==
  ASSUME NEW s \in Sitting, SittingOK(s),
         \/ at'[s] = at[s]
         \/ at[s] # "timer" /\ at'[s] # "timer" /\ at'[s] \notin Unregistered /\ at[s] # "register",
         s \in leases' <=> s \in leases, alarm'[s] = alarm[s],
         s \in capturing' => s \in capturing,
         s \in capturing' /\ (\E h \in Hand : s \in grip[h]) => \E h \in Hand : s \in grip'[h]
  PROVE  SittingOK(s)'
BY DEF SittingOK

(* The lease is taken by one who will close its capture.                     *)
LEMMA LeaseTaken ==
  ASSUME NEW s \in Sitting, NEW h \in Hand, SittingOK(s), at'[s] \notin Unregistered,
         s \notin leases', alarm'[s] = "over", s \in grip'[h]
  PROVE  SittingOK(s)'
BY DEF SittingOK

LEMMA TakesKeeps ==
  ASSUME MicrophoneInv, NEW h \in Hand, NEW s \in Sitting, Takes(h, s),
         \/ at' = at /\ at[s] \notin Unregistered
         \/ Moves(s, "loop", "late") \/ Moves(s, "inner", "closing")
  PROVE  /\ leases' \subseteq Sitting /\ capturing' = capturing
         /\ alarm' \in [Sitting -> {"unset", "set", "over"}]
         /\ grip' \in [Hand -> SUBSET Sitting]
         /\ \A u \in Sitting : SittingOK(u)'
<1>1. /\ leases' = leases \ {s} /\ alarm' = [alarm EXCEPT ![s] = "over"]
      /\ grip' = [grip EXCEPT ![h] = @ \cup {s}] /\ capturing' = capturing
  BY DEF Takes
<1>2. /\ leases' \subseteq Sitting /\ alarm' \in [Sitting -> {"unset", "set", "over"}]
      /\ grip' \in [Hand -> SUBSET Sitting]
  BY <1>1 DEF MicrophoneInv, MicrophoneTypeOK
<1>3. s \notin leases' /\ alarm'[s] = "over" /\ s \in grip'[h]
  BY <1>1 DEF MicrophoneInv, MicrophoneTypeOK
<1>4. /\ at'[s] \notin Unregistered
      /\ \A u \in Sitting : u # s => at'[u] = at[u]
  BY DEF Moves, Unregistered, MicrophoneInv, MicrophoneTypeOK
<1>5. SittingOK(s)'
  BY <1>3, <1>4, LeaseTaken DEF MicrophoneInv
<1>6. ASSUME NEW u \in Sitting, u # s PROVE SittingOK(u)'
  <2>1. (u \in leases' <=> u \in leases) /\ alarm'[u] = alarm[u]
    BY <1>1, <1>6 DEF MicrophoneInv, MicrophoneTypeOK
  <2>2. \A g \in Hand : grip[g] \subseteq grip'[g]
    BY <1>1 DEF MicrophoneInv, MicrophoneTypeOK
  <2> QED BY <1>1, <1>4, <1>6, <2>1, <2>2, LeaseStays DEF MicrophoneInv
<1> QED BY <1>1, <1>2, <1>5, <1>6

(* What is wanted stays off while no sitting that is off begins.             *)
LEMMA WantedStay ==
  ASSUME MicrophoneInv, wanted' = wanted,
         \A s \in Sitting : at[s] = "off" => at'[s] = "off"
  PROVE  WantedAreOff'
BY DEF MicrophoneInv, MicrophoneTypeOK, WantedAreOff

LEMMA ThreadMoves ==
  ASSUME MicrophoneInv, NEW t \in Sitting \cup Server, NEW a, NEW b \in SittingAt \cup ServerAt,
         Moves(t, a, b)
  PROVE  /\ at' \in [Sitting \cup Server -> SittingAt \cup ServerAt]
         /\ at[t] = a /\ at'[t] = b
         /\ \A u \in Sitting \cup Server : u # t => at'[u] = at[u]
BY DEF Moves, MicrophoneInv, MicrophoneTypeOK

(* Steps that move one thread and leave leases and captures alone.           *)
LEMMA OnlyMoves ==
  ASSUME MicrophoneInv, UNCHANGED <<leases, capturing, alarm, grip>>,
         \A s \in Sitting :
           \/ at'[s] = at[s]
           \/ at[s] # "timer" /\ at'[s] # "timer" /\ at'[s] \notin Unregistered /\ at[s] # "register"
           \/ at[s] = "off" /\ at'[s] = "open"
  PROVE  \A s \in Sitting : SittingOK(s)'
<1> SUFFICES ASSUME NEW s \in Sitting PROVE SittingOK(s)'
  OBVIOUS
<1>1. SittingOK(s)
  BY DEF MicrophoneInv
<1>2. CASE \/ at'[s] = at[s]
           \/ at[s] # "timer" /\ at'[s] # "timer" /\ at'[s] \notin Unregistered /\ at[s] # "register"
  BY <1>1, <1>2, LeaseStays
<1>3. CASE at[s] = "off" /\ at'[s] = "open"
  BY <1>1, <1>3 DEF SittingOK, Unregistered
<1> QED BY <1>2, <1>3

LEMMA OpeningKeeps == ASSUME MicrophoneInv, NEW s \in Sitting, Opening(s) PROVE MicrophoneInv'
<1> USE DEF SittingAt, ServerAt
<1> DEFINE Sent(a, b) ==
             /\ at' \in [Sitting \cup Server -> SittingAt \cup ServerAt]
             /\ at[s] = a /\ at'[s] = b
             /\ \A u \in Sitting : u # s => at'[u] = at[u]
<1>1. ASSUME NEW a, NEW b \in SittingAt, Moves(s, a, b) PROVE Sent(a, b)
  BY <1>1, ThreadMoves
<1>2. CASE Opens(s) \/ Reads(s)
  <2>1. UNCHANGED <<halted, foreground, wanted, found, leases, capturing, alarm, sweep, grip>>
    BY <1>2 DEF Opens, Reads, seats, sound
  <2>2. \/ Sent("open", "start") \/ Sent("open", "outer")
        \/ Sent("read", "loop") \/ Sent("read", "inner")
    BY <1>1, <1>2 DEF Opens, Reads
  <2>3. CASE Sent("open", "start")
    <3>1. SittingOK(s)'
      BY <2>1, <2>3 DEF MicrophoneInv, SittingOK, Unregistered
    <3>2. ASSUME NEW u \in Sitting, u # s PROVE SittingOK(u)'
      BY <2>1, <2>3, <3>2, LeaseStays DEF MicrophoneInv
    <3>3. WantedAreOff'
      BY <2>1, <2>3, WantedStay
    <3> QED BY <2>1, <2>3, <3>1, <3>2, <3>3 DEF MicrophoneInv, MicrophoneTypeOK
  <2>4. CASE Sent("open", "outer") \/ Sent("read", "loop") \/ Sent("read", "inner")
    <3>1. \A u \in Sitting : SittingOK(u)'
      BY <2>1, <2>4, OnlyMoves DEF Unregistered
    <3>2. WantedAreOff'
      BY <2>1, <2>4, WantedStay
    <3> QED BY <2>1, <2>4, <3>1, <3>2 DEF MicrophoneInv, MicrophoneTypeOK
  <2> QED BY <2>2, <2>3, <2>4
<1>3. CASE StartsCapture(s)
  <2>1. UNCHANGED <<halted, foreground, wanted, found, leases, alarm, sweep, grip>>
    BY <1>3 DEF StartsCapture, seats
  <2>2. CASE Moves(s, "start", "outer") /\ UNCHANGED capturing
    <3>0. Sent("start", "outer")
      BY <1>1, <2>2
    <3>1. \A u \in Sitting : SittingOK(u)'
      BY <2>1, <2>2, <3>0, OnlyMoves DEF Unregistered
    <3>2. WantedAreOff'
      BY <2>1, <3>0, WantedStay
    <3> QED BY <2>1, <2>2, <3>0, <3>1, <3>2 DEF MicrophoneInv, MicrophoneTypeOK
  <2>3. CASE Moves(s, "start", "register") /\ capturing' = capturing \cup {s}
    <3>0. Sent("start", "register")
      BY <1>1, <2>3
    <3>1. SittingOK(s)'
      BY <2>1, <2>3, <3>0 DEF MicrophoneInv, SittingOK, Unregistered
    <3>2. ASSUME NEW u \in Sitting, u # s PROVE SittingOK(u)'
      BY <2>1, <2>3, <3>0, <3>2, LeaseStays DEF MicrophoneInv
    <3>3. WantedAreOff'
      BY <2>1, <3>0, WantedStay
    <3> QED BY <2>1, <2>3, <3>0, <3>1, <3>2, <3>3 DEF MicrophoneInv, MicrophoneTypeOK
  <2> QED BY <1>3, <2>2, <2>3 DEF StartsCapture
<1>4. CASE Registers(s)
  <2>1. /\ UNCHANGED <<halted, foreground, wanted, found, capturing, alarm, sweep, grip>>
        /\ leases' = leases \cup {s} /\ Sent("register", "timer")
    BY <1>1, <1>4 DEF Registers, seats
  <2>2. SittingOK(s)'
    BY <2>1 DEF MicrophoneInv, SittingOK, Unregistered
  <2>3. ASSUME NEW u \in Sitting, u # s PROVE SittingOK(u)'
    BY <2>1, <2>3, LeaseStays DEF MicrophoneInv
  <2>4. WantedAreOff'
    BY <2>1, WantedStay
  <2> QED BY <2>1, <2>2, <2>3, <2>4 DEF MicrophoneInv, MicrophoneTypeOK
<1>5. CASE SetsTimer(s)
  <2>1. /\ UNCHANGED <<halted, foreground, wanted, found, leases, capturing, sweep, grip>>
        /\ Sent("timer", "loop")
    BY <1>1, <1>5 DEF SetsTimer, seats
  <2>2. /\ alarm' \in [Sitting -> {"unset", "set", "over"}]
        /\ alarm'[s] = IF alarm[s] = "over" THEN "over" ELSE "set"
        /\ \A u \in Sitting : u # s => alarm'[u] = alarm[u]
    BY <1>5 DEF SetsTimer, MicrophoneInv, MicrophoneTypeOK
  <2>3. SittingOK(s)'
    BY <2>1, <2>2 DEF MicrophoneInv, SittingOK, Unregistered
  <2>4. ASSUME NEW u \in Sitting, u # s PROVE SittingOK(u)'
    BY <2>1, <2>2, <2>4, LeaseStays DEF MicrophoneInv
  <2>5. WantedAreOff'
    BY <2>1, WantedStay
  <2> QED BY <2>1, <2>2, <2>3, <2>4, <2>5 DEF MicrophoneInv, MicrophoneTypeOK
<1> QED BY <1>2, <1>3, <1>4, <1>5 DEF Opening

(* The rest of the sitting's thread.                                         *)
LEMMA SittingKeeps ==
  ASSUME MicrophoneInv, NEW s \in Sitting,
         LooksUp(s) \/ LeavesLoop(s) \/ InnerFinally(s) \/ OuterFinally(s) \/ SittingEnds(s)
  PROVE  MicrophoneInv'
<1> USE DEF SittingAt, ServerAt
<1> DEFINE Sent(a, b) ==
             /\ at' \in [Sitting \cup Server -> SittingAt \cup ServerAt]
             /\ at[s] = a /\ at'[s] = b
             /\ \A u \in Sitting : u # s => at'[u] = at[u]
<1>0. s \in Hand /\ UNCHANGED <<halted, foreground, wanted, found>>
  BY DEF Hand, LooksUp, LeavesLoop, InnerFinally, OuterFinally, SittingEnds, seats
<1>1. ASSUME NEW a, NEW b \in SittingAt, Moves(s, a, b) PROVE Sent(a, b)
  BY <1>1, ThreadMoves
<1>2. ASSUME UNCHANGED <<leases, capturing, alarm, grip>>, sweep' \in [Hand -> SUBSET Sitting],
             \/ Sent("loop", "inner") \/ Sent("loop", "read") \/ Sent("late", "inner")
             \/ Sent("inner", "closing") \/ Sent("closing", "sweeping")
             \/ Sent("outer", "sweeping") \/ Sent("sweeping", "done")
      PROVE  MicrophoneInv'
  <2>1. \A u \in Sitting : SittingOK(u)'
    BY <1>2, OnlyMoves DEF Unregistered
  <2>2. WantedAreOff'
    BY <1>0, <1>2, WantedStay
  <2> QED BY <1>0, <1>2, <2>1, <2>2 DEF MicrophoneInv, MicrophoneTypeOK
<1>3. ASSUME Takes(s, s), sweep' = sweep, Moves(s, "loop", "late") \/ Moves(s, "inner", "closing")
      PROVE  MicrophoneInv'
  <2>1. /\ leases' \subseteq Sitting /\ capturing' = capturing
        /\ alarm' \in [Sitting -> {"unset", "set", "over"}]
        /\ grip' \in [Hand -> SUBSET Sitting]
        /\ \A u \in Sitting : SittingOK(u)'
    BY <1>0, <1>3, TakesKeeps
  <2>2. Sent("loop", "late") \/ Sent("inner", "closing")
    BY <1>1, <1>3
  <2>3. WantedAreOff'
    BY <1>0, <2>2, WantedStay
  <2> QED BY <1>0, <1>3, <2>1, <2>2, <2>3 DEF MicrophoneInv, MicrophoneTypeOK
<1>4. ASSUME Lists(s, Program[s])
      PROVE  UNCHANGED <<leases, capturing, alarm, grip>> /\ sweep' \in [Hand -> SUBSET Sitting]
  BY <1>0, <1>4 DEF Lists, MicrophoneInv, MicrophoneTypeOK
<1>5. CASE LooksUp(s)
  <2>1. CASE (Moves(s, "loop", "inner") \/ Moves(s, "loop", "read")) /\ UNCHANGED sound
    <3>1. Sent("loop", "inner") \/ Sent("loop", "read")
      BY <1>1, <2>1
    <3>2. UNCHANGED <<leases, capturing, alarm, grip>> /\ sweep' \in [Hand -> SUBSET Sitting]
      BY <2>1 DEF sound, MicrophoneInv, MicrophoneTypeOK
    <3> QED BY <1>2, <3>1, <3>2
  <2>2. CASE Moves(s, "loop", "late") /\ Takes(s, s) /\ UNCHANGED sweep
    BY <1>3, <2>2
  <2> QED BY <1>5, <2>1, <2>2 DEF LooksUp
<1>6. CASE LeavesLoop(s) \/ SittingEnds(s)
  <2>1. Sent("loop", "inner") \/ Sent("late", "inner") \/ Sent("sweeping", "done")
    BY <1>1, <1>6 DEF LeavesLoop, SittingEnds
  <2>2. UNCHANGED <<leases, capturing, alarm, grip>> /\ sweep' \in [Hand -> SUBSET Sitting]
    BY <1>6 DEF LeavesLoop, SittingEnds, sound, MicrophoneInv, MicrophoneTypeOK
  <2> QED BY <1>2, <2>1, <2>2
<1>7. CASE InnerFinally(s)
  <2>1. Moves(s, "inner", "closing") /\ Sent("inner", "closing")
    BY <1>1, <1>7 DEF InnerFinally
  <2>2. CASE s \in leases /\ Takes(s, s) /\ UNCHANGED sweep
    BY <1>3, <2>1, <2>2
  <2>3. CASE UNCHANGED <<leases, alarm, grip, capturing, sweep>>
    <3>1. sweep' \in [Hand -> SUBSET Sitting]
      BY <2>3 DEF MicrophoneInv, MicrophoneTypeOK
    <3> QED BY <1>2, <2>1, <2>3, <3>1
  <2>4. CASE Lists(s, Program[s])
    BY <1>2, <1>4, <2>1, <2>4
  <2> QED BY <1>7, <2>2, <2>3, <2>4 DEF InnerFinally, TakesIfThere
<1>8. CASE OuterFinally(s)
  <2>1. Lists(s, Program[s]) /\ (Moves(s, "closing", "sweeping") \/ Moves(s, "outer", "sweeping"))
    BY <1>8 DEF OuterFinally
  <2>2. Sent("closing", "sweeping") \/ Sent("outer", "sweeping")
    BY <1>1, <2>1
  <2> QED BY <1>2, <1>4, <2>1, <2>2
<1> QED BY <1>5, <1>6, <1>7, <1>8

(* Timers, and whoever closes what was listed or taken.                      *)
LEMMA ClosingKeeps ==
  ASSUME MicrophoneInv,
         (\E s \in Sitting : Expires(s)) \/ (\E h \in Hand : Closes(h) \/ Sweeps(h))
  PROVE  MicrophoneInv'
<1>0. UNCHANGED <<at, halted, foreground, wanted, found>>
  BY DEF Expires, Closes, Sweeps, seats
<1>1. WantedAreOff'
  BY <1>0, WantedStay
<1>2. ASSUME NEW h \in Hand, NEW s \in Sitting, Takes(h, s), at[s] \notin Unregistered,
             sweep' \in [Hand -> SUBSET Sitting]
      PROVE  MicrophoneInv'
  <2>1. /\ leases' \subseteq Sitting /\ capturing' = capturing
        /\ alarm' \in [Sitting -> {"unset", "set", "over"}]
        /\ grip' \in [Hand -> SUBSET Sitting]
        /\ \A u \in Sitting : SittingOK(u)'
    BY <1>0, <1>2, TakesKeeps
  <2> QED BY <1>0, <1>1, <1>2, <2>1 DEF MicrophoneInv, MicrophoneTypeOK
<1>3. ASSUME NEW s \in Sitting, Expires(s) PROVE MicrophoneInv'
  <2>1. Takes(Alarm(s), s) /\ alarm[s] = "set" /\ sweep' = sweep
    BY <1>3 DEF Expires
  <2>2. at[s] \notin Unregistered
    BY <2>1 DEF MicrophoneInv, SittingOK
  <2>3. Alarm(s) \in Hand /\ sweep' \in [Hand -> SUBSET Sitting]
    BY <2>1 DEF Hand, MicrophoneInv, MicrophoneTypeOK
  <2> QED BY <1>2, <2>1, <2>2, <2>3
<1>4. ASSUME NEW h \in Hand, Closes(h) PROVE MicrophoneInv'
  <2> PICK s \in grip[h] : /\ capturing' = capturing \ {s}
                           /\ grip' = [grip EXCEPT ![h] = @ \ {s}]
                           /\ UNCHANGED <<leases, alarm, sweep>>
    BY <1>4 DEF Closes
  <2>1. capturing' \subseteq Sitting /\ grip' \in [Hand -> SUBSET Sitting]
    BY DEF MicrophoneInv, MicrophoneTypeOK
  <2>2. ASSUME NEW u \in Sitting PROVE SittingOK(u)'
    <3>1. u \in capturing' => u \in capturing /\ u # s
      OBVIOUS
    <3>2. u # s => \A g \in Hand : u \in grip[g] => u \in grip'[g]
      BY DEF MicrophoneInv, MicrophoneTypeOK
    <3> QED BY <1>0, <3>1, <3>2, LeaseStays DEF MicrophoneInv
  <2> QED BY <1>0, <1>1, <2>1, <2>2 DEF MicrophoneInv, MicrophoneTypeOK
<1>5. ASSUME NEW h \in Hand, Sweeps(h) PROVE MicrophoneInv'
  <2> PICK s \in sweep[h] : TakesIfThere(h, s) /\ sweep' = [sweep EXCEPT ![h] = @ \ {s}]
    BY <1>5 DEF Sweeps
  <2>1. s \in Sitting /\ sweep' \in [Hand -> SUBSET Sitting]
    BY DEF MicrophoneInv, MicrophoneTypeOK
  <2>2. CASE s \in leases
    <3>1. Takes(h, s)
      BY <2>2 DEF TakesIfThere
    <3>2. at[s] \notin Unregistered
      BY <2>1, <2>2 DEF MicrophoneInv, SittingOK
    <3> QED BY <1>2, <2>1, <3>1, <3>2
  <2>3. CASE s \notin leases
    <3>1. UNCHANGED <<leases, alarm, grip, capturing>>
      BY <2>3 DEF TakesIfThere
    <3>2. \A u \in Sitting : SittingOK(u)'
      BY <1>0, <3>1, OnlyMoves
    <3> QED BY <1>0, <1>1, <2>1, <3>1, <3>2 DEF MicrophoneInv, MicrophoneTypeOK
  <2> QED BY <2>2, <2>3
<1> QED BY <1>3, <1>4, <1>5

(* The threads that serve launch and stop requests.                          *)
LEMMA ServerKeeps ==
  ASSUME MicrophoneInv, NEW c \in Server,
         Asked(c) \/ StopsForeground(c) \/ Joins(c) \/ Silenced(c) \/ Replaces(c)
  PROVE  MicrophoneInv'
<1> USE MicrophoneAssumption DEF SittingAt, ServerAt
<1>0. UNCHANGED <<leases, capturing, alarm, grip>> /\ sweep' \in [Hand -> SUBSET Sitting]
  <2>1. c \in Hand
    BY DEF Hand
  <2>2. CASE Joins(c)
    BY <2>1, <2>2 DEF Joins, Lists, MicrophoneInv, MicrophoneTypeOK
  <2>3. CASE Asked(c) \/ StopsForeground(c) \/ Silenced(c) \/ Replaces(c)
    BY <2>3 DEF Asked, StopsForeground, Silenced, Replaces, sound, MicrophoneInv, MicrophoneTypeOK
  <2> QED BY <2>2, <2>3
<1>1. ASSUME NEW a, NEW b \in ServerAt, Moves(c, a, b)
      PROVE  /\ at' \in [Sitting \cup Server -> SittingAt \cup ServerAt]
             /\ \A s \in Sitting : at'[s] = at[s]
             /\ \A s \in Sitting : SittingOK(s)'
  <2>1. /\ at' \in [Sitting \cup Server -> SittingAt \cup ServerAt]
        /\ \A s \in Sitting : at'[s] = at[s]
    BY <1>1, ThreadMoves
  <2>2. \A s \in Sitting : SittingOK(s)'
    BY <1>0, <2>1, OnlyMoves
  <2> QED BY <2>1, <2>2
<1>2. CASE StopsForeground(c) \/ Joins(c) \/ Silenced(c)
  <2>1. /\ at' \in [Sitting \cup Server -> SittingAt \cup ServerAt]
        /\ \A s \in Sitting : at'[s] = at[s]
        /\ \A s \in Sitting : SittingOK(s)'
    BY <1>1, <1>2 DEF StopsForeground, Joins, Silenced
  <2>2. /\ UNCHANGED <<foreground, wanted>> /\ halted' \subseteq Sitting
        /\ found' \in [Server -> Sitting \cup {NoSitting}]
    BY <1>2 DEF StopsForeground, Joins, Silenced, seats, MicrophoneInv, MicrophoneTypeOK
  <2>3. WantedAreOff'
    BY <2>1, <2>2, WantedStay
  <2> QED BY <1>0, <2>1, <2>2, <2>3 DEF MicrophoneInv, MicrophoneTypeOK
<1>3. CASE Asked(c)
  <2>1. /\ at' \in [Sitting \cup Server -> SittingAt \cup ServerAt]
        /\ \A s \in Sitting : at'[s] = at[s]
        /\ \A s \in Sitting : SittingOK(s)'
    BY <1>1, <1>3 DEF Asked
  <2>2. UNCHANGED <<halted, foreground, found>>
    BY <1>3 DEF Asked
  <2>3. CASE UNCHANGED wanted
    <3>1. WantedAreOff'
      BY <2>1, <2>3, WantedStay
    <3> QED BY <1>0, <2>1, <2>2, <2>3, <3>1 DEF MicrophoneInv, MicrophoneTypeOK
  <2>4. ASSUME NEW s \in Sitting, at[s] = "off", \A d \in Server : wanted[d] # s,
               wanted' = [wanted EXCEPT ![c] = s]
        PROVE  MicrophoneInv'
    <3>1. wanted' \in [Server -> Sitting \cup {NoSitting}]
          /\ wanted'[c] = s /\ \A d \in Server : d # c => wanted'[d] = wanted[d]
      BY <2>4 DEF MicrophoneInv, MicrophoneTypeOK
    <3>2. ASSUME NEW d \in Server, NEW e \in Server, wanted'[d] # NoSitting
          PROVE  at'[wanted'[d]] = "off" /\ (wanted'[d] = wanted'[e] => d = e)
      <4>1. at[wanted'[d]] = "off" /\ wanted'[d] \in Sitting
        BY <2>4, <3>1, <3>2 DEF MicrophoneInv, WantedAreOff
      <4>2. wanted'[d] = wanted'[e] => d = e
        BY <2>4, <3>1, <3>2 DEF MicrophoneInv, WantedAreOff
      <4> QED BY <2>1, <4>1, <4>2
    <3>3. WantedAreOff'
      BY <3>2 DEF WantedAreOff
    <3> QED BY <1>0, <2>1, <2>2, <3>1, <3>3 DEF MicrophoneInv, MicrophoneTypeOK
  <2> QED BY <1>3, <2>3, <2>4 DEF Asked
<1>4. CASE Replaces(c)
  <2>1. /\ at' = [t \in Sitting \cup Server |-> CASE t = c -> "idle"
                                                  [] t = wanted[c] -> "open"
                                                  [] OTHER -> at[t]]
        /\ foreground' = wanted[c] /\ halted' = halted
        /\ wanted' = [wanted EXCEPT ![c] = NoSitting]
        /\ found' = [found EXCEPT ![c] = NoSitting]
    BY <1>4 DEF Replaces
  <2>2. c \notin Sitting /\ wanted[c] \in Sitting \cup {NoSitting}
    BY DEF MicrophoneInv, MicrophoneTypeOK
  <2>3. wanted[c] # NoSitting => at[wanted[c]] = "off"
    BY DEF MicrophoneInv, WantedAreOff
  <2>4. \A s \in Sitting : at'[s] = IF s = wanted[c] THEN "open" ELSE at[s]
    BY <2>1, <2>2
  <2>5. at' \in [Sitting \cup Server -> SittingAt \cup ServerAt]
    <3>1. \A t \in Sitting \cup Server : at[t] \in SittingAt \cup ServerAt
      BY DEF MicrophoneInv, MicrophoneTypeOK
    <3> HIDE DEF SittingAt, ServerAt
    <3>2. "idle" \in ServerAt /\ "open" \in SittingAt
      BY DEF SittingAt, ServerAt
    <3>3. \A t \in Sitting \cup Server : at'[t] \in SittingAt \cup ServerAt
      BY <2>1, <3>1, <3>2
    <3> QED BY <2>1, <3>3
  <2>6. \A s \in Sitting : SittingOK(s)'
    BY <1>0, <2>2, <2>3, <2>4, OnlyMoves
  <2>7. /\ wanted' \in [Server -> Sitting \cup {NoSitting}]
        /\ found' \in [Server -> Sitting \cup {NoSitting}]
        /\ wanted'[c] = NoSitting /\ \A d \in Server : d # c => wanted'[d] = wanted[d]
    BY <2>1 DEF MicrophoneInv, MicrophoneTypeOK
  <2>8. ASSUME NEW d \in Server, NEW e \in Server, wanted'[d] # NoSitting
        PROVE  at'[wanted'[d]] = "off" /\ (wanted'[d] = wanted'[e] => d = e)
    <3>1. d # c /\ wanted'[d] = wanted[d]
      BY <2>7, <2>8
    <3>2. /\ wanted[d] # NoSitting /\ wanted[d] # wanted[c]
          /\ at[wanted[d]] = "off" /\ wanted[d] \in Sitting
      BY <2>8, <3>1 DEF MicrophoneInv, MicrophoneTypeOK, WantedAreOff
    <3>3. wanted'[d] = wanted'[e] => d = e
      BY <2>7, <2>8, <3>1 DEF MicrophoneInv, WantedAreOff
    <3> QED BY <2>4, <3>1, <3>2, <3>3
  <2>9. WantedAreOff'
    BY <2>8 DEF WantedAreOff
  <2> QED BY <1>0, <2>1, <2>2, <2>5, <2>6, <2>7, <2>9 DEF MicrophoneInv, MicrophoneTypeOK
<1> QED BY <1>2, <1>3, <1>4

LEMMA NextMicrophoneInv == MicrophoneInv /\ [MicrophoneNext]_micVars => MicrophoneInv'
<1> SUFFICES ASSUME MicrophoneInv, [MicrophoneNext]_micVars PROVE MicrophoneInv'
  OBVIOUS
<1>1. CASE UNCHANGED micVars
  BY <1>1
  DEF micVars, MicrophoneInv, MicrophoneTypeOK, SittingOK, WantedAreOff
<1>2. ASSUME NEW s \in Sitting,
             \/ Opening(s) \/ LooksUp(s) \/ LeavesLoop(s)
             \/ InnerFinally(s) \/ OuterFinally(s) \/ SittingEnds(s)
      PROVE  MicrophoneInv'
  BY <1>2, OpeningKeeps, SittingKeeps
<1>3. CASE (\E s \in Sitting : Expires(s)) \/ (\E h \in Hand : Closes(h) \/ Sweeps(h))
  BY <1>3, ClosingKeeps
<1>4. ASSUME NEW c \in Server,
             Asked(c) \/ StopsForeground(c) \/ Joins(c) \/ Silenced(c) \/ Replaces(c)
      PROVE  MicrophoneInv'
  BY <1>4, ServerKeeps
<1> QED BY <1>1, <1>2, <1>3, <1>4 DEF MicrophoneNext

(* However an application is launched, replaced, stopped or left hanging, no *)
(* recording runs that nobody is going to close.                             *)
THEOREM NoCaptureIsLost == MicrophoneSpec => []CapturesAreHeld
<1>1. MicrophoneInv => CapturesAreHeld
  BY DEF MicrophoneInv, MicrophoneTypeOK, SittingOK, CapturesAreHeld
<1> QED BY <1>1, InitMicrophoneInv, NextMicrophoneInv, PTL DEF MicrophoneSpec
=============================================================================
