--------------------------- MODULE Services_proofs ---------------------------
(* Proofs about the gate to arXiv, the agent runtime, spoken replies, the
   voice assistant's listening and its wakes, the recovery controller and the
   health monitor, each of its own component. *)
EXTENDS ArxivAccess, AgentRuntime, SpeechSession, Listening, VoiceAssistant, Recovery,
  HealthMonitor, SequenceTheorems, TLAPS

------------------------------------------------------------------------------
(* The gate to arXiv.                                                       *)

(* The file keeps what spacing rests on: the last start is saved before its  *)
(* request leaves, and an unexpired cooldown stays until it has passed.      *)
GateInv ==
  /\ ArxivTypeOK
  /\ last <= clock /\ sent <= last
  /\ told > clock => cooldown = told
  /\ stage \in {"sleep", "send", "answer"} => cooldown <= clock
  /\ stage = "send" => last = clock /\ clock >= sent + MinInterval

LEMMA InitGateInv == ArxivInit => GateInv
BY ArxivAssumption DEF ArxivInit, GateInv, ArxivTypeOK

LEMMA NextGateInv == GateInv /\ [ArxivNext]_arxivVars => GateInv'
<1> SUFFICES ASSUME GateInv, [ArxivNext]_arxivVars PROVE GateInv'
  OBVIOUS
<1> USE ArxivAssumption DEF GateInv, ArxivTypeOK, Frees, state
<1>1. CASE ReadStatus
  BY <1>1 DEF ReadStatus
<1>2. CASE Refuses \/ Admits \/ FailsOtherwise \/ Dies
  BY <1>2 DEF Refuses, Admits, FailsOtherwise, Dies
<1>3. CASE SavesStart
  BY <1>3 DEF SavesStart
<1>4. CASE Sends
  BY <1>4 DEF Sends
<1>5. CASE Succeeds
  <2>1. told <= clock
    BY <1>5 DEF Succeeds
  <2>. QED BY <1>5, <2>1 DEF Succeeds
<1>6. CASE RateLimited
  <2>1. cooldown' \in Nat /\ cooldown' > clock
    BY <1>6 DEF RateLimited, Longer
  <2>2. next' \in DefaultCooldown..MaxCooldown
    BY <1>6 DEF RateLimited, Smaller
  <2>3. told' = Longer(told, cooldown') /\ UNCHANGED <<clock, last, sent>> /\ Frees
    BY <1>6 DEF RateLimited
  <2>4. told <= clock
    BY <1>6 DEF RateLimited
  <2>. QED BY <2>1, <2>2, <2>3, <2>4 DEF Longer
<1>7. CASE ClockTicks
  BY <1>7 DEF ClockTicks
<1>8. ASSUME NEW r \in Reader, Locks(r) PROVE GateInv'
  BY <1>8 DEF Locks
<1>9. CASE UNCHANGED arxivVars
  BY <1>9 DEF arxivVars
<1>. QED BY <1>1, <1>2, <1>3, <1>4, <1>5, <1>6, <1>7, <1>8, <1>9 DEF ArxivNext
THEOREM GateInvariant == ArxivSpec => []GateInv
BY InitGateInv, NextGateInv, PTL DEF ArxivSpec

------------------------------------------------------------------------------
(* An unexpired cooldown survives every process, for status() as well.       *)
THEOREM CooldownKept == ArxivSpec => []CooldownIsKept
<1>1. GateInv => CooldownIsKept
  BY DEF GateInv, CooldownIsKept
<1>. QED BY <1>1, GateInvariant, PTL

(* Requests are spaced and respect the cooldowns, whatever processes ask and *)
(* die (ArxivAccess.fetch_bytes).                                            *)
THEOREM RequestsSpaced == ArxivSpec => RequestsAreSpaced
<1>1. ASSUME GateInv, [ArxivNext]_arxivVars
      PROVE  [sent' # sent => sent' >= sent + MinInterval /\ sent' >= told]_arxivVars
  <2>1. CASE Sends
    <3>1. told <= clock
      BY <1>1, <2>1 DEF Sends, GateInv, ArxivTypeOK
    <3>2. clock >= sent + MinInterval
      BY <1>1, <2>1 DEF Sends, GateInv
    <3>. QED BY <1>1, <2>1, <3>1, <3>2 DEF Sends, GateInv, ArxivTypeOK
  <2>2. CASE ~Sends /\ ArxivNext
    BY <2>2 DEF ArxivNext, ReadStatus, Refuses, Admits, SavesStart, Succeeds, FailsOtherwise,
       RateLimited, Dies, ClockTicks, Locks
  <2>. QED BY <1>1, <2>1, <2>2
<1>. QED BY <1>1, GateInvariant, PTL DEF ArxivSpec, RequestsAreSpaced

------------------------------------------------------------------------------
(* The agent runtime.                                                       *)

(* A Hermes process lives only under a handler that will still see it gone,   *)
(* so that what executes is what holds a permit.                              *)
LivingIsHandled ==
  \A r \in Run : process[r] \in {"alive", "silent"} =>
    handler[r] \in {"streaming", "draining", "terminating"}

(* The semaphore wakes each waiter once, and it waits in handle() until then. *)
WaitersWait ==
  /\ \A i \in 1..Len(waiters) : handler[waiters[i]] = "queued"
  /\ \A i, j \in 1..Len(waiters) : waiters[i] = waiters[j] => i = j

UncalledIsUnknown == \A r \in Run : caller[r] = "idle" => handler[r] = "none"

AgentInv == AgentTypeOK /\ LivingIsHandled /\ WaitersWait /\ UncalledIsUnknown

LEMMA InitAgentInv == AgentInit => AgentInv
BY AgentAssumption DEF AgentInit, AgentInv, AgentTypeOK, LivingIsHandled, WaitersWait,
   UncalledIsUnknown, CallerState, HandlerState, ProcessState

(* The types but for the queue, of any step of one run's handler, process or  *)
(* caller.                                                                    *)
LEMMA ClientsKeepInv ==
  ASSUME AgentInv, NEW r \in Run,
         RequestRun(r) \/ ReadAnswer(r) \/ SendCancel(r) \/ CancelReturns(r) \/ CallerGone(r)
  PROVE  AgentInv'
<1> USE DEF AgentInv, AgentTypeOK, CallerState, HandlerState, ProcessState
<1>1. CASE RequestRun(r)
  BY <1>1 DEF RequestRun, LivingIsHandled, WaitersWait, UncalledIsUnknown
<1>2. CASE ReadAnswer(r)
  BY <1>2 DEF ReadAnswer, LivingIsHandled, WaitersWait, UncalledIsUnknown
<1>3. CASE SendCancel(r)
  BY <1>3 DEF SendCancel, LivingIsHandled, WaitersWait, UncalledIsUnknown
<1>4. CASE CancelReturns(r)
  BY <1>4 DEF CancelReturns, LivingIsHandled, WaitersWait, UncalledIsUnknown
<1>5. CASE CallerGone(r)
  BY <1>5 DEF CallerGone, Connected, LivingIsHandled, WaitersWait, UncalledIsUnknown
<1> QED BY <1>1, <1>2, <1>3, <1>4, <1>5

LEMMA ServiceKeepsInv ==
  ASSUME AgentInv, NEW r \in Run,
         Cancel(r) \/ Refuse(r) \/ ServiceStep(r) \/ ProcessExits(r) \/ ProcessFallsSilent(r)
  PROVE  AgentInv'
<1> USE DEF AgentInv, AgentTypeOK, CallerState, HandlerState, ProcessState
<1> USE DEF LivingIsHandled, WaitersWait, UncalledIsUnknown, Finish
<1>1. CASE Cancel(r)
  BY <1>1 DEF Cancel
<1>2. CASE Refuse(r)
  BY <1>2 DEF Refuse
<1>3. CASE Register(r)
  BY <1>3 DEF Register
<1>4. CASE TakePermit(r)
  BY <1>4 DEF TakePermit
<1>5. CASE Spawn(r)
  BY <1>5 DEF Spawn
<1>6. CASE StopRun(r)
  BY <1>6 DEF StopRun
<1>7. CASE OutputEnds(r)
  BY <1>7 DEF OutputEnds
<1>8. CASE Drained(r)
  BY <1>8 DEF Drained
<1>9. CASE Terminated(r)
  BY <1>9 DEF Terminated
<1>10. CASE ProcessExits(r)
  BY <1>10 DEF ProcessExits, Living
<1>11. CASE ProcessFallsSilent(r)
  BY <1>11 DEF ProcessFallsSilent
<1> QED BY <1>1, <1>2, <1>3, <1>4, <1>5, <1>6, <1>7, <1>8, <1>9, <1>10, <1>11 DEF ServiceStep

LEMMA RuntimeKeepsInv ==
  ASSUME AgentInv, CloseRuntime \/ RuntimeEnds \/ RuntimeStarts
  PROVE  AgentInv'
<1> USE AgentAssumption DEF AgentInv, AgentTypeOK, CallerState, HandlerState, ProcessState
<1> USE DEF LivingIsHandled, WaitersWait, UncalledIsUnknown
<1>1. CASE CloseRuntime
  BY <1>1 DEF CloseRuntime
<1>2. CASE RuntimeEnds
  BY <1>2 DEF RuntimeEnds, Living
<1>3. CASE RuntimeStarts
  BY <1>3 DEF RuntimeStarts
<1> QED BY <1>1, <1>2, <1>3

LEMMA NextAgentInv == AgentInv /\ [AgentNext]_agentVars => AgentInv'
<1> SUFFICES ASSUME AgentInv, [AgentNext]_agentVars PROVE AgentInv'
  OBVIOUS
<1>1. CASE UNCHANGED agentVars
  BY <1>1 DEF agentVars, AgentInv, AgentTypeOK, LivingIsHandled, WaitersWait, UncalledIsUnknown
<1>2. CASE AgentNext
  BY <1>2, ClientsKeepInv, ServiceKeepsInv, RuntimeKeepsInv DEF AgentNext
<1> QED BY <1>1, <1>2

(* The types of the runtime and of its clients.                               *)
THEOREM AgentInvariant == AgentSpec => []AgentInv
BY InitAgentInv, NextAgentInv, PTL DEF AgentSpec

-----------------------------------------------------------------------------
(* The stage of a run by its handler alone.                                   *)
StageOf(h) ==
  CASE h \in {"spawning", "streaming", "draining", "terminating"} -> "executing"
    [] h \in {"none", "reading"}                                  -> "new"
    [] h = "queued"                                               -> "admitted"
    [] OTHER                                                      -> "ended"

LEMMA StageIsTheHandlers ==
  AgentInv => /\ RunStage = [r \in Run |-> StageOf(handler[r])]
              /\ Pool!Executing = Holding
<1> SUFFICES ASSUME AgentInv
             PROVE  /\ RunStage = [r \in Run |-> StageOf(handler[r])]
                    /\ Pool!Executing = Holding
  OBVIOUS
<1>1. ASSUME NEW r \in Run
      PROVE  Executes(r) <=> handler[r] \in {"spawning", "streaming", "draining", "terminating"}
  BY DEF AgentInv, LivingIsHandled, Executes, Living, Holding
<1>2. RunStage = [r \in Run |-> StageOf(handler[r])]
  BY <1>1 DEF RunStage, StageOf
<1>3. \A r \in Run : RunStage[r] = "executing" <=> r \in Holding
  BY <1>2 DEF StageOf, Holding
<1> QED BY <1>2, <1>3 DEF Pool!Executing, Holding

LEMMA AndInTheNextState ==
  AgentInv' => RunStage' = [r \in Run |-> StageOf(handler'[r])]
<1>1. AgentInv => RunStage = [r \in Run |-> StageOf(handler[r])]
  BY StageIsTheHandlers
<1>2. (AgentInv => RunStage = [r \in Run |-> StageOf(handler[r])])'
  BY <1>1, PTL
<1> QED BY <1>2

(* What the steps of one run make of its stage.                               *)
LEMMA RunSteps ==
  ASSUME AgentInv, AgentInv', NEW r \in Run,
         \/ RequestRun(r) \/ ReadAnswer(r) \/ SendCancel(r) \/ CancelReturns(r)
         \/ CallerGone(r) \/ Cancel(r) \/ Refuse(r) \/ ServiceStep(r)
         \/ ProcessExits(r) \/ ProcessFallsSilent(r)
  PROVE  [Pool!Next]_RunStage
<1>1. /\ RunStage = [q \in Run |-> StageOf(handler[q])] /\ Pool!Executing = Holding
      /\ RunStage' = [q \in Run |-> StageOf(handler'[q])]
  BY StageIsTheHandlers, AndInTheNextState
<1>2. handler \in [Run -> HandlerState]
  BY DEF AgentInv, AgentTypeOK
<1>3. CASE UNCHANGED handler
  BY <1>1, <1>3
<1>4. ASSUME handler' = [handler EXCEPT ![r] = "done"]
      PROVE  Pool!End({r})
  BY <1>1, <1>2, <1>4 DEF Pool!End, StageOf
<1>5. CASE RequestRun(r)
  <2>1. handler[r] = "none" /\ (UNCHANGED handler \/ handler' = [handler EXCEPT ![r] = "reading"])
    BY <1>5 DEF RequestRun, AgentInv, UncalledIsUnknown
  <2>2. \A q \in Run : StageOf(handler'[q]) = StageOf(handler[q])
    BY <2>1, <1>2 DEF StageOf
  <2> QED BY <2>2, <1>1
<1>6. CASE Register(r)
  <2>1. Pool!Admit(r)
    BY <1>1, <1>2, <1>6 DEF Register, Pool!Admit, StageOf
  <2> QED BY <2>1 DEF Pool!Next
<1>7. CASE TakePermit(r)
  <2>1. handler[r] = "queued"
    BY <1>7 DEF TakePermit, AgentInv, AgentTypeOK, WaitersWait
  <2>2. CASE r \in cancelSet
    BY <1>4, <1>7, <2>2 DEF TakePermit, Finish, Pool!Next
  <2>3. CASE r \notin cancelSet
    <3>1. handler' = [handler EXCEPT ![r] = "spawning"] /\ Cardinality(Holding) < MaxConcurrency
      BY <1>7, <2>3 DEF TakePermit
    <3>2. RunStage[r] = "admitted"
      BY <1>1, <2>1 DEF StageOf
    <3>3. RunStage' = [RunStage EXCEPT ![r] = "executing"]
      BY <1>1, <1>2, <3>1 DEF StageOf
    <3>4. Pool!Cardinality(Pool!Executing) = Cardinality(Holding)
      BY <1>1 DEF Cardinality, Pool!Cardinality, IsFiniteSet, Pool!IsFiniteSet
    <3>5. Pool!Execute(r)
      BY <3>1, <3>2, <3>3, <3>4 DEF Pool!Execute
    <3> QED BY <3>5 DEF Pool!Next
  <2> QED BY <2>2, <2>3
<1>8. ASSUME handler[r] \in {"spawning", "streaming"},
             \E h \in {"streaming", "draining", "terminating"} :
               handler' = [handler EXCEPT ![r] = h]
      PROVE  UNCHANGED RunStage
  <2>1. \A q \in Run : StageOf(handler'[q]) = StageOf(handler[q])
    BY <1>2, <1>8 DEF StageOf
  <2> QED BY <2>1, <1>1
<1>9. CASE Refuse(r) \/ Spawn(r) \/ StopRun(r) \/ OutputEnds(r) \/ Drained(r) \/ Terminated(r)
  <2>1. \/ handler' = [handler EXCEPT ![r] = "done"]
        \/ /\ handler[r] \in {"spawning", "streaming"}
           /\ \E h \in {"streaming", "draining", "terminating"} :
                handler' = [handler EXCEPT ![r] = h]
    BY <1>9 DEF Refuse, Spawn, StopRun, OutputEnds, Drained, Terminated, Finish
  <2> QED BY <2>1, <1>4, <1>8 DEF Pool!Next
<1>10. CASE ReadAnswer(r) \/ SendCancel(r) \/ CancelReturns(r) \/ CallerGone(r) \/ Cancel(r)
              \/ ProcessExits(r) \/ ProcessFallsSilent(r)
  BY <1>3, <1>10 DEF ReadAnswer, SendCancel, CancelReturns, CallerGone, Cancel, ProcessExits,
     ProcessFallsSilent
<1> QED BY <1>5, <1>6, <1>7, <1>9, <1>10 DEF ServiceStep

LEMMA RuntimeSteps ==
  ASSUME AgentInv, AgentInv', CloseRuntime \/ RuntimeEnds \/ RuntimeStarts
  PROVE  [Pool!Next]_RunStage
<1>1. /\ RunStage = [q \in Run |-> StageOf(handler[q])]
      /\ RunStage' = [q \in Run |-> StageOf(handler'[q])]
  BY StageIsTheHandlers, AndInTheNextState
<1>2. CASE RuntimeEnds
  <2> DEFINE Known == {q \in Run : handler[q] # "none"}
  <2>1. handler' = [q \in Run |-> IF q \in Known THEN "done" ELSE "none"]
    BY <1>2 DEF RuntimeEnds
  <2>2. Pool!End(Known)
    BY <1>1, <2>1 DEF Pool!End, StageOf
  <2>3. Known \in SUBSET Run
    OBVIOUS
  <2> HIDE DEF Known
  <2> QED BY <2>2, <2>3 DEF Pool!Next
<1>3. CASE CloseRuntime \/ RuntimeStarts
  <2>1. UNCHANGED handler
    BY <1>3 DEF CloseRuntime, RuntimeStarts
  <2> QED BY <1>1, <2>1
<1> QED BY <1>2, <1>3

(* hermes.py: the semaphore bounds the processes themselves.  However a run   *)
(* ends - refused, cancelled while it waits, cancelled while it runs, timed   *)
(* out, failing to start, drained, or with the service - it executes once at  *)
(* most, after it was admitted, and no more than MaxConcurrency execute.      *)
THEOREM RuntimeIsAPool == AgentSpec => ImplementsPool
<1>1. AgentInit => Pool!Init
  <2> SUFFICES ASSUME AgentInit PROVE Pool!Init
    OBVIOUS
  <2>1. RunStage = [r \in Run |-> StageOf(handler[r])]
    BY InitAgentInv, StageIsTheHandlers
  <2> QED BY <2>1 DEF AgentInit, Pool!Init, StageOf
<1>2. AgentInv /\ AgentInv' /\ [AgentNext]_agentVars => [Pool!Next]_RunStage
  <2> SUFFICES ASSUME AgentInv, AgentInv', [AgentNext]_agentVars PROVE [Pool!Next]_RunStage
    OBVIOUS
  <2>1. CASE UNCHANGED agentVars
    <3>1. UNCHANGED handler
      BY <2>1 DEF agentVars
    <3> QED BY <3>1, StageIsTheHandlers, AndInTheNextState
  <2>2. CASE AgentNext
    BY <2>2, RunSteps, RuntimeSteps DEF AgentNext
  <2> QED BY <2>1, <2>2
<1> QED BY <1>1, <1>2, AgentInvariant, PTL DEF AgentSpec, ImplementsPool, Pool!Spec

------------------------------------------------------------------------------
(* Spoken replies.                                                          *)

(* Audio is on its way to a player, or was written to one, only after the     *)
(* worker started it; and an abort that went past its first step set the flag *)
(* of the session, which nothing resets.                                      *)
AudioHasItsPlayer ==
  audible \/ synthesis \in {"streaming", "writing"} => player # "none"

AbortersFlag ==
  \A c \in Aborter : aborting[c] \in {"set", "put", "over"} => aborted

(* Once one abort is over, a player that still runs is one the worker started *)
(* after it: it holds no audio, and none is on its way.                       *)
OnlyASilentPlayer ==
  (\E c \in Aborter : aborting[c] = "over") /\ player \in {"open", "closed"} =>
    ~audible /\ synthesis # "writing"

SessionInv ==
  SessionTypeOK /\ AudioHasItsPlayer /\ AbortersFlag /\ OnlyASilentPlayer

LEMMA InitSessionInv == SessionInit => SessionInv
<1> SUFFICES ASSUME SessionInit PROVE SessionInv
  OBVIOUS
<1>1. SessionTypeOK
  <2>1. aborted \in BOOLEAN /\ audible \in BOOLEAN
    BY DEF SessionInit
  <2>2. textQueue \in Seq({"clause", "done"}) /\ Len(textQueue) <= QueueSize
    BY SessionAssumption DEF SessionInit
  <2>3. /\ aborting \in [Aborter -> {"no", "called", "set", "put", "over"}]
        /\ clauses \in 0..MaxClauses
    BY SessionAssumption DEF SessionInit
  <2> QED BY <2>1, <2>2, <2>3 DEF SessionInit, SessionTypeOK
<1>2. AudioHasItsPlayer /\ AbortersFlag /\ OnlyASilentPlayer
  BY DEF SessionInit, AudioHasItsPlayer, AbortersFlag, OnlyASilentPlayer
<1> QED BY <1>1, <1>2 DEF SessionInv

(* What the queue of clauses is after one more entry, or one less.            *)
LEMMA QueueKeepsItsSize ==
  ASSUME textQueue \in Seq({"clause", "done"}), Len(textQueue) <= QueueSize
  PROVE  /\ ~Full => \A e \in {"clause", "done"} :
              /\ Append(textQueue, e) \in Seq({"clause", "done"})
              /\ Len(Append(textQueue, e)) <= QueueSize
         /\ textQueue # <<>> =>
              /\ Tail(textQueue) \in Seq({"clause", "done"})
              /\ Len(Tail(textQueue)) <= QueueSize
BY SessionAssumption DEF Full

LEMMA AbortsGoOn ==
  ASSUME SessionInv, NEW c \in Aborter, AbortStep(c) \/ BargesIn
  PROVE  SessionInv'
<1> USE SessionAssumption DEF SessionInv, Aborter
<1>1. CASE SetsAborted(c)
  BY <1>1 DEF SetsAborted, SessionTypeOK, AudioHasItsPlayer, AbortersFlag, OnlyASilentPlayer
<1>2. CASE PutsDone(c)
  BY <1>2, QueueKeepsItsSize
  DEF PutsDone, SessionTypeOK, AudioHasItsPlayer, AbortersFlag, OnlyASilentPlayer
<1>3. CASE TerminatesPlayer(c)
  BY <1>3
  DEF TerminatesPlayer, SessionTypeOK, AudioHasItsPlayer, AbortersFlag, OnlyASilentPlayer
<1>4. CASE BargesIn
  BY <1>4 DEF BargesIn, SessionTypeOK, AudioHasItsPlayer, AbortersFlag, OnlyASilentPlayer
<1> QED BY <1>1, <1>2, <1>3, <1>4 DEF AbortStep

LEMMA TurnGoesOn ==
  ASSUME SessionInv, TurnStep
  PROVE  SessionInv'
<1> USE SessionAssumption DEF SessionInv, Aborter
<1> USE DEF SessionTypeOK, AudioHasItsPlayer, AbortersFlag, OnlyASilentPlayer
<1>1. CASE Enqueues
  BY <1>1, QueueKeepsItsSize DEF Enqueues
<1>2. CASE Answered
  BY <1>2 DEF Answered
<1>3. CASE NothingLeft
  BY <1>3 DEF NothingLeft
<1>4. CASE Completes
  BY <1>4, QueueKeepsItsSize DEF Completes
<1>5. CASE Joined
  BY <1>5 DEF Joined
<1>6. CASE JoinTimesOut
  BY <1>6 DEF JoinTimesOut
<1>7. CASE AgentFails
  BY <1>7 DEF AgentFails
<1>8. CASE Raised
  BY <1>8 DEF Raised
<1> QED BY <1>1, <1>2, <1>3, <1>4, <1>5, <1>6, <1>7, <1>8 DEF TurnStep

LEMMA AudioGoesOn ==
  ASSUME SessionInv, WorkerStep \/ PlaysToTheEnd \/ PlayerFails
  PROVE  SessionInv'
<1> USE SessionAssumption DEF SessionInv, Aborter
<1> USE DEF SessionTypeOK, AudioHasItsPlayer, AbortersFlag, OnlyASilentPlayer
<1>1. CASE LooksAgain
  BY <1>1 DEF LooksAgain
<1>2. CASE Gets
  BY <1>2, QueueKeepsItsSize DEF Gets
<1>3. CASE StartsPlayer
  BY <1>3 DEF StartsPlayer, WorkerFails
<1>4. CASE Streams
  BY <1>4 DEF Streams, WorkerFails
<1>5. CASE WritesAudio
  BY <1>5 DEF WritesAudio, WorkerFails
<1>6. CASE ClosesInput
  BY <1>6 DEF ClosesInput
<1>7. CASE PlayerEnded
  BY <1>7 DEF PlayerEnded
<1>8. CASE PlaysToTheEnd
  BY <1>8 DEF PlaysToTheEnd
<1>9. CASE PlayerFails
  BY <1>9 DEF PlayerFails
<1> QED BY <1>1, <1>2, <1>3, <1>4, <1>5, <1>6, <1>7, <1>8, <1>9 DEF WorkerStep

LEMMA NextSessionInv == SessionInv /\ [SessionNext]_sessionVars => SessionInv'
<1> SUFFICES ASSUME SessionInv, [SessionNext]_sessionVars PROVE SessionInv'
  OBVIOUS
<1>1. CASE TurnStep
  BY <1>1, TurnGoesOn
<1>2. CASE WorkerStep \/ PlaysToTheEnd \/ PlayerFails
  BY <1>2, AudioGoesOn
<1>3. CASE BargesIn \/ \E c \in Aborter : AbortStep(c)
  BY <1>3, AbortsGoOn DEF Aborter
<1>4. CASE UNCHANGED sessionVars
  BY <1>4 DEF sessionVars, SessionInv, SessionTypeOK, AudioHasItsPlayer,
     AbortersFlag, OnlyASilentPlayer
<1> QED BY <1>1, <1>2, <1>3, <1>4 DEF SessionNext

(* The types of the session of one spoken answer: in particular its queue     *)
(* never holds more than QueueSize entries, whichever thread puts them there. *)
THEOREM SessionInvariant == SessionSpec => []SessionInv
BY InitSessionInv, NextSessionInv, PTL DEF SessionSpec

(* StreamingSpeechSession.abort: once a call of it has returned, whoever made *)
(* it and wherever the worker was, no player that runs holds audio; a player  *)
(* started too late for terminate() finds the flag set before its first piece.*)
THEOREM AbortedIsSilent == SessionSpec => []AbortSilences
<1>1. SessionInv => AbortSilences
  BY DEF SessionInv, OnlyASilentPlayer, AbortSilences
<1> QED BY <1>1, SessionInvariant, PTL

------------------------------------------------------------------------------
(* What the assistant hears.                                                *)

(* The blocks of s are the ones up to `end', none left out.                   *)
RunsUpTo(s, end) == \A k \in 1..Len(s) : s[k] = end - Len(s) + k

NotOwn(s) == \A k \in 1..Len(s) : heard[s[k]] # "own"

(* The queue of the microphone always ends with the block heard last; what    *)
(* the recording has taken ends where the queue begins, unless blocks were    *)
(* lost meanwhile.                                                            *)
NothingLeftOut ==
  /\ RunsUpTo(ring, Now)
  /\ step = "recording" /\ ~dropped =>
       RunsUpTo(pre, Now - Len(ring)) /\ RunsUpTo(frames, Now - Len(ring))
  /\ step = "recorded" /\ ~dropped =>
       \A k \in 2..Len(frames) : frames[k] = frames[k - 1] + 1

(* From the cue on, nothing that can still become part of the utterance holds *)
(* the assistant's own sound.                                                 *)
NothingOwn ==
  /\ step \in {"opening", "recording"} => NotOwn(ring)
  /\ step = "recording" => NotOwn(pre)
  /\ step \in {"recording", "recorded"} => NotOwn(frames)

(* Which of the two ways into a recording the turn takes, and that it starts  *)
(* with nothing recorded.                                                     *)
OneWayIn ==
  /\ step = "decaying" => followUp
  /\ step \in {"acknowledging", "beeping", "opening"} => ~followUp
  /\ step \notin {"recording", "silent", "recorded"} => pre = <<>> /\ frames = <<>>
  /\ frames = <<>> => consecutive <= 1
  /\ frames # <<>> => pre = <<>>

ListeningInv == ListeningTypeOK /\ NothingLeftOut /\ NothingOwn /\ OneWayIn

-----------------------------------------------------------------------------
(* A sequence bounded to its last n entries: what it holds, in order.         *)
LEMMA LastOfProperties ==
  ASSUME NEW S, NEW s \in Seq(S), NEW n \in Nat \ {0}
  PROVE  /\ LastOf(s, n) \in Seq(S)
         /\ Len(LastOf(s, n)) = IF Len(s) > n THEN n ELSE Len(s)
         /\ \A k \in 1..Len(LastOf(s, n)) :
              LastOf(s, n)[k] = s[Len(s) - Len(LastOf(s, n)) + k]
<1> DEFINE m == IF Len(s) > n THEN Len(s) - n + 1 ELSE 1
<1>1. m \in 1..Len(s) + 1 /\ Len(s) \in Nat
  OBVIOUS
<1>2. \A i \in m..Len(s) : s[i] \in S
  BY <1>1
<1>3. LastOf(s, n) = SubSeq(s, m, Len(s))
  BY DEF LastOf
<1> HIDE DEF m
<1>4. /\ SubSeq(s, m, Len(s)) \in Seq(S)
      /\ Len(SubSeq(s, m, Len(s))) = IF m <= Len(s) THEN Len(s) - m + 1 ELSE 0
      /\ \A i \in 1..Len(s) - m + 1 : SubSeq(s, m, Len(s))[i] = s[m + i - 1]
  BY <1>1, <1>2, SubSeqProperties
<1>5. Len(LastOf(s, n)) = Len(s) - m + 1
  BY <1>1, <1>3, <1>4
<1>6. Len(s) - m + 1 = IF Len(s) > n THEN n ELSE Len(s)
  BY <1>1 DEF m
<1>7. \A k \in 1..Len(LastOf(s, n)) : LastOf(s, n)[k] = s[Len(s) - Len(LastOf(s, n)) + k]
  <2> TAKE k \in 1..Len(LastOf(s, n))
  <2>1. SubSeq(s, m, Len(s))[k] = s[m + k - 1]
    BY <1>1, <1>4, <1>5
  <2>2. Len(s) - Len(LastOf(s, n)) + k = m + k - 1
    BY <1>1, <1>5
  <2> QED BY <1>3, <2>1, <2>2
<1> QED BY <1>3, <1>4, <1>5, <1>6, <1>7

(* What is left of a run without gaps, or added to it, has none either.       *)
LEMMA LastOfARun ==
  ASSUME NEW S, NEW s \in Seq(S), NEW n \in Nat \ {0}, NEW end \in Int, RunsUpTo(s, end)
  PROVE  RunsUpTo(LastOf(s, n), end)
BY LastOfProperties DEF RunsUpTo

LEMMA OneMore ==
  ASSUME NEW s \in Seq(Int), NEW end \in Int, RunsUpTo(s, end)
  PROVE  RunsUpTo(Append(s, end + 1), end + 1)
BY AppendProperties DEF RunsUpTo

LEMMA OneLess ==
  ASSUME NEW s \in Seq(Int), s # <<>>, NEW end \in Int, RunsUpTo(s, end)
  PROVE  RunsUpTo(Tail(s), end) /\ Head(s) = end - Len(s) + 1
BY HeadTailProperties DEF RunsUpTo

LEMMA RunsHaveNoGaps ==
  ASSUME NEW s \in Seq(Int), NEW end \in Int, RunsUpTo(s, end)
  PROVE  \A k \in 2..Len(s) : s[k] = s[k - 1] + 1
<1> TAKE k \in 2..Len(s)
<1>1. s[k] = end - Len(s) + k /\ s[k - 1] = end - Len(s) + (k - 1)
  BY DEF RunsUpTo
<1> QED BY <1>1

LEMMA SeqWidens ==
  ASSUME NEW A, NEW B, A \subseteq B, NEW s \in Seq(A)
  PROVE  s \in Seq(B)
OBVIOUS
-----------------------------------------------------------------------------
LEMMA InitListeningInv == ListeningInit => ListeningInv
<1> SUFFICES ASSUME ListeningInit PROVE ListeningInv
  OBVIOUS
<1> USE ListeningAssumption DEF ListeningInit
<1>1. ListeningTypeOK
  <2>1. dropped \in BOOLEAN /\ followUp \in BOOLEAN
    OBVIOUS
  <2>2. heard \in Seq({"loud", "quiet", "own"}) /\ Now = 0
    BY DEF Now
  <2>3. <<>> \in Seq(1..Now) /\ Len(<<>>) = 0
    OBVIOUS
  <2> QED BY <2>1, <2>2, <2>3 DEF ListeningTypeOK
<1>2. NothingLeftOut /\ NothingOwn /\ OneWayIn
  BY DEF NothingLeftOut, NothingOwn, OneWayIn, RunsUpTo, Now
<1> QED BY <1>1, <1>2 DEF ListeningInv

(* _callback, whatever the turn does: the oldest block is lost, never another.*)
LEMMA BlockKeepsInv ==
  ASSUME ListeningInv, BlockArrives
  PROVE  ListeningInv'
<1> USE ListeningAssumption DEF ListeningInv, Now
<1> DEFINE longer == Append(ring, Now + 1)
<1>1. PICK b \in IF Sounding THEN {"own"} ELSE {"loud", "quiet"} : heard' = Append(heard, b)
  BY DEF BlockArrives
<1>2. /\ Now \in Nat /\ Now' = Now + 1 /\ Now' <= MaxBlocks
      /\ heard' \in Seq({"loud", "quiet", "own"})
      /\ \A i \in 1..Now : heard'[i] = heard[i]
      /\ heard'[Now + 1] = b
  BY <1>1 DEF ListeningTypeOK, BlockArrives
<1>3. /\ ring \in Seq(1..Now') /\ pre \in Seq(1..Now') /\ frames \in Seq(1..Now')
      /\ ring \in Seq(1..Now) /\ pre \in Seq(1..Now) /\ frames \in Seq(1..Now)
  <2>1. ring \in Seq(1..Now) /\ pre \in Seq(1..Now) /\ frames \in Seq(1..Now)
    BY DEF ListeningTypeOK
  <2> HIDE DEF Now
  <2>2. 1..Now \subseteq 1..Now'
    BY <1>2
  <2> QED BY <2>1, <2>2, SeqWidens
<1>4. /\ longer \in Seq(1..Now') /\ Len(longer) = Len(ring) + 1
      /\ ring' = LastOf(longer, RingSize)
  BY <1>2, <1>3 DEF BlockArrives
<1> HIDE DEF Now, longer
<1>5. /\ ring' \in Seq(1..Now')
      /\ Len(ring') = IF Len(ring) + 1 > RingSize THEN RingSize ELSE Len(ring) + 1
      /\ \A k \in 1..Len(ring') : ring'[k] = longer[Len(longer) - Len(ring') + k]
  BY <1>4, LastOfProperties
<1>6. UNCHANGED <<step, followUp, opened, pre, frames, consecutive, speechAt, voiceAt, transcript>>
  BY DEF BlockArrives, recordVars
<1>7. ListeningTypeOK'
  <2>1. dropped' \in BOOLEAN /\ followUp' \in BOOLEAN
    BY DEF BlockArrives, ListeningTypeOK
  <2>2. {opened', speechAt', voiceAt'} \subseteq 0..Now'
    BY <1>2, <1>6 DEF ListeningTypeOK
  <2> QED BY <2>1, <2>2, <1>2, <1>3, <1>5, <1>6 DEF ListeningTypeOK
<1>8. NothingLeftOut'
  <2>1. RunsUpTo(ring', Now')
    <3>1. ring \in Seq(Int) /\ Now \in Int
      BY <1>2, <1>3, SeqWidens
    <3>2. RunsUpTo(longer, Now + 1)
      BY <3>1, OneMore DEF NothingLeftOut, longer
    <3>3. Now + 1 \in Int /\ RingSize \in Nat \ {0}
      BY <1>2
    <3> QED BY <3>2, <3>3, <1>2, <1>4, LastOfARun
  <2>2. ASSUME step = "recording", ~dropped'
        PROVE  RunsUpTo(pre, Now' - Len(ring')) /\ RunsUpTo(frames, Now' - Len(ring'))
    <3>1. ~dropped /\ Len(ring) # RingSize
      BY <2>2 DEF BlockArrives
    <3>2. Now' - Len(ring') = Now - Len(ring)
      BY <3>1, <1>2, <1>3, <1>5 DEF ListeningTypeOK
    <3> QED BY <2>2, <3>1, <3>2 DEF NothingLeftOut
  <2>3. step = "recorded" /\ ~dropped' => ~dropped
    BY DEF BlockArrives
  <2> QED BY <2>1, <2>2, <2>3, <1>6 DEF NothingLeftOut
<1>9. NothingOwn'
  <2>1. ASSUME NEW s \in Seq(1..Now), NotOwn(s)
        PROVE  \A k \in 1..Len(s) : heard'[s[k]] # "own"
    BY <2>1, <1>2 DEF NotOwn
  <2>2. ASSUME step \in {"opening", "recording"}
        PROVE  \A k \in 1..Len(ring') : heard'[ring'[k]] # "own"
    <3>1. b # "own"
      BY <2>2, <1>1 DEF Sounding
    <3>2. \A k \in 1..Len(longer) : heard'[longer[k]] # "own"
      <4>1. \A k \in 1..Len(ring) : longer[k] = ring[k]
        BY <1>3, <1>2 DEF longer
      <4>2. longer[Len(ring) + 1] = Now + 1
        BY <1>3, <1>2 DEF longer
      <4>3. \A k \in 1..Len(ring) : heard'[ring[k]] # "own"
        BY <2>1, <2>2, <1>3 DEF NothingOwn
      <4> SUFFICES ASSUME NEW k \in 1..Len(longer) PROVE heard'[longer[k]] # "own"
        OBVIOUS
      <4>4. CASE k = Len(ring) + 1
        BY <4>4, <4>2, <3>1, <1>2
      <4>5. CASE k \in 1..Len(ring)
        BY <4>5, <4>1, <4>3
      <4> QED BY <4>4, <4>5, <1>3, <1>4
    <3> SUFFICES ASSUME NEW k \in 1..Len(ring') PROVE heard'[ring'[k]] # "own"
      OBVIOUS
    <3>3. Len(longer) - Len(ring') + k \in 1..Len(longer)
      BY <1>3, <1>4, <1>5
    <3> QED BY <3>2, <3>3, <1>5
  <2> QED BY <2>1, <2>2, <1>3, <1>6 DEF NothingOwn, NotOwn
<1>10. OneWayIn'
  BY <1>6 DEF OneWayIn
<1> QED BY <1>7, <1>8, <1>9, <1>10

(* What the parts of the type invariant say of the numbers.                   *)
LEMMA ListeningTypes ==
  ASSUME ListeningTypeOK
  PROVE  /\ Now \in Nat
         /\ ring \in Seq(1..Now) /\ pre \in Seq(1..Now) /\ frames \in Seq(1..Now)
         /\ ring \in Seq(Int) /\ pre \in Seq(Int) /\ frames \in Seq(Int)
<1>1. Now \in Nat /\ ring \in Seq(1..Now) /\ pre \in Seq(1..Now) /\ frames \in Seq(1..Now)
  BY DEF ListeningTypeOK, Now
<1>2. 1..Now \subseteq Int
  BY <1>1
<1> QED BY <1>1, <1>2, SeqWidens

(* The steps to a recording, and out of the turn.                             *)
LEMMA TurnKeepsInv ==
  ASSUME ListeningInv,
         Woken \/ Acknowledges \/ FollowsUp \/ DiscardsCue \/ TakesTooLong \/ Leaves
           \/ Transcribes
  PROVE  ListeningInv'
<1> USE ListeningAssumption DEF ListeningInv
<1>1. /\ UNCHANGED <<heard, dropped>> /\ Now' = Now
      /\ ring' \in {ring, <<>>}
      /\ dropped \in BOOLEAN
  BY DEF Woken, Acknowledges, FollowsUp, DiscardsCue, TakesTooLong, Leaves, Transcribes, Now,
     ListeningTypeOK
<1>2. followUp' \in BOOLEAN
  BY DEF Woken, Acknowledges, FollowsUp, DiscardsCue, TakesTooLong, Leaves, Transcribes,
     ListeningTypeOK
<1>3. /\ UNCHANGED <<opened, pre, frames, consecutive, speechAt, voiceAt>> \/ Forgets
      /\ transcript' \in Reading \cup {"none"}
  <2>1. CASE Transcribes
    <3>1. PICK signal, agree \in BOOLEAN, sense, zip \in Reading :
            transcript' = Decided(signal, sense, zip, agree)
      BY <2>1 DEF Transcribes
    <3>2. Routed(sense, zip) \in Reading /\ "" \in Reading
      BY DEF Routed, Reading
    <3>3. Decided(signal, sense, zip, agree) \in Reading
      BY <3>2 DEF Decided
    <3> QED BY <2>1, <3>1, <3>3 DEF Transcribes
  <2>2. CASE ~Transcribes
    BY <2>2 DEF Woken, Acknowledges, FollowsUp, DiscardsCue, TakesTooLong, Leaves,
       ListeningTypeOK, recordVars
  <2> QED BY <2>1, <2>2
<1>4. /\ Now \in Nat
      /\ ring \in Seq(1..Now) /\ pre \in Seq(1..Now) /\ frames \in Seq(1..Now)
  BY ListeningTypes
<1>5. step' \in {"asleep", "acknowledging", "beeping", "decaying", "opening",
                 "recording", "silent", "recorded"}
  BY DEF Woken, Acknowledges, FollowsUp, DiscardsCue, TakesTooLong, Leaves, Transcribes
<1>6. ListeningTypeOK'
  <2>1. /\ ring' \in Seq(1..Now) /\ pre' \in Seq(1..Now) /\ frames' \in Seq(1..Now)
        /\ Len(ring') <= RingSize /\ Len(pre') <= PreRoll
    <3>1. Len(ring) <= RingSize /\ Len(pre) <= PreRoll
      BY DEF ListeningTypeOK
    <3>2. pre' \in {pre, <<>>} /\ frames' \in {frames, <<>>}
      BY <1>3 DEF Forgets
    <3>3. <<>> \in Seq(1..Now) /\ Len(<<>>) <= RingSize /\ Len(<<>>) <= PreRoll
      OBVIOUS
    <3>4. ring' \in Seq(1..Now) /\ Len(ring') <= RingSize
      BY <1>1, <1>4, <3>1, <3>3
    <3>5. pre' \in Seq(1..Now) /\ Len(pre') <= PreRoll
      BY <1>4, <3>1, <3>2, <3>3
    <3>6. frames' \in Seq(1..Now)
      BY <1>4, <3>2, <3>3
    <3> QED BY <3>4, <3>5, <3>6
  <2>2. /\ {opened', speechAt', voiceAt'} \subseteq 0..Now /\ consecutive' \in 0..2
        /\ transcript' \in Reading \cup {"none"}
    BY <1>3, <1>4 DEF ListeningTypeOK, Forgets
  <2>3. heard \in Seq({"loud", "quiet", "own"}) /\ Now <= MaxBlocks
    BY DEF ListeningTypeOK
  <2> QED BY <2>1, <2>2, <2>3, <1>1, <1>2, <1>5 DEF ListeningTypeOK
<1>7. RunsUpTo(ring', Now)
  <2>1. RunsUpTo(<<>>, Now)
    BY DEF RunsUpTo
  <2> QED BY <2>1, <1>1 DEF NothingLeftOut
<1>8. CASE Forgets /\ step' = "asleep"
  BY <1>8, <1>1, <1>6, <1>7 DEF Forgets, NothingLeftOut, NothingOwn, OneWayIn
<1>9. CASE TakesTooLong
  <2>1. step = "recording" /\ ~dropped => \A k \in 2..Len(frames) : frames[k] = frames[k - 1] + 1
    BY <1>4, ListeningTypes, RunsHaveNoGaps DEF NothingLeftOut
  <2>2. /\ UNCHANGED <<heard, ring, dropped, followUp, pre, frames, consecutive>>
        /\ step = "recording" /\ step' \in {"recorded", "silent"}
    BY <1>9 DEF TakesTooLong, recordVars
  <2> QED BY <2>1, <2>2, <1>1, <1>6, <1>7 DEF NothingLeftOut, NothingOwn, OneWayIn, NotOwn
<1>10. CASE Woken \/ Acknowledges \/ FollowsUp \/ DiscardsCue
  <2>1. /\ UNCHANGED <<heard, dropped, pre, frames, consecutive>>
        /\ step' \in {"acknowledging", "beeping", "decaying", "opening"}
        /\ pre = <<>> /\ frames = <<>>
    BY <1>10 DEF Woken, Acknowledges, FollowsUp, DiscardsCue, recordVars, OneWayIn
  <2>2. /\ step' = "decaying" => followUp'
        /\ step' \in {"acknowledging", "beeping", "opening"} => ~followUp'
    BY <1>10 DEF Woken, Acknowledges, FollowsUp, DiscardsCue, OneWayIn
  <2>3. step' = "opening" => ring' = <<>>
    BY <1>10 DEF Woken, Acknowledges, FollowsUp, DiscardsCue
  <2>4. OneWayIn'
    BY <2>1, <2>2 DEF OneWayIn
  <2>5. NothingLeftOut' /\ NothingOwn'
    BY <2>1, <2>3, <1>1, <1>7 DEF NothingLeftOut, NothingOwn, NotOwn
  <2> QED BY <1>6, <2>4, <2>5
<1> QED BY <1>8, <1>9, <1>10 DEF Transcribes, Leaves

(* prepare_recording: what it keeps of the queue ends with the last block     *)
(* heard, and it keeps nothing of it when a follow-up decays.                 *)
LEMMA PreparingKeepsInv ==
  ASSUME ListeningInv, Prepares
  PROVE  ListeningInv'
<1> USE ListeningAssumption DEF ListeningInv
<1>1. /\ UNCHANGED <<heard, followUp, frames, consecutive, speechAt, voiceAt>>
      /\ step \in {"opening", "decaying"} /\ step' = "recording"
      /\ ring' = <<>> /\ opened' = Now /\ transcript' = "none" /\ Now' = Now
      /\ dropped' \in BOOLEAN
      /\ frames = <<>>
  BY DEF Prepares, Now, OneWayIn
<1>2. /\ Now \in Nat
      /\ ring \in Seq(1..Now) /\ pre \in Seq(1..Now) /\ frames \in Seq(1..Now)
  BY ListeningTypes
<1>3. /\ pre' \in Seq(1..Now) /\ Len(pre') <= PreRoll
      /\ RunsUpTo(pre', Now)
      /\ \A k \in 1..Len(pre') : heard[pre'[k]] # "own"
  <2>1. CASE followUp
    <3>1. pre' = <<>>
      BY <2>1 DEF Prepares
    <3> QED BY <3>1 DEF RunsUpTo
  <2>2. CASE ~followUp
    <3>1. pre' = LastOf(ring, PreRoll) /\ step = "opening"
      BY <2>2 DEF Prepares, OneWayIn
    <3>2. RunsUpTo(ring, Now) /\ NotOwn(ring)
      BY <3>1 DEF NothingLeftOut, NothingOwn
    <3>3. RunsUpTo(pre', Now)
      BY <3>1, <3>2, <1>2, LastOfARun
    <3>4. /\ LastOf(ring, PreRoll) \in Seq(1..Now)
          /\ Len(LastOf(ring, PreRoll)) = IF Len(ring) > PreRoll THEN PreRoll ELSE Len(ring)
          /\ \A k \in 1..Len(LastOf(ring, PreRoll)) : LastOf(ring, PreRoll)[k] =
               ring[Len(ring) - Len(LastOf(ring, PreRoll)) + k]
      BY <1>2, LastOfProperties
    <3>5. \A k \in 1..Len(pre') : Len(ring) - Len(pre') + k \in 1..Len(ring)
      BY <3>1, <3>4, <1>2
    <3>6. \A k \in 1..Len(pre') : heard[pre'[k]] # "own"
      BY <3>1, <3>2, <3>4, <3>5 DEF NotOwn
    <3>7. Len(pre') <= PreRoll
      BY <3>1, <3>4, <1>2
    <3> QED BY <3>1, <3>3, <3>4, <3>6, <3>7
  <2> QED BY <2>1, <2>2
<1>4. ListeningTypeOK'
  <2>1. followUp \in BOOLEAN
    BY DEF ListeningTypeOK
  <2>2. ring' \in Seq(1..Now) /\ Len(ring') <= RingSize
    BY <1>1
  <2> QED BY <2>1, <2>2, <1>1, <1>2, <1>3 DEF ListeningTypeOK
<1>5. NothingLeftOut'
  BY <1>1, <1>2, <1>3 DEF NothingLeftOut, RunsUpTo
<1>6. NothingOwn' /\ OneWayIn'
  BY <1>1, <1>3 DEF NothingOwn, OneWayIn, NotOwn
<1> QED BY <1>4, <1>5, <1>6

(* What a turn of the loop takes from the queue, and what it is put behind.   *)
LEMMA TheNextBlock ==
  ASSUME ListeningInv, step = "recording", ring # <<>>
  PROVE  /\ Head(ring) \in 1..Now /\ heard[Head(ring)] # "own"
         /\ Tail(ring) \in Seq(1..Now) /\ Len(Tail(ring)) = Len(ring) - 1
         /\ RunsUpTo(Tail(ring), Now) /\ NotOwn(Tail(ring))
         /\ \A s \in Seq(1..Now) :
              /\ Append(s, Head(ring)) \in Seq(1..Now)
              /\ Len(Append(s, Head(ring))) = Len(s) + 1
              /\ NotOwn(s) => NotOwn(Append(s, Head(ring)))
              /\ RunsUpTo(s, Now - Len(ring)) =>
                   RunsUpTo(Append(s, Head(ring)), Now - Len(Tail(ring)))
<1>1. /\ Now \in Nat /\ ring \in Seq(1..Now) /\ ring \in Seq(Int)
      /\ RunsUpTo(ring, Now) /\ NotOwn(ring)
  BY ListeningTypes DEF ListeningInv, NothingLeftOut, NothingOwn
<1>2. /\ Head(ring) \in 1..Now /\ Head(ring) = ring[1] /\ 1 \in 1..Len(ring)
      /\ Tail(ring) \in Seq(1..Now) /\ Len(Tail(ring)) = Len(ring) - 1
      /\ \A k \in 1..Len(Tail(ring)) : Tail(ring)[k] = ring[k + 1] /\ k + 1 \in 1..Len(ring)
  BY <1>1
<1>3. RunsUpTo(Tail(ring), Now) /\ Head(ring) = Now - Len(ring) + 1
  BY <1>1, OneLess
<1>4. heard[Head(ring)] # "own" /\ NotOwn(Tail(ring))
  BY <1>1, <1>2 DEF NotOwn
<1>5. ASSUME NEW s \in Seq(1..Now)
      PROVE  /\ Append(s, Head(ring)) \in Seq(1..Now)
             /\ Len(Append(s, Head(ring))) = Len(s) + 1
             /\ NotOwn(s) => NotOwn(Append(s, Head(ring)))
             /\ RunsUpTo(s, Now - Len(ring)) =>
                  RunsUpTo(Append(s, Head(ring)), Now - Len(Tail(ring)))
  <2>1. /\ Append(s, Head(ring)) \in Seq(1..Now)
        /\ Len(Append(s, Head(ring))) = Len(s) + 1
        /\ \A k \in 1..Len(s) : Append(s, Head(ring))[k] = s[k]
        /\ Append(s, Head(ring))[Len(s) + 1] = Head(ring)
    BY <1>2
  <2>2. NotOwn(s) => NotOwn(Append(s, Head(ring)))
    BY <2>1, <1>4 DEF NotOwn
  <2>3. s \in Seq(Int) /\ Now - Len(ring) \in Int
    BY <1>1
  <2>4. ASSUME RunsUpTo(s, Now - Len(ring))
        PROVE  RunsUpTo(Append(s, Head(ring)), Now - Len(Tail(ring)))
    <3>1. RunsUpTo(Append(s, Now - Len(ring) + 1), Now - Len(ring) + 1)
      BY <2>3, <2>4, OneMore
    <3>2. Now - Len(Tail(ring)) = Now - Len(ring) + 1
      BY <1>1, <1>2
    <3> QED BY <3>1, <3>2, <1>3
  <2> QED BY <2>1, <2>2, <2>4
<1> QED BY <1>2, <1>3, <1>4, <1>5

(* The loop while it waits for speech: what two loud blocks in a row make of  *)
(* the pre-roll, they included, is the beginning of the utterance.            *)
LEMMA WaitingKeepsInv ==
  ASSUME ListeningInv, Waits
  PROVE  ListeningInv'
<1> DEFINE longer == Append(pre, Head(ring))
           roll   == LastOf(longer, PreRoll)
<1>1. /\ step = "recording" /\ ring # <<>> /\ frames = <<>>
      /\ ring' = Tail(ring) /\ UNCHANGED <<heard, dropped, followUp, opened, transcript>>
      /\ Now' = Now
  BY DEF Waits, TakesBlock, Speaking, Now
<1>2. /\ Now \in Nat /\ pre \in Seq(1..Now)
      /\ PreRoll \in Nat \ {0}
  BY ListeningTypes, ListeningAssumption DEF ListeningInv
<1>3. /\ longer \in Seq(1..Now) /\ Len(longer) = Len(pre) + 1 /\ NotOwn(longer)
      /\ ~dropped => RunsUpTo(longer, Now - Len(ring'))
      /\ ring' \in Seq(1..Now) /\ Len(ring') = Len(ring) - 1
      /\ RunsUpTo(ring', Now) /\ NotOwn(ring')
  BY <1>1, <1>2, TheNextBlock DEF ListeningInv, NothingLeftOut, NothingOwn
<1>4. /\ roll \in Seq(1..Now) /\ Len(roll) <= PreRoll /\ Len(roll) # 0
      /\ NotOwn(roll)
      /\ ~dropped => RunsUpTo(roll, Now - Len(ring'))
  <2> HIDE DEF longer
  <2>1. /\ roll \in Seq(1..Now)
        /\ Len(roll) = IF Len(longer) > PreRoll THEN PreRoll ELSE Len(longer)
        /\ \A k \in 1..Len(roll) : roll[k] = longer[Len(longer) - Len(roll) + k]
    BY <1>2, <1>3, LastOfProperties
  <2>2. \A k \in 1..Len(roll) : Len(longer) - Len(roll) + k \in 1..Len(longer)
    BY <1>2, <1>3, <2>1
  <2>3. NotOwn(roll)
    BY <1>3, <2>1, <2>2 DEF NotOwn
  <2>4. Now - Len(ring') \in Int
    BY <1>2, <1>3
  <2>5. ~dropped => RunsUpTo(roll, Now - Len(ring'))
    BY <1>2, <1>3, <2>4, LastOfARun
  <2> HIDE DEF roll
  <2>6. Len(roll) <= PreRoll /\ Len(roll) # 0
    BY <1>2, <1>3, <2>1
  <2> QED BY <2>1, <2>3, <2>5, <2>6
<1> HIDE DEF longer, roll
<1>5. \/ /\ step' = "recording" /\ frames' = roll /\ pre' = <<>>
         /\ speechAt' = Now /\ voiceAt' = Now /\ consecutive' \in 0..2
      \/ /\ step' \in {"silent", "recording"} /\ pre' = roll
         /\ UNCHANGED <<frames, speechAt, voiceAt>> /\ consecutive' \in 0..1
  <2>1. consecutive \in 0..1
    BY <1>1 DEF ListeningInv, OneWayIn, ListeningTypeOK
  <2> QED BY <2>1 DEF Waits, TakesBlock, longer, roll
<1>6. <<>> \in Seq(1..Now) /\ Len(<<>>) = 0 /\ frames = <<>>
  BY <1>1
<1>7. ListeningTypeOK'
  <2>1. /\ ring' \in Seq(1..Now) /\ Len(ring') <= RingSize
        /\ pre' \in Seq(1..Now) /\ Len(pre') <= PreRoll
        /\ frames' \in Seq(1..Now)
    <3>1. Len(ring) <= RingSize /\ Len(ring) \in Nat /\ RingSize \in Nat
      BY ListeningTypes, ListeningAssumption DEF ListeningInv, ListeningTypeOK
    <3>2. /\ pre' = roll \/ pre' = <<>>
          /\ frames' = roll \/ frames' = <<>>
      BY <1>5, <1>6
    <3>3. Len(<<>>) <= PreRoll
      BY <1>2
    <3>4. ring' \in Seq(1..Now) /\ Len(ring') <= RingSize
      BY <3>1, <1>3
    <3>5. pre' \in Seq(1..Now) /\ Len(pre') <= PreRoll
      BY <3>2, <3>3, <1>4, <1>6
    <3>6. frames' \in Seq(1..Now)
      BY <3>2, <1>4, <1>6
    <3> QED BY <3>4, <3>5, <3>6
  <2>2. /\ {opened', speechAt', voiceAt'} \subseteq 0..Now /\ consecutive' \in 0..2
    BY <1>1, <1>2, <1>5 DEF ListeningInv, ListeningTypeOK
  <2>3. dropped' \in BOOLEAN /\ followUp' \in BOOLEAN
    BY <1>1 DEF ListeningInv, ListeningTypeOK
  <2>4. /\ heard' \in Seq({"loud", "quiet", "own"}) /\ Now' <= MaxBlocks
        /\ transcript' \in Reading \cup {"none"}
    BY <1>1 DEF ListeningInv, ListeningTypeOK
  <2>5. step' \in {"recording", "silent"}
    BY <1>5
  <2> QED BY <2>1, <2>2, <2>3, <2>4, <2>5, <1>1 DEF ListeningTypeOK
<1>8. RunsUpTo(<<>>, Now - Len(ring')) /\ NotOwn(<<>>)
  BY DEF RunsUpTo, NotOwn
<1>9. NothingLeftOut'
  BY <1>1, <1>3, <1>4, <1>5, <1>6, <1>8 DEF NothingLeftOut
<1>10. NothingOwn'
  <2>1. NotOwn(ring') /\ NotOwn(pre') /\ NotOwn(frames')
    BY <1>3, <1>4, <1>5, <1>6, <1>8
  <2> QED BY <2>1, <1>1 DEF NothingOwn, NotOwn
<1>11. OneWayIn'
  <2>1. step' \in {"recording", "silent"}
    BY <1>5
  <2>2. (frames' = <<>> => consecutive' <= 1) /\ (frames' # <<>> => pre' = <<>>)
    BY <1>4, <1>5, <1>6
  <2> QED BY <2>1, <2>2 DEF OneWayIn
<1> QED BY <1>7, <1>9, <1>10, <1>11 DEF ListeningInv

(* The loop while somebody speaks.                                            *)
LEMMA HearingKeepsInv ==
  ASSUME ListeningInv, Listens
  PROVE  ListeningInv'
<1>1. /\ step = "recording" /\ ring # <<>> /\ frames # <<>>
      /\ ring' = Tail(ring) /\ frames' = Append(frames, Head(ring))
      /\ UNCHANGED <<heard, dropped, followUp, opened, transcript, pre, consecutive, speechAt>>
      /\ step' \in {"recorded", "recording"} /\ voiceAt' \in {Now, voiceAt}
      /\ Now' = Now
  BY DEF Listens, TakesBlock, Speaking, Now
<1>2. /\ Now \in Nat /\ pre \in Seq(1..Now) /\ frames \in Seq(1..Now)
  BY ListeningTypes DEF ListeningInv
<1>3. /\ frames' \in Seq(1..Now) /\ Len(frames') = Len(frames) + 1 /\ NotOwn(frames')
      /\ ~dropped => RunsUpTo(frames', Now - Len(ring'))
      /\ ring' \in Seq(1..Now) /\ Len(ring') = Len(ring) - 1
      /\ RunsUpTo(ring', Now) /\ NotOwn(ring')
  BY <1>1, <1>2, TheNextBlock DEF ListeningInv, NothingLeftOut, NothingOwn
<1>4. pre = <<>>
  BY <1>1 DEF ListeningInv, OneWayIn
<1>5. ListeningTypeOK'
  <2>1. Len(ring') <= RingSize
    <3>1. Len(ring) <= RingSize /\ Len(ring) \in Nat /\ RingSize \in Nat
      BY ListeningTypes, ListeningAssumption DEF ListeningInv, ListeningTypeOK
    <3> QED BY <3>1, <1>3
  <2>2. /\ {opened', speechAt', voiceAt'} \subseteq 0..Now /\ consecutive' \in 0..2
    BY <1>1, <1>2 DEF ListeningInv, ListeningTypeOK
  <2>3. dropped' \in BOOLEAN /\ followUp' \in BOOLEAN
    BY <1>1 DEF ListeningInv, ListeningTypeOK
  <2>4. /\ heard' \in Seq({"loud", "quiet", "own"}) /\ Now' <= MaxBlocks
        /\ transcript' \in Reading \cup {"none"}
        /\ Len(pre') <= PreRoll
    BY <1>1 DEF ListeningInv, ListeningTypeOK
  <2> QED BY <2>1, <2>2, <2>3, <2>4, <1>1, <1>2, <1>3 DEF ListeningTypeOK
<1>6. NothingLeftOut'
  <2>1. ~dropped => \A k \in 2..Len(frames') : frames'[k] = frames'[k - 1] + 1
    <3>1. frames' \in Seq(Int) /\ Now - Len(ring') \in Int
      BY <1>2, <1>3, SeqWidens
    <3> QED BY <3>1, <1>3, RunsHaveNoGaps
  <2>2. RunsUpTo(pre', Now - Len(ring'))
    BY <1>1, <1>4 DEF RunsUpTo
  <2> QED BY <2>1, <2>2, <1>1, <1>3 DEF NothingLeftOut
<1>7. NothingOwn'
  <2>1. NotOwn(pre')
    BY <1>1, <1>4 DEF NotOwn
  <2> QED BY <2>1, <1>1, <1>3 DEF NothingOwn, NotOwn
<1>8. OneWayIn'
  <2>1. frames' # <<>>
    BY <1>3
  <2> QED BY <2>1, <1>1, <1>4 DEF OneWayIn
<1> QED BY <1>5, <1>6, <1>7, <1>8 DEF ListeningInv

LEMMA NextListeningInv == ListeningInv /\ [ListeningNext]_listeningVars => ListeningInv'
<1> SUFFICES ASSUME ListeningInv, [ListeningNext]_listeningVars PROVE ListeningInv'
  OBVIOUS
<1>1. CASE UNCHANGED listeningVars
  BY <1>1 DEF listeningVars, ListeningInv, ListeningTypeOK, NothingLeftOut, NothingOwn,
     OneWayIn, RunsUpTo, NotOwn, Now
<1>2. CASE Woken \/ Acknowledges \/ FollowsUp \/ DiscardsCue \/ TakesTooLong \/ Leaves
             \/ Transcribes
  BY <1>2, TurnKeepsInv
<1> QED BY <1>1, <1>2, BlockKeepsInv, PreparingKeepsInv, WaitingKeepsInv, HearingKeepsInv
        DEF ListeningNext

(* The types of the microphone and the recording, and the bounds of the queue *)
(* and of the pre-roll, which the code leaves to the deque and the queue.     *)
THEOREM ListeningInvariant == ListeningSpec => []ListeningInv
BY InitListeningInv, NextListeningInv, PTL DEF ListeningSpec

(* record_until_silence: the utterance holds nothing the assistant itself     *)
(* played, no block between its first and its last is left out, and while it  *)
(* is recorded every later block is in it or still in the queue - unless the  *)
(* callback had to drop blocks, which the code counts.                        *)
THEOREM UtterancesAreTheUsers == ListeningSpec => []UtteranceIsTheUsers
<1>1. ListeningInv => UtteranceIsTheUsers
  <2> SUFFICES ASSUME ListeningInv, step \in {"recording", "recorded"}
               PROVE  /\ \A k \in DOMAIN frames : heard[frames[k]] # "own"
                      /\ ~dropped => \A k \in 2..Len(frames) : frames[k] = frames[k - 1] + 1
                      /\ ~dropped /\ step = "recording" /\ Speaking =>
                           \A i \in frames[1]..Now :
                             Unheard(i) \/ \E k \in DOMAIN frames : frames[k] = i
    BY DEF UtteranceIsTheUsers
  <2>1. /\ Now \in Nat /\ ring \in Seq(Int) /\ frames \in Seq(Int)
        /\ DOMAIN frames = 1..Len(frames) /\ DOMAIN ring = 1..Len(ring)
        /\ Len(ring) \in Nat /\ Len(frames) \in Nat
    BY ListeningTypes DEF ListeningInv
  <2>2. \A k \in DOMAIN frames : heard[frames[k]] # "own"
    BY <2>1 DEF ListeningInv, NothingOwn, NotOwn
  <2>3. ~dropped => \A k \in 2..Len(frames) : frames[k] = frames[k - 1] + 1
    <3>1. step = "recording" /\ ~dropped => RunsUpTo(frames, Now - Len(ring))
      BY DEF ListeningInv, NothingLeftOut
    <3>2. Now - Len(ring) \in Int
      BY <2>1
    <3>3. step = "recording" /\ ~dropped => \A k \in 2..Len(frames) : frames[k] = frames[k - 1] + 1
      BY <2>1, <3>1, <3>2, RunsHaveNoGaps
    <3> QED BY <3>3 DEF ListeningInv, NothingLeftOut
  <2>4. ASSUME ~dropped, step = "recording", Speaking, NEW i \in frames[1]..Now
        PROVE  Unheard(i) \/ \E k \in DOMAIN frames : frames[k] = i
    <3>1. /\ \A k \in 1..Len(ring) : ring[k] = Now - Len(ring) + k
          /\ \A k \in 1..Len(frames) : frames[k] = Now - Len(ring) - Len(frames) + k
      BY <2>4 DEF ListeningInv, NothingLeftOut, RunsUpTo
    <3>2. 1 \in 1..Len(frames) /\ i \in Int
      BY <2>1, <2>4 DEF Speaking
    <3>3. frames[1] = Now - Len(ring) - Len(frames) + 1
      BY <3>1, <3>2
    <3>4. CASE i > Now - Len(ring)
      <4>1. i - (Now - Len(ring)) \in 1..Len(ring)
        BY <3>2, <3>4, <2>1, <2>4
      <4>2. ring[i - (Now - Len(ring))] = i
        BY <4>1, <3>1, <3>2, <2>1
      <4> QED BY <4>1, <4>2, <2>1 DEF Unheard
    <3>5. CASE i <= Now - Len(ring)
      <4>1. i - (Now - Len(ring) - Len(frames)) \in 1..Len(frames)
        BY <3>2, <3>3, <3>5, <2>1, <2>4
      <4>2. frames[i - (Now - Len(ring) - Len(frames))] = i
        BY <4>1, <3>1, <3>2, <2>1
      <4> QED BY <4>1, <4>2, <2>1
    <3> QED BY <3>2, <3>4, <3>5, <2>1
  <2> QED BY <2>2, <2>3, <2>4
<1> QED BY <1>1, ListeningInvariant, PTL

------------------------------------------------------------------------------
(* The voice assistant's wakes.                                             *)

(* What is marked as taken has been served or is the wake that is queued     *)
(* (monitor_hardware_wake and the main loop both mark).                      *)
TakenIsKept == lastToken <= served \/ lastToken = pending

(* The last wake was answered, or is queued, or has still to be noticed: no  *)
(* path of the main loop or of the watcher loses it.  What WakeIsAnswered    *)
(* rests on.                                                                 *)
NoWakeIsForgotten == wake <= served \/ wake = pending \/ wake # lastToken

WakesInv ==
  /\ wake \in 0..MaxWake
  /\ lastToken \in 0..wake /\ pending \in 0..wake /\ served \in 0..wake
  /\ watcher \in [at : {"watching", "deciding", "holding", "stopping", "hitting", "telling"},
                  for : 0..wake, found : SUBSET Handle]
  /\ TakenIsKept
  /\ NoWakeIsForgotten

LEMMA InitWakesInv == VoiceInit => WakesInv
BY VoiceAssumption DEF VoiceInit, WakesInv, TakenIsKept, NoWakeIsForgotten

(* The stages of an interaction and the commands leave the wakes alone.      *)
LEMMA InteractionLeavesWakes ==
  ASSUME Interaction \/ TakesCommand \/ PopsRequirement PROVE UNCHANGED mainVars
<1>1. CASE Acknowledged \/ Recorded \/ Transcribed \/ Acted
  BY <1>1 DEF Acknowledged, Recorded, Transcribed, Acted
<1>2. CASE Looks \/ OpensSession \/ AgentRuns \/ AgentAnswers \/ Played
  BY <1>2 DEF Looks, OpensSession, AgentRuns, AgentAnswers, Played
<1>3. CASE Announced \/ Speaks \/ Close \/ Publish
  BY <1>3 DEF Announced, Speaks, Close, Publish
<1>4. CASE TakesCommand \/ PopsRequirement
  BY <1>4 DEF TakesCommand, PopsRequirement
<1> QED BY <1>1, <1>2, <1>3, <1>4 DEF Interaction

LEMMA NextWakesInv == WakesInv /\ [VoiceNext]_voiceVars => WakesInv'
<1> SUFFICES ASSUME WakesInv, [VoiceNext]_voiceVars PROVE WakesInv'
  OBVIOUS
<1> USE VoiceAssumption DEF WakesInv, TakenIsKept, NoWakeIsForgotten
<1>1. CASE Wakes
  <2>1. wake' = wake + 1 /\ wake' \in 0..MaxWake /\ UNCHANGED <<lastToken, pending, served, watcher>>
    BY <1>1 DEF Wakes
  <2>2. 0..wake \subseteq 0..wake'
    BY <2>1
  <2>3. watcher' \in [at : {"watching", "deciding", "holding", "stopping", "hitting", "telling"},
                      for : 0..wake', found : SUBSET Handle]
    BY <2>1, <2>2
  <2> QED BY <2>1, <2>3
<1>2. CASE Notices
  <2>1. UNCHANGED <<wake, lastToken, pending, served>>
        /\ watcher' = [watcher EXCEPT !.at = "deciding", !.for = wake]
    BY <1>2 DEF Notices
  <2>2. wake \in 0..wake
    OBVIOUS
  <2>3. watcher' \in [at : {"watching", "deciding", "holding", "stopping", "hitting", "telling"},
                      for : 0..wake, found : SUBSET Handle]
    BY <2>1, <2>2
  <2> QED BY <2>1, <2>3
<1>3. CASE Supersedes
  <2>1. CASE watcher.for = lastToken
    BY <1>3, <2>1 DEF Supersedes
  <2>2. CASE watcher.for # lastToken
    <3>1. /\ UNCHANGED <<wake, served>> /\ lastToken' = watcher.for /\ pending' = watcher.for
          /\ watcher' = [watcher EXCEPT !.at = "holding"]
      BY <1>3, <2>2 DEF Supersedes, Queued
    <3>2. watcher.for \in 0..wake
      OBVIOUS
    <3>3. watcher' \in [at : {"watching", "deciding", "holding", "stopping", "hitting", "telling"},
                        for : 0..wake, found : SUBSET Handle]
      BY <3>1
    <3> QED BY <3>1, <3>2, <3>3
  <2> QED BY <2>1, <2>2
<1>4. CASE Interrupts
  <2>1. UNCHANGED <<wake, lastToken, pending, served>>
        /\ watcher' = [watcher EXCEPT !.at = "stopping", !.found = {h \in Handle : live[h] = "on"}]
    BY <1>4 DEF Interrupts
  <2> QED BY <2>1
<1>5. CASE StopsPlaying
  BY <1>5 DEF StopsPlaying
<1>6. CASE HitsAgent \/ Tells
  BY <1>6 DEF HitsAgent, Tells
<1>7. CASE Interaction \/ TakesCommand \/ PopsRequirement
  BY <1>7, InteractionLeavesWakes DEF mainVars
<1>8. CASE PopsWake
  <2>1. UNCHANGED <<wake, lastToken, watcher>> /\ pending' = 0
    BY <1>8 DEF PopsWake
  <2>2. \/ pending # 0 /\ served' = Newest(served, pending)
        \/ pending = 0 /\ served' = served
    BY <1>8 DEF PopsWake
  <2>3. served' \in 0..wake /\ served <= served' /\ pending <= served'
    BY <2>2 DEF Newest
  <2> QED BY <2>1, <2>3
<1>9. CASE ChecksHardware
  <2>1. /\ UNCHANGED <<wake, pending, watcher>>
        /\ \/ lastToken' = wake /\ served' = wake
           \/ wake = lastToken /\ UNCHANGED <<lastToken, served>>
    BY <1>9 DEF ChecksHardware
  <2> QED BY <2>1
<1>10. CASE UNCHANGED voiceVars
  BY <1>10 DEF voiceVars
<1> QED
  BY <1>1, <1>2, <1>3, <1>4, <1>5, <1>6, <1>7, <1>8, <1>9, <1>10
  DEF VoiceNext, WatcherStep, MainStep

(* Two places take wakes up, the main loop between two interactions and the  *)
(* watcher during one; between them no wake is marked as taken and dropped.  *)
THEOREM WakesAreKept == VoiceSpec => [](TakenIsKept /\ NoWakeIsForgotten)
<1>1. WakesInv => TakenIsKept /\ NoWakeIsForgotten
  BY DEF WakesInv
<1> QED BY <1>1, InitWakesInv, NextWakesInv, PTL DEF VoiceSpec
------------------------------------------------------------------------------
(* The recovery controller.                                                 *)

(* The status file says running only while a thread is at work that will     *)
(* write it again, or while the controller is down and will write it when it *)
(* starts (RecoveryManager.recover, __init__): what RunningIsOver rests on.  *)
RunningIsBacked ==
  statusFile = "running" =>
    controller = "down" \/ thread \in {"services", "display", "paper", "finish"}

(* Memory says running from the first step of the thread to its last.        *)
RecoveryInv ==
  /\ RecoveryTypeOK
  /\ RunningIsBacked
  /\ thread \in {"write", "services", "display", "paper"} => memory = "running"
  /\ thread \in {"none", "start"} /\ controller = "up" => memory # "running"
  /\ thread = "finish" => memory # "running"

LEMMA InitRecoveryInv == RecoveryInit => RecoveryInv
<1> SUFFICES ASSUME RecoveryInit PROVE RecoveryInv
  OBVIOUS
<1>1. presses \in 0..MaxPresses /\ deaths \in 0..MaxDeaths
  BY RecoveryAssumption DEF RecoveryInit
<1>2. restarting \in BOOLEAN /\ page \in BOOLEAN
  BY DEF RecoveryInit
<1>3. /\ controller = "up" /\ memory = "idle" /\ statusFile = "idle"
      /\ thread = "none" /\ asking = "none" /\ button = "idle"
  BY DEF RecoveryInit
<1> QED
  BY <1>1, <1>2, <1>3 DEF RecoveryInv, RecoveryTypeOK, RunningIsBacked, States, Stages

LEMMA NextRecoveryInv == RecoveryInv /\ [RecoveryNext]_recoveryVars => RecoveryInv'
<1> SUFFICES ASSUME RecoveryInv, [RecoveryNext]_recoveryVars PROVE RecoveryInv'
  OBVIOUS
<1> USE RecoveryAssumption DEF RecoveryInv, RecoveryTypeOK, RunningIsBacked, States, Stages
<1>1. CASE OpensPage \/ ClosesPage
  <2>1. /\ page' \in BOOLEAN /\ UNCHANGED <<asking, button, presses>>
        /\ UNCHANGED <<controller, memory, statusFile, thread, restarting, deaths>>
    BY <1>1 DEF OpensPage, ClosesPage, control
  <2> QED BY <2>1
<1>10. CASE Presses
  <2>1. presses' \in 0..MaxPresses
    BY <1>10 DEF Presses
  <2>2. UNCHANGED <<page, controller, memory, statusFile, thread, restarting, deaths>>
        /\ asking' = "sent" /\ button' = "running"
    BY <1>10 DEF Presses, control
  <2> QED BY <2>1, <2>2
<1>2. CASE TakesReply
  BY <1>2 DEF TakesReply, control
<1>3. CASE ReadsStatus
  BY <1>3 DEF ReadsStatus, control
<1>4. CASE DisplayRestarts
  BY <1>4 DEF DisplayRestarts
<1>5. CASE Answers
  <2>1. /\ UNCHANGED <<controller, memory, statusFile, restarting, deaths, page, button, presses>>
        /\ asking' \in {"accepted", "refused"}
        /\ thread' = thread \/ (controller = "up" /\ thread = "none" /\ thread' = "start")
    BY <1>5 DEF Answers
  <2> QED BY <2>1
<1>6. CASE Recovers
  <2>1. UNCHANGED <<controller, deaths, asking, page, button, presses>>
    BY <1>6 DEF Recovers, desk
  <2>2. thread # "none" => controller = "up"
    OBVIOUS
  <2>3. CASE Goes("start", "write") /\ memory' = "running" /\ UNCHANGED <<statusFile, restarting>>
    BY <2>1, <2>2, <2>3 DEF Goes
  <2>4. CASE Goes("write", "services") /\ statusFile' = memory /\ UNCHANGED <<memory, restarting>>
    BY <2>1, <2>2, <2>4 DEF Goes
  <2>5. CASE /\ thread = "services" /\ thread' \in {"services", "display"}
             /\ statusFile' = memory /\ UNCHANGED <<memory, restarting>>
    BY <2>1, <2>2, <2>5
  <2>6. CASE Goes("display", "paper") /\ restarting' = TRUE /\ UNCHANGED <<memory, statusFile>>
    BY <2>1, <2>2, <2>6 DEF Goes
  <2>7. CASE /\ Goes("paper", "finish") /\ memory' \in {"complete", "failed"}
             /\ UNCHANGED <<statusFile, restarting>>
    BY <2>1, <2>2, <2>7 DEF Goes
  <2>8. CASE Goes("finish", "none") /\ statusFile' = memory /\ UNCHANGED <<memory, restarting>>
    BY <2>1, <2>2, <2>8 DEF Goes
  <2> QED BY <1>6, <2>3, <2>4, <2>5, <2>6, <2>7, <2>8 DEF Recovers
<1>7. CASE ControllerDies
  BY <1>7 DEF ControllerDies, desk
<1>8. CASE ControllerStarts
  BY <1>8 DEF ControllerStarts, desk
<1>9. CASE UNCHANGED recoveryVars
  BY <1>9 DEF recoveryVars
<1> QED
  BY <1>1, <1>2, <1>3, <1>4, <1>5, <1>6, <1>7, <1>8, <1>9, <1>10 DEF RecoveryNext

(* However often the button is pressed and the controller dies, a status     *)
(* that says running has someone behind it who will write another one.       *)
THEOREM RunningHasItsThread == RecoverySpec => []RunningIsBacked
<1>1. RecoveryInv => RunningIsBacked
  BY DEF RecoveryInv
<1> QED BY <1>1, InitRecoveryInv, NextRecoveryInv, PTL DEF RecoverySpec
------------------------------------------------------------------------------
(* The health monitor.                                                      *)

(* An outage the user was told of is still one, or its end is waiting to be  *)
(* told (update_tracking, notify_events): what TellsTheTruth rests on.       *)
AnnouncedIsOpen ==
  \A c \in Check : lastTold[c] = "down" => tracking[c].status = "down" \/ tracking[c].pending

TrackingRecord ==
  [status : {"unknown", "up", "down"}, failures : 0..Failing,
   alerted : BOOLEAN, pending : BOOLEAN, since : 0..Repeat]

(* alerted is what the user believes; a check is down before it is due.      *)
Consistent(c) ==
  /\ lastTold[c] = "down" <=> tracking[c].alerted
  /\ tracking[c].alerted => announced
  /\ tracking[c].alerted => tracking[c].status = "down" \/ tracking[c].pending
  /\ tracking[c].failures = Failing => tracking[c].status = "down"

AlertInv ==
  /\ tracking \in [Check -> TrackingRecord]
  /\ lastTold \in [Check -> {"nothing", "down", "up"}]
  /\ announced \in BOOLEAN /\ alertDue \subseteq Check
  /\ \A c \in Check : Consistent(c)
  /\ monitor = "alert" => \A c \in alertDue : tracking[c].status = "down"

LEMMA FailingIsPositive == Failing \in Nat /\ Failing >= 1
BY HealthAssumption DEF ConfigLoads, Failing

LEMMA InitAlertInv == HealthInit => AlertInv
<1> SUFFICES ASSUME HealthInit PROVE AlertInv
  OBVIOUS
<1>1. /\ tracking = [c \in Check |-> [status |-> "unknown", failures |-> 0, alerted |-> FALSE,
                                      pending |-> FALSE, since |-> Repeat]]
      /\ lastTold = [c \in Check |-> "nothing"]
      /\ announced = FALSE /\ alertDue = {} /\ monitor = "grace"
  BY DEF HealthInit
<1>2. Repeat \in Nat
  BY HealthAssumption DEF ConfigLoads
<1>3. ASSUME NEW c \in Check
      PROVE  /\ tracking[c] \in TrackingRecord /\ ~tracking[c].alerted
             /\ tracking[c].failures = 0 /\ lastTold[c] = "nothing"
  BY <1>1, <1>2, FailingIsPositive DEF TrackingRecord
<1>4. tracking \in [Check -> TrackingRecord]
  BY <1>1, <1>3
<1>5. lastTold \in [Check -> {"nothing", "down", "up"}]
  BY <1>1
<1>6. ASSUME NEW c \in Check PROVE Consistent(c)
  <2>1. ~tracking[c].alerted
    BY <1>3
  <2>2. tracking[c].failures # Failing
    BY <1>3, FailingIsPositive
  <2>3. lastTold[c] # "down"
    BY <1>3
  <2> QED BY <2>1, <2>2, <2>3 DEF Consistent
<1> QED BY <1>1, <1>4, <1>5, <1>6 DEF AlertInv

(* Healed and Failed keep a record consistent with what was told.            *)
LEMMA HealedKeeps ==
  ASSUME NEW t \in TrackingRecord,
         t.alerted => t.status = "down" \/ t.pending
  PROVE  /\ Healed(t) \in TrackingRecord
         /\ Healed(t).alerted = t.alerted /\ Healed(t).failures = 0
         /\ t.alerted => Healed(t).pending
<1>1. t.alerted \in BOOLEAN /\ t.pending \in BOOLEAN
  BY DEF TrackingRecord
<1>2. 0 \in 0..Failing
  BY FailingIsPositive
<1>3. Healed(t) \in TrackingRecord
  BY <1>2 DEF Healed, TrackingRecord
<1>4. /\ Healed(t).alerted = t.alerted /\ Healed(t).failures = 0
      /\ Healed(t).pending = (t.pending \/ (t.status = "down" /\ t.alerted))
  BY DEF Healed, TrackingRecord
<1> QED BY <1>3, <1>4

LEMMA FailedKeeps ==
  ASSUME NEW t \in TrackingRecord,
         t.failures = Failing => t.status = "down",
         t.alerted => t.status = "down" \/ t.pending
  PROVE  /\ Failed(t) \in TrackingRecord
         /\ Failed(t).alerted = t.alerted
         /\ t.alerted => Failed(t).status = "down" \/ Failed(t).pending
         /\ Failed(t).failures = Failing => Failed(t).status = "down"
<1> DEFINE n == IF t.failures < Failing THEN t.failures + 1 ELSE t.failures
           s == IF n = Failing THEN "down" ELSE t.status
<1>1. n \in 0..Failing
  BY FailingIsPositive DEF TrackingRecord
<1>2. s \in {"unknown", "up", "down"}
  BY DEF TrackingRecord
<1>3. Failed(t) = [t EXCEPT !.failures = n, !.status = s]
  BY DEF Failed
<1>4. n = Failing => s = "down"
  OBVIOUS
<1>5. t.status = "down" => s = "down"
  OBVIOUS
<1> HIDE DEF n, s
<1>6. Failed(t) \in TrackingRecord
  BY <1>1, <1>2, <1>3 DEF TrackingRecord
<1>7. /\ Failed(t).failures = n /\ Failed(t).status = s
      /\ Failed(t).alerted = t.alerted /\ Failed(t).pending = t.pending
  BY <1>3 DEF TrackingRecord
<1> QED BY <1>4, <1>5, <1>6, <1>7

LEMMA TracksKeeps == AlertInv /\ Tracks => AlertInv'
<1> SUFFICES ASSUME AlertInv, Tracks PROVE AlertInv'
  OBVIOUS
<1>1. /\ tracking' = [c \in Check |-> IF healthy[c] THEN Healed(tracking[c]) ELSE Failed(tracking[c])]
      /\ alertDue' = {c \in Check : /\ ~healthy[c] /\ tracking'[c].failures = Failing
                                    /\ tracking'[c].alerted => tracking'[c].since = Repeat}
      /\ UNCHANGED <<announced, lastTold>>
  BY DEF Tracks
<1>2. ASSUME NEW c \in Check
      PROVE  /\ tracking'[c] \in TrackingRecord /\ tracking'[c].alerted = tracking[c].alerted
             /\ tracking[c].alerted => tracking'[c].status = "down" \/ tracking'[c].pending
             /\ tracking'[c].failures = Failing => tracking'[c].status = "down"
  <2>1. /\ tracking[c] \in TrackingRecord
        /\ tracking[c].alerted => tracking[c].status = "down" \/ tracking[c].pending
        /\ tracking[c].failures = Failing => tracking[c].status = "down"
    BY DEF AlertInv, Consistent
  <2>2. CASE healthy[c]
    <3>1. tracking'[c] = Healed(tracking[c])
      BY <1>1, <2>2
    <3> QED BY <2>1, <3>1, HealedKeeps, FailingIsPositive
  <2>3. CASE ~healthy[c]
    <3>1. tracking'[c] = Failed(tracking[c])
      BY <1>1, <2>3
    <3> QED BY <2>1, <3>1, FailedKeeps
  <2> QED BY <2>2, <2>3
<1>3. tracking' \in [Check -> TrackingRecord]
  BY <1>1, <1>2
<1>4. \A c \in Check : Consistent(c)'
  BY <1>1, <1>2 DEF AlertInv, Consistent
<1>5. alertDue' \subseteq Check /\ \A c \in alertDue' : tracking'[c].failures = Failing
  BY <1>1
<1> QED BY <1>1, <1>2, <1>3, <1>4, <1>5 DEF AlertInv

LEMMA AlertsKeeps == AlertInv /\ Alerts => AlertInv'
<1> SUFFICES ASSUME AlertInv, Alerts PROVE AlertInv'
  OBVIOUS
<1>1. monitor = "alert" /\ monitor' = "recover" /\ UNCHANGED alertDue
  BY DEF Alerts, due
<1>2. CASE UNCHANGED <<tracking, lastTold, announced>>
  BY <1>1, <1>2 DEF AlertInv, Consistent
<1>3. CASE /\ tracking' = [c \in Check |-> IF c \in alertDue
                             THEN [tracking[c] EXCEPT !.alerted = TRUE, !.since = 0]
                             ELSE tracking[c]]
           /\ lastTold' = [c \in Check |-> IF c \in alertDue THEN "down" ELSE lastTold[c]]
           /\ announced' = TRUE
  <2>1. ASSUME NEW c \in Check
        PROVE  /\ tracking'[c] \in TrackingRecord
               /\ tracking'[c].status = tracking[c].status
               /\ tracking'[c].failures = tracking[c].failures
               /\ tracking'[c].pending = tracking[c].pending
               /\ IF c \in alertDue THEN tracking'[c].alerted
                                    ELSE tracking'[c].alerted = tracking[c].alerted
    <3>1. tracking[c] \in TrackingRecord
      BY DEF AlertInv
    <3>2. CASE c \notin alertDue
      BY <1>3, <3>1, <3>2
    <3>3. CASE c \in alertDue
      <4>1. tracking'[c] = [tracking[c] EXCEPT !.alerted = TRUE, !.since = 0]
        BY <1>3, <3>3
      <4>2. 0 \in 0..Repeat
        BY HealthAssumption DEF ConfigLoads
      <4>3. tracking'[c] \in TrackingRecord
        BY <3>1, <4>1, <4>2 DEF TrackingRecord
      <4>4. /\ tracking'[c].status = tracking[c].status
            /\ tracking'[c].failures = tracking[c].failures
            /\ tracking'[c].pending = tracking[c].pending
            /\ tracking'[c].alerted
        BY <3>1, <4>1 DEF TrackingRecord
      <4> QED BY <3>3, <4>3, <4>4
    <3> QED BY <3>2, <3>3
  <2>2. tracking' \in [Check -> TrackingRecord]
    BY <1>3, <2>1
  <2>3. lastTold' \in [Check -> {"nothing", "down", "up"}]
    BY <1>3 DEF AlertInv
  <2>4. ASSUME NEW c \in Check PROVE Consistent(c)'
    <3>1. CASE c \in alertDue
      <4>1. lastTold'[c] = "down" /\ announced' /\ tracking[c].status = "down"
        BY <1>1, <1>3, <3>1 DEF AlertInv
      <4> QED BY <2>1, <3>1, <4>1 DEF Consistent
    <3>2. CASE c \notin alertDue
      <4>1. lastTold'[c] = lastTold[c] /\ announced'
        BY <1>3, <3>2
      <4>2. Consistent(c)
        BY DEF AlertInv
      <4> QED BY <2>1, <3>2, <4>1, <4>2 DEF Consistent
    <3> QED BY <3>1, <3>2
  <2> QED BY <1>1, <1>3, <2>2, <2>3, <2>4 DEF AlertInv
<1> QED BY <1>2, <1>3 DEF Alerts

LEMMA TellsRecoveryKeeps == AlertInv /\ TellsRecovery => AlertInv'
<1> SUFFICES ASSUME AlertInv, TellsRecovery PROVE AlertInv'
  OBVIOUS
<1>1. monitor' = "announce" /\ UNCHANGED <<alertDue, announced>>
  BY DEF TellsRecovery, due
<1>2. CASE UNCHANGED <<tracking, lastTold>>
  BY <1>1, <1>2 DEF AlertInv, Consistent
<1>3. CASE /\ tracking' = [c \in Check |-> IF c \in recoveryDue
                             THEN [tracking[c] EXCEPT !.alerted = FALSE, !.pending = FALSE,
                                                      !.since = Repeat]
                             ELSE tracking[c]]
           /\ lastTold' = [c \in Check |-> IF c \in recoveryDue THEN "up" ELSE lastTold[c]]
  <2>1. ASSUME NEW c \in Check, c \in recoveryDue
        PROVE  tracking'[c] \in TrackingRecord /\ Consistent(c)'
    <3>1. tracking[c] \in TrackingRecord /\ Consistent(c) /\ lastTold'[c] = "up"
      BY <1>3, <2>1 DEF AlertInv
    <3>2. tracking'[c] = [tracking[c] EXCEPT !.alerted = FALSE, !.pending = FALSE, !.since = Repeat]
      BY <1>3, <2>1
    <3>3. Repeat \in 0..Repeat
      BY HealthAssumption DEF ConfigLoads
    <3>4. tracking'[c] \in TrackingRecord
      BY <3>1, <3>2, <3>3 DEF TrackingRecord
    <3>5. /\ ~tracking'[c].alerted /\ tracking'[c].status = tracking[c].status
          /\ tracking'[c].failures = tracking[c].failures
      BY <3>1, <3>2 DEF TrackingRecord
    <3> QED BY <3>1, <3>4, <3>5 DEF Consistent
  <2>2. ASSUME NEW c \in Check, c \notin recoveryDue
        PROVE  tracking'[c] \in TrackingRecord /\ Consistent(c)'
    BY <1>1, <1>3, <2>2 DEF AlertInv, Consistent
  <2>3. tracking' \in [Check -> TrackingRecord]
    BY <1>3, <2>1, <2>2
  <2>4. lastTold' \in [Check -> {"nothing", "down", "up"}]
    BY <1>3 DEF AlertInv
  <2> QED BY <1>1, <2>1, <2>2, <2>3, <2>4 DEF AlertInv
<1> QED BY <1>2, <1>3 DEF TellsRecovery

LEMMA NextCycleKeeps == AlertInv /\ NextCycle => AlertInv'
<1> SUFFICES ASSUME AlertInv, NextCycle PROVE AlertInv'
  OBVIOUS
<1>1. /\ monitor' = "collect" /\ UNCHANGED <<alertDue, announced, lastTold>>
      /\ tracking' = [c \in Check |-> [tracking[c] EXCEPT !.since = IF @ < Repeat THEN @ + 1 ELSE @]]
  BY DEF NextCycle, due
<1>2. ASSUME NEW c \in Check
      PROVE  /\ tracking'[c] \in TrackingRecord
             /\ tracking'[c].status = tracking[c].status
             /\ tracking'[c].failures = tracking[c].failures
             /\ tracking'[c].alerted = tracking[c].alerted
             /\ tracking'[c].pending = tracking[c].pending
  <2> DEFINE n == IF tracking[c].since < Repeat THEN tracking[c].since + 1 ELSE tracking[c].since
  <2>1. tracking[c] \in TrackingRecord
    BY DEF AlertInv
  <2>2. tracking'[c] = [tracking[c] EXCEPT !.since = n]
    BY <1>1
  <2>3. n \in 0..Repeat
    BY <2>1, HealthAssumption DEF TrackingRecord, ConfigLoads
  <2> HIDE DEF n
  <2>4. tracking'[c] \in TrackingRecord
    BY <2>1, <2>2, <2>3 DEF TrackingRecord
  <2> QED BY <2>1, <2>2, <2>4 DEF TrackingRecord
<1>3. tracking' \in [Check -> TrackingRecord]
  BY <1>1, <1>2
<1>4. \A c \in Check : Consistent(c)'
  BY <1>1, <1>2 DEF AlertInv, Consistent
<1> QED BY <1>1, <1>3, <1>4 DEF AlertInv

LEMMA NextAlertInv == AlertInv /\ [HealthNext]_healthVars => AlertInv'
<1> SUFFICES ASSUME AlertInv, [HealthNext]_healthVars PROVE AlertInv'
  OBVIOUS
<1>1. ASSUME UNCHANGED <<tracking, lastTold, announced, alertDue>>, monitor' # "alert" \/ monitor' = monitor
      PROVE  AlertInv'
  BY <1>1 DEF AlertInv, Consistent
<1>2. CASE Changes \/ GraceEnds \/ Stops \/ UNCHANGED healthVars
  BY <1>1, <1>2 DEF Changes, GraceEnds, Stops, healthVars, due
<1>3. CASE \E c \in Check : Collects(c)
  BY <1>1, <1>3 DEF Collects, due
<1>4. CASE Announces
  <2>1. monitor' = "wait" /\ UNCHANGED <<tracking, alertDue>>
    BY <1>4 DEF Announces, due
  <2>2. CASE UNCHANGED <<announced, lastTold>>
    BY <1>1, <2>1, <2>2
  <2>3. CASE ~announced /\ announced' = TRUE /\ lastTold' = [c \in Check |-> "up"]
    <3>1. \A c \in Check : Consistent(c)'
      BY <2>1, <2>3 DEF AlertInv, Consistent
    <3> QED BY <2>1, <2>3, <3>1 DEF AlertInv
  <2> QED BY <1>4, <2>2, <2>3 DEF Announces
<1> QED
  BY <1>2, <1>3, <1>4, TracksKeeps, AlertsKeeps, TellsRecoveryKeeps, NextCycleKeeps
  DEF HealthNext, MonitorStep

(* Whatever popups were lost before, an outage the user was told of that is  *)
(* over has its recovery pending: it is retried, not forgotten.              *)
THEOREM AnnouncedOutagesAreClosed == HealthSpec => []AnnouncedIsOpen
<1>1. AlertInv => AnnouncedIsOpen
  BY DEF AlertInv, Consistent, AnnouncedIsOpen
<1> QED BY <1>1, InitAlertInv, NextAlertInv, PTL DEF HealthSpec
==============================================================================
