---------------------------- MODULE AgentRuntime ----------------------------
(***************************************************************************)
(* The agent runtime (apps/agent-runtime): a service that runs one Hermes  *)
(* process per request, at most MaxConcurrency at a time, and the client   *)
(* side that task worker, chat worker and workshop generator share.        *)
(*                                                                         *)
(* A run is one call of run_async or run_sync; its requestId is a fresh    *)
(* uuid, so runs are never repeated.  `process' is what lives in the       *)
(* session of the Hermes process.                                          *)
(***************************************************************************)
EXTENDS Naturals, Sequences, FiniteSets

CONSTANTS Run,              \* requests
          MaxConcurrency,   \* permits of the semaphore
          MaxRestarts       \* bound on stops and crashes of the service

ASSUME AgentAssumption == /\ MaxConcurrency \in Nat \ {0}
                          /\ MaxRestarts \in Nat

VARIABLES caller,       \* the client of a run, in run_async or run_sync
          handler,      \* where handle() is for the run's connection
          registered,   \* self.active: runs a cancel can find
          cancelSet,    \* runs whose event is set
          waiters,      \* FIFO of the semaphore
          process,      \* the Hermes process of a run
          cancelSent,   \* cancel requests on their way to the service
          runtime,      \* the service
          restarts      \* stops and crashes so far

agentVars == <<caller, handler, registered, cancelSet, waiters, process,
               cancelSent, runtime, restarts>>

CallerState  == {"idle", "waiting", "cancelling", "ended", "dead"}
HandlerState == {"none", "reading", "queued", "spawning", "streaming",
                 "draining", "terminating", "done"}
ProcessState == {"none", "alive", "silent", "exited"}

Living  == {r \in Run : process[r] \in {"alive", "silent"}}
Holding == {r \in Run : handler[r] \in {"spawning", "streaming", "draining", "terminating"}}
Connected(r) == caller[r] \in {"waiting", "cancelling"}

AgentTypeOK ==
  /\ caller \in [Run -> CallerState]
  /\ handler \in [Run -> HandlerState]
  /\ registered \subseteq Run
  /\ cancelSet \subseteq Run
  /\ waiters \in Seq(Run)
  /\ process \in [Run -> ProcessState]
  /\ cancelSent \subseteq Run
  /\ runtime \in {"up", "closing", "down"}
  /\ restarts \in 0..MaxRestarts

AgentInit ==
  /\ caller = [r \in Run |-> "idle"]
  /\ handler = [r \in Run |-> "none"]
  /\ registered = {}
  /\ cancelSet = {}
  /\ waiters = <<>>
  /\ process = [r \in Run |-> "none"]
  /\ cancelSent = {}
  /\ runtime = "up"
  /\ restarts = 0

-----------------------------------------------------------------------------
(* The client *)

\* Connects and sends the request, or finds no service.
RequestRun(r) ==
  /\ caller[r] = "idle"
  /\ IF runtime = "up"
       THEN /\ caller' = [caller EXCEPT ![r] = "waiting"]
            /\ handler' = [handler EXCEPT ![r] = "reading"]
       ELSE /\ caller' = [caller EXCEPT ![r] = "ended"]
            /\ UNCHANGED handler
  /\ UNCHANGED <<registered, cancelSet, waiters, process, cancelSent, runtime, restarts>>

\* final or error is read, or the stream ends with the service.
ReadAnswer(r) ==
  /\ caller[r] = "waiting"
  /\ handler[r] = "done"
  /\ caller' = [caller EXCEPT ![r] = "ended"]
  /\ UNCHANGED <<handler, registered, cancelSet, waiters, process, cancelSent, runtime, restarts>>

\* should_cancel() is true, or the deadline, which runs since the request
\* was sent, has passed: a cancel goes out on a connection of its own.
SendCancel(r) ==
  /\ caller[r] = "waiting"
  /\ caller' = [caller EXCEPT ![r] = "cancelling"]
  /\ cancelSent' = cancelSent \cup {r}
  /\ UNCHANGED <<handler, registered, cancelSet, waiters, process, runtime, restarts>>

\* The cancel was answered, whether it found the run or not, or nobody is
\* there; the client raises and closes its stream either way.
CancelReturns(r) ==
  /\ caller[r] = "cancelling"
  /\ \/ r \notin cancelSent
     \/ runtime # "up"
  /\ caller' = [caller EXCEPT ![r] = "ended"]
  /\ cancelSent' = cancelSent \ {r}
  /\ UNCHANGED <<handler, registered, cancelSet, waiters, process, runtime, restarts>>

\* The client process dies, or its snapshot callback raises.
CallerGone(r) ==
  /\ Connected(r)
  /\ caller' = [caller EXCEPT ![r] = "dead"]
  /\ UNCHANGED <<handler, registered, cancelSet, waiters, process, cancelSent, runtime, restarts>>

-----------------------------------------------------------------------------
(* The service *)

\* The finally clause of handle(): the table entry goes, the stream closes.
Finish(r) == /\ handler' = [handler EXCEPT ![r] = "done"]
             /\ registered' = registered \ {r}

\* cancel: sets the event of a run that is in the table, else does nothing.
Cancel(r) ==
  /\ runtime = "up"
  /\ r \in cancelSent
  /\ cancelSent' = cancelSent \ {r}
  /\ cancelSet' = IF r \in registered THEN cancelSet \cup {r} ELSE cancelSet
  /\ UNCHANGED <<caller, handler, registered, waiters, process, runtime, restarts>>

\* A request that is malformed, not allowed, late (5 s) or incomplete.
Refuse(r) ==
  /\ handler[r] = "reading"
  /\ Finish(r)
  /\ UNCHANGED <<caller, cancelSet, waiters, process, cancelSent, runtime, restarts>>

\* The run enters the table and queues for the semaphore.  Nothing of
\* close() keeps out a connection that was accepted before it.
Register(r) ==
  /\ handler[r] = "reading"
  /\ handler' = [handler EXCEPT ![r] = "queued"]
  /\ registered' = registered \cup {r}
  /\ waiters' = Append(waiters, r)
  /\ UNCHANGED <<caller, cancelSet, process, cancelSent, runtime, restarts>>

\* The oldest waiter takes a permit; a run cancelled while it waited ends
\* here and gives the permit back.
TakePermit(r) ==
  /\ waiters # <<>> /\ r = Head(waiters)
  /\ Cardinality(Holding) < MaxConcurrency
  /\ waiters' = Tail(waiters)
  /\ IF r \in cancelSet
       THEN Finish(r)
       ELSE /\ handler' = [handler EXCEPT ![r] = "spawning"]
            /\ UNCHANGED registered
  /\ UNCHANGED <<caller, cancelSet, process, cancelSent, runtime, restarts>>

\* create_subprocess_exec, or an error of command() before it.
Spawn(r) ==
  /\ handler[r] = "spawning"
  /\ \/ /\ process' = [process EXCEPT ![r] = "alive"]
        /\ handler' = [handler EXCEPT ![r] = "streaming"]
        /\ UNCHANGED registered
     \/ /\ Finish(r)
        /\ UNCHANGED process
  /\ UNCHANGED <<caller, cancelSet, waiters, cancelSent, runtime, restarts>>

\* The read loop gives up: the event is set, the timeout has passed, the
\* answer grows too long, or a snapshot cannot be sent.
StopRun(r) ==
  /\ handler[r] = "streaming"
  /\ handler' = [handler EXCEPT ![r] = "terminating"]
  /\ UNCHANGED <<caller, registered, cancelSet, waiters, process, cancelSent, runtime, restarts>>

\* read() returns the end of the output.  From here the handler waits for
\* the process without a timeout and without a look at the event.
OutputEnds(r) ==
  /\ handler[r] = "streaming"
  /\ process[r] \in {"silent", "exited"}
  /\ handler' = [handler EXCEPT ![r] = "draining"]
  /\ UNCHANGED <<caller, registered, cancelSet, waiters, process, cancelSent, runtime, restarts>>

Drained(r) ==
  /\ handler[r] = "draining"
  /\ process[r] = "exited"
  /\ Finish(r)
  /\ UNCHANGED <<caller, cancelSet, waiters, process, cancelSent, runtime, restarts>>

\* Mutant: the handler sends SIGTERM and does not wait for the process.
TerminatedEarly(r) ==
  /\ handler[r] = "terminating"
  /\ Finish(r)
  /\ UNCHANGED <<caller, cancelSet, waiters, process, cancelSent, runtime, restarts>>

\* _terminate: SIGTERM to the session, SIGKILL after four seconds.
Terminated(r) ==
  /\ handler[r] = "terminating"
  /\ process' = [process EXCEPT ![r] = "exited"]
  /\ Finish(r)
  /\ UNCHANGED <<caller, cancelSet, waiters, cancelSent, runtime, restarts>>

-----------------------------------------------------------------------------
(* Hermes and systemd *)

\* Hermes exits, or closes its output and lives on.
ProcessExits(r) ==
  /\ r \in Living
  /\ process' = [process EXCEPT ![r] = "exited"]
  /\ UNCHANGED <<caller, handler, registered, cancelSet, waiters, cancelSent, runtime, restarts>>

ProcessFallsSilent(r) ==
  /\ process[r] = "alive"
  /\ process' = [process EXCEPT ![r] = "silent"]
  /\ UNCHANGED <<caller, handler, registered, cancelSet, waiters, cancelSent, runtime, restarts>>

\* SIGTERM: close() sets the event of every run in the table, then waits.
CloseRuntime ==
  /\ runtime = "up"
  /\ restarts < MaxRestarts
  /\ restarts' = restarts + 1
  /\ runtime' = "closing"
  /\ cancelSet' = cancelSet \cup registered
  /\ UNCHANGED <<caller, handler, registered, waiters, process, cancelSent>>

\* The end of the service: a crash, or close() returned or took longer than
\* TimeoutStopSec.  systemd kills what is left in the control group.
RuntimeEnds ==
  /\ \/ runtime = "closing" /\ UNCHANGED restarts
     \/ runtime = "up" /\ restarts < MaxRestarts /\ restarts' = restarts + 1
  /\ runtime' = "down"
  /\ handler' = [r \in Run |-> IF handler[r] = "none" THEN "none" ELSE "done"]
  /\ process' = [r \in Run |-> IF r \in Living THEN "exited" ELSE process[r]]
  /\ registered' = {}
  /\ waiters' = <<>>
  /\ UNCHANGED <<caller, cancelSet, cancelSent>>

RuntimeStarts ==
  /\ runtime = "down"
  /\ runtime' = "up"
  /\ UNCHANGED <<caller, handler, registered, cancelSet, waiters, process, cancelSent, restarts>>

-----------------------------------------------------------------------------
\* What the service does on its own, timeouts included.
ServiceStep(r) == \/ Register(r) \/ TakePermit(r) \/ Spawn(r) \/ StopRun(r) \/ OutputEnds(r)
                  \/ Drained(r) \/ Terminated(r)

AgentNext ==
  \/ \E r \in Run :
       \/ RequestRun(r) \/ ReadAnswer(r) \/ SendCancel(r) \/ CancelReturns(r) \/ CallerGone(r)
       \/ Cancel(r) \/ Refuse(r) \/ ServiceStep(r)
       \/ ProcessExits(r) \/ ProcessFallsSilent(r)
  \/ CloseRuntime \/ RuntimeEnds \/ RuntimeStarts

AgentSpec == AgentInit /\ [][AgentNext]_agentVars

-----------------------------------------------------------------------------
(* Properties *)

Executes(r) == r \in Living \/ r \in Holding

\* A run executes while it has a permit or a living process.
RunStage == [r \in Run |-> CASE Executes(r)                        -> "executing"
                             [] handler[r] \in {"none", "reading"} -> "new"
                             [] handler[r] = "queued"              -> "admitted"
                             [] OTHER                              -> "ended"]

Pool == INSTANCE RunPool WITH stage <- RunStage

\* The permits bound the Hermes processes themselves: a run never executes
\* without having been admitted, never twice, and a permit is given back only
\* when the process is gone, whatever ended the run (agent_runtime_service.py:139,
\* hermes.py:193).
ImplementsPool == Pool!Spec

AgentFairness == /\ \A r \in Run : WF_agentVars(ServiceStep(r))
                 /\ \A r \in Run : WF_agentVars(process[r] = "silent" /\ ProcessExits(r))
                 /\ WF_agentVars(runtime = "closing" /\ RuntimeEnds)

AgentFairSpec == AgentSpec /\ AgentFairness
=============================================================================
