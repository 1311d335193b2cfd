---------------------------- MODULE SpeechSession ----------------------------
(* StreamingSpeechSession: the turn hands clauses to a worker thread, which    *)
(* has them synthesised and writes the audio to one player.  The watcher of    *)
(* the wake word aborts the session from a third thread.                       *)
EXTENDS Naturals, Sequences

CONSTANTS
  QueueSize,   \* 64 in the code
  MaxClauses   \* clauses the answer is cut into

ASSUME SessionAssumption == QueueSize \in Nat \ {0} /\ MaxClauses \in Nat

Aborter == {"turn", "watcher"}

VARIABLES
  textQueue, aborted, player, audible,
  synthesis, \* where the worker thread is
  asker,     \* where the thread of the turn is
  aborting,  \* [Aborter -> how far its call of abort() has come]
  clauses    \* clauses the chunker has cut

sessionVars == <<textQueue, aborted, player, audible, synthesis, asker, aborting, clauses>>

SessionInit ==
  /\ textQueue = <<>> /\ aborted = FALSE /\ player = "none" /\ audible = FALSE
  /\ synthesis = "top" /\ asker = "asking"
  /\ aborting = [c \in Aborter |-> "no"] /\ clauses = 0

Full == Len(textQueue) = QueueSize

------------------------------------------------------------------------------
(* abort, in the steps another thread can see.  Mutant: without the sentinel. *)

SetsAborted(c) ==
  /\ aborting[c] = "called"
  /\ aborting' = [aborting EXCEPT ![c] = "set"] /\ aborted' = TRUE
  /\ UNCHANGED <<textQueue, player, audible, synthesis, asker, clauses>>

PutsDone(c) ==
  /\ aborting[c] = "set"
  /\ aborting' = [aborting EXCEPT ![c] = "put"]
  /\ textQueue' = IF Full THEN textQueue ELSE Append(textQueue, "done")
  /\ UNCHANGED <<aborted, player, audible, synthesis, asker, clauses>>

TerminatesPlayer(c) ==
  /\ aborting[c] = "put"
  /\ aborting' = [aborting EXCEPT ![c] = "over"]
  /\ player' = IF player \in {"open", "closed"} THEN "terminated" ELSE player
  /\ UNCHANGED <<textQueue, aborted, audible, synthesis, asker, clauses>>

(* request_barge_in, while the session is the registered one.                 *)
BargesIn ==
  /\ asker # "returned" /\ aborting["watcher"] = "no"
  /\ aborting' = [aborting EXCEPT !["watcher"] = "called"]
  /\ UNCHANGED <<textQueue, aborted, player, audible, synthesis, asker, clauses>>

Aborting == aborting["turn"] \in {"called", "set", "put"}

------------------------------------------------------------------------------
(* The thread of the turn.                                                    *)

(* feed with a delta that completes a clause, and the flush of finish.        *)
Enqueues ==
  /\ asker \in {"asking", "flushing"} /\ ~Aborting /\ clauses < MaxClauses
  /\ clauses' = clauses + 1
  /\ asker' = IF asker = "flushing" THEN "completing" ELSE asker
  /\ IF aborted THEN UNCHANGED <<textQueue, aborting>>
     ELSE IF Full
     THEN /\ UNCHANGED textQueue
          /\ aborting' = [aborting EXCEPT !["turn"] = "called"]
     ELSE textQueue' = Append(textQueue, "clause") /\ UNCHANGED aborting
  /\ UNCHANGED <<aborted, player, audible, synthesis>>

(* ask_hermes has the answer and calls finish; an aborted session neither     *)
(* flushes nor completes.                                                     *)
Answered ==
  /\ asker = "asking" /\ ~Aborting
  /\ asker' = IF aborted THEN "joining" ELSE "flushing"
  /\ UNCHANGED <<textQueue, aborted, player, audible, synthesis, aborting, clauses>>

NothingLeft ==
  /\ asker = "flushing" /\ asker' = "completing"
  /\ UNCHANGED <<textQueue, aborted, player, audible, synthesis, aborting, clauses>>

(* It gives up on a queue that stays full for two seconds.                    *)
Completes ==
  /\ asker = "completing" /\ ~Aborting
  /\ asker' = "joining"
  /\ \/ ~Full /\ textQueue' = Append(textQueue, "done") /\ UNCHANGED aborting
     \/ /\ Full /\ UNCHANGED textQueue
        /\ aborting' = [aborting EXCEPT !["turn"] =
             IF @ = "no" THEN "called" ELSE @]
  /\ UNCHANGED <<aborted, player, audible, synthesis, clauses>>

(* It waits for the worker, 300 s at most, and not for an aborted one.  An    *)
(* interrupted turn then calls abort too; once more would change nothing.     *)
Joined ==
  /\ asker = "joining" /\ ~Aborting
  /\ synthesis = "ended" \/ aborted
  /\ IF aborting["watcher"] # "no" /\ aborting["turn"] = "no"
     THEN asker' = "failed" /\ aborting' = [aborting EXCEPT !["turn"] = "called"]
     ELSE asker' = "returned" /\ UNCHANGED aborting
  /\ UNCHANGED <<textQueue, aborted, player, audible, synthesis, clauses>>

JoinTimesOut ==
  /\ asker = "joining" /\ ~Aborting /\ synthesis # "ended" /\ ~aborted
  /\ aborting' = [aborting EXCEPT !["turn"] = "called"]
  /\ UNCHANGED <<textQueue, aborted, player, audible, synthesis, asker, clauses>>

(* The agent failed or was interrupted: ask_hermes aborts and raises.         *)
AgentFails ==
  /\ asker = "asking" /\ ~Aborting
  /\ asker' = "failed"
  /\ aborting' = [aborting EXCEPT !["turn"] = IF @ = "no" THEN "called" ELSE @]
  /\ UNCHANGED <<textQueue, aborted, player, audible, synthesis, clauses>>

Raised ==
  /\ asker = "failed" /\ ~Aborting
  /\ asker' = "returned"
  /\ UNCHANGED <<textQueue, aborted, player, audible, synthesis, aborting, clauses>>

TurnStep ==
  \/ Enqueues \/ Answered \/ NothingLeft \/ Completes
  \/ Joined \/ JoinTimesOut \/ AgentFails \/ Raised

------------------------------------------------------------------------------
(* _run, on the worker thread; whatever it raises ends it, and leaves the     *)
(* player's input as it is.                                                   *)

LooksAgain ==
  /\ synthesis = "top"
  /\ synthesis' = IF aborted THEN "closing" ELSE "getting"
  /\ UNCHANGED <<textQueue, aborted, player, audible, asker, aborting, clauses>>

Gets ==
  /\ synthesis = "getting" /\ textQueue # <<>>
  /\ textQueue' = Tail(textQueue)
  /\ synthesis' = IF Head(textQueue) = "done" THEN "closing" ELSE "starting"
  /\ UNCHANGED <<aborted, player, audible, asker, aborting, clauses>>

WorkerFails == synthesis' = "ended"

StartsPlayer ==
  /\ synthesis = "starting"
  /\ \/ /\ player' = IF player = "none" THEN "open" ELSE player
        /\ synthesis' = "streaming"
     \/ player = "none" /\ WorkerFails /\ UNCHANGED player
  /\ UNCHANGED <<textQueue, aborted, audible, asker, aborting, clauses>>

(* _stream_chunk: a piece of audio comes, the clause ends, or the service     *)
(* fails.  Mutant: the piece is written whether or not the session has been   *)
(* aborted.                                                                   *)
StreamsOn ==
  /\ synthesis = "streaming"
  /\ \/ synthesis' \in {"writing", "top"}
     \/ WorkerFails
  /\ UNCHANGED <<textQueue, aborted, player, audible, asker, aborting, clauses>>

Streams ==
  /\ synthesis = "streaming"
  /\ \/ synthesis' \in (IF aborted THEN {"top"} ELSE {"writing", "top"})
     \/ WorkerFails
  /\ UNCHANGED <<textQueue, aborted, player, audible, asker, aborting, clauses>>

WritesAudio ==
  /\ synthesis = "writing"
  /\ IF player = "open"
     THEN audible' = TRUE /\ synthesis' = "streaming"
     ELSE WorkerFails /\ UNCHANGED audible
  /\ UNCHANGED <<textQueue, aborted, player, asker, aborting, clauses>>

ClosesInput ==
  /\ synthesis = "closing"
  /\ player' = IF player = "open" THEN "closed" ELSE player
  /\ synthesis' = IF player = "none" THEN "ended" ELSE "waiting"
  /\ UNCHANGED <<textQueue, aborted, audible, asker, aborting, clauses>>

(* wait returns with the player's exit code, or gives up after 300 s.         *)
PlayerEnded ==
  /\ synthesis = "waiting" /\ synthesis' = "ended"
  /\ UNCHANGED <<textQueue, aborted, player, audible, asker, aborting, clauses>>

WorkerStep ==
  \/ LooksAgain \/ Gets \/ StartsPlayer \/ Streams \/ WritesAudio \/ ClosesInput \/ PlayerEnded

(* ffplay plays what it has to the end of its input, or fails.                *)
PlaysToTheEnd ==
  /\ player = "closed" /\ player' = "over"
  /\ UNCHANGED <<textQueue, aborted, audible, synthesis, asker, aborting, clauses>>

PlayerFails ==
  /\ player \in {"open", "closed"} /\ player' = "failed"
  /\ UNCHANGED <<textQueue, aborted, audible, synthesis, asker, aborting, clauses>>

AbortStep(c) == SetsAborted(c) \/ PutsDone(c) \/ TerminatesPlayer(c)

SessionNext ==
  \/ TurnStep \/ WorkerStep \/ BargesIn
  \/ \E c \in Aborter : AbortStep(c)
  \/ PlaysToTheEnd \/ PlayerFails

SessionFairness ==
  /\ WF_sessionVars(WorkerStep)
  /\ WF_sessionVars(PlaysToTheEnd)
  /\ \A c \in Aborter : WF_sessionVars(AbortStep(c))

SessionSpec == SessionInit /\ [][SessionNext]_sessionVars /\ SessionFairness

------------------------------------------------------------------------------
SessionTypeOK ==
  /\ textQueue \in Seq({"clause", "done"}) /\ Len(textQueue) <= QueueSize
  /\ aborted \in BOOLEAN /\ audible \in BOOLEAN
  /\ player \in {"none", "open", "closed", "over", "failed", "terminated"}
  /\ synthesis \in {"top", "getting", "starting", "streaming", "writing",
                 "closing", "waiting", "ended"}
  /\ asker \in {"asking", "flushing", "completing", "joining", "failed", "returned"}
  /\ aborting \in [Aborter -> {"no", "called", "set", "put", "over"}]
  /\ clauses \in 0..MaxClauses

(* docs/MAINTENANCE.zh-CN.md:134: when abort() has returned, the session is   *)
(* silent and stays so, also when the player was just being started or a      *)
(* piece of audio was on its way to it.                                       *)
AbortSilences ==
  (\E c \in Aborter : aborting[c] = "over") =>
    ~(audible /\ player \in {"open", "closed"})

==============================================================================
