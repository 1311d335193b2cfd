--------------------------- MODULE VoiceAssistant ---------------------------
(***************************************************************************)
(* The voice assistant (apps/expression-ui/daily_voice_assistant.py): a    *)
(* main loop that runs one interaction at a time, and a thread that        *)
(* watches the microphone's wake word during an interaction and supersedes *)
(* it (barge-in).                                                          *)
(*                                                                         *)
(* Wakes are numbered.  Speech sessions, players and camera questions are  *)
(* in `live' while the barge-in can find them.  Half a second at least     *)
(* passes before a recording ends, and the watcher's remaining steps take  *)
(* less (the guard RecordingOver).                                         *)
(***************************************************************************)
EXTENDS Naturals

CONSTANTS MaxWake,      \* bound on spoken wakes
          MaxFollowUps  \* MAX_VOICE_FOLLOW_UP_TURNS

ASSUME VoiceAssumption == MaxWake \in Nat /\ MaxFollowUps \in Nat \ {0}

VARIABLES wake,         \* the last wake in the microphone's state file
          lastToken,    \* the last wake that was taken up
          pending,      \* the wake a barge-in has queued, or 0
          requirement,  \* pending_workshop_requirement
          loop,         \* where the main loop is outside an interaction
          turn,         \* the interaction in progress
          interrupted,  \* its interrupt_event
          request,      \* the request of the embedded agent
          live,         \* what a barge-in stops: registered players and sessions
          watcher,      \* the thread monitor_hardware_wake
          shown,        \* the last expression published
          served        \* history: the newest wake whose interaction began

voiceVars == <<wake, lastToken, pending, requirement, loop, turn, interrupted,
               request, live, watcher, shown, served>>
mainVars  == <<wake, lastToken, pending, watcher, served>>

Stage == {"none", "acknowledging", "recording", "transcribing", "acting", "looking",
          "asking", "building", "thinking", "playing", "announcing", "speaking", "closing", "closed"}
Handle == {"session", "player", "question"}
NoTurn == [stage |-> "none", kind |-> "voice", follows |-> 0, failed |-> FALSE, then |-> "top"]

VoiceTypeOK ==
  /\ wake \in 0..MaxWake /\ lastToken \in 0..wake /\ pending \in 0..wake /\ served \in 0..wake
  /\ requirement \in BOOLEAN /\ interrupted \in BOOLEAN
  /\ loop \in {"top", "replaced", "commands", "follow", "hardware"}
  /\ turn \in [stage : Stage, kind : {"voice", "text", "workshop"}, follows : 0..MaxFollowUps,
               failed : BOOLEAN, then : {"top", "replaced", "follow", "hardware"}]
  /\ request \in {"none", "running", "hit"}
  /\ live \in [Handle -> {"none", "on", "stopped"}]
  /\ watcher \in [at : {"watching", "deciding", "holding", "stopping", "hitting", "telling"},
                  for : 0..wake, found : SUBSET Handle]
  /\ shown \in {"idle", "listening", "busy", "error"}

VoiceInit ==
  /\ wake = 0 /\ lastToken = 0 /\ pending = 0 /\ served = 0
  /\ requirement = FALSE /\ interrupted = FALSE
  /\ loop = "top" /\ turn = NoTurn
  /\ request = "none" /\ live = [h \in Handle |-> "none"]
  /\ watcher = [at |-> "watching", for |-> 0, found |-> {}]
  /\ shown = "idle"

-----------------------------------------------------------------------------
(* The microphone and the watcher *)

Wakes == /\ wake < MaxWake /\ wake' = wake + 1
         /\ UNCHANGED <<lastToken, pending, requirement, loop, turn, interrupted, request,
                        live, watcher, shown, served>>

Busy == turn.stage \notin {"none", "closed"}

\* The lock barge_in_lock is held between two statements of the watcher.
Unlocked == watcher.at # "holding"

Notices ==
  /\ watcher.at = "watching" /\ Busy /\ wake # lastToken
  /\ watcher' = [watcher EXCEPT !.at = "deciding", !.for = wake]
  /\ UNCHANGED <<wake, lastToken, pending, requirement, loop, turn, interrupted, request,
                 live, shown, served>>

\* A mutant of Queued: an earlier wake keeps its place.
QueuedUnlessAny == IF pending = 0 THEN watcher.for ELSE pending

Queued == watcher.for

Supersedes ==
  /\ watcher.at = "deciding"
  /\ IF watcher.for = lastToken
     THEN /\ watcher' = [watcher EXCEPT !.at = "watching"]
          /\ UNCHANGED <<lastToken, pending, requirement>>
     ELSE /\ lastToken' = watcher.for /\ pending' = Queued /\ requirement' = FALSE
          /\ watcher' = [watcher EXCEPT !.at = "holding"]
  /\ UNCHANGED <<wake, loop, turn, interrupted, request, live, shown, served>>

Interrupts ==
  /\ watcher.at = "holding"
  /\ interrupted' = TRUE
  /\ watcher' = [watcher EXCEPT !.at = "stopping", !.found = {h \in Handle : live[h] = "on"}]
  /\ UNCHANGED <<wake, lastToken, pending, requirement, loop, turn, request, live, shown, served>>

StopsPlaying ==
  /\ watcher.at = "stopping"
  /\ live' = [h \in Handle |-> IF h \in watcher.found /\ live[h] = "on" THEN "stopped" ELSE live[h]]
  /\ watcher' = [watcher EXCEPT !.at = "hitting", !.found = {}]
  /\ UNCHANGED <<wake, lastToken, pending, requirement, loop, turn, interrupted, request, shown, served>>

\* EmbeddedHermesRuntime.interrupt: nothing to do when no request is active.
HitsAgent ==
  /\ watcher.at = "hitting"
  /\ request' = IF request = "running" THEN "hit" ELSE request
  /\ watcher' = [watcher EXCEPT !.at = "telling"]
  /\ UNCHANGED <<wake, lastToken, pending, requirement, loop, turn, interrupted, live, shown, served>>

Tells ==
  /\ watcher.at = "telling" /\ shown' = "listening"
  /\ watcher' = [watcher EXCEPT !.at = "watching"]
  /\ UNCHANGED <<wake, lastToken, pending, requirement, loop, turn, interrupted, request, live, served>>

WatcherStep == Notices \/ Supersedes \/ Interrupts \/ StopsPlaying \/ HitsAgent \/ Tells

-----------------------------------------------------------------------------
(* The beginning and the end of an interaction *)

\* A new interaction has its own interrupt_event.  The workshop's prompt
\* records at once or speaks an invitation first.
Begin(kind, then) ==
  /\ \E stage \in CASE kind = "voice" -> {"acknowledging"}
                    [] kind = "text"  -> {"acting"}
                    [] OTHER          -> {"speaking", "recording"} :
       /\ turn' = [NoTurn EXCEPT !.kind = kind, !.then = then, !.stage = stage,
                                 !.follows = IF stage = "recording" THEN 1 ELSE 0]
       /\ shown' = IF stage \in {"acknowledging", "recording"} THEN "listening" ELSE "busy"
  /\ interrupted' = FALSE
  /\ UNCHANGED <<request, live>>

\* The branches of an interaction: to another stage; raise_if_interrupted;
\* an exception.
To(stage) == turn' = [turn EXCEPT !.stage = stage] /\ UNCHANGED shown
Fails == turn' = [turn EXCEPT !.stage = "closing", !.failed = TRUE] /\ shown' = "error"
Checked(stage) == To(IF interrupted THEN "closing" ELSE stage)
Same == UNCHANGED <<requirement, loop, interrupted, request, live>>

\* The end of the finally block publishes nothing then.
Concludes(queued) == turn.failed \/ queued

Close ==
  /\ turn.stage = "closing" /\ Unlocked
  /\ turn' = [turn EXCEPT !.stage = "closed", !.failed = Concludes(pending # 0)]
  /\ UNCHANGED <<mainVars, requirement, loop, interrupted, request, live, shown>>

Publish ==
  /\ turn.stage = "closed"
  /\ shown' = IF turn.failed THEN shown ELSE "idle"
  /\ turn' = NoTurn /\ loop' = turn.then
  /\ UNCHANGED <<mainVars, requirement, interrupted, request, live>>

-----------------------------------------------------------------------------
(* The stages of an interaction *)

Acknowledged ==
  /\ turn.stage = "acknowledging" /\ Checked("recording")
  /\ Same /\ UNCHANGED mainVars

\* No speech, speech, a new wake, or the microphone fails.
RecordingOver == watcher.at \in {"watching", "deciding"}

Recorded ==
  /\ turn.stage = "recording" /\ (RecordingOver \/ interrupted)
  /\ \/ Checked("transcribing")
     \/ ~interrupted /\ turn.kind = "voice" /\ To("closing")
     \/ ~interrupted /\ turn.kind = "workshop" /\ To("announcing")
     \/ Fails
  /\ Same /\ UNCHANGED mainVars

Transcribed ==
  /\ turn.stage = "transcribing"
  /\ \/ Checked(IF turn.kind = "workshop" THEN "announcing" ELSE "acting")
     \/ ~interrupted /\ turn.kind = "voice" /\ To("closing")
     \/ ~interrupted /\ Fails
  /\ Same /\ UNCHANGED mainVars

\* run_local_device_command: a command that opens the workshop asks for the
\* prompt that follows; other commands answer; the rest goes to the camera or
\* the agent.  Nothing here looks at the interrupt.
Acted ==
  /\ turn.stage = "acting"
  /\ \/ /\ \E stage \in {"announcing", "asking"} \cup (IF turn.kind = "voice" THEN {"looking"} ELSE {}) :
             To(stage)
        /\ UNCHANGED requirement
     \/ To("announcing") /\ requirement' = TRUE
     \/ Fails /\ UNCHANGED requirement
  /\ UNCHANGED <<mainVars, loop, interrupted, request, live>>

\* ask_camera_direct: the question is registered, and ends by itself or is
\* cancelled.
Looks ==
  /\ turn.stage = "looking" /\ Unlocked
  /\ CASE live["question"] = "none" ->
            \/ ~interrupted /\ live' = [live EXCEPT !["question"] = "on"] /\ UNCHANGED <<turn, shown>>
            \/ interrupted /\ To("closing") /\ UNCHANGED live
            \/ Fails /\ UNCHANGED live
       [] live["question"] # "none" ->
            /\ live' = [live EXCEPT !["question"] = "none"]
            /\ \/ live["question"] = "on" /\ Checked("announcing")
               \/ live["question"] = "stopped" /\ To("closing")
               \/ live["question"] = "on" /\ ~interrupted /\ Fails
  /\ UNCHANGED <<mainVars, requirement, loop, interrupted, request>>

\* ask_hermes: flight fares are answered without the agent.
OpensSession ==
  /\ turn.stage = "asking" /\ Unlocked
  /\ \/ To("building") /\ live' = [live EXCEPT !["session"] = "on"]
     \/ To("announcing") /\ UNCHANGED live
  /\ UNCHANGED <<mainVars, requirement, loop, interrupted, request>>

\* EmbeddedHermesRuntime.ask: the agent may have to be built first.
AgentRuns ==
  /\ turn.stage = "building"
  /\ \/ To("thinking") /\ request' = "running" /\ UNCHANGED live
     \/ /\ Unlocked /\ live' = [live EXCEPT !["session"] = "none"]
        /\ UNCHANGED request
        /\ IF interrupted THEN To("closing") ELSE Fails
  /\ UNCHANGED <<mainVars, requirement, loop, interrupted>>

\* The answer is complete; or the request fails, is interrupted or runs out
\* of time.
AgentAnswers ==
  /\ turn.stage = "thinking"
  /\ request' = "none"
  /\ \/ ~interrupted /\ request = "running" /\ To("playing") /\ UNCHANGED live
     \/ /\ Unlocked /\ live' = [live EXCEPT !["session"] = "none"]
        /\ IF interrupted THEN To("closing") ELSE Fails
  /\ UNCHANGED <<mainVars, requirement, loop, interrupted>>

\* StreamingSpeechSession.finish returns when the speech has ended or the
\* session was aborted.
Played ==
  /\ turn.stage = "playing" /\ Unlocked
  /\ live' = [live EXCEPT !["session"] = "none"]
  /\ Checked("announcing")
  /\ UNCHANGED <<mainVars, requirement, loop, interrupted, request>>

Announced ==
  /\ turn.stage = "announcing"
  /\ CASE turn.kind = "workshop" -> To("speaking")
       [] OTHER -> Checked("speaking")
  /\ Same /\ UNCHANGED mainVars

\* speak: nothing when the answer was streamed; else a player is registered
\* and plays to its end or is terminated.  A follow-up is recorded when the
\* answer asks for one; the workshop's invitation is followed by a recording.
AfterSpeech ==
  \/ /\ turn.kind = "workshop" => interrupted \/ turn.follows = 1
     /\ Checked("closing")
  \/ /\ ~interrupted /\ turn.kind # "text"
     /\ turn.follows < IF turn.kind = "voice" THEN MaxFollowUps ELSE 1
     /\ turn' = [turn EXCEPT !.stage = "recording", !.follows = @ + 1] /\ shown' = "listening"

Speaks ==
  /\ turn.stage = "speaking" /\ Unlocked
  /\ CASE live["player"] = "none" ->
            \/ live' = [live EXCEPT !["player"] = "on"] /\ UNCHANGED <<turn, shown>>
            \/ UNCHANGED live /\ AfterSpeech
            \/ UNCHANGED live /\ (IF interrupted THEN To("closing") ELSE Fails)
       [] live["player"] # "none" ->
            /\ live' = [live EXCEPT !["player"] = "none"]
            /\ AfterSpeech \/ (~interrupted /\ Fails)
  /\ UNCHANGED <<mainVars, requirement, loop, interrupted, request>>

Interaction ==
  \/ Acknowledged \/ Recorded \/ Transcribed \/ Acted \/ Looks \/ OpensSession
  \/ AgentRuns \/ AgentAnswers \/ Played \/ Announced \/ Speaks \/ Close \/ Publish

-----------------------------------------------------------------------------
(* The main loop *)

Between(label) == turn.stage = "none" /\ loop = label
Newest(a, b) == IF a > b THEN a ELSE b

PopsWake ==
  /\ Between("top") /\ Unlocked
  /\ pending' = 0
  /\ IF pending # 0
     THEN /\ Begin("voice", "replaced") /\ served' = Newest(served, pending)
          /\ UNCHANGED loop
     ELSE /\ loop' = "commands"
          /\ UNCHANGED <<turn, interrupted, shown, request, live, served>>
  /\ UNCHANGED <<wake, lastToken, requirement, watcher>>

\* One command from the control socket, or none: a trigger, a question by
\* touch, the workshop's prompt; wake_acknowledgement and refused commands
\* leave the loop where it was.
TakesCommand ==
  /\ Between("commands")
  /\ \/ \E kind \in {"voice", "text", "workshop"} : Begin(kind, "follow") /\ UNCHANGED loop
     \/ /\ loop' = "follow"
        /\ UNCHANGED <<turn, interrupted, request, live>>
        /\ shown' \in {shown, "idle"}
  /\ UNCHANGED <<mainVars, requirement>>

\* pop_pending_workshop_requirement, after a replaced turn and after a command.
PopsRequirement ==
  /\ turn.stage = "none" /\ loop \in {"replaced", "follow"}
  /\ LET next == IF loop = "replaced" THEN "top" ELSE "hardware"
     IN IF requirement
        THEN Begin("workshop", next) /\ UNCHANGED loop
        ELSE loop' = next /\ UNCHANGED <<turn, interrupted, shown, request, live>>
  /\ requirement' = FALSE
  /\ UNCHANGED mainVars

ChecksHardware ==
  /\ Between("hardware")
  /\ IF wake # lastToken
     THEN /\ lastToken' = wake /\ served' = wake
          /\ Begin("voice", "top") /\ UNCHANGED loop
     ELSE /\ loop' = "top"
          /\ UNCHANGED <<lastToken, served, turn, interrupted, shown, request, live>>
  /\ UNCHANGED <<wake, pending, requirement, watcher>>

MainStep == Interaction \/ PopsWake \/ TakesCommand \/ PopsRequirement \/ ChecksHardware

VoiceNext == Wakes \/ WatcherStep \/ MainStep

\* Every stage ends: agent and player have timeouts, a recording its limit.
VoiceFairness == WF_voiceVars(MainStep) /\ WF_voiceVars(WatcherStep)

VoiceSpec == VoiceInit /\ [][VoiceNext]_voiceVars
VoiceFairSpec == VoiceSpec /\ VoiceFairness

-----------------------------------------------------------------------------
(* Properties *)

\* Every wake word is answered: an interaction begins for it or for a newer
\* one, whatever the assistant was doing (daily_voice_assistant.py:1799 and
\* :3181; two places take wakes up, and each marks them as taken).
WakeIsAnswered == \A w \in 1..MaxWake : wake >= w ~> served >= w

\* MAINTENANCE.zh-CN.md:134: a wake word while the agent thinks stops the turn
\* at once.  A request of a superseded turn is about to be interrupted, also
\* when the wake came while the agent was still being built.
SupersededIsHit ==
  interrupted /\ request = "running" => watcher.at \in {"stopping", "hitting"}
=============================================================================
