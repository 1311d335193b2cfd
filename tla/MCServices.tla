----------------------------- MODULE MCServices -----------------------------
(* Small instances of the services behind the screen, one of them at a time: *)
(* `focus' is the one whose steps are explored.                              *)
EXTENDS AgentRuntime, HailoArbiter, VoiceAssistant, Recovery, ArxivAccess,
  SpeechText, SpeechSession, Listening, HealthMonitor, TLC

VARIABLE focus

MCCheckType == [c \in Check |-> IF c \in Slow THEN "http_json" ELSE "systemd_service"]

servicesVars ==
  <<agentVars, avars, voiceVars, recoveryVars, arxivVars,
    textVars, sessionVars, listeningVars, healthVars, focus>>

ServicesInit ==
  /\ focus \in {"agent", "arbiter", "voice", "recovery", "arxiv",
               "text", "speech", "listening", "health"}
  /\ AgentInit /\ ArbiterInit /\ VoiceInit
  /\ RecoveryInit /\ ArxivInit
  /\ SpeechTextInit /\ SessionInit /\ ListeningInit
  /\ HealthInit

Rest(f) ==
  /\ focus = f /\ UNCHANGED focus
  /\ f # "agent" => UNCHANGED agentVars
  /\ f # "arbiter" => UNCHANGED avars
  /\ f # "voice" => UNCHANGED voiceVars
  /\ f # "recovery" => UNCHANGED recoveryVars
  /\ f # "arxiv" => UNCHANGED arxivVars
  /\ f # "text" => UNCHANGED textVars
  /\ f # "speech" => UNCHANGED sessionVars
  /\ f # "listening" => UNCHANGED listeningVars
  /\ f # "health" => UNCHANGED healthVars

ServicesNext ==
  \/ Rest("agent") /\ AgentNext
  \/ Rest("arbiter") /\ ArbiterNext
  \/ Rest("voice") /\ VoiceNext
  \/ Rest("recovery") /\ RecoveryNext
  \/ Rest("arxiv") /\ ArxivNext
  \/ Rest("text") /\ SpeechTextNext
  \/ Rest("speech") /\ SessionNext
  \/ Rest("listening") /\ ListeningNext
  \/ Rest("health") /\ HealthNext

(* The fairness of AgentFairSpec, ArbiterSpec, VoiceFairSpec,                *)
(* RecoverySpec and HealthSpec, each for its own focus.                      *)
ServicesFairness ==
  /\ \A r \in Run : WF_servicesVars(Rest("agent") /\ ServiceStep(r))
  /\ \A r \in Run : WF_servicesVars(Rest("agent") /\ process[r] = "silent" /\ ProcessExits(r))
  /\ WF_servicesVars(\/ Rest("agent") /\ runtime = "closing" /\ RuntimeEnds
                     \/ Rest("arbiter") /\ StopEnds
                     \/ Rest("recovery") /\ DisplayStep)
  /\ WF_servicesVars(\/ Rest("arbiter") /\ BackoffOver
                     \/ Rest("voice") /\ MainStep
                     \/ Rest("recovery") /\ Progress)
  /\ WF_servicesVars(\/ Rest("arbiter") /\ SupervisorStarts
                     \/ Rest("voice") /\ WatcherStep
                     \/ Rest("recovery") /\ DisplayRestarts)
  /\ WF_servicesVars(\/ Rest("arbiter") /\ Maintain
                     \/ Rest("recovery") /\ ControllerStarts
                     \/ Rest("health") /\ MonitorStep)

ServicesSpec == ServicesInit /\ [][ServicesNext]_servicesVars /\ ServicesFairness
=============================================================================
