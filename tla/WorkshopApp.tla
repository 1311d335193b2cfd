---------------------------- MODULE WorkshopApp ----------------------------
(* A generated application from its plan to its calls: workshop_declarative.py *)
(* accepts the plan and derives the permissions of its manifest, the user     *)
(* approves them, workshop_runtime.py executes the pipeline frame after frame *)
(* and workshop_contract.py authorizes each call of the host.                 *)
EXTENDS Integers, Sequences

CONSTANTS
  MaxNodes,   \* bound: nodes of a plan (MAX_PIPELINE_NODES is 12)
  MaxFrames   \* bound: frames a session executes

ASSUME WorkshopAppAssumption == MaxNodes \in Nat /\ MaxFrames \in Nat

(* A node of a plan: its name, and the one choice validation or execution     *)
(* turns on (a refresh period, a condition, a view, a path).                  *)
N(name, args) == {[name |-> name, arg |-> a] : a \in args}

Sources == N("app.lifecycle.foreground", {"-"}) \cup N("camera.stream", {"-"})
           \cup N("microphone.stream", {"-"}) \cup N("timer.interval", {"minute", "hour"})
Operators == N("vision.detect", {"-"}) \cup N("audio.level", {"-"})
             \cup N("counter.increment", {"always", "class", "sound"})
             \cup N("assistant.query", {"-"})
Sinks == N("ui.present", {"clock", "status"}) \cup N("notifications.show", {"-"})
         \cup N("storage.put", {"file", "dots"}) \cup N("tasks.create", {"-"})
Nodes == Sources \cup Operators \cup Sinks

(* NODE_CAPABILITY.  Mutant: it forgets that a counter writes its value.      *)
NodeCapabilityForgetting ==
  [n \in {"camera.stream", "microphone.stream", "vision.detect", "assistant.query",
          "ui.present", "notifications.show", "storage.put", "tasks.create"} |->
     CASE n = "vision.detect"      -> "vision.inference"
       [] n = "ui.present"         -> "ui.surface"
       [] n = "notifications.show" -> "notifications.local"
       [] n = "storage.put"        -> "storage.app"
       [] n = "tasks.create"       -> "tasks.submit"
       [] OTHER                    -> n]

NodeCapability ==
  [n \in {"camera.stream", "microphone.stream", "vision.detect", "counter.increment",
          "assistant.query", "ui.present", "notifications.show", "storage.put",
          "tasks.create"} |->
     CASE n = "vision.detect"                          -> "vision.inference"
       [] n \in {"counter.increment", "storage.put"}   -> "storage.app"
       [] n = "ui.present"                             -> "ui.surface"
       [] n = "notifications.show"                     -> "notifications.local"
       [] n = "tasks.create"                           -> "tasks.submit"
       [] OTHER                                        -> n]

(* METHOD_CAPABILITY, of the methods a pipeline can reach.                    *)
CameraMethods == {"camera.stream.open", "camera.stream.close"}
MicrophoneMethods ==
  {"microphone.stream.open", "microphone.stream.read", "microphone.stream.close"}

MethodCapability ==
  [m \in {"ui.present", "storage.put", "notifications.show", "vision.detect",
          "assistant.query", "tasks.create"} \cup CameraMethods \cup MicrophoneMethods |->
     CASE m \in CameraMethods      -> "camera.stream"
       [] m \in MicrophoneMethods  -> "microphone.stream"
       [] m = "ui.present"         -> "ui.surface"
       [] m = "storage.put"        -> "storage.app"
       [] m = "notifications.show" -> "notifications.local"
       [] m = "vision.detect"      -> "vision.inference"
       [] m = "tasks.create"       -> "tasks.submit"
       [] OTHER                    -> m]

------------------------------------------------------------------------------
(* validate_declarative_app and required_capabilities.                        *)

Named(plan, name) == {i \in DOMAIN plan : plan[i].name = name}
HearsSound(plan) == \E i \in Named(plan, "counter.increment") : plan[i].arg = "sound"

Valid(plan) ==
  /\ Len(plan) >= 2
  /\ \A i \in DOMAIN plan : plan[i] \in Sources <=> i = 1
  /\ \E i \in DOMAIN plan : plan[i] \in Sinks
  /\ (\E i \in Named(plan, "ui.present") : plan[i].arg = "clock") =>
       plan[1] \in N("timer.interval", {"minute"})
  /\ Named(plan, "audio.level") # {} \/ HearsSound(plan) =>
       plan[1].name = "microphone.stream"
  /\ HearsSound(plan) => Named(plan, "audio.level") # {}

Required(plan) ==
  {NodeCapability[plan[i].name] : i \in {j \in DOMAIN plan : plan[j].name \in DOMAIN NodeCapability}}

VARIABLES
  plan,       \* the plan, normalized
  appStatus,  \* "draft", "installed_disabled", "enabled", "disabled"
  declared,   \* capabilities of the installed manifest
  granted,    \* capabilities granted in the registry
  session,        \* the session: "off", "open", "frame", "close", "over", "error"
  node,       \* the node that executes next
  frame,      \* frames begun
  heard,      \* context: soundActive; "-" before an audio.level of this frame
  sighted,       \* context: detections, likewise
  presence,   \* presence_state["audio.sound"]
  count,      \* counter_state, by the node that counts sounds
  onsets,     \* ghost: times soundActive rose
  before,     \* ghost: soundActive at the last audio.level
  answer      \* code of the last answer of the host

appVars == <<plan, appStatus, declared, granted, session, node, frame, heard, sighted,
             presence, count, onsets, before, answer>>
registration == <<plan, appStatus, declared, granted>>
ears == <<heard, sighted, presence, count, onsets, before>>

Codes == {"none", "ok", "app_not_enabled", "capability_not_declared",
          "capability_not_granted", "unsafe_path", "host_backend_error"}

AppTypeOK ==
  /\ plan = <<>> \/ Valid(plan)
  /\ appStatus \in {"draft", "installed_disabled", "enabled", "disabled"}
  /\ declared \subseteq {NodeCapability[n] : n \in DOMAIN NodeCapability}
  /\ granted \subseteq declared
  /\ session \in {"off", "open", "frame", "close", "over", "error"}
  /\ node \in 0..MaxNodes + 1 /\ frame \in 0..MaxFrames
  /\ heard \in {"-", "quiet", "sound"} /\ sighted \in {"-", "nothing", "class"}
  /\ presence \in BOOLEAN /\ before \in BOOLEAN
  /\ count \in [1..MaxNodes -> 0..MaxFrames] /\ onsets \in 0..MaxNodes * MaxFrames
  /\ answer \in Codes

AppInit ==
  /\ plan = <<>> /\ appStatus = "draft" /\ declared = {} /\ granted = {}
  /\ session = "off" /\ node = 0 /\ frame = 0
  /\ heard = "-" /\ sighted = "-" /\ presence = FALSE
  /\ count = [i \in 1..MaxNodes |-> 0] /\ onsets = 0 /\ before = FALSE
  /\ answer = "none"

------------------------------------------------------------------------------
(* From the plan to an enabled application.                                   *)

(* normalize_plan: only a valid plan is packed, with the permissions it needs. *)
Packs ==
  /\ appStatus = "draft"
  /\ plan' \in {p \in UNION {[1..n -> Nodes] : n \in 1..MaxNodes} : Valid(p)}
  /\ appStatus' = "installed_disabled" /\ declared' = Required(plan')
  /\ UNCHANGED <<granted, session, node, frame, ears, answer>>

(* The approval names the permissions of the manifest, all of them.           *)
Approves ==
  /\ appStatus = "installed_disabled"
  /\ appStatus' = "enabled" /\ granted' = declared
  /\ UNCHANGED <<plan, declared, session, node, frame, ears, answer>>

(* disable, for which the tree has no caller yet.                             *)
Disables ==
  /\ appStatus = "enabled"
  /\ appStatus' = "disabled" /\ granted' = {}
  /\ UNCHANGED <<plan, declared, session, node, frame, ears, answer>>

------------------------------------------------------------------------------
(* A call of the host: dispatch and authorize_request.  The runtime vouches   *)
(* for foreground and presence itself.                                        *)

Decision(method, arg) ==
  IF appStatus # "enabled" THEN "app_not_enabled"
  ELSE IF MethodCapability[method] \notin declared THEN "capability_not_declared"
  ELSE IF MethodCapability[method] \notin granted THEN "capability_not_granted"
  ELSE IF method = "storage.put" /\ arg = "dots" THEN "unsafe_path"
  ELSE "ok"

(* An authorized call may still fail in its backend.                          *)
Calls(method, arg) ==
  IF Decision(method, arg) = "ok" THEN answer' \in {"ok", "host_backend_error"}
  ELSE answer' = Decision(method, arg)

Raises == session' = "error" /\ UNCHANGED <<node, frame>>

(* A call that fails raises, and the session is over.                         *)
ThenIfOk(method, arg, done) ==
  /\ Calls(method, arg)
  /\ IF answer' = "ok" THEN done ELSE Raises

------------------------------------------------------------------------------
(* The runtime: open the source, then frames, each node in its turn.          *)

Launches ==
  /\ session = "off" /\ appStatus = "enabled"
  /\ session' = "open"
  /\ UNCHANGED <<registration, node, frame, ears, answer>>

Streams == {"camera.stream", "microphone.stream"}

(* Every frame starts from a fresh context; the microphone is read first.     *)
BeginsFrame ==
  /\ frame < MaxFrames
  /\ session' = "frame" /\ node' = 2 /\ frame' = frame + 1

Freshly == heard' = "-" /\ sighted' = "-"

OpensSource ==
  /\ session = "open"
  /\ IF plan[1].name \in Streams
     THEN LET open == IF plan[1].name = "camera.stream" THEN "camera.stream.open"
                      ELSE "microphone.stream.open"
          IN ThenIfOk(open, "-", session' = "frame" /\ node' = Len(plan) + 1 /\ UNCHANGED frame)
     ELSE session' = "frame" /\ node' = Len(plan) + 1 /\ UNCHANGED <<frame, answer>>
  /\ UNCHANGED <<registration, ears>>

(* The next tick or frame; the foreground event and a one-shot timer have one *)
NextFrame ==
  /\ session = "frame" /\ node = Len(plan) + 1
  /\ \/ /\ IF plan[1].name = "microphone.stream"
           THEN ThenIfOk("microphone.stream.read", "-", BeginsFrame)
           ELSE BeginsFrame /\ UNCHANGED answer
        /\ plan[1].name = "app.lifecycle.foreground" => frame = 0
     \/ /\ session' = "close"      \* stopped, expired, or the source has no more
        /\ UNCHANGED <<node, frame, answer>>
  /\ Freshly
  /\ UNCHANGED <<registration, presence, count, onsets, before>>

ClosesSource ==
  /\ session = "close"
  /\ IF plan[1].name \in Streams
     THEN LET close == IF plan[1].name = "camera.stream" THEN "camera.stream.close"
                       ELSE "microphone.stream.close"
          IN ThenIfOk(close, "-", session' = "over" /\ UNCHANGED <<node, frame>>)
     ELSE session' = "over" /\ UNCHANGED <<node, frame, answer>>
  /\ UNCHANGED <<registration, ears>>

AtNode(name) == session = "frame" /\ node \in DOMAIN plan /\ plan[node].name = name
NextNode == session' = session /\ node' = node + 1 /\ UNCHANGED frame

Detects ==
  /\ AtNode("vision.detect")
  /\ ThenIfOk("vision.detect", "-", NextNode)
  /\ sighted' \in IF answer' = "ok" THEN {"nothing", "class"} ELSE {sighted}
  /\ UNCHANGED <<registration, heard, presence, count, onsets, before>>

(* _audio_level: active above the threshold, or while it is held.             *)
Levels ==
  /\ AtNode("audio.level")
  /\ heard' \in {"quiet", "sound"}
  /\ before' = (heard' = "sound")
  /\ onsets' = IF before' /\ ~before THEN onsets + 1 ELSE onsets
  /\ NextNode
  /\ UNCHANGED <<registration, sighted, presence, count, answer>>

(* _counter on a sound.  Mutant: the presence is set and never reset to what  *)
(* the frame heard.                                                           *)
CountsSoundEveryFrame ==
  /\ AtNode("counter.increment") /\ plan[node].arg = "sound"
  /\ UNCHANGED <<registration, heard, sighted, presence, onsets, before>>
  /\ IF heard = "sound"
     THEN /\ count' = [count EXCEPT ![node] = @ + 1]
          /\ ThenIfOk("storage.put", "file", NextNode)
     ELSE UNCHANGED <<count, answer>> /\ NextNode

CountsSound ==
  /\ AtNode("counter.increment") /\ plan[node].arg = "sound"
  /\ presence' = (heard = "sound")
  /\ UNCHANGED <<registration, heard, sighted, onsets, before>>
  /\ IF heard = "sound" /\ ~presence
     THEN /\ count' = [count EXCEPT ![node] = @ + 1]
          /\ ThenIfOk("storage.put", "file", NextNode)
     ELSE UNCHANGED <<count, answer>> /\ NextNode

(* A count of ticks, or of a class as it appears; its value is left out.      *)
CountsOther ==
  /\ AtNode("counter.increment") /\ plan[node].arg # "sound"
  /\ \/ /\ plan[node].arg = "always" \/ sighted = "class"
        /\ ThenIfOk("storage.put", "file", NextNode)
     \/ plan[node].arg = "class" /\ NextNode /\ UNCHANGED answer
  /\ UNCHANGED <<registration, ears>>

(* assistant.query and the sinks; a notification needs something to tell.     *)
Worth == IF sighted # "-" THEN sighted = "class" ELSE heard # "quiet"

Reports ==
  /\ session = "frame" /\ node \in DOMAIN plan
  /\ plan[node].name \in {"assistant.query", "ui.present", "storage.put", "tasks.create",
                          "notifications.show"}
  /\ IF plan[node].name = "notifications.show" /\ ~Worth
     THEN NextNode /\ UNCHANGED answer
     ELSE ThenIfOk(plan[node].name, plan[node].arg, NextNode)
  /\ UNCHANGED <<registration, ears>>

AppNext ==
  \/ Packs \/ Approves \/ Disables
  \/ Launches \/ OpensSource \/ NextFrame \/ ClosesSource
  \/ Detects \/ Levels \/ CountsSound \/ CountsOther \/ Reports

AppSpec == AppInit /\ [][AppNext]_appVars

------------------------------------------------------------------------------
(* What validation derives is what execution asks for: no call of an approved *)
(* plan is refused for a capability it did not declare or was not granted, in *)
(* whatever order its nodes stand.  (Three tables in two files have to agree: *)
(* NODE_CAPABILITY, METHOD_CAPABILITY and the calls of the runtime.)          *)
CallsAreCovered == answer \notin {"capability_not_declared", "capability_not_granted"}

(* A sound counter counts rising edges only (docs/DEPLOYMENT.zh-CN.md:144),   *)
(* never one sound twice, if every such counter of the plan stands after an   *)
(* audio.level.  Validation does not ask for it: all counters share one       *)
(* memory of the last sound, and one before the level resets it in every      *)
(* frame.                                                                     *)
LevelFirst ==
  \A j \in Named(plan, "counter.increment") :
    plan[j].arg = "sound" => \E i \in Named(plan, "audio.level") : i < j

CountsOnlyOnsets == LevelFirst => \A k \in DOMAIN count : count[k] <= onsets
=============================================================================
