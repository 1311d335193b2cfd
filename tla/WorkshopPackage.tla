--------------------------- MODULE WorkshopPackage ---------------------------
(* A package of the workshop from its plan or its author to the calls of the  *)
(* installed application: workshop_generator.py plans, workshop_package.py    *)
(* signs, workshop_manager.py inspects and installs, workshop_contract.py     *)
(* reads the manifest again for every call.  A package may be damaged on its  *)
(* way to the inspection, not after it.                                       *)
EXTENDS WorkshopApp, FiniteSets

CONSTANTS
  MaxAngle,   \* stands for the 180 degrees of _validate_range
  MaxSpeed,   \* for the 120 degrees per second of a motor
  MaxVolume,  \* for 100 percent, of which DefaultVolume are 80
  MaxDamages  \* bound: members of a package that are damaged

ASSUME WorkshopPackageAssumption ==
  MaxAngle \in Nat /\ MaxSpeed \in Nat /\ MaxVolume \in Nat /\ MaxDamages \in Nat

Absent == "absent"
DefaultVolume == MaxVolume - 1

------------------------------------------------------------------------------
(* Plans: fallback_plan for what a requirement speaks of, and its names, of   *)
(* which only the lengths matter.                                             *)

Topics == {"camera", "sound", "clock", "timer", "research", "other"}
Node(name, arg) == [name |-> name, arg |-> arg]
Presents(view) == Node("ui.present", view)

Fallback(topic, notify) ==
  LET pipeline ==
        CASE topic = "camera"   -> <<Node("camera.stream", "-"), Node("vision.detect", "-"),
                                     Node("counter.increment", "class"), Presents("status")>>
          [] topic = "sound"    -> <<Node("microphone.stream", "-"), Node("audio.level", "-"),
                                     Node("counter.increment", "sound"), Presents("status")>>
          [] topic = "clock"    -> <<Node("timer.interval", "minute"), Presents("clock")>>
          [] topic = "timer"    -> <<Node("timer.interval", "hour"),
                                     Node("counter.increment", "always"), Presents("status")>>
          [] topic = "research" -> <<Node("app.lifecycle.foreground", "-"),
                                     Node("tasks.create", "-"), Presents("status")>>
          [] topic = "other"    -> <<Node("app.lifecycle.foreground", "-"),
                                     Node("counter.increment", "always"), Presents("status")>>
  IN IF topic = "timer" \/ (notify /\ topic \in {"camera", "sound"})
     THEN Append(pipeline, Node("notifications.show", "-"))
     ELSE pipeline

(* A surface: its layout and components.  A component shows a value by its    *)
(* key or a fixed text; `span' is the range of a progress.                    *)
Component(type, id, key, text, span) ==
  [type |-> type, id |-> id, key |-> key, text |-> text, span |-> span]

ComponentOK(c) ==
  /\ c.type \in {"clock", "metric", "progress", "status", "text"}
  /\ c.type = "progress" => c.span[1] < c.span[2]
  /\ c.type = "text" => c.key # c.text

(* What is not given is filled in: the id by the type.                        *)
NormalComponent(c) == [c EXCEPT !.id = IF @ = Absent THEN c.type ELSE @]

SurfaceOK(s) ==
  /\ s.layout \in {"hero", "list", Absent} /\ Len(s.components) \in 1..6
  /\ \A i \in DOMAIN s.components : ComponentOK(s.components[i])
  /\ \A i, j \in DOMAIN s.components :
       NormalComponent(s.components[i]).id = NormalComponent(s.components[j]).id => i = j
  /\ s.layout \in {"hero", Absent} => s.components[1].type \in {"clock", "metric", "progress"}

NormalSurface(s) ==
  [layout |-> IF s.layout = Absent THEN "hero" ELSE s.layout,
   components |-> [i \in DOMAIN s.components |-> NormalComponent(s.components[i])]]

(* An application: pipeline, surfaces (none or one), the length of the text   *)
(* it hands to a task (1200 characters are allowed, a requirement has 4000).  *)
AppOK(a) == Valid(a.pipeline) /\ ~a.longPrompt /\ \A s \in a.surfaces : SurfaceOK(s)
NormalApp(a) == [a EXCEPT !.surfaces = {NormalSurface(s) : s \in @}]

OfflineApp(topic, notify, long) ==
  [pipeline |-> Fallback(topic, notify), longPrompt |-> long /\ topic = "research",
   surfaces |-> IF topic # "clock" THEN {}
                ELSE {[layout |-> "hero",
                       components |-> <<Component("clock", "local-time", FALSE, FALSE, <<0, 0>>)>>]}]

------------------------------------------------------------------------------
(* Manifests: validate_manifest and the constraints of each capability.       *)

Unset == -1

(* _validate_domains: what a declared domain is read as.                      *)
DomainName == [d \in {"a.org", "A.org."} |-> "a.org"]
NetworkMethods == {"GET", "HEAD", "POST"}

RangeOK(r) == -MaxAngle <= r[1] /\ r[1] < r[2] /\ r[2] <= MaxAngle

ConstraintsOK(capability, l) ==
  CASE capability = "network.outbound" ->
         /\ l.domains # {} /\ l.domains \subseteq DOMAIN DomainName
         /\ l.methods \cap NetworkMethods # {}
    [] capability \in {"camera.stream", "microphone.stream"} -> l.indicator
    [] capability = "motor.pan_tilt" ->
         /\ RangeOK(l.pan) /\ RangeOK(l.tilt) /\ l.speed \in 1..MaxSpeed /\ l.emergencyStop
    [] capability = "speaker.playback" -> l.volume \in {Unset} \cup 0..MaxVolume
    [] OTHER -> TRUE

NormalConstraints(capability, l) ==
  CASE capability = "network.outbound" ->
         [domains |-> {DomainName[d] : d \in l.domains}, methods |-> l.methods \cap NetworkMethods]
    [] capability = "speaker.playback" -> [volume |-> IF l.volume = Unset THEN DefaultVolume ELSE l.volume]
    [] OTHER -> l

Capabilities ==
  {"ui.surface", "storage.app", "notifications.local", "camera.stream", "microphone.stream",
   "vision.inference", "assistant.query", "tasks.submit", "network.outbound",
   "motor.pan_tilt", "speaker.playback", "lifecycle.autostart"}

MenuLabel(m) == IF m.menuLabel = Unset THEN m.name ELSE m.menuLabel
Suffix(kind) == IF kind = "declarative-v1" THEN "app/main.json" ELSE "app/main.py"

(* `header' is the form of versions, identifiers and other texts: plain,      *)
(* accepted after trimming, left to its defaults, or wrong.                   *)
MetadataOK(m) == m.header # "wrong" /\ m.name \in 1..40
RuntimeOK(m) ==
  m.kind \in {"declarative-v1", "python-sandbox-v1"} /\ m.entrypoint = Suffix(m.kind)
PermissionsOK(m) ==
  /\ DOMAIN m.permissions \subseteq Capabilities /\ ~m.twice
  /\ \A c \in DOMAIN m.permissions : ConstraintsOK(c, m.permissions[c])
LifecycleOK(m) ==
  /\ m.autostart => "lifecycle.autostart" \in DOMAIN m.permissions
  /\ m.cpuPercent \in 1..50 /\ m.memoryMB \in 16..512
  /\ MenuLabel(m) \in 1..6

ManifestOK(m) == MetadataOK(m) /\ RuntimeOK(m) /\ PermissionsOK(m) /\ LifecycleOK(m)

NormalManifest(m) ==
  [m EXCEPT !.header = "plain", !.menuLabel = MenuLabel(m),
            !.permissions = [c \in DOMAIN @ |-> NormalConstraints(c, @[c])]]

------------------------------------------------------------------------------
(* Packages: members with their contents, of which a digest is as good.       *)

Member(file, content) == [file |-> file, content |-> content]
Names(ms) == {x.file : x \in ms}
Content(ms, file) == (CHOOSE x \in ms : x.file = file).content
Holds(ms, file, what) == file \in Names(ms) /\ Content(ms, file)[1] = what
Trusted == {"device", "vendor"}

(* build_signed_package, by the device's key or, elsewhere, by another.       *)
Archive(m, a, entry, key) ==
  LET files == {Member("manifest.json", <<"manifest", m>>), Member(entry, <<"app", a>>)}
      sums == [f \in Names(files) |-> Content(files, f)]
  IN files \cup {Member("checksums.json", <<"checksums", sums>>)}
     \cup (IF key = "none" THEN {}
           ELSE {Member("signature.json", <<"signature", key, sums>>)})

(* _safe_members                                                              *)
MembersOK(ms) == \A x, y \in ms : x.file = y.file => x = y

(* _validate_checksums.  Mutant: a file that is not listed goes unnoticed.    *)
ChecksumsCovering(ms) ==
  /\ Holds(ms, "checksums.json", "checksums")
  /\ LET sums == Content(ms, "checksums.json")[2]
     IN \A f \in DOMAIN sums : f \in Names(ms) /\ Content(ms, f) = sums[f]

ChecksumsOK(ms) ==
  /\ Holds(ms, "checksums.json", "checksums")
  /\ LET sums == Content(ms, "checksums.json")[2]
     IN /\ DOMAIN sums = Names(ms) \ {"checksums.json", "signature.json"}
        /\ \A f \in DOMAIN sums : Content(ms, f) = sums[f]

(* The signature is made over the checksums.                                  *)
SignatureOK(ms) ==
  /\ Holds(ms, "signature.json", "signature")
  /\ Content(ms, "signature.json")[2] \in Trusted
  /\ Content(ms, "signature.json")[3] = Content(ms, "checksums.json")[2]

InspectionOK(ms, requireSignature) ==
  /\ MembersOK(ms) /\ ChecksumsOK(ms)
  /\ Holds(ms, "manifest.json", "manifest")
  /\ LET m == Content(ms, "manifest.json")[2]
     IN /\ ManifestOK(m) /\ m.entrypoint \in Names(ms)
        /\ IF "signature.json" \in Names(ms) THEN SignatureOK(ms) ELSE ~requireSignature
        /\ m.kind = "declarative-v1" =>
             Holds(ms, m.entrypoint, "app") /\ AppOK(Content(ms, m.entrypoint)[2])

------------------------------------------------------------------------------
(* What the host allows: validate_host_request and authorize_request.         *)

HostMethod ==
  [m \in DOMAIN MethodCapability \cup {"network.fetch", "motor.move", "speaker.play"} |->
     CASE m = "network.fetch" -> "network.outbound"
       [] m = "motor.move"    -> "motor.pan_tilt"
       [] m = "speaker.play"  -> "speaker.playback"
       [] OTHER               -> MethodCapability[m]]

Hosts == {"a.org", "www.a.org", "b.org"}
Within(host, domain) == host = domain \/ <<host, domain>> = <<"www.a.org", "a.org">>

(* A parameter of a call: a number, no number (NaN, which JSON may carry and  *)
(* for which every comparison is false), or not given.                        *)
Number(v) == <<"number", v>>
NotANumber == <<"NaN", 0>>
NotGiven == <<"absent", 0>>

(* _authorize_motor: both angles must be finite; the speed need not be, and   *)
(* one that is not given is the manifest's.  Mutant: only the pan is compared *)
(* with its range.                                                            *)
AngleAllowed(range, angle) ==
  angle[1] = "number" /\ range[1] <= angle[2] /\ angle[2] <= range[2]

SpeedRefused(l, speed) ==
  speed[1] = "number" /\ (speed[2] <= 0 \/ l.speed < speed[2])

MotorAllowedPanning(l, pan, tilt, speed) ==
  AngleAllowed(l.pan, pan) /\ tilt[1] = "number" /\ ~SpeedRefused(l, speed)

MotorAllowed(l, pan, tilt, speed) ==
  AngleAllowed(l.pan, pan) /\ AngleAllowed(l.tilt, tilt) /\ ~SpeedRefused(l, speed)

(* The volume is looked at if it is given, and must be a whole number then.   *)
VolumeAllowed(l, volume) ==
  volume # NotGiven =>
    volume[1] = "number" /\ volume[2] \in 0..MaxVolume /\ volume[2] <= l.volume

NetworkAllowed(l, host, verb) ==
  (\E d \in l.domains : Within(host, d)) /\ verb \in l.methods

(* _authorize_microphone, of the opening                                      *)
MicrophoneAllowed(lease, rate, window) ==
  lease \in 1..300 /\ rate \in {16000, 48000} /\ window \in 20..500

Allowed(m, c) ==
  /\ c[1] \in DOMAIN HostMethod /\ HostMethod[c[1]] \in DOMAIN m.permissions
  /\ LET l == m.permissions[HostMethod[c[1]]]
     IN CASE c[1] = "network.fetch" -> NetworkAllowed(l, c[2], c[3])
          [] c[1] = "motor.move" -> MotorAllowed(l, c[2], c[3], c[4])
          [] c[1] = "speaker.play" -> VolumeAllowed(l, c[2])
          [] c[1] = "microphone.stream.open" -> MicrophoneAllowed(c[2], c[3], c[4])
          [] c[1] = "storage.put" -> c[2] = "inside"     \* safe_package_path
          [] OTHER -> TRUE

Angles == {Number(v) : v \in -MaxAngle - 1..MaxAngle + 1} \cup {NotANumber, NotGiven}
Speeds == {Number(v) : v \in 0..MaxSpeed + 1} \cup {NotANumber, NotGiven}
Volumes == {Number(v) : v \in -1..MaxVolume + 1} \cup {NotANumber, NotGiven}

HostCalls ==
  {<<"network.fetch", h, v>> : h \in Hosts, v \in {"GET", "POST", "PUT"}}
  \cup {<<"motor.move", p, t, s>> : p, t \in Angles, s \in Speeds}
  \cup {<<"speaker.play", v>> : v \in Volumes}
  \cup {<<"microphone.stream.open", l, 16000, f>> : l \in {0, 1, 301}, f \in {19, 20}}
  \cup {<<"storage.put", p>> : p \in {"inside", "outside"}}
  \cup {<<"ui.present">>, <<"system.reboot">>}

------------------------------------------------------------------------------
(* Inputs: what a model plans, what an author writes.                         *)

Components ==
  {Component("clock", Absent, FALSE, FALSE, <<0, 0>>), Component("metric", "x", TRUE, FALSE, <<0, 0>>),
   Component("metric", Absent, TRUE, FALSE, <<0, 0>>), Component("progress", Absent, TRUE, FALSE, <<0, 1>>),
   Component("progress", "x", TRUE, FALSE, <<1, 1>>), Component("text", Absent, FALSE, TRUE, <<0, 0>>),
   Component("text", "x", TRUE, TRUE, <<0, 0>>)}

Surfaces ==
  {[layout |-> l, components |-> cs] :
     l \in {"hero", "list", "wall", Absent}, cs \in UNION {[1..n -> Components] : n \in 0..2}}

PlannedApps ==
  {[pipeline |-> Fallback("clock", FALSE), longPrompt |-> FALSE, surfaces |-> {s}] : s \in Surfaces}

PlainManifest ==
  [header |-> "plain", name |-> 8, menuLabel |-> 4, kind |-> "declarative-v1",
   entrypoint |-> "app/main.json", autostart |-> FALSE, cpuPercent |-> 10, memoryMB |-> 128,
   permissions |-> [c \in {"ui.surface"} |-> <<>>], twice |-> FALSE]

Motors ==
  [pan : {<<-1, 1>>, <<1, -1>>, <<-MaxAngle - 1, 0>>}, tilt : {<<0, 1>>, <<0, MaxAngle + 1>>},
   speed : {0, 1, MaxSpeed + 1}, emergencyStop : BOOLEAN]
Networks ==
  [domains : SUBSET {"a.org", "A.org.", "*.org"}, methods : {{}, {"GET"}, {"GET", "PUT"}, {"PUT"}}]

WrittenPermissions ==
  [{"motor.pan_tilt"} -> Motors] \cup [{"network.outbound"} -> Networks]
  \cup [{"speaker.playback"} -> [volume : {Unset, 0, 1, MaxVolume + 1}]]
  \cup (UNION {[{c} -> [indicator : BOOLEAN]] : c \in {"camera.stream", "microphone.stream"}})
  \cup (UNION {[{c} -> {<<>>}] : c \in {"lifecycle.autostart", "storage.app", "shell.execute"}})

Asking(permissions, autostart) ==
  [PlainManifest EXCEPT !.permissions = permissions, !.autostart = autostart]

WrittenManifests ==
  {[PlainManifest EXCEPT !.header = h] : h \in {"plain", "loose", "defaults", "wrong"}}
  \cup {[PlainManifest EXCEPT !.name = n, !.menuLabel = l] : n \in {0, 4, 8, 41}, l \in {Unset, 0, 4, 8}}
  \cup {[PlainManifest EXCEPT !.kind = k, !.entrypoint = e] :
          k \in {"declarative-v1", "python-sandbox-v1", "shell"}, e \in {"app/main.json", "app/main.py"}}
  \cup {Asking(p, a) : p \in WrittenPermissions, a \in BOOLEAN}
  \cup {[PlainManifest EXCEPT !.twice = TRUE], [PlainManifest EXCEPT !.cpuPercent = 51]}

------------------------------------------------------------------------------

VARIABLES
  maker,        \* who made the package: "none", "device", "author"
  application,  \* the declarative application
  written,      \* its manifest, as its maker or, installed, the device has it
  members,      \* the package file
  built,        \* ghost: the package as it left its maker
  damages,
  stage,        \* "asked", "planned", "candidate", "packed", "inspected", "enabled",
                \* "refused", "unreadable"
  allowed       \* the last call the host allowed

packageVars == <<maker, application, written, members, built, damages, stage, allowed>>

PackageTypeOK ==
  /\ maker \in {"none", "device", "author"}
  /\ stage \in {"asked", "planned", "candidate", "packed", "inspected", "enabled",
                "refused", "unreadable"}
  /\ damages \in 0..MaxDamages
  /\ damages = 0 /\ stage \notin {"asked", "planned", "candidate"} => members = built

PackageInit ==
  /\ maker = "none" /\ application = <<>> /\ written = <<>>
  /\ members = {} /\ built = {} /\ damages = 0 /\ stage = "asked" /\ allowed = <<>>

(* generate: a plan of the model that passes normalize_plan, or the fallback. *)
Plans ==
  /\ stage = "asked"
  /\ stage' = "planned" /\ maker' = "device"
  /\ application' \in {a \in PlannedApps : AppOK(a)}
                        \cup {OfflineApp(t, n, l) : t \in Topics, n, l \in BOOLEAN}
  /\ UNCHANGED <<written, members, built, damages, allowed>>

Least(a, b) == IF a < b THEN a ELSE b

(* build_candidate: texts are cut, permissions derived, resources counted.    *)
CandidateManifest(a, name, label) ==
  LET needed == Required(a.pipeline)
      n == Cardinality(needed)
      cut == Least(IF name = 0 THEN 4 ELSE name, 20)
  IN [PlainManifest EXCEPT
        !.name = cut, !.menuLabel = Least(IF label = 0 THEN cut ELSE label, 6),
        !.cpuPercent = Least(35, 5 + n * 4), !.memoryMB = Least(384, 64 + n * 32),
        !.permissions = [c \in needed |-> IF c \in {"camera.stream", "microphone.stream"}
                                          THEN [indicator |-> TRUE] ELSE <<>>]]

Composes ==
  /\ stage = "planned"
  /\ \E name \in {0, 4, 30}, label \in {0, 4, 9} :
       written' = CandidateManifest(application, name, label)
  /\ IF AppOK(application) /\ ManifestOK(written')
     THEN application' = NormalApp(application) /\ stage' = "candidate"
     ELSE UNCHANGED application /\ stage' = "refused"
  /\ UNCHANGED <<maker, members, built, damages, allowed>>

(* The device signs what passes both validations once more.                   *)
Builds ==
  /\ stage = "candidate"
  /\ IF ManifestOK(written) /\ written.entrypoint = "app/main.json" /\ AppOK(application)
     THEN /\ members' = Archive(NormalManifest(written), NormalApp(application), "app/main.json", "device")
          /\ stage' = "packed"
     ELSE UNCHANGED members /\ stage' = "refused"
  /\ built' = members'
  /\ UNCHANGED <<maker, application, written, damages, allowed>>

(* A package from elsewhere, of whatever its author wrote.                    *)
Authors ==
  /\ stage = "asked"
  /\ stage' = "packed" /\ maker' = "author"
  /\ written' \in WrittenManifests
  /\ application' \in {OfflineApp("other", FALSE, FALSE), OfflineApp("research", FALSE, TRUE)}
  /\ \E entry \in {"app/main.json", written'.entrypoint}, key \in {"vendor", "stranger", "none"} :
       /\ application'.longPrompt \/ key # "vendor" => written' = PlainManifest  \* a bound
       /\ members' = Archive(written', application', entry, key)
  /\ built' = members'
  /\ UNCHANGED <<damages, allowed>>

(* A copy that went wrong: a member garbled, lost, there twice, or one more.  *)
Damages ==
  /\ stage = "packed" /\ damages < MaxDamages
  /\ damages' = damages + 1
  /\ \/ \E x \in members :
          members' \in {members \ {x}, members \cup {Member(x.file, <<"garbled">>)},
                        (members \ {x}) \cup {Member(x.file, <<"garbled">>)}}
     \/ members' = members \cup {Member("notes.txt", <<"garbled">>)}
  /\ UNCHANGED <<maker, application, written, built, stage, allowed>>

(* inspect_package; only workshopctl may do without a signature.              *)
Inspects ==
  /\ stage = "packed"
  /\ \E requireSignature \in {TRUE, maker = "device"} :
       stage' = IF InspectionOK(members, requireSignature) THEN "inspected" ELSE "refused"
  /\ UNCHANGED <<maker, application, written, members, built, damages, allowed>>

(* install, and the approval of what the manifest declares.                   *)
Installs ==
  /\ stage = "inspected"
  /\ stage' = "enabled"
  /\ written' = Content(members, "manifest.json")[2]
  /\ UNCHANGED <<maker, application, members, built, damages, allowed>>

(* dispatch: installed_manifest reads and validates the file for each call.   *)
Asks ==
  /\ stage = "enabled"
  /\ IF ManifestOK(written)
     THEN /\ allowed' \in {c \in HostCalls : Allowed(NormalManifest(written), c)}
          /\ UNCHANGED stage
     ELSE stage' = "unreadable" /\ UNCHANGED allowed
  /\ UNCHANGED <<maker, application, written, members, built, damages>>

PackageNext ==
  \/ Plans \/ Composes \/ Builds \/ Authors \/ Damages \/ Inspects \/ Installs \/ Asks

PackageSpec == PackageInit /\ [][PackageNext]_packageVars

------------------------------------------------------------------------------
(* What the device generates offline or from a model's plan gets through      *)
(* every later reading of it (candidate, build, inspection, each call), for   *)
(* each is of what the one before it normalized; and what is inspected        *)
(* successfully is, but for its signature, what its maker built: a package    *)
(* that was damaged in any part does not get in.  The exception of the first  *)
(* is a long request for research, which the fallback hands on uncut.         *)
PackagesAreKnown ==
  /\ maker = "device" /\ members = built /\ ~application.longPrompt =>
       stage \notin {"refused", "unreadable"}
  /\ stage \in {"inspected", "enabled"} =>
       {x \in members : x.file # "signature.json"} = {x \in built : x.file # "signature.json"}

(* What the host allows was within the bounds of the manifest its author      *)
(* wrote, and those within the bounds of the platform: each angle, for both   *)
(* are finite, and each speed and volume that a call gives as a number.  A    *)
(* speed that is no number and a playback that gives no volume are allowed    *)
(* without a bound, against docs/WORKSHOP_PROTOCOL.zh-CN.md:86; today no      *)
(* adapter behind the host carries either out (workshop_host.py:955).         *)
Declared == Content(built, "manifest.json")[2].permissions

CallsStayWithinTheManifest ==
  allowed # <<>> =>
    /\ HostMethod[allowed[1]] \in DOMAIN Declared
    /\ LET l == Declared[HostMethod[allowed[1]]]
       IN CASE allowed[1] = "motor.move" ->
                 /\ allowed[2][2] \in (l.pan[1]..l.pan[2]) \cap (-MaxAngle..MaxAngle)
                 /\ allowed[3][2] \in (l.tilt[1]..l.tilt[2]) \cap (-MaxAngle..MaxAngle)
                 /\ NotANumber \notin {allowed[2], allowed[3]}
                 /\ allowed[4][1] = "number" => allowed[4][2] \in 1..Least(l.speed, MaxSpeed)
            [] allowed[1] = "network.fetch" ->
                 /\ \E d \in l.domains : Within(allowed[2], DomainName[d])
                 /\ allowed[3] \in l.methods \cap NetworkMethods
            [] allowed[1] = "speaker.play" ->
                 allowed[2] # NotGiven =>
                   /\ allowed[2] # NotANumber
                   /\ allowed[2][2] \in 0..(IF l.volume = Unset THEN DefaultVolume ELSE l.volume)
            [] allowed[1] = "microphone.stream.open" -> l.indicator
            [] OTHER -> TRUE
=============================================================================
