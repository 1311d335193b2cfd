# Verification of RiverBank

RiverBank is a desk assistant on a Raspberry Pi with a Hailo accelerator: a set
of Python services, each with its own socket, database or files, that accept
requests from a round screen, a web console, an iOS application and a voice
loop. This directory models the parts of it whose correctness depends on
interleavings, crashes, expiries, lost messages and long sequences of legal
calls, checks them with TLC on small instances and proves the central results
with TLAPS for instances of every size.

Line numbers refer to `src/`. `PROJECT.json` names, for every definition, the
lines it stands for, and lists the hazards with the properties that cover them.

## 1. The system

```
 clients (screen, web, iOS, voice)
    |  HTTP / unix sockets
    v
 video_call_server ----- chat.db ------ chat_worker ---+
    |  |  |  \                                         +--> agent runtime --> Hermes
    |  |  |   `------- tasks.db ------ task_worker ----+         ^
    |  |  `--- auth.db (accounts)                                |
    |  `------ one WebRTC call (camera, recorder, speaker)       |
    +--> workshop_service -- proposals.json, registry.json ------+
              |  runtime threads, broker, YOLO detector, microphone leases
              v
        face_tracker_supervisor (leases) --> face worker --> Hailo

 microphone array <-- serial --> listengo_daemon --> state file, control socket
                                                        |
 daily_voice_assistant: wake word, recording, embedded agent, streamed speech
        |  events (snapshot file + datagrams)
        v
 expression bridge --> round screen (display, menu, pomodoro, music, camera,
        |                             settings, workshop, call, saver, alert)
        +--> recovery controller, provisioning service, health monitor
 paper radar: collect -> read -> enrich -> render, once a day, and its website
```

| Component | State | Operations | How it interacts | What is hard |
|---|---|---|---|---|
| Task queue: `task_store.py`, `task_worker.py`, task routes | rows of `tasks.db` (status, cancel flag, idempotency key), report and artifact files, the worker's position | submit, answer, cancel, purge, adopt; claim, run, ask, write, finish; recover | HTTP threads and one worker process share SQLite; the worker calls the agent runtime and the image API | requests between two store calls of the worker, SIGTERM and SIGKILL, unconditional UPDATEs, retries of submissions |
| Chat queue: `chat_store.py`, `chat_worker.py`, `attachment_store.py`, chat routes | conversations, messages, attachment rows and files | post with upload, stop, delete, clear cache; claim, draw, enrich, stream, attach, finish; recover | handlers run in threads and interleave with each other as well | reads outside the transaction that writes, files and rows changed in different orders, partial runs |
| Accounts: `auth_store.py` and its routes | users, sessions, claims of content from before the accounts | set up, register, sign in and out, add, change role, disable, change password | handlers await between two transactions | a check in one transaction and the change in another, a death between the account and its claims |
| Video call: `video_call_server.py` | the one session, its camera, recorder, speaker and remote picture | offer, replace, hang up, activate, fail, close | asyncio handlers and callbacks of aiortc | everything that is awaited while another handler replaces the session |
| Agent runtime: `agent_runtime_service.py`, `riverbank_agent/` | active table, semaphore, child process groups | run (streamed), cancel, stop | the queues and the workshop are its clients | cancel racing registration, cancel while waiting for a place, killing process groups |
| Hailo arbiter: `face_tracker_supervisor.py`, `vision_leases.py` | two lease tables in memory, the face worker process, backoff | acquire, renew, release; reserve, renew and release external; maintain | unix socket with 3 s timeouts; callers give up while the supervisor goes on | waiting with the lock held, expiry, restarts that forget both tables |
| Workshop vision and microphone: `workshop_runtime.py`, broker, detector and microphone of `workshop_host.py` | active session, stop event, reservation record, YOLO process, microphone leases with timers | launch, stop, session loop; start, stop and heartbeat of vision; open, read and close of the microphone | server threads, session threads, timers and the arbiter | no lock around most steps, `join` with a timeout, overwriting a running session |
| Workshop proposals: `workshop_service.py`, `workshop_store.py`, `workshop_manager.py`, generator | `proposals.json`, drafts, package directories, `registry.json`, bounded queue | create, approve, reject, generate, install, recover | one thread per request, one generator thread, flock per file | check and update without a lock in between, a long generation, death between directory, record and grant |
| Workshop packages and applications: `workshop_generator.py`, `workshop_package.py`, `workshop_contract.py`, `workshop_declarative.py`, `workshop_host.py` | plan, manifest, package, frames, counters | plan, derive permissions, sign, inspect, install, approve, run a frame, authorise a call | what one step normalises the next one validates again | a permission derived from a plan and one demanded at run time by different code |
| Expression events and bridge | sequence numbers, current interaction, snapshot and datagrams | publish, consume, deliver, restart | several publishers, one display | snapshot and datagram in either order, restarts of either end |
| Expression display: `expression_display_persistent.py` | page, menu, panels, saver, alert, camera view, restart slider | touch, voice command, frame, time-outs | one thread, but every source of input in any order | layers that cover or close each other |
| Pomodoro | phase, deadline, persisted file, statistics | start, pause, resume, skip, update | voice, menu and display on one thread | deadlines crossed between calls, restart |
| Music | playlist, VLC process, scan and lyrics threads | play, pause, next, mode, rescan | touch and voice, VLC over its socket | VLC dying, results of a scan applied late |
| Provisioning | mode, hotspot, radio, status file | loop, posted configuration, hand-over | NetworkManager, display | two threads that each decide about the hotspot |
| Recovery and health | worker thread, lock file, status; trackers of failures and alerts | recover_all, status; periodic probes | `systemctl restart --no-block`; popups on a desktop that may be away | status read before the thread has written it; popups that are lost |
| Voice assistant: `daily_voice_assistant.py`, `embedded_hermes.py` | last wake, pending wake, active work, ring of blocks, speech queue | wake, record, recognise, ask, speak, follow up, interrupt | watcher thread, speech threads, agent, player | barge-in at every step, markup split over stream deltas, aborts against a blocking player |
| Microphone daemon: `listengo_daemon.py` | connection, number of the next message, waiting requests | connect, handle message, command | device, request threads | answers late, lost or of an earlier connection |
| Paper radar | state of the gate to arXiv; manifests, reports, pages, requests for a focus | fetch; collect, render, queue, edit, catch up | several processes share a lock and files | deaths between two files, a spacing that must survive them |

Not in the table because they are not modelled: HTTP routes and reports, image
generation, the face inference pipeline, the paper website, the release
manager, the clients, configuration and deployment (section 7).

What makes the main ones correct, and is stated in the models:

- task queue: one executor per running row; no execution that is not paid for
  by a submission, an answer or a crash; a completed task has its deliverables;
  a queued task is served unless older ones that ask again and again, or a
  worker that dies again and again, prevent it;
- chat queue: one running reply; the file of an attachment record is there; a
  question gets its own answer; every reply ends;
- accounts: once there is an account there is an enabled administrator;
- arbiter: face leases and reservations exclude each other, a granted
  reservation means the device is really free, a kept lease is served;
- workshop: no inference process is lost, every session and every recording
  ends, only what the user was shown is enabled, and an enabled application
  calls nothing its manifest does not name;
- voice: every wake word is answered, what is spoken is the answer in order and
  without markup but for the pieces named in section 6, an abort is followed by silence, a recording is what the user
  said after the wake word;
- screen: it catches up with the last event, its layers exclude each other,
  what sounds is what it says.

## 2. Modules

| Module | Models | State and actions |
|---|---|---|
| `TaskLifecycle` | the abstract life of a task, as clients see it | one status per task; `Submit`, `Start`, `Ask`, `Answer`, `Requeue`, `Finish`, `Cancel`, `Purge` |
| `TaskQueue` | store, worker, HTTP operations, SIGTERM, crash | one action per store call, since SQLite serialises them; `pc` and `current` place the worker inside `process()`; `credit` is what submissions, answers and crashes have paid for less what has been executed |
| `ChatQueue` | store, worker, handlers, attachments | one action per SQL step; `req` holds every HTTP request between two steps, `pc`, `cur`, `image` the worker; a turn is a user message with its reply |
| `Accounts` | `auth_store.py` and the handlers around it | a `job` is a request between two transactions; accounts, sessions and the owners of old chats and tasks are the database |
| `VideoCall` | `VideoCallSession` and the handlers of the call | one caller is one offer with its session; `call[o].at` places its handler between two awaits, the other fields are its peer connection and devices; `closing` is the running close |
| `RunPool` | the abstract agent: a run waits, holds a permit while it has a process, ends | status per run |
| `AgentRuntime` | client, handler, active table, semaphore, cancel connection, Hermes process and process group, stop and crash | one action per await of the handler |
| `HailoArbiter` | supervisor and the caller's side of `reserve()` | one action per request, as `handle_request` holds the lock; `stopping` is the 13 s wait inside `stop_worker`, in which callers time out and leases expire |
| `WorkshopVision` | runtime, broker, detector; extends `HailoArbiter` | `pc` per session and control thread; `heldId`, `heldApp`, `det`, `yolo`, `victim` are the broker's record, set and cleared one attribute at a time, the detector handle, the living processes and the process a thread is killing |
| `Microphone` | broker's microphone leases, pw-cat processes, timers, session threads | a sitting is a launch; server threads and `Alarm(s)`, the timer of a lease, close as well |
| `WorkshopProposals` | service, proposal store, generator thread, package registry | a request holds its copy of the proposal and its label; `todo` is what `start()` has yet to queue; one read or rewrite of a JSON file under its lock is one action |
| `WorkshopApp` | validation of a flow, derived permissions, approval, frames, authorisation of calls | a plan is a sequence of nodes of which only the argument that a check turns on is kept; one action per frame and call |
| `WorkshopPackage` | plan, fallback, manifest, signature, inspection, installation, the host's reading of the manifest; extends `WorkshopApp` | `stage` of one package; texts are their lengths, a package is a set of members with what their digests cover |
| `ExpressionEvents` | publisher, snapshot, datagrams, bridge, delivery with retry | the inbox of the socket and the file are two channels |
| `ExpressionDisplay` | the renderer's pages, panels, saver, alert, sliders | `ui` is the record of its fields; one action per touch, command and frame branch |
| `Pomodoro` | `PomodoroTimer`, its file and the renderer's restarts | operations of the class, clock ticks, reload |
| `Music` | `MusicPlayer`, VLC, scan and lyrics threads | VLC is a process that may die or end a track at any time |
| `Provisioning` | `ProvisioningService` loop and posted configuration | each thread's position between two nmcli calls; hotspot, radio and link are NetworkManager's |
| `Recovery` | controller, worker thread, status file, button | deaths of controller and display at every step |
| `HealthMonitor` | one run of the monitor | one action per check, then tracking, alerts, recoveries, announcement, wait |
| `VoiceAssistant` | main loop, watcher, embedded agent, faces | `turn` holds the interaction and its stage, `live` what a barge-in finds to stop, `request` the agent's request |
| `Listening` | microphone ring, recording of an utterance, end of speech | a history of blocks, of which the assistant keeps a ring |
| `SpeechText` | emotion router, speakable prefix, clause chunker | an answer is a sequence of symbols that arrives in any split |
| `SpeechSession` | speech queue, worker, player, aborts by turn and watcher | one action per locked section |
| `MicrophoneDaemon` | serial thread, `send_control` threads, device | numbers, answers and connections |
| `ArxivAccess` | `fetch_bytes` over lock and state file | one action per step under or outside the lock, deaths at each |
| `PaperRadar` | scheduled, caught-up and queued runs, files, focus requests | one action per file that is written |
| `MC*` | TLC instances and the unions of section 3 | constant definitions, unions, fairness restated |
| `TaskQueue_proofs`, `ChatQueue_proofs`, `HailoArbiter_proofs` | theorems and proofs of the module they extend | |
| `WorkshopVision_proofs` | `WorkshopVision`, `Microphone` | on top of `HailoArbiter_proofs` |
| `Server_proofs` | `Accounts`, `VideoCall`, `MicrophoneDaemon` | one part per component, here and in the next three |
| `Stores_proofs` | `WorkshopProposals`, `PaperRadar` | |
| `Services_proofs` | `ArxivAccess`, `AgentRuntime`, `SpeechSession`, `Listening`, `VoiceAssistant`, `Recovery`, `HealthMonitor` | |
| `Screen_proofs` | `Pomodoro`, `Music`, `ExpressionDisplay`, `WorkshopApp`, `WorkshopPackage`, `ExpressionEvents`, `Provisioning` | |

Conventions. A definition called a mutant in its comment is never part of a
specification: it is a plausible slip of the code next to the definition it
would replace, kept to show that a property notices it. A comment with a
document name and line refers to what that document promises.

Three abstractions are stated as specifications of their own. `TaskQueue`
implements `TaskLifecycle` (`ImplementsLifecycle`, checked and proved).
`AgentRuntime` implements `RunPool` (`ImplementsPool`, checked and proved), which is why
the workers' models may treat the agent as one operation that ends.
`WorkshopVision` implements the safety part of `HailoArbiter`'s specification
(`ArbiterSafety`, checked and proved), so that what is proved of the arbiter
for arbitrary callers holds with the workshop as its caller.

Every module that models code has one type invariant. It is proved, or as
much of it as the theorems of its module rest on (section 5), and TLC finds all of them to hold on the instances of section 3;
no run of `PROJECT.json` lists one, since a run is better spent on
what could be wrong.

## 3. Runs

Components that do not interact share a run: the run's specification is the
union of theirs, with a variable that says which one is explored (`part`,
`focus`, `subject`), chosen in the initial state and never changed. The state
space is the sum, not the product, of the parts; the other parts stay in their
initial states, and a liveness property of one part is claimed under the
fairness of that part, restated over the union's variables. Components that do
interact are composed properly: `WorkshopVision` with `HailoArbiter`,
`WorkshopPackage` with `WorkshopApp`, store with worker and handlers, publisher
with bridge and display.

Two workers take from about 50 seconds to a little over three minutes for a run
that must pass, and seconds for the others.

| Run | Parts and instance | What it shows |
|---|---|---|
| `server` | *chat*: one conversation, two concurrent requests, an upload, two image turns, one crash; *accounts*: two accounts, one session, two requests in progress, deaths; *call*: two offers; *array*: two commands over two connections | records never outlive files, recovery leaves one owner per running reply; an administrator remains; the call shown is whole; a command hears its own answer or of the loss |
| `chat_serial` | one request at a time, two turns (drawn and paper), an upload, an image, one SIGTERM, fair worker | the right question, every reply ends |
| `chat_two_posts` | two concurrent text posts | **violated**: two active replies in one conversation |
| `task_queue` | a text task, a second submission of it, an illustrated task, one account, any number of answers, crashes and SIGTERMs | ownership, accounting, deliverables, refinement, and, with a fair worker, that only older tasks answered for ever or a worker killed for ever keep a task waiting |
| `task_cancel_race` | one task, no faults | **violated**: a cancel between the worker's last look and `wait_for_input` never takes effect |
| `services` | *agent*: two runs, one permit, one stop or crash; *arbiter*: two face clients, two callers, two faults; *voice*: two wake words, one follow-up; *text*: every answer of six symbols in every split; *speech*: three clauses, a queue of two, two aborters; *listening*: six blocks of three kinds, a ring of three; *arxiv*: two readers, interval 2, cooldowns up to 4; *recovery*: two presses, two deaths; *health*: a slow and a quick check, threshold 2, four changes | the runtime implements its pool; the tables and the device exclude each other, kept leases are served; every wake word is answered; what is spoken is what was written, and which control tokens escape; silence after an abort, an utterance without gaps or the assistant's own voice; requests are spaced; a recovery that runs ends; the user is told the truth about failures |
| `screen` | *events*: three events, two lives of publisher and bridge, an inbox of two; *pomodoro*: focus 2, breaks 1 and 2, seven ticks; *display*: call and workshop pages; *music*: libraries of none, one and two tracks; *provisioning*; *app*: every plan of up to four nodes for two frames; *package*: both makers, one damaged member | the screen catches up; statistics are the time worked; layers exclude each other, a reboot needs a whole drag; sound follows status; a hotspot that nmcli reports truthfully ends; no call is refused for a capability the plan did not derive; packages enabled are known and stay within their manifest |
| `stores` | *proposals*: two proposals, two applications, two requests, a queue of one place, one death; *radar*: two focus requests of one edit each, two days, two attempts, one catch-up a day | only reviewed candidates are enabled, an offer has its package, queued work is taken up; a focus is used up only by a page that shows it, in its last wording unless it was edited too late |
| `workshop_devices` | *vision*: two sessions of different applications, one control thread, one face client, a fault of the arbiter or a second session in one life; *microphone*: two sittings of one application and one server thread | the workshop takes only steps the arbiter allows, no process is lost, sessions and recordings end |
| `device_exclusive` | one session, one control thread, one face client, no faults | **violated**: the reservation is released while YOLO is alive |
| `lost_barge_in` | one wake word during a turn of text | **violated**: a wake word before the agent's request is active stops nothing |
| `lost_answer` | answers of up to six symbols, one round of tools | **violated**: text before a tool call silences the answer after it |

Why these bounds. Every race in the code is between two actors, or between one
actor and a crash: two tasks, two requests, two sessions, two offers or two
readers beside one worker with one fault contain each of them, and the
ownership, exclusion and spacing properties speak of pairs. A second crash adds
a repetition from a state recovery already reaches after the first; the arbiter
has two, since supervisor and face worker die separately, and the recovery
controller two, since a death during recovery of a death is its subject. The
task queue has no such bound: its tasks may be answered and its worker killed or
stopped without end (`credit` stays between 0 and 1). Sessions on the accelerator
have a fault of the arbiter or a second session in one life
(`FaultOrSecondSession`), which the theorems do not need. The
others are the smallest in which their case happens:

- a proposal queue of one
  place is full as soon as one proposal waits; an inbox of two datagrams of
  three events overflows; a line of one message to the daemon lets an answer be
  overtaken by a loss of the connection;
- six symbols hold a tag or a mark in one piece or two, a thought whose opening
  is cut, closed or left open, a sentence end with its space, and a round of
  tools before an answer; `MinChars` 2 and
  `HardChars` 3 put both limits inside them;
- six blocks with a ring and a pre-roll of three let the ring wrap before, in
  and after an utterance; `LongestTurn` 4 cuts one;
- seven ticks with phases of one to three pass a whole cycle of focus, break,
  focus and long break with a pause in it;
- plans of four nodes hold a source, a gate, an effect and a presentation, which
  is what every rule of the validator speaks of; two frames are the smallest
  number in which a value of the frame before is stale;
- four changes are an outage that begins while there is a desktop and ends
  while there is none, and the desktop's return.

The theorems remove the bounds where they exist.

Deadlock is checked in `server`, `chat_serial`, `chat_two_posts`,
`task_queue`, `task_cancel_race` and `lost_barge_in`. It is not in the other
runs: sessions run once each, answers and recordings end, times and events are
bounded, so the system stops when they are used up. `server` uses the
symmetry of conversations, uploads, images and requests, which only the chat
part has; it checks invariants only.

`server` and `chat_serial` split the chat queue by concern: concurrent requests
and crashes do not fit into one run with fairness. `chat_serial` takes the steps
in which no process dies and no client disconnects (`QuietSpec`); the same
module's crash and disconnect steps are explored by `server`.
`OneActiveReply` is claimed by its own run, which refutes it.

## 4. Fairness

Clients, users and the world promise nothing in any model: no request, touch,
wake word, answer of a device or change of the network is fair.

- Queue workers (`WF(WorkerStep)`): processes of live services are scheduled.
  Every wait ends: the task agent within 1800 s, the chat agent within 600 s
  (and 8 s of grace), enrichment within 210 s, the image API within 180 s, a
  workshop plan within two runs of at most 300 s. A worker that died is started
  again (`Restart=on-failure`, `RestartSec=4`; `KillMode=control-group` and
  `TimeoutStopSec` bound its stop). For the worker stopped by an operator,
  fairness means that it is started again.
- Chat waits (`SF(WaitEnds)`): the worker polls the agent, the enricher and the
  image API in loops. The loop may be left at infinitely many moments and the
  timeouts make sure one of them is taken; weak fairness of the step as a whole
  would allow polling for ever.
- Agent runtime: its coroutines run, a process that has been killed exits, and a
  runtime that is closing closes.
- Arbiter: `maintain` runs every 0.25 s, `stop_worker` ends after at most 13 s,
  backoff passes, systemd restarts the supervisor (`Restart=always`).
- Workshop vision: sockets time out after 3 s, camera sessions and leases run
  out, so their loops end and abandoned reservations lapse. Microphone: opening
  and closing threads run, a timer that was started fires. Proposals: the
  service is started, the thread that serves a request and the generator run.
- Voice: the main loop and the watcher thread run, and what they wait for
  (recognition, agent, player) ends under its timeout.
- Screen: the bridge, the sender of a datagram and the display run; the loop of
  the provisioning service runs (each nmcli call has a timeout).
- Recovery: display and worker thread run; a display that was restarted and a
  controller that died start again (`Restart=always`). Health monitor: the loop
  runs unless it is stopped.

Two assumptions about time. SIGKILL ends a process before the code gives up
waiting for it (one second for YOLO, three for the face worker). `Prompt` says
that the heartbeat of a session on record keeps its reservation alive (nobody
renews that of one whose record another thread has cleared); `device_exclusive`
keeps it as well, so the violation found there does not need a slow thread.

## 5. What is proved

All theorems hold for any sets of tasks, clients, sessions, conversations,
files, accounts and readers and any values of the bounds, from the assumptions
named in the modules that declare the constants (disjointness of identifiers,
null values outside the sets, natural bounds).

`TaskQueue_proofs`: `TypeCorrect`, `SingleOwner`, `NoSpuriousExecution`,
`AnswersMatchQuestions`, `CompletedDelivers`, `CancelSticks`, `Refinement`. The
invariant `IInv` adds to the checked ones that the worker's progress implies the
files it has written (`Progressed`) and a count in which a task that is queued,
or running without a live worker, is owed one execution and none is owed two
(`Accounted`): without the debt the bound on executions is not preserved by claim or recovery. The
refinement maps each worker step to a step of `TaskLifecycle` or a stutter and
uses `SingleOwner` for "at most one running".

`HailoArbiter_proofs`: `TablesExcludeAlways`, `GrantExcludesFaceAlways`. The
tables exclude each other by the guards; that a granted caller has the device
needs that a reservation in the table has already taken the worker's handle
away (`Cleared`) and that its caller hears of it only after the wait
(`Waited`).

`WorkshopVision_proofs`: `DetectorsOwned`, `IdleIsQuiet`, `HeldIsReleased`,
`ImplementsArbiter`. Each invariant is a debt, and `WInv` names the thread that
still has to pay it: a detached process is in the hands of a thread at `kill`,
an attached detector belongs to a session that has not detached it, the broker's
record is a reservation that was granted. `HeldIsReleased` adds that the record
is whole and belongs to a session that will let go, in lives in which no two
threads overlap while they set or clear it (`OneAtTheRecord`, the theorem's
hypothesis; `RecordInv` says what a thread at the record has done to it): its
assignments take no lock, and section 6 says what an overlap leads to. In the
same module,
`Microphone`: `NoCaptureIsLost`. A sitting that has not registered has no lease
and no timer yet, and a lease has its timer from the moment it is registered,
but for the one step between the two (`SittingOK`): so whoever takes a lease
away holds its capture, and a timer that expires while its lease is being
registered or closed takes nothing from anybody's hands.

`ChatQueue_proofs`: `ChatTypeCorrect`, `RunningIsOwned`, `RecordsKeepFiles`,
`FinishedIsFinal`, `AnswersTheQuestion`. `RecordsHaveFiles` is the deep one. A file has no record
while a request or the worker holds it, and it has one holder at most
(`FilesOfRequests`, `FileInHand`); a request that has its turn's id has no rows
yet (`Inserting`); a request about to remove a directory has seen its
conversation deleted, and a deleted conversation never comes back (`Removing`);
so an insertion finds the file where it was saved or fails on the conversation.
`FinishedIsFinal` follows from ownership: the worker's unconditional updates
reach only the reply it holds, which is running or deleted (`Held`).
`AnswersTheQuestion` says how far `AnswersOwnQuestion` and `OneActiveReply` go,
which do not hold of the code (the finding `chat_two_posts`): as long as no two
posts to one conversation overlap between the check and the transaction of
`create_turn` (`OnePostAtATime`, the theorem's hypothesis), and in spite of
everything else, deletions, stops and crashes. Turns are stamped in the order of
their ids, and the turn in progress, or about to be inserted, is the last of its
conversation (`Stamped`, `LastInProgress`, `LastInserted`).

### Server_proofs

`Accounts`: `AnAdministratorRemains`, `LegacyIsInherited`, `AccountsTyped`. The
setup checks that there is no account in one transaction and creates the first
in another, so that the role of a request in progress matters: `JobsAreBacked`
says what the state owes each label. A request that found no account creates
the first one; one that adds an account found some already registered; a change
of role or a disabling is of a registered account. With that, the check for
another enabled administrator, which is in the transaction that writes, is
enough.

`VideoCall`: `TheCallIsWhole`. What is in the seat has an open connection, its
own microphone, and its own camera unless the Camera Hub gave it none and its
offer was refused (`SeatIsWhole`; whoever takes the seat has it so, `TakingSeat`). That alone is not inductive: a
close sets the seat free first and lets go of connection and devices later,
across several awaits, when another call may have taken the seat. `CloseIsOfAnother`
supplies it: a close that has begun is of a call that has left the seat, and no
call returns to it.

`MicrophoneDaemon`: `TheAskersAreTold`. Only a registered request holds an
answer, and its own (`HoldersAreRegistered`); whose command went out on an
earlier connection than the present one has been told (`LostAreTold`).

### Stores_proofs

`WorkshopProposals`: `EnabledAreReviewed`, `OffersHavePackages`. `ReviewInv`: a
proposal waits in one place at most, the queue, the generator's hand or a
request's (`OnePlace`); a request past its opening knows the proposal it decides
on (`RequestsKnow`); before the queue is rebuilt nobody is served
(`NobodyIsServed`); a proposal being decided waits nowhere
(`DecidedWaitNowhere`); an offer is of a draft (`OffersAreDrafts`). So no
candidate is replaced between the moment it is shown and the enabling. An offer
has its package only as long as the service has not crashed: `OfferInv` adds
what holds in that first life (`FirstLife`) and that nothing in a decision is
offered (`DecidedAreNotOffered`).

`PaperRadar`: `ConsumedIsPublished`. A run marks the focus it read as used only
after the page of its report is written; `RunPublishes` says that a run that
renders has a report and one that marks has a page that shows the focus, through
deaths at every step, and `CopiesAreCurrent` that the copies under way (run,
manifest, report) are in the last wording of their requests or these are known
to have been edited since.

### Services_proofs

`ArxivAccess`: `RequestsSpaced`, `CooldownKept`. The gate's memory is a file, so
the invariant `GateInv` says what the file keeps through deaths: the last start
is saved before its request leaves (`sent <= last`), an unexpired cooldown that
arXiv asked for is still the one in the file, and whoever sleeps, sends or awaits
an answer has found the cooldown over. A reader that sends does so in the time
its start was saved, an interval after the request before it.

`AgentRuntime`: `RuntimeIsAPool`. A Hermes process lives only under a handler
that will still see it gone (`LivingIsHandled`), who is in the semaphore's queue
is there once and waits (`WaitersWait`), and a run nobody called is unknown to
the runtime (`UncalledIsUnknown`). A run executes in the pool as
long as its process lives; with the invariant this is a matter of the handler's
label (`StageOf`), so that cancellation, departure of the client and
stop are each a step of `RunPool` or a stutter, and the limit follows from the
semaphore the runs hold.

`SpeechSession`: `AbortedIsSilent`. Audio is under way only to the player that
the worker started (`AudioHasItsPlayer`), an abort past its first step has set
the flag of its session (`AbortersFlag`). The kill of the player is not enough:
the worker may start another one after it. Once an abort is over, a player that
still runs is such a one, which holds no audio and will get none
(`OnlyASilentPlayer`).

`Listening`: `UtterancesAreTheUsers`. The queue is a run of blocks without a gap
that ends with the one heard last, and what was recorded ends where the queue
begins, unless blocks were dropped (`NothingLeftOut`); from the cue on, none that
can still be recorded is the assistant's own sound (`NothingOwn`), which both
ways into a recording have to see to (`OneWayIn`). The lemmas about runs and
about the last blocks of a sequence (`LastOfProperties`, `OneMore`, `OneLess`)
are about the operators the ring is made of.

`VoiceAssistant`: `WakesAreKept`. The last wake is answered, queued, or differs
from the one marked as taken and will be noticed (`NoWakeIsForgotten`); what is
marked as taken was served or is the one queued (`TakenIsKept`), whether the main
loop or the watcher marked it.

`Recovery`: `RunningHasItsThread`. Memory says running exactly while the thread
is past its first step and short of its report, so that each status the thread
writes as running is followed by another one (`RecoveryInv`).

`HealthMonitor`: `AnnouncedOutagesAreClosed`. The flag `alerted` is what the user
was told last; with it an outage is still one or its recovery is pending
(`Consistent`), and only a check that is down is due for an alert.

### Screen_proofs

`Pomodoro`: `FocusIsWorked`. What is booked and what a running focus phase would
book if it were asked now is together the time worked, for the timer in memory
and for the one in the file, since the renderer may restart from it at any time.
The file may be behind in its bookings (`BookedSoFar`), never in what runs
(`FileRunsToo`).

`Music`: `SoundIsAsShown`. VLC is paused over its socket or, if that fails, by a
signal, and goes on only in the way it was paused: the player remembers which it
was, and the process is paused in that way or has ended (`KnowsItsProcess`).

`ExpressionDisplay`: `OneIsInFront`, `RebootsAreDeliberate`. At most one page
and one panel are up (`OnePage`, `OnePanel`), photos only alone
(`PhotosAlone`), and a latched slider is under the finger that drags it
(`SliderInHand`). Most handlers close something before they open something; the
relation `Recedes` (no page and no panel is up that was not before) composes
over their helpers, so that each helper needs one lemma and each opening one
argument.

`WorkshopApp`: `CallsAreAlwaysCovered`, `SoundsAreCountedOnce`. The first needs
that an application past its draft declares what its valid plan requires and an
enabled one was granted all of it (`PlanInv`), and `TablesAgree`: the three
tables of the code that name a capability, of the validation, of the host's
authorization and of the runtime, agree on each call that a node can make. The second is about frames: `EarInv` says that the level
read in a frame is the one heard in it (`Heard`, `LevelWasHeard`), that a draft
has counted nothing (`Untouched`) and that a sound not yet remembered is not yet
counted (`Uncounted`).

`WorkshopPackage`: `PackagesAreAlwaysKnown`, `CallsAlwaysStayWithin`. `PackageInv`
follows one package through its stages: what the device generates is valid, what
travels is what was sealed but for damage, what was inspected is what was sealed,
what is entered, installed and in the host's hand is what was inspected, and
what the host allows is, in the numbers it gives, within its manifest
(`MovesWithin`, `PlaysWithin`). The lemmas say what the operators
promise to one another: a package whose checksums agree is undamaged
(`ChecksumsTell`), every plan of the fallback passes the validation
(`FallbackValid`), and an application that passes it passes it again after its
normalization (`NormalAppRight`).

`ExpressionEvents`: `ScreenIsRightAtRest`. While the bridge serves, either it has
accepted the snapshot's event, or that event is still to come (`ToCome`: in the
socket, with its publisher, or about to be replaced by the first event of a
publisher that has started), or it had grown old (`BridgeInv`). No datagram is
newer than the snapshot, which is why a reader that takes the file first and the
socket afterwards does not go back.

`Provisioning`: `HotspotHasItsOwner`. A hotspot that is up is remembered with a
mode other than inactive, or the loop is at the step that remembers it; the
posted configuration forgets it only after it had nmcli take it down. "Up" is
what nmcli reported; a hotspot that is there against its report is not meant
(section 6).

### What the proofs changed

Three things came to light. The property of counted sounds used to be stated
for plans with a single level; the proof needs only that the counters stand
after a level, which is the hypothesis now (`LevelFirst`), and TLC agrees. Arms
of a `CASE` that overlapped left the choice among them to TLC's order, which no
proof may use; they became conditionals in the order of the code. And the tables
of the workshop are written as functions with `CASE` rather than as a merge of
pairs, which the provers do not interpret; TLC was asked to compare both forms
over the model's domain before the old one went.

### What is not proved

Type correctness is a theorem of its own for `TaskQueue`, `ChatQueue` and
`Accounts`, and a conjunct of the inductive invariant for the other modules,
but that `WakesInv` and `AlertInv` type only the variables their theorems speak
of. Every safety property of a passing run is a theorem but one:
`SpokenAsWritten` says what the router, the prefix and the chunker, recursive
functions over a text of any length, do together; a proof would be by induction
over the text, which the installed provers cannot instantiate. It is checked
over every text up to a length and every split. `AnswersOwnQuestion` is a
theorem under a hypothesis, which the instance `chat_serial` meets with its one
request at a time.

Liveness is only model-checked, since it rests on fairness and `ENABLED`, which
the prover does not reason about. The passing runs of `VoiceAssistant`,
`Microphone`, `ExpressionEvents`, `Provisioning`, `Recovery` and `HealthMonitor`
check only properties of that kind. For these a theorem states the safety half:
at every moment somebody is left who has what must be done still before him
(a thread at work, a timer that is set, a flag that is looked at in each
cycle). That he does it in the end is the fairness of section 4, and TLC's part.
These invariants are defined in the modules of proofs, and no run lists them.

The leaves are small on purpose. Each of the eight modules was also proved with a
tenth of the provers' usual time limits, so that a slower machine does not lose a
step.

## 6. Where code and documents disagree

Five disagreements are shown by runs and recorded as findings:
`chat_two_posts`, `task_cancel_race`, `device_exclusive`, `lost_barge_in` and
`lost_answer`.

The following were met while modelling. The models take the code's behaviour
and no property claims the contrary. Those of a module that is modelled in less
detail were found by reading.

Queues and accounts

- A task that is running when its worker gets SIGTERM ends as cancelled
  (`task_worker.py:305`); `docs/MAINTENANCE.zh-CN.md:118` says that running
  tasks return to queued when the worker restarts. The same for a reply in the
  agent (`chat_worker.py:299`, `AGENT_RUNTIME_PROTOCOL.zh-CN.md:67`).
- `claim_next` goes by `created_at` (`task_store.py:357`), which neither an
  answer nor recovery renews: an older task that asks and is answered again and
  again starves the younger ones. `QueuedIsServed` has this as an exception,
  and so have a worker killed or stopped again and again.
- A stop request that was recorded is reset by the recovery after a crash
  (`chat_store.py:1009`, `ARCHITECTURE.zh-CN.md:161`).
- A conversation that becomes active between the look at its messages and the
  deletion is deleted (`video_call_server.py:1525`); `MAINTENANCE.zh-CN.md:119`
  promises a conflict.
- Files of an upload stay behind when the insertion fails on the foreign key or
  the client disconnects (`video_call_server.py:1630`): neither exception is
  among those that delete them.
- Content from before the accounts is claimed in calls of its own after the
  first account was created: a death between them leaves it to nobody.

Video call (`video_call_server.py:647` to 782)

- An offer that was replaced while it waits in `setRemoteDescription` or
  `createAnswer` fails there, and its error handler closes the newer call.
- An offer that arrives while another close runs is seated without waiting for
  it; that close then replaces the remote video sink of the new call and may
  hide its view.
- A third offer overwrites one that is still being seated, whose camera and
  connection stay open. An offer that fails while a close runs stays current
  though its caller was refused, without a camera if that was what failed (the
  `close_session` of the except clause returns at once, line 657). A
  recorder being started when its session closes is left running.

Agent runtime: after the end of a process's output its `wait()` has neither
timeout nor cancel; a request that is cancelled while it waits for a permit
leaves only when it gets one; a cancel before the registration is lost.

Workshop

- Two concurrent launches may leave two camera sessions running
  (`workshop_runtime.py:101`, `WORKSHOP_PROTOCOL.zh-CN.md:483`), and two
  microphone leases when a join times out; the outer `finally` of the older
  session then closes the newer lease. A session's loop looks at the newest
  `self.stop_event`, not its own.
- `start_vision` and `stop_vision` share the id and the application on record
  without a lock (`workshop_host.py:981` and 994 to 998). When a server thread
  whose join timed out clears them while the session clears them too, the next
  session may register in between: its record is then erased, so that its
  reservation is not renewed, or keeps the id without the application, which no
  `stop_vision` clears. Every later session is then refused at line 975 until
  the service restarts. The models have these overlaps; `HeldWillBeReleased` is
  proved for lives without them (`OneAtTheRecord`), and TLC finds it violated
  with them. The other properties hold in spite of them.
- A proposal rejected while it is generated is offered again when the generation
  ends (`workshop_service.py:202`): the update names the id only. Of two
  decisions accepted at the same time (line 235), the last write decides the
  status: a proposal may say rejected although its application is enabled.
- An installation that dies or fails between the move of the directory and the
  registry leaves a directory without a record, and a later installation of that
  version is refused as installed (`workshop_manager.py:425`);
  `WORKSHOP_PROTOCOL.zh-CN.md` section 8 excludes half-installed records. A
  death after the grant sends the proposal back to the queue, and a second
  application may be enabled for it once it is approved too.
- `start()` stops queueing at the first full queue (`workshop_service.py:101`);
  the remaining proposals stay queued until the next start. `QueuedIsServed` is
  therefore stated for the life in which a proposal was created.
- An unreadable registry is read as an empty one.
- A `motor.move` whose `degreesPerSecond` is NaN passes both comparisons
  (`workshop_contract.py:764`, where the angles are checked to be finite), and
  `speaker.play` without `volumePercent` is authorized without a bound (line 933,
  no default is filled in), while `WORKSHOP_PROTOCOL.zh-CN.md:86` says that the
  manifest limits the volume. `CallsStayWithinTheManifest` bounds the angles and
  the speeds and volumes given as numbers. Both calls end at the host today: its
  motor and speaker adapters are not enabled (`workshop_host.py:955`).
- `maxConcurrent` of tasks.submit and `maxRequestsPerMinute` of
  assistant.query are declared and never enforced
  (`WORKSHOP_PROTOCOL.zh-CN.md:90`). The validator does not order audio.level
  before a counter that uses it, a second level resets the memory of the first,
  two counters share one presence state, vision.detect validates without a
  camera, and a storage key of "." or ".." validates but is refused by the host.
- The offline plan for a research requirement longer than 1200 characters makes
  the proposal fail, though the fallback promises a useful plan. A manifest near
  the limit of 64 KiB may exceed it once it is indented, at inspection.
- A notification's cooldown is compared with a monotonic clock that starts at 0,
  so the first one after a boot may be suppressed.

Voice

- A wake word during `run_local_device_command(open_workshop)` clears
  `pending_workshop_requirement` before line 2690 of
  `daily_voice_assistant.py` sets it.
- `ARCHITECTURE.zh-CN.md:103` promises that thoughts and follow-up marks do not
  reach the speaker. A token whose first piece ("[", "<th") arrives when the hard
  limit of a clause is reached is spoken, the rest of it too, and a thought with
  all it contains; so is a `<think>` that is not closed before the end or before a
  round of tools (`daily_voice_assistant.py:955` to 1018). The model has these
  cases, and `SpokenAsWritten` names them as the only ones (`Escapes`; without any
  of its disjuncts TLC finds the answer that is spoken wrongly). Letters of mixed
  case, "<Think", are not held back either, which is not modelled. Text after a "[[" in the middle of an answer is never spoken.
- An exception in the speech worker after the first sound leaves the player
  open while `finish` returns audible (`ARCHITECTURE.zh-CN.md:95`). The
  transcription thread of a superseded turn may publish its caption after the
  new turn's.

Screen

- An application outlives its page: the display's `close_workshop` (line 6579)
  does not stop it (`MAINTENANCE.zh-CN.md:123`). The dial can be dragged while it
  is locked (line 114 there). `camera_pointer_target` may be stale when a camera
  view is opened under a finger (12355 to 12380). Music that a voice command
  opens over the settings returns to the settings.
- Music: VLC that dies while paused leaves "paused"; a rescan that removes the
  playing file shows another track; an empty library found while playing and
  then "play" says "empty" with VLC sounding; a library of one track never
  repeats.
- Provisioning: a posted configuration that fails on a network that works leaves
  the status active for good (display 11823 and 13380,
  `ARCHITECTURE.zh-CN.md:157`); after a failed connection the hotspot is gone
  but the mode still says so; a hotspot that could not be started is not tried
  again until the network returns; Wi-Fi switched off on the settings page
  brings up a setup screen after 60 seconds that blocks touches; a service that
  dies leaves its hotspot up. `NetworkBackend.run` reports a command it gives up
  on as failed (`provisioning_service.py:139`): a hotspot that comes up after the
  20 seconds is not remembered and never taken down, and `stop_hotspot` (line
  209) looks at neither of its commands, whose failure leaves a hotspot up that
  the callers forget. All of this contradicts line 157 of the document, by which
  the hotspot ends when the network returns; the model has these hotspots as
  "left", and `HotspotEnds` speaks of the others.
- `boot_handoff.py` does not look at SIGTERM while it waits for Wayland, and a
  renderer that is healthy already counts only if its state file was written
  within the last two seconds.

Services

- Microphone daemon: a command registered when the connection is lost and
  written on the next one is told "disconnected" though the device obeys; one
  that was answered but not yet woken may be told the same. A buffer without a
  pair of synchronisation bytes is cleared even if it ends in the first of
  them, and a corrupted length may swallow the messages after it. SIGTERM skips
  the `finally` that writes "stopped".
- Health monitor: a failure in the cache is counted again in every cycle
  (`ARCHITECTURE.zh-CN.md:151`); a restart forgets which alerts were shown.
- Paper radar: an edit of a special focus (`special_focus.py:201`, "edit a
  pending prompt without changing its target date or identity") is accepted
  while a run carries the older copy; the page then shows the older wording and
  `mark_consumed` uses the edited request up, so no page ever shows the edit.
  `FocusIsPublished` says what holds: such a request's page shows it in some
  wording, every other one's in the last. A special focus cancelled between
  collection and rendering, and one with an older target consumed by a degraded
  run, disappears from a later catch-up of that day. A 429 whose receiver dies
  before it is saved is lost.
- Recovery: SIGTERM in the middle of a recovery leaves "running" until the next
  start.

## 7. Limits, and what is not modelled

Abstracted everywhere: wording, formatting and logging; the contents of prompts,
plans, images and reports; clock values (an expiry may happen at any moment, a
deadline is an action); authentication of requests. SQLite transactions and JSON
files rewritten by `os.replace` under a lock are taken to be atomic and durable.

What single models assume beyond that:

- `ChatQueue`: a message carries at most one of its up to four files.
- `Accounts`: passwords are right or wrong; the check of the old password and
  the write of the new one are one step; the lockout is left out.
- `VideoCall`: aiortc's task for "closed" runs before or after the end of the
  close that caused it.
- `WorkshopApp`, `WorkshopPackage`: a node has the argument the checks turn on;
  a package is damaged only before its inspection; digests have no collisions
  and signatures are perfect; foreground and user presence are constants of the
  host.
- `ExpressionEvents`: snapshot writes succeed, the clock does not go back, the
  display does not restart and handles a datagram within 30 seconds.
- `ExpressionDisplay`: the status bar may be visible at any time; an alert lasts
  longer than a panel stays idle and the saver waits longer than an alert;
  taking a photo changes nothing else.
- `VoiceAssistant`: a recording lasts at least half a second and the watcher's
  steps take less. `Listening`: a block arrives when it is heard.
  `SpeechText`: a tag begins a round and a mark ends one, as the prompt demands;
  a token arrives in two pieces at most, since the second makes it recognisable,
  and the end of a thought in one, since its beginning holds the text back.
- `ArxivAccess`: a request leaves in the unit of time its start is saved in.
  `PaperRadar`: Hermes runs the job once at a time, the agent ends if the
  collection failed, previews made by hand are left out.
- `Recovery`: one controller. `HealthMonitor`: one run.
- `MicrophoneDaemon`: a message arrives whole or is dropped; numbers do not wrap
  around within the three seconds a command waits.

Not modelled of the components above: broker methods for storage, tasks,
reports and notifications, which touch nothing shared; audit log and status
files; `workshopctl`, which installs by hand under the same lock; animation,
drawing and the boot and setup screens' layout; weather, flights and the other
answers the voice assistant looks up itself.

Not modelled at all, with the reasons in `PROJECT.json`:

- HTTP routes other than those of the queues, accounts and the call, report
  browsing, the paper website: they read files and rows that others write.
- Image generation and the face inference pipeline: external calls under a
  timeout, and a GStreamer process of which only the hold on the device matters.
- The release manager: a script of one process. It writes version, UI version
  and manifest one after the other, and its own `verify` reports a seal that
  died between them.
- Clients: any request at any time and in any order.
- Configuration and deployment: units and scripts; the restart policies are the
  ground of section 4.

What would be worth adding next: the rest of the type invariant of
`VoiceAssistant` as a theorem (the tables of `HealthMonitor` are merges of pairs,
which the provers do not interpret), and a model of the release manager if its
verification is ever run beside an update.
