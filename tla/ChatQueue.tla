------------------------------ MODULE ChatQueue ------------------------------
(***************************************************************************)
(* The Chat queue: chat_store.py (SQLite), the HTTP handlers that post,     *)
(* stop and delete from several threads of the server (asyncio.to_thread),  *)
(* the attachment files of attachment_store.py, and the single worker       *)
(* process of chat_worker.py that answers one message at a time.            *)
(*                                                                          *)
(* A turn is one user message with the assistant message that answers it.   *)
(* Unlike the task store, most operations read outside the transaction they *)
(* write in: such an operation is two actions, one per SQL step, and the    *)
(* worker is interleaved between any two of its store calls.                *)
(***************************************************************************)
EXTENDS Naturals, FiniteSets

CONSTANTS Conversation, \* conversation ids (uuid4, never reused)
          User,         \* accounts
          OwnerOf,      \* [Conversation -> User], owner_user_id
          Upload,       \* files clients upload, one per posted message at most
          Image,        \* files the worker produces
          Request,      \* HTTP requests in progress at the same time
          Kind,         \* what a message asks for, a subset of Kinds
          NoConversation, NoFile, Fresh, Gone,
          MaxTurns,     \* bound: turns that get as far as an id
          MaxCrashes,   \* bound: crashes of the worker, of the server, of a client
          MaxStops      \* bound: SIGTERMs to the worker

(* text, paper: answered by the agent; image: by the image API; drawn: the  *)
(* agent answers and may name an image file it made.                        *)
Kinds == {"text", "paper", "image", "drawn"}
File  == Upload \cup Image
Turn  == 1..MaxTurns
NoTurn == 0

ASSUME ChatConstants ==
  /\ OwnerOf \in [Conversation -> User]
  /\ Upload \cap Image = {}
  /\ NoFile \notin File /\ NoConversation \notin Conversation
  /\ Fresh \notin Conversation /\ Gone \notin Conversation /\ Fresh # Gone
  /\ Kind \subseteq Kinds /\ Kind # {}
  /\ MaxTurns \in Nat /\ MaxCrashes \in Nat /\ MaxStops \in Nat

VARIABLES
  convs,     \* chat_conversations: new, live or deleted
  turns,     \* number of turns that got an id and a timestamp
  conv, kind, state, stop, content, stamp,  \* chat_messages
  row,       \* chat_attachments: the turn a file is recorded with
  disk,      \* the directory a file is in, Fresh before and Gone after
  req,       \* the HTTP requests
  pc, cur, image, stopping,  \* the worker: label, turn, file in hand, SIGTERM seen
  runs, source,              \* history: claims, question read
  crashes, stops

messages == <<turns, conv, kind, state, stop, content, stamp>>
worker   == <<pc, cur, image, stopping>>
history  == <<runs, source>>
faults   == <<crashes, stops>>
vars == <<convs, messages, row, disk, req, worker, history, faults>>

Active   == {"queued", "running"}
Finished == {"completed", "failed", "cancelled"}
Present  == Active \cup Finished
State    == Present \cup {"absent", "deleted"}

Busy == {"look", "draw", "drawing", "enrich", "enriching", "agent", "waiting",
         "save", "attach", "ditch", "finish", "cancel", "fail"}
Pc   == Busy \cup {"down", "recover", "poll", "claim"}
ReqPc == {"idle", "upload", "check", "insert", "discard", "delete", "rmtree", "flag"}

Idle == [pc |-> "idle", conv |-> NoConversation, turn |-> NoTurn, files |-> {}]

StoreTyped ==
  /\ convs \in [Conversation -> {"new", "live", "deleted"}]
  /\ turns \in 0..MaxTurns
  /\ conv \in [Turn -> Conversation \cup {NoConversation}]
  /\ kind \in [Turn -> Kinds]
  /\ state \in [Turn -> State]
  /\ stop \in [Turn -> BOOLEAN]
  /\ content \in [Turn -> {"blank", "partial", "final"}]
  /\ stamp \in [Turn -> Nat]

FilesTyped ==
  /\ row \in [File -> Turn \cup {NoTurn}]
  /\ disk \in [File -> Conversation \cup {Fresh, Gone}]

(* A request that is past its first read knows its conversation or its turn. *)
RequestsTyped ==
  /\ req \in [Request -> [pc : ReqPc, conv : Conversation \cup {NoConversation},
                          turn : Turn \cup {NoTurn}, files : SUBSET File]]
  /\ \A r \in Request :
       /\ req[r].pc \in {"upload", "check", "insert", "delete", "rmtree"} =>
            req[r].conv \in Conversation
       /\ req[r].pc \in {"insert", "flag"} => req[r].turn \in Turn

WorkerTyped ==
  /\ pc \in Pc /\ cur \in Turn \cup {NoTurn} /\ image \in Image \cup {NoFile}
  /\ pc \in Busy <=> cur # NoTurn
  /\ pc \in {"attach", "ditch"} <=> image # NoFile
  /\ stopping \in BOOLEAN

HistoryTyped ==
  /\ runs \in [Turn -> Nat]
  /\ source \in [Turn -> Turn \cup {NoTurn}]
  /\ crashes \in Nat /\ stops \in Nat

ChatTypeOK ==
  StoreTyped /\ FilesTyped /\ RequestsTyped /\ WorkerTyped /\ HistoryTyped

Init ==
  /\ convs = [c \in Conversation |-> "new"]
  /\ turns = 0
  /\ conv = [t \in Turn |-> NoConversation]
  /\ kind = [t \in Turn |-> "text"]
  /\ state = [t \in Turn |-> "absent"]
  /\ stop = [t \in Turn |-> FALSE]
  /\ content = [t \in Turn |-> "blank"]
  /\ stamp = [t \in Turn |-> 0]
  /\ row = [f \in File |-> NoTurn]
  /\ disk = [f \in File |-> Fresh]
  /\ req = [r \in Request |-> Idle]
  /\ pc = "down" /\ cur = NoTurn /\ image = NoFile /\ stopping = FALSE
  /\ runs = [t \in Turn |-> 0]
  /\ source = [t \in Turn |-> NoTurn]
  /\ crashes = 0 /\ stops = 0

------------------------------------------------------------------------------
(* Posting a message: POST /api/v1/chats/{id}/messages.                      *)

ActiveIn(c) == {t \in Turn : conv[t] = c /\ state[t] \in Active}
InConv(c)   == {t \in Turn : conv[t] = c /\ state[t] \in Present}

Leave(r) == req' = [req EXCEPT ![r] = Idle]
Move(r, label) == req' = [req EXCEPT ![r].pc = label]

CreateConversation(c) ==
  /\ convs[c] = "new"
  /\ convs' = [convs EXCEPT ![c] = "live"]
  /\ UNCHANGED <<messages, row, disk, req, worker, history, faults>>

(* get_conversation finds the conversation; then the body is read.           *)
OpenPost(r, c) ==
  /\ req[r] = Idle
  /\ convs[c] = "live"
  /\ \E label \in {"upload", "check"} :
       req' = [req EXCEPT ![r] = [Idle EXCEPT !.pc = label, !.conv = c]]
  /\ UNCHANGED <<convs, messages, row, disk, worker, history, faults>>

(* AttachmentStore.save creates the directory again if it is gone. A later   *)
(* part of the body may be refused (ValueError, 400).                        *)
SaveUpload(r) ==
  /\ req[r].pc = "upload"
  /\ \E f \in Upload, label \in {"check", "discard"} :
       /\ disk[f] = Fresh
       /\ disk' = [disk EXCEPT ![f] = req[r].conv]
       /\ req' = [req EXCEPT ![r] = [@ EXCEPT !.pc = label, !.files = {f}]]
  /\ UNCHANGED <<convs, messages, row, worker, history, faults>>

(* The client disconnects in the middle of the body: the exception of the    *)
(* reader is not among those that delete the files saved so far.             *)
Abort(r) ==
  /\ req[r].pc \in {"upload", "check"}
  /\ crashes < MaxCrashes
  /\ crashes' = crashes + 1
  /\ Leave(r)
  /\ UNCHANGED <<convs, messages, row, disk, worker, history, stops>>

(* The two SELECTs of create_turn, before its transaction begins.            *)
MayPost(c) == convs[c] = "live" /\ ActiveIn(c) = {}

(* An assistant message is stamped 0.0001 s after its question; the next     *)
(* request is stamped within that gap or after it.                           *)
Gap == 2
LastStamp == IF turns = 0 THEN 0 ELSE stamp[turns]

CheckPost(r) ==
  LET t == turns + 1 IN
  /\ req[r].pc = "check"
  /\ MayPost(req[r].conv)
  /\ t \in Turn
  /\ turns' = t
  /\ \E step \in {1, Gap} : stamp' = [stamp EXCEPT ![t] = LastStamp + step]
  /\ conv' = [conv EXCEPT ![t] = req[r].conv]
  /\ \E k \in Kind : kind' = [kind EXCEPT ![t] = k]
  /\ req' = [req EXCEPT ![r] = [@ EXCEPT !.pc = "insert", !.turn = t]]
  /\ UNCHANGED <<convs, state, stop, content, row, disk, worker, history, faults>>

(* KeyError (404) or RuntimeError (409): the saved files are deleted again.  *)
RefusePost(r) ==
  /\ req[r].pc = "check"
  /\ ~MayPost(req[r].conv)
  /\ Move(r, "discard")
  /\ UNCHANGED <<convs, messages, row, disk, worker, history, faults>>

(* The transaction of create_turn. A conversation deleted since the SELECT   *)
(* fails the foreign key: IntegrityError, which no handler expects (500).    *)
InsertTurn(r) ==
  LET t == req[r].turn IN
  /\ req[r].pc = "insert"
  /\ IF convs[req[r].conv] = "live"
     THEN /\ state' = [state EXCEPT ![t] = "queued"]
          /\ row' = [f \in File |-> IF f \in req[r].files THEN t ELSE row[f]]
     ELSE UNCHANGED <<state, row>>
  /\ Leave(r)
  /\ UNCHANGED <<convs, turns, conv, kind, stop, content, stamp, disk,
                 worker, history, faults>>

(* AttachmentStore.delete_records *)
Discard(r) ==
  /\ req[r].pc = "discard"
  /\ disk' = [f \in File |-> IF f \in req[r].files THEN Gone ELSE disk[f]]
  /\ Leave(r)
  /\ UNCHANGED <<convs, messages, row, worker, history, faults>>

------------------------------------------------------------------------------
(* Deleting a conversation, clearing a user's cache, stopping a response.    *)

MayDelete(c) == convs[c] = "live" /\ ActiveIn(c) = {}

(* Mutant: the files are removed before the rows.                            *)
ListForDeleteRemoving(r, c) ==
  /\ req[r] = Idle /\ MayDelete(c)
  /\ disk' = [f \in File |-> IF disk[f] = c THEN Gone ELSE disk[f]]
  /\ req' = [req EXCEPT ![r] = [Idle EXCEPT !.pc = "delete", !.conv = c]]
  /\ UNCHANGED <<convs, messages, row, worker, history, faults>>

(* list_messages shows no active response.                                   *)
ListForDelete(r, c) ==
  /\ req[r] = Idle /\ MayDelete(c)
  /\ req' = [req EXCEPT ![r] = [Idle EXCEPT !.pc = "delete", !.conv = c]]
  /\ UNCHANGED <<convs, messages, row, disk, worker, history, faults>>

(* DELETE cascades to the messages and the attachment records. The worker    *)
(* may still hold the turn: its conversation id and kind are not forgotten.  *)
Drop(C) ==
  LET dropped == UNION {InConv(c) : c \in C} IN
  /\ convs' = [c \in Conversation |-> IF c \in C THEN "deleted" ELSE convs[c]]
  /\ state' = [t \in Turn |-> IF t \in dropped THEN "deleted" ELSE state[t]]
  /\ stop' = [t \in Turn |-> stop[t] /\ t \notin dropped]
  /\ content' = [t \in Turn |-> IF t \in dropped THEN "blank" ELSE content[t]]
  /\ row' = [f \in File |-> IF row[f] \in dropped THEN NoTurn ELSE row[f]]
  /\ UNCHANGED <<turns, conv, kind, stamp>>

DeleteRows(r) ==
  /\ req[r].pc = "delete"
  /\ IF convs[req[r].conv] = "live"
     THEN Drop({req[r].conv}) /\ Move(r, "rmtree")
     ELSE Leave(r) /\ UNCHANGED <<convs, messages, row>>
  /\ UNCHANGED <<disk, worker, history, faults>>

RemoveTree(r) ==
  /\ req[r].pc = "rmtree"
  /\ disk' = [f \in File |-> IF disk[f] = req[r].conv THEN Gone ELSE disk[f]]
  /\ Leave(r)
  /\ UNCHANGED <<convs, messages, row, worker, history, faults>>

OwnedBy(u) == {c \in Conversation : OwnerOf[c] = u /\ convs[c] = "live"}

(* delete_owner_cache: one BEGIN IMMEDIATE transaction, then delete_records. *)
ClearCache(r, u) ==
  /\ req[r] = Idle
  /\ OwnedBy(u) # {}
  /\ \A c \in OwnedBy(u) : ActiveIn(c) = {}
  /\ Drop(OwnedBy(u))
  /\ req' = [req EXCEPT ![r] = [Idle EXCEPT !.pc = "discard",
               !.files = {f \in File : \E c \in OwnedBy(u) : row[f] \in InConv(c)}]]
  /\ UNCHANGED <<disk, worker, history, faults>>

(* request_cancel: the SELECT ...                                            *)
ReadForStop(r, t) ==
  /\ req[r] = Idle
  /\ state[t] \in Active
  /\ req' = [req EXCEPT ![r] = [Idle EXCEPT !.pc = "flag", !.turn = t]]
  /\ UNCHANGED <<convs, messages, row, disk, worker, history, faults>>

(* ... and the UPDATE, whatever the state has become. It touches no row if   *)
(* the conversation is gone.                                                 *)
FlagStop(r) ==
  LET t == req[r].turn IN
  /\ req[r].pc = "flag"
  /\ stop' = [stop EXCEPT ![t] = @ \/ state[t] \in Present]
  /\ Leave(r)
  /\ UNCHANGED <<convs, turns, conv, kind, state, content, stamp, row, disk,
                 worker, runs, source, faults>>

RequestStep(r) ==
  \/ SaveUpload(r) \/ CheckPost(r) \/ RefusePost(r) \/ InsertTurn(r)
  \/ Discard(r) \/ DeleteRows(r) \/ RemoveTree(r) \/ FlagStop(r)

NewRequest(r) ==
  \/ \E c \in Conversation : OpenPost(r, c) \/ ListForDelete(r, c)
  \/ \E u \in User : ClearCache(r, u)
  \/ \E t \in Turn : ReadForStop(r, t)

------------------------------------------------------------------------------
(* The worker: serve().                                                      *)

Goto(label) == pc' = label /\ UNCHANGED <<cur, stopping>>

StartWorker ==
  /\ pc = "down"
  /\ Goto("recover")
  /\ UNCHANGED <<convs, messages, row, disk, req, image, history, faults>>

Interrupted == {t \in Turn : state[t] = "running"}

(* Mutants: recovery skips the rows, or keeps the partial text of the reply. *)
NothingRecovered == UNCHANGED <<state, stop, content>>
(* recover_interrupted: one UPDATE, which also clears the stop flag.         *)
Recovered ==
  /\ state'   = [t \in Turn |-> IF t \in Interrupted THEN "queued" ELSE state[t]]
  /\ content' = [t \in Turn |-> IF t \in Interrupted THEN "blank" ELSE content[t]]
  /\ stop'    = [t \in Turn |-> stop[t] /\ t \notin Interrupted]

Recover ==
  /\ pc = "recover"
  /\ Recovered
  /\ Goto("poll")
  /\ UNCHANGED <<convs, turns, conv, kind, stamp, row, disk, req, image, history, faults>>

CheckRunning ==
  /\ pc = "poll" /\ ~stopping
  /\ Goto("claim")
  /\ UNCHANGED <<convs, messages, row, disk, req, image, history, faults>>

ClaimableUnstopped(t) == state[t] = "queued" /\ ~stop[t]

Claimable(t) == state[t] = "queued"

ClaimNothing ==
  /\ pc = "claim" /\ \A t \in Turn : ~Claimable(t)
  /\ Goto("poll")
  /\ UNCHANGED <<convs, messages, row, disk, req, image, history, faults>>

ClaimNext(t) ==
  /\ pc = "claim"
  /\ Claimable(t)
  /\ \A s \in Turn : Claimable(s) => stamp[t] <= stamp[s]
  /\ state' = [state EXCEPT ![t] = "running"]
  /\ runs' = [runs EXCEPT ![t] = @ + 1]
  /\ pc' = "look" /\ cur' = t
  /\ UNCHANGED <<convs, turns, conv, kind, stop, content, stamp, row, disk, req,
                 image, stopping, source, faults>>

ExitLoop ==
  /\ pc = "poll" /\ stopping
  /\ pc' = "down" /\ stopping' = FALSE
  /\ UNCHANGED <<convs, messages, row, disk, req, cur, image, history, faults>>

------------------------------------------------------------------------------
(* The worker: run_turn(). A write to a row that is gone has no effect.      *)

Exists == state[cur] \in Present

(* Mutant: the oldest question of the conversation is answered.              *)
FirstQuestion(t) ==
  {q \in InConv(conv[t]) : \A p \in InConv(conv[t]) : stamp[q] <= stamp[p]}

(* preceding_user_message: the newest question older than the reply; none if *)
(* the conversation is gone, and with it every question.                     *)
Preceding(t) ==
  LET older == {q \in InConv(conv[t]) : stamp[q] < stamp[t] + Gap}
  IN  {q \in older : \A p \in older : stamp[p] <= stamp[q]}

(* Where run_turn goes with the question in hand; a paper needs its cache    *)
(* entry, an uploaded image its file, else the reply fails.                  *)
Route == [text  |-> {"agent", "fail"}, paper |-> {"enrich", "agent", "fail"},
          image |-> {"draw"},          drawn |-> {"agent", "fail"}]

Announced == {"draw", "enrich"}

(* Includes the replace_content that announces image or paper work.          *)
Look ==
  /\ pc = "look"
  /\ \/ \E q \in Preceding(cur), label \in Route[kind[cur]] :
          /\ Goto(label)
          /\ source' = [source EXCEPT ![cur] = q]
          /\ content' = [content EXCEPT ![cur] = IF label \in Announced THEN "partial" ELSE @]
     \/ /\ Preceding(cur) = {}
        /\ Goto("fail")
        /\ UNCHANGED <<source, content>>
  /\ UNCHANGED <<convs, turns, conv, kind, state, stop, stamp, row, disk, req,
                 image, runs, faults>>

Check(from, wanted, onward) ==
  /\ pc = from
  /\ Goto(IF wanted THEN "cancel" ELSE onward)
  /\ UNCHANGED <<convs, messages, row, disk, req, image, history, faults>>

Await(from, outcomes) ==
  /\ pc = from
  /\ \E label \in outcomes : Goto(label)
  /\ UNCHANGED <<convs, messages, row, disk, req, image, history, faults>>

(* is_cancel_requested *)
StopSeen == Exists /\ stop[cur]

(* Image generation looks at the flag every 0.3 s and never at `running`.    *)
CheckDrawing == Check("draw", StopSeen, "drawing")
AwaitDrawing == Await("drawing", {"draw", "save", "fail"})

(* Paper enrichment: a stopping worker walks away from the running reply.    *)
LeaveEnrichment ==
  /\ pc = "enrich" /\ stopping
  /\ pc' = "poll" /\ cur' = NoTurn
  /\ UNCHANGED <<convs, messages, row, disk, req, image, stopping, history, faults>>
CheckEnrichment == ~stopping /\ Check("enrich", StopSeen, "enriching")
AwaitEnrichment == Await("enriching", {"enrich", "agent"})

GivesUp == stopping \/ StopSeen

(* SocketAgentRuntime.run_async: should_cancel before every read.            *)
CheckAgent  == Check("agent", GivesUp, "waiting")
AgentFails  == Await("agent", {"fail"})

(* Nothing within 0.3 s, an error, or the final event.                       *)
ReadEvent ==
  Await("waiting", {"agent", "fail", "finish"} \cup (IF kind[cur] = "drawn" THEN {"save"} ELSE {}))

Snapshot ==
  /\ pc = "waiting"
  /\ content' = [content EXCEPT ![cur] = IF Exists THEN "partial" ELSE @]
  /\ Goto("agent")
  /\ UNCHANGED <<convs, turns, conv, kind, state, stop, stamp, row, disk, req,
                 image, history, faults>>

SaveImage ==
  /\ pc = "save"
  /\ \E f \in Image :
       /\ disk[f] = Fresh
       /\ disk' = [disk EXCEPT ![f] = conv[cur]]
       /\ image' = f
  /\ Goto("attach")
  /\ UNCHANGED <<convs, messages, row, req, history, faults>>

(* AttachmentStore.save raises (disk full, an image it does not accept).     *)
SaveFails ==
  /\ pc = "save"
  /\ Goto(IF kind[cur] = "image" THEN "fail" ELSE "finish")
  /\ UNCHANGED <<convs, messages, row, disk, req, image, history, faults>>

(* add_attachment_to_message *)
Attach ==
  /\ pc = "attach"
  /\ IF Exists
     THEN /\ row' = [row EXCEPT ![image] = cur]
          /\ image' = NoFile
          /\ Goto("finish")
     ELSE Goto("ditch") /\ UNCHANGED <<row, image>>
  /\ UNCHANGED <<convs, messages, disk, req, history, faults>>

(* The record could not be written: delete the file. Only an image reply     *)
(* fails over it, import_generated_images goes on.                           *)
Ditch ==
  /\ pc = "ditch"
  /\ disk' = [disk EXCEPT ![image] = Gone]
  /\ image' = NoFile
  /\ Goto(IF kind[cur] = "image" THEN "fail" ELSE "finish")
  /\ UNCHANGED <<convs, messages, row, req, history, faults>>

(* _finish: by id only, whatever the state of the row.                       *)
Settle(label, s, text) ==
  /\ pc = label
  /\ IF Exists
     THEN /\ state' = [state EXCEPT ![cur] = s]
          /\ content' = [content EXCEPT ![cur] = text]
          /\ stop' = [stop EXCEPT ![cur] = FALSE]
     ELSE UNCHANGED <<state, content, stop>>
  /\ pc' = "poll" /\ cur' = NoTurn
  /\ UNCHANGED <<convs, turns, conv, kind, stamp, row, disk, req, image,
                 stopping, history, faults>>

Finish        == Settle("finish", "completed", "final")
MarkCancelled == Settle("cancel", "cancelled", "blank")
Fail          == Settle("fail", "failed", "blank")

WorkerStep ==
  \/ StartWorker \/ Recover \/ CheckRunning \/ ClaimNothing \/ ExitLoop
  \/ \E t \in Turn : ClaimNext(t)
  \/ Look \/ CheckDrawing \/ AwaitDrawing
  \/ LeaveEnrichment \/ CheckEnrichment \/ AwaitEnrichment
  \/ CheckAgent \/ AgentFails \/ ReadEvent \/ Snapshot
  \/ SaveImage \/ SaveFails \/ Attach \/ Ditch
  \/ Finish \/ MarkCancelled \/ Fail

------------------------------------------------------------------------------
(* Faults.                                                                   *)

Sigterm ==
  /\ pc # "down" /\ ~stopping
  /\ stops < MaxStops
  /\ stops' = stops + 1
  /\ stopping' = TRUE
  /\ UNCHANGED <<convs, messages, row, disk, req, pc, cur, image, history, crashes>>

(* SIGKILL (also 12 s after a SIGTERM), power loss, or an exception that     *)
(* escapes serve().                                                          *)
WorkerCrash ==
  /\ pc # "down"
  /\ crashes < MaxCrashes
  /\ crashes' = crashes + 1
  /\ pc' = "down" /\ cur' = NoTurn /\ image' = NoFile /\ stopping' = FALSE
  /\ UNCHANGED <<convs, messages, row, disk, req, history, stops>>

ServerCrash ==
  /\ \E r \in Request : req[r] # Idle
  /\ crashes < MaxCrashes
  /\ crashes' = crashes + 1
  /\ req' = [r \in Request |-> Idle]
  /\ UNCHANGED <<convs, messages, row, disk, worker, history, stops>>

Next ==
  \/ \E c \in Conversation : CreateConversation(c)
  \/ \E r \in Request : NewRequest(r) \/ RequestStep(r)
  \/ WorkerStep
  \/ Sigterm \/ WorkerCrash \/ ServerCrash
  \/ \E r \in Request : Abort(r)

(* Every wait of the worker ends in something else than another look.        *)
WaitEnds ==
  \/ AwaitDrawing /\ pc' # "draw"
  \/ AwaitEnrichment /\ pc' # "enrich"
  \/ ReadEvent /\ pc' # "agent"

(* The worker runs until it is killed, and systemd (or the operator who      *)
(* stopped it) starts it again; the agent, the enricher and the image API    *)
(* are under timeouts, hence the strong fairness. Clients promise nothing.   *)
Fairness == WF_vars(WorkerStep) /\ SF_vars(WaitEnds)

Spec     == Init /\ [][Next]_vars
FairSpec == Spec /\ Fairness

------------------------------------------------------------------------------
(* Properties.                                                               *)

(* While the worker is past its recovery, the only reply in state running is *)
(* the one it works on -- however it was started, killed or stopped before.  *)
(* A worker that is leaving may abandon one for the next start to recover.   *)
WorkerOwnsRunning ==
  \A t \in Turn : state[t] = "running" =>
    \/ t = cur
    \/ pc \in {"down", "recover"}
    \/ pc = "poll" /\ stopping

(* Every attachment record the API serves has its file in the directory of   *)
(* its conversation, against every order of upload, refusal, worker import,  *)
(* deletion, cache clearing and crash: rows go before files, and come after. *)
RecordsHaveFiles ==
  \A f \in File : row[f] # NoTurn => disk[f] = conv[row[f]]

(* A reply that ended stays as it ended until it is deleted: no late write   *)
(* of the worker, no recovery and no stop request reopens or rewrites it.    *)
FinishedStays ==
  [][\A t \in Turn : state[t] \in Finished =>
       \/ state'[t] = state[t] /\ content'[t] = content[t]
       \/ state'[t] = "deleted"]_vars

(* At most one reply of a conversation is queued or running.                 *)
OneActiveReply ==
  \A s, t \in Turn :
    state[s] \in Active /\ state[t] \in Active /\ conv[s] = conv[t] => s = t

(* The question the worker reads for a reply is the one posted with it.      *)
AnswersOwnQuestion == \A t \in Turn : source[t] \in {NoTurn, t}

(* Every reply that was accepted ends, or goes with its conversation.        *)
EveryReplyEnds ==
  \A t \in Turn : state[t] = "queued" ~> state[t] \in Finished \cup {"deleted"}
==============================================================================
