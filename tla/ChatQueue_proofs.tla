--------------------------- MODULE ChatQueue_proofs ---------------------------
(***************************************************************************)
(* Proofs about ChatQueue for any conversations, files, requests and        *)
(* bounds: types, ownership of running replies, finality of finished ones,  *)
(* that attachment records never outlive their files, and that a reply      *)
(* answers its own question unless posts overlap.                           *)
(*                                                                          *)
(* RecordsHaveFiles is not inductive: it rests on who may still write to or *)
(* delete a file (FilesOfRequests, FileInHand: a file belongs to at most    *)
(* one request or to the worker, and has no record then) and on which rows  *)
(* a request with an old view of the store can still reach (Inserting,      *)
(* Removing).                                                               *)
(***************************************************************************)
EXTENDS ChatQueue, TLAPS

Numbered == \A t \in Turn : t > turns => state[t] = "absent"
Housed   == \A t \in Turn :
              /\ state[t] # "absent" => conv[t] \in Conversation
              /\ state[t] \in Present => convs[conv[t]] = "live"
Held     == cur # NoTurn => state[cur] \in {"running", "deleted"}

(* A turn that got its id but not its rows yet.                             *)
Inserting ==
  \A r \in Request : req[r].pc = "insert" =>
    /\ state[req[r].turn] = "absent"
    /\ conv[req[r].turn] = req[r].conv
    /\ req[r].turn <= turns
    /\ \A q \in Request : q # r /\ req[q].pc = "insert" => req[q].turn # req[r].turn

Removing ==
  \A r \in Request : req[r].pc = "rmtree" => convs[req[r].conv] = "deleted"

(* A file with a record belongs to a turn that exists.                      *)
Recorded ==
  \A f \in File : row[f] # NoTurn =>
    state[row[f]] \in Present /\ disk[f] = conv[row[f]]

Uploading == {"check", "insert"}

FilesOfRequests ==
  \A r \in Request : \A f \in req[r].files :
    /\ row[f] = NoTurn /\ disk[f] # Fresh
    /\ req[r].pc \in Uploading \cup {"discard"}
    /\ req[r].pc \in Uploading => disk[f] = req[r].conv \/ convs[req[r].conv] = "deleted"
    /\ \A q \in Request : q # r => f \notin req[q].files

FileInHand ==
  image # NoFile =>
    /\ row[image] = NoTurn /\ disk[image] # Fresh
    /\ \A r \in Request : image \notin req[r].files
    /\ pc = "attach" => disk[image] = conv[cur] \/ state[cur] = "deleted"

Turns == Numbered /\ Housed /\ Held /\ WorkerOwnsRunning
Requests == Inserting /\ Removing
Files == Recorded /\ FilesOfRequests /\ FileInHand

IInv == ChatTypeOK /\ Turns /\ Requests /\ Files

(* What every proof below expands. *)
LEMMA Labels ==
  /\ \A k \in Kinds : Route[k] \subseteq {"agent", "enrich", "draw", "fail"}
  /\ Upload \subseteq File /\ Image \subseteq File
  /\ \A t \in Turn : t \in Nat /\ t # NoTurn
BY ChatConstants DEF Route, Kinds, File, Turn, NoTurn
------------------------------------------------------------------------------

(* The initial state satisfies every part of the invariant. *)
LEMMA InitIInv == Init => IInv
<1> SUFFICES ASSUME Init PROVE IInv
  OBVIOUS
<1>1. ChatTypeOK
  <2>1. StoreTyped
    BY ChatConstants DEF Init, StoreTyped, State, Present, Active, Finished, Kinds, Turn
  <2>2. FilesTyped
    BY DEF Init, FilesTyped
  <2>3. RequestsTyped
    BY DEF Init, RequestsTyped, Idle, ReqPc
  <2>4. WorkerTyped
    BY DEF Init, WorkerTyped, Pc, Busy
  <2>5. HistoryTyped
    BY DEF Init, HistoryTyped
  <2> QED
    BY <2>1, <2>2, <2>3, <2>4, <2>5 DEF ChatTypeOK
<1>2. Turns
  BY DEF Init, Turns, Numbered, Housed, Held, WorkerOwnsRunning, Present, Active, Finished
<1>3. Requests
  BY DEF Init, Requests, Inserting, Removing, Idle
<1>4. Files
  BY DEF Init, Files, Recorded, FilesOfRequests, FileInHand, Idle
<1> QED
  BY <1>1, <1>2, <1>3, <1>4 DEF IInv

------------------------------------------------------------------------------
(* Steps that leave the conversations and messages alone.                   *)
RequestsOnly ==
  \E r \in Request :
    \/ \E c \in Conversation : OpenPost(r, c) \/ ListForDelete(r, c)
    \/ \E t \in Turn : ReadForStop(r, t)
    \/ SaveUpload(r) \/ RefusePost(r) \/ Discard(r) \/ RemoveTree(r) \/ Abort(r)

WorkerOnly ==
  \/ StartWorker \/ CheckRunning \/ ClaimNothing \/ ExitLoop
  \/ CheckDrawing \/ AwaitDrawing
  \/ LeaveEnrichment \/ CheckEnrichment \/ AwaitEnrichment
  \/ CheckAgent \/ AgentFails \/ ReadEvent

FilesOnly == SaveImage \/ SaveFails \/ Attach \/ Ditch

Faults == Sigterm \/ WorkerCrash \/ ServerCrash

Quiet == RequestsOnly \/ WorkerOnly \/ FilesOnly \/ Faults

Settles == Finish \/ MarkCancelled \/ Fail

(* The next-state relation, regrouped by what its steps write.              *)
LEMMA Cases ==
  ASSUME [Next]_vars
  PROVE  \/ UNCHANGED vars \/ Quiet
         \/ \E c \in Conversation : CreateConversation(c)
         \/ \E r \in Request : \/ CheckPost(r) \/ InsertTurn(r) \/ DeleteRows(r)
                              \/ FlagStop(r) \/ \E u \in User : ClearCache(r, u)
         \/ Recover \/ Look \/ Snapshot \/ Settles
         \/ \E t \in Turn : ClaimNext(t)
BY DEF Next, NewRequest, RequestStep, WorkerStep, Quiet, RequestsOnly, WorkerOnly,
       FilesOnly, Faults, Settles

(* Quiet steps do not touch the store. *)
LEMMA QuietStore == ASSUME Quiet \/ UNCHANGED vars PROVE UNCHANGED <<convs, messages>>
<1>1. CASE RequestsOnly
  BY <1>1 DEF RequestsOnly, OpenPost, ListForDelete, ReadForStop, SaveUpload, RefusePost,
              Discard, RemoveTree, Abort
<1>2. CASE WorkerOnly
  BY <1>2 DEF WorkerOnly, StartWorker, CheckRunning, ClaimNothing, ExitLoop, CheckDrawing,
              AwaitDrawing, LeaveEnrichment, CheckEnrichment, AwaitEnrichment, CheckAgent,
              AgentFails, ReadEvent, Check, Await
<1>3. CASE FilesOnly
  BY <1>3 DEF FilesOnly, SaveImage, SaveFails, Attach, Ditch
<1>4. CASE Faults
  BY <1>4 DEF Faults, Sigterm, WorkerCrash, ServerCrash
<1>5. CASE UNCHANGED vars
  BY <1>5 DEF vars
<1> QED
  BY <1>1, <1>2, <1>3, <1>4, <1>5 DEF Quiet

(* The columns of the messages keep their types.                            *)
LEMMA NextStoreTyped == ASSUME ChatTypeOK, [Next]_vars PROVE StoreTyped'
<1> USE ChatConstants, Labels DEF ChatTypeOK, StoreTyped, State, Present, Active, Finished
<1>1. CASE Quiet \/ UNCHANGED vars
  BY <1>1, QuietStore DEF messages
<1>2. ASSUME NEW c \in Conversation, CreateConversation(c) PROVE StoreTyped'
  BY <1>2 DEF CreateConversation, messages
<1>3. ASSUME NEW r \in Request, CheckPost(r) PROVE StoreTyped'
  <2>1. turns' \in 0..MaxTurns /\ turns + 1 \in Turn /\ LastStamp \in Nat
    BY <1>3 DEF CheckPost, Turn, LastStamp
  <2>2. stamp' \in [Turn -> Nat]
    BY <1>3, <2>1 DEF CheckPost, Gap
  <2>3. conv' \in [Turn -> Conversation \cup {NoConversation}] /\ kind' \in [Turn -> Kinds]
    BY <1>3, <2>1 DEF CheckPost, RequestsTyped
  <2> QED
    BY <1>3, <2>1, <2>2, <2>3 DEF CheckPost
<1>4. ASSUME NEW r \in Request, InsertTurn(r) PROVE StoreTyped'
  BY <1>4 DEF InsertTurn, RequestsTyped
<1>5. ASSUME NEW C, Drop(C) PROVE StoreTyped'
  BY <1>5 DEF Drop
<1>6. ASSUME NEW r \in Request, DeleteRows(r) PROVE StoreTyped'
  BY <1>5, <1>6 DEF DeleteRows, messages
<1>7. ASSUME NEW r \in Request, NEW u \in User, ClearCache(r, u) PROVE StoreTyped'
  BY <1>5, <1>7 DEF ClearCache
<1>8. ASSUME NEW r \in Request, FlagStop(r) PROVE StoreTyped'
  BY <1>8 DEF FlagStop, RequestsTyped
<1>9. CASE Recover
  BY <1>9 DEF Recover, Recovered
<1>10. ASSUME NEW t \in Turn, ClaimNext(t) PROVE StoreTyped'
  BY <1>10 DEF ClaimNext
<1>11. CASE Look
  BY <1>11 DEF Look, WorkerTyped, Busy
<1>12. CASE Snapshot
  BY <1>12 DEF Snapshot, WorkerTyped, Busy
<1>13. CASE Settles
  <2>1. cur \in Turn
    BY <1>13 DEF Settles, Finish, MarkCancelled, Fail, Settle, WorkerTyped, Busy
  <2>2. PICK label \in Busy, s \in Finished, text \in {"blank", "final"} : Settle(label, s, text)
    BY <1>13 DEF Settles, Finish, MarkCancelled, Fail, Busy
  <2>3. UNCHANGED <<convs, turns, conv, kind, stamp>>
    BY <2>2 DEF Settle
  <2>4. state' \in [Turn -> State]
    BY <2>1, <2>2 DEF Settle
  <2>5. content' \in [Turn -> {"blank", "partial", "final"}] /\ stop' \in [Turn -> BOOLEAN]
    BY <2>1, <2>2 DEF Settle
  <2> QED
    BY <2>3, <2>4, <2>5
<1> QED
  BY <1>1, <1>2, <1>3, <1>4, <1>6, <1>7, <1>8, <1>9, <1>10, <1>11, <1>12, <1>13, Cases

(* Files stay in directories of conversations, records with turns.          *)
LEMMA NextFilesTyped ==
  ASSUME ChatTypeOK, Housed, Held, [Next]_vars PROVE FilesTyped'
<1> USE ChatConstants, Labels DEF ChatTypeOK, FilesTyped
<1>1. CASE UNCHANGED vars
  BY <1>1 DEF vars
<1>2. CASE RequestsOnly
  <2>1. PICK r \in Request :
          \/ \E c \in Conversation : OpenPost(r, c) \/ ListForDelete(r, c)
          \/ \E t \in Turn : ReadForStop(r, t)
          \/ SaveUpload(r) \/ RefusePost(r) \/ Discard(r) \/ RemoveTree(r) \/ Abort(r)
    BY <1>2 DEF RequestsOnly
  <2>2. CASE UNCHANGED <<row, disk>>
    BY <2>2
  <2>3. CASE SaveUpload(r)
    <3>1. row' = row /\ req[r].conv \in Conversation
          /\ \E f \in Upload : disk' = [disk EXCEPT ![f] = req[r].conv]
      BY <2>3 DEF SaveUpload, RequestsTyped
    <3> QED
      BY <3>1
  <2>4. CASE Discard(r) \/ RemoveTree(r)
    BY <2>4 DEF Discard, RemoveTree
  <2> QED
    BY <2>1, <2>2, <2>3, <2>4 DEF OpenPost, ListForDelete, ReadForStop, RefusePost, Abort
<1>3. CASE WorkerOnly
  BY <1>3 DEF WorkerOnly, StartWorker, CheckRunning, ClaimNothing, ExitLoop, CheckDrawing,
              AwaitDrawing, LeaveEnrichment, CheckEnrichment, AwaitEnrichment, CheckAgent,
              AgentFails, ReadEvent, Check, Await
<1>4. CASE FilesOnly
  <2>1. CASE SaveImage
    <3>1. conv[cur] \in Conversation
      BY <2>1 DEF SaveImage, WorkerTyped, Busy, Held, Housed
    <3> QED
      BY <2>1, <3>1 DEF SaveImage
  <2>2. CASE SaveFails \/ Attach \/ Ditch
    BY <2>2 DEF SaveFails, Attach, Ditch, WorkerTyped, Busy
  <2> QED
    BY <1>4, <2>1, <2>2 DEF FilesOnly
<1>5. CASE Faults
  BY <1>5 DEF Faults, Sigterm, WorkerCrash, ServerCrash
<1>6. ASSUME NEW c \in Conversation, CreateConversation(c) PROVE FilesTyped'
  BY <1>6 DEF CreateConversation
<1>7. ASSUME NEW r \in Request, CheckPost(r) \/ FlagStop(r) PROVE FilesTyped'
  BY <1>7 DEF CheckPost, FlagStop
<1>8. ASSUME NEW r \in Request, InsertTurn(r) PROVE FilesTyped'
  BY <1>8 DEF InsertTurn, RequestsTyped
<1>9. ASSUME NEW r \in Request, DeleteRows(r) PROVE FilesTyped'
  BY <1>9 DEF DeleteRows, Drop
<1>10. ASSUME NEW r \in Request, NEW u \in User, ClearCache(r, u) PROVE FilesTyped'
  BY <1>10 DEF ClearCache, Drop
<1>11. CASE Recover \/ Look \/ Snapshot \/ Settles
  BY <1>11 DEF Recover, Look, Snapshot, Settles, Finish, MarkCancelled, Fail, Settle
<1>12. ASSUME NEW t \in Turn, ClaimNext(t) PROVE FilesTyped'
  BY <1>12 DEF ClaimNext
<1> QED
  BY <1>1, <1>2, <1>3, <1>4, <1>5, <1>6, <1>7, <1>8, <1>9, <1>10, <1>11, <1>12, Cases DEF Quiet

RequestRecord ==
  [pc : ReqPc, conv : Conversation \cup {NoConversation},
   turn : Turn \cup {NoTurn}, files : SUBSET File]

(* One request moves on. *)
LEMMA UpdateRequest ==
  ASSUME RequestsTyped, NEW r \in Request, NEW v \in RequestRecord,
         v.pc \in {"upload", "check", "insert", "delete", "rmtree"} => v.conv \in Conversation,
         v.pc \in {"insert", "flag"} => v.turn \in Turn,
         req' = [req EXCEPT ![r] = v]
  PROVE  RequestsTyped'
BY DEF RequestsTyped, RequestRecord

(* Requests keep their shape, and what their next step needs is known.      *)
LEMMA NextRequestsTyped == ASSUME ChatTypeOK, [Next]_vars PROVE RequestsTyped'
<1> USE ChatConstants, Labels DEF ChatTypeOK, RequestsTyped, ReqPc, Idle
<1>1. CASE UNCHANGED vars
  BY <1>1 DEF vars
<1>2. CASE RequestsOnly
  <2> PICK r \in Request :
        \/ \E c \in Conversation : OpenPost(r, c) \/ ListForDelete(r, c)
        \/ \E t \in Turn : ReadForStop(r, t)
        \/ SaveUpload(r) \/ RefusePost(r) \/ Discard(r) \/ RemoveTree(r) \/ Abort(r)
    BY <1>2 DEF RequestsOnly
  <2>1. ASSUME NEW c \in Conversation, OpenPost(r, c) PROVE RequestsTyped'
    <3> PICK label \in {"upload", "check"} :
          req' = [req EXCEPT ![r] = [Idle EXCEPT !.pc = label, !.conv = c]]
      BY <2>1 DEF OpenPost
    <3> DEFINE v == [Idle EXCEPT !.pc = label, !.conv = c]
    <3>1. v \in RequestRecord /\ v.conv = c /\ v.pc = label
      BY DEF RequestRecord
    <3> QED
      BY <3>1, UpdateRequest
  <2>2. ASSUME NEW c \in Conversation, ListForDelete(r, c) PROVE RequestsTyped'
    BY <2>2 DEF ListForDelete
  <2>3. ASSUME NEW t \in Turn, ReadForStop(r, t) PROVE RequestsTyped'
    BY <2>3 DEF ReadForStop
  <2>4. CASE SaveUpload(r)
    <3> PICK f \in Upload, label \in {"check", "discard"} :
          req' = [req EXCEPT ![r] = [@ EXCEPT !.pc = label, !.files = {f}]]
      BY <2>4 DEF SaveUpload
    <3> DEFINE v == [req[r] EXCEPT !.pc = label, !.files = {f}]
    <3>1. v \in RequestRecord /\ v.conv = req[r].conv /\ v.pc = label
      BY DEF RequestRecord
    <3>2. req[r].conv \in Conversation /\ req' = [req EXCEPT ![r] = v]
      BY <2>4 DEF SaveUpload
    <3> HIDE DEF v
    <3> QED
      BY <3>1, <3>2, UpdateRequest
  <2>5. CASE RefusePost(r)
    BY <2>5 DEF RefusePost, Move
  <2>6. CASE Discard(r) \/ RemoveTree(r) \/ Abort(r)
    BY <2>6 DEF Discard, RemoveTree, Abort, Leave
  <2> QED
    BY <2>1, <2>2, <2>3, <2>4, <2>5, <2>6
<1>3. CASE WorkerOnly
  BY <1>3 DEF WorkerOnly, StartWorker, CheckRunning, ClaimNothing, ExitLoop, CheckDrawing,
              AwaitDrawing, LeaveEnrichment, CheckEnrichment, AwaitEnrichment, CheckAgent,
              AgentFails, ReadEvent, Check, Await
<1>4. CASE FilesOnly
  BY <1>4 DEF FilesOnly, SaveImage, SaveFails, Attach, Ditch
<1>5. CASE Faults
  BY <1>5 DEF Faults, Sigterm, WorkerCrash, ServerCrash
<1>6. ASSUME NEW c \in Conversation, CreateConversation(c) PROVE RequestsTyped'
  BY <1>6 DEF CreateConversation
<1>7. ASSUME NEW r \in Request, CheckPost(r) PROVE RequestsTyped'
  <2> DEFINE v == [req[r] EXCEPT !.pc = "insert", !.turn = turns + 1]
  <2>1. req' = [req EXCEPT ![r] = v] /\ turns + 1 \in Turn /\ req[r].conv \in Conversation
    BY <1>7 DEF CheckPost
  <2>2. v \in RequestRecord /\ v.conv = req[r].conv /\ v.pc = "insert" /\ v.turn = turns + 1
    BY <2>1 DEF RequestRecord
  <2> HIDE DEF v
  <2>3. v.conv \in Conversation /\ v.turn \in Turn /\ v \in RequestRecord
    BY <2>1, <2>2
  <2> QED
    BY <2>1, <2>3, UpdateRequest
<1>8. ASSUME NEW r \in Request, InsertTurn(r) \/ FlagStop(r) PROVE RequestsTyped'
  BY <1>8 DEF InsertTurn, FlagStop, Leave
<1>9. ASSUME NEW r \in Request, DeleteRows(r) PROVE RequestsTyped'
  BY <1>9 DEF DeleteRows, Leave, Move
<1>10. ASSUME NEW r \in Request, NEW u \in User, ClearCache(r, u) PROVE RequestsTyped'
  BY <1>10 DEF ClearCache
<1>11. CASE Recover \/ Look \/ Snapshot \/ Settles
  BY <1>11 DEF Recover, Look, Snapshot, Settles, Finish, MarkCancelled, Fail, Settle
<1>12. ASSUME NEW t \in Turn, ClaimNext(t) PROVE RequestsTyped'
  BY <1>12 DEF ClaimNext
<1> QED
  BY <1>1, <1>2, <1>3, <1>4, <1>5, <1>6, <1>7, <1>8, <1>9, <1>10, <1>11, <1>12, Cases DEF Quiet

(* Steps of the requests leave the worker alone. *)
LEMMA ClientWorker ==
  ASSUME \/ RequestsOnly \/ ServerCrash \/ UNCHANGED vars
         \/ \E c \in Conversation : CreateConversation(c)
         \/ \E r \in Request : \/ CheckPost(r) \/ InsertTurn(r) \/ DeleteRows(r)
                              \/ FlagStop(r) \/ \E u \in User : ClearCache(r, u)
  PROVE  UNCHANGED <<pc, cur, image, stopping>>
BY DEF vars, worker, RequestsOnly, OpenPost, ListForDelete, ReadForStop, SaveUpload,
       RefusePost, Discard, RemoveTree, Abort, ServerCrash, CreateConversation, CheckPost,
       InsertTurn, DeleteRows, FlagStop, ClearCache

(* The worker holds a turn exactly inside run_turn, a file exactly between  *)
(* saving and recording it.                                                 *)
LEMMA NextWorkerTyped == ASSUME ChatTypeOK, [Next]_vars PROVE WorkerTyped'
<1> USE ChatConstants, Labels DEF ChatTypeOK, WorkerTyped, Pc, Busy
<1>1. CASE \/ RequestsOnly \/ ServerCrash \/ UNCHANGED vars
           \/ \E c \in Conversation : CreateConversation(c)
           \/ \E r \in Request : \/ CheckPost(r) \/ InsertTurn(r) \/ DeleteRows(r)
                                \/ FlagStop(r) \/ \E u \in User : ClearCache(r, u)
  BY <1>1, ClientWorker
<1>2. CASE StartWorker \/ CheckRunning \/ ClaimNothing \/ ExitLoop
  BY <1>2 DEF StartWorker, CheckRunning, ClaimNothing, ExitLoop, Goto
<1>3. CASE CheckDrawing \/ CheckEnrichment \/ CheckAgent
  BY <1>3 DEF CheckDrawing, CheckEnrichment, CheckAgent, Check, Goto
<1>4. CASE AwaitDrawing \/ AwaitEnrichment \/ AgentFails \/ ReadEvent
  BY <1>4 DEF AwaitDrawing, AwaitEnrichment, AgentFails, ReadEvent, Await, Goto
<1>5. CASE LeaveEnrichment
  BY <1>5 DEF LeaveEnrichment
<1>6. CASE SaveImage \/ SaveFails
  BY <1>6 DEF SaveImage, SaveFails, Goto
<1>7. CASE Attach \/ Ditch
  BY <1>7 DEF Attach, Ditch, Goto
<1>8. CASE Sigterm \/ WorkerCrash
  BY <1>8 DEF Sigterm, WorkerCrash
<1>9. CASE Recover \/ Snapshot
  BY <1>9 DEF Recover, Snapshot, Goto
<1>10. CASE Look
  <2>1. Route[kind[cur]] \subseteq {"agent", "enrich", "draw", "fail"}
    BY <1>10 DEF Look, StoreTyped
  <2> QED
    BY <1>10, <2>1 DEF Look, Goto
<1>11. CASE Settles
  BY <1>11 DEF Settles, Finish, MarkCancelled, Fail, Settle
<1>12. ASSUME NEW t \in Turn, ClaimNext(t) PROVE WorkerTyped'
  BY <1>12 DEF ClaimNext
<1> QED
  BY <1>1, <1>2, <1>3, <1>4, <1>5, <1>6, <1>7, <1>8, <1>9, <1>10, <1>11, <1>12, Cases
     DEF Quiet, WorkerOnly, FilesOnly, Faults

(* The history variables and fault counters keep their types.               *)
LEMMA NextHistoryTyped == ASSUME ChatTypeOK, [Next]_vars PROVE HistoryTyped'
<1> USE ChatConstants, Labels DEF ChatTypeOK, HistoryTyped, history, faults
<1>1. CASE UNCHANGED vars
  BY <1>1 DEF vars
<1>2. CASE RequestsOnly
  <2>1. UNCHANGED <<runs, source, stops>> /\ crashes' \in {crashes, crashes + 1}
    BY <1>2 DEF RequestsOnly, OpenPost, ListForDelete, ReadForStop, SaveUpload, RefusePost,
                Discard, RemoveTree, Abort
  <2> QED
    BY <2>1
<1>3. CASE WorkerOnly
  BY <1>3 DEF WorkerOnly, StartWorker, CheckRunning, ClaimNothing, ExitLoop, CheckDrawing,
              AwaitDrawing, LeaveEnrichment, CheckEnrichment, AwaitEnrichment, CheckAgent,
              AgentFails, ReadEvent, Check, Await
<1>4. CASE FilesOnly
  BY <1>4 DEF FilesOnly, SaveImage, SaveFails, Attach, Ditch
<1>5. CASE Faults
  BY <1>5 DEF Faults, Sigterm, WorkerCrash, ServerCrash
<1>6. ASSUME NEW c \in Conversation, CreateConversation(c) PROVE HistoryTyped'
  BY <1>6 DEF CreateConversation
<1>7. ASSUME NEW r \in Request,
             CheckPost(r) \/ InsertTurn(r) \/ DeleteRows(r) \/ \E u \in User : ClearCache(r, u)
      PROVE HistoryTyped'
  BY <1>7 DEF CheckPost, InsertTurn, DeleteRows, ClearCache
<1>8. ASSUME NEW r \in Request, FlagStop(r) PROVE HistoryTyped'
  BY <1>8 DEF FlagStop, RequestsTyped, StoreTyped, Active
<1>9. CASE Recover \/ Snapshot \/ Settles
  BY <1>9 DEF Recover, Snapshot, Settles, Finish, MarkCancelled, Fail, Settle
<1>10. CASE Look
  <2>1. Preceding(cur) \subseteq Turn
    BY DEF Preceding, InConv
  <2> QED
    BY <1>10, <2>1 DEF Look, WorkerTyped
<1>11. ASSUME NEW t \in Turn, ClaimNext(t) PROVE HistoryTyped'
  BY <1>11 DEF ClaimNext
<1> QED
  BY <1>1, <1>2, <1>3, <1>4, <1>5, <1>6, <1>7, <1>8, <1>9, <1>10, <1>11, Cases DEF Quiet

(* Types, given who the worker holds. *)
LEMMA NextTypeOK ==
  ASSUME ChatTypeOK, Housed, Held, [Next]_vars PROVE ChatTypeOK'
BY NextStoreTyped, NextFilesTyped, NextRequestsTyped, NextWorkerTyped, NextHistoryTyped
   DEF ChatTypeOK

------------------------------------------------------------------------------
(* Turns                                                                     *)

(* The worker writes to the turn it holds only, and holds it until then.     *)
LEMMA NextTurns ==
  ASSUME ChatTypeOK, Turns, Inserting, [Next]_vars PROVE Turns'
<1> USE ChatConstants, Labels
    DEF ChatTypeOK, StoreTyped, WorkerTyped, Turns, Numbered, Housed, Held,
        WorkerOwnsRunning, State, Present, Active, Finished, Busy
<1>1. CASE RequestsOnly \/ ServerCrash \/ UNCHANGED vars
  BY <1>1, QuietStore, ClientWorker DEF messages, Quiet, Faults
<1>2. CASE WorkerOnly
  <2>1. UNCHANGED <<convs, messages>>
    BY <1>2, QuietStore DEF Quiet
  <2>2. CASE StartWorker \/ CheckRunning \/ ClaimNothing \/ ExitLoop \/ LeaveEnrichment
    BY <2>1, <2>2 DEF messages, StartWorker, CheckRunning, ClaimNothing, ExitLoop,
                      LeaveEnrichment, Goto
  <2>3. CASE CheckDrawing \/ CheckEnrichment \/ CheckAgent
    BY <2>1, <2>3 DEF messages, CheckDrawing, CheckEnrichment, CheckAgent, Check, Goto
  <2>4. CASE AwaitDrawing \/ AwaitEnrichment \/ AgentFails \/ ReadEvent
    BY <2>1, <2>4 DEF messages, AwaitDrawing, AwaitEnrichment, AgentFails, ReadEvent,
                      Await, Goto
  <2> QED
    BY <1>2, <2>2, <2>3, <2>4 DEF WorkerOnly
<1>3. CASE FilesOnly
  <2>1. UNCHANGED <<convs, messages>>
    BY <1>3, QuietStore DEF Quiet
  <2> QED
    BY <1>3, <2>1 DEF messages, FilesOnly, SaveImage, SaveFails, Attach, Ditch, Goto
<1>4. CASE Sigterm \/ WorkerCrash
  <2>1. UNCHANGED <<convs, messages>>
    BY <1>4, QuietStore DEF Quiet, Faults
  <2> QED
    BY <1>4, <2>1 DEF messages, Sigterm, WorkerCrash
<1>5. ASSUME NEW c \in Conversation, CreateConversation(c) PROVE Turns'
  BY <1>5, ClientWorker DEF CreateConversation, messages
<1>6. ASSUME NEW r \in Request, CheckPost(r) PROVE Turns'
  <2>1. /\ UNCHANGED <<convs, state, pc, cur, image, stopping>>
        /\ turns' = turns + 1 /\ turns + 1 \in Turn
        /\ conv' = [conv EXCEPT ![turns + 1] = req[r].conv]
    BY <1>6, ClientWorker DEF CheckPost
  <2>2. state[turns + 1] = "absent"
    BY <2>1
  <2> QED
    BY <2>1, <2>2
<1>7. ASSUME NEW r \in Request, InsertTurn(r) PROVE Turns'
  <2>1. /\ UNCHANGED <<convs, conv, turns, pc, cur, image, stopping>>
        /\ req[r].turn \in Turn /\ req[r].conv \in Conversation
        /\ state[req[r].turn] = "absent" /\ conv[req[r].turn] = req[r].conv
        /\ req[r].turn <= turns
    BY <1>7, ClientWorker DEF InsertTurn, Inserting, RequestsTyped
  <2>2. \/ state' = state
        \/ convs[req[r].conv] = "live" /\ state' = [state EXCEPT ![req[r].turn] = "queued"]
    BY <1>7 DEF InsertTurn
  <2> QED
    BY <2>1, <2>2
<1>8. ASSUME NEW C, Drop(C), UNCHANGED <<pc, cur, image, stopping>> PROVE Turns'
  BY <1>8 DEF Drop, InConv
<1>9. ASSUME NEW r \in Request, DeleteRows(r) PROVE Turns'
  <2>1. Drop({req[r].conv}) \/ UNCHANGED <<convs, messages>>
    BY <1>9 DEF DeleteRows
  <2>2. CASE Drop({req[r].conv})
    BY <1>8, <1>9, <2>2, ClientWorker
  <2>3. CASE UNCHANGED <<convs, messages>>
    BY <1>9, <2>3, ClientWorker DEF messages
  <2> QED
    BY <2>1, <2>2, <2>3
<1>10. ASSUME NEW r \in Request, NEW u \in User, ClearCache(r, u) PROVE Turns'
  BY <1>8, <1>10, ClientWorker DEF ClearCache
<1>11. ASSUME NEW r \in Request, FlagStop(r) PROVE Turns'
  BY <1>11, ClientWorker DEF FlagStop
<1>12. CASE Recover
  BY <1>12 DEF Recover, Recovered, Interrupted, Goto
<1>13. ASSUME NEW t \in Turn, ClaimNext(t) PROVE Turns'
  BY <1>13 DEF ClaimNext, Claimable
<1>14. CASE Look
  <2>1. pc = "look" /\ UNCHANGED <<convs, turns, conv, state, cur>>
    BY <1>14 DEF Look, Goto
  <2> QED
    BY <2>1
<1>15. CASE Snapshot
  BY <1>15 DEF Snapshot, Goto
<1>16. CASE Settles
  BY <1>16 DEF Settles, Finish, MarkCancelled, Fail, Settle, Exists
<1> QED
  BY <1>1, <1>2, <1>3, <1>4, <1>5, <1>6, <1>7, <1>9, <1>10, <1>11, <1>12, <1>13,
     <1>14, <1>15, <1>16, Cases DEF Quiet, Faults

(* A finished reply keeps its state and its text until it is deleted.       *)
Kept ==
  \A t \in Turn : state[t] \in Finished =>
    \/ state'[t] = state[t] /\ content'[t] = content[t]
    \/ state'[t] = "deleted"

LEMMA NextKeeps == ASSUME ChatTypeOK, Turns, Inserting, [Next]_vars PROVE Kept
<1> USE ChatConstants, Labels
    DEF ChatTypeOK, StoreTyped, WorkerTyped, Turns, Held, Kept, State, Present, Active,
        Finished, Busy
<1>1. CASE Quiet \/ UNCHANGED vars
  BY <1>1, QuietStore DEF messages
<1>2. ASSUME NEW c \in Conversation, CreateConversation(c) PROVE Kept
  BY <1>2 DEF CreateConversation, messages
<1>3. ASSUME NEW r \in Request, CheckPost(r) \/ FlagStop(r) PROVE Kept
  BY <1>3 DEF CheckPost, FlagStop
<1>4. ASSUME NEW r \in Request, InsertTurn(r) PROVE Kept
  BY <1>4 DEF InsertTurn, Inserting
<1>5. ASSUME NEW r \in Request, DeleteRows(r) PROVE Kept
  BY <1>5 DEF DeleteRows, Drop, messages
<1>6. ASSUME NEW r \in Request, NEW u \in User, ClearCache(r, u) PROVE Kept
  BY <1>6 DEF ClearCache, Drop
<1>7. CASE Recover
  BY <1>7 DEF Recover, Recovered, Interrupted
<1>8. ASSUME NEW t \in Turn, ClaimNext(t) PROVE Kept
  BY <1>8 DEF ClaimNext, Claimable
<1>9. CASE Look \/ Snapshot
  BY <1>9 DEF Look, Snapshot
<1>10. CASE Settles
  BY <1>10 DEF Settles, Finish, MarkCancelled, Fail, Settle
<1> QED
  BY <1>1, <1>2, <1>3, <1>4, <1>5, <1>6, <1>7, <1>8, <1>9, <1>10, Cases

------------------------------------------------------------------------------
(* Requests                                                                  *)

Only(r) == \A q \in Request \ {r} : req'[q] = req[q]

(* What each step does to the request that takes it.                        *)
LEMMA CheckPostEffect ==
  ASSUME RequestsTyped, NEW r \in Request, CheckPost(r)
  PROVE  /\ Only(r) /\ req'[r].pc = "insert" /\ req[r].pc = "check"
         /\ req'[r].turn = turns + 1 /\ req'[r].conv = req[r].conv
         /\ req'[r].files = req[r].files /\ req[r].conv \in Conversation
BY DEF CheckPost, RequestsTyped, Only

(* It drops the conversation and goes on, or is done.                       *)
LEMMA DeleteRowsEffect ==
  ASSUME RequestsTyped, NEW r \in Request, DeleteRows(r)
  PROVE  /\ Only(r) /\ req[r].conv \in Conversation /\ req[r].pc = "delete"
         /\ req'[r].pc # "insert"
         /\ \/ /\ req'[r].pc = "rmtree" /\ req'[r].conv = req[r].conv
               /\ req'[r].files = req[r].files
               /\ Drop({req[r].conv})
            \/ /\ req'[r] = Idle
               /\ UNCHANGED <<convs, messages, row>>
<1>1. \/ Move(r, "rmtree") /\ Drop({req[r].conv})
      \/ Leave(r) /\ UNCHANGED <<convs, messages, row>>
  BY DEF DeleteRows
<1>2. req[r].conv \in Conversation /\ req[r].pc = "delete"
  BY DEF DeleteRows, RequestsTyped
<1>3. CASE Move(r, "rmtree") /\ Drop({req[r].conv})
  <2>1. Only(r) /\ req'[r] = [req[r] EXCEPT !.pc = "rmtree"]
    BY <1>3 DEF Move, RequestsTyped, Only
  <2>2. /\ req'[r].pc = "rmtree" /\ req'[r].conv = req[r].conv
        /\ req'[r].files = req[r].files
    BY <2>1 DEF RequestsTyped
  <2> QED
    BY <1>2, <1>3, <2>1, <2>2
<1>4. CASE Leave(r) /\ UNCHANGED <<convs, messages, row>>
  <2>1. Only(r) /\ req'[r] = Idle
    BY <1>4 DEF Leave, RequestsTyped, Only
  <2>2. req'[r].pc # "insert"
    BY <2>1 DEF Idle
  <2> QED
    BY <1>2, <1>4, <2>1, <2>2
<1> QED
  BY <1>1, <1>3, <1>4

(* It drops the conversations of a user and goes on to their files.         *)
LEMMA ClearCacheEffect ==
  ASSUME RequestsTyped, NEW r \in Request, NEW u \in User, ClearCache(r, u)
  PROVE  Only(r) /\ req'[r].pc = "discard" /\ req[r] = Idle /\ Drop(OwnedBy(u))
BY DEF ClearCache, RequestsTyped, Only, Idle

(* A step that ends its request.                                            *)
LEMMA LastStepEffect ==
  ASSUME RequestsTyped, NEW r \in Request,
         InsertTurn(r) \/ Discard(r) \/ RemoveTree(r) \/ FlagStop(r) \/ Abort(r)
  PROVE  Only(r) /\ req'[r] = Idle
BY DEF InsertTurn, Discard, RemoveTree, FlagStop, Abort, RequestsTyped, Only, Leave

(* A request that writes no row gets no turn and removes no directory.      *)
LEMMA RequestsOnlyEffect ==
  ASSUME RequestsTyped, RequestsOnly
  PROVE  \E r \in Request : Only(r) /\ req'[r].pc \notin {"insert", "rmtree"}
<1>1. ASSUME NEW r \in Request, NEW c \in Conversation, OpenPost(r, c) \/ ListForDelete(r, c)
      PROVE  Only(r) /\ req'[r].pc \notin {"insert", "rmtree"}
  BY <1>1 DEF OpenPost, ListForDelete, RequestsTyped, Only, Idle
<1>2. ASSUME NEW r \in Request, NEW t \in Turn, ReadForStop(r, t)
      PROVE  Only(r) /\ req'[r].pc \notin {"insert", "rmtree"}
  BY <1>2 DEF ReadForStop, RequestsTyped, Only, Idle
<1>3. ASSUME NEW r \in Request, SaveUpload(r) \/ RefusePost(r)
      PROVE  Only(r) /\ req'[r].pc \notin {"insert", "rmtree"}
  BY <1>3 DEF SaveUpload, RefusePost, RequestsTyped, Only, Move
<1>4. ASSUME NEW r \in Request, Discard(r) \/ RemoveTree(r) \/ Abort(r)
      PROVE  Only(r) /\ req'[r].pc \notin {"insert", "rmtree"}
  BY <1>4, LastStepEffect DEF Idle
<1> QED
  BY <1>1, <1>2, <1>3, <1>4 DEF RequestsOnly

(* The worker and its faults leave the requests alone.                      *)
LEMMA WorkerRequests ==
  ASSUME \/ WorkerOnly \/ FilesOnly \/ Sigterm \/ WorkerCrash \/ UNCHANGED vars
         \/ Recover \/ Look \/ Snapshot \/ Settles \/ \E t \in Turn : ClaimNext(t)
         \/ \E c \in Conversation : CreateConversation(c)
  PROVE  req' = req
BY DEF vars, WorkerOnly, StartWorker, CheckRunning, ClaimNothing, ExitLoop, CheckDrawing,
       AwaitDrawing, LeaveEnrichment, CheckEnrichment, AwaitEnrichment, CheckAgent,
       AgentFails, ReadEvent, Check, Await, FilesOnly, SaveImage, SaveFails, Attach, Ditch,
       Sigterm, WorkerCrash, Recover, Look, Snapshot, Settles, Finish, MarkCancelled, Fail,
       Settle, ClaimNext, CreateConversation

(* Two requests never hold the same turn, and an id stays reserved.         *)
LEMMA NextInserting ==
  ASSUME ChatTypeOK, Turns, Inserting, [Next]_vars PROVE Inserting'
<1> USE ChatConstants, Labels DEF ChatTypeOK, RequestsTyped, StoreTyped, Inserting
<1>1. ASSUME NEW r \in Request, Only(r), req'[r].pc # "insert", UNCHANGED <<turns, conv>>,
             \A t \in Turn : t # req[r].turn /\ state[t] = "absent" => state'[t] = "absent",
             req[r].pc = "insert" \/ \A t \in Turn : state[t] = "absent" => state'[t] = "absent"
      PROVE  Inserting'
  BY <1>1 DEF Only
<1>2. CASE RequestsOnly
  <2>1. PICK r \in Request : Only(r) /\ req'[r].pc # "insert"
    BY <1>2, RequestsOnlyEffect
  <2>2. UNCHANGED <<convs, messages>>
    BY <1>2, QuietStore DEF Quiet
  <2> QED
    BY <1>1, <2>1, <2>2 DEF messages
<1>3. CASE WorkerOnly \/ FilesOnly \/ Sigterm \/ WorkerCrash \/ UNCHANGED vars
  BY <1>3, WorkerRequests, QuietStore DEF Quiet, Faults, messages
<1>4. CASE ServerCrash
  <2>1. UNCHANGED <<convs, messages>>
    BY <1>4, QuietStore DEF Quiet, Faults
  <2>2. \A q \in Request : req'[q].pc # "insert"
    BY <1>4 DEF ServerCrash, Idle
  <2> QED
    BY <2>1, <2>2
<1>5. ASSUME NEW c \in Conversation, CreateConversation(c) PROVE Inserting'
  BY <1>5 DEF CreateConversation, messages
<1>6. ASSUME NEW r \in Request, CheckPost(r) PROVE Inserting'
  <2>1. /\ turns' = turns + 1 /\ turns + 1 \in Turn /\ state' = state
        /\ conv' = [conv EXCEPT ![turns + 1] = req[r].conv]
        /\ state[turns + 1] = "absent"
    BY <1>6 DEF CheckPost, Turns, Numbered
  <2>2. /\ req'[r].pc = "insert" /\ req'[r].turn = turns + 1 /\ req'[r].conv = req[r].conv
        /\ \A q \in Request : q # r => req'[q] = req[q]
    BY <1>6, CheckPostEffect DEF Only
  <2>3. \A q \in Request : q # r /\ req[q].pc = "insert" =>
          req[q].turn # turns + 1 /\ conv'[req[q].turn] = conv[req[q].turn]
    BY <2>1
  <2> QED
    BY <2>1, <2>2, <2>3
<1>7. ASSUME NEW r \in Request, InsertTurn(r) PROVE Inserting'
  <2>1. Only(r) /\ req'[r].pc # "insert"
    BY <1>7, LastStepEffect DEF Idle
  <2>2. /\ UNCHANGED <<conv, turns>> /\ req[r].pc = "insert"
        /\ \A t \in Turn : t # req[r].turn => state'[t] = state[t]
    BY <1>7 DEF InsertTurn
  <2> QED
    BY <1>1, <2>1, <2>2
<1>8. ASSUME NEW C, Drop(C), NEW r \in Request, req'[r].pc # "insert", Only(r)
      PROVE  Inserting'
  <2>1. UNCHANGED <<turns, conv>> /\ \A t \in Turn : state[t] = "absent" => state'[t] = "absent"
    BY <1>8 DEF Drop, InConv, Present, Active, Finished
  <2> QED
    BY <1>1, <1>8, <2>1
<1>9. ASSUME NEW r \in Request, DeleteRows(r) PROVE Inserting'
  <2>1. Only(r) /\ req'[r].pc # "insert"
    BY <1>9, DeleteRowsEffect
  <2>2. Drop({req[r].conv}) \/ UNCHANGED <<turns, conv, state>>
    BY <1>9 DEF DeleteRows, messages
  <2> QED
    BY <1>1, <1>8, <2>1, <2>2
<1>10. ASSUME NEW r \in Request, NEW u \in User, ClearCache(r, u) PROVE Inserting'
  <2>1. Only(r) /\ req'[r].pc # "insert" /\ Drop(OwnedBy(u))
    BY <1>10, ClearCacheEffect
  <2> QED
    BY <1>8, <2>1
<1>11. ASSUME NEW r \in Request, FlagStop(r) PROVE Inserting'
  <2>1. Only(r) /\ req'[r].pc # "insert"
    BY <1>11, LastStepEffect DEF Idle
  <2>2. UNCHANGED <<turns, conv, state>>
    BY <1>11 DEF FlagStop
  <2> QED
    BY <1>1, <2>1, <2>2
<1>12. CASE Recover
  BY <1>12 DEF Recover, Recovered, Interrupted
<1>13. ASSUME NEW t \in Turn, ClaimNext(t) PROVE Inserting'
  BY <1>13 DEF ClaimNext, Claimable
<1>14. CASE Look \/ Snapshot
  BY <1>14 DEF Look, Snapshot
<1>15. CASE Settles
  BY <1>15 DEF Settles, Finish, MarkCancelled, Fail, Settle, Exists, Present, Active, Finished
<1> QED
  BY <1>2, <1>3, <1>4, <1>5, <1>6, <1>7, <1>9, <1>10, <1>11, <1>12, <1>13, <1>14, <1>15,
     Cases DEF Quiet, Faults

(* A deleted conversation stays deleted.                                    *)
LEMMA DeletedStays ==
  ASSUME ChatTypeOK, [Next]_vars, NEW c \in Conversation, convs[c] = "deleted"
  PROVE  convs'[c] = "deleted"
<1> USE DEF ChatTypeOK, StoreTyped
<1>1. CASE Quiet \/ UNCHANGED vars
  BY <1>1, QuietStore
<1>2. ASSUME NEW d \in Conversation, CreateConversation(d) PROVE convs'[c] = "deleted"
  BY <1>2 DEF CreateConversation
<1>3. ASSUME NEW C, Drop(C) PROVE convs'[c] = "deleted"
  BY <1>3 DEF Drop
<1>4. ASSUME NEW r \in Request, CheckPost(r) \/ InsertTurn(r) \/ FlagStop(r)
      PROVE  convs'[c] = "deleted"
  BY <1>4 DEF CheckPost, InsertTurn, FlagStop
<1>5. ASSUME NEW r \in Request, DeleteRows(r) PROVE convs'[c] = "deleted"
  BY <1>3, <1>5, DeleteRowsEffect
<1>6. ASSUME NEW r \in Request, NEW u \in User, ClearCache(r, u) PROVE convs'[c] = "deleted"
  BY <1>3, <1>6, ClearCacheEffect
<1>7. CASE Recover \/ Look \/ Snapshot \/ Settles \/ \E t \in Turn : ClaimNext(t)
  BY <1>7 DEF Recover, Look, Snapshot, Settles, Finish, MarkCancelled, Fail, Settle, ClaimNext
<1> QED
  BY <1>1, <1>2, <1>4, <1>5, <1>6, <1>7, Cases

(* A conversation whose directory is about to be removed is deleted.        *)
LEMMA NextRemoving ==
  ASSUME ChatTypeOK, Removing, [Next]_vars PROVE Removing'
<1>0. \A c \in Conversation : convs[c] = "deleted" => convs'[c] = "deleted"
  BY DeletedStays
<1> USE <1>0 DEF ChatTypeOK, RequestsTyped, Removing
<1>1. ASSUME NEW r \in Request, Only(r),
             req'[r].pc = "rmtree" => convs'[req'[r].conv] = "deleted"
      PROVE  Removing'
  BY <1>1 DEF Only
<1>2. CASE RequestsOnly
  BY <1>1, <1>2, RequestsOnlyEffect
<1>3. CASE \/ WorkerOnly \/ FilesOnly \/ Sigterm \/ WorkerCrash \/ UNCHANGED vars
           \/ Recover \/ Look \/ Snapshot \/ Settles \/ \E t \in Turn : ClaimNext(t)
           \/ \E c \in Conversation : CreateConversation(c)
  <2>1. req' = req
    BY <1>3, WorkerRequests
  <2> QED
    BY <2>1
<1>4. CASE ServerCrash
  BY <1>4 DEF ServerCrash, Idle
<1>5. ASSUME NEW r \in Request, CheckPost(r) PROVE Removing'
  BY <1>1, <1>5, CheckPostEffect
<1>6. ASSUME NEW r \in Request, InsertTurn(r) \/ FlagStop(r) PROVE Removing'
  BY <1>1, <1>6, LastStepEffect DEF Idle
<1>7. ASSUME NEW r \in Request, NEW u \in User, ClearCache(r, u) PROVE Removing'
  BY <1>1, <1>7, ClearCacheEffect
<1>8. ASSUME NEW r \in Request, DeleteRows(r) PROVE Removing'
  <2>1. Only(r)
    BY <1>8, DeleteRowsEffect
  <2>2. req'[r].pc = "rmtree" => convs'[req'[r].conv] = "deleted"
    BY <1>8, DeleteRowsEffect DEF Drop, Idle
  <2> QED
    BY <1>1, <2>1, <2>2
<1> QED
  BY <1>2, <1>3, <1>4, <1>5, <1>6, <1>7, <1>8, Cases DEF Quiet, Faults

------------------------------------------------------------------------------
(* Files                                                                     *)

(* Request steps that leave every file and every record where it is.        *)
Reads(r) ==
  \/ \E c \in Conversation : OpenPost(r, c) \/ ListForDelete(r, c)
  \/ \E t \in Turn : ReadForStop(r, t)
  \/ RefusePost(r)

(* All the other steps that do.                                             *)
Elsewhere ==
  \/ WorkerOnly \/ SaveFails \/ Faults \/ UNCHANGED vars
  \/ Recover \/ Look \/ Snapshot \/ Settles
  \/ \E c \in Conversation : CreateConversation(c)
  \/ \E t \in Turn : ClaimNext(t)

LEMMA ElsewhereFiles == ASSUME Elsewhere PROVE UNCHANGED <<row, disk>>
BY DEF Elsewhere, vars, WorkerOnly, StartWorker, CheckRunning, ClaimNothing, ExitLoop,
       CheckDrawing, AwaitDrawing, LeaveEnrichment, CheckEnrichment, AwaitEnrichment,
       CheckAgent, AgentFails, ReadEvent, Check, Await, SaveFails, Faults, Sigterm,
       WorkerCrash, ServerCrash, Recover, Look, Snapshot, Settles, Finish, MarkCancelled,
       Fail, Settle, ClaimNext, CreateConversation

(* No step but a deletion takes a row away, and a row keeps its place.      *)
LEMMA ElsewhereTurns ==
  ASSUME ChatTypeOK, Turns, Elsewhere
  PROVE  /\ UNCHANGED conv
         /\ \A t \in Turn : state[t] \in Present => state'[t] \in Present
         /\ \A t \in Turn : state[t] = "deleted" => state'[t] = "deleted"
<1> USE Labels DEF ChatTypeOK, StoreTyped, WorkerTyped, Present, Active, Finished
<1>1. CASE WorkerOnly \/ SaveFails \/ Faults \/ UNCHANGED vars
  BY <1>1, QuietStore DEF Quiet, FilesOnly, messages
<1>2. ASSUME NEW c \in Conversation, CreateConversation(c)
      PROVE  UNCHANGED <<conv, state>>
  BY <1>2 DEF CreateConversation, messages
<1>3. CASE Recover
  BY <1>3 DEF Recover, Recovered, Interrupted
<1>4. CASE Look \/ Snapshot
  BY <1>4 DEF Look, Snapshot
<1>5. CASE Settles
  BY <1>5 DEF Settles, Finish, MarkCancelled, Fail, Settle, Exists
<1>6. ASSUME NEW t \in Turn, ClaimNext(t)
      PROVE  /\ UNCHANGED conv
             /\ \A u \in Turn : state[u] \in Present => state'[u] \in Present
             /\ \A u \in Turn : state[u] = "deleted" => state'[u] = "deleted"
  BY <1>6 DEF ClaimNext, Claimable
<1> QED
  BY <1>1, <1>2, <1>3, <1>4, <1>5, <1>6 DEF Elsewhere

(* The next-state relation, regrouped by what its steps do to files.        *)
LEMMA FileCases ==
  ASSUME [Next]_vars
  PROVE  \/ Elsewhere
         \/ \E r \in Request : Reads(r)
         \/ \E r \in Request : SaveUpload(r) \/ CheckPost(r) \/ InsertTurn(r) \/ Discard(r)
                               \/ DeleteRows(r) \/ RemoveTree(r) \/ FlagStop(r) \/ Abort(r)
         \/ \E r \in Request, u \in User : ClearCache(r, u)
         \/ SaveImage \/ Attach \/ Ditch
BY Cases DEF Quiet, RequestsOnly, FilesOnly, Elsewhere, Reads

(* What dropping conversations does to the records.                         *)
LEMMA DropRecords ==
  ASSUME ChatTypeOK, NEW C, Drop(C), NEW f \in File
  PROVE  /\ row'[f] # NoTurn => row'[f] = row[f] /\ state'[row[f]] = state[row[f]]
         /\ row'[f] \in {row[f], NoTurn}
         /\ UNCHANGED conv
BY DEF Drop, ChatTypeOK, FilesTyped, StoreTyped

(* Every record belongs to a message of a live conversation and has its     *)
(* file there.                                                              *)
LEMMA NextRecorded == ASSUME IInv, [Next]_vars PROVE Recorded'
<1> USE ChatConstants, Labels DEF IInv, Files, Recorded
<1>1. FilesTyped /\ StoreTyped /\ RequestsTyped /\ WorkerTyped /\ Housed /\ Held
  BY DEF ChatTypeOK, Turns
<1>2. CASE Elsewhere
  BY <1>1, <1>2, ElsewhereFiles, ElsewhereTurns DEF FilesTyped
<1>3. ASSUME NEW r \in Request, Reads(r) \/ FlagStop(r) \/ Abort(r) PROVE Recorded'
  <2>1. UNCHANGED <<row, disk, conv, state>>
    BY <1>3 DEF Reads, OpenPost, ListForDelete, ReadForStop, RefusePost, FlagStop, Abort,
         messages
  <2> QED
    BY <2>1
<1>4. ASSUME NEW r \in Request, SaveUpload(r) PROVE Recorded'
  <2>1. UNCHANGED <<row, conv, state>>
        /\ \E g \in Upload : disk[g] = Fresh /\ \A f \in File : f # g => disk'[f] = disk[f]
    BY <1>1, <1>4 DEF SaveUpload, messages, FilesTyped
  <2>2. \A f \in File : row[f] # NoTurn => disk[f] # Fresh
    BY <1>1 DEF FilesTyped, Housed, Present, Active, Finished
  <2> QED
    BY <2>1, <2>2
<1>5. ASSUME NEW r \in Request, CheckPost(r) PROVE Recorded'
  <2>1. /\ UNCHANGED <<row, disk, state>> /\ turns + 1 \in Turn
        /\ conv' = [conv EXCEPT ![turns + 1] = req[r].conv]
    BY <1>5 DEF CheckPost
  <2>2. state[turns + 1] = "absent" /\ turns \in Nat
    BY <1>1, <2>1 DEF Turns, Numbered, StoreTyped
  <2>3. \A f \in File : row[f] # NoTurn => row[f] # turns + 1
    BY <2>2 DEF Present, Active, Finished
  <2> QED
    BY <1>1, <2>1, <2>3 DEF FilesTyped, StoreTyped
<1>6. ASSUME NEW r \in Request, InsertTurn(r) PROVE Recorded'
  <2>1. /\ req[r].turn \in Turn /\ conv[req[r].turn] = req[r].conv
        /\ req[r].pc = "insert" /\ UNCHANGED <<disk, conv>>
        /\ state[req[r].turn] = "absent"
    BY <1>1, <1>6 DEF InsertTurn, Requests, Inserting, RequestsTyped
  <2>2. CASE UNCHANGED <<state, row>>
    BY <2>1, <2>2
  <2>3. CASE /\ convs[req[r].conv] = "live"
             /\ state' = [state EXCEPT ![req[r].turn] = "queued"]
             /\ row' = [f \in File |-> IF f \in req[r].files THEN req[r].turn ELSE row[f]]
    <3> SUFFICES ASSUME NEW f \in File, row'[f] # NoTurn
                 PROVE  state'[row'[f]] \in Present /\ disk[f] = conv[row'[f]]
      BY <2>1
    <3>1. CASE f \in req[r].files
      <4>1. row'[f] = req[r].turn /\ state'[req[r].turn] = "queued"
        BY <1>1, <2>1, <2>3, <3>1 DEF StoreTyped
      <4>2. disk[f] = req[r].conv
        BY <2>1, <2>3, <3>1 DEF FilesOfRequests, Uploading
      <4> QED
        BY <2>1, <4>1, <4>2 DEF Present, Active
    <3>2. CASE f \notin req[r].files
      <4>1. row'[f] = row[f] /\ state'[row[f]] = state[row[f]]
        BY <1>1, <2>1, <2>3, <3>2 DEF StoreTyped, FilesTyped, Present, Active, Finished
      <4> QED
        BY <4>1
    <3> QED
      BY <3>1, <3>2
  <2> QED
    BY <1>6, <2>2, <2>3 DEF InsertTurn
<1>7. ASSUME NEW r \in Request, Discard(r) PROVE Recorded'
  <2>1. UNCHANGED <<row, conv, state>> /\ \A f \in File : f \notin req[r].files => disk'[f] = disk[f]
    BY <1>7 DEF Discard, messages
  <2> QED
    BY <2>1 DEF FilesOfRequests
<1>8. ASSUME NEW C, Drop(C), UNCHANGED disk PROVE Recorded'
  BY <1>8, DropRecords
<1>9. ASSUME NEW r \in Request, DeleteRows(r) PROVE Recorded'
  <2>1. UNCHANGED disk /\ (Drop({req[r].conv}) \/ UNCHANGED <<row, conv, state>>)
    BY <1>9 DEF DeleteRows, messages
  <2> QED
    BY <1>8, <2>1
<1>10. ASSUME NEW r \in Request, RemoveTree(r) PROVE Recorded'
  <2>1. /\ UNCHANGED <<row, conv, state>> /\ req[r].pc = "rmtree"
        /\ \A f \in File : disk[f] # req[r].conv => disk'[f] = disk[f]
    BY <1>10 DEF RemoveTree, messages
  <2>2. convs[req[r].conv] = "deleted"
    BY <2>1 DEF Requests, Removing
  <2>3. \A f \in File : row[f] # NoTurn => disk[f] # req[r].conv
    BY <1>1, <2>2 DEF Housed, FilesTyped
  <2> QED
    BY <2>1, <2>3
<1>11. ASSUME NEW r \in Request, NEW u \in User, ClearCache(r, u) PROVE Recorded'
  BY <1>8, <1>11 DEF ClearCache
<1>12. CASE SaveImage
  <2>1. UNCHANGED <<row, conv, state>>
        /\ \E g \in Image : disk[g] = Fresh /\ \A f \in File : f # g => disk'[f] = disk[f]
    BY <1>1, <1>12 DEF SaveImage, messages, FilesTyped
  <2>2. \A f \in File : row[f] # NoTurn => disk[f] # Fresh
    BY <1>1 DEF FilesTyped, Housed, Present, Active, Finished
  <2> QED
    BY <2>1, <2>2
<1>13. CASE Attach
  <2>1. /\ UNCHANGED <<disk, conv, state>> /\ pc = "attach"
        /\ \/ UNCHANGED row
           \/ Exists /\ row' = [row EXCEPT ![image] = cur]
    BY <1>13 DEF Attach, messages
  <2>2. CASE UNCHANGED row
    BY <2>1, <2>2
  <2>3. CASE Exists /\ row' = [row EXCEPT ![image] = cur]
    <3>1. image \in Image /\ image # NoFile /\ cur \in Turn /\ state[cur] \in Present
      BY <1>1, <2>1, <2>3 DEF WorkerTyped, Exists, Busy
    <3>2. disk[image] = conv[cur]
      BY <2>1, <3>1 DEF FileInHand, Present, Active, Finished
    <3> QED
      BY <1>1, <2>1, <2>3, <3>1, <3>2 DEF FilesTyped
  <2> QED
    BY <2>1, <2>2, <2>3
<1>14. CASE Ditch
  <2>1. /\ UNCHANGED <<row, conv, state>> /\ pc = "ditch"
        /\ \A f \in File : f # image => disk'[f] = disk[f]
    BY <1>1, <1>14 DEF Ditch, messages, FilesTyped
  <2>2. row[image] = NoTurn
    BY <1>1, <2>1 DEF FileInHand, WorkerTyped
  <2> QED
    BY <2>1, <2>2
<1> QED
  BY <1>2, <1>3, <1>4, <1>5, <1>6, <1>7, <1>9, <1>10, <1>11, <1>12, <1>13, <1>14, FileCases

(* What the other requests hold is left alone; the directory of a deleted   *)
(* conversation may go with the files that were on their way to it.         *)
GoneFor(q, f) ==
  disk'[f] = Gone /\ (req[q].pc \in Uploading => convs'[req[q].conv] = "deleted")

Spared(q) ==
  \A f \in req[q].files : row'[f] = NoTurn /\ (disk'[f] = disk[f] \/ GoneFor(q, f))

(* What request r holds after a step is its own.                            *)
Holds(r) ==
  \A f \in req'[r].files :
    /\ row'[f] = NoTurn /\ disk'[f] # Fresh
    /\ req'[r].pc \in Uploading \cup {"discard"}
    /\ req'[r].pc \in Uploading => disk'[f] = req'[r].conv \/ convs'[req'[r].conv] = "deleted"
    /\ \A q \in Request : q # r => f \notin req[q].files

LEMMA OthersKept ==
  ASSUME FilesOfRequests, RequestsTyped, ChatTypeOK, [Next]_vars,
         NEW r \in Request, Only(r), Holds(r), \A q \in Request : q # r => Spared(q)
  PROVE  FilesOfRequests'
<1>1. \A c \in Conversation : convs[c] = "deleted" => convs'[c] = "deleted"
  BY DeletedStays
<1>2. \A q \in Request : q # r => req'[q] = req[q]
  BY DEF Only
<1>3. ASSUME NEW q \in Request, NEW f \in req'[q].files
      PROVE  /\ row'[f] = NoTurn /\ disk'[f] # Fresh
             /\ req'[q].pc \in Uploading \cup {"discard"}
             /\ req'[q].pc \in Uploading =>
                  disk'[f] = req'[q].conv \/ convs'[req'[q].conv] = "deleted"
  <2>1. CASE q = r
    BY <1>3, <2>1 DEF Holds
  <2>2. CASE q # r
    <3>1. req'[q] = req[q] /\ f \in req[q].files
      BY <1>2, <1>3, <2>2
    <3>2. row'[f] = NoTurn /\ (disk'[f] = disk[f] \/ GoneFor(q, f))
      BY <2>2, <3>1 DEF Spared
    <3>3. /\ disk[f] # Fresh /\ req[q].pc \in Uploading \cup {"discard"}
          /\ req[q].pc \in Uploading => disk[f] = req[q].conv \/ convs[req[q].conv] = "deleted"
      BY <3>1 DEF FilesOfRequests
    <3>4. req[q].pc \in Uploading => req[q].conv \in Conversation
      BY DEF RequestsTyped, Uploading
    <3> QED
      BY <1>1, <3>1, <3>2, <3>3, <3>4, ChatConstants DEF GoneFor
  <2> QED
    BY <2>1, <2>2
<1>4. ASSUME NEW q \in Request, NEW p \in Request, p # q, NEW f \in req'[q].files
      PROVE  f \notin req'[p].files
  <2>1. CASE q = r
    BY <1>2, <1>4, <2>1 DEF Holds
  <2>2. CASE p = r
    BY <1>2, <1>4, <2>2 DEF Holds
  <2>3. CASE q # r /\ p # r
    BY <1>2, <1>4, <2>3 DEF FilesOfRequests
  <2> QED
    BY <2>1, <2>2, <2>3
<1> QED
  BY <1>3, <1>4 DEF FilesOfRequests

(* Steps that leave the requests alone.                                     *)
LEMMA AllKept ==
  ASSUME FilesOfRequests, RequestsTyped, ChatTypeOK, [Next]_vars,
         req' = req, \A q \in Request : Spared(q)
  PROVE  FilesOfRequests'
<1>1. \A c \in Conversation : convs[c] = "deleted" => convs'[c] = "deleted"
  BY DeletedStays
<1>2. \A q \in Request : req[q].pc \in Uploading => req[q].conv \in Conversation
  BY DEF RequestsTyped, Uploading
<1> QED
  BY <1>1, <1>2, ChatConstants DEF FilesOfRequests, Spared, GoneFor

(* A file a request holds has no record, and is held by nothing else.       *)
LEMMA NextFilesOfRequests == ASSUME IInv, [Next]_vars PROVE FilesOfRequests'
<1>1. /\ FilesTyped /\ StoreTyped /\ RequestsTyped /\ WorkerTyped /\ ChatTypeOK /\ Housed
      /\ FilesOfRequests /\ Recorded /\ FileInHand /\ Removing
  BY DEF IInv, ChatTypeOK, Files, Turns, Requests
<1>2. \A q \in Request : \A f \in req[q].files :
        /\ f \in File /\ row[f] = NoTurn /\ disk[f] # Fresh
        /\ \A p \in Request : p # q => f \notin req[p].files
  <2>1. \A q \in Request : req[q].files \subseteq File
    BY <1>1 DEF RequestsTyped
  <2> QED
    BY <1>1, <2>1 DEF FilesOfRequests
<1>3. ASSUME UNCHANGED <<row, disk>> PROVE \A q \in Request : Spared(q)
  BY <1>2, <1>3 DEF Spared
<1>4. ASSUME NEW r \in Request, req'[r].files = {} PROVE Holds(r)
  BY <1>4 DEF Holds
<1>5. CASE Elsewhere
  <2>1. CASE ServerCrash
    BY <2>1 DEF ServerCrash, Idle, FilesOfRequests
  <2>2. CASE ~ServerCrash
    <3>1. req' = req
      BY <1>5, <2>2, WorkerRequests DEF Elsewhere, Faults, FilesOnly
    <3> QED
      BY <1>1, <1>3, <1>5, <3>1, ElsewhereFiles, AllKept
  <2> QED
    BY <2>1, <2>2
<1>6. ASSUME NEW r \in Request, NEW c \in Conversation, OpenPost(r, c) \/ ListForDelete(r, c)
      PROVE  FilesOfRequests'
  <2>1. Only(r) /\ req'[r].files = {} /\ UNCHANGED <<row, disk>>
    BY <1>1, <1>6 DEF OpenPost, ListForDelete, RequestsTyped, Only, Idle
  <2> QED
    BY <1>1, <1>3, <1>4, <2>1, OthersKept
<1>7. ASSUME NEW r \in Request, NEW t \in Turn, ReadForStop(r, t) PROVE FilesOfRequests'
  <2>1. Only(r) /\ req'[r].files = {} /\ UNCHANGED <<row, disk>>
    BY <1>1, <1>7 DEF ReadForStop, RequestsTyped, Only, Idle
  <2> QED
    BY <1>1, <1>3, <1>4, <2>1, OthersKept
<1>8. ASSUME NEW r \in Request, RefusePost(r) PROVE FilesOfRequests'
  <2>1. /\ Only(r) /\ req'[r].files = req[r].files /\ req'[r].pc = "discard"
        /\ UNCHANGED <<row, disk>>
    BY <1>1, <1>8 DEF RefusePost, RequestsTyped, Only, Move
  <2>2. Holds(r)
    BY <1>1, <2>1 DEF Holds, FilesOfRequests, Uploading
  <2> QED
    BY <1>1, <1>3, <2>1, <2>2, OthersKept
<1>9. ASSUME NEW r \in Request, CheckPost(r) PROVE FilesOfRequests'
  <2>1. Only(r) /\ UNCHANGED <<row, disk, convs>>
    BY <1>1, <1>9, CheckPostEffect DEF CheckPost
  <2>2. /\ req'[r].files = req[r].files /\ req'[r].pc = "insert" /\ req[r].pc = "check"
        /\ req'[r].conv = req[r].conv
    BY <1>1, <1>9, CheckPostEffect
  <2>3. Holds(r)
    BY <1>1, <2>1, <2>2 DEF Holds, FilesOfRequests, Uploading
  <2> QED
    BY <1>1, <1>3, <2>1, <2>3, OthersKept
<1>10. ASSUME NEW r \in Request, SaveUpload(r) PROVE FilesOfRequests'
  <2>1. PICK f \in Upload, label \in {"check", "discard"} :
          /\ disk[f] = Fresh
          /\ disk' = [disk EXCEPT ![f] = req[r].conv]
          /\ req' = [req EXCEPT ![r] = [@ EXCEPT !.pc = label, !.files = {f}]]
    BY <1>10 DEF SaveUpload
  <2>2. /\ Only(r) /\ req'[r].files = {f} /\ req'[r].pc \in {"check", "discard"}
        /\ req'[r].conv = req[r].conv
    BY <1>1, <2>1 DEF RequestsTyped, Only
  <2>3. row' = row /\ req[r].conv \in Conversation /\ f \in File
    BY <1>1, <1>10, Labels DEF SaveUpload, RequestsTyped
  <2>4. row[f] = NoTurn
    BY <1>1, <2>1, <2>3, ChatConstants
       DEF Recorded, Housed, FilesTyped, Present, Active, Finished
  <2>5. disk'[f] = req[r].conv /\ \A g \in File : g # f => disk'[g] = disk[g]
    BY <1>1, <2>1, <2>3 DEF FilesTyped
  <2>6. \A q \in Request : f \notin req[q].files
    BY <1>1, <2>1 DEF FilesOfRequests
  <2>7. Holds(r)
    BY <2>2, <2>3, <2>4, <2>5, <2>6, ChatConstants DEF Holds, Uploading
  <2>8. \A q \in Request : Spared(q)
    BY <1>2, <2>3, <2>5, <2>6 DEF Spared
  <2> QED
    BY <1>1, <2>2, <2>7, <2>8, OthersKept
<1>11. ASSUME NEW r \in Request, InsertTurn(r) PROVE FilesOfRequests'
  <2>1. Only(r) /\ req'[r].files = {}
    BY <1>1, <1>11, LastStepEffect DEF Idle
  <2>2. disk' = disk /\ \A f \in File : f \notin req[r].files => row'[f] = row[f]
    BY <1>11 DEF InsertTurn
  <2>3. \A q \in Request : q # r => Spared(q)
    BY <1>2, <2>2 DEF Spared
  <2> QED
    BY <1>1, <1>4, <2>1, <2>3, OthersKept
<1>12. ASSUME NEW r \in Request, Discard(r) PROVE FilesOfRequests'
  <2>1. Only(r) /\ req'[r].files = {}
    BY <1>1, <1>12, LastStepEffect DEF Idle
  <2>2. row' = row /\ \A f \in File : f \notin req[r].files => disk'[f] = disk[f]
    BY <1>12 DEF Discard
  <2>3. \A q \in Request : q # r => Spared(q)
    BY <1>2, <2>2 DEF Spared
  <2> QED
    BY <1>1, <1>4, <2>1, <2>3, OthersKept
<1>13. ASSUME NEW C, Drop(C), UNCHANGED disk PROVE \A q \in Request : Spared(q)
  BY <1>1, <1>2, <1>13, DropRecords DEF Spared
<1>14. ASSUME NEW r \in Request, DeleteRows(r) PROVE FilesOfRequests'
  <2>1. Only(r) /\ req[r].pc = "delete"
    BY <1>1, <1>14, DeleteRowsEffect
  <2>2. req'[r].files = req[r].files \/ req'[r].files = {}
    BY <1>1, <1>14 DEF DeleteRows, Leave, Move, Idle, RequestsTyped
  <2>3. req[r].files = {}
    BY <1>1, <2>1 DEF FilesOfRequests, Uploading
  <2>4. UNCHANGED disk /\ (Drop({req[r].conv}) \/ UNCHANGED row)
    BY <1>14 DEF DeleteRows
  <2> QED
    BY <1>1, <1>3, <1>4, <1>13, <2>1, <2>2, <2>3, <2>4, OthersKept
<1>15. ASSUME NEW r \in Request, RemoveTree(r) PROVE FilesOfRequests'
  <2>1. Only(r) /\ req'[r].files = {}
    BY <1>1, <1>15, LastStepEffect DEF Idle
  <2>2. /\ row' = row /\ convs' = convs /\ req[r].pc = "rmtree"
        /\ \A f \in File : disk'[f] = IF disk[f] = req[r].conv THEN Gone ELSE disk[f]
    BY <1>15 DEF RemoveTree
  <2>3. convs[req[r].conv] = "deleted" /\ req[r].conv \in Conversation
    BY <1>1, <2>2 DEF Removing, RequestsTyped
  <2>4. ASSUME NEW q \in Request, q # r PROVE Spared(q)
    <3> SUFFICES ASSUME NEW f \in req[q].files, disk[f] = req[r].conv
                 PROVE  GoneFor(q, f)
      BY <1>2, <2>2 DEF Spared
    <3> QED
      BY <1>1, <1>2, <2>2, <2>3 DEF FilesOfRequests, GoneFor
  <2> QED
    BY <1>1, <1>4, <2>1, <2>4, OthersKept
<1>16. ASSUME NEW r \in Request, FlagStop(r) \/ Abort(r) PROVE FilesOfRequests'
  <2>1. Only(r) /\ req'[r].files = {}
    BY <1>1, <1>16, LastStepEffect DEF Idle
  <2>2. UNCHANGED <<row, disk>>
    BY <1>16 DEF FlagStop, Abort, messages
  <2> QED
    BY <1>1, <1>3, <1>4, <2>1, <2>2, OthersKept
<1>17. ASSUME NEW r \in Request, NEW u \in User, ClearCache(r, u) PROVE FilesOfRequests'
  <2>1. Only(r) /\ req'[r].pc = "discard" /\ Drop(OwnedBy(u)) /\ UNCHANGED disk
    BY <1>1, <1>17, ClearCacheEffect DEF ClearCache
  <2>2. req'[r].files = {f \in File : \E c \in OwnedBy(u) : row[f] \in InConv(c)}
    BY <1>1, <1>17 DEF ClearCache, RequestsTyped
  <2>3. ASSUME NEW f \in req'[r].files
        PROVE  row'[f] = NoTurn /\ disk[f] # Fresh /\ row[f] # NoTurn
    <3>1. PICK c \in OwnedBy(u) : f \in File /\ row[f] \in InConv(c)
      BY <2>2, <2>3
    <3>2. row'[f] = NoTurn
      BY <2>1, <3>1 DEF Drop
    <3>3. row[f] # NoTurn
      BY <3>1, Labels DEF InConv
    <3>4. disk[f] # Fresh
      BY <1>1, <3>1, <3>3, ChatConstants
         DEF Recorded, Housed, FilesTyped, Present, Active, Finished
    <3> QED
      BY <3>2, <3>3, <3>4
  <2>4. Holds(r)
    BY <1>1, <2>1, <2>3 DEF Holds, FilesOfRequests, Uploading
  <2> QED
    BY <1>1, <1>13, <2>1, <2>4, OthersKept
<1>18. CASE SaveImage
  <2>1. req' = req /\ row' = row
    BY <1>18 DEF SaveImage
  <2>2. PICK f \in Image : disk[f] = Fresh /\ \A g \in File : g # f => disk'[g] = disk[g]
    BY <1>1, <1>18 DEF SaveImage, FilesTyped
  <2>3. \A q \in Request : Spared(q)
    BY <1>2, <2>1, <2>2 DEF Spared
  <2> QED
    BY <1>1, <2>1, <2>3, AllKept
<1>19. CASE Attach \/ Ditch
  <2>1. /\ req' = req /\ image # NoFile
        /\ \A f \in File : f # image => row'[f] = row[f] /\ disk'[f] = disk[f]
    BY <1>1, <1>19 DEF Attach, Ditch, FilesTyped, WorkerTyped
  <2>2. \A q \in Request : Spared(q)
    BY <1>1, <1>2, <2>1 DEF Spared, FileInHand
  <2> QED
    BY <1>1, <2>1, <2>2, AllKept
<1> QED
  BY <1>5, <1>6, <1>7, <1>8, <1>9, <1>10, <1>11, <1>12, <1>14, <1>15, <1>16, <1>17, <1>18,
     <1>19, FileCases DEF Reads

(* The file in the hand of the worker has no record yet, no request holds   *)
(* it, and it lies where its reply belongs.                                 *)
LEMMA NextFileInHand == ASSUME IInv, [Next]_vars PROVE FileInHand'
<1>1. /\ FilesTyped /\ StoreTyped /\ RequestsTyped /\ WorkerTyped /\ ChatTypeOK /\ Turns
      /\ Housed /\ Held /\ FilesOfRequests /\ Recorded /\ FileInHand /\ Removing
  BY DEF IInv, ChatTypeOK, Files, Turns, Requests
<1>2. image # NoFile => image \in File /\ cur \in Turn /\ state[cur] \in {"running", "deleted"}
  BY <1>1, Labels DEF WorkerTyped, Held, Busy
<1> DEFINE Lies == disk[image] = conv[cur] \/ state[cur] = "deleted"
           Loose(f) == row[f] = NoTurn /\ disk[f] # Fresh /\ \A r \in Request : f \notin req[r].files
<1>3. image # NoFile => Loose(image) /\ (pc = "attach" => Lies)
  BY <1>1 DEF FileInHand
<1>4. (image' # NoFile => Loose(image)' /\ (pc' = "attach" => Lies')) => FileInHand'
  BY DEF FileInHand
<1>5. ASSUME NEW r \in Request, Only(r), \A f \in req'[r].files : row[f] # NoTurn \/ f \in req[r].files,
             UNCHANGED <<pc, cur, image, stopping>>,
             image # NoFile => /\ row'[image] = NoTurn /\ disk'[image] # Fresh
                               /\ pc = "attach" => Lies'
      PROVE  FileInHand'
  <2>1. \A q \in Request : q # r => req'[q] = req[q]
    BY <1>5 DEF Only
  <2> QED
    BY <1>3, <1>4, <1>5, <2>1
<1>6. CASE Elsewhere
  <2>1. /\ UNCHANGED <<row, disk, conv>>
        /\ \A t \in Turn : state[t] = "deleted" => state'[t] = "deleted"
    BY <1>1, <1>6, ElsewhereFiles, ElsewhereTurns
  <2>2. image' # NoFile => image' = image /\ cur' = cur /\ (pc' = "attach" => pc = "attach")
    <3>1. CASE WorkerOnly \/ SaveFails
      BY <1>1, <3>1 DEF WorkerOnly, StartWorker, CheckRunning, ClaimNothing, ExitLoop, Goto,
           CheckDrawing, AwaitDrawing, LeaveEnrichment, CheckEnrichment, AwaitEnrichment,
           CheckAgent, AgentFails, ReadEvent, Check, Await, SaveFails, WorkerTyped
    <3>2. CASE Faults \/ UNCHANGED vars
      BY <3>2 DEF Faults, Sigterm, WorkerCrash, ServerCrash, vars, worker
    <3>3. CASE Recover \/ Look \/ Snapshot \/ Settles
      BY <1>1, <3>3, Labels DEF Recover, Look, Snapshot, Settles, Finish, MarkCancelled, Fail,
           Settle, Goto, WorkerTyped, StoreTyped
    <3>4. ASSUME NEW c \in Conversation, CreateConversation(c)
          PROVE  UNCHANGED <<image, cur, pc>>
      BY <3>4 DEF CreateConversation, worker
    <3>5. ASSUME NEW t \in Turn, ClaimNext(t)
          PROVE  image' = NoFile
      BY <1>1, <3>5 DEF ClaimNext, WorkerTyped
    <3> QED
      BY <1>6, <3>1, <3>2, <3>3, <3>4, <3>5 DEF Elsewhere
  <2>3. \A f \in File : (\A r \in Request : f \notin req[r].files) =>
                         (\A r \in Request : f \notin req'[r].files)
    <3>1. CASE ServerCrash
      BY <3>1 DEF ServerCrash, Idle
    <3>2. CASE ~ServerCrash
      <4>1. req' = req
        BY <1>6, <3>2, WorkerRequests DEF Elsewhere, Faults, FilesOnly
      <4> QED
        BY <4>1
    <3> QED
      BY <3>1, <3>2
  <2> QED
    BY <1>2, <1>3, <1>4, <2>1, <2>2, <2>3
<1>7. ASSUME NEW r \in Request,
             Reads(r) \/ SaveUpload(r) \/ CheckPost(r) \/ InsertTurn(r) \/ Discard(r)
             \/ DeleteRows(r) \/ RemoveTree(r) \/ FlagStop(r) \/ Abort(r)
             \/ \E u \in User : ClearCache(r, u)
      PROVE  UNCHANGED <<pc, cur, image, stopping>>
  BY <1>7, ClientWorker DEF Reads, RequestsOnly
<1>8. ASSUME NEW r \in Request, Reads(r) PROVE FileInHand'
  <2>1. Only(r) /\ \A f \in req'[r].files : f \in req[r].files
    <3>1. ASSUME NEW v, req' = [req EXCEPT ![r] = v], v.files \subseteq req[r].files
          PROVE  Only(r) /\ \A f \in req'[r].files : f \in req[r].files
      BY <1>1, <3>1 DEF RequestsTyped, Only
    <3>2. CASE \E c \in Conversation : OpenPost(r, c) \/ ListForDelete(r, c)
      BY <3>1, <3>2 DEF OpenPost, ListForDelete, Idle
    <3>3. CASE \E t \in Turn : ReadForStop(r, t)
      BY <3>1, <3>3 DEF ReadForStop, Idle
    <3>4. CASE RefusePost(r)
      <4>1. req' = [req EXCEPT ![r] = [req[r] EXCEPT !.pc = "discard"]]
        BY <3>4 DEF RefusePost, Move
      <4>2. req[r] \in RequestRecord
        BY <1>1 DEF RequestsTyped, RequestRecord
      <4>3. [req[r] EXCEPT !.pc = "discard"].files = req[r].files
        BY <4>2 DEF RequestRecord
      <4> QED
        BY <3>1, <4>1, <4>3
    <3> QED
      BY <1>8, <3>2, <3>3, <3>4 DEF Reads
  <2>2. UNCHANGED <<row, disk, conv, state>>
    BY <1>8 DEF Reads, OpenPost, ListForDelete, ReadForStop, RefusePost, messages
  <2> QED
    BY <1>3, <1>5, <1>7, <1>8, <2>1, <2>2
<1>9. ASSUME NEW r \in Request, SaveUpload(r) PROVE FileInHand'
  <2>1. PICK f \in Upload, label \in {"check", "discard"} :
          /\ disk[f] = Fresh
          /\ disk' = [disk EXCEPT ![f] = req[r].conv]
          /\ req' = [req EXCEPT ![r] = [@ EXCEPT !.pc = label, !.files = {f}]]
    BY <1>9 DEF SaveUpload
  <2>2. UNCHANGED <<row, conv, state>>
    BY <1>9 DEF SaveUpload, messages
  <2>3. UNCHANGED <<pc, cur, image, stopping>>
    BY <1>7, <1>9
  <2>4. \A q \in Request : req'[q].files \in {req[q].files, {f}}
    BY <1>1, <2>1 DEF RequestsTyped
  <2>5. image # NoFile => image # f /\ disk'[image] = disk[image]
    BY <1>1, <1>2, <1>3, <2>1 DEF FilesTyped
  <2> QED
    BY <1>3, <1>4, <2>2, <2>3, <2>4, <2>5
<1>10. ASSUME NEW r \in Request, CheckPost(r) PROVE FileInHand'
  <2>1. Only(r) /\ req'[r].files = req[r].files
    BY <1>1, <1>10, CheckPostEffect
  <2>2. /\ UNCHANGED <<row, disk, state>> /\ turns + 1 \in Turn
        /\ conv' = [conv EXCEPT ![turns + 1] = req[r].conv]
    BY <1>10 DEF CheckPost
  <2>3. state[turns + 1] = "absent"
    BY <1>1, <2>2 DEF Turns, Numbered, StoreTyped
  <2>4. image # NoFile => conv'[cur] = conv[cur]
    BY <1>1, <1>2, <2>2, <2>3 DEF StoreTyped
  <2> QED
    BY <1>3, <1>5, <1>7, <1>10, <2>1, <2>2, <2>4
<1>11. ASSUME NEW r \in Request, InsertTurn(r) PROVE FileInHand'
  <2>1. Only(r) /\ req'[r].files = {}
    BY <1>1, <1>11, LastStepEffect DEF Idle
  <2>2. /\ UNCHANGED <<disk, conv>> /\ state[req[r].turn] = "absent" /\ req[r].turn \in Turn
        /\ \A f \in File : f \notin req[r].files => row'[f] = row[f]
        /\ \A t \in Turn : t # req[r].turn => state'[t] = state[t]
    BY <1>1, <1>11 DEF InsertTurn, IInv, Requests, Inserting, RequestsTyped, StoreTyped
  <2>3. image # NoFile => row'[image] = row[image] /\ state'[cur] = state[cur]
    BY <1>2, <1>3, <2>2
  <2> QED
    BY <1>3, <1>5, <1>7, <1>11, <2>1, <2>2, <2>3
<1>12. ASSUME NEW r \in Request, Discard(r) PROVE FileInHand'
  <2>1. Only(r) /\ req'[r].files = {}
    BY <1>1, <1>12, LastStepEffect DEF Idle
  <2>2. UNCHANGED <<row, conv, state>> /\ \A f \in File : f \notin req[r].files => disk'[f] = disk[f]
    BY <1>12 DEF Discard, messages
  <2>3. image # NoFile => disk'[image] = disk[image]
    BY <1>2, <1>3, <2>2
  <2> QED
    BY <1>3, <1>5, <1>7, <1>12, <2>1, <2>2, <2>3
<1>13. ASSUME NEW C, Drop(C), image # NoFile
       PROVE  /\ row'[image] = NoTurn /\ conv' = conv
              /\ state[cur] = "deleted" => state'[cur] = "deleted"
  <2>1. state[cur] = "deleted" => state'[cur] = "deleted"
    BY <1>1, <1>2, <1>13 DEF Drop, InConv, Present, Active, Finished
  <2> QED
    BY <1>1, <1>2, <1>3, <1>13, <2>1, DropRecords
<1>14. ASSUME NEW r \in Request, DeleteRows(r) PROVE FileInHand'
  <2>1. Only(r)
    BY <1>1, <1>14, DeleteRowsEffect
  <2>2. \A f \in req'[r].files : f \in req[r].files
    BY <1>1, <1>14 DEF DeleteRows, Leave, Move, Idle, RequestsTyped
  <2>3. disk' = disk /\ (Drop({req[r].conv}) \/ UNCHANGED <<row, conv, state>>)
    BY <1>14 DEF DeleteRows, messages
  <2> QED
    BY <1>3, <1>5, <1>7, <1>13, <1>14, <2>1, <2>2, <2>3
<1>15. ASSUME NEW r \in Request, RemoveTree(r) PROVE FileInHand'
  <2>1. Only(r) /\ req'[r].files = {}
    BY <1>1, <1>15, LastStepEffect DEF Idle
  <2>2. /\ UNCHANGED <<row, conv, state>> /\ req[r].pc = "rmtree"
        /\ \A f \in File : disk'[f] = IF disk[f] = req[r].conv THEN Gone ELSE disk[f]
    BY <1>15 DEF RemoveTree, messages
  <2>3. convs[req[r].conv] = "deleted"
    BY <1>1, <2>2 DEF Removing
  <2>4. image # NoFile => disk'[image] # Fresh
    BY <1>2, <1>3, <2>2, ChatConstants
  <2>5. ASSUME image # NoFile, pc = "attach" PROVE Lies'
    <3>0. UNCHANGED <<pc, cur, image, stopping>>
      BY <1>7, <1>15
    <3>1. CASE state[cur] = "deleted"
      BY <2>2, <3>0, <3>1
    <3>2. CASE state[cur] # "deleted"
      <4>1. disk[image] = conv[cur] /\ state[cur] = "running" /\ cur \in Turn /\ image \in File
        BY <1>2, <1>3, <2>5, <3>2
      <4>2. convs[conv[cur]] = "live"
        BY <1>1, <4>1 DEF Housed, Present, Active
      <4>3. disk'[image] = disk[image]
        BY <2>2, <2>3, <4>1, <4>2
      <4> QED
        BY <2>2, <3>0, <4>1, <4>3
    <3> QED
      BY <3>1, <3>2
  <2> QED
    BY <1>3, <1>5, <1>7, <1>15, <2>1, <2>2, <2>4, <2>5
<1>16. ASSUME NEW r \in Request, FlagStop(r) \/ Abort(r) PROVE FileInHand'
  <2>1. Only(r) /\ req'[r].files = {}
    BY <1>1, <1>16, LastStepEffect DEF Idle
  <2>2. UNCHANGED <<row, disk, conv, state>>
    BY <1>16 DEF FlagStop, Abort, messages
  <2> QED
    BY <1>3, <1>5, <1>7, <1>16, <2>1, <2>2
<1>17. ASSUME NEW r \in Request, NEW u \in User, ClearCache(r, u) PROVE FileInHand'
  <2>1. Only(r) /\ Drop(OwnedBy(u)) /\ disk' = disk
    BY <1>1, <1>17, ClearCacheEffect DEF ClearCache
  <2>2. req'[r].files = {f \in File : \E c \in OwnedBy(u) : row[f] \in InConv(c)}
    BY <1>1, <1>17 DEF ClearCache, RequestsTyped
  <2>3. \A f \in req'[r].files : row[f] # NoTurn
    BY <2>2, Labels DEF InConv
  <2> QED
    BY <1>3, <1>5, <1>7, <1>13, <1>17, <2>1, <2>3
<1>18. CASE SaveImage
  <2>1. /\ UNCHANGED <<row, req, conv, state>> /\ pc = "save" /\ pc' = "attach" /\ cur' = cur
        /\ image' \in Image /\ disk[image'] = Fresh
        /\ disk' = [disk EXCEPT ![image'] = conv[cur]]
    BY <1>18 DEF SaveImage, Goto, messages
  <2>2. image' \in File /\ disk'[image'] = conv[cur]
    BY <1>1, <2>1, Labels DEF FilesTyped
  <2>3. conv[cur] \in Conversation
    BY <1>1, <2>1 DEF WorkerTyped, Busy, Held, Housed, NoTurn
  <2>4. row[image'] = NoTurn
    BY <1>1, <2>1, <2>2, ChatConstants
       DEF Recorded, Housed, FilesTyped, Present, Active, Finished
  <2>5. \A r \in Request : image' \notin req[r].files
    BY <1>1, <2>1 DEF FilesOfRequests
  <2> QED
    BY <1>4, <2>1, <2>2, <2>3, <2>4, <2>5, ChatConstants
<1>19. CASE Attach
  <2>1. \/ image' = NoFile
        \/ UNCHANGED <<row, disk, req, image>> /\ pc' = "ditch"
    BY <1>19 DEF Attach, Goto
  <2> QED
    BY <1>3, <1>4, <2>1
<1>20. CASE Ditch
  BY <1>4, <1>20 DEF Ditch
<1> QED
  BY <1>6, <1>8, <1>9, <1>10, <1>11, <1>12, <1>14, <1>15, <1>16, <1>17, <1>18, <1>19, <1>20,
     FileCases

------------------------------------------------------------------------------
(* The theorems                                                              *)

(* The invariant is kept by every step. *)
LEMMA NextIInv == IInv /\ [Next]_vars => IInv'
<1> SUFFICES ASSUME IInv, [Next]_vars PROVE IInv'
  OBVIOUS
<1>1. ChatTypeOK /\ Turns /\ Housed /\ Held /\ Inserting /\ Removing
  BY DEF IInv, Turns, Requests
<1>2. ChatTypeOK' /\ Turns' /\ Inserting' /\ Removing'
  BY <1>1, NextTypeOK, NextTurns, NextInserting, NextRemoving
<1>3. Files'
  BY NextRecorded, NextFilesOfRequests, NextFileInHand DEF Files
<1> QED
  BY <1>2, <1>3 DEF IInv, Requests

(* The invariant holds in every reachable state. *)
LEMMA Invariance == Spec => []IInv
BY InitIInv, NextIInv, PTL DEF Spec

(* Every variable keeps its type, for any instance: chat_store.py's columns  *)
(* and the labels of the worker's code.                                      *)
THEOREM ChatTypeCorrect == Spec => []ChatTypeOK
<1>1. IInv => ChatTypeOK
  BY DEF IInv
<1> QED
  BY <1>1, Invariance, PTL

(* Between recovery and exit only the worker's own reply is in state         *)
(* running, whatever the clients do.                                         *)
THEOREM RunningIsOwned == Spec => []WorkerOwnsRunning
<1>1. IInv => WorkerOwnsRunning
  BY DEF IInv, Turns
<1> QED
  BY <1>1, Invariance, PTL

(* Every attachment record has its file in the directory of its              *)
(* conversation, against every order of uploads, imports and deletions.      *)
THEOREM RecordsKeepFiles == Spec => []RecordsHaveFiles
<1>1. IInv => RecordsHaveFiles
  BY DEF IInv, ChatTypeOK, FilesTyped, Files, Recorded, RecordsHaveFiles
<1> QED
  BY <1>1, Invariance, PTL

(* A reply that ended is never reopened or rewritten.                        *)
THEOREM FinishedIsFinal == Spec => FinishedStays
<1>1. IInv /\ [Next]_vars =>
        [\A t \in Turn : state[t] \in Finished =>
           \/ state'[t] = state[t] /\ content'[t] = content[t]
           \/ state'[t] = "deleted"]_vars
  BY NextKeeps DEF IInv, Requests, Kept
<1> QED
  BY <1>1, Invariance, PTL DEF Spec, FinishedStays

------------------------------------------------------------------------------
(* One post at a time                                                        *)

(* No two requests are between the check and the transaction of create_turn  *)
(* in the same conversation.                                                 *)
OnePostAtATime ==
  \A r, q \in Request :
    req[r].pc = "insert" /\ req[q].pc = "insert" /\ req[r].conv = req[q].conv => r = q

(* Turns are stamped in the order of their ids.                              *)
Stamped == \A s, t \in Turn : s < t /\ t <= turns => stamp[s] < stamp[t]

(* The turn in progress is the last of its conversation, and the one to be   *)
(* inserted will be: whatever else is there has ended.                       *)
LastInProgress ==
  \A s, t \in Turn :
    conv[s] = conv[t] /\ state[s] \in Present /\ state[t] \in Active => s <= t

LastInserted ==
  \A r \in Request : req[r].pc = "insert" =>
    \A s \in InConv(req[r].conv) : s < req[r].turn /\ state[s] \in Finished

(* A turn is deleted with its conversation.                                  *)
DeletedTogether == \A t \in Turn : state[t] = "deleted" => convs[conv[t]] = "deleted"

Answering ==
  Stamped /\ LastInProgress /\ LastInserted /\ DeletedTogether /\ AnswersOwnQuestion

LEMMA InitAnswering == Init => Answering
BY Labels
   DEF Init, Answering, Stamped, LastInProgress, LastInserted, DeletedTogether,
       AnswersOwnQuestion, Idle, Present, Active, Finished, Turn

(* Most steps neither number nor insert a turn: a turn that is there was, one *)
(* in progress was, and one that ended stays so or is deleted.                *)
Onward ==
  /\ UNCHANGED <<turns, conv, stamp>>
  /\ \A t \in Turn : /\ state'[t] \in Present => state[t] \in Present
                     /\ state'[t] \in Active => state[t] \in Active
  /\ \A t \in Turn : state'[t] = "deleted" => convs'[conv[t]] = "deleted"
  /\ \A r \in Request : req'[r].pc = "insert" => req'[r] = req[r]
  /\ AnswersOwnQuestion'

LEMMA OnwardKeeps ==
  ASSUME ChatTypeOK, Answering, Kept, Onward PROVE Answering'
<1> USE DEF ChatTypeOK, StoreTyped, Answering, Onward
<1>1. Stamped' /\ DeletedTogether'
  BY DEF Stamped, DeletedTogether
<1>2. LastInProgress'
  BY DEF LastInProgress
<1>3. LastInserted'
  <2> SUFFICES ASSUME NEW r \in Request, req'[r].pc = "insert",
                      NEW s \in Turn, conv'[s] = req'[r].conv, state'[s] \in Present
               PROVE  s < req'[r].turn /\ state'[s] \in Finished
    BY DEF LastInserted, InConv
  <2>1. req'[r] = req[r] /\ conv[s] = req[r].conv /\ state[s] \in Present
    OBVIOUS
  <2>2. s < req[r].turn /\ state[s] \in Finished
    BY <2>1 DEF LastInserted, InConv
  <2>3. state'[s] = state[s]
    BY <2>2 DEF Kept, Present, Active, Finished
  <2> QED
    BY <2>1, <2>2, <2>3
<1> QED
  BY <1>1, <1>2, <1>3

(* The question the worker finds is the one of its reply: while the reply is  *)
(* in progress its turn is the last, and with the conversation all are gone.  *)
LEMMA OwnQuestion ==
  ASSUME ChatTypeOK, Turns, Answering, cur # NoTurn, NEW q \in Preceding(cur)
  PROVE  q = cur
<1> USE ChatConstants, Labels DEF ChatTypeOK, StoreTyped, WorkerTyped, Turns, Answering
<1>1. cur \in Turn /\ conv[cur] \in Conversation
  BY DEF Held, Housed
<1>2. q \in Turn /\ conv[q] = conv[cur] /\ state[q] \in Present
  BY DEF Preceding, InConv
<1>3. CASE state[cur] = "deleted"
  BY <1>1, <1>2, <1>3 DEF DeletedTogether, Housed
<1>4. CASE state[cur] = "running"
  <2>1. cur \in InConv(conv[cur]) /\ stamp[cur] < stamp[cur] + Gap
    BY <1>1, <1>4 DEF InConv, Present, Active, Gap
  <2>2. stamp[cur] <= stamp[q]
    BY <2>1 DEF Preceding
  <2>3. q <= cur
    BY <1>1, <1>2, <1>4 DEF LastInProgress, Active
  <2>4. cur <= turns
    BY <1>1, <1>4 DEF Numbered
  <2>5. CASE q < cur
    BY <1>1, <1>2, <2>2, <2>4, <2>5 DEF Stamped
  <2> QED
    BY <1>1, <1>2, <2>3, <2>5
<1> QED
  BY <1>1, <1>3, <1>4 DEF Held

(* The steps of requests that neither number nor insert a turn.               *)
LEMMA DroppedOnward ==
  ASSUME ChatTypeOK, Turns, Answering, NEW C \in SUBSET Conversation, Drop(C),
         NEW r \in Request, Only(r), req'[r].pc # "insert", source' = source
  PROVE  Onward
<1> USE DEF ChatTypeOK, StoreTyped, Answering
<1>1. UNCHANGED <<turns, conv, stamp>> /\ AnswersOwnQuestion'
  BY DEF Drop, AnswersOwnQuestion
<1>2. \A q \in Request : req'[q].pc = "insert" => req'[q] = req[q]
  BY DEF Only
<1>3. \A t \in Turn : /\ state'[t] \in Present => state[t] \in Present
                      /\ state'[t] \in Active => state[t] \in Active
  BY DEF Drop, Present, Active, Finished
<1>4. ASSUME NEW t \in Turn, state'[t] = "deleted" PROVE convs'[conv[t]] = "deleted"
  <2>1. CASE \E c \in C : t \in InConv(c)
    BY <2>1 DEF Drop, InConv
  <2>2. CASE ~\E c \in C : t \in InConv(c)
    <3>1. state[t] = "deleted"
      BY <1>4, <2>2 DEF Drop
    <3>2. convs[conv[t]] = "deleted" /\ conv[t] \in Conversation
      BY <3>1 DEF DeletedTogether, Turns, Housed
    <3> QED
      BY <3>2 DEF Drop
  <2> QED
    BY <2>1, <2>2
<1> QED
  BY <1>1, <1>2, <1>3, <1>4 DEF Onward

LEMMA ClearingReadsNoQuestion ==
  ASSUME NEW r \in Request, NEW u \in User, ClearCache(r, u)
  PROVE  UNCHANGED source
BY DEF ClearCache, history

LEMMA RequestsReadNoQuestion ==
  ASSUME RequestsOnly \/ ServerCrash \/ \E r \in Request : DeleteRows(r)
  PROVE  UNCHANGED source
<1>1. ASSUME NEW r \in Request, NEW c \in Conversation, OpenPost(r, c) \/ ListForDelete(r, c)
      PROVE  UNCHANGED source
  BY <1>1 DEF OpenPost, ListForDelete, history
<1>2. ASSUME NEW r \in Request, NEW t \in Turn, ReadForStop(r, t) PROVE UNCHANGED source
  BY <1>2 DEF ReadForStop, history
<1>3. ASSUME NEW r \in Request, SaveUpload(r) \/ RefusePost(r) PROVE UNCHANGED source
  <2>1. UNCHANGED history
    BY <1>3, Zenon DEF SaveUpload, RefusePost
  <2> QED
    BY <2>1 DEF history
<1>4. ASSUME NEW r \in Request, Discard(r) \/ RemoveTree(r) PROVE UNCHANGED source
  BY <1>4 DEF Discard, RemoveTree, history
<1>5. ASSUME NEW r \in Request, Abort(r) PROVE UNCHANGED source
  BY <1>5 DEF Abort, history
<1>6. CASE ServerCrash
  BY <1>6 DEF ServerCrash, history
<1>7. ASSUME NEW r \in Request, DeleteRows(r) PROVE UNCHANGED source
  BY <1>7 DEF DeleteRows, history
<1> QED
  BY <1>1, <1>2, <1>3, <1>4, <1>5, <1>6, <1>7 DEF RequestsOnly

LEMMA RequestsGoOnward ==
  ASSUME ChatTypeOK, Turns, Answering, NEW r \in Request,
         \/ RequestsOnly \/ ServerCrash
         \/ DeleteRows(r) \/ FlagStop(r) \/ \E u \in User : ClearCache(r, u)
  PROVE  Onward
<1> USE DEF ChatTypeOK, StoreTyped, Answering
<1>1. CASE RequestsOnly \/ ServerCrash
  <2>1. UNCHANGED <<convs, messages>>
    BY <1>1, QuietStore DEF Quiet, Faults
  <2>2. source' = source
    BY <1>1, RequestsReadNoQuestion
  <2>3. \A q \in Request : req'[q].pc = "insert" => req'[q] = req[q]
    BY <1>1, RequestsOnlyEffect DEF Only, ServerCrash, Idle
  <2> QED
    BY <2>1, <2>2, <2>3 DEF Onward, messages, history, AnswersOwnQuestion, DeletedTogether
<1>2. CASE DeleteRows(r)
  <2>1. source' = source /\ {req[r].conv} \in SUBSET Conversation
    BY <1>2, DeleteRowsEffect DEF DeleteRows, history
  <2>2. Only(r) /\ req'[r].pc # "insert"
    BY <1>2, DeleteRowsEffect
  <2>3. CASE Drop({req[r].conv})
    BY <2>1, <2>2, <2>3, DroppedOnward
  <2>4. CASE UNCHANGED <<convs, messages>>
    BY <2>1, <2>2, <2>4 DEF Onward, messages, Only, AnswersOwnQuestion, DeletedTogether
  <2> QED
    BY <1>2, <2>3, <2>4 DEF DeleteRows
<1>3. ASSUME NEW u \in User, ClearCache(r, u) PROVE Onward
  <2>1. source' = source /\ OwnedBy(u) \in SUBSET Conversation
    BY <1>3, ClearingReadsNoQuestion DEF OwnedBy
  <2>2. Only(r) /\ req'[r].pc # "insert" /\ Drop(OwnedBy(u))
    BY <1>3, ClearCacheEffect
  <2> QED
    BY <2>1, <2>2, DroppedOnward DEF history
<1>4. CASE FlagStop(r)
  <2>1. Only(r) /\ req'[r].pc # "insert"
    BY <1>4, LastStepEffect DEF Idle
  <2> QED
    BY <1>4, <2>1 DEF FlagStop, Onward, Only, AnswersOwnQuestion, DeletedTogether
<1> QED
  BY <1>1, <1>2, <1>3, <1>4

LEMMA WorkerGoesOnward ==
  ASSUME ChatTypeOK, Turns, Answering,
         \/ WorkerOnly \/ FilesOnly \/ Sigterm \/ WorkerCrash \/ UNCHANGED vars
         \/ Recover \/ Look \/ Snapshot \/ Settles \/ \E t \in Turn : ClaimNext(t)
         \/ \E c \in Conversation : CreateConversation(c)
  PROVE  Onward
<1> USE DEF ChatTypeOK, StoreTyped, Answering
<1>1. req' = req
  BY WorkerRequests
<1>2. CASE WorkerOnly \/ FilesOnly \/ Sigterm \/ WorkerCrash \/ UNCHANGED vars
  <2>1. UNCHANGED <<convs, messages>>
    BY <1>2, QuietStore DEF Quiet, Faults
  <2>2. source' = source
    BY <1>2 DEF vars, history, WorkerOnly, StartWorker, CheckRunning, ClaimNothing, ExitLoop,
                CheckDrawing, AwaitDrawing, LeaveEnrichment, CheckEnrichment,
                AwaitEnrichment, CheckAgent, AgentFails, ReadEvent, Check, Await, FilesOnly,
                SaveImage, SaveFails, Attach, Ditch, Sigterm, WorkerCrash
  <2> QED
    BY <1>1, <2>1, <2>2 DEF Onward, messages, AnswersOwnQuestion, DeletedTogether
<1>3. CASE Recover
  BY <1>1, <1>3 DEF Recover, Recovered, Interrupted, Onward, history, Present, Active,
                    Finished, AnswersOwnQuestion, DeletedTogether
<1>4. CASE Look
  <2>1. cur \in Turn
    BY <1>4 DEF Look, WorkerTyped, Busy
  <2>2. \/ source' = source
        \/ \E q \in Preceding(cur) : source' = [source EXCEPT ![cur] = q]
    BY <1>4 DEF Look
  <2>3. cur # NoTurn
    BY <2>1, Labels
  <2>4. AnswersOwnQuestion'
    BY <2>1, <2>2, <2>3, OwnQuestion DEF AnswersOwnQuestion, HistoryTyped
  <2> QED
    BY <1>1, <1>4, <2>4 DEF Look, Onward, DeletedTogether
<1>5. CASE Snapshot
  BY <1>1, <1>5 DEF Snapshot, Onward, history, AnswersOwnQuestion, DeletedTogether
<1>6. CASE Settles
  <2>1. UNCHANGED <<turns, conv, stamp, convs, source>>
    BY <1>6 DEF Settles, Finish, MarkCancelled, Fail, Settle, history
  <2>2. \/ state' = state
        \/ /\ state[cur] \in Present
           /\ \E s \in Finished : state' = [state EXCEPT ![cur] = s]
    BY <1>6 DEF Settles, Finish, MarkCancelled, Fail, Settle, Exists, Finished
  <2> QED
    BY <1>1, <2>1, <2>2 DEF Onward, Present, Active, Finished, AnswersOwnQuestion,
                            DeletedTogether
<1>7. ASSUME NEW t \in Turn, ClaimNext(t) PROVE Onward
  <2>1. /\ UNCHANGED <<turns, conv, stamp, convs, source>>
        /\ state[t] = "queued" /\ state' = [state EXCEPT ![t] = "running"]
    BY <1>7 DEF ClaimNext, Claimable
  <2> QED
    BY <1>1, <2>1 DEF Onward, Present, Active, Finished, AnswersOwnQuestion, DeletedTogether
<1>8. ASSUME NEW c \in Conversation, CreateConversation(c) PROVE Onward
  BY <1>1, <1>8 DEF CreateConversation, messages, history, Onward, AnswersOwnQuestion,
                    DeletedTogether
<1> QED
  BY <1>2, <1>3, <1>4, <1>5, <1>6, <1>7, <1>8

(* A turn gets its number when all others of its conversation have ended.     *)
LEMMA NumberedLast ==
  ASSUME ChatTypeOK, Turns, Inserting, Answering, NEW r \in Request, CheckPost(r)
  PROVE  Answering'
<1> USE ChatConstants, Labels DEF ChatTypeOK, StoreTyped, Answering
<1> DEFINE t == turns + 1
<1>1. /\ t \in Turn /\ turns' = t /\ UNCHANGED <<convs, state, source>>
      /\ conv' = [conv EXCEPT ![t] = req[r].conv] /\ ActiveIn(req[r].conv) = {}
      /\ \E step \in {1, Gap} : stamp' = [stamp EXCEPT ![t] = LastStamp + step]
  BY DEF CheckPost, MayPost, history
<1>2. /\ req'[r].turn = t /\ req'[r].conv = req[r].conv
      /\ \A q \in Request : q # r => req'[q] = req[q]
  BY CheckPostEffect DEF Only
<1>3. state[t] = "absent" /\ turns \in Nat
  BY <1>1 DEF Turns, Numbered, Turn
<1>4. Stamped'
  <2>1. ASSUME NEW s \in Turn, s < t PROVE stamp[s] <= LastStamp
    <3>1. turns \in Turn /\ LastStamp = stamp[turns] /\ s <= turns
      BY <1>1, <1>3, <2>1 DEF LastStamp, Turn
    <3>2. stamp[s] \in Nat /\ stamp[turns] \in Nat /\ s \in Nat
      BY <3>1 DEF Turn
    <3>3. CASE s = turns
      BY <3>1, <3>2, <3>3
    <3>4. CASE s < turns
      BY <3>1, <3>2, <3>4, <1>3 DEF Stamped
    <3> QED
      BY <3>1, <3>2, <3>3, <3>4, <1>3
  <2>2. LastStamp \in Nat
    BY <1>1, <1>3 DEF LastStamp, Turn
  <2>3. stamp'[t] > LastStamp /\ stamp'[t] \in Nat /\ \A s \in Turn : s # t => stamp'[s] = stamp[s]
    BY <1>1, <2>2 DEF Gap
  <2>4. ASSUME NEW s \in Turn, NEW u \in Turn, s < u, u <= t PROVE stamp'[s] < stamp'[u]
    <3>1. CASE u = t
      <4>1. s \in Nat /\ s < t /\ s # t /\ stamp[s] \in Nat
        BY <1>3, <2>4, <3>1
      <4>2. stamp[s] <= LastStamp /\ stamp'[s] = stamp[s]
        BY <2>1, <2>3, <4>1
      <4> HIDE DEF t
      <4> QED
        BY <2>2, <2>3, <3>1, <4>1, <4>2
    <3>2. CASE u # t
      BY <1>3, <2>3, <2>4, <3>2 DEF Stamped
    <3> QED
      BY <3>1, <3>2
  <2> QED
    BY <1>1, <2>4 DEF Stamped
<1>5. LastInProgress' /\ DeletedTogether' /\ AnswersOwnQuestion'
  BY <1>1, <1>3 DEF LastInProgress, DeletedTogether, AnswersOwnQuestion, Present, Active, Finished
<1>6. LastInserted'
  <2> SUFFICES ASSUME NEW q \in Request, req'[q].pc = "insert",
                      NEW s \in Turn, conv'[s] = req'[q].conv, state[s] \in Present
               PROVE  s < req'[q].turn /\ state[s] \in Finished
    BY <1>1 DEF LastInserted, InConv
  <2>1. s # t /\ conv[s] = req'[q].conv /\ s <= turns
    BY <1>1, <1>3 DEF Present, Active, Finished, Turns, Numbered
  <2>2. CASE q = r
    BY <1>1, <1>2, <1>3, <2>1, <2>2 DEF ActiveIn, Present
  <2>3. CASE q # r
    BY <1>2, <2>1, <2>3 DEF LastInserted, InConv
  <2> QED
    BY <2>2, <2>3
<1> QED
  BY <1>4, <1>5, <1>6

(* It is inserted before another of the same conversation gets a number.      *)
LEMMA InsertedLast ==
  ASSUME ChatTypeOK, Inserting, Answering, OnePostAtATime,
         NEW r \in Request, InsertTurn(r)
  PROVE  Answering'
<1> USE ChatConstants, Labels DEF ChatTypeOK, StoreTyped, Answering
<1> DEFINE t == req[r].turn
<1>1. /\ req[r].pc = "insert" /\ t \in Turn /\ conv[t] = req[r].conv /\ state[t] = "absent"
      /\ UNCHANGED <<turns, conv, stamp, convs, source>>
      /\ state' \in {state, [state EXCEPT ![t] = "queued"]}
  BY DEF InsertTurn, RequestsTyped, Inserting, history
<1>2. Only(r) /\ req'[r].pc # "insert"
  BY LastStepEffect DEF Idle
<1>3. \A s \in Turn : s # t => state'[s] = state[s]
  BY <1>1
<1>4. Stamped' /\ DeletedTogether' /\ AnswersOwnQuestion'
  BY <1>1 DEF Stamped, DeletedTogether, AnswersOwnQuestion
<1>5. \A s \in Turn : conv[s] = conv[t] /\ state[s] \in Present =>
        s < t /\ state[s] \in Finished
  BY <1>1 DEF LastInserted, InConv
<1>6. LastInProgress'
  <2> SUFFICES ASSUME NEW s \in Turn, NEW u \in Turn, conv[s] = conv[u],
                      state'[s] \in Present, state'[u] \in Active
               PROVE  s <= u
    BY <1>1 DEF LastInProgress
  <2>1. CASE u = t
    <3>1. CASE s = t
      BY <2>1, <3>1 DEF Turn
    <3>2. CASE s # t
      <4>1. state[s] \in Present /\ conv[s] = conv[t]
        BY <1>3, <2>1, <3>2
      <4>2. s < t
        BY <1>5, <4>1
      <4> QED
        BY <2>1, <4>2 DEF Turn
    <3> QED
      BY <3>1, <3>2
  <2>2. CASE u # t /\ s # t
    BY <1>3, <2>2 DEF LastInProgress
  <2>3. CASE u # t /\ s = t
    BY <1>3, <1>5, <2>3 DEF Present, Active, Finished
  <2> QED
    BY <2>1, <2>2, <2>3
<1>7. LastInserted'
  <2> SUFFICES ASSUME NEW q \in Request, req'[q].pc = "insert",
                      NEW s \in Turn, conv[s] = req'[q].conv, state'[s] \in Present
               PROVE  s < req'[q].turn /\ state'[s] \in Finished
    BY <1>1 DEF LastInserted, InConv
  <2>1. q # r /\ req'[q] = req[q]
    BY <1>2 DEF Only
  <2>2. req[q].conv # req[r].conv
    BY <1>1, <2>1 DEF OnePostAtATime
  <2>3. s # t
    BY <1>1, <2>1, <2>2
  <2> QED
    BY <1>3, <2>1, <2>3 DEF LastInserted, InConv
<1> QED
  BY <1>4, <1>6, <1>7

LEMMA NextAnswering == IInv /\ Answering /\ OnePostAtATime /\ [Next]_vars => Answering'
<1> SUFFICES ASSUME IInv, Answering, OnePostAtATime, [Next]_vars PROVE Answering'
  OBVIOUS
<1> USE DEF IInv, Requests
<1>1. Kept
  BY NextKeeps
<1>2. CASE Onward
  BY <1>1, <1>2, OnwardKeeps
<1>3. ASSUME NEW r \in Request,
             \/ RequestsOnly \/ ServerCrash
             \/ DeleteRows(r) \/ FlagStop(r) \/ \E u \in User : ClearCache(r, u)
      PROVE  Onward
  BY <1>3, RequestsGoOnward
<1>4. ASSUME RequestsOnly \/ ServerCrash PROVE Onward
  <2>1. \E r \in Request : TRUE
    BY <1>4 DEF RequestsOnly, ServerCrash
  <2> QED
    BY <1>3, <1>4, <2>1
<1>5. ASSUME NEW r \in Request, CheckPost(r) \/ InsertTurn(r) PROVE Answering'
  BY <1>5, NumberedLast, InsertedLast
<1> QED
  BY <1>2, <1>3, <1>4, <1>5, Cases, WorkerGoesOnward DEF Quiet, Faults

(* Unless two posts to one conversation overlap between the check and the     *)
(* transaction of create_turn, a conversation has one active reply at most    *)
(* and preceding_user_message finds the question that was posted with it,     *)
(* whatever else happens: deletions, stops, crashes of worker and server.     *)
THEOREM AnswersTheQuestion ==
  Spec /\ []OnePostAtATime => [](AnswersOwnQuestion /\ OneActiveReply)
<1>1. IInv /\ Answering => AnswersOwnQuestion /\ OneActiveReply
  BY Labels DEF Answering, LastInProgress, OneActiveReply, Present, Turn
<1> QED
  BY <1>1, InitAnswering, NextAnswering, Invariance, PTL DEF Spec

==============================================================================
