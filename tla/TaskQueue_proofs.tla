--------------------------- MODULE TaskQueue_proofs ---------------------------
(***************************************************************************)
(* Proofs about TaskQueue for any set of tasks and users, however often     *)
(* tasks are answered and the worker is killed.                             *)
(*                                                                          *)
(* The inductive invariant IInv adds to the checked invariants what they    *)
(* need to be preserved: how far the worker got with the task it holds      *)
(* (Progressed), and the least (Owed) and the most (Allowed) credit a task  *)
(* can have in each status.                                                 *)
(***************************************************************************)
EXTENDS TaskQueue, TLAPS

(* The next execution of t is already paid for.                             *)
Owed(t) ==
  IF \/ status[t] \in {"absent", "queued"}
     \/ status[t] = "running" /\ pc \in {"down", "recover"}
  THEN 1 ELSE 0

(* No execution of t is paid for beyond the one under way.                  *)
Allowed(t) ==
  IF \/ status[t] = "waiting_input"
     \/ status[t] = "running" /\ pc \notin {"down", "recover"}
  THEN 0 ELSE 1

Accounted == \A t \in Task : Owed(t) <= credit[t] /\ credit[t] <= Allowed(t)

OneRowPerKey ==
  \A s, t \in Task :
    {status[s], status[t]} \subseteq Live /\ Key[s] = Key[t] /\ Key[s] # NoKey => s = t

Progressed ==
  /\ pc \in {"archive", "complete"} => report[current]
  /\ pc = "complete" /\ current \in Illustrated => artifact[current]

IInv ==
  /\ TypeOK
  /\ WorkerOwnsRunning
  /\ Accounted
  /\ OneRowPerKey
  /\ Progressed
  /\ CompletedHasDeliverables

------------------------------------------------------------------------------

(* The initial state is well typed. *)
LEMMA InitTypeOK == Init => TypeOK
<1> SUFFICES ASSUME Init PROVE TypeOK
  OBVIOUS
<1>1. pc \in Busy <=> current # NoTask
  BY DEF Init, Busy
<1>2. /\ status \in [Task -> Status]
      /\ owner \in [Task -> User \cup {Device}]
      /\ pc \in Pc
  BY DEF Init, Status, Pc
<1>3. credit \in [Task -> Int] /\ createdAt \in [Task -> Nat] /\ clock \in Nat
  BY DEF Init
<1>4. /\ cancelRequested \in [Task -> BOOLEAN]
      /\ report \in [Task -> BOOLEAN]
      /\ artifact \in [Task -> BOOLEAN]
  BY DEF Init
<1> QED
  BY <1>1, <1>2, <1>3, <1>4 DEF Init, TypeOK

(* Every step of the clients, the worker and its environment keeps the types. *)
LEMMA NextTypeOK == TypeOK /\ [Next]_vars => TypeOK'
<1> USE ConstantsAssumption DEF TypeOK, Status, Active, Terminal, Pc, Busy
<1> SUFFICES ASSUME TypeOK, [Next]_vars PROVE TypeOK'
  OBVIOUS
<1>1. ASSUME NEW t \in Task, NEW u \in User \cup {Device}, CreateTask(t, u)
      PROVE  TypeOK'
  BY <1>1 DEF CreateTask, files, worker
<1>2. ASSUME NEW t \in Task, AnswerTask(t) PROVE TypeOK'
  BY <1>2 DEF AnswerTask, files, worker
<1>3. ASSUME NEW t \in Task, RequestCancel(t) PROVE TypeOK'
  BY <1>3 DEF RequestCancel, files, worker
<1>4. ASSUME NEW u \in User, ClaimUnowned(u) PROVE TypeOK'
  BY <1>4 DEF ClaimUnowned, files, worker
<1>5. ASSUME NEW u \in User, DeleteOwnerTasks(u) PROVE TypeOK'
  BY <1>5 DEF DeleteOwnerTasks, worker
<1>6. CASE StartWorker
  BY <1>6 DEF StartWorker, Goto, store, files
<1>7. CASE RecoverInterrupted
  BY <1>7 DEF RecoverInterrupted, Recovered, files
<1>8. CASE CheckRunning \/ ClaimNothing \/ ExitLoop
  BY <1>8 DEF CheckRunning, ClaimNothing, ExitLoop, Goto, store, files
<1>9. ASSUME NEW t \in Task, ClaimNext(t) PROVE TypeOK'
  BY <1>9 DEF ClaimNext
<1>10. CASE AgentReturns
  BY <1>10 DEF AgentReturns, Goto, store
<1>11. CASE AgentCancelled \/ CheckCancelled \/ WorkerError
  BY <1>11 DEF AgentCancelled, CheckCancelled, WorkerError, Goto, store, files
<1>12. CASE WaitForInput \/ Complete \/ MarkCancelled \/ Fail
  BY <1>12 DEF WaitForInput, Complete, MarkCancelled, Fail, Release, files
<1>13. CASE WriteReport \/ SaveArtifact
  BY <1>13 DEF WriteReport, SaveArtifact, Goto, store
<1>14. CASE Sigterm
  BY <1>14 DEF Sigterm, store, files
<1>15. CASE Crash
  <2>1. report' \in [Task -> BOOLEAN]
    BY <1>15 DEF Crash
  <2>2. /\ status' \in [Task -> Status]
        /\ cancelRequested' \in [Task -> BOOLEAN]
        /\ artifact' \in [Task -> BOOLEAN]
        /\ credit' \in [Task -> Int]
        /\ owner' \in [Task -> User \cup {Device}]
        /\ createdAt' \in [Task -> Nat]
    BY <1>15 DEF Crash, store
  <2>3. /\ pc' = "down" /\ current' = NoTask /\ reply' = "answer" /\ stopping' = FALSE
        /\ clock' \in Nat
    BY <1>15 DEF Crash, store
  <2>4. pc' \in Pc /\ (pc' \in Busy <=> current' # NoTask)
    BY <2>3
  <2> QED
    BY <2>1, <2>2, <2>3, <2>4
<1>16. CASE UNCHANGED vars
  BY <1>16 DEF vars, store, files, worker
<1> QED
  BY <1>1, <1>2, <1>3, <1>4, <1>5, <1>6, <1>7, <1>8, <1>9, <1>10, <1>11,
     <1>12, <1>13, <1>14, <1>15, <1>16 DEF Next, Client, WorkerStep

(* Type correctness of the queue. *)
THEOREM TypeCorrect == Spec => []TypeOK
<1>1. Init => TypeOK
  BY InitTypeOK
<1>2. TypeOK /\ [Next]_vars => TypeOK'
  BY NextTypeOK
<1> QED
  BY <1>1, <1>2, PTL DEF Spec

------------------------------------------------------------------------------

(* Steps of the worker that touch no row of the store. *)
Moves ==
  \/ StartWorker \/ CheckRunning \/ ClaimNothing \/ ExitLoop
  \/ AgentReturns \/ AgentCancelled \/ CheckCancelled
  \/ WriteReport \/ SaveArtifact \/ WorkerError

(* What Moves changes: the label only, between two labels on the same side  *)
(* of holding a task, and never into or out of recovery while rows run.     *)
LEMMA MovesStore ==
  ASSUME TypeOK, Moves
  PROVE  /\ UNCHANGED <<store, current>>
         /\ pc' \in Busy <=> pc \in Busy
         /\ pc' \in {"poll", "claim"} => pc \in {"poll", "claim"}
         /\ pc' \in {"down", "recover"} => pc \in {"down", "recover", "poll"}
         /\ pc \in {"down", "recover"} => pc' \in {"down", "recover"}
BY DEF TypeOK, Busy, Pc, Moves, StartWorker, CheckRunning, ClaimNothing, ExitLoop,
       AgentReturns, AgentCancelled, CheckCancelled, WriteReport, SaveArtifact,
       WorkerError, Goto

(* Ownership of running rows is preserved by every step: clients never move *)
(* a row into or out of running, and the worker moves only the row it holds. *)
LEMMA NextOwns ==
  TypeOK /\ WorkerOwnsRunning /\ [Next]_vars => WorkerOwnsRunning'
<1> SUFFICES ASSUME TypeOK, WorkerOwnsRunning, [Next]_vars
             PROVE  WorkerOwnsRunning'
  OBVIOUS
<1> USE DEF WorkerOwnsRunning
<1>1. ASSUME NEW t \in Task, NEW u \in User \cup {Device}, CreateTask(t, u)
      PROVE  WorkerOwnsRunning'
  BY <1>1 DEF CreateTask, TypeOK, worker
<1>2. ASSUME NEW t \in Task, AnswerTask(t) PROVE WorkerOwnsRunning'
  BY <1>2 DEF AnswerTask, TypeOK, worker
<1>3. ASSUME NEW t \in Task, RequestCancel(t) PROVE WorkerOwnsRunning'
  BY <1>3 DEF RequestCancel, CancelledDirectly, Active, TypeOK, worker
<1>4. ASSUME NEW u \in User, ClaimUnowned(u) PROVE WorkerOwnsRunning'
  BY <1>4 DEF ClaimUnowned, worker
<1>5. ASSUME NEW u \in User, DeleteOwnerTasks(u) PROVE WorkerOwnsRunning'
  BY <1>5 DEF DeleteOwnerTasks, MayPurge, Active, TypeOK, worker
<1>6. CASE RecoverInterrupted
  <2>1. \A t \in Task : status'[t] # "running"
    BY <1>6 DEF RecoverInterrupted, Recovered
  <2> QED
    BY <1>6, <2>1 DEF RecoverInterrupted, Busy
<1>7. ASSUME NEW t \in Task, ClaimNext(t) PROVE WorkerOwnsRunning'
  BY <1>7 DEF ClaimNext, Busy, TypeOK
<1>8. CASE Moves
  BY <1>8, MovesStore DEF store
<1>9. CASE WaitForInput \/ Complete \/ MarkCancelled \/ Fail
  <2>1. /\ pc \in Busy /\ current \in Task
        /\ pc' = "poll"
        /\ \E s \in {"waiting_input", "completed", "cancelled", "failed"} :
             status' = [status EXCEPT ![current] = s]
    BY <1>9 DEF WaitForInput, Complete, MarkCancelled, Fail, Release, Busy, TypeOK
  <2>2. \A t \in Task : status'[t] # "running"
    BY <2>1 DEF TypeOK
  <2> QED
    BY <2>1, <2>2 DEF Busy
<1>10. CASE Sigterm
  BY <1>10 DEF Sigterm, store
<1>11. CASE Crash
  BY <1>11 DEF Crash, store, Busy
<1>12. CASE UNCHANGED vars
  BY <1>12 DEF vars, store, worker
<1> QED
  BY <1>1, <1>2, <1>3, <1>4, <1>5, <1>6, <1>7, <1>8, <1>9, <1>10, <1>11, <1>12
  DEF Next, Client, WorkerStep, Moves

------------------------------------------------------------------------------

(* Counting executions is preserved: a claim spends what the submission, an *)
(* answer or a crash has paid for.                                          *)
LEMMA NextAccounted ==
  TypeOK /\ WorkerOwnsRunning /\ Accounted /\ [Next]_vars => Accounted'
<1> SUFFICES ASSUME TypeOK, WorkerOwnsRunning, Accounted, [Next]_vars
             PROVE  Accounted'
  OBVIOUS
<1> USE DEF Accounted, Owed, Allowed
<1>1. ASSUME NEW t \in Task, NEW u \in User \cup {Device}, CreateTask(t, u)
      PROVE  Accounted'
  BY <1>1 DEF CreateTask, TypeOK, worker
<1>2. ASSUME NEW t \in Task, AnswerTask(t)
      PROVE  Accounted'
  BY <1>2 DEF AnswerTask, TypeOK, worker
<1>3. ASSUME NEW t \in Task, RequestCancel(t)
      PROVE  Accounted'
  BY <1>3 DEF RequestCancel, CancelledDirectly, Active, TypeOK, worker
<1>4. ASSUME NEW u \in User, ClaimUnowned(u)
      PROVE  Accounted'
  BY <1>4 DEF ClaimUnowned, worker
<1>5. ASSUME NEW u \in User, DeleteOwnerTasks(u)
      PROVE  Accounted'
  BY <1>5 DEF DeleteOwnerTasks, TypeOK, worker
<1>6. CASE RecoverInterrupted
  BY <1>6 DEF RecoverInterrupted, Recovered, TypeOK
<1>7. ASSUME NEW t \in Task, ClaimNext(t)
      PROVE  Accounted'
  BY <1>7 DEF ClaimNext, Claimable, TypeOK
<1>8. CASE Moves
  <2>1. UNCHANGED <<status, credit>>
    BY <1>8, MovesStore DEF store
  <2>2. ASSUME NEW t \in Task, status[t] = "running",
               pc' \in {"down", "recover"}
        PROVE  pc \in {"down", "recover"}
    BY <2>2, <1>8, MovesStore DEF WorkerOwnsRunning
  <2>3. ASSUME pc' \notin {"down", "recover"} PROVE pc \notin {"down", "recover"}
    BY <2>3, <1>8, MovesStore
  <2> QED
    BY <2>1, <2>2, <2>3 DEF TypeOK
<1>9. CASE WaitForInput \/ Complete \/ MarkCancelled \/ Fail
  <2>1. /\ pc \in Busy /\ current \in Task /\ status[current] = "running"
        /\ pc' = "poll"
        /\ UNCHANGED credit
        /\ \E s \in {"waiting_input", "completed", "cancelled", "failed"} :
             status' = [status EXCEPT ![current] = s]
    BY <1>9 DEF WaitForInput, Complete, MarkCancelled, Fail, Release, Busy,
                TypeOK, WorkerOwnsRunning
  <2> QED
    BY <2>1 DEF TypeOK, Busy
<1>10. CASE Sigterm
  BY <1>10 DEF Sigterm, store
<1>11. CASE Crash
  <2>1. UNCHANGED status /\ pc' = "down"
    BY <1>11 DEF Crash
  <2>2. CASE pc \in Busy
    <3>1. /\ current \in Task /\ status[current] = "running"
          /\ pc \notin {"down", "recover"}
          /\ credit' = [credit EXCEPT ![current] = @ + 1]
      BY <1>11, <2>2 DEF Crash, Busy, TypeOK, WorkerOwnsRunning
    <3>2. \A t \in Task : status[t] = "running" => t = current
      BY <3>1 DEF WorkerOwnsRunning
    <3>3. credit[current] = 0 /\ credit'[current] = 1
      BY <3>1 DEF TypeOK
    <3> QED
      BY <2>1, <3>1, <3>2, <3>3 DEF TypeOK
  <2>3. CASE pc \notin Busy
    <3>1. credit' = credit
      BY <1>11, <2>3 DEF Crash
    <3>2. \A t \in Task : status[t] = "running" => pc \in {"down", "recover"}
      BY <2>3 DEF TypeOK, Pc, WorkerOwnsRunning
    <3> QED
      BY <2>1, <3>1, <3>2
  <2> QED
    BY <2>2, <2>3
<1>12. CASE UNCHANGED vars
  BY <1>12 DEF vars, store, worker
<1> QED
  BY <1>1, <1>2, <1>3, <1>4, <1>5, <1>6, <1>7, <1>8, <1>9, <1>10, <1>11, <1>12
  DEF Next, Client, WorkerStep, Moves

------------------------------------------------------------------------------

(* A submission is the only step that makes a row live, and it looks for    *)
(* its key first.                                                           *)
LEMMA NextOneRow ==
  TypeOK /\ WorkerOwnsRunning /\ OneRowPerKey /\ [Next]_vars => OneRowPerKey'
<1> SUFFICES ASSUME TypeOK, WorkerOwnsRunning, OneRowPerKey, [Next]_vars
             PROVE  OneRowPerKey'
  OBVIOUS
<1>1. ASSUME NEW t \in Task, NEW u \in User \cup {Device}, CreateTask(t, u)
      PROVE  OneRowPerKey'
  <2>1. \A s \in Task : s # t => status'[s] = status[s]
    BY <1>1 DEF CreateTask, TypeOK
  <2>2. \A s \in Task : Key[t] # NoKey /\ status[s] \in Live => Key[s] # Key[t]
    BY <1>1 DEF CreateTask, KeyIsFree
  <2> QED
    BY <2>1, <2>2 DEF OneRowPerKey
<1>2. ASSUME \A t \in Task : status'[t] \in Live => status[t] \in Live
      PROVE  OneRowPerKey'
  BY <1>2 DEF OneRowPerKey
<1> USE DEF TypeOK, Live, Active, Terminal
<1>3. CASE Client /\ ~(\E t \in Task, u \in User \cup {Device} : CreateTask(t, u))
  <2>1. \A t \in Task : status'[t] \in Live => status[t] \in Live
    BY <1>3 DEF Client, AnswerTask, RequestCancel, CancelledDirectly, ClaimUnowned,
                DeleteOwnerTasks
  <2> QED
    BY <2>1, <1>2
<1>4. CASE RecoverInterrupted
  BY <1>4, <1>2 DEF RecoverInterrupted, Recovered
<1>5. ASSUME NEW t \in Task, ClaimNext(t) PROVE OneRowPerKey'
  <2>1. \A s \in Task : status'[s] \in Live => status[s] \in Live
    BY <1>5 DEF ClaimNext, Claimable
  <2> QED
    BY <2>1, <1>2
<1>6. CASE Moves \/ Sigterm \/ Crash \/ UNCHANGED vars
  <2>1. status' = status
    BY <1>6, MovesStore DEF store, Sigterm, Crash, vars
  <2> QED
    BY <2>1, <1>2
<1>7. CASE WaitForInput \/ Complete \/ MarkCancelled \/ Fail
  <2>1. \A t \in Task : status'[t] \in Live => status[t] \in Live
    BY <1>7 DEF WaitForInput, Complete, MarkCancelled, Fail, Release, Busy, WorkerOwnsRunning
  <2> QED
    BY <2>1, <1>2
<1> QED
  BY <1>1, <1>3, <1>4, <1>5, <1>6, <1>7 DEF Next, Client, WorkerStep, Moves

------------------------------------------------------------------------------

(* The files of the held task keep up with the label of the worker, so a    *)
(* task is completed only with its files in place; nobody removes the files *)
(* of a completed task except the purge that deletes it.                    *)
LEMMA NextDelivers ==
  TypeOK /\ WorkerOwnsRunning /\ Progressed /\ CompletedHasDeliverables /\ [Next]_vars
    => Progressed' /\ CompletedHasDeliverables'
<1> SUFFICES ASSUME TypeOK, WorkerOwnsRunning, Progressed, CompletedHasDeliverables,
                    [Next]_vars
             PROVE  Progressed' /\ CompletedHasDeliverables'
  OBVIOUS
<1> USE DEF Progressed, CompletedHasDeliverables
<1>1. ASSUME NEW t \in Task, NEW u \in User \cup {Device}, CreateTask(t, u)
      PROVE  Progressed' /\ CompletedHasDeliverables'
  BY <1>1 DEF CreateTask, TypeOK, worker, files
<1>2. ASSUME NEW t \in Task, AnswerTask(t)
      PROVE  Progressed' /\ CompletedHasDeliverables'
  BY <1>2 DEF AnswerTask, TypeOK, worker, files
<1>3. ASSUME NEW t \in Task, RequestCancel(t)
      PROVE  Progressed' /\ CompletedHasDeliverables'
  BY <1>3 DEF RequestCancel, CancelledDirectly, Active, TypeOK, worker, files
<1>4. ASSUME NEW u \in User, ClaimUnowned(u)
      PROVE  Progressed' /\ CompletedHasDeliverables'
  BY <1>4 DEF ClaimUnowned, worker, files
<1>5. ASSUME NEW u \in User, DeleteOwnerTasks(u)
      PROVE  Progressed' /\ CompletedHasDeliverables'
  <2>1. UNCHANGED <<report, worker>>
    BY <1>5 DEF DeleteOwnerTasks
  <2>2. \A t \in Task : t \notin Owned(u) => artifact'[t] = artifact[t]
    BY <1>5 DEF DeleteOwnerTasks, TypeOK
  <2>3. \A t \in Task : status'[t] = "completed" => t \notin Owned(u) /\ status[t] = "completed"
    BY <1>5 DEF DeleteOwnerTasks
  <2>4. pc \in Busy => current \in Task /\ current \notin Owned(u)
    BY <1>5 DEF DeleteOwnerTasks, MayPurge, Active, WorkerOwnsRunning, TypeOK
  <2> QED
    BY <2>1, <2>2, <2>3, <2>4 DEF worker, Busy
<1>6. CASE RecoverInterrupted
  BY <1>6 DEF RecoverInterrupted, Recovered, TypeOK, files
<1>7. ASSUME NEW t \in Task, ClaimNext(t)
      PROVE  Progressed' /\ CompletedHasDeliverables'
  BY <1>7 DEF ClaimNext, Claimable, TypeOK
<1>8. CASE StartWorker \/ CheckRunning \/ ClaimNothing \/ ExitLoop
           \/ AgentCancelled \/ CheckCancelled \/ WorkerError
  <2>1. /\ UNCHANGED <<status, report, artifact, current>>
        /\ pc' \notin {"archive", "complete"}
    BY <1>8 DEF StartWorker, CheckRunning, ClaimNothing, ExitLoop, AgentCancelled,
                CheckCancelled, WorkerError, Goto, store, files
  <2> QED
    BY <2>1
<1>9. CASE AgentReturns
  <2>1. /\ UNCHANGED <<status, artifact, current>> /\ current \in Task
        /\ pc' \notin {"archive", "complete"}
    BY <1>9 DEF AgentReturns, Goto, store, TypeOK, Busy
  <2>2. \A t \in Task : report[t] => report'[t]
    BY <1>9, <2>1 DEF AgentReturns, TypeOK
  <2> QED
    BY <2>1, <2>2
<1>10. CASE WriteReport
  BY <1>10 DEF WriteReport, Goto, store, TypeOK, Busy
<1>11. CASE SaveArtifact
  <2>1. /\ UNCHANGED <<status, report, current>> /\ current \in Task
        /\ report[current] /\ pc' = "complete"
    BY <1>11 DEF SaveArtifact, Goto, store, TypeOK, Busy
  <2>2. /\ \A t \in Task : artifact[t] => artifact'[t]
        /\ current \in Illustrated => artifact'[current]
    BY <1>11, <2>1 DEF SaveArtifact, TypeOK
  <2> QED
    BY <2>1, <2>2
<1>12. CASE WaitForInput \/ MarkCancelled \/ Fail
  <2>1. /\ UNCHANGED <<report, artifact>> /\ pc' = "poll"
        /\ \A t \in Task : status'[t] = "completed" => status[t] = "completed"
    BY <1>12 DEF WaitForInput, MarkCancelled, Fail, Release, files, TypeOK
  <2> QED
    BY <2>1
<1>13. CASE Complete
  BY <1>13 DEF Complete, Release, files, TypeOK, Busy
<1>14. CASE Sigterm
  BY <1>14 DEF Sigterm, store, files
<1>15. CASE Crash
  <2>1. UNCHANGED <<status, artifact>> /\ pc' = "down"
    BY <1>15 DEF Crash, store
  <2>2. \A t \in Task : report[t] => report'[t]
    BY <1>15 DEF Crash, TypeOK
  <2> QED
    BY <2>1, <2>2
<1>16. CASE UNCHANGED vars
  BY <1>16 DEF vars, store, worker, files
<1> QED
  BY <1>1, <1>2, <1>3, <1>4, <1>5, <1>6, <1>7, <1>8, <1>9, <1>10, <1>11, <1>12,
     <1>13, <1>14, <1>15, <1>16
  DEF Next, Client, WorkerStep

------------------------------------------------------------------------------

(* The strengthened invariant holds in every reachable state. *)
THEOREM Inductive == Spec => []IInv
<1>1. Init => IInv
  <2> SUFFICES ASSUME Init PROVE IInv
    OBVIOUS
  <2>1. TypeOK
    BY InitTypeOK
  <2> QED
    BY <2>1 DEF Init, IInv, WorkerOwnsRunning, Accounted, Owed, OneRowPerKey, Live, Active, Terminal,
                Allowed, Progressed, CompletedHasDeliverables, Busy
<1>2. IInv /\ [Next]_vars => IInv'
  BY NextTypeOK, NextOwns, NextAccounted, NextOneRow, NextDelivers DEF IInv
<1> QED
  BY <1>1, <1>2, PTL DEF Spec

(* A row is running exactly while the one worker holds it, for any number   *)
(* of tasks, crashes and restarts.                                          *)
THEOREM SingleOwner == Spec => []WorkerOwnsRunning
<1>1. IInv => WorkerOwnsRunning
  BY DEF IInv
<1> QED
  BY <1>1, Inductive, PTL

(* Every execution of the agent is accounted for by the submission, an      *)
(* accepted answer or an execution that a crash cut short.                  *)
THEOREM NoSpuriousExecution == Spec => []ExecutionsAccounted
<1>1. IInv => ExecutionsAccounted
  BY DEF IInv, TypeOK, Accounted, Owed, OneRowPerKey, ExecutionsAccounted
<1> QED
  BY <1>1, Inductive, PTL

(* An answer is accepted at most once per question asked. *)
THEOREM AnswersMatchQuestions == Spec => []OneAnswerPerQuestion
<1>1. IInv => OneAnswerPerQuestion
  BY DEF IInv, TypeOK, Accounted, Allowed, OneAnswerPerQuestion
<1> QED
  BY <1>1, Inductive, PTL

(* A completed task has its report and, when asked for, its artifact. *)
THEOREM CompletedDelivers == Spec => []CompletedHasDeliverables
<1>1. IInv => CompletedHasDeliverables
  BY DEF IInv
<1> QED
  BY <1>1, Inductive, PTL

------------------------------------------------------------------------------

(* A recorded cancel request survives every later step, and no later step   *)
(* starts the agent on that task.                                           *)
THEOREM CancelSticks == Spec => CancelIsFinal
<1> DEFINE Sticks == \A t \in Task : cancelRequested[t] =>
                        cancelRequested'[t] /\ (status'[t] = "running" => status[t] = "running")
<1>1. TypeOK /\ [Next]_vars => [Sticks]_vars
  <2> SUFFICES ASSUME TypeOK, Next PROVE Sticks
    OBVIOUS
  <2>1. CASE \E t \in Task : RequestCancel(t)
    BY <2>1 DEF RequestCancel, CancelledDirectly, TypeOK
  <2>2. CASE \E t \in Task : ClaimNext(t)
    BY <2>2 DEF ClaimNext, Claimable, TypeOK
  <2>3. CASE Client /\ ~(\E t \in Task : RequestCancel(t))
    BY <2>3 DEF Client, CreateTask, AnswerTask, ClaimUnowned, DeleteOwnerTasks, TypeOK
  <2>4. CASE Moves \/ Sigterm \/ Crash
    BY <2>4, MovesStore DEF store, Sigterm, Crash
  <2>5. CASE RecoverInterrupted
    BY <2>5 DEF RecoverInterrupted, Recovered
  <2>6. CASE WaitForInput \/ Complete \/ MarkCancelled \/ Fail
    BY <2>6 DEF WaitForInput, Complete, MarkCancelled, Fail, Release, TypeOK
  <2> QED
    BY <2>1, <2>2, <2>3, <2>4, <2>5, <2>6 DEF Next, WorkerStep, Moves
<1> QED
  BY <1>1, TypeCorrect, PTL DEF Spec, CancelIsFinal

------------------------------------------------------------------------------

(* The queue with its worker, crashes and concurrent clients implements the *)
(* life of a task: every step is one lifecycle step or invisible.           *)
THEOREM Refinement == Spec => ImplementsLifecycle
<1>1. Init => Lifecycle!Init
  BY DEF Init, Lifecycle!Init
<1>2. IInv /\ [Next]_vars => [Lifecycle!Next]_status
  <2> SUFFICES ASSUME IInv, Next, status' # status PROVE Lifecycle!Next
    BY DEF vars, store
  <2> USE DEF Lifecycle!Next, Lifecycle!Move, IInv
  <2>1. ASSUME NEW t \in Task, NEW u \in User \cup {Device}, CreateTask(t, u)
        PROVE  Lifecycle!Next
    BY <2>1 DEF CreateTask, Lifecycle!Submit
  <2>2. ASSUME NEW t \in Task, AnswerTask(t) PROVE Lifecycle!Next
    BY <2>2 DEF AnswerTask, Lifecycle!Answer
  <2>3. ASSUME NEW t \in Task, RequestCancel(t) PROVE Lifecycle!Next
    BY <2>3 DEF RequestCancel, CancelledDirectly, Active, TypeOK,
                Lifecycle!Cancel, Lifecycle!Active
  <2>4. ASSUME NEW u \in User, ClaimUnowned(u) PROVE FALSE
    BY <2>4 DEF ClaimUnowned
  <2>5. ASSUME NEW u \in User, DeleteOwnerTasks(u) PROVE Lifecycle!Next
    <3>1. Owned(u) \in SUBSET Task
      BY DEF Owned
    <3>2. \A t \in Owned(u) : status[t] \in Terminal
      BY <2>5 DEF DeleteOwnerTasks, MayPurge, Owned, Live
    <3>3. Lifecycle!Purge(Owned(u))
      BY <2>5, <3>2 DEF DeleteOwnerTasks, Lifecycle!Purge, Terminal, Lifecycle!Terminal
    <3> QED
      BY <3>1, <3>3
  <2>6. CASE RecoverInterrupted
    <3>1. PICK t \in Task : status[t] = "running"
      BY <2>6 DEF RecoverInterrupted, Recovered, TypeOK
    <3>2. \A s \in Task : s # t => Recovered(s) = status[s]
      BY <3>1 DEF Recovered, WorkerOwnsRunning
    <3>3. status' = [status EXCEPT ![t] = Recovered(t)]
      BY <2>6, <3>2 DEF RecoverInterrupted, TypeOK
    <3>4. Recovered(t) \in {"queued", "cancelled"}
      BY <3>1 DEF Recovered
    <3> QED
      BY <3>1, <3>3, <3>4
      DEF Lifecycle!Requeue, Lifecycle!Cancel, Lifecycle!Active
  <2>7. ASSUME NEW t \in Task, ClaimNext(t) PROVE Lifecycle!Next
    <3>1. \A s \in Task : status[s] # "running"
      BY <2>7 DEF ClaimNext, WorkerOwnsRunning
    <3> QED
      BY <2>7, <3>1 DEF ClaimNext, Claimable, Lifecycle!Start
  <2>8. ASSUME Moves \/ Sigterm \/ Crash PROVE FALSE
    BY <2>8, MovesStore DEF Sigterm, Crash, store
  <2>9. CASE WaitForInput \/ Complete \/ MarkCancelled \/ Fail
    <3>1. current \in Task /\ status[current] = "running"
      BY <2>9 DEF WaitForInput, Complete, MarkCancelled, Fail, Busy, TypeOK, WorkerOwnsRunning
    <3>2. \E s \in {"waiting_input", "completed", "cancelled", "failed"} :
            status' = [status EXCEPT ![current] = s]
      BY <2>9 DEF WaitForInput, Complete, MarkCancelled, Fail, Release
    <3> QED
      BY <3>1, <3>2
      DEF Lifecycle!Ask, Lifecycle!Finish, Lifecycle!Cancel, Lifecycle!Active
  <2> QED
    BY <2>1, <2>2, <2>3, <2>4, <2>5, <2>6, <2>7, <2>8, <2>9
    DEF Next, Client, WorkerStep, Moves
<1> QED
  BY <1>1, <1>2, Inductive, PTL DEF Spec, ImplementsLifecycle, Lifecycle!Spec
=============================================================================
