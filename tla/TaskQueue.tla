------------------------------ MODULE TaskQueue ------------------------------
(***************************************************************************)
(* The persistent background-task queue: task_store.py (SQLite, one         *)
(* transaction per operation), the single worker process of task_worker.py  *)
(* that claims, executes and finalises tasks, and the HTTP handlers that    *)
(* create, answer, cancel and purge tasks concurrently with it.             *)
(*                                                                          *)
(* Every store call is one action, since SQLite serialises them; the worker *)
(* is interleaved with the clients between any two of its store calls.  The *)
(* worker can be killed at any step (Crash: SIGKILL, power loss, an error   *)
(* escaping process()) and asked to stop at any step (Sigterm).             *)
(***************************************************************************)
EXTENDS Integers, FiniteSets

CONSTANTS Task,        \* task ids (uuid4, so never reused)
          User,        \* accounts
          Device,      \* the empty owner of tasks created before any account
          Illustrated, \* tasks whose output_format is image or illustrated
          Key,         \* [Task -> stored idempotency key, or NoKey]
          NoKey,
          NoTask,
          MayDie,      \* the worker process may be killed, any number of times
          MayStop      \* it may get SIGTERM, any number of times

ASSUME ConstantsAssumption ==
  /\ Device \notin User
  /\ NoTask \notin Task
  /\ Illustrated \subseteq Task
  /\ MayDie \in BOOLEAN /\ MayStop \in BOOLEAN

VARIABLES
  \* tasks.db
  status, cancelRequested, owner, createdAt,
  credit,           \* executions that are paid for: one by the submission, one by
                    \* each answer (answers_json), one by each execution that a
                    \* crash cut short, less those begun (the column `attempt')
  clock,            \* source of created_at: number of tasks inserted so far
  \* files
  report,           \* the report path of the current attempt exists
  artifact,         \* the generated image / illustrated document exists
  \* the worker process
  pc, current, reply, stopping

store  == <<status, cancelRequested, owner, createdAt, credit, clock>>
files  == <<report, artifact>>
worker == <<pc, current, reply, stopping>>
vars   == <<store, files, worker>>

Active   == {"queued", "running", "waiting_input"}
Terminal == {"completed", "failed", "cancelled"}
Status   == Active \cup Terminal \cup {"absent", "deleted"}
Live     == Active \cup Terminal

(* Where the worker is inside process(); current is the task it holds.      *)
Busy == {"agent", "returned", "decide", "archive", "complete", "cancel", "fail"}
Pc   == Busy \cup {"down", "recover", "poll", "claim"}

TypeOK ==
  /\ status \in [Task -> Status]
  /\ cancelRequested \in [Task -> BOOLEAN]
  /\ owner \in [Task -> User \cup {Device}]
  /\ createdAt \in [Task -> Nat]
  /\ credit \in [Task -> Int]
  /\ clock \in Nat
  /\ report \in [Task -> BOOLEAN]
  /\ artifact \in [Task -> BOOLEAN]
  /\ pc \in Pc
  /\ current \in Task \cup {NoTask}
  /\ pc \in Busy <=> current # NoTask
  /\ reply \in {"answer", "ask"}
  /\ stopping \in BOOLEAN

Init ==
  /\ status = [t \in Task |-> "absent"]
  /\ cancelRequested = [t \in Task |-> FALSE]
  /\ owner = [t \in Task |-> Device]
  /\ createdAt = [t \in Task |-> 0]
  /\ credit = [t \in Task |-> 1]
  /\ clock = 0
  /\ report = [t \in Task |-> FALSE]
  /\ artifact = [t \in Task |-> FALSE]
  /\ pc = "down" /\ current = NoTask /\ reply = "answer" /\ stopping = FALSE

------------------------------------------------------------------------------
(* Client operations (HTTP handlers, each one store transaction).           *)

(* A retried request carries the same stored key and inserts nothing.       *)
KeyIsFree(t) ==
  Key[t] # NoKey => \A s \in Task : status[s] \in Live => Key[s] # Key[t]

CreateTask(t, u) ==
  /\ status[t] = "absent"
  /\ KeyIsFree(t)
  /\ status' = [status EXCEPT ![t] = "queued"]
  /\ owner' = [owner EXCEPT ![t] = u]
  /\ clock' = clock + 1
  /\ createdAt' = [createdAt EXCEPT ![t] = clock + 1]
  /\ UNCHANGED <<cancelRequested, credit, files, worker>>

(* As often as the agent asks; the task keeps its age.                      *)
AnswerTask(t) ==
  /\ status[t] = "waiting_input"
  /\ credit' = [credit EXCEPT ![t] = @ + 1]
  /\ status' = [status EXCEPT ![t] = "queued"]
  /\ UNCHANGED <<cancelRequested, owner, createdAt, clock, files, worker>>

(* Mutant: a cancel request ends a running task behind the worker's back.   *)
CancelledAnyActive == Active

(* A running task is only flagged: its worker is the one that ends it.      *)
CancelledDirectly == {"queued", "waiting_input"}

RequestCancel(t) ==
  /\ status[t] \in Active
  /\ cancelRequested' = [cancelRequested EXCEPT ![t] = TRUE]
  /\ status' = [status EXCEPT ![t] = IF @ \in CancelledDirectly THEN "cancelled" ELSE @]
  /\ UNCHANGED <<owner, createdAt, credit, clock, files, worker>>

(* The first administrator adopts every task created without an account.    *)
ClaimUnowned(u) ==
  /\ owner' = [t \in Task |-> IF owner[t] = Device /\ status[t] \in Live THEN u ELSE owner[t]]
  /\ UNCHANGED <<status, cancelRequested, createdAt, credit, clock, files, worker>>

Owned(u) == {t \in Task : owner[t] = u /\ status[t] \in Live}

(* Mutant: the purge does not look for active tasks.                        *)
MayPurgeAnything(S) == TRUE

MayPurge(S) == \A t \in S : status[t] \notin Active

(* Refused as a whole while any task of the user is active; artifact        *)
(* directories are removed after the rows.                                  *)
DeleteOwnerTasks(u) ==
  /\ MayPurge(Owned(u))
  /\ status' = [t \in Task |-> IF t \in Owned(u) THEN "deleted" ELSE status[t]]
  /\ artifact' = [t \in Task |-> artifact[t] /\ t \notin Owned(u)]
  /\ UNCHANGED <<cancelRequested, owner, createdAt, credit, clock, report, worker>>

Client ==
  \/ \E t \in Task, u \in User \cup {Device} : CreateTask(t, u)
  \/ \E t \in Task : AnswerTask(t) \/ RequestCancel(t)
  \/ \E u \in User : ClaimUnowned(u) \/ DeleteOwnerTasks(u)

------------------------------------------------------------------------------
(* The worker process.                                                      *)

Goto(label) ==
  /\ pc' = label
  /\ UNCHANGED <<current, store>>

StartWorker ==
  /\ pc = "down"
  /\ Goto("recover")
  /\ UNCHANGED <<stopping, reply, files>>

(* recover_interrupted: one UPDATE over every running row.                  *)
Recovered(t) ==
  IF status[t] # "running" THEN status[t]
  ELSE IF cancelRequested[t] THEN "cancelled" ELSE "queued"

RecoverInterrupted ==
  /\ pc = "recover"
  /\ status' = [t \in Task |-> Recovered(t)]
  /\ pc' = "poll"
  /\ UNCHANGED <<cancelRequested, owner, createdAt, credit, clock,
                 current, reply, stopping, files>>

Claimable(t) == status[t] = "queued" /\ ~cancelRequested[t]

(* Mutant: the order of claim_next is left to the database.                 *)
OldestOrNot(t) == TRUE

Oldest(t) == \A s \in Task : Claimable(s) => createdAt[t] <= createdAt[s]

(* SIGTERM between the loop test and the claim still lets one claim through. *)
CheckRunning ==
  /\ pc = "poll" /\ ~stopping
  /\ Goto("claim")
  /\ UNCHANGED <<stopping, reply, files>>

ClaimNothing ==
  /\ pc = "claim" /\ \A t \in Task : ~Claimable(t)
  /\ Goto("poll")
  /\ UNCHANGED <<stopping, reply, files>>

(* The report path carries the minute of the attempt: a retry either gets a *)
(* new path (no report yet) or the path its predecessor may have written.   *)
ClaimNext(t) ==
  /\ pc = "claim"
  /\ Claimable(t) /\ Oldest(t)
  /\ status' = [status EXCEPT ![t] = "running"]
  /\ credit' = [credit EXCEPT ![t] = @ - 1]
  /\ \E samePath \in BOOLEAN :
       report' = [report EXCEPT ![t] = @ /\ samePath]
  /\ pc' = "agent" /\ current' = t
  /\ UNCHANGED <<cancelRequested, owner, createdAt, clock, artifact, reply, stopping>>

(* The agent answers, or asks by starting its reply with the marker; it may *)
(* have written the report file either way.  An empty reply without a       *)
(* report is an error.                                                      *)
AgentReturns ==
  /\ pc = "agent"
  /\ reply' \in {"answer", "ask"}
  /\ \E wrote \in BOOLEAN : report' = [report EXCEPT ![current] = @ \/ wrote]
  /\ Goto("returned")
  /\ UNCHANGED <<stopping, artifact>>

(* should_cancel() is polled during the run: a stop of the worker and a     *)
(* cancel request look the same to it.                                      *)
AgentCancelled ==
  /\ pc = "agent"
  /\ stopping \/ cancelRequested[current]
  /\ Goto("cancel")
  /\ UNCHANGED <<stopping, reply, files>>

CheckCancelled ==
  /\ pc = "returned"
  /\ Goto(IF cancelRequested[current] THEN "cancel" ELSE "decide")
  /\ UNCHANGED <<stopping, reply, files>>

Asks == reply = "ask" /\ ~report[current]

(* Back to the loop head with the current task in status s. *)
Release(s) ==
  /\ status' = [status EXCEPT ![current] = s]
  /\ pc' = "poll" /\ current' = NoTask /\ reply' = "answer"
  /\ UNCHANGED <<cancelRequested, owner, createdAt, credit, clock, files, stopping>>

WaitForInput == pc = "decide" /\ Asks /\ Release("waiting_input")

(* Mutant: no fallback report, the agent is trusted to have written one.    *)
WriteReportTrusting ==
  /\ pc = "decide" /\ ~Asks
  /\ Goto("archive")
  /\ UNCHANGED <<stopping, reply, files>>

WriteReport ==
  /\ pc = "decide" /\ ~Asks
  /\ report' = [report EXCEPT ![current] = TRUE]
  /\ Goto("archive")
  /\ UNCHANGED <<stopping, reply, artifact>>

(* Image generation takes minutes and polls neither flag.                   *)
SaveArtifact ==
  /\ pc = "archive"
  /\ artifact' = [artifact EXCEPT ![current] = @ \/ current \in Illustrated]
  /\ Goto("complete")
  /\ UNCHANGED <<stopping, reply, report>>

(* Mutant: a failed task is put back for another try.                       *)
FailByRequeue == pc = "fail" /\ Release("queued")

Complete      == pc = "complete" /\ Release("completed")
MarkCancelled == pc = "cancel" /\ Release("cancelled")
Fail          == pc = "fail" /\ Release("failed")

(* Any exception of process() other than InterruptedError.                  *)
WorkerError ==
  /\ pc \in {"agent", "returned", "decide", "archive", "complete"}
  /\ Goto("fail")
  /\ UNCHANGED <<stopping, reply, files>>

ExitLoop ==
  /\ pc = "poll" /\ stopping
  /\ stopping' = FALSE
  /\ Goto("down")
  /\ UNCHANGED <<reply, files>>

WorkerStep ==
  \/ StartWorker \/ RecoverInterrupted \/ CheckRunning
  \/ ClaimNothing \/ (\E t \in Task : ClaimNext(t))
  \/ AgentReturns \/ AgentCancelled \/ CheckCancelled \/ WaitForInput
  \/ WriteReport \/ SaveArtifact \/ Complete \/ MarkCancelled \/ Fail
  \/ WorkerError \/ ExitLoop

Sigterm ==
  /\ MayStop /\ pc # "down" /\ ~stopping
  /\ stopping' = TRUE
  /\ UNCHANGED <<pc, current, reply, store, files>>

(* The agent may have written the report before its worker died.            *)
Crash ==
  /\ MayDie /\ pc # "down"
  /\ pc' = "down" /\ current' = NoTask /\ reply' = "answer" /\ stopping' = FALSE
  /\ \/ UNCHANGED report
     \/ pc = "agent" /\ report' = [report EXCEPT ![current] = TRUE]
  /\ credit' = IF pc \in Busy THEN [credit EXCEPT ![current] = @ + 1] ELSE credit
  /\ UNCHANGED <<status, cancelRequested, owner, createdAt, clock, artifact>>

Next == Client \/ WorkerStep \/ Sigterm \/ Crash

Spec == Init /\ [][Next]_vars

(* systemd restarts the worker and the agent call is bounded by its request *)
(* timeout, so the worker keeps stepping; clients owe nothing.              *)
FairSpec == Spec /\ WF_vars(WorkerStep)

------------------------------------------------------------------------------
(* Properties.                                                              *)

(* The unguarded UPDATEs of complete, fail and mark_cancelled are safe       *)
(* because a task is running exactly while the worker holds it: between      *)
(* recovery and the next crash no other running row exists.                  *)
WorkerOwnsRunning ==
  /\ pc \in Busy => status[current] = "running"
  /\ pc \in {"poll", "claim"} => \A t \in Task : status[t] # "running"
  /\ \A s, t \in Task : status[s] = "running" /\ status[t] = "running" => s = t

(* No execution of the agent is unaccounted for: a task is executed once,    *)
(* plus once per accepted answer, plus once per execution that a crash of    *)
(* the worker cut short, and a repeated submission makes no second task.     *)
ExecutionsAccounted ==
  /\ \A t \in Task : credit[t] >= 0
  /\ \A s, t \in Task :
       {status[s], status[t]} \subseteq Live /\ Key[s] = Key[t] /\ Key[s] # NoKey => s = t

(* waiting_input accepts one answer per question (docs/MAINTENANCE): an      *)
(* answer pays for an execution only after one that asked.                   *)
OneAnswerPerQuestion ==
  \A t \in Task : credit[t] <= IF status[t] = "waiting_input" THEN 0 ELSE 1

(* A completed task has its Markdown report, and its generated file when the *)
(* output format asks for one, whatever was interrupted and retried.         *)
CompletedHasDeliverables ==
  \A t \in Task : status[t] = "completed" =>
    report[t] /\ (t \in Illustrated => artifact[t])

(* A recorded cancel request is final across answers, crashes and recovery:  *)
(* it is never dropped and the agent is never started on the task again.     *)
CancelIsFinal ==
  [][\A t \in Task : cancelRequested[t] =>
       cancelRequested'[t] /\ (status'[t] = "running" => status[t] = "running")]_vars

(* The queue implements the life of a task its clients see.                  *)
Lifecycle == INSTANCE TaskLifecycle WITH Task <- Task, status <- status
ImplementsLifecycle == Lifecycle!Spec

(* First come, first served (claim_next): a queued task that nobody cancels  *)
(* is served, with two exceptions: clients who answer the questions of older *)
(* tasks again and again, for these keep their age and go ahead of it, and a *)
(* worker that is killed or stopped again and again.  Younger tasks, however *)
(* often they are answered, cannot starve it.                                *)
OlderIsAnswered(t) == \E s \in Task : createdAt[s] < createdAt[t] /\ AnswerTask(s)

QueuedIsServed ==
  \A t \in Task :
    \/ []<>(status[t] # "queued" \/ cancelRequested[t])
    \/ []<><<OlderIsAnswered(t)>>_vars
    \/ []<><<Crash \/ Sigterm>>_vars

(* docs/MAINTENANCE: cancelling takes effect at once on a queued or waiting  *)
(* task, and a running one must be terminated.                               *)
CancelTakesEffect ==
  \A t \in Task : cancelRequested[t] ~> status[t] \notin Active
=============================================================================
