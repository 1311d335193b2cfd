---------------------------- MODULE TaskLifecycle ----------------------------
(***************************************************************************)
(* What the background-task service promises its clients: the life of a     *)
(* task as it is visible through GET /api/v1/tasks.  A task is submitted,   *)
(* executed by at most one worker at a time, may pause for one answer, ends *)
(* in exactly one of three terminal states and stays there until its owner's*)
(* history is purged.  TaskQueue.tla (store + worker + crashes) implements  *)
(* this specification.                                                      *)
(***************************************************************************)

CONSTANT Task

VARIABLE status

Active   == {"queued", "running", "waiting_input"}
Terminal == {"completed", "failed", "cancelled"}
Status   == Active \cup Terminal \cup {"absent", "deleted"}

Init == status = [t \in Task |-> "absent"]

Move(t, from, to) ==
  /\ status[t] \in from
  /\ status' = [status EXCEPT ![t] = to]

Submit(t)  == Move(t, {"absent"}, "queued")

(* The worker executes one task at a time. *)
Start(t)   == /\ \A s \in Task : status[s] # "running"
              /\ Move(t, {"queued"}, "running")

Ask(t)     == Move(t, {"running"}, "waiting_input")
Answer(t)  == Move(t, {"waiting_input"}, "queued")
Requeue(t) == Move(t, {"running"}, "queued")
Finish(t)  == \/ Move(t, {"running"}, "completed")
              \/ Move(t, {"running"}, "failed")
Cancel(t)  == Move(t, Active, "cancelled")

Purge(S) ==
  /\ \A t \in S : status[t] \in Terminal
  /\ status' = [t \in Task |-> IF t \in S THEN "deleted" ELSE status[t]]

Next ==
  \/ \E t \in Task : \/ Submit(t) \/ Start(t) \/ Ask(t) \/ Answer(t)
                     \/ Requeue(t) \/ Finish(t) \/ Cancel(t)
  \/ \E S \in SUBSET Task : Purge(S)

Spec == Init /\ [][Next]_status
=============================================================================
