---------------------------- MODULE MCTaskQueue ----------------------------
(* Small instances of TaskQueue: t1 is a text task and t2 an image task;    *)
(* when t3 exists it is a retry of the request that created t1.             *)
EXTENDS TaskQueue, TLC

CONSTANTS t1, t2, t3, k1

MCKey == [t \in Task |-> IF t \in {t1, t3} THEN k1 ELSE NoKey]
MCIllustrated == {t2} \cap Task
============================================================================
