-------------------------- MODULE MCWorkshopVision --------------------------
(* Small instances of WorkshopVision: s1 and s2 run the same application or *)
(* two different ones.                                                      *)
EXTENDS WorkshopVision, TLC

CONSTANTS s1, s2, a1, a2

OneApp  == [s \in Session |-> a1]
TwoApps == [s \in Session |-> IF s = s1 THEN a1 ELSE a2]
============================================================================
