------------------------------ MODULE RunPool ------------------------------
(***************************************************************************)
(* What the agent runtime promises about machine load: a run executes once *)
(* at most, after it was admitted, and no more than MaxConcurrency execute *)
(* at a time.  AgentRuntime implements this specification.                 *)
(***************************************************************************)
EXTENDS Naturals, FiniteSets

CONSTANTS Run, MaxConcurrency

VARIABLE stage

Executing == {r \in Run : stage[r] = "executing"}

Init == stage = [r \in Run |-> "new"]

Admit(r) == /\ stage[r] = "new"
            /\ stage' = [stage EXCEPT ![r] = "admitted"]

Execute(r) == /\ stage[r] = "admitted"
              /\ Cardinality(Executing) < MaxConcurrency
              /\ stage' = [stage EXCEPT ![r] = "executing"]

\* One run ends, or all that the service has when it goes down.
End(S) == stage' = [r \in Run |-> IF r \in S THEN "ended" ELSE stage[r]]

Next == \/ \E r \in Run : Admit(r) \/ Execute(r)
        \/ \E S \in SUBSET Run : End(S)

Spec == Init /\ [][Next]_stage
=============================================================================
