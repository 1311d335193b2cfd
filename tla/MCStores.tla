------------------------------ MODULE MCStores ------------------------------
(* Small instances of the workshop's proposals and of the paper radar, one at *)
(* a time: `subject' is the one that is explored.                             *)
(* All applications ask for the same capabilities: the case in which          *)
(* comparing capability sets cannot tell one candidate from another.          *)
EXTENDS WorkshopProposals, PaperRadar

VARIABLE subject

storesVars == <<vars, radarVars, subject>>

MCCaps == [a \in App |-> "screen"]

StoresInit ==
  /\ subject \in {"proposals", "radar"}
  /\ Init /\ RadarInit

Explores(s) ==
  /\ subject = s /\ UNCHANGED subject
  /\ s # "proposals" => UNCHANGED vars
  /\ s # "radar" => UNCHANGED radarVars

StoresNext ==
  \/ Explores("proposals") /\ Next
  \/ Explores("radar") /\ RadarNext

(* The fairness of WorkshopProposals; the radar promises nothing.            *)
StoresFairness ==
  /\ WF_storesVars(Explores("proposals") /\ StartService)
  /\ WF_storesVars(Explores("proposals") /\ QueueWaiting)
  /\ WF_storesVars(Explores("proposals") /\ WorkerStep)
  /\ \A r \in Request : WF_storesVars(Explores("proposals") /\ RequestStep(r))

StoresSpec == StoresInit /\ [][StoresNext]_storesVars /\ StoresFairness
=============================================================================
