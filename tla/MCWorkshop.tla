----------------------------- MODULE MCWorkshop -----------------------------
(* Small instances of the devices the workshop's sessions use, one at a      *)
(* time: `part' is the one whose steps are explored.                         *)
EXTENDS MCWorkshopVision, Microphone

VARIABLE part

workshopVars == <<wvars, micVars, part>>

(* Both sittings of the microphone are launches of one application.         *)
SameProgram == [s \in Sitting |-> "application"]

PartsInit ==
  /\ part \in {"vision", "microphone"}
  /\ WorkshopInit /\ MicrophoneInit

Only(p) ==
  /\ part = p /\ UNCHANGED part
  /\ p # "vision" => UNCHANGED wvars
  /\ p # "microphone" => UNCHANGED micVars

(* Bound: a fault of the arbiter or a second session, not both in one life. *)
FaultOrSecondSession ==
  faults > 0 => \E s \in Session : pc[s] = "off" /\ \A c \in Control : target[c] # s

PartsNext ==
  \/ Only("vision") /\ WorkshopNext /\ FaultOrSecondSession'
  \/ Only("microphone") /\ MicrophoneNext

(* WorkshopFairness and the fairness of MicrophoneSpec, each for its part;  *)
(* the two parts have the same sessions and servers.                         *)
PartsFairness ==
  /\ WF_workshopVars(Only("vision") /\ (StopEnds \/ SupervisorStarts) /\ Outside)
  /\ \A s \in Session :
       /\ WF_workshopVars(/\ Only("vision")
                          /\ \/ Check(s) \/ Reserved(s) \/ ReserveRaises(s)
                             \/ Assign(s) \/ Spawn(s) \/ SpawnRaises(s))
       /\ WF_workshopVars(\/ Only("vision") /\ LoopEnds(s)
                          \/ Only("microphone") /\ (Opening(s) \/ Closes(s)))
       /\ WF_workshopVars(\/ Only("vision") /\ GiveUp(s) /\ Outside
                          \/ Only("microphone") /\ (Expires(s) \/ Closes(Alarm(s))))
       /\ WF_workshopVars(Only("vision") /\ Lapses(s) /\ Outside)
  /\ \A t \in Thread : WF_workshopVars(Only("vision") /\ StopVision(t))
  /\ \A c \in Control : WF_workshopVars(\/ Only("vision") /\ ControlStep(c)
                                        \/ Only("microphone") /\ Closes(c))

PartsSpec == PartsInit /\ [][PartsNext]_workshopVars /\ PartsFairness

=============================================================================
