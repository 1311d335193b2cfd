------------------------------ MODULE MCScreen ------------------------------
(* Small instances of what the round screen shows and runs, the workshop's  *)
(* applications among it, one of them at a time: `focus' is the one whose   *)
(* steps are explored.                                                      *)
EXTENDS ExpressionEvents, Pomodoro, ExpressionDisplay, Music, Provisioning,
        WorkshopPackage

CONSTANTS ta, tb    \* tracks

VARIABLE focus

Scanned == {<<>>, <<ta, tb>>, <<tb>>}

screenVars == <<eventVars, pomodoroVars, displayVars, musicVars,
                provisioningVars, appVars, packageVars, focus>>

ScreenInit ==
  /\ focus \in {"events", "pomodoro", "display", "music", "provisioning",
               "app", "package"}
  /\ EventsInit /\ PomodoroInit /\ DisplayInit /\ MusicInit /\ ProvisioningInit
  /\ AppInit /\ PackageInit

Rest(f) ==
  /\ focus = f /\ UNCHANGED focus
  /\ f # "events" => UNCHANGED eventVars
  /\ f # "pomodoro" => UNCHANGED pomodoroVars
  /\ f # "display" => UNCHANGED displayVars
  /\ f # "music" => UNCHANGED musicVars
  /\ f # "provisioning" => UNCHANGED provisioningVars
  /\ f # "app" => UNCHANGED appVars
  /\ f # "package" => UNCHANGED packageVars

ScreenNext ==
  \/ Rest("events") /\ EventsNext
  \/ Rest("pomodoro") /\ PomodoroNext
  \/ Rest("display") /\ DisplayNext
  \/ Rest("music") /\ MusicNext
  \/ Rest("provisioning") /\ ProvisioningNext
  \/ Rest("app") /\ AppNext
  \/ Rest("package") /\ PackageNext

(* The fairness of EventsFairSpec and ProvisioningSpec, each for its focus.  *)
ScreenFairness ==
  /\ WF_screenVars(\/ Rest("events") /\ BridgeStep
                   \/ Rest("provisioning") /\ ServiceLoop)
  /\ WF_screenVars(Rest("events") /\ (SendDatagram \/ Greet))
  /\ WF_screenVars(Rest("events") /\ DisplayStarts)

ScreenSpec == ScreenInit /\ [][ScreenNext]_screenVars /\ ScreenFairness
=============================================================================
