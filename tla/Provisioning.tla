----------------------------- MODULE Provisioning -----------------------------
(* Setting up a device without a network: the loop of ProvisioningService     *)
(* watches the connection and offers a page or a hotspot, an HTTP thread      *)
(* applies what is posted, and the display shows what the status file says.   *)

VARIABLES
  link,       \* "online", "lan" (a default route, no internet) or "none"
  radio,      \* is the Wi-Fi radio on?
  hotspot,    \* the connection in NetworkManager: "down", "up", or "left", that
              \* is, up though no service has been told so or remembers it
  service,    \* the ProvisioningService object
  stepping,   \* where its loop is
  applying,   \* where the thread that holds apply_lock is
  status,     \* the status file
  setupScreen,     \* provisioning_active of the display
  toggle      \* wifi_toggle_future of the display: "none", "on" or "off"

provisioningVars ==
  <<link, radio, hotspot, service, stepping, applying, status, setupScreen, toggle>>

network == <<link, radio, hotspot>>
onDisplay == <<setupScreen, toggle>>

NoSetup == [mode |-> "inactive", phase |-> "idle", hotspot |-> FALSE, offline |-> "no"]
File(active, s) == [active |-> active, ssid |-> s.hotspot]

ProvisioningTypeOK ==
  /\ link \in {"online", "lan", "none"} /\ radio \in BOOLEAN
  /\ hotspot \in {"down", "up", "left"}
  /\ service \in [mode : {"inactive", "lan", "hotspot", "error"},
                  phase : {"idle", "waiting", "applying", "failed", "complete"},
                  hotspot : BOOLEAN, offline : {"no", "since", "long"}]
  /\ stepping \in {"waiting", "hotspot", "started", "page", "leaving"}
  /\ applying \in {"none", "leaving", "connecting"}
  /\ status \in [active : BOOLEAN, ssid : BOOLEAN]
  /\ setupScreen \in BOOLEAN /\ toggle \in {"none", "on", "off"}

ProvisioningInit ==
  /\ link = "online" /\ radio = TRUE /\ hotspot = "down"
  /\ service = NoSetup /\ stepping = "waiting" /\ applying = "none"
  /\ status = File(FALSE, NoSetup) /\ setupScreen = FALSE /\ toggle = "none"

------------------------------------------------------------------------------
(* The loop: step, activate and deactivate.                                   *)

(* The link is probed and acted upon; a minute without it is needed.          *)
Probes ==
  /\ stepping = "waiting"
  /\ CASE link = "online" /\ service.mode = "inactive" ->
            service' = [service EXCEPT !.offline = "no"] /\ UNCHANGED stepping
       [] link = "online" /\ service.mode # "inactive" ->
            stepping' = "leaving" /\ UNCHANGED service
       [] link # "online" /\ service.offline = "no" ->
            service' = [service EXCEPT !.offline = "since"] /\ UNCHANGED stepping
       [] link # "online" /\ service.offline = "long" /\ service.mode = "inactive" ->
            /\ stepping' = IF link = "none" THEN "hotspot" ELSE "page"
            /\ UNCHANGED service
       [] OTHER -> UNCHANGED <<service, stepping>>
  /\ UNCHANGED <<network, applying, status, onDisplay>>

GraceEnds ==
  /\ service.offline = "since"
  /\ service' = [service EXCEPT !.offline = "long"]
  /\ UNCHANGED <<network, stepping, applying, status, onDisplay>>

(* start_hotspot removes the connection of that name before it makes one.  A  *)
(* command that is given up on may have its effect all the same.              *)
StartsHotspot ==
  /\ stepping = "hotspot"
  /\ IF service.hotspot
     THEN stepping' = "page" /\ UNCHANGED <<hotspot, service, status>>
     ELSE \/ /\ radio = TRUE
             /\ hotspot' = "up" /\ stepping' = "started"
             /\ UNCHANGED <<service, status>>
          \/ /\ hotspot' = "down" \/ (radio = TRUE /\ hotspot' = "left")
             /\ stepping' = "waiting"
             /\ service' = [service EXCEPT !.mode = "error", !.phase = "failed"]
             /\ status' = File(TRUE, service')
  /\ UNCHANGED <<link, radio, applying, onDisplay>>

(* The hotspot is remembered.  Mutant: only if its QR code could be drawn.    *)
RemembersIfDrawn(drawn) == (stepping = "started" /\ drawn) \/ service.hotspot

Remembers(drawn) == stepping = "started" \/ service.hotspot

(* The QR code may fail to be drawn; the page or the hotspot is offered still. *)
Announces ==
  /\ stepping \in {"started", "page"}
  /\ \E drawn \in BOOLEAN :
       LET known == Remembers(drawn)
       IN service' = [service EXCEPT !.hotspot = known,
                                     !.mode = IF known THEN "hotspot" ELSE "lan",
                                     !.phase = IF drawn THEN "waiting" ELSE "failed"]
  /\ status' = File(TRUE, service')
  /\ stepping' = "waiting"
  /\ UNCHANGED <<network, applying, onDisplay>>

(* stop_hotspot does not look at how its two commands end.                    *)
StopsHotspot ==
  IF service.hotspot /\ hotspot # "down" THEN hotspot' \in {"down", "left"} ELSE UNCHANGED hotspot

Deactivates ==
  /\ stepping = "leaving"
  /\ StopsHotspot
  /\ service' = NoSetup /\ status' = File(FALSE, NoSetup)
  /\ stepping' = "waiting"
  /\ UNCHANGED <<link, radio, applying, onDisplay>>

------------------------------------------------------------------------------
(* apply_configuration, in the thread of a POST with the token of the page.   *)

Posts ==
  /\ applying = "none"
  /\ applying' = "leaving"
  /\ service' = [service EXCEPT !.phase = "applying"]
  /\ status' = File(TRUE, service')
  /\ UNCHANGED <<network, stepping, onDisplay>>

LeavesHotspot ==
  /\ applying = "leaving"
  /\ applying' = "connecting"
  /\ StopsHotspot
  /\ service' = [service EXCEPT !.hotspot = FALSE]
  /\ UNCHANGED <<link, radio, stepping, status, onDisplay>>

(* A Wi-Fi connection takes the device from a hotspot.                        *)
ConnectsWifi ==
  /\ applying = "connecting"
  /\ applying' = "none"
  /\ \/ /\ radio = TRUE /\ hotspot' = "down"
        /\ service' = [service EXCEPT !.mode = "lan", !.phase = "complete", !.offline = "no"]
     \/ /\ service' = [service EXCEPT !.phase = "failed"]
        /\ UNCHANGED hotspot \/ (radio = TRUE /\ hotspot' = "down")
  /\ status' = File(TRUE, service')
  /\ UNCHANGED <<link, radio, stepping, onDisplay>>

(* A service that dies is started again; its hotspot stays behind.            *)
ServiceRestarts ==
  /\ service' = NoSetup /\ status' = File(FALSE, NoSetup)
  /\ stepping' = "waiting" /\ applying' = "none"
  /\ hotspot' = IF hotspot = "down" THEN "down" ELSE "left"
  /\ UNCHANGED <<link, radio, onDisplay>>

------------------------------------------------------------------------------
(* The display, and the world.                                                *)

ReadsProvisioning ==
  /\ setupScreen' = status.active
  /\ UNCHANGED <<network, service, stepping, applying, status, toggle>>

(* The settings page cannot be touched while the setup screen is shown.       *)
TogglesWifi ==
  /\ ~setupScreen /\ toggle = "none"
  /\ toggle' = IF radio THEN "off" ELSE "on"
  /\ UNCHANGED <<network, service, stepping, applying, status, setupScreen>>

WifiToggled ==
  /\ toggle # "none"
  /\ toggle' = "none"
  /\ \/ /\ radio' = (toggle = "on")
        /\ hotspot' = IF radio' THEN hotspot ELSE "down"
     \/ UNCHANGED <<radio, hotspot>>
  /\ UNCHANGED <<link, service, stepping, applying, status, setupScreen>>

LinkChanges ==
  /\ link' \in {"online", "lan", "none"} \ {link}
  /\ UNCHANGED <<radio, hotspot, service, stepping, applying, status, onDisplay>>

------------------------------------------------------------------------------
ServiceLoop == Probes \/ StartsHotspot \/ Announces \/ Deactivates

ProvisioningNext ==
  \/ ServiceLoop \/ GraceEnds
  \/ Posts \/ LeavesHotspot \/ ConnectsWifi
  \/ ServiceRestarts
  \/ ReadsProvisioning \/ TogglesWifi \/ WifiToggled \/ LinkChanges

(* The loop runs every fifteen seconds, and every command it waits for has a  *)
(* timeout.                                                                   *)
ProvisioningSpec ==
  ProvisioningInit /\ [][ProvisioningNext]_provisioningVars /\ WF_provisioningVars(ServiceLoop)

------------------------------------------------------------------------------
(* docs/ARCHITECTURE.zh-CN.md:157 says that the hotspot ends when the network *)
(* returns.  The code keeps that for a hotspot nmcli reported as started,     *)
(* whatever was being started, shown or applied at that moment and in         *)
(* whichever order the loop and the posted configuration write the state, up  *)
(* to the moment nmcli is told to take it down.  It does not for a "left" one: *)
(* one whose start was given up on and succeeded after that, whose stop       *)
(* failed, or whose service died stays (activate, step, apply_configuration). *)
HotspotEnds == <>[](link = "online") => <>[](hotspot # "up")
===============================================================================
