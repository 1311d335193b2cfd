------------------------- MODULE ExpressionDisplay -------------------------
(***************************************************************************)
(* What the round screen shows and what a touch of it does                 *)
(* (apps/expression-ui/expression_display_persistent.py): application      *)
(* pages over the expression desktop, the radial menu and the panels of    *)
(* the status bar, the camera view, the photo screensaver and the alert of *)
(* a finished pomodoro.  Touches, voice commands and the frame loop change *)
(* the same state, one at a time and in any order.                         *)
(*                                                                         *)
(* Positions are reduced to what they hit and times to their order; the    *)
(* status bar may be visible at any time.                                  *)
(***************************************************************************)
EXTENDS Naturals, Sequences

CONSTANT AppPage    \* the application pages of the instance

ASSUME AppAssumption ==
  AppPage \subseteq {"call", "music", "workshop", "performance", "pomodoro"}

VARIABLES ui,       \* the renderer's state
          hosted,   \* the workshop host runs an application
          gesture   \* history: what the finger has done to the restart slider since it went down

displayVars == <<ui, hosted, gesture>>

Page == AppPage \cup {"settings"}
Panel == {"volume", "screensaver", "restart"}
Target == {"back", "enter", "list", "launch", "decide", "stop",
           "capture", "gallery", "album", "edge"}
Nothing == "nothing"
NoRequest == [kind |-> "none", is |-> "sent"]
Request(kind) == [kind |-> kind, is |-> "sent"]

Ui == [page    : [Page -> {"off", "moving", "on", "leaving"}],
       inner   : SUBSET (Page \ {"call", "music", "workshop"}),  \* shows its second level
       section : {"root", "list", "running"},                    \* of the workshop page
       \* the call to the host; "decide" approves ("ok") or rejects ("no") a proposal
       request : [kind : {"none", "launch", "stop", "decide"}, is : {"sent", "ok", "no", "failed"}],
       camera  : {"off", "viewfinder", "gallery"},
       menu    : {"off", "main", "applications"},
       panels  : SUBSET (Panel \cup {"token"}),
       dragging : BOOLEAN, latched : BOOLEAN,                    \* the restart slider
       reboot  : BOOLEAN,                                        \* requested
       saver   : BOOLEAN,
       alert   : BOOLEAN,
       touch   : {"up", "down", "moved"},
       target  : [Page \cup {"camera"} -> Target \cup {Nothing}]]

DisplayTypeOK ==
  /\ ui \in Ui
  /\ hosted \in BOOLEAN
  /\ gesture \in {Nothing, "start", "end"}

DisplayInit ==
  /\ ui = [page |-> [p \in Page |-> "off"], inner |-> {}, section |-> "root",
           request |-> NoRequest, camera |-> "off", menu |-> "off", panels |-> {},
           dragging |-> FALSE, latched |-> FALSE, reboot |-> FALSE, saver |-> FALSE,
           alert |-> FALSE, touch |-> "up",
           target |-> [p \in Page \cup {"camera"} |-> Nothing]]
  /\ hosted = FALSE
  /\ gesture = Nothing

\* draw, tick and the touch handlers serve the first of these that is up.
Priority == <<"call", "music", "workshop", "performance", "pomodoro", "settings">>

Up(u) == {p \in Page : u.page[p] # "off"}

Front(u) ==
  IF Up(u) = {} THEN "desktop"
  ELSE Priority[CHOOSE i \in DOMAIN Priority :
         Priority[i] \in Up(u) /\ \A j \in 1..(i - 1) : Priority[j] \notin Up(u)]

Awake(u) == [u EXCEPT !.saver = FALSE]    \* note_screensaver_activity

-----------------------------------------------------------------------------
(* Menu and panels *)

\* close_radial_menu; the latch of the slider stays as it is.
MenuClosed(u) == [u EXCEPT !.menu = "off", !.panels = {}, !.dragging = FALSE]

\* A mutant of PanelBegun: the slider is taken as it was left.
PanelBegunAsLeft(u, panel) ==
  [u EXCEPT !.panels = (@ \ Panel) \cup {panel},
            !.menu = IF @ = "off" THEN "main" ELSE @]

\* begin_volume_mode, begin_screensaver_panel_mode, begin_restart_mode: each
\* ends the others and puts the slider back to its start.
PanelBegun(u, panel) ==
  [u EXCEPT !.panels = (@ \ Panel) \cup {panel},
            !.menu = IF @ = "off" THEN "main" ELSE @,
            !.dragging = FALSE, !.latched = FALSE,
            !.reboot = @ /\ panel # "restart"]

\* end_*_mode; the restart panel stays once its request is made.
PanelEnded(u, panel) ==
  IF panel # "restart" THEN [u EXCEPT !.panels = @ \ {panel}]
  ELSE IF u.reboot THEN u
  ELSE [u EXCEPT !.panels = @ \ {panel}, !.dragging = FALSE, !.latched = FALSE]

\* prepare_ and complete_application_menu_return
ReturnPrepared(u) == [u EXCEPT !.menu = "applications", !.panels = @ \ {"token"}]
Returned(u) == [u EXCEPT !.menu = "applications"]

-----------------------------------------------------------------------------
(* Pages *)

Asked(u, kind) == IF u.request = NoRequest THEN [u EXCEPT !.request = Request(kind)] ELSE u

\* poll_workshop_action, reached only by drawing the workshop's page.
Polled(u) ==
  IF u.request.kind = "none" \/ u.request.is = "sent" THEN u
  ELSE [u EXCEPT !.request = NoRequest,
                 !.section = IF u.request.is = "failed" THEN @
                             ELSE IF u.request.is = "no" THEN "root"
                             ELSE IF u.request.kind = "launch" THEN "running" ELSE "list"]

\* open_pomodoro, open_performance, open_workshop, open_music, open_settings:
\* nothing when the page is up, also while it is leaving.
Opened(u, p) ==
  IF u.page[p] # "off" THEN u
  ELSE LET o == [Awake(u) EXCEPT !.page[p] = "moving", !.inner = @ \ {p},
                                 !.target[p] = Nothing]
       IN CASE p = "workshop" -> Polled([o EXCEPT !.section = "root"])
            [] p \in {"pomodoro", "settings"} -> [o EXCEPT !.panels = @ \ {"token"}]
            [] OTHER -> o

\* Taking a page down at once.
Gone(u, p) == [u EXCEPT !.page[p] = "off", !.inner = @ \ {p}, !.target[p] = Nothing]

\* close_*: the page leaves with an animation that ends in the menu of
\* applications; settings end in the desktop.  Pomodoro and settings close at
\* once when an animation is already running.
Closed(u, p) ==
  LET r == IF p = "settings" THEN u ELSE ReturnPrepared(Awake(u))
  IN IF u.page[p] = "off" THEN u
     ELSE IF p \in {"pomodoro", "settings"} /\ u.page[p] # "on" THEN Awake(Gone(r, p))
     ELSE [r EXCEPT !.page[p] = "leaving", !.target[p] = Nothing,
                    !.inner = IF p = "pomodoro" THEN @ \ {p} ELSE @]

\* prepare_voice_application_switch: every other application page goes, a
\* running workshop application is asked to stop.
Switched(u, p) ==
  LET away == AppPage \ {p}
      s == IF p # "workshop" /\ u.section = "running" THEN Asked(u, "stop") ELSE u
  IN [MenuClosed(s) EXCEPT
        !.page = [q \in Page |-> IF q \in away THEN "off" ELSE @[q]],
        !.inner = @ \ away,
        !.target = [k \in DOMAIN @ |-> IF k \in away THEN Nothing ELSE @[k]],
        !.section = IF p = "workshop" THEN @ ELSE "root"]

\* A mutant of CameraSet: switching the camera leaves the photos on.
CameraSetAsleep(u, on) ==
  [u EXCEPT !.camera = IF ~on THEN "off" ELSE IF @ = "off" THEN "viewfinder" ELSE @,
            !.target["camera"] = IF on /\ @ # "edge" THEN @ ELSE Nothing]

\* set_camera_view
CameraSet(u, on) ==
  [Awake(u) EXCEPT !.camera = IF ~on THEN "off" ELSE IF @ = "off" THEN "viewfinder" ELSE @,
                   !.target["camera"] = IF on /\ @ # "edge" THEN @ ELSE Nothing]

\* set_video_call_view(True)
CallShown(u) ==
  [CameraSet(Switched(u, "call"), FALSE) EXCEPT
     !.page = [@ EXCEPT !["call"] = "on", !["settings"] = "off"],
     !.target["call"] = Nothing]

\* close_video_call_to_application_menu
CallClosed(u) == Returned(ReturnPrepared(Gone(Awake(u), "call")))

\* handle_workshop_target("back"), also for a swipe.
WorkshopBack(u) == CASE u.section = "running" -> Asked(u, "stop")
                     [] u.section = "list"    -> [u EXCEPT !.section = "root"]
                     [] OTHER                 -> Closed(u, "workshop")

\* A page shows or leaves its second level, not while another animation of it
\* runs; the pomodoro page does not look.
Turned(u, p, inside) ==
  IF p # "pomodoro" /\ u.page[p] # "on" THEN u
  ELSE [u EXCEPT !.inner = IF inside THEN @ \cup {p} ELSE @ \ {p},
                 !.page[p] = "moving", !.target[p] = Nothing]

Back(u, p) == CASE p = "call"     -> CallClosed(u)
                [] p = "workshop" -> WorkshopBack(u)
                [] p \in u.inner  -> Turned(u, p, FALSE)
                [] OTHER          -> Closed(u, p)

\* The targets a page offers.
Targets(u, p) ==
  CASE p \in {"call", "music"} \cup u.inner        -> {"back"}
    [] p \notin {"call", "music", "workshop"} \cup u.inner -> {"back", "enter"}
    [] p = "workshop" /\ u.section = "root"       -> {"back", "list"}
    [] p = "workshop" /\ u.section = "list"       -> {"back", "launch", "decide"}
    [] p = "workshop" /\ u.section = "running"    -> {"back", "stop"}

Tapped(u, p, target) ==
  CASE target = "back"  -> Back(u, p)
    [] target = "enter" -> Turned(u, p, TRUE)
    [] target = "list"  -> Awake([u EXCEPT !.section = "list"])
    [] OTHER            -> Awake(Asked(u, target))

-----------------------------------------------------------------------------
(* Touches: handle_pointer_down, _motion and _up *)

Step(u) == ui' = u /\ UNCHANGED <<hosted, gesture>>

\* A new touch.  The camera keeps a target that no lift has cleared.
Touch(u) == [Awake(u) EXCEPT !.touch = "down",
                             !.target["camera"] = IF @ = "edge" THEN Nothing ELSE @]

Down == ui.touch = "up" /\ ~ui.alert
Held == ui.touch # "up"
Lifted(u) == [u EXCEPT !.touch = "up", !.target[IF Front(ui) = "desktop" THEN "camera" ELSE Front(ui)] = Nothing]

DownOnSaver == Down /\ ui.saver /\ Step(Awake(ui))

\* A page in an animation takes no touch.
DownOnPage ==
  LET p == Front(ui)
  IN /\ Down /\ ~ui.saver /\ p # "desktop"
     /\ ui.page[p] = "on"
     /\ \E target \in Targets(ui, p) \cup {Nothing} :
          ui' = [Touch(ui) EXCEPT !.target[p] = target]
     /\ gesture' = Nothing /\ UNCHANGED hosted

OnDesktop == ~ui.saver /\ Front(ui) = "desktop"

\* The token popover opens from the status bar, and any touch puts it away;
\* neither touch does anything else.
DownOnToken ==
  /\ Down /\ OnDesktop
  /\ \/ "token" \in ui.panels /\ Step([Awake(ui) EXCEPT !.panels = @ \ {"token"}])
     \/ ui.panels = {} /\ Step([Awake(ui) EXCEPT !.panels = {"token"}])

DownOnDesktop ==
  /\ Down /\ OnDesktop /\ ui.panels = {}
  /\ \/ /\ ui.menu = "off" /\ ui.camera # "off"
        /\ \/ \E target \in IF ui.camera = "gallery" THEN {"album"} ELSE {"capture", "gallery"} :
                ui' = [Touch(ui) EXCEPT !.target["camera"] = target]
           \/ /\ ui.camera = "viewfinder"
              /\ \E target \in {"edge", Nothing} :
                   ui' = [Touch(ui) EXCEPT !.target["camera"] = IF @ = Nothing THEN target ELSE @]
     \/ ui' = Touch(ui) /\ (ui.menu # "off" \/ ui.camera = "off")
     \/ \E panel \in Panel : ui' = PanelBegun(Touch(ui), panel)
  /\ gesture' = Nothing /\ UNCHANGED hosted

\* On a control of the open panel, or beside it, which ends the panel.
DownOnPanel ==
  /\ Down /\ OnDesktop
  /\ \E panel \in ui.panels \cap Panel :
       /\ panel = "restart" => ~ui.reboot
       /\ \/ Step(PanelEnded(Awake(ui), panel))
          \/ ui' = Touch(ui) /\ gesture' = Nothing /\ UNCHANGED hosted
          \/ /\ panel = "restart"
             /\ ui' = [Touch(ui) EXCEPT !.dragging = TRUE, !.latched = FALSE]
             /\ gesture' = "start" /\ UNCHANGED hosted

MoveOnPage ==
  /\ Held /\ Front(ui) # "desktop"
  /\ Step([ui EXCEPT !.touch = "moved", !.target[Front(ui)] = Nothing])

MoveOnDesktop ==
  /\ Held /\ Front(ui) = "desktop"
  /\ Step([ui EXCEPT !.touch = "moved"])

Sliding == /\ Held /\ Front(ui) = "desktop" /\ ui.target["camera"] \in {Nothing, "edge"}
           /\ "restart" \in ui.panels /\ ui.dragging

\* Along the rail to its end; back again; off the rail, which gives up the
\* drag unless the end was reached.
SlideToEnd ==
  /\ Sliding /\ ~ui.latched
  /\ ui' = [ui EXCEPT !.touch = "moved", !.latched = TRUE]
  /\ gesture' = IF gesture = "start" THEN "end" ELSE gesture
  /\ UNCHANGED hosted

SlideBack ==
  /\ Sliding /\ ui.latched
  /\ ui' = [ui EXCEPT !.touch = "moved", !.latched = FALSE]
  /\ gesture' = IF gesture = "end" THEN "start" ELSE gesture
  /\ UNCHANGED hosted

SlideOff ==
  /\ Sliding /\ ~ui.latched
  /\ ui' = [ui EXCEPT !.touch = "moved", !.dragging = FALSE]
  /\ gesture' = Nothing
  /\ UNCHANGED hosted

\* A tap acts when it is lifted where it went down; a swipe to the right goes
\* back from wherever it began.
UpOnPage ==
  LET p == Front(ui)
  IN /\ Held /\ p # "desktop"
     /\ \/ Step(Lifted(ui))
        \/ ui.touch = "moved" /\ Step(Lifted(Back(ui, p)))
        \/ /\ ui.touch = "down" /\ ui.target[p] \in Targets(ui, p)
           /\ Step(Lifted(Tapped(ui, p, ui.target[p])))

\* Shutter and album button, the album's controls, and the swipe from the
\* edge that leaves the camera.
UpOnCamera ==
  /\ Held /\ Front(ui) = "desktop" /\ ui.target["camera"] # Nothing
  /\ \/ Step(Lifted(ui))
     \/ /\ ui.target["camera"] = "gallery" /\ ui.touch = "down" /\ ui.camera # "off"
        /\ Step(Lifted([ui EXCEPT !.camera = "gallery"]))
     \/ /\ ui.target["camera"] = "album" /\ ui.touch = "down" /\ ui.camera = "gallery"
        /\ Step(Lifted([ui EXCEPT !.camera = "viewfinder"]))
     \/ /\ ui.target["camera"] = "edge" /\ ui.touch = "moved"
        /\ ui.camera # "off" /\ ui.menu = "off"
        /\ Step(Lifted(CameraSet(ui, FALSE)))

Desktop == Held /\ Front(ui) = "desktop" /\ ui.target["camera"] \in {Nothing, "edge"}

\* The slider is let go: at its end, where a drag need not have been sampled
\* before, or short of it.
UpOnRestart ==
  /\ Desktop /\ "restart" \in ui.panels
  /\ \/ /\ ui.latched
        /\ ui' = [Lifted(ui) EXCEPT !.dragging = FALSE, !.reboot = TRUE]
        /\ UNCHANGED gesture
     \/ /\ ui.dragging /\ ~ui.latched
        /\ ui' = [Lifted(ui) EXCEPT !.dragging = FALSE, !.latched = TRUE, !.reboot = TRUE]
        /\ gesture' = IF gesture = "start" THEN "end" ELSE gesture
     \/ ~ui.latched /\ Step([Lifted(ui) EXCEPT !.dragging = FALSE])
  /\ UNCHANGED hosted

UpOnPanel ==
  /\ Desktop /\ ui.panels \cap {"volume", "screensaver"} # {} /\ Step(Lifted(ui))

\* The status bar under the open menu, a direction of the menu, or nowhere.
\* An entry other than the camera leaves the camera view first.
UpOnMenu ==
  LET chosen == Lifted(MenuClosed(ui))
      uncovered == IF ui.camera = "off" THEN chosen ELSE CameraSet(chosen, FALSE)
  IN /\ Desktop /\ ui.panels = {} /\ ui.menu # "off"
     /\ \/ Step(Lifted(ui))
        \/ \E panel \in Panel : ui.touch = "down" /\ Step(PanelBegun(Lifted(ui), panel))
        \/ ui.menu = "main" /\ Step([Lifted(ui) EXCEPT !.menu = "applications"])
        \/ ui.menu = "main" /\ Step(CameraSet(chosen, ui.camera = "off"))
        \/ ui.menu = "main" /\ Step(uncovered)
        \/ ui.menu = "main" /\ Step(Opened(uncovered, "settings"))
        \/ ui.menu = "applications" /\ Step([Lifted(ui) EXCEPT !.menu = "main"])
        \/ \E p \in AppPage : Step(IF p = "call" THEN CallShown(uncovered) ELSE Opened(uncovered, p))

UpOnExpression == /\ Desktop /\ ui.panels \subseteq {"token"} /\ ui.menu = "off"
                  /\ Step(Lifted(ui))

TouchStep ==
  \/ DownOnSaver \/ DownOnPage \/ DownOnToken \/ DownOnDesktop \/ DownOnPanel
  \/ MoveOnPage \/ MoveOnDesktop \/ SlideToEnd \/ SlideBack \/ SlideOff
  \/ UpOnPage \/ UpOnCamera \/ UpOnRestart \/ UpOnPanel \/ UpOnMenu \/ UpOnExpression

-----------------------------------------------------------------------------
(* Voice commands and commands of the call service *)

VoiceOpens == \E p \in AppPage \ {"call"} :
  LET o == Opened(Switched(ui, p), p)
  IN Step(IF p = "pomodoro" /\ p \in o.inner THEN Turned(o, p, FALSE) ELSE o)

VoiceCloses == \E p \in AppPage \ {"call"} : Step(Closed(ui, p))

\* The host starts an application for the voice assistant, which shows it.
VoiceLaunches ==
  /\ "workshop" \in AppPage
  /\ hosted' = TRUE
  /\ ui' = [Opened(Switched(ui, "workshop"), "workshop") EXCEPT !.section = "running"]
  /\ UNCHANGED gesture

VoiceStops ==
  /\ "workshop" \in AppPage
  /\ hosted' = FALSE
  /\ ui' = [ui EXCEPT !.section = IF ui.page["workshop"] = "off" THEN @ ELSE "list"]
  /\ UNCHANGED gesture

\* video_call_view; without a call on the screen its end brings up the menu.
CallBegins == "call" \in AppPage /\ Step(CallShown(ui))
CallEnds == /\ "call" \in AppPage
            /\ Step(IF ui.page["call"] = "on" THEN CallClosed(ui) ELSE Returned(ui))

CameraCommand ==
  \/ \E on \in BOOLEAN : Step(CameraSet(ui, on))
  \/ ui.camera # "off" /\ Step([ui EXCEPT !.camera = "gallery", !.target["camera"] = Nothing])

Command == VoiceOpens \/ VoiceCloses \/ VoiceLaunches \/ VoiceStops \/ CallBegins \/ CallEnds
           \/ CameraCommand

-----------------------------------------------------------------------------
(* The frame loop: tick and draw *)

Lit == ~ui.saver /\ ~ui.alert

\* The front page is drawn; its animation ends.
Animated(p) ==
  /\ Lit /\ p = Front(ui)
  /\ \/ ui.page[p] = "moving" /\ Step([ui EXCEPT !.page[p] = "on"])
     \/ /\ ui.page[p] = "leaving"
        /\ Step(IF p = "settings" THEN Awake(Gone(ui, p)) ELSE Returned(Gone(ui, p)))

Polling == /\ Lit /\ Front(ui) = "workshop" /\ ui.page["workshop"] = "on"
           /\ Polled(ui) # ui /\ Step(Polled(ui))

\* The host answers; a failed call may have had its effect.
Answered ==
  /\ ui.request.kind # "none" /\ ui.request.is = "sent"
  /\ \E result \in {"ok", "failed"} \cup (IF ui.request.kind = "decide" THEN {"no"} ELSE {}) :
       /\ ui' = [ui EXCEPT !.request.is = result]
       /\ \/ ui.request.kind = "launch" /\ hosted' = TRUE
          \/ ui.request.kind = "stop" /\ hosted' = FALSE
          \/ (result = "failed" \/ ui.request.kind = "decide") /\ UNCHANGED hosted
  /\ UNCHANGED gesture

HostedEnds == hosted /\ hosted' = FALSE /\ UNCHANGED <<ui, gesture>>

\* The desktop's part of tick runs while no page is up.
LongPress ==
  /\ OnDesktop /\ ui.touch = "down" /\ ui.menu = "off"
  /\ ui.target["camera"] \in {Nothing, "edge"}
  /\ Step([ui EXCEPT !.menu = "main"])

PanelIdle == /\ OnDesktop /\ ui.touch = "up"
             /\ \E panel \in ui.panels : PanelEnded(ui, panel) # ui /\ Step(PanelEnded(ui, panel))

MenuIdle == /\ OnDesktop /\ ui.touch = "up" /\ ui.menu # "off" /\ ui.panels = {}
            /\ Step(MenuClosed(ui))

\* The idle time is longer than an alert.
SaverStarts ==
  /\ OnDesktop /\ ~ui.alert /\ ui.touch = "up" /\ ui.menu = "off" /\ ui.panels = {}
  /\ ui.camera = "off" /\ ~ui.reboot
  /\ Step([ui EXCEPT !.saver = TRUE])

SaverLosesPhoto == ui.saver /\ Step(Awake(ui))

\* start_pomodoro_completion_alert: the finger is forgotten.
AlertStarts ==
  /\ ~ui.alert
  /\ Step([Awake(ui) EXCEPT !.alert = TRUE, !.touch = "up",
             !.target = [k \in DOMAIN @ |->
               IF k \in {"pomodoro", "performance", "music", "camera"} THEN Nothing ELSE @[k]]])

\* The alert takes four seconds; the restart panel closes after one without
\* a finger.
AlertEnds ==
  /\ ui.alert /\ ("restart" \in ui.panels => ui.reboot)
  /\ Step([Awake(ui) EXCEPT !.alert = FALSE])

RebootFails == /\ ui.reboot /\ ~ui.saver
               /\ Step([ui EXCEPT !.reboot = FALSE, !.latched = FALSE])

FrameStep ==
  \/ (\E p \in Page : Animated(p)) \/ Polling \/ Answered \/ HostedEnds
  \/ LongPress \/ PanelIdle \/ MenuIdle
  \/ SaverStarts \/ SaverLosesPhoto \/ AlertStarts \/ AlertEnds \/ RebootFails

DisplayNext == TouchStep \/ Command \/ FrameStep

DisplaySpec == DisplayInit /\ [][DisplayNext]_displayVars
-----------------------------------------------------------------------------
(* Properties *)

\* The photos cover the idle desktop and nothing else, a page replaces the one
\* before, and the panels of volume, screensaver, token and restart exclude each
\* other and go with their menu (MAINTENANCE.zh-CN.md:113), whatever opens on
\* its own, by the assistant or by a call between the down and the up of a touch
\* (expression_display_persistent.py:2205, :12595 and :12662).
OneThingInFront ==
  /\ ui.saver => Front(ui) = "desktop" /\ ui.camera = "off" /\ ui.touch = "up"
  /\ \A p, q \in Up(ui) \ {"settings"} : p = q
  /\ \A p, q \in ui.panels : p = q
  /\ ui.panels \cap Panel # {} => ui.menu # "off"

\* MAINTENANCE.zh-CN.md:124: the restart slider takes effect when the finger is
\* lifted at its end and can be dragged back before: whatever commands,
\* menus and alerts interrupt the drag, a reboot follows only a drag from the
\* start of the rail to its end, of the finger that is lifted
\* (expression_display_persistent.py:12413).
RebootIsDeliberate ==
  [][ui'.reboot /\ ~ui.reboot => gesture' = "end"]_displayVars
=============================================================================
