------------------------------ MODULE VideoCall ------------------------------
(* The one call of the video call server (apps/video-call): an offer replaces  *)
(* the call there is, a hang-up or the end of its connection closes it.  The   *)
(* handlers are coroutines of one loop and interleave where they await.        *)
EXTENDS FiniteSets

CONSTANTS
  Caller,    \* posted offers
  NoCall

ASSUME CallAssumption == NoCall \notin Caller

VARIABLES
  callSession, \* the server's session
  awaited,   \* waiting
  closing,   \* the running close_session: how far, of which call, for whom
  call,      \* [Caller -> its handler, its peer connection, its devices]
  ended,     \* connectionstatechange handlers whose task has yet to run
  frames,    \* the calls whose video goes to the server's remote_video_sink
  view       \* the last command to the screen

callVars == <<callSession, awaited, closing, call, ended, frames, view>>

NotClosing == [at |-> "no", of |-> NoCall, view |-> FALSE, then |-> NoCall]
Unmade == [at |-> "free", pc |-> "none", camera |-> "none", speaker |-> FALSE, microphone |-> "idle"]

CallInit ==
  /\ callSession = NoCall /\ awaited = FALSE
  /\ closing = NotClosing
  /\ call = [o \in Caller |-> Unmade]
  /\ ended = {} /\ frames = {} /\ view = FALSE

Live(o) == call[o].pc = "open"

------------------------------------------------------------------------------
(* close_session.  A second one returns at once; one that finds no session    *)
(* has nothing to await and is over at once.                                  *)

(* Mutant: the session keeps its seat until all is closed.                    *)
CloseSessionLate(closeView, then) ==
  IF closing.at # "no" THEN UNCHANGED <<callSession, awaited, closing, frames, view>>
  ELSE /\ awaited' = FALSE /\ UNCHANGED callSession
       /\ IF callSession = NoCall
          THEN /\ frames' = {} /\ view' = (view /\ ~closeView) /\ UNCHANGED closing
          ELSE /\ closing' = [at |-> "media", of |-> callSession, view |-> closeView, then |-> then]
               /\ UNCHANGED <<frames, view>>

CloseSession(closeView, then) ==
  IF closing.at # "no" THEN UNCHANGED <<callSession, awaited, closing, frames, view>>
  ELSE /\ callSession' = NoCall /\ awaited' = FALSE
       /\ IF callSession = NoCall
          THEN /\ frames' = {} /\ view' = (view /\ ~closeView) /\ UNCHANGED closing
          ELSE /\ closing' = [at |-> "media", of |-> callSession, view |-> closeView, then |-> then]
               /\ UNCHANGED <<frames, view>>

(* The tasks are cancelled and awaited, and the speaker's process ends.       *)
StopsMedia ==
  /\ closing.at = "media" /\ closing' = [closing EXCEPT !.at = "devices"]
  /\ call' = [call EXCEPT ![closing.of].speaker = FALSE]
  /\ UNCHANGED <<callSession, awaited, ended, frames, view>>

(* The camera stops; aclose ends the recorder it finds.                       *)
StopsDevices ==
  /\ closing.at = "devices" /\ closing' = [closing EXCEPT !.at = "connection"]
  /\ call' = [call EXCEPT ![closing.of].camera = "off",
                          ![closing.of].microphone = IF @ = "starting" THEN "late" ELSE "closed"]
  /\ UNCHANGED <<callSession, awaited, ended, frames, view>>

(* The peer connection says that it is closed, to a handler whose task runs   *)
(* before or after close_session is over.                                     *)
ClosesConnection ==
  /\ closing.at = "connection" /\ closing' = [closing EXCEPT !.at = "view"]
  /\ call' = [call EXCEPT ![closing.of].pc = "closed"]
  /\ ended' = ended \cup {closing.of}
  /\ UNCHANGED <<callSession, awaited, frames, view>>

------------------------------------------------------------------------------
(* accept_offer.                                                              *)

(* What follows the await of close_session, up to the next one.  The Camera   *)
(* Hub may be away: then there is no camera, and the handler is over.         *)
Seated(o, opens) ==
  [call EXCEPT ![o] = [at |-> IF opens THEN "remote" ELSE "over", pc |-> "open",
                       camera |-> IF opens THEN "on" ELSE "none", speaker |-> FALSE, microphone |-> "idle"]]

(* A session whose camera does not open is closed at once, unless another     *)
(* close is running: then it stays.                                           *)
TakesSeat(o, running, opens) ==
  /\ awaited' = FALSE /\ frames' = {} /\ call' = Seated(o, opens)
  /\ IF opens \/ running.at # "no"
     THEN callSession' = o /\ closing' = running
     ELSE /\ callSession' = NoCall
          /\ closing' = [at |-> "media", of |-> o, view |-> TRUE, then |-> NoCall]

Offers(o) ==
  /\ call[o].at = "free"
  /\ IF callSession = NoCall \/ closing.at # "no"
     THEN (\E opens \in BOOLEAN : TakesSeat(o, closing, opens)) /\ UNCHANGED view
     ELSE /\ CloseSession(FALSE, o)
          /\ call' = [call EXCEPT ![o].at = "replacing"]
  /\ UNCHANGED ended

CloseEnds ==
  /\ closing.at = "view"
  /\ view' = (view /\ ~closing.view)
  /\ IF closing.then # NoCall
     THEN \E opens \in BOOLEAN : TakesSeat(closing.then, NotClosing, opens)
     ELSE closing' = NotClosing /\ frames' = {} /\ UNCHANGED <<callSession, awaited, call>>
  /\ UNCHANGED ended

(* setRemoteDescription; the tracks of the offer begin to be consumed.        *)
RemoteSet(o) ==
  /\ call[o].at = "remote" /\ Live(o)
  /\ call' = [call EXCEPT ![o].at = "local", ![o].speaker = TRUE]
  /\ frames' = frames \cup {o}
  /\ UNCHANGED <<callSession, awaited, closing, ended, view>>

(* createAnswer and setLocalDescription.                                      *)
LocalSet(o) ==
  /\ call[o].at = "local" /\ Live(o)
  /\ call' = [call EXCEPT ![o].at = "gathering"]
  /\ UNCHANGED <<callSession, awaited, closing, ended, frames, view>>

(* wait_for_ice_complete does not raise, and its time is bounded.             *)
Answers(o) ==
  /\ call[o].at = "gathering"
  /\ call' = [call EXCEPT ![o].at = "answered"]
  /\ view' = TRUE
  /\ UNCHANGED <<callSession, awaited, closing, ended, frames>>

(* The description or a closed connection raises: whatever session there is   *)
(* is closed.                                                                 *)
OfferFails(o) ==
  /\ call[o].at \in {"remote", "local"}
  /\ CloseSession(TRUE, NoCall)
  /\ call' = [call EXCEPT ![o].at = "over"]
  /\ UNCHANGED ended

------------------------------------------------------------------------------
(* The rest of the server and the peer.                                       *)

(* PipeWireAudioTrack.ensure_process, in two steps around its await.          *)
StartsRecorder(o) ==
  /\ call[o].at \in {"gathering", "answered"} /\ Live(o) /\ call[o].microphone = "idle"
  /\ call' = [call EXCEPT ![o].microphone = "starting"]
  /\ UNCHANGED <<callSession, awaited, closing, ended, frames, view>>

RecorderStarted(o) ==
  /\ call[o].microphone \in {"starting", "late"}
  /\ call' = [call EXCEPT ![o].microphone = "recording"]
  /\ UNCHANGED <<callSession, awaited, closing, ended, frames, view>>

ConnectionFails(o) ==
  /\ call[o].at = "answered" /\ Live(o)
  /\ call' = [call EXCEPT ![o].pc = "failed"]
  /\ ended' = ended \cup {o}
  /\ UNCHANGED <<callSession, awaited, closing, frames, view>>

ConnectionEnded(o) ==
  /\ o \in ended /\ ended' = ended \ {o}
  /\ CloseSession(TRUE, NoCall)
  /\ UNCHANGED call

Hangup == CloseSession(TRUE, NoCall) /\ UNCHANGED <<call, ended>>

Activate ==
  /\ awaited' = TRUE /\ view' = TRUE
  /\ UNCHANGED <<callSession, closing, call, ended, frames>>

CallNext ==
  \/ StopsMedia \/ StopsDevices \/ ClosesConnection \/ CloseEnds \/ Hangup \/ Activate
  \/ \E o \in Caller :
       \/ Offers(o) \/ RemoteSet(o) \/ LocalSet(o) \/ Answers(o) \/ OfferFails(o)
       \/ StartsRecorder(o) \/ RecorderStarted(o) \/ ConnectionFails(o) \/ ConnectionEnded(o)

CallSpec == CallInit /\ [][CallNext]_callVars

------------------------------------------------------------------------------
Closings == [at : {"no", "media", "devices", "connection", "view"}, of : Caller \cup {NoCall},
             view : BOOLEAN, then : Caller \cup {NoCall}]
Calls == [at : {"free", "replacing", "remote", "local", "gathering", "answered", "over"},
          pc : {"none", "open", "failed", "closed"}, camera : {"none", "on", "off"}, speaker : BOOLEAN,
          microphone : {"idle", "starting", "recording", "late", "closed"}]

CallTypeOK ==
  /\ callSession \in Caller \cup {NoCall} /\ frames \subseteq Caller
  /\ awaited \in BOOLEAN /\ view \in BOOLEAN /\ ended \subseteq Caller
  /\ closing \in Closings /\ call \in [Caller -> Calls]

(* The call the server shows as its session, and would close next, still has  *)
(* its camera, its microphone and its connection: no close_session that began *)
(* earlier, for another call or for this one, is taking them away.  It has no *)
(* camera only if the Camera Hub gave it none, and then its offer was refused *)
(* (accept_offer, while another close runs).                                  *)
CurrentCallIsWhole ==
  callSession # NoCall =>
    /\ \/ call[callSession].camera = "on"
       \/ call[callSession].camera = "none" /\ call[callSession].at = "over"
    /\ call[callSession].pc # "closed"
    /\ call[callSession].microphone \notin {"closed", "late"}
    /\ closing.of # callSession
==============================================================================
