-------------------------------- MODULE Music --------------------------------
(* The music of the round screen: music_player.py owns one VLC process, and    *)
(* the display's main loop polls it, takes the results of two background       *)
(* threads (the library scan and the lyrics search) and obeys touch and voice. *)
EXTENDS Naturals, Sequences

CONSTANTS
  Track,
  Library,    \* what a scan may find: sequences of tracks without repetition
  NoTrack

ASSUME MusicAssumption == NoTrack \notin Track /\ Library \subseteq Seq(Track)

Modes == {"list_loop", "single_repeat", "shuffle"}

VARIABLES
  player,     \* the MusicPlayer, and what its VLC process does
  scan,       \* music_scan_future: "none", "running", "failed" or a library
  autoplay,   \* music_autoplay_pending
  lyrics,     \* the track the shown lyrics are of, and whether there are any
  fetch,      \* the lyrics search under way: its track and how far it is
  sidecars,   \* tracks that have a .lrc file beside them
  attempted   \* music_lyrics_search_attempted

musicVars == <<player, scan, autoplay, lyrics, fetch, sidecars, attempted>>
search == <<lyrics, fetch, sidecars, attempted>>

NoFetch == [of |-> NoTrack, stage |-> "none"]
Found(l) == [stage |-> "done", tracks |-> l]
Scan(stage) == [stage |-> stage, tracks |-> <<>>]

MusicTypeOK ==
  /\ player \in [tracks : Library \cup {<<>>}, index : Nat \ {0}, mode : Modes,
                 status : {"empty", "stopped", "playing", "paused", "error"},
                 process : Track \cup {NoTrack},
                 vlc : {"none", "sounding", "paused", "frozen", "ended"},
                 transport : {"none", "vlc-rc", "signal"}]
  /\ scan \in [stage : {"none", "running", "failed", "done"}, tracks : Library \cup {<<>>}]
  /\ autoplay \in BOOLEAN
  /\ lyrics \in [of : Track \cup {NoTrack}, shown : BOOLEAN]
  /\ fetch \in [of : Track, stage : {"running", "found", "other"}] \cup {NoFetch}
  /\ sidecars \subseteq Track /\ attempted \subseteq Track

MusicInit ==
  /\ player = [tracks |-> <<>>, index |-> 1, mode |-> "list_loop", status |-> "empty",
               process |-> NoTrack, vlc |-> "none", transport |-> "none"]
  /\ scan = Scan("none") /\ autoplay = FALSE
  /\ lyrics = [of |-> NoTrack, shown |-> FALSE]
  /\ fetch = NoFetch /\ sidecars = {} /\ attempted = {}

------------------------------------------------------------------------------
(* The operations of MusicPlayer, as what becomes of its record p.            *)

Current(p) == IF p.tracks = <<>> THEN NoTrack ELSE p.tracks[p.index]

(* set_library: the current track is found again by its path.                 *)
SetLibrary(p, l) ==
  LET here == {i \in DOMAIN l : l[i] = Current(p)}
      near == IF p.index <= Len(l) THEN p.index ELSE Len(l)
  IN [p EXCEPT !.tracks = l,
               !.index = CASE l = <<>> -> 1
                           [] here # {} -> CHOOSE i \in here : TRUE
                           [] OTHER -> near,
               !.status = IF p.process # NoTrack THEN @
                          ELSE IF l = <<>> THEN "empty" ELSE "stopped"]

Released(p) == [p EXCEPT !.process = NoTrack, !.vlc = "none", !.transport = "none"]

(* play: the old process is stopped first; the new one may fail to start.     *)
Played(p, i) ==
  IF p.tracks = <<>> THEN {[p EXCEPT !.status = "empty"]}
  ELSE LET q == [Released(p) EXCEPT !.index = i]
       IN {[q EXCEPT !.status = "playing", !.process = Current(q), !.vlc = "sounding"],
           [q EXCEPT !.status = "error"]}

(* VLC's own pause command is a toggle; a process that has ended takes none,  *)
(* and the pipe may be closed.                                                *)
Toggled(v) == CASE v = "sounding" -> "paused" [] v = "paused" -> "sounding" [] OTHER -> v
Piped(p) == {"fails"} \cup (IF p.vlc = "ended" THEN {} ELSE {"sent"})

Paused(p) ==
  {[p EXCEPT !.status = "paused",
             !.transport = IF sent = "sent" THEN "vlc-rc" ELSE "signal",
             !.vlc = IF sent = "sent" THEN Toggled(@)
                     ELSE IF @ = "sounding" THEN "frozen" ELSE @] : sent \in Piped(p)}

Continued(p) ==
  [p EXCEPT !.status = "playing", !.transport = "none",
            !.vlc = IF @ = "frozen" THEN "sounding" ELSE @]

(* resume.  Mutant: it never asks how the process was paused.                 *)
ResumedBySignal(p) == {Continued(p)}

Resumed(p) ==
  IF p.transport = "signal" THEN {Continued(p)}
  ELSE {IF sent = "sent" THEN [Continued(p) EXCEPT !.vlc = Toggled(p.vlc)] ELSE p :
          sent \in Piped(p)}

TogglePlayback(p) ==
  CASE p.status = "playing" -> Paused(p)
    [] p.status = "paused" -> Resumed(p)
    [] OTHER -> Played(p, p.index)

Following(p) == (p.index % Len(p.tracks)) + 1
Preceding(p) == IF p.index = 1 THEN Len(p.tracks) ELSE p.index - 1
Others(p) == IF Len(p.tracks) <= 1 THEN {p.index} ELSE DOMAIN p.tracks \ {p.index}

Going(p, plain) == UNION {Played(p, i) : i \in IF p.mode = "shuffle" THEN Others(p) ELSE {plain}}

Next(p, automatic) ==
  IF p.tracks = <<>> THEN {p}
  ELSE IF automatic /\ p.mode = "single_repeat" THEN Played(p, p.index)
  ELSE Going(p, Following(p))

(* After three seconds `previous' begins the track again.                     *)
Previous(p) ==
  IF p.tracks = <<>> THEN {p}
  ELSE Going(p, Preceding(p)) \cup
       (IF p.status \in {"playing", "paused"} THEN Played(p, p.index) ELSE {})

------------------------------------------------------------------------------
(* refresh_music_lyrics and request_automatic_lyrics_search.                  *)

Loaded(p) == [of |-> Current(p), shown |-> Current(p) \in sidecars]

Searches(p, shown, idle) ==
  /\ p.status = "playing" /\ ~shown /\ idle
  /\ Current(p) \notin attempted \cup sidecars \cup {NoTrack}

Shows(p, l, idle, over) ==
  /\ lyrics' = IF /\ p.status = "playing" /\ ~l.shown /\ idle
                  /\ Current(p) \in sidecars \ attempted
                THEN Loaded(p) ELSE l
  /\ IF Searches(p, l.shown, idle)
     THEN /\ fetch' = [of |-> Current(p), stage |-> "running"]
          /\ attempted' = attempted \cup {Current(p)}
     ELSE fetch' = (IF over THEN NoFetch ELSE fetch) /\ UNCHANGED attempted
  /\ UNCHANGED sidecars

(* start_lyrics_search_for_playback, and the same after a forced refresh.     *)
Follows(p) ==
  Shows(p, IF Current(p) = lyrics.of THEN lyrics ELSE Loaded(p), fetch = NoFetch, FALSE)

FollowsForced(p) == Shows(p, Loaded(p), fetch = NoFetch, FALSE)

(* fetch_lrclib_lyrics, in its thread: a match is written beside the track.   *)
FetchEnds ==
  /\ fetch.stage = "running"
  /\ \/ /\ sidecars' = sidecars \cup {fetch.of}
        /\ fetch' = [fetch EXCEPT !.stage = "found"]
     \/ /\ fetch' = [fetch EXCEPT !.stage = "other"]    \* none, refused or failed
        /\ UNCHANGED sidecars
  /\ UNCHANGED <<player, scan, autoplay, lyrics, attempted>>

UpdateLyrics ==
  LET over  == fetch.stage \in {"found", "other"}
      match == fetch.stage = "found" /\ fetch.of = Current(player)
  IN /\ Shows(player, IF Current(player) = lyrics.of /\ ~match THEN lyrics ELSE Loaded(player),
              over \/ fetch = NoFetch, over)
     /\ UNCHANGED <<player, scan, autoplay>>

------------------------------------------------------------------------------
(* The scan, and update_music.                                                *)

ScanEnds ==
  /\ scan.stage = "running"
  /\ scan' \in {Found(l) : l \in Library} \cup {Scan("failed")}
  /\ UNCHANGED <<player, autoplay, search>>

(* request_music_scan does nothing while one is under way.                    *)
RequestScan == scan' = IF scan.stage = "none" THEN Scan("running") ELSE scan

TakesScan ==
  /\ scan.stage \in {"done", "failed"}
  /\ IF scan.stage = "failed" THEN UNCHANGED player
     ELSE LET p == SetLibrary(player, scan.tracks)
          IN player' \in IF autoplay THEN Played(p, p.index) ELSE {p}
  /\ scan' = Scan("none") /\ autoplay' = FALSE
  /\ FollowsForced(player')

(* A track that has ended, or a VLC that died, is followed by the next.       *)
Polls ==
  /\ player.vlc = "ended" /\ player.status # "paused"
  /\ LET p == [player EXCEPT !.process = NoTrack, !.vlc = "none", !.status = "stopped"]
     IN player' \in IF Len(p.tracks) > 1 THEN Next(p, TRUE) ELSE {p}
  /\ FollowsForced(player')
  /\ UNCHANGED <<scan, autoplay>>

(* VLC plays to the end; it may die at any time.                              *)
VlcEnds ==
  /\ player.vlc \in {"sounding", "paused", "frozen"}
  /\ player' = [player EXCEPT !.vlc = "ended"]
  /\ UNCHANGED <<scan, autoplay, search>>

------------------------------------------------------------------------------
(* Touch and voice.                                                           *)

(* open_music, and the refresh button.                                        *)
Rescans ==
  /\ scan.stage = "none" /\ RequestScan
  /\ UNCHANGED <<player, autoplay, search>>

Controls ==
  /\ player' \in TogglePlayback(player) \cup Previous(player) \cup Next(player, FALSE)
  /\ Follows(player')
  /\ UNCHANGED <<scan, autoplay>>

ChangesMode ==
  /\ \E m \in Modes : player' = [player EXCEPT !.mode = m]
  /\ UNCHANGED <<scan, autoplay, search>>

VoicePlaysFirst ==
  /\ player.tracks = <<>>
  /\ autoplay' = TRUE /\ RequestScan
  /\ UNCHANGED <<player, search>>

VoicePlays ==
  /\ player.tracks # <<>> /\ player.status # "playing"
  /\ player' \in TogglePlayback(player)
  /\ Follows(player')
  /\ UNCHANGED <<scan, autoplay>>

VoicePauses ==
  /\ IF player.status # "playing"
     THEN autoplay' = FALSE /\ UNCHANGED <<player, search>>
     ELSE player' \in Paused(player) /\ Follows(player') /\ UNCHANGED autoplay
  /\ UNCHANGED scan

------------------------------------------------------------------------------
MusicNext ==
  \/ ScanEnds \/ TakesScan \/ Polls \/ VlcEnds \/ FetchEnds \/ UpdateLyrics
  \/ Rescans \/ Controls \/ ChangesMode
  \/ VoicePlaysFirst \/ VoicePlays \/ VoicePauses

(* The scan's thread ends, and the main loop looks at it in every frame.      *)
MusicSpec ==
  MusicInit /\ [][MusicNext]_musicVars /\ WF_musicVars(ScanEnds) /\ WF_musicVars(TakesScan)

------------------------------------------------------------------------------
(* What is heard is what the screen says, however the process was paused (its *)
(* own toggle over the pipe, or a signal when the pipe is gone) and whatever  *)
(* became of it meanwhile: with `playing' a VLC that lives sounds, with       *)
(* `paused' it is silent, and neither is said without a process.  (A library  *)
(* that is found empty while music plays makes the next `play' say `empty',   *)
(* and VLC sounds on.)                                                        *)
SoundFollowsStatus ==
  player.status \in {"playing", "paused"} =>
    /\ player.process # NoTrack
    /\ player.vlc # "ended" => ((player.vlc = "sounding") <=> (player.status = "playing"))

==============================================================================
