------------------------------ MODULE Listening ------------------------------
(* From the open microphone to the text of one turn: PersistentMicrophone,     *)
(* WakeAcknowledgementPlayer, record_until_silence and FinalASREnsemble.       *)
(*                                                                             *)
(* Blocks of sound are numbered as they arrive and carry what they hold:       *)
(* "loud" and "quiet" from the room, "own" while the assistant itself can be   *)
(* heard.  Time is measured in blocks, and a block arrives as it is heard.     *)
EXTENDS Integers, Sequences

CONSTANTS
  RingSize,       \* maxsize of the queue, 400 in the code
  PreRoll,        \* PRE_ROLL_SECONDS in blocks, 9
  NoSpeechAfter,  \* the other times: 10 s, 1.1 s, 0.5 s and 45 s
  SilenceAfter,
  ShortestSpeech,
  LongestTurn,
  MaxBlocks

ASSUME ListeningAssumption ==
  RingSize \in Nat \ {0} /\ PreRoll \in Nat \ {0} /\ MaxBlocks \in Nat

VARIABLES
  heard,        \* history: every block so far
  ring,         \* blocks of the microphone
  dropped,      \* dropped_blocks grew while this turn records
  step,         \* where the turn is
  followUp,
  opened,       \* when the recording started
  pre, frames,  \* pre_roll and frames_out
  consecutive,  \* consecutive_voice
  speechAt, voiceAt,
  transcript

listeningVars == <<heard, ring, dropped, step, followUp, opened, pre, frames,
                   consecutive, speechAt, voiceAt, transcript>>
recordVars == <<opened, pre, frames, consecutive, speechAt, voiceAt, transcript>>

Now == Len(heard)
Forgets ==
  /\ opened' = 0 /\ pre' = <<>> /\ frames' = <<>> /\ consecutive' = 0
  /\ speechAt' = 0 /\ voiceAt' = 0
LastOf(s, n) == SubSeq(s, IF Len(s) > n THEN Len(s) - n + 1 ELSE 1, Len(s))

ListeningInit ==
  /\ heard = <<>> /\ ring = <<>> /\ dropped = FALSE
  /\ step = "asleep" /\ followUp = FALSE
  /\ opened = 0 /\ pre = <<>> /\ frames = <<>> /\ consecutive = 0
  /\ speechAt = 0 /\ voiceAt = 0 /\ transcript = "none"

------------------------------------------------------------------------------
(* _callback: a full queue loses its oldest block.                            *)

Sounding == step \in {"acknowledging", "beeping", "decaying"}

BlockArrives ==
  /\ Now < MaxBlocks
  /\ \E b \in IF Sounding THEN {"own"} ELSE {"loud", "quiet"} : heard' = Append(heard, b)
  /\ ring' = LastOf(Append(ring, Now + 1), RingSize)
  /\ dropped' = (dropped \/ (Len(ring) = RingSize /\ step = "recording"))
  /\ UNCHANGED <<step, followUp>> /\ UNCHANGED recordVars

------------------------------------------------------------------------------
(* The wake is acknowledged, by the open stream, by ffplay or not at all;     *)
(* what the microphone heard of it is discarded.                              *)

Woken ==
  /\ step = "asleep" /\ step' = "acknowledging" /\ followUp' = FALSE
  /\ UNCHANGED <<heard, ring, dropped>> /\ UNCHANGED recordVars

Acknowledges ==
  /\ step = "acknowledging" /\ step' = "beeping"
  /\ ring' = <<>>
  /\ UNCHANGED <<heard, dropped, followUp>> /\ UNCHANGED recordVars

(* The answer to the turn before has been spoken and asks for another one.    *)
FollowsUp ==
  /\ step = "asleep" /\ step' = "decaying" /\ followUp' = TRUE
  /\ UNCHANGED <<heard, ring, dropped>> /\ UNCHANGED recordVars

(* discard_buffer after the cue.  Mutant: only the acknowledgement is         *)
(* discarded.                                                                 *)
DiscardsNothing ==
  /\ step = "beeping" /\ step' = "opening"
  /\ UNCHANGED <<heard, ring, dropped, followUp>> /\ UNCHANGED recordVars

DiscardsCue ==
  /\ step = "beeping" /\ step' = "opening"
  /\ ring' = <<>>
  /\ UNCHANGED <<heard, dropped, followUp>> /\ UNCHANGED recordVars

(* prepare_recording.                                                         *)
Prepares ==
  /\ step \in {"opening", "decaying"} /\ step' = "recording"
  /\ pre' = IF followUp THEN <<>> ELSE LastOf(ring, PreRoll)
  /\ ring' = <<>> /\ dropped' = FALSE
  /\ opened' = Now
  /\ transcript' = "none"
  /\ UNCHANGED <<heard, followUp, frames, consecutive, speechAt, voiceAt>>

------------------------------------------------------------------------------
(* The loop of record_until_silence; each turn of it looks at the clock and   *)
(* takes a block.                                                             *)

Speaking == frames # <<>>
Level == heard[Head(ring)]
Voiced == Level # "quiet"

TakesBlock(next) ==
  /\ step = "recording" /\ ring # <<>> /\ Now - opened < LongestTurn
  /\ ring' = Tail(ring) /\ step' = next
  /\ UNCHANGED <<heard, dropped, followUp, opened, transcript>>

(* Two loud blocks in a row are speech; the pre-roll holds them.              *)
Waits ==
  LET roll == LastOf(Append(pre, Head(ring)), PreRoll)
      row  == IF Voiced THEN consecutive + 1 ELSE 0
  IN /\ ~Speaking /\ ring # <<>>
     /\ consecutive' = row
     /\ IF row >= 2
        THEN /\ TakesBlock("recording")
             /\ frames' = roll /\ pre' = <<>> /\ speechAt' = Now /\ voiceAt' = Now
        ELSE /\ TakesBlock(IF Now - opened >= NoSpeechAfter THEN "silent" ELSE "recording")
             /\ pre' = roll /\ UNCHANGED <<frames, speechAt, voiceAt>>

Listens ==
  /\ Speaking
  /\ TakesBlock(IF ~Voiced /\ Now - voiceAt >= SilenceAfter /\ Now - speechAt >= ShortestSpeech
           THEN "recorded" ELSE "recording")
  /\ frames' = Append(frames, Head(ring))
  /\ voiceAt' = IF Voiced THEN Now ELSE voiceAt
  /\ UNCHANGED <<pre, consecutive, speechAt>>

TakesTooLong ==
  /\ step = "recording" /\ Now - opened >= LongestTurn
  /\ step' = IF Speaking THEN "recorded" ELSE "silent"
  /\ UNCHANGED <<heard, ring, dropped, followUp>> /\ UNCHANGED recordVars

(* FinalASREnsemble.transcribe.  A recogniser reads nothing, Chinese text,    *)
(* text with a term in Latin letters, unknown signs, or a phrase over and     *)
(* over.                                                                      *)
Reading == {"", "words", "term", "unknown", "loop"}

Routed(sense, zip) ==
  IF sense = "term" \/ zip = "unknown" \/ zip = "" THEN sense ELSE zip

Decided(signal, sense, zip, agree) ==
  LET apart == sense # "" /\ zip # "" /\ ~agree /\ sense # "term"
  IN IF ~signal \/ apart \/ Routed(sense, zip) = "loop" THEN ""
     ELSE Routed(sense, zip)

Transcribes ==
  /\ step = "recorded" /\ step' = "asleep"
  /\ \E signal, agree \in BOOLEAN, sense, zip \in Reading :
       transcript' = Decided(signal, sense, zip, agree)
  /\ Forgets
  /\ UNCHANGED <<heard, ring, dropped, followUp>>

(* No speech, or a wake word that supersedes the turn.                        *)
Leaves ==
  /\ step \notin {"asleep", "recorded"} /\ step' = "asleep"
  /\ Forgets
  /\ UNCHANGED <<heard, ring, dropped, followUp, transcript>>

ListeningNext ==
  \/ BlockArrives \/ Woken \/ Acknowledges \/ FollowsUp \/ DiscardsCue \/ Prepares
  \/ Waits \/ Listens \/ TakesTooLong \/ Transcribes \/ Leaves

ListeningSpec == ListeningInit /\ [][ListeningNext]_listeningVars

------------------------------------------------------------------------------
ListeningTypeOK ==
  /\ heard \in Seq({"loud", "quiet", "own"}) /\ Now <= MaxBlocks
  /\ \A s \in {ring, pre, frames} : s \in Seq(1..Now)
  /\ Len(ring) <= RingSize /\ Len(pre) <= PreRoll
  /\ step \in {"asleep", "acknowledging", "beeping", "decaying", "opening",
               "recording", "silent", "recorded"}
  /\ dropped \in BOOLEAN /\ followUp \in BOOLEAN
  /\ {opened, speechAt, voiceAt} \subseteq 0..Now /\ consecutive \in 0..2
  /\ transcript \in Reading \cup {"none"}

Unheard(i) == \E k \in DOMAIN ring : ring[k] = i

(* The comments at lines 1912 and 1927: what is transcribed is what the user  *)
(* said, all of it and nothing of the assistant's own cue, acknowledgement or *)
(* answer.  The blocks of the utterance follow each other without a gap, the  *)
(* pre-roll included, unless the microphone had to drop some.                 *)
UtteranceIsTheUsers ==
  step \in {"recording", "recorded"} =>
    /\ \A k \in DOMAIN frames : heard[frames[k]] # "own"
    /\ ~dropped => \A k \in 2..Len(frames) : frames[k] = frames[k - 1] + 1
    /\ ~dropped /\ step = "recording" /\ Speaking =>
         \A i \in frames[1]..Now : Unheard(i) \/ \E k \in DOMAIN frames : frames[k] = i
==============================================================================
