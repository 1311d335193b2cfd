----------------------------- MODULE Microphone -----------------------------
(* The workshop's microphone: workshop_runtime.py runs one thread per launched *)
(* application (Sitting), server threads launch and stop them, and            *)
(* workshop_host.py keeps the leases and their pw-cat processes, each with a  *)
(* timer.  A lease is named by the sitting that opened it.                    *)
EXTENDS FiniteSets

CONSTANTS
  Sitting,    \* launched sessions whose source is microphone.stream
  Server,     \* threads that serve launch and stop requests
  Program,    \* [Sitting -> the application it runs]
  NoSitting

ASSUME MicrophoneAssumption ==
  /\ Sitting \cap Server = {}
  /\ NoSitting \notin Sitting

Alarm(s) == <<"timer", s>>
Hand == Sitting \cup Server \cup {Alarm(s) : s \in Sitting}

VARIABLES
  at,         \* [Sitting \cup Server -> where the thread is]
  halted,     \* sittings whose stop_event is set
  foreground, \* the runtime's active_app_id and stop_event
  wanted,     \* [Server -> the sitting to launch, or NoSitting for a stop]
  found,      \* [Server -> the sitting that runtime.stop found]
  leases,     \* microphone_leases
  capturing,  \* pw-cat processes that run
  alarm,      \* [Sitting -> its timer]
  sweep,      \* [Hand -> leases it has listed to close]
  grip        \* [Hand -> leases it has removed, their capture not closed yet]

micVars ==
  <<at, halted, foreground, wanted, found, leases, capturing, alarm, sweep, grip>>
seats == <<halted, foreground, wanted, found>>
sound == <<leases, capturing, alarm, sweep, grip>>

SittingAt == {"off", "open", "start", "register", "timer", "loop", "read", "late",
              "inner", "closing", "outer", "sweeping", "done"}
ServerAt  == {"idle", "stop", "join", "sweeping", "clear"}

MicrophoneTypeOK ==
  /\ at \in [Sitting \cup Server -> SittingAt \cup ServerAt]
  /\ halted \subseteq Sitting
  /\ foreground \in Sitting \cup {NoSitting}
  /\ wanted \in [Server -> Sitting \cup {NoSitting}]
  /\ found \in [Server -> Sitting \cup {NoSitting}]
  /\ leases \subseteq Sitting /\ capturing \subseteq Sitting
  /\ alarm \in [Sitting -> {"unset", "set", "over"}]
  /\ sweep \in [Hand -> SUBSET Sitting]
  /\ grip \in [Hand -> SUBSET Sitting]

MicrophoneInit ==
  /\ at = [t \in Sitting \cup Server |-> IF t \in Sitting THEN "off" ELSE "idle"]
  /\ halted = {} /\ foreground = NoSitting
  /\ wanted = [c \in Server |-> NoSitting] /\ found = [c \in Server |-> NoSitting]
  /\ leases = {} /\ capturing = {}
  /\ alarm = [s \in Sitting |-> "unset"]
  /\ sweep = [h \in Hand |-> {}] /\ grip = [h \in Hand |-> {}]

Moves(t, from, to) == at[t] = from /\ at' = [at EXCEPT ![t] = to]

------------------------------------------------------------------------------
(* _close_microphone_lease: the lease leaves the table and its timer is       *)
(* cancelled; the capture is closed outside the lock, once no read holds it.  *)

Takes(h, s) ==
  /\ leases' = leases \ {s}
  /\ alarm' = [alarm EXCEPT ![s] = "over"]
  /\ grip' = [grip EXCEPT ![h] = @ \cup {s}]
  /\ UNCHANGED capturing

TakesIfThere(h, s) ==
  IF s \in leases THEN Takes(h, s) ELSE UNCHANGED <<leases, alarm, grip, capturing>>

Closes(h) ==
  \E s \in grip[h] :
    /\ at[s] # "read"
    /\ capturing' = capturing \ {s}
    /\ grip' = [grip EXCEPT ![h] = @ \ {s}]
    /\ UNCHANGED <<at, seats, leases, alarm, sweep>>

(* stop_microphone: the application's leases are listed, then closed in turn. *)
Lists(h, p) ==
  /\ sweep' = [sweep EXCEPT ![h] = {s \in leases : Program[s] = p}]
  /\ UNCHANGED <<leases, capturing, alarm, grip>>

Sweeps(h) ==
  /\ grip[h] = {}
  /\ \E s \in sweep[h] :
       /\ TakesIfThere(h, s)
       /\ sweep' = [sweep EXCEPT ![h] = @ \ {s}]
  /\ UNCHANGED <<at, seats>>

Swept(h) == sweep[h] = {} /\ grip[h] = {}

(* The timer's own thread.  Mutant: the expiry only drops the record.         *)
ExpiresDropping(s) ==
  /\ alarm[s] = "set"
  /\ alarm' = [alarm EXCEPT ![s] = "over"]
  /\ leases' = leases \ {s}
  /\ UNCHANGED <<at, seats, capturing, sweep, grip>>

Expires(s) ==
  /\ alarm[s] = "set"
  /\ Takes(Alarm(s), s)
  /\ UNCHANGED <<at, seats, sweep>>

------------------------------------------------------------------------------
(* The sitting's thread: open, read, and the two finally blocks.              *)

(* The table is looked at, pw-cat started and the lease registered apart.     *)
Opens(s) ==
  /\ \/ Moves(s, "open", "start") /\ leases = {}
     \/ Moves(s, "open", "outer")      \* taken, or the call is denied
  /\ UNCHANGED <<seats, sound>>

StartsCapture(s) ==
  /\ \/ Moves(s, "start", "register") /\ capturing' = capturing \cup {s}
     \/ Moves(s, "start", "outer") /\ UNCHANGED capturing
  /\ UNCHANGED <<seats, leases, alarm, sweep, grip>>

Registers(s) ==
  /\ Moves(s, "register", "timer")
  /\ leases' = leases \cup {s}
  /\ UNCHANGED <<seats, capturing, alarm, sweep, grip>>

(* A timer that was cancelled before it starts never fires.                   *)
SetsTimer(s) ==
  /\ Moves(s, "timer", "loop")
  /\ alarm' = [alarm EXCEPT ![s] = IF @ = "over" THEN "over" ELSE "set"]
  /\ UNCHANGED <<seats, leases, capturing, sweep, grip>>

(* A read looks its lease up, and finds it gone, over, or good.               *)
LooksUp(s) ==
  /\ at[s] = "loop" /\ s \notin halted
  /\ IF s \notin leases THEN Moves(s, "loop", "inner") /\ UNCHANGED sound
     ELSE \/ Moves(s, "loop", "read") /\ UNCHANGED sound
          \/ Moves(s, "loop", "late") /\ Takes(s, s) /\ UNCHANGED sweep
  /\ UNCHANGED seats

(* read_level has a deadline, and raises when pw-cat is gone; the nodes of    *)
(* the pipeline run after it.                                                 *)
Reads(s) ==
  /\ \/ Moves(s, "read", "loop") /\ s \in leases
     \/ Moves(s, "read", "inner")
  /\ UNCHANGED <<seats, sound>>

LeavesLoop(s) ==
  /\ Moves(s, "loop", "inner") \/ (grip[s] = {} /\ Moves(s, "late", "inner"))
  /\ UNCHANGED <<seats, sound>>

(* microphone.stream.close, or all of the application's if that is denied.    *)
InnerFinally(s) ==
  /\ Moves(s, "inner", "closing")
  /\ \/ TakesIfThere(s, s) /\ UNCHANGED sweep
     \/ Lists(s, Program[s])
  /\ UNCHANGED seats

OuterFinally(s) ==
  /\ \/ Swept(s) /\ Moves(s, "closing", "sweeping")
     \/ Moves(s, "outer", "sweeping")
  /\ Lists(s, Program[s])
  /\ UNCHANGED seats

SittingEnds(s) ==
  /\ Swept(s) /\ Moves(s, "sweeping", "done")
  /\ UNCHANGED <<seats, sound>>

------------------------------------------------------------------------------
(* runtime.launch and runtime.stop, in a server thread.                       *)

Asked(c) ==
  /\ Moves(c, "idle", "stop")
  /\ \/ \E s \in Sitting :
          /\ at[s] = "off" /\ \A d \in Server : wanted[d] # s
          /\ wanted' = [wanted EXCEPT ![c] = s]
     \/ foreground # NoSitting /\ UNCHANGED wanted
  /\ UNCHANGED <<halted, foreground, found, sound>>

StopsForeground(c) ==
  /\ found' = [found EXCEPT ![c] = foreground]
  /\ IF foreground = NoSitting
     THEN Moves(c, "stop", "clear") /\ UNCHANGED halted
     ELSE Moves(c, "stop", "join") /\ halted' = halted \cup {foreground}
  /\ UNCHANGED <<foreground, wanted, sound>>

(* thread.join(timeout=6.0), over with or without the thread.                 *)
Joins(c) ==
  /\ Moves(c, "join", "sweeping")
  /\ Lists(c, Program[found[c]])
  /\ UNCHANGED seats

Silenced(c) ==
  /\ Swept(c) /\ Moves(c, "sweeping", "clear")
  /\ UNCHANGED <<seats, sound>>

Replaces(c) ==
  /\ at[c] = "clear"
  /\ at' = [t \in Sitting \cup Server |-> CASE t = c -> "idle"
                                            [] t = wanted[c] -> "open"
                                            [] OTHER -> at[t]]
  /\ foreground' = wanted[c]
  /\ wanted' = [wanted EXCEPT ![c] = NoSitting]
  /\ found' = [found EXCEPT ![c] = NoSitting]
  /\ UNCHANGED <<halted, sound>>

------------------------------------------------------------------------------
Opening(s) == Opens(s) \/ StartsCapture(s) \/ Registers(s) \/ SetsTimer(s) \/ Reads(s)

MicrophoneNext ==
  \/ \E s \in Sitting :
       \/ Opening(s) \/ LooksUp(s) \/ LeavesLoop(s)
       \/ InnerFinally(s) \/ OuterFinally(s) \/ SittingEnds(s) \/ Expires(s)
  \/ \E h \in Hand : Closes(h) \/ Sweeps(h)
  \/ \E c \in Server :
       Asked(c) \/ StopsForeground(c) \/ Joins(c) \/ Silenced(c) \/ Replaces(c)

(* Timers fire, opening and reading have deadlines, and what was taken is     *)
(* closed.  An application that hangs in its loop gets no fairness.           *)
MicrophoneSpec ==
  /\ MicrophoneInit /\ [][MicrophoneNext]_micVars
  /\ \A s \in Sitting : /\ WF_micVars(Opening(s) \/ Closes(s))
                         /\ WF_micVars(Expires(s) \/ Closes(Alarm(s)))
  /\ \A c \in Server : WF_micVars(Closes(c))

------------------------------------------------------------------------------
(* Every recording ends, however its application was stopped, replaced,       *)
(* refused or left hanging: each capture is in the hands of its opener, of a  *)
(* timer that will fire, or of a thread about to close it (README.md:30 of    *)
(* the workshop: exit, expiry, error and stop all close the process).         *)
RecordingsEnd == \A s \in Sitting : s \in capturing ~> s \notin capturing
=============================================================================
