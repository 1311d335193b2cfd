---------------------------- MODULE ArxivAccess ----------------------------
(* The gate of Paper Radar to arXiv: collection, reading and enrichment are   *)
(* processes of their own that share one file lock and one state file.  The   *)
(* holder of the lock reads the state, sleeps out the interval, saves the     *)
(* start of its request, sends it and records the answer; it may die at any   *)
(* step, which frees the lock and leaves the file as last saved.              *)
(* A request leaves in the unit of time in which its start was saved.         *)
EXTENDS Integers

CONSTANTS
  Reader,               \* processes that read from arXiv
  MinInterval,          \* min_interval_seconds
  DefaultCooldown, MaxCooldown,
  RetryAfter,           \* values of the Retry-After header
  MaxTime,              \* bound
  NoReader

ASSUME ArxivAssumption ==
  /\ MinInterval \in Nat \ {0}
  /\ DefaultCooldown \in Nat \ {0} /\ MaxCooldown \in Nat
  /\ MaxCooldown >= DefaultCooldown
  /\ RetryAfter \subseteq Nat
  /\ MaxTime \in Nat
  /\ NoReader \notin Reader

VARIABLES
  clock,
  holder, stage,        \* access.lock, and how far its holder has got
  last, cooldown, next, \* state.json; next: the cooldown of the next bare 429
  sent, told            \* history: last request sent, end of the last cooldown received

arxivVars == <<clock, holder, stage, last, cooldown, next, sent, told>>
state     == <<last, cooldown, next>>

ArxivTypeOK ==
  /\ clock \in 0..MaxTime
  /\ holder \in Reader \cup {NoReader}
  /\ stage \in {"none", "check", "sleep", "send", "answer"}
  /\ stage = "none" <=> holder = NoReader
  /\ last \in Int /\ cooldown \in Nat
  /\ next \in DefaultCooldown..MaxCooldown
  /\ sent \in Int /\ told \in Nat

ArxivInit ==
  /\ clock = 0 /\ holder = NoReader /\ stage = "none"
  /\ last = -MinInterval /\ cooldown = 0 /\ next = DefaultCooldown
  /\ sent = -MinInterval /\ told = 0

Smaller(a, b) == IF a < b THEN a ELSE b
Longer(a, b)  == IF a > b THEN a ELSE b

Frees == holder' = NoReader /\ stage' = "none"

(* status(): an expired cooldown is removed from the file.                   *)
ReadStatus ==
  /\ holder = NoReader
  /\ cooldown # 0 /\ cooldown <= clock
  /\ cooldown' = 0
  /\ UNCHANGED <<clock, holder, stage, last, next, sent, told>>

Locks(r) ==
  /\ holder = NoReader
  /\ holder' = r /\ stage' = "check"
  /\ UNCHANGED <<clock, state, sent, told>>

Refuses ==
  /\ stage = "check" /\ cooldown > clock
  /\ Frees
  /\ UNCHANGED <<clock, state, sent, told>>

Admits ==
  /\ stage = "check" /\ cooldown <= clock
  /\ stage' = "sleep"
  /\ UNCHANGED <<clock, holder, state, sent, told>>

SavesStartLater ==
  /\ stage = "sleep" /\ clock >= last + MinInterval
  /\ stage' = "send"
  /\ UNCHANGED <<clock, holder, state, sent, told>>

(* After the sleep, and before the request: the start is on disk.            *)
SavesStart ==
  /\ stage = "sleep" /\ clock >= last + MinInterval
  /\ last' = clock /\ cooldown' = 0
  /\ stage' = "send"
  /\ UNCHANGED <<clock, holder, next, sent, told>>

Sends ==
  /\ stage = "send"
  /\ sent' = clock
  /\ stage' = "answer"
  /\ UNCHANGED <<clock, holder, state, told>>

Succeeds ==
  /\ stage = "answer"
  /\ next' = DefaultCooldown /\ cooldown' = 0
  /\ Frees
  /\ UNCHANGED <<clock, last, sent, told>>

(* No answer, an HTTP error, a foreign redirect, a body that is too large.   *)
FailsOtherwise ==
  /\ stage = "answer"
  /\ Frees
  /\ UNCHANGED <<clock, state, sent, told>>

(* HTTP 429, with and without Retry-After.                                   *)
RateLimited ==
  /\ stage = "answer"
  /\ \/ \E seconds \in RetryAfter : cooldown' = clock + Longer(1, seconds)
     \/ cooldown' = clock + next
  /\ told' = Longer(told, cooldown')
  /\ next' = Smaller(MaxCooldown, 2 * next)
  /\ Frees
  /\ UNCHANGED <<clock, last, sent>>

Dies ==
  /\ holder # NoReader
  /\ Frees
  /\ UNCHANGED <<clock, state, sent, told>>

ClockTicks ==
  /\ clock < MaxTime /\ stage # "send"
  /\ clock' = clock + 1
  /\ UNCHANGED <<holder, stage, state, sent, told>>

ArxivNext ==
  \/ ReadStatus \/ Refuses \/ Admits \/ SavesStart \/ Sends
  \/ Succeeds \/ FailsOtherwise \/ RateLimited \/ Dies \/ ClockTicks
  \/ \E r \in Reader : Locks(r)

ArxivSpec == ArxivInit /\ [][ArxivNext]_arxivVars

------------------------------------------------------------------------------
(* Whatever processes ask and die, a request follows the one before by the   *)
(* interval at least, and none is sent within a cooldown that arXiv asked    *)
(* for and a process heard of (ArxivAccess.fetch_bytes).                     *)
RequestsAreSpaced ==
  [][sent' # sent => sent' >= sent + MinInterval /\ sent' >= told]_arxivVars

(* The cooldown that is kept is the one arXiv asked for last, until it ends. *)
CooldownIsKept == told > clock => cooldown = told
=============================================================================
