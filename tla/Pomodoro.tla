------------------------------ MODULE Pomodoro ------------------------------
(***************************************************************************)
(* The pomodoro timer of the round screen (apps/expression-ui/pomodoro.py): *)
(* a countdown against the wall clock that survives restarts of the        *)
(* renderer through a file, and the statistics of time spent on focus.     *)
(*                                                                         *)
(* One unit of time stands for any number of seconds; days, which only     *)
(* divide the statistics, are left out.                                    *)
(***************************************************************************)
EXTENDS Integers

CONSTANTS FocusTime, ShortBreak, LongBreak,  \* configured durations
          LongBreakEvery,                    \* focus sessions to a long break
          CustomTime,                        \* one-off durations a user dials
          MaxNow                             \* bound on the clock

ASSUME PomodoroAssumption ==
  /\ {FocusTime, ShortBreak, LongBreak, LongBreakEvery} \subseteq Nat \ {0}
  /\ CustomTime \subseteq Nat \ {0}
  /\ MaxNow \in Nat

VARIABLES now,      \* the wall clock
          timer,    \* the manager in the renderer's memory
          file,     \* what save() wrote last
          running,  \* the renderer runs
          worked    \* history: time for which a focus phase has been running

pomodoroVars == <<now, timer, file, running, worked>>

Phase == {"focus", "short_break", "long_break"}
NotSet == -1

Timer == [phase : Phase, status : {"ready", "running", "paused"},
          remaining : Nat, deadline : Nat \cup {NotSet}, dialled : CustomTime \cup {NotSet},
          sessions : Nat, accounted : Nat \cup {NotSet}, focusTime : Nat, finished : Nat]

PomodoroTypeOK ==
  /\ now \in 0..MaxNow
  /\ timer \in Timer /\ file \in Timer
  /\ timer.status = "running" => timer.deadline # NotSet
  /\ running \in BOOLEAN
  /\ worked \in Nat

Lesser(a, b) == IF a <= b THEN a ELSE b
Positive(a) == IF a > 0 THEN a ELSE 0

Configured(phase) == CASE phase = "focus" -> FocusTime
                       [] phase = "short_break" -> ShortBreak
                       [] phase = "long_break" -> LongBreak

Duration(t) == IF t.dialled # NotSet THEN t.dialled ELSE Configured(t.phase)

Remaining(t) == IF t.status = "running" THEN Positive(t.deadline - now) ELSE t.remaining

Fresh == [phase |-> "focus", status |-> "ready", remaining |-> FocusTime,
          deadline |-> NotSet, dialled |-> NotSet, sessions |-> 0,
          accounted |-> NotSet, focusTime |-> 0, finished |-> 0]

\* A mutant of Accounted: time is booked up to now, past the deadline.
AccountedToNow(t) ==
  IF t.status # "running" THEN t
  ELSE [t EXCEPT !.accounted = now,
                 !.focusTime = @ + IF t.phase = "focus" THEN now - t.accounted ELSE 0]

\* _account_elapsed: books the time since the last booking, up to the deadline.
Accounted(t) ==
  IF t.status # "running" THEN t
  ELSE LET end == Lesser(now, t.deadline)
       IN [t EXCEPT !.accounted = end,
                    !.focusTime = @ + IF t.phase = "focus" THEN Positive(end - t.accounted) ELSE 0]

\* A phase at rest with its whole duration before it.
AtRest(t) == [t EXCEPT !.status = "ready", !.deadline = NotSet, !.accounted = NotSet,
                       !.remaining = Duration(t)]

\* _advance: the next phase, and after every LongBreakEvery completed focus
\* sessions a long break.
Advanced(t, completed) ==
  LET counted == IF completed /\ t.phase = "focus"
                   THEN [t EXCEPT !.sessions = @ + 1, !.finished = @ + 1] ELSE t
      long == completed /\ counted.sessions % LongBreakEvery = 0
  IN AtRest([counted EXCEPT
       !.dialled = NotSet,
       !.phase = IF t.phase # "focus" THEN "focus"
                 ELSE IF long THEN "long_break" ELSE "short_break"])

\* update: completes a phase whose deadline has passed.
Updated(t) == IF t.status = "running" /\ now >= t.deadline
                THEN Advanced(Accounted(t), TRUE)
                ELSE Accounted(t)

\* start: a phase with nothing left starts again from its full duration.
Started(t) == LET u == Updated(t)
                  left == IF Remaining(u) > 0 THEN Remaining(u) ELSE Duration(u)
              IN [u EXCEPT !.status = "running", !.remaining = left,
                           !.deadline = now + left, !.accounted = now]

Dialled(t, time) == AtRest([t EXCEPT !.dialled = time])

PomodoroInit ==
  /\ now = 0
  /\ timer = Fresh /\ file = Fresh
  /\ running = TRUE
  /\ worked = 0

\* Every operation ends with save().
Save(t) == /\ running
           /\ timer' = t /\ file' = t
           /\ UNCHANGED <<now, running, worked>>

StartPhase == Save(Started(timer))

\* pause does not look at the deadline: a phase paused after it, before the
\* next frame, is paused with nothing left.
PausePhase == Save([Accounted(timer) EXCEPT
                      !.remaining = Remaining(timer), !.status = "paused",
                      !.deadline = NotSet, !.accounted = NotSet])

Toggle == IF timer.status = "running" THEN PausePhase ELSE StartPhase

ResetPhase == Save(AtRest(Accounted(timer)))

ResetCycle == Save(AtRest([Accounted(timer) EXCEPT !.phase = "focus", !.dialled = NotSet,
                                                   !.sessions = 0]))

DialFocus(time) == Save(Dialled([Accounted(timer) EXCEPT !.phase = "focus"], time))
StartFocus(time) == Save(Started(Dialled([Accounted(timer) EXCEPT !.phase = "focus"], time)))
DialPhase(time) == Save(Dialled(Accounted(timer), time))

Skip == Save(Advanced(Accounted(timer), FALSE))

\* update_pomodoro_timer, in every frame: books time in memory, and saves
\* when a phase has ended.
Frame ==
  /\ running /\ timer.status = "running"
  /\ timer' = Updated(timer)
  /\ file' = IF now >= timer.deadline THEN timer' ELSE file
  /\ UNCHANGED <<now, running, worked>>

RendererStops ==
  /\ running
  /\ running' = FALSE
  /\ UNCHANGED <<now, timer, file, worked>>

\* load: the countdown has gone on while the renderer was away.
RendererStarts ==
  /\ ~running
  /\ running' = TRUE
  /\ timer' = Updated(file)
  /\ file' = IF file.status = "running" /\ now >= file.deadline THEN timer' ELSE file
  /\ UNCHANGED <<now, worked>>

TimePasses ==
  LET t == IF running THEN timer ELSE file
  IN /\ now < MaxNow
     /\ now' = now + 1
     /\ worked' = worked + IF t.status = "running" /\ t.phase = "focus" /\ now < t.deadline
                             THEN 1 ELSE 0
     /\ UNCHANGED <<timer, file, running>>

PomodoroNext ==
  \/ StartPhase \/ PausePhase \/ Toggle \/ ResetPhase \/ ResetCycle \/ Skip
  \/ \E time \in CustomTime : DialFocus(time) \/ StartFocus(time) \/ DialPhase(time)
  \/ Frame \/ RendererStops \/ RendererStarts \/ TimePasses

PomodoroSpec == PomodoroInit /\ [][PomodoroNext]_pomodoroVars

-----------------------------------------------------------------------------
(* Properties *)

\* The statistics book exactly the time for which a focus phase has been
\* running, whatever was paused, dialled, skipped or reset in between and
\* although bookings made in memory are lost with the renderer and the
\* countdown goes on without it (pomodoro.py:388 and :95).
FocusTimeIsWorked == running => Accounted(timer).focusTime = worked

=============================================================================
