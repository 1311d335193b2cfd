---------------------------- MODULE Screen_proofs ----------------------------
(* Proofs about what the round screen shows and runs: the pomodoro timer, the
   music player, the display itself, the applications of the workshop and their
   packages, the events of the voice service and the setup of a device without
   a network, each of its own component. *)
EXTENDS Pomodoro, Music, ExpressionDisplay, WorkshopApp, WorkshopPackage, ExpressionEvents,
  Provisioning, FiniteSetTheorems, SequenceTheorems, TLAPS

------------------------------------------------------------------------------
(* The pomodoro timer.                                                      *)

(* The focus time that t has booked by n, or would if it were asked then.     *)
Booked(t, n) ==
  t.focusTime + IF t.status = "running" /\ t.phase = "focus"
                  THEN Lesser(n, t.deadline) - t.accounted ELSE 0

(* A running phase was last booked before n and not past its deadline.        *)
BookedSoFar(t, n) ==
  t.status = "running" =>
    t.deadline \in Nat /\ t.accounted \in Nat /\ t.accounted <= Lesser(n, t.deadline)

(* The file may be behind in its bookings, never in what runs.                *)
FileRunsToo ==
  running => file.status = timer.status /\ file.phase = timer.phase /\ file.deadline = timer.deadline

PomodoroInv ==
  /\ PomodoroTypeOK
  /\ BookedSoFar(timer, now) /\ BookedSoFar(file, now)
  /\ FileRunsToo
  /\ Booked(file, now) = worked
  /\ running => Booked(timer, now) = worked

(* What one operation may make of the record t: it keeps the focus time.      *)
KeepsTheBooks(t, u) ==
  u \in Timer /\ BookedSoFar(u, now) /\ Booked(u, now) = Booked(t, now)

-----------------------------------------------------------------------------
(* The operations of the manager.                                             *)

LEMMA ConfiguredTimes ==
  ASSUME NEW t \in Timer
  PROVE  Duration(t) \in Nat \ {0} /\ \A p \in Phase : Configured(p) \in Nat \ {0}
BY PomodoroAssumption DEF Timer, Phase, Duration, Configured, NotSet

LEMMA AccountedKeeps ==
  ASSUME NEW t \in Timer, now \in Nat, BookedSoFar(t, now)
  PROVE  /\ KeepsTheBooks(t, Accounted(t))
         /\ Accounted(t).focusTime = Booked(t, now)
         /\ Accounted(t).phase = t.phase /\ Accounted(t).status = t.status
         /\ Accounted(t).deadline = t.deadline /\ Accounted(t).remaining = t.remaining
<1>1. CASE t.status # "running"
  BY <1>1 DEF KeepsTheBooks, Accounted, Booked, BookedSoFar, Timer
<1>2. CASE t.status = "running"
  <2> DEFINE end == Lesser(now, t.deadline)
             more == IF t.phase = "focus" THEN Positive(end - t.accounted) ELSE 0
             u == [t EXCEPT !.accounted = end, !.focusTime = t.focusTime + more]
  <2>1. Accounted(t) = u
    BY <1>2 DEF Accounted, Timer
  <2>2. /\ end \in Nat /\ end <= t.deadline /\ end <= now
        /\ t.deadline \in Nat /\ t.accounted \in Nat /\ t.accounted <= end
        /\ t.focusTime \in Nat
    BY <1>2 DEF BookedSoFar, Lesser, Timer
  <2>3. more \in Nat /\ more = IF t.phase = "focus" THEN end - t.accounted ELSE 0
    BY <2>2 DEF Positive
  <2> HIDE DEF more
  <2>4. Booked(t, now) = t.focusTime + more
    BY <1>2, <2>2, <2>3 DEF Booked
  <2> HIDE DEF end
  <2>5. /\ u \in Timer
        /\ u.focusTime = t.focusTime + more /\ u.accounted = end
        /\ u.phase = t.phase /\ u.status = t.status
        /\ u.deadline = t.deadline /\ u.remaining = t.remaining
    <3>1. t.focusTime + more \in Nat /\ end \in Nat
      BY <2>2, <2>3
    <3> HIDE DEF end
    <3> QED BY <3>1 DEF Timer
  <2> HIDE DEF u
  <2>6. BookedSoFar(u, now)
    BY <2>2, <2>5 DEF BookedSoFar, end
  <2>7. Booked(u, now) = u.focusTime
    BY <2>2, <2>3, <2>5 DEF Booked, end
  <2> QED BY <2>1, <2>4, <2>5, <2>6, <2>7 DEF KeepsTheBooks
<1> QED BY <1>1, <1>2

LEMMA AtRestIsReady ==
  ASSUME NEW t \in Timer
  PROVE  /\ AtRest(t) \in Timer /\ AtRest(t).status = "ready"
         /\ AtRest(t).focusTime = t.focusTime
BY ConfiguredTimes DEF AtRest, Timer

LEMMA AdvancedIsReady ==
  ASSUME NEW t \in Timer, NEW completed \in BOOLEAN
  PROVE  /\ Advanced(t, completed) \in Timer /\ Advanced(t, completed).status = "ready"
         /\ Advanced(t, completed).focusTime = t.focusTime
<1> DEFINE counted == IF completed /\ t.phase = "focus"
                        THEN [t EXCEPT !.sessions = @ + 1, !.finished = @ + 1] ELSE t
           long == completed /\ counted.sessions % LongBreakEvery = 0
           next == [counted EXCEPT
             !.dialled = NotSet,
             !.phase = IF t.phase # "focus" THEN "focus"
                       ELSE IF long THEN "long_break" ELSE "short_break"]
<1>1. counted \in Timer /\ counted.focusTime = t.focusTime
  <2>1. t.sessions + 1 \in Nat /\ t.finished + 1 \in Nat
    BY DEF Timer
  <2> QED BY <2>1 DEF Timer
<1> HIDE DEF counted, long
<1>2. next \in Timer /\ next.focusTime = t.focusTime
  BY <1>1 DEF Timer, Phase
<1>3. Advanced(t, completed) = AtRest(next)
  BY DEF Advanced, counted, long
<1> HIDE DEF next
<1> QED BY <1>2, <1>3, AtRestIsReady

(* A phase at rest has nothing left to book.                                  *)
LEMMA AtRestIsBooked ==
  ASSUME NEW t \in Timer, NEW u \in Timer, now \in Nat,
         u.status # "running", u.focusTime = Booked(t, now)
  PROVE  KeepsTheBooks(t, u)
BY DEF KeepsTheBooks, Booked, BookedSoFar, Timer

LEMMA UpdatedKeeps ==
  ASSUME NEW t \in Timer, now \in Nat, BookedSoFar(t, now)
  PROVE  /\ KeepsTheBooks(t, Updated(t))
         /\ Updated(t).focusTime = Booked(t, now)
         /\ ~(t.status = "running" /\ now >= t.deadline) =>
              /\ Updated(t).phase = t.phase /\ Updated(t).status = t.status
              /\ Updated(t).deadline = t.deadline
<1>1. /\ Accounted(t) \in Timer /\ KeepsTheBooks(t, Accounted(t))
      /\ Accounted(t).focusTime = Booked(t, now)
  BY AccountedKeeps DEF KeepsTheBooks
<1>2. KeepsTheBooks(t, Advanced(Accounted(t), TRUE))
  BY <1>1, AdvancedIsReady, AtRestIsBooked
<1>3. CASE t.status = "running" /\ now >= t.deadline
  BY <1>1, <1>2, <1>3, AdvancedIsReady DEF Updated
<1>4. CASE ~(t.status = "running" /\ now >= t.deadline)
  <2>1. Updated(t) = Accounted(t)
    BY <1>4 DEF Updated
  <2> QED BY <2>1, <1>1, <1>4, AccountedKeeps
<1> QED BY <1>3, <1>4

LEMMA StartedKeeps ==
  ASSUME NEW t \in Timer, now \in Nat, BookedSoFar(t, now)
  PROVE  KeepsTheBooks(t, Started(t))
<1> DEFINE u == Updated(t)
           left == IF Remaining(u) > 0 THEN Remaining(u) ELSE Duration(u)
<1>1. u \in Timer /\ BookedSoFar(u, now) /\ u.focusTime = Booked(t, now)
  BY UpdatedKeeps DEF KeepsTheBooks
<1>2. Started(t) = [u EXCEPT !.status = "running", !.remaining = left,
                             !.deadline = now + left, !.accounted = now]
  BY DEF Started
<1> HIDE DEF u
<1>3. left \in Nat
  BY <1>1, ConfiguredTimes DEF Remaining, Positive, BookedSoFar, Timer
<1> HIDE DEF left
<1>4. now + left \in Nat /\ now <= now + left
  BY <1>3
<1> DEFINE end == now + left
<1>8. end \in Nat /\ end = now + left
  BY <1>4
<1> HIDE DEF end
<1>9. Started(t) = [u EXCEPT !.status = "running", !.remaining = left,
                             !.deadline = end, !.accounted = now]
  BY <1>2, <1>8
<1>10. Started(t) \in Timer
  BY <1>1, <1>3, <1>8, <1>9 DEF Timer
<1>11. /\ Started(t).focusTime = u.focusTime
       /\ Started(t).deadline = end /\ Started(t).accounted = now
  BY <1>1, <1>9 DEF Timer
<1>5. /\ Started(t) \in Timer /\ Started(t).focusTime = u.focusTime
      /\ Started(t).deadline = now + left /\ Started(t).accounted = now
  BY <1>8, <1>10, <1>11
<1>6. BookedSoFar(Started(t), now)
  BY <1>4, <1>5 DEF BookedSoFar, Lesser
<1>7. Booked(Started(t), now) = Booked(t, now)
  <2>1. u.focusTime \in Nat
    BY <1>1 DEF Timer
  <2> QED BY <2>1, <1>1, <1>4, <1>5 DEF Booked, Lesser
<1> QED BY <1>5, <1>6, <1>7 DEF KeepsTheBooks

LEMMA DialledKeeps ==
  ASSUME NEW t \in Timer, NEW p \in Phase, NEW time \in CustomTime, now \in Nat,
         BookedSoFar(t, now)
  PROVE  /\ KeepsTheBooks(t, Dialled([Accounted(t) EXCEPT !.phase = p], time))
         /\ KeepsTheBooks(t, Dialled(Accounted(t), time))
<1>1. Accounted(t) \in Timer /\ Accounted(t).focusTime = Booked(t, now)
  BY AccountedKeeps DEF KeepsTheBooks
<1>2. ASSUME NEW a \in Timer, a.focusTime = Booked(t, now)
      PROVE  KeepsTheBooks(t, Dialled(a, time))
  <2>1. /\ [a EXCEPT !.dialled = time] \in Timer
        /\ [a EXCEPT !.dialled = time].focusTime = a.focusTime
    BY DEF Timer
  <2> QED BY <1>2, <2>1, AtRestIsReady, AtRestIsBooked DEF Dialled
<1>3. /\ [Accounted(t) EXCEPT !.phase = p] \in Timer
      /\ [Accounted(t) EXCEPT !.phase = p].focusTime = Booked(t, now)
  BY <1>1 DEF Timer
<1> QED BY <1>1, <1>2, <1>3

(* Every operation ends with save, and what it saves keeps the books.         *)
LEMMA SaveKeepsInv ==
  ASSUME PomodoroInv, NEW t, Save(t), KeepsTheBooks(timer, t)
  PROVE  PomodoroInv'
<1>1. /\ running /\ timer' = t /\ file' = t
      /\ now' = now /\ running' = running /\ worked' = worked
  BY DEF Save
<1>2. /\ t \in Timer /\ BookedSoFar(t, now) /\ Booked(t, now) = worked
  BY <1>1 DEF KeepsTheBooks, PomodoroInv
<1>3. PomodoroTypeOK'
  <2>1. t.status = "running" => t.deadline # NotSet
    BY <1>2 DEF BookedSoFar, NotSet
  <2> QED BY <2>1, <1>1, <1>2 DEF PomodoroInv, PomodoroTypeOK
<1> QED BY <1>1, <1>2, <1>3 DEF PomodoroInv, FileRunsToo

LEMMA InitPomodoroInv == PomodoroInit => PomodoroInv
<1> SUFFICES ASSUME PomodoroInit PROVE PomodoroInv
  OBVIOUS
<1>1. Fresh \in Timer
  BY PomodoroAssumption DEF Fresh, Timer, Phase
<1>2. running \in BOOLEAN
  BY DEF PomodoroInit
<1>3. PomodoroTypeOK
  BY <1>1, <1>2, PomodoroAssumption DEF PomodoroInit, PomodoroTypeOK, Fresh
<1> QED BY <1>3 DEF PomodoroInit, PomodoroInv, BookedSoFar, FileRunsToo, Booked, Fresh

(* start, pause, reset, skip and the dial, from touch and from voice.         *)
LEMMA OperationsKeepInv ==
  ASSUME PomodoroInv,
         \/ StartPhase \/ PausePhase \/ ResetPhase \/ ResetCycle \/ Skip
         \/ \E time \in CustomTime : DialFocus(time) \/ StartFocus(time) \/ DialPhase(time)
  PROVE  PomodoroInv'
<1>1. timer \in Timer /\ now \in Nat /\ BookedSoFar(timer, now)
  BY DEF PomodoroInv, PomodoroTypeOK
<1>2. Accounted(timer) \in Timer /\ Accounted(timer).focusTime = Booked(timer, now)
  BY <1>1, AccountedKeeps DEF KeepsTheBooks
<1>3. CASE StartPhase
  BY <1>1, <1>3, StartedKeeps, SaveKeepsInv DEF StartPhase
<1>4. CASE PausePhase
  <2> DEFINE t == [Accounted(timer) EXCEPT !.remaining = Remaining(timer), !.status = "paused",
                                           !.deadline = NotSet, !.accounted = NotSet]
  <2>1. Remaining(timer) \in Nat
    BY <1>1 DEF Remaining, Positive, BookedSoFar, Timer
  <2>2. /\ t \in Timer /\ t.status = "paused" /\ t.focusTime = Accounted(timer).focusTime
    BY <1>2, <2>1 DEF Timer
  <2>3. Save(t)
    BY <1>4 DEF PausePhase
  <2> HIDE DEF t
  <2>4. KeepsTheBooks(timer, t)
    BY <1>1, <1>2, <2>2, AtRestIsBooked
  <2> QED BY <2>3, <2>4, SaveKeepsInv
<1>5. CASE ResetPhase
  <2>1. KeepsTheBooks(timer, AtRest(Accounted(timer)))
    BY <1>1, <1>2, AtRestIsReady, AtRestIsBooked
  <2> QED BY <1>5, <2>1, SaveKeepsInv DEF ResetPhase
<1>6. CASE ResetCycle
  <2> DEFINE t == [Accounted(timer) EXCEPT !.phase = "focus", !.dialled = NotSet, !.sessions = 0]
  <2>1. t \in Timer /\ t.focusTime = Accounted(timer).focusTime
    BY <1>2 DEF Timer, Phase
  <2> HIDE DEF t
  <2>2. KeepsTheBooks(timer, AtRest(t))
    BY <1>1, <1>2, <2>1, AtRestIsReady, AtRestIsBooked
  <2>3. Save(AtRest(t))
    BY <1>6 DEF ResetCycle, t
  <2> QED BY <2>2, <2>3, SaveKeepsInv
<1>7. CASE Skip
  <2>1. KeepsTheBooks(timer, Advanced(Accounted(timer), FALSE))
    BY <1>1, <1>2, AdvancedIsReady, AtRestIsBooked
  <2> QED BY <1>7, <2>1, SaveKeepsInv DEF Skip
<1>8. ASSUME NEW time \in CustomTime, DialFocus(time) \/ StartFocus(time) \/ DialPhase(time)
      PROVE  PomodoroInv'
  <2> DEFINE d == Dialled([Accounted(timer) EXCEPT !.phase = "focus"], time)
  <2>1. "focus" \in Phase
    BY DEF Phase
  <2>2. KeepsTheBooks(timer, d) /\ KeepsTheBooks(timer, Dialled(Accounted(timer), time))
    BY <1>1, <2>1, DialledKeeps
  <2>3. KeepsTheBooks(timer, Started(d))
    <3> HIDE DEF d
    <3>1. d \in Timer /\ BookedSoFar(d, now) /\ Booked(d, now) = Booked(timer, now)
      BY <2>2 DEF KeepsTheBooks
    <3>2. KeepsTheBooks(d, Started(d))
      BY <1>1, <3>1, StartedKeeps
    <3> QED BY <3>1, <3>2 DEF KeepsTheBooks
  <2>4. CASE DialFocus(time)
    BY <2>2, <2>4, SaveKeepsInv DEF DialFocus
  <2>5. CASE StartFocus(time)
    BY <2>3, <2>5, SaveKeepsInv DEF StartFocus
  <2>6. CASE DialPhase(time)
    BY <2>2, <2>6, SaveKeepsInv DEF DialPhase
  <2> QED BY <1>8, <2>4, <2>5, <2>6
<1> QED BY <1>3, <1>4, <1>5, <1>6, <1>7, <1>8

(* The frames of the renderer, which book in memory only, and its restarts,   *)
(* which lose those bookings and make them again from the file.               *)
LEMMA RendererKeepsInv ==
  ASSUME PomodoroInv, Frame \/ RendererStops \/ RendererStarts
  PROVE  PomodoroInv'
<1>1. /\ timer \in Timer /\ file \in Timer /\ now \in Nat
      /\ BookedSoFar(timer, now) /\ BookedSoFar(file, now)
  BY DEF PomodoroInv, PomodoroTypeOK
<1>2. CASE Frame
  <2>1. /\ running /\ timer' = Updated(timer) /\ timer.status = "running"
        /\ file' = IF now >= timer.deadline THEN timer' ELSE file
        /\ now' = now /\ running' = running /\ worked' = worked
    BY <1>2 DEF Frame
  <2>2. KeepsTheBooks(timer, Updated(timer))
    BY <1>1, UpdatedKeeps
  <2>3. timer' \in Timer /\ BookedSoFar(timer', now) /\ Booked(timer', now) = worked
    BY <2>1, <2>2 DEF KeepsTheBooks, PomodoroInv
  <2>4. timer'.status = "running" => timer'.deadline # NotSet
    BY <2>3 DEF BookedSoFar, NotSet
  <2>5. PomodoroTypeOK'
    BY <2>1, <2>3, <2>4, <1>1 DEF PomodoroInv, PomodoroTypeOK
  <2>6. ~(now >= timer.deadline) =>
          /\ timer'.phase = timer.phase /\ timer'.status = timer.status
          /\ timer'.deadline = timer.deadline
    BY <1>1, <2>1, UpdatedKeeps
  <2>7. FileRunsToo'
    BY <2>1, <2>6 DEF PomodoroInv, FileRunsToo
  <2> QED BY <2>1, <2>3, <2>5, <2>7 DEF PomodoroInv
<1>3. CASE RendererStops
  <2>1. /\ running' = FALSE /\ UNCHANGED <<now, timer, file, worked>>
    BY <1>3 DEF RendererStops
  <2>2. running' \in BOOLEAN
    BY <2>1
  <2> QED BY <2>1, <2>2 DEF PomodoroInv, PomodoroTypeOK, FileRunsToo
<1>4. CASE RendererStarts
  <2> DEFINE over == file.status = "running" /\ now >= file.deadline
  <2>1. /\ running' = TRUE /\ timer' = Updated(file)
        /\ file' = IF over THEN timer' ELSE file
        /\ now' = now /\ worked' = worked
    BY <1>4 DEF RendererStarts
  <2>2. KeepsTheBooks(file, Updated(file))
    BY <1>1, UpdatedKeeps
  <2>3. timer' \in Timer /\ BookedSoFar(timer', now) /\ Booked(timer', now) = worked
    BY <2>1, <2>2 DEF KeepsTheBooks, PomodoroInv
  <2>4. timer'.status = "running" => timer'.deadline # NotSet
    BY <2>3 DEF BookedSoFar, NotSet
  <2>5. running' \in BOOLEAN
    BY <2>1
  <2>6. PomodoroTypeOK'
    BY <2>1, <2>3, <2>4, <2>5, <1>1 DEF PomodoroInv, PomodoroTypeOK
  <2>7. ~over => /\ timer'.phase = file.phase /\ timer'.status = file.status
                 /\ timer'.deadline = file.deadline
    BY <1>1, <2>1, UpdatedKeeps
  <2>8. FileRunsToo'
    BY <2>1, <2>7 DEF FileRunsToo
  <2> QED BY <2>1, <2>3, <2>6, <2>8, <1>1 DEF PomodoroInv
<1> QED BY <1>2, <1>3, <1>4

(* One unit of time is booked by the record that counts down, if it does.     *)
LEMMA TimeBooks ==
  ASSUME NEW t \in Timer, now \in Nat, BookedSoFar(t, now)
  PROVE  /\ BookedSoFar(t, now + 1)
         /\ Booked(t, now + 1) = Booked(t, now) +
              IF t.status = "running" /\ t.phase = "focus" /\ now < t.deadline THEN 1 ELSE 0
<1>1. t.focusTime \in Nat
  BY DEF Timer
<1>2. CASE t.status = "running"
  <2>1. t.deadline \in Nat /\ t.accounted \in Nat /\ t.accounted <= Lesser(now, t.deadline)
    BY <1>2 DEF BookedSoFar
  <2> QED BY <1>1, <1>2, <2>1 DEF BookedSoFar, Booked, Lesser
<1>3. CASE t.status # "running"
  BY <1>1, <1>3 DEF BookedSoFar, Booked
<1> QED BY <1>2, <1>3

LEMMA TimeKeepsInv ==
  ASSUME PomodoroInv, TimePasses
  PROVE  PomodoroInv'
<1> DEFINE books(t) ==
      IF t.status = "running" /\ t.phase = "focus" /\ now < t.deadline THEN 1 ELSE 0
<1>1. /\ timer \in Timer /\ file \in Timer /\ now \in Nat /\ worked \in Nat
      /\ BookedSoFar(timer, now) /\ BookedSoFar(file, now)
  BY DEF PomodoroInv, PomodoroTypeOK
<1>2. /\ now < MaxNow /\ now' = now + 1
      /\ worked' = worked + books(IF running THEN timer ELSE file)
      /\ timer' = timer /\ file' = file /\ running' = running
  BY DEF TimePasses
<1>3. /\ BookedSoFar(timer, now + 1) /\ Booked(timer, now + 1) = Booked(timer, now) + books(timer)
      /\ BookedSoFar(file, now + 1) /\ Booked(file, now + 1) = Booked(file, now) + books(file)
  BY <1>1, TimeBooks
<1>4. running => books(file) = books(timer)
  BY DEF PomodoroInv, FileRunsToo
<1>5. books(timer) \in Nat /\ books(file) \in Nat
  OBVIOUS
<1> HIDE DEF books
<1>6. worked' \in Nat /\ now' \in 0..MaxNow
  BY <1>1, <1>2, <1>5, PomodoroAssumption
<1>7. PomodoroTypeOK'
  BY <1>2, <1>6 DEF PomodoroInv, PomodoroTypeOK
<1>8. /\ Booked(file, now + 1) = worked'
      /\ running => Booked(timer, now + 1) = worked'
  BY <1>2, <1>3, <1>4 DEF PomodoroInv
<1> QED BY <1>2, <1>3, <1>7, <1>8 DEF PomodoroInv, FileRunsToo

LEMMA NextPomodoroInv == PomodoroInv /\ [PomodoroNext]_pomodoroVars => PomodoroInv'
<1> SUFFICES ASSUME PomodoroInv, [PomodoroNext]_pomodoroVars PROVE PomodoroInv'
  OBVIOUS
<1>1. CASE UNCHANGED pomodoroVars
  BY <1>1 DEF pomodoroVars, PomodoroInv, PomodoroTypeOK, FileRunsToo
<1>2. CASE PomodoroNext
  BY <1>2, OperationsKeepInv, RendererKeepsInv, TimeKeepsInv DEF PomodoroNext, Toggle
<1> QED BY <1>1, <1>2

(* The types of the timer, in memory and in its file.                         *)
THEOREM PomodoroInvariant == PomodoroSpec => []PomodoroInv
BY InitPomodoroInv, NextPomodoroInv, PTL DEF PomodoroSpec

(* pomodoro.py: what the statistics book is the time for which a focus phase  *)
(* was counting down, to the unit: no operation books a moment twice or       *)
(* forgets one, a phase left running past its deadline counts to the deadline,*)
(* and a restart books again what was lost in memory.                         *)
THEOREM FocusIsWorked == PomodoroSpec => []FocusTimeIsWorked
<1>1. PomodoroInv => FocusTimeIsWorked
  BY AccountedKeeps DEF PomodoroInv, PomodoroTypeOK, FocusTimeIsWorked
<1> QED BY <1>1, PomodoroInvariant, PTL

------------------------------------------------------------------------------
(* The music player.                                                        *)

Players ==
  [tracks : Library \cup {<<>>}, index : Nat \ {0}, mode : Modes,
   status : {"empty", "stopped", "playing", "paused", "error"},
   process : Track \cup {NoTrack},
   vlc : {"none", "sounding", "paused", "frozen", "ended"},
   transport : {"none", "vlc-rc", "signal"}]

(* The player remembers how it paused its process, and the process is paused  *)
(* that way or has ended.                                                     *)
KnowsItsProcess(p) ==
  /\ p.status \in {"playing", "paused"} => p.process # NoTrack
  /\ p.status = "playing" => p.vlc \in {"sounding", "ended"}
  /\ p.status = "paused" => \/ p.vlc = "ended"
                            \/ p.vlc = "paused" /\ p.transport = "vlc-rc"
                            \/ p.vlc = "frozen" /\ p.transport = "signal"

PlayerOK(p) ==
  /\ p \in Players
  /\ p.tracks # <<>> => p.index \in 1..Len(p.tracks)
  /\ KnowsItsProcess(p)

ScanOK == scan \in [stage : {"none", "running", "failed", "done"}, tracks : Library \cup {<<>>}]

PlayerInv == PlayerOK(player) /\ ScanOK

-----------------------------------------------------------------------------
(* The operations of the player, one by one.                                  *)

LEMMA Tracks ==
  ASSUME NEW p \in Players, p.tracks # <<>>
  PROVE  /\ p.tracks \in Seq(Track) /\ Len(p.tracks) \in Nat \ {0}
         /\ \A i \in 1..Len(p.tracks) : p.tracks[i] \in Track /\ p.tracks[i] # NoTrack
<1>1. p.tracks \in Seq(Track)
  BY MusicAssumption DEF Players
<1> QED BY <1>1, MusicAssumption

LEMMA PlayedOK ==
  ASSUME NEW p, PlayerOK(p), NEW i \in Nat, p.tracks # <<>> => i \in 1..Len(p.tracks),
         NEW q \in Played(p, i)
  PROVE  PlayerOK(q)
<1>1. CASE p.tracks = <<>>
  <2>1. q = [p EXCEPT !.status = "empty"]
    BY <1>1 DEF Played
  <2> QED BY <2>1, <1>1 DEF PlayerOK, Players, KnowsItsProcess
<1>2. CASE p.tracks # <<>>
  <2> DEFINE r == [Released(p) EXCEPT !.index = i]
  <2>1. /\ r \in Players /\ r.index = i /\ r.tracks = p.tracks
    <3>1. i \in Nat \ {0}
      BY <1>2, Tracks DEF PlayerOK
    <3>2. Released(p) \in Players /\ Released(p).tracks = p.tracks
      BY DEF PlayerOK, Players, Released
    <3> QED BY <3>1, <3>2 DEF Players
  <2> HIDE DEF r
  <2>3. Current(r) \in Track /\ Current(r) # NoTrack
    BY <1>2, <2>1, Tracks DEF Current
  <2>4. \/ q = [r EXCEPT !.status = "playing", !.process = Current(r), !.vlc = "sounding"]
        \/ q = [r EXCEPT !.status = "error"]
    BY <1>2 DEF Played, r
  <2>5. /\ q \in Players /\ q.index = i /\ q.tracks = p.tracks
        /\ \/ q.status = "playing" /\ q.process # NoTrack /\ q.vlc = "sounding"
           \/ q.status = "error"
    <3>1. CASE q = [r EXCEPT !.status = "playing", !.process = Current(r), !.vlc = "sounding"]
      BY <2>1, <2>3, <3>1 DEF Players
    <3>2. CASE q = [r EXCEPT !.status = "error"]
      BY <2>1, <3>2 DEF Players
    <3> QED BY <2>4, <3>1, <3>2
  <2> QED BY <1>2, <2>5 DEF PlayerOK, KnowsItsProcess
<1> QED BY <1>1, <1>2

LEMMA PausedOK ==
  ASSUME NEW p, PlayerOK(p), p.status = "playing", NEW q \in Paused(p)
  PROVE  PlayerOK(q)
<1>1. PICK sent \in Piped(p) :
        q = [p EXCEPT !.status = "paused",
                      !.transport = IF sent = "sent" THEN "vlc-rc" ELSE "signal",
                      !.vlc = IF sent = "sent" THEN Toggled(p.vlc)
                              ELSE IF p.vlc = "sounding" THEN "frozen" ELSE p.vlc]
  BY DEF Paused
<1>2. p \in Players /\ p.vlc \in {"sounding", "ended"} /\ p.process # NoTrack
  BY DEF PlayerOK, KnowsItsProcess
<1>3. \/ /\ sent = "sent" /\ p.vlc # "ended"
         /\ q = [p EXCEPT !.status = "paused", !.transport = "vlc-rc", !.vlc = "paused"]
      \/ /\ sent # "sent"
         /\ q = [p EXCEPT !.status = "paused", !.transport = "signal",
                          !.vlc = IF p.vlc = "sounding" THEN "frozen" ELSE "ended"]
  <2>1. CASE sent = "sent"
    <3>1. p.vlc = "sounding"
      BY <2>1, <1>2 DEF Piped
    <3>2. Toggled(p.vlc) = "paused"
      BY <3>1 DEF Toggled
    <3>3. q = [p EXCEPT !.status = "paused", !.transport = "vlc-rc", !.vlc = "paused"]
      BY <2>1, <3>2, <1>1
    <3> QED BY <2>1, <3>1, <3>3
  <2>2. CASE sent # "sent"
    BY <2>2, <1>1, <1>2
  <2> QED BY <2>1, <2>2
<1>4. /\ q \in Players /\ q.tracks = p.tracks /\ q.index = p.index
      /\ q.process = p.process /\ q.status = "paused"
      /\ \/ q.vlc = "paused" /\ q.transport = "vlc-rc"
         \/ q.vlc \in {"frozen", "ended"} /\ q.transport = "signal"
  BY <1>2, <1>3 DEF Players
<1> QED BY <1>2, <1>4 DEF PlayerOK, KnowsItsProcess

LEMMA ResumedOK ==
  ASSUME NEW p, PlayerOK(p), p.status = "paused", NEW q \in Resumed(p)
  PROVE  PlayerOK(q)
<1>1. p \in Players /\ p.process # NoTrack
      /\ \/ p.vlc = "ended"
         \/ p.vlc = "paused" /\ p.transport = "vlc-rc"
         \/ p.vlc = "frozen" /\ p.transport = "signal"
  BY DEF PlayerOK, KnowsItsProcess
<1>2. \/ q = p
      \/ q = [p EXCEPT !.status = "playing", !.transport = "none",
                       !.vlc = IF p.vlc = "ended" THEN "ended" ELSE "sounding"]
  <2>1. CASE p.transport = "signal"
    <3>1. p.vlc \in {"frozen", "ended"}
      BY <2>1, <1>1
    <3> QED BY <2>1, <3>1 DEF Resumed, Continued
  <2>2. CASE p.transport # "signal"
    <3>1. p.vlc \in {"paused", "ended"}
      BY <2>2, <1>1
    <3>2. PICK sent \in Piped(p) :
            q = IF sent = "sent" THEN [Continued(p) EXCEPT !.vlc = Toggled(p.vlc)] ELSE p
      BY <2>2 DEF Resumed
    <3>3. sent = "sent" => p.vlc = "paused"
      BY <3>1 DEF Piped
    <3> QED BY <3>2, <3>3, <1>1 DEF Continued, Toggled, Players
  <2> QED BY <2>1, <2>2
<1>3. CASE q = p
  BY <1>3
<1>4. CASE q = [p EXCEPT !.status = "playing", !.transport = "none",
                         !.vlc = IF p.vlc = "ended" THEN "ended" ELSE "sounding"]
  <2>1. /\ q \in Players /\ q.tracks = p.tracks /\ q.index = p.index
        /\ q.process = p.process /\ q.status = "playing" /\ q.vlc \in {"ended", "sounding"}
    BY <1>1, <1>4 DEF Players
  <2> QED BY <1>1, <2>1 DEF PlayerOK, KnowsItsProcess
<1> QED BY <1>2, <1>3, <1>4

LEMMA ToggledOK ==
  ASSUME NEW p, PlayerOK(p), NEW q \in TogglePlayback(p)
  PROVE  PlayerOK(q)
<1>1. CASE p.status = "playing"
  BY <1>1, PausedOK DEF TogglePlayback
<1>2. CASE p.status = "paused"
  BY <1>2, ResumedOK DEF TogglePlayback
<1>3. CASE p.status \notin {"playing", "paused"}
  <2>1. p.index \in Nat /\ (p.tracks # <<>> => p.index \in 1..Len(p.tracks))
    BY DEF PlayerOK, Players
  <2>2. q \in Played(p, p.index)
    BY <1>3 DEF TogglePlayback
  <2> QED BY <2>1, <2>2, PlayedOK
<1> QED BY <1>1, <1>2, <1>3

(* Whichever track is next, before or drawn by lot, it is one of the library. *)
LEMMA GoingOK ==
  ASSUME NEW p, PlayerOK(p), p.tracks # <<>>, NEW i \in 1..Len(p.tracks),
         NEW q \in Going(p, i)
  PROVE  PlayerOK(q)
<1>1. p.index \in 1..Len(p.tracks) /\ DOMAIN p.tracks = 1..Len(p.tracks)
      /\ Len(p.tracks) \in Nat
  BY Tracks DEF PlayerOK
<1>2. PICK j \in IF p.mode = "shuffle" THEN Others(p) ELSE {i} : q \in Played(p, j)
  BY DEF Going
<1>3. j \in 1..Len(p.tracks)
  BY <1>1, <1>2 DEF Others
<1> QED BY <1>1, <1>2, <1>3, PlayedOK

LEMMA NextOK ==
  ASSUME NEW p, PlayerOK(p), NEW automatic \in BOOLEAN, NEW q \in Next(p, automatic)
  PROVE  PlayerOK(q)
<1>1. CASE p.tracks = <<>>
  BY <1>1 DEF Next
<1>2. CASE p.tracks # <<>>
  <2>1. p.index \in 1..Len(p.tracks) /\ Len(p.tracks) \in Nat \ {0}
    BY <1>2, Tracks DEF PlayerOK
  <2>2. Following(p) \in 1..Len(p.tracks)
    BY <2>1 DEF Following
  <2>3. q \in Played(p, p.index) \/ q \in Going(p, Following(p))
    BY <1>2 DEF Next
  <2> QED BY <1>2, <2>1, <2>2, <2>3, PlayedOK, GoingOK
<1> QED BY <1>1, <1>2

LEMMA PreviousOK ==
  ASSUME NEW p, PlayerOK(p), NEW q \in Previous(p)
  PROVE  PlayerOK(q)
<1>1. CASE p.tracks = <<>>
  BY <1>1 DEF Previous
<1>2. CASE p.tracks # <<>>
  <2>1. p.index \in 1..Len(p.tracks) /\ Len(p.tracks) \in Nat \ {0}
    BY <1>2, Tracks DEF PlayerOK
  <2>2. Preceding(p) \in 1..Len(p.tracks)
    BY <2>1 DEF Preceding
  <2>3. q \in Played(p, p.index) \/ q \in Going(p, Preceding(p))
    BY <1>2 DEF Previous
  <2> QED BY <1>2, <2>1, <2>2, <2>3, PlayedOK, GoingOK
<1> QED BY <1>1, <1>2

(* A scan may replace the library under a track that plays.                   *)
LEMMA SetLibraryOK ==
  ASSUME NEW p, PlayerOK(p), NEW l \in Library \cup {<<>>}
  PROVE  PlayerOK(SetLibrary(p, l))
<1> DEFINE here == {i \in DOMAIN l : l[i] = Current(p)}
           near == IF p.index <= Len(l) THEN p.index ELSE Len(l)
           index == CASE l = <<>> -> 1 [] here # {} -> CHOOSE i \in here : TRUE [] OTHER -> near
           becomes == IF p.process # NoTrack THEN p.status
                      ELSE IF l = <<>> THEN "empty" ELSE "stopped"
<1>1. l \in Seq(Track) /\ DOMAIN l = 1..Len(l) /\ Len(l) \in Nat /\ p.index \in Nat \ {0}
  <2>1. l \in Seq(Track)
    <3>1. <<>> \in Seq(Track)
      OBVIOUS
    <3> QED BY <3>1, MusicAssumption
  <2> QED BY <2>1 DEF PlayerOK, Players
<1>2. l # <<>> => Len(l) # 0
  BY <1>1
<1>3. index \in Nat \ {0} /\ (l # <<>> => index \in 1..Len(l))
  <2>1. CASE l = <<>>
    BY <2>1, <1>1
  <2>2. CASE l # <<>> /\ here # {}
    BY <2>2, <1>1
  <2>3. CASE l # <<>> /\ here = {}
    BY <2>3, <1>1, <1>2
  <2> QED BY <2>1, <2>2, <2>3
<1>4. SetLibrary(p, l) = [p EXCEPT !.tracks = l, !.index = index, !.status = becomes]
  BY DEF SetLibrary
<1> HIDE DEF index
<1>5. /\ SetLibrary(p, l) \in Players
      /\ SetLibrary(p, l).tracks = l /\ SetLibrary(p, l).index = index
      /\ SetLibrary(p, l).status = becomes /\ SetLibrary(p, l).process = p.process
      /\ SetLibrary(p, l).vlc = p.vlc /\ SetLibrary(p, l).transport = p.transport
  <2>1. becomes \in {"empty", "stopped", "playing", "paused", "error"}
    BY DEF PlayerOK, Players
  <2> HIDE DEF becomes
  <2> QED BY <1>3, <1>4, <2>1 DEF PlayerOK, Players
<1>6. KnowsItsProcess(SetLibrary(p, l))
  BY <1>5 DEF PlayerOK, KnowsItsProcess
<1> QED BY <1>3, <1>5, <1>6 DEF PlayerOK

-----------------------------------------------------------------------------
LEMMA InitPlayerInv == MusicInit => PlayerInv
BY DEF MusicInit, PlayerInv, PlayerOK, Players, KnowsItsProcess, ScanOK, Scan, Modes

LEMMA NextPlayerInv == PlayerInv /\ [MusicNext]_musicVars => PlayerInv'
<1> SUFFICES ASSUME PlayerInv, [MusicNext]_musicVars PROVE PlayerInv'
  OBVIOUS
<1>1. PlayerOK(player) /\ ScanOK
  BY DEF PlayerInv
<1> USE DEF PlayerInv
<1>2. CASE UNCHANGED <<player, scan>>
  BY <1>1, <1>2 DEF PlayerOK, ScanOK
<1>3. CASE ScanEnds
  BY <1>1, <1>3 DEF ScanEnds, ScanOK, Found, Scan
<1>4. CASE TakesScan
  <2> DEFINE p == SetLibrary(player, scan.tracks)
  <2>1. PlayerOK(p)
    BY <1>1, SetLibraryOK DEF ScanOK
  <2>2. \/ player' = player
        \/ player' = p
        \/ player' \in Played(p, p.index)
    BY <1>4 DEF TakesScan
  <2> HIDE DEF p
  <2>3. p.index \in Nat /\ (p.tracks # <<>> => p.index \in 1..Len(p.tracks))
    BY <2>1 DEF PlayerOK, Players
  <2>4. PlayerOK(player')
    BY <1>1, <2>1, <2>2, <2>3, PlayedOK
  <2>5. ScanOK'
    BY <1>4 DEF TakesScan, ScanOK, Scan
  <2> QED BY <2>4, <2>5 DEF PlayerOK
<1>5. CASE Polls
  <2> DEFINE p == [player EXCEPT !.process = NoTrack, !.vlc = "none", !.status = "stopped"]
  <2>1. /\ p \in Players /\ p.status = "stopped"
        /\ p.tracks = player.tracks /\ p.index = player.index
    BY <1>1 DEF PlayerOK, Players
  <2>2. player' \in Next(p, TRUE) \/ player' = p
    BY <1>5 DEF Polls
  <2> HIDE DEF p
  <2>3. PlayerOK(p)
    BY <1>1, <2>1 DEF PlayerOK, KnowsItsProcess
  <2>4. PlayerOK(player')
    BY <2>2, <2>3, NextOK
  <2>5. UNCHANGED scan
    BY <1>5 DEF Polls
  <2> QED BY <1>1, <2>4, <2>5 DEF ScanOK
<1>6. CASE VlcEnds
  <2>1. /\ player' \in Players /\ player'.vlc = "ended"
        /\ player'.tracks = player.tracks /\ player'.index = player.index
        /\ player'.process = player.process /\ player'.status = player.status
    BY <1>1, <1>6 DEF VlcEnds, PlayerOK, Players
  <2>2. PlayerOK(player')
    BY <1>1, <2>1 DEF PlayerOK, KnowsItsProcess
  <2> QED BY <1>1, <1>6, <2>2 DEF VlcEnds, ScanOK
<1>7. CASE FetchEnds \/ UpdateLyrics
  BY <1>2, <1>7 DEF FetchEnds, UpdateLyrics
<1>8. CASE Rescans \/ VoicePlaysFirst
  <2>1. UNCHANGED player /\ scan' \in {scan, Scan("running")}
    BY <1>8 DEF Rescans, VoicePlaysFirst, RequestScan
  <2> QED BY <1>1, <2>1 DEF ScanOK, Scan
<1>9. CASE Controls \/ VoicePlays \/ VoicePauses
  <2>1. UNCHANGED scan
    BY <1>9 DEF Controls, VoicePlays, VoicePauses
  <2>2. \/ player' \in TogglePlayback(player) \cup Previous(player) \cup Next(player, FALSE)
        \/ player.status = "playing" /\ player' \in Paused(player)
        \/ UNCHANGED player
    BY <1>9 DEF Controls, VoicePlays, VoicePauses
  <2>3. PlayerOK(player')
    BY <1>1, <2>2, ToggledOK, PreviousOK, NextOK, PausedOK
  <2> QED BY <1>1, <2>1, <2>3 DEF ScanOK
<1>10. CASE ChangesMode
  <2>1. PICK m \in Modes : player' = [player EXCEPT !.mode = m]
    BY <1>10 DEF ChangesMode
  <2>2. PlayerOK(player')
    BY <1>1, <2>1 DEF PlayerOK, Players, KnowsItsProcess
  <2> QED BY <1>1, <1>10, <2>2 DEF ChangesMode, ScanOK
<1>11. CASE UNCHANGED musicVars
  BY <1>2, <1>11 DEF musicVars
<1> QED BY <1>3, <1>4, <1>5, <1>6, <1>7, <1>8, <1>9, <1>10, <1>11 DEF MusicNext

(* The player's record: the track it is at is one of its library, and it      *)
(* knows how its process was paused.                                          *)
THEOREM PlayerInvariant == MusicSpec => []PlayerInv
BY InitPlayerInv, NextPlayerInv, PTL DEF MusicSpec

(* music_player.py: what the player says it does is what its VLC process      *)
(* does, through pauses by the pipe and by signal, tracks that end or die,    *)
(* libraries replaced under a track that plays, and plays that fail.          *)
THEOREM SoundIsAsShown == MusicSpec => []SoundFollowsStatus
<1>1. PlayerInv => SoundFollowsStatus
  BY DEF PlayerInv, PlayerOK, KnowsItsProcess, SoundFollowsStatus
<1> QED BY <1>1, PlayerInvariant, PTL

------------------------------------------------------------------------------
(* The display.                                                             *)

(* At most one application page is up, and no panel over it.                  *)
OnePage(u) ==
  /\ \A p, q \in Up(u) \ {"settings"} : p = q
  /\ Up(u) # {} => u.panels = {}

OnePanel(u) ==
  /\ \A p, q \in u.panels : p = q
  /\ u.panels \cap Panel # {} => u.menu # "off"

PhotosAlone(u) == u.saver => Up(u) = {} /\ u.camera = "off" /\ u.touch = "up"

(* While the slider is shown and no reboot was asked for, it is where the     *)
(* finger that is down has brought it, and at its start without a finger.  An *)
(* alert forgets the finger, until its end.                                   *)
SliderInHand(u, g) ==
  /\ u.reboot => ~u.dragging
  /\ "restart" \in u.panels =>
       /\ ~u.reboot /\ u.touch # "up" => /\ u.latched => g = "end"
                                         /\ u.dragging /\ ~u.latched => g = "start"
       /\ ~u.reboot /\ u.touch = "up" /\ ~u.alert => ~u.dragging /\ ~u.latched
       /\ u.target["camera"] # Nothing => u.touch # "up" /\ ~u.dragging /\ ~u.latched

Right(u, g) ==
  /\ u \in Ui /\ g \in {Nothing, "start", "end"}
  /\ OnePage(u) /\ OnePanel(u) /\ PhotosAlone(u) /\ SliderInHand(u, g)

DisplayInv == hosted \in BOOLEAN /\ Right(ui, gesture)

(* From u to w nothing comes up: what most operators do.                      *)
Recedes(u, w) ==
  /\ Up(w) \subseteq Up(u) /\ w.panels \subseteq u.panels
  /\ w.menu = "off" => u.menu = "off" \/ w.panels = {}
  /\ w.saver => u.saver /\ w.camera = u.camera
  /\ w.touch = u.touch /\ w.alert = u.alert
  /\ w.reboot = u.reboot /\ (w.dragging => u.dragging)
  /\ w.latched = u.latched \/ "restart" \notin w.panels
  /\ w.target["camera"] \in {u.target["camera"], Nothing}

LEMMA RecedesTwice ==
  ASSUME NEW u \in Ui, NEW v \in Ui, NEW w \in Ui, Recedes(u, v), Recedes(v, w)
  PROVE  Recedes(u, w)
BY DEF Recedes

LEMMA RecedingIsRight ==
  ASSUME NEW u, NEW w \in Ui, NEW g, Right(u, g), Recedes(u, w)
  PROVE  Right(w, g)
<1>1. OnePage(w)
  BY DEF Right, Recedes, OnePage
<1>2. OnePanel(w)
  BY DEF Right, Recedes, OnePanel
<1>3. PhotosAlone(w)
  BY DEF Right, Recedes, PhotosAlone
<1>4. SliderInHand(w, g)
  BY DEF Right, Recedes, SliderInHand
<1>. QED BY <1>1, <1>2, <1>3, <1>4 DEF Right

-----------------------------------------------------------------------------
LEMMA Pages ==
  /\ AppPage \subseteq Page /\ "settings" \in Page /\ "camera" \notin Page
  /\ \A p \in AppPage : p \in {"call", "music", "workshop", "performance", "pomodoro"}
BY AppAssumption DEF Page

(* The page in front is one that is up, if any is.                            *)
LEMMA Fronts ==
  ASSUME NEW u \in Ui
  PROVE  /\ Front(u) = "desktop" <=> Up(u) = {}
         /\ Up(u) # {} => Front(u) \in Up(u)
<1> DEFINE First(i) == Priority[i] \in Up(u) /\ \A j \in 1..(i - 1) : Priority[j] \notin Up(u)
<1>1. Up(u) \subseteq Page /\ \A p \in Page : \E i \in 1..6 : Priority[i] = p
  <2>1. \A p \in Page : p \in {"call", "music", "workshop", "performance", "pomodoro", "settings"}
    BY AppAssumption DEF Page
  <2>2. /\ Priority[1] = "call" /\ Priority[2] = "music" /\ Priority[3] = "workshop"
        /\ Priority[4] = "performance" /\ Priority[5] = "pomodoro" /\ Priority[6] = "settings"
    BY DEF Priority
  <2>. QED BY <2>1, <2>2 DEF Up
<1>2. DOMAIN Priority = 1..6 /\ "desktop" \notin Page
  BY AppAssumption DEF Priority, Page
<1>3. ASSUME Up(u) # {} PROVE \E i \in 1..6 : First(i)
  <2>1. CASE First(1) BY <2>1
  <2>2. CASE First(2) BY <2>2
  <2>3. CASE First(3) BY <2>3
  <2>4. CASE First(4) BY <2>4
  <2>5. CASE First(5) BY <2>5
  <2>6. CASE First(6) BY <2>6
  <2>. QED BY <1>1, <1>3, <2>1, <2>2, <2>3, <2>4, <2>5, <2>6
<1>4. ASSUME Up(u) # {} PROVE Front(u) \in Up(u)
  <2> DEFINE i == CHOOSE i \in DOMAIN Priority : First(i)
  <2>1. First(i)
    BY <1>2, <1>3, <1>4
  <2>2. Front(u) = Priority[i]
    BY <1>4 DEF Front
  <2>. QED BY <2>1, <2>2
<1>. QED BY <1>1, <1>2, <1>4 DEF Front

-----------------------------------------------------------------------------
(* What the operators do.                                                     *)

(* Waking changes nothing else.                                               *)
LEMMA AwakeFields ==
  ASSUME NEW u \in Ui
  PROVE  LET v == Awake(u)
         IN /\ v.page = u.page /\ v.inner = u.inner /\ v.section = u.section
            /\ v.request = u.request /\ v.camera = u.camera /\ v.menu = u.menu
            /\ v.panels = u.panels /\ v.dragging = u.dragging /\ v.latched = u.latched
            /\ v.reboot = u.reboot /\ v.saver = FALSE /\ v.alert = u.alert
            /\ v.touch = u.touch /\ v.target = u.target
BY DEF Awake, Ui

LEMMA AwakeRecedes ==
  ASSUME NEW u \in Ui
  PROVE  Awake(u) \in Ui /\ Recedes(u, Awake(u)) /\ Awake(u).saver = FALSE /\ Awake(u).page = u.page
BY DEF Awake, Ui, Recedes, Up

LEMMA MenuClosedRecedes ==
  ASSUME NEW u \in Ui
  PROVE  /\ MenuClosed(u) \in Ui /\ Recedes(u, MenuClosed(u))
         /\ MenuClosed(u).panels = {} /\ MenuClosed(u).page = u.page
BY DEF MenuClosed, Ui, Recedes, Up

LEMMA ReturnRecedes ==
  ASSUME NEW u \in Ui
  PROVE  /\ ReturnPrepared(u) \in Ui /\ Recedes(u, ReturnPrepared(u)) /\ ReturnPrepared(u).page = u.page
         /\ Returned(u) \in Ui /\ Recedes(u, Returned(u)) /\ Returned(u).page = u.page
<1>1. ReturnPrepared(u) \in Ui /\ Recedes(u, ReturnPrepared(u)) /\ ReturnPrepared(u).page = u.page
  BY DEF ReturnPrepared, Ui, Recedes, Up
<1>2. Returned(u) \in Ui /\ Recedes(u, Returned(u)) /\ Returned(u).page = u.page
  BY DEF Returned, Ui, Recedes, Up
<1>. QED BY <1>1, <1>2

LEMMA AskedRecedes ==
  ASSUME NEW u \in Ui, NEW kind \in {"launch", "stop", "decide"}
  PROVE  Asked(u, kind) \in Ui /\ Recedes(u, Asked(u, kind)) /\ Asked(u, kind).page = u.page
BY DEF Asked, Request, Ui, Recedes, Up

LEMMA PolledRecedes ==
  ASSUME NEW u \in Ui
  PROVE  Polled(u) \in Ui /\ Recedes(u, Polled(u)) /\ Polled(u).page = u.page
<1> DEFINE s == IF u.request.is = "failed" THEN u.section
                ELSE IF u.request.is = "no" THEN "root"
                ELSE IF u.request.kind = "launch" THEN "running" ELSE "list"
<1>1. s \in {"root", "list", "running"} /\ NoRequest \in [kind : {"none", "launch", "stop", "decide"}, is : {"sent", "ok", "no", "failed"}]
  BY DEF Ui, NoRequest
<1>2. Polled(u) = u \/ Polled(u) = [u EXCEPT !.request = NoRequest, !.section = s]
  BY DEF Polled, Ui
<1> HIDE DEF s
<1>3. [u EXCEPT !.request = NoRequest, !.section = s] \in Ui
  BY <1>1 DEF Ui
<1>4. Recedes(u, [u EXCEPT !.request = NoRequest, !.section = s])
  BY DEF Ui, Recedes, Up
<1>5. Recedes(u, u) /\ [u EXCEPT !.request = NoRequest, !.section = s].page = u.page
  BY DEF Ui, Recedes
<1>. QED BY <1>2, <1>3, <1>4, <1>5

LEMMA GoneRecedes ==
  ASSUME NEW u \in Ui, NEW p \in Page
  PROVE  /\ Gone(u, p) \in Ui /\ Recedes(u, Gone(u, p))
         /\ Gone(u, p).page = [u.page EXCEPT ![p] = "off"] 
BY Pages DEF Gone, Ui, Recedes, Up

LEMMA ClosedRecedes ==
  ASSUME NEW u \in Ui, NEW p \in Page
  PROVE  Closed(u, p) \in Ui /\ Recedes(u, Closed(u, p))
<1> DEFINE r == IF p = "settings" THEN u ELSE ReturnPrepared(Awake(u))
<1>1. r \in Ui /\ Recedes(u, r) /\ r.page = u.page
  <2>1. Awake(u) \in Ui /\ Recedes(u, Awake(u)) /\ Awake(u).page = u.page
    BY AwakeRecedes
  <2>2. /\ ReturnPrepared(Awake(u)) \in Ui /\ Recedes(Awake(u), ReturnPrepared(Awake(u)))
        /\ ReturnPrepared(Awake(u)).page = u.page
    BY <2>1, ReturnRecedes
  <2>3. Recedes(u, u)
    BY DEF Recedes
  <2>. QED BY <2>1, <2>2, <2>3, RecedesTwice
<1> HIDE DEF r
<1>2. Awake(Gone(r, p)) \in Ui /\ Recedes(u, Awake(Gone(r, p)))
  BY <1>1, GoneRecedes, AwakeRecedes, RecedesTwice
<1> DEFINE w == [r EXCEPT !.page[p] = "leaving", !.target[p] = Nothing,
                          !.inner = IF p = "pomodoro" THEN @ \ {p} ELSE @]
<1>3. ASSUME u.page[p] # "off" PROVE w \in Ui /\ Recedes(u, w)
  <2>1. w \in Ui
    BY <1>1 DEF Ui
  <2>2. Recedes(r, w)
    BY <1>1, <1>3, Pages DEF Ui, Recedes, Up
  <2>. QED BY <1>1, <2>1, <2>2, RecedesTwice
<1>4. Recedes(u, u)
  BY DEF Recedes
<1>. QED BY <1>2, <1>3, <1>4 DEF Closed, r

LEMMA TurnedRecedes ==
  ASSUME NEW u \in Ui, NEW p \in Up(u), p \notin {"call", "music", "workshop"}, NEW inside \in BOOLEAN
  PROVE  Turned(u, p, inside) \in Ui /\ Recedes(u, Turned(u, p, inside))
<1> DEFINE i == IF inside THEN u.inner \cup {p} ELSE u.inner \ {p}
<1>1. i \in SUBSET (Page \ {"call", "music", "workshop"}) /\ p \in Page
  BY DEF Ui, Up
<1>2. \/ Turned(u, p, inside) = u
      \/ Turned(u, p, inside) = [u EXCEPT !.inner = i, !.page[p] = "moving", !.target[p] = Nothing]
  BY DEF Turned, Ui
<1> HIDE DEF i
<1>3. [u EXCEPT !.inner = i, !.page[p] = "moving", !.target[p] = Nothing] \in Ui
  BY <1>1 DEF Ui
<1>4. Recedes(u, [u EXCEPT !.inner = i, !.page[p] = "moving", !.target[p] = Nothing])
  BY <1>1, Pages DEF Ui, Recedes, Up
<1>5. Recedes(u, u)
  BY DEF Recedes
<1>. QED BY <1>2, <1>3, <1>4, <1>5

LEMMA CameraSetKeeps ==
  ASSUME NEW u \in Ui, NEW on \in BOOLEAN
  PROVE  /\ CameraSet(u, on) \in Ui /\ CameraSet(u, on).page = u.page
         /\ CameraSet(u, on).panels = u.panels /\ CameraSet(u, on).saver = FALSE
         /\ CameraSet(u, on).reboot = u.reboot
         /\ \A g : Right(u, g) => Right(CameraSet(u, on), g)
<1> DEFINE v == Awake(u)
           t == IF on /\ u.target["camera"] # "edge" THEN u.target["camera"] ELSE Nothing
           c == IF ~on THEN "off" ELSE IF u.camera = "off" THEN "viewfinder" ELSE u.camera
           w == [v EXCEPT !.camera = c, !.target["camera"] = t]
<1>1. /\ v \in Ui /\ Recedes(u, v) /\ ~v.saver /\ v.page = u.page /\ v.panels = u.panels
      /\ v.reboot = u.reboot
  BY AwakeRecedes, AwakeFields
<1>2. t \in Target \cup {Nothing} /\ c \in {"off", "viewfinder", "gallery"} /\ t \in {v.target["camera"], Nothing}
  <2>1. v.target = u.target
    BY AwakeFields
  <2>. QED BY <2>1 DEF Ui
<1>3. CameraSet(u, on) = w
  <2>1. v.target = u.target /\ v.camera = u.camera
    BY AwakeFields
  <2>2. v \in Ui
    BY <1>1
  <2>. QED BY <2>1, <2>2 DEF CameraSet, Ui
<1> HIDE DEF v, t, c
<1>4. w \in Ui
  BY <1>1, <1>2 DEF Ui
<1>5. ASSUME NEW g, Right(u, g) PROVE Right(w, g)
  <2>1. Right(v, g)
    BY <1>1, <1>5, RecedingIsRight
  <2>2. OnePage(w) /\ OnePanel(w) /\ PhotosAlone(w)
    BY <1>1, <2>1 DEF Right, OnePage, OnePanel, PhotosAlone, Up, Ui
  <2>3. SliderInHand(w, g)
    BY <1>1, <1>2, <2>1 DEF Right, SliderInHand, Ui
  <2>. QED BY <1>4, <2>1, <2>2, <2>3 DEF Right
<1>6. w.page = u.page /\ w.panels = u.panels /\ w.saver = FALSE /\ w.reboot = u.reboot
  BY <1>1 DEF Ui
<1>. QED BY <1>3, <1>4, <1>5, <1>6

(* An application comes up over nothing but itself or the settings.           *)
LEMMA OpenedKeeps ==
  ASSUME NEW u \in Ui, NEW p \in Page, NEW g, Right(u, g), u.panels = {},
         Up(u) \subseteq {p} \/ (p # "settings" /\ Up(u) \subseteq {p, "settings"})
  PROVE  Opened(u, p) \in Ui /\ Right(Opened(u, p), g) /\ Up(Opened(u, p)) = Up(u) \cup {p}
<1>1. CASE u.page[p] # "off"
  BY <1>1 DEF Opened, Right, Up
<1>2. CASE u.page[p] = "off"
  <2> DEFINE v == Awake(u)
             o == [v EXCEPT !.page[p] = "moving", !.inner = @ \ {p}, !.target[p] = Nothing]
             r == [o EXCEPT !.section = "root"]
             q == [o EXCEPT !.panels = @ \ {"token"}]
  <2>1. v \in Ui /\ Right(v, g) /\ ~v.saver /\ Up(v) = Up(u) /\ v.panels = {}
    <3>1. v \in Ui /\ Recedes(u, v) /\ ~v.saver /\ v.page = u.page
      BY AwakeRecedes
    <3>2. Right(v, g) /\ v.panels = {}
      BY <3>1, RecedingIsRight DEF Recedes
    <3>. QED BY <3>1, <3>2 DEF Up
  <2>2. Opened(u, p) \in {o, q, Polled(r)}
    BY <1>2 DEF Opened
  <2> HIDE DEF v
  <2>3. o \in Ui /\ Up(o) = Up(u) \cup {p} /\ o.panels = {} /\ ~o.saver
    <3>1. o \in Ui /\ o.page = [v.page EXCEPT ![p] = "moving"]
      BY <2>1 DEF Ui
    <3>2. o.panels = {} /\ ~o.saver
      BY <2>1 DEF Ui
    <3>3. v.page \in [Page -> {"off", "moving", "on", "leaving"}]
      BY <2>1 DEF Ui
    <3>. QED BY <2>1, <3>1, <3>2, <3>3 DEF Up
  <2>4. Right(o, g)
    <3>1. OnePage(o) /\ PhotosAlone(o)
      BY <2>3, <2>1 DEF OnePage, PhotosAlone, Right
    <3>2. o.reboot = v.reboot /\ o.dragging = v.dragging
      BY <2>1 DEF Ui
    <3>3. OnePanel(o) /\ SliderInHand(o, g)
      BY <2>1, <2>3, <3>2 DEF OnePanel, SliderInHand, Right
    <3>. QED BY <2>1, <2>3, <3>1, <3>3 DEF Right
  <2> HIDE DEF o
  <2>5. r \in Ui /\ Recedes(o, r) /\ r.page = o.page
    BY <2>3 DEF Ui, Recedes, Up
  <2>6. q \in Ui /\ Recedes(o, q) /\ q.page = o.page
    BY <2>3 DEF Ui, Recedes, Up
  <2> HIDE DEF r, q
  <2>7. Polled(r) \in Ui /\ Recedes(r, Polled(r)) /\ Polled(r).page = r.page
    BY <2>5, PolledRecedes
  <2>8. Right(r, g) /\ Right(q, g)
    BY <2>4, <2>5, <2>6, RecedingIsRight
  <2>9. Right(Polled(r), g)
    BY <2>7, <2>8, RecedingIsRight
  <2>. QED BY <2>2, <2>3, <2>4, <2>5, <2>6, <2>7, <2>8, <2>9 DEF Up
<1>. QED BY <1>1, <1>2 DEF Ui

LEMMA SwitchedRecedes ==
  ASSUME NEW u \in Ui, NEW p \in AppPage
  PROVE  /\ Switched(u, p) \in Ui /\ Recedes(u, Switched(u, p))
         /\ Switched(u, p).panels = {} /\ Up(Switched(u, p)) \subseteq {p, "settings"}
<1> DEFINE s == IF p # "workshop" /\ u.section = "running" THEN Asked(u, "stop") ELSE u
           m == MenuClosed(s)
           away == AppPage \ {p}
           pages == [q \in Page |-> IF q \in away THEN "off" ELSE m.page[q]]
           targets == [k \in DOMAIN m.target |-> IF k \in away THEN Nothing ELSE m.target[k]]
           w == [m EXCEPT !.page = pages, !.inner = @ \ away, !.target = targets,
                          !.section = IF p = "workshop" THEN @ ELSE "root"]
<1>1. s \in Ui /\ Recedes(u, s)
  BY AskedRecedes DEF Recedes
<1>2. m \in Ui /\ Recedes(s, m) /\ m.panels = {}
  BY <1>1, MenuClosedRecedes
<1>3. Switched(u, p) = w
  BY DEF Switched
<1> HIDE DEF s, m
<1>4. /\ pages \in [Page -> {"off", "moving", "on", "leaving"}]
      /\ targets \in [Page \cup {"camera"} -> Target \cup {Nothing}]
      /\ targets["camera"] = m.target["camera"]
      /\ \A q \in Page : pages[q] # "off" => m.page[q] # "off" /\ q \in {p, "settings"}
  BY <1>2, Pages DEF Ui, Page
<1> HIDE DEF pages, targets
<1>5. w \in Ui
  BY <1>2, <1>4 DEF Ui
<1>6. Recedes(m, w) /\ w.panels = {} /\ Up(w) \subseteq {p, "settings"}
  BY <1>2, <1>4 DEF Ui, Recedes, Up
<1>. QED BY <1>1, <1>2, <1>3, <1>5, <1>6, RecedesTwice

LEMMA CallShownKeeps ==
  ASSUME NEW u \in Ui, NEW g, Right(u, g), "call" \in AppPage
  PROVE  Right(CallShown(u), g)
<1> DEFINE c == CameraSet(Switched(u, "call"), FALSE)
           pages == [c.page EXCEPT !["call"] = "on", !["settings"] = "off"]
           w == [c EXCEPT !.page = pages, !.target["call"] = Nothing]
<1>1. /\ Right(Switched(u, "call"), g) /\ Switched(u, "call") \in Ui
      /\ Switched(u, "call").panels = {} /\ Up(Switched(u, "call")) \subseteq {"call", "settings"}
  BY SwitchedRecedes, RecedingIsRight
<1>2. c \in Ui /\ Right(c, g) /\ c.panels = {} /\ ~c.saver /\ Up(c) \subseteq {"call", "settings"}
  BY <1>1, CameraSetKeeps DEF Up
<1>3. CallShown(u) = w
  BY DEF CallShown
<1> HIDE DEF c
<1>4. /\ pages \in [Page -> {"off", "moving", "on", "leaving"}]
      /\ {q \in Page : pages[q] # "off"} = {"call"}
  BY <1>2, Pages DEF Ui, Up
<1> HIDE DEF pages
<1>5. w \in Ui
  BY <1>2, <1>4, Pages DEF Ui, Target
<1>6. OnePage(w) /\ PhotosAlone(w)
  BY <1>2, <1>4 DEF OnePage, PhotosAlone, Up, Ui
<1>7. OnePanel(w) /\ SliderInHand(w, g)
  BY <1>2, Pages DEF Right, OnePanel, SliderInHand, Ui
<1>. QED BY <1>2, <1>3, <1>5, <1>6, <1>7 DEF Right

LEMMA CallClosedRecedes ==
  ASSUME NEW u \in Ui, "call" \in AppPage
  PROVE  CallClosed(u) \in Ui /\ Recedes(u, CallClosed(u))
<1> DEFINE a == Awake(u)
           n == Gone(a, "call")
           q == ReturnPrepared(n)
<1>1. a \in Ui /\ Recedes(u, a)
  BY AwakeRecedes
<1>2. n \in Ui /\ Recedes(a, n)
  BY <1>1, GoneRecedes, Pages
<1>3. q \in Ui /\ Recedes(n, q)
  BY <1>2, ReturnRecedes
<1>4. Returned(q) \in Ui /\ Recedes(q, Returned(q))
  BY <1>3, ReturnRecedes
<1>5. CallClosed(u) = Returned(q)
  BY DEF CallClosed
<1> HIDE DEF a, n, q
<1>. QED BY <1>1, <1>2, <1>3, <1>4, <1>5, RecedesTwice

LEMMA BackRecedes ==
  ASSUME NEW u \in Ui, NEW p \in Up(u)
  PROVE  Back(u, p) \in Ui /\ Recedes(u, Back(u, p))
<1>1. p \in Page /\ (p \in u.inner => p \notin {"call", "music", "workshop"})
  BY DEF Up, Ui
<1>2. CASE p = "call"
  BY <1>1, <1>2, CallClosedRecedes, Pages DEF Back, Page
<1>3. CASE p = "workshop"
  <2> DEFINE r == [u EXCEPT !.section = "root"]
  <2>1. r \in Ui /\ Recedes(u, r)
    BY DEF Ui, Recedes, Up
  <2>2. WorkshopBack(u) \in {Asked(u, "stop"), r, Closed(u, p)}
    BY <1>3 DEF WorkshopBack
  <2>3. Back(u, p) = WorkshopBack(u)
    BY <1>1, <1>3 DEF Back
  <2>. QED BY <1>1, <2>1, <2>2, <2>3, AskedRecedes, ClosedRecedes
<1>4. CASE p \notin {"call", "workshop"}
  <2>1. (Back(u, p) = Turned(u, p, FALSE) /\ p \in u.inner) \/ Back(u, p) = Closed(u, p)
    BY <1>4 DEF Back
  <2>. QED BY <1>1, <2>1, TurnedRecedes, ClosedRecedes
<1>. QED BY <1>2, <1>3, <1>4

LEMMA TappedRecedes ==
  ASSUME NEW u \in Ui, NEW p \in Up(u), NEW target \in Targets(u, p)
  PROVE  Tapped(u, p, target) \in Ui /\ Recedes(u, Tapped(u, p, target))
<1>1. /\ target \in {"back", "enter", "list", "launch", "decide", "stop"}
      /\ target = "enter" => p \notin {"call", "music", "workshop"}
  BY DEF Targets, Ui
<1>2. CASE target = "back"
  BY <1>2, BackRecedes DEF Tapped
<1>3. CASE target = "enter"
  BY <1>1, <1>3, TurnedRecedes DEF Tapped
<1>4. CASE target = "list"
  <2> DEFINE r == [u EXCEPT !.section = "list"]
  <2>1. r \in Ui /\ Recedes(u, r) /\ Tapped(u, p, target) = Awake(r)
    BY <1>4 DEF Tapped, Ui, Recedes, Up
  <2> HIDE DEF r
  <2>. QED BY <2>1, AwakeRecedes, RecedesTwice
<1>5. CASE target \in {"launch", "decide", "stop"}
  <2>1. Tapped(u, p, target) = Awake(Asked(u, target))
    BY <1>5 DEF Tapped
  <2>2. Asked(u, target) \in Ui /\ Recedes(u, Asked(u, target))
    BY <1>5, AskedRecedes
  <2>. QED BY <2>1, <2>2, AwakeRecedes, RecedesTwice
<1>. QED BY <1>1, <1>2, <1>3, <1>4, <1>5

(* Nothing that comes up asks for a reboot.                                   *)
LEMMA OpenedReboot ==
  ASSUME NEW u \in Ui, NEW p \in Page
  PROVE  Opened(u, p).reboot = u.reboot
<1> DEFINE v == Awake(u)
           o == [v EXCEPT !.page[p] = "moving", !.inner = @ \ {p}, !.target[p] = Nothing]
           r == [o EXCEPT !.section = "root"]
<1>1. v \in Ui /\ v.reboot = u.reboot
  BY AwakeRecedes DEF Recedes
<1> HIDE DEF v
<1>2. o \in Ui /\ o.reboot = u.reboot
  BY <1>1 DEF Ui
<1>3. r \in Ui /\ r.reboot = u.reboot /\ [o EXCEPT !.panels = @ \ {"token"}].reboot = u.reboot
  BY <1>2 DEF Ui
<1>4. Polled(r).reboot = u.reboot
  BY <1>3, PolledRecedes DEF Recedes
<1>. QED BY <1>2, <1>3, <1>4 DEF Opened, v

LEMMA CallShownReboot ==
  ASSUME NEW u \in Ui, "call" \in AppPage
  PROVE  CallShown(u).reboot = u.reboot
<1> DEFINE s == Switched(u, "call")
           c == CameraSet(s, FALSE)
<1>1. s \in Ui /\ s.reboot = u.reboot
  BY SwitchedRecedes DEF Recedes
<1> HIDE DEF s
<1>2. c \in Ui /\ c.reboot = u.reboot
  BY <1>1, CameraSetKeeps
<1>3. CallShown(u).reboot = c.reboot
  BY <1>2 DEF CallShown, Ui, s
<1>. QED BY <1>2, <1>3

-----------------------------------------------------------------------------
(* The finger.                                                                *)

LEMMA TouchKeeps ==
  ASSUME NEW u, NEW g, Right(u, g), u.touch = "up", ~u.alert
  PROVE  LET w == Touch(u)
         IN /\ Right(w, Nothing) /\ w.page = u.page /\ w.panels = u.panels /\ w.menu = u.menu
            /\ w.camera = u.camera /\ w.touch = "down" /\ w.saver = FALSE
            /\ w.reboot = u.reboot /\ ("restart" \in u.panels => w.target["camera"] = Nothing)
<1> DEFINE v == Awake(u)
           t == IF v.target["camera"] = "edge" THEN Nothing ELSE v.target["camera"]
           w == [v EXCEPT !.touch = "down", !.target["camera"] = t]
<1>1. /\ v \in Ui /\ Right(v, g) /\ ~v.saver /\ v.page = u.page /\ v.panels = u.panels /\ v.menu = u.menu
      /\ v.camera = u.camera /\ v.touch = "up" /\ ~v.alert /\ v.reboot = u.reboot
  <2>1. u \in Ui
    BY DEF Right
  <2>2. v \in Ui /\ Recedes(u, v)
    BY <2>1, AwakeRecedes
  <2>3. Right(v, g)
    BY <2>1, <2>2, RecedingIsRight
  <2>. QED BY <2>1, <2>2, <2>3, AwakeFields
<1>2. Touch(u) = w
  BY <1>1 DEF Touch, Ui
<1>3. t \in Target \cup {Nothing} /\ (v.target["camera"] = Nothing => t = Nothing)
  BY <1>1 DEF Ui, Nothing
<1> HIDE DEF v, t
<1>4. w \in Ui
  BY <1>1, <1>3 DEF Ui
<1>5. OnePage(w) /\ OnePanel(w) /\ PhotosAlone(w)
  BY <1>1 DEF Right, OnePage, OnePanel, PhotosAlone, Up, Ui
<1>6. "restart" \in v.panels => v.target["camera"] = Nothing
  BY <1>1 DEF Right, SliderInHand
<1>7. SliderInHand(w, Nothing) /\ ("restart" \in u.panels => w.target["camera"] = Nothing)
  BY <1>1, <1>3, <1>6 DEF Right, SliderInHand, Ui
<1>8. /\ w.page = u.page /\ w.panels = u.panels /\ w.menu = u.menu
      /\ w.camera = u.camera /\ w.touch = "down" /\ w.saver = FALSE /\ w.reboot = u.reboot
  BY <1>1 DEF Ui
<1>. QED BY <1>2, <1>4, <1>5, <1>7, <1>8 DEF Right

LEMMA LiftedKeeps ==
  ASSUME ui \in Ui, NEW u, NEW g, Right(u, g), u.panels = {}
  PROVE  LET w == Lifted(u)
         IN /\ Right(w, g) /\ w.page = u.page /\ w.panels = {} /\ w.menu = u.menu /\ w.camera = u.camera
            /\ Up(ui) = {} => w.target["camera"] = Nothing
<1> DEFINE k == IF Front(ui) = "desktop" THEN "camera" ELSE Front(ui)
           w == [u EXCEPT !.touch = "up", !.target[k] = Nothing]
<1>1. k \in Page \cup {"camera"} /\ (Up(ui) = {} => k = "camera")
  BY Fronts DEF Up
<1>2. Lifted(u) = w
  BY DEF Lifted
<1> HIDE DEF k
<1>3. w \in Ui
  BY <1>1 DEF Right, Ui
<1>4. OnePage(w) /\ OnePanel(w) /\ PhotosAlone(w)
  BY DEF Right, OnePage, OnePanel, PhotosAlone, Up, Ui
<1>5. SliderInHand(w, g)
  BY DEF Right, SliderInHand, Ui
<1>6. /\ w.page = u.page /\ w.panels = {} /\ w.menu = u.menu /\ w.camera = u.camera
      /\ Up(ui) = {} => w.target["camera"] = Nothing
  BY <1>1 DEF Right, Ui
<1>. QED BY <1>2, <1>3, <1>4, <1>5, <1>6 DEF Right

LEMMA PanelBegunKeeps ==
  ASSUME NEW u, NEW g, Right(u, g), u.panels = {}, Up(u) = {}, NEW panel \in Panel,
         u.target["camera"] = Nothing \/ u.touch # "up"
  PROVE  Right(PanelBegun(u, panel), g)
<1> DEFINE b == u.reboot /\ panel # "restart"
           m == IF u.menu = "off" THEN "main" ELSE u.menu
           w == [u EXCEPT !.panels = {panel}, !.menu = m, !.dragging = FALSE, !.latched = FALSE, !.reboot = b]
<1>1. u \in Ui /\ b \in BOOLEAN /\ m \in {"off", "main", "applications"} /\ m # "off" /\ (u.panels \ Panel) \cup {panel} = {panel}
  BY DEF Right, Ui
<1>2. PanelBegun(u, panel) = w
  BY <1>1 DEF PanelBegun
<1> HIDE DEF b, m
<1>3. w \in Ui
  BY <1>1 DEF Ui
<1>4. OnePage(w) /\ OnePanel(w) /\ PhotosAlone(w)
  BY <1>1 DEF Right, OnePage, OnePanel, PhotosAlone, Up, Ui
<1>5. SliderInHand(w, g)
  BY <1>1 DEF Right, SliderInHand, Ui
<1>. QED BY <1>2, <1>3, <1>4, <1>5 DEF Right

LEMMA PanelEndedRecedes ==
  ASSUME NEW u \in Ui, NEW panel \in Panel \cup {"token"}
  PROVE  PanelEnded(u, panel) \in Ui /\ Recedes(u, PanelEnded(u, panel))
<1> DEFINE v == [u EXCEPT !.panels = @ \ {panel}]
           w == [u EXCEPT !.panels = @ \ {panel}, !.dragging = FALSE, !.latched = FALSE]
<1>1. v \in Ui /\ Recedes(u, v)
  BY DEF Ui, Recedes, Up
<1>2. w \in Ui
  BY DEF Ui
<1>3. panel = "restart" => Recedes(u, w)
  BY DEF Ui, Recedes, Up
<1>4. Recedes(u, u)
  BY DEF Recedes
<1>. QED BY <1>1, <1>2, <1>3, <1>4 DEF PanelEnded

-----------------------------------------------------------------------------
LEMMA InitDisplayInv == DisplayInit => DisplayInv
<1> SUFFICES ASSUME DisplayInit PROVE DisplayInv
  OBVIOUS
<1>1. ui \in Ui
  BY DEF DisplayInit, Ui, NoRequest
<1>2. Up(ui) = {} /\ ui.panels = {} /\ ~ui.saver /\ ~ui.dragging
  BY DEF DisplayInit, Up
<1>3. OnePage(ui) /\ OnePanel(ui) /\ PhotosAlone(ui) /\ SliderInHand(ui, gesture)
  BY <1>2 DEF OnePage, OnePanel, PhotosAlone, SliderInHand
<1>. QED BY <1>1, <1>3 DEF DisplayInit, DisplayInv, Right

LEMMA DownKeepsInv ==
  ASSUME DisplayInv, DownOnSaver \/ DownOnPage \/ DownOnToken \/ DownOnDesktop \/ DownOnPanel
  PROVE  DisplayInv'
<1> SUFFICES Right(ui', gesture') /\ hosted' \in BOOLEAN
  BY DEF DisplayInv, Right, OnePage, OnePanel, PhotosAlone, SliderInHand, Up
<1>0. ui \in Ui /\ Right(ui, gesture) /\ hosted \in BOOLEAN
  BY DEF DisplayInv, Right
<1> DEFINE t == Touch(ui)
<1>1. CASE DownOnSaver
  <2>1. Awake(ui) \in Ui /\ Recedes(ui, Awake(ui))
    BY <1>0, AwakeRecedes
  <2>. QED BY <1>0, <1>1, <2>1, RecedingIsRight DEF DownOnSaver, Step
<1>2. ASSUME Down
      PROVE  /\ Right(t, Nothing) /\ t \in Ui /\ Up(t) = Up(ui) /\ t.panels = ui.panels /\ t.menu = ui.menu
             /\ t.camera = ui.camera /\ t.touch = "down" /\ t.saver = FALSE
             /\ t.reboot = ui.reboot /\ ("restart" \in ui.panels => t.target["camera"] = Nothing)
  BY <1>0, <1>2, TouchKeeps DEF Down, Up, Right
<1> HIDE DEF t
<1>3. CASE DownOnPage
  <2>1. PICK target \in Targets(ui, Front(ui)) \cup {Nothing} : ui' = [t EXCEPT !.target[Front(ui)] = target]
    BY <1>3 DEF DownOnPage, t
  <2>2. Front(ui) \in Up(ui) /\ Down /\ gesture' = Nothing /\ hosted' = hosted
    BY <1>0, <1>3, Fronts DEF DownOnPage
  <2>3. target \in Target \cup {Nothing} /\ Front(ui) \in Page
    BY <1>0, <2>2 DEF Targets, Target, Ui, Up
  <2>4. ui' \in Ui
    BY <1>2, <2>1, <2>2, <2>3 DEF Ui
  <2>5. Recedes(t, ui')
    BY <1>2, <2>1, <2>2, <2>3, Pages DEF Ui, Recedes, Up
  <2>. QED BY <1>0, <1>2, <2>2, <2>4, <2>5, RecedingIsRight
<1>4. CASE DownOnToken
  <2> DEFINE a == Awake(ui)
             v == [a EXCEPT !.panels = @ \ {"token"}]
             w == [a EXCEPT !.panels = {"token"}]
  <2>1. a \in Ui /\ Right(a, gesture) /\ Up(a) = Up(ui) /\ ~a.saver
    BY <1>0, AwakeRecedes, RecedingIsRight DEF Up
  <2>2. ui' = v \/ (ui' = w /\ Up(ui) = {})
    BY <1>0, <1>4, Fronts DEF DownOnToken, OnDesktop, Step
  <2>3. gesture' = gesture /\ hosted' = hosted
    BY <1>4 DEF DownOnToken, Step
  <2> HIDE DEF a
  <2>4. v \in Ui /\ Recedes(a, v)
    BY <2>1 DEF Ui, Recedes, Up
  <2>5. ASSUME Up(ui) = {} PROVE Right(w, gesture)
    <3>1. w \in Ui /\ Up(w) = {} /\ w.panels = {"token"} /\ ~w.saver /\ w.reboot = a.reboot /\ w.dragging = a.dragging
      BY <2>1, <2>5 DEF Ui, Up
    <3>2. OnePage(w) /\ OnePanel(w) /\ PhotosAlone(w) /\ SliderInHand(w, gesture)
      BY <2>1, <3>1 DEF Right, OnePage, OnePanel, PhotosAlone, SliderInHand, Panel
    <3>. QED BY <2>1, <3>1, <3>2 DEF Right
  <2>. QED BY <1>0, <2>1, <2>2, <2>3, <2>4, <2>5, RecedingIsRight
<1>5. CASE DownOnDesktop
  <2>1. Down /\ Up(ui) = {} /\ ui.panels = {} /\ gesture' = Nothing /\ hosted' = hosted
    BY <1>0, <1>5, Fronts DEF DownOnDesktop, OnDesktop
  <2>2. \/ \E target \in {"album", "capture", "gallery", "edge", Nothing} :
             ui' = [t EXCEPT !.target["camera"] = target]
        \/ ui' = t
        \/ \E panel \in Panel : ui' = PanelBegun(t, panel)
    <3>1. ASSUME NEW target, ui' = [t EXCEPT !.target["camera"] = IF @ = Nothing THEN target ELSE @]
          PROVE  ui' = t \/ ui' = [t EXCEPT !.target["camera"] = target]
      BY <1>2, <2>1, <3>1 DEF Ui
    <3>. QED BY <1>5, <3>1 DEF DownOnDesktop, t
  <2>3. ASSUME NEW target \in {"album", "capture", "gallery", "edge", Nothing}, ui' = [t EXCEPT !.target["camera"] = target]
        PROVE  Right(ui', Nothing)
    <3>1. ui' \in Ui /\ ui'.panels = {} /\ Up(ui') = {} /\ ~ui'.saver /\ ui'.reboot = t.reboot /\ ui'.dragging = t.dragging
      BY <1>2, <2>1, <2>3 DEF Ui, Target, Up
    <3>2. OnePage(ui') /\ OnePanel(ui') /\ PhotosAlone(ui') /\ SliderInHand(ui', Nothing)
      BY <1>2, <2>1, <3>1 DEF Right, OnePage, OnePanel, PhotosAlone, SliderInHand
    <3>. QED BY <3>1, <3>2 DEF Right
  <2>4. \A panel \in Panel : Right(PanelBegun(t, panel), Nothing)
    BY <1>2, <2>1, PanelBegunKeeps
  <2>. QED BY <1>0, <1>2, <2>1, <2>2, <2>3, <2>4
<1>6. CASE DownOnPanel
  <2>1. PICK panel \in ui.panels \cap Panel :
          /\ panel = "restart" => ~ui.reboot
          /\ \/ Step(PanelEnded(Awake(ui), panel))
             \/ ui' = t /\ gesture' = Nothing /\ UNCHANGED hosted
             \/ /\ panel = "restart"
                /\ ui' = [t EXCEPT !.dragging = TRUE, !.latched = FALSE]
                /\ gesture' = "start" /\ UNCHANGED hosted
    BY <1>6 DEF DownOnPanel, t
  <2>2. Down
    BY <1>6 DEF DownOnPanel
  <2>3. CASE Step(PanelEnded(Awake(ui), panel))
    <3>1. /\ Awake(ui) \in Ui /\ Right(Awake(ui), gesture)
      BY <1>0, AwakeRecedes, RecedingIsRight
    <3>2. Right(PanelEnded(Awake(ui), panel), gesture)
      BY <3>1, PanelEndedRecedes, RecedingIsRight
    <3>. QED BY <1>0, <2>3, <3>2 DEF Step
  <2>4. CASE ui' = t /\ gesture' = Nothing /\ UNCHANGED hosted
    BY <1>0, <1>2, <2>2, <2>4
  <2>5. CASE /\ panel = "restart"
             /\ ui' = [t EXCEPT !.dragging = TRUE, !.latched = FALSE]
             /\ gesture' = "start" /\ UNCHANGED hosted
    <3>0. ui' = [t EXCEPT !.dragging = TRUE, !.latched = FALSE] /\ t \in Ui /\ t.saver = FALSE
      BY <1>2, <2>2, <2>5
    <3>5. ui' \in Ui
      BY <3>0 DEF Ui
    <3>6. /\ ui'.page = t.page /\ ui'.panels = t.panels /\ ui'.menu = t.menu /\ ui'.saver = t.saver
          /\ ui'.target = t.target
      BY <3>0 DEF Ui
    <3>1. /\ ui' \in Ui /\ Up(ui') = Up(t) /\ ui'.panels = t.panels /\ ui'.menu = t.menu /\ ui'.saver = FALSE
          /\ ui'.target = t.target
      BY <3>0, <3>5, <3>6 DEF Up
    <3>2. ui'.dragging = TRUE /\ ui'.latched = FALSE /\ ui'.reboot = FALSE /\ ui'.touch = "down"
      BY <1>0, <1>2, <2>1, <2>2, <2>5 DEF Ui
    <3>3. OnePage(ui') /\ OnePanel(ui') /\ PhotosAlone(ui')
      BY <1>2, <2>2, <3>1 DEF Right, OnePage, OnePanel, PhotosAlone
    <3>4. SliderInHand(ui', "start")
      BY <1>2, <2>1, <2>2, <2>5, <3>1, <3>2 DEF SliderInHand
    <3>. QED BY <1>0, <2>5, <3>1, <3>3, <3>4 DEF Right
  <2>. QED BY <2>1, <2>3, <2>4, <2>5
<1>. QED BY <1>1, <1>3, <1>4, <1>5, <1>6

LEMMA MoveKeepsInv ==
  ASSUME DisplayInv, MoveOnPage \/ MoveOnDesktop \/ SlideToEnd \/ SlideBack \/ SlideOff
  PROVE  DisplayInv'
<1> SUFFICES Right(ui', gesture') /\ hosted' \in BOOLEAN
  BY DEF DisplayInv, Right, OnePage, OnePanel, PhotosAlone, SliderInHand, Up
<1>1. ui \in Ui /\ Right(ui, gesture) /\ hosted \in BOOLEAN /\ gesture \in {Nothing, "start", "end"}
  BY DEF DisplayInv, Right
<1>2. hosted' = hosted /\ ui.touch # "up" /\ gesture' \in {Nothing, "start", "end"}
  BY <1>1 DEF MoveOnPage, MoveOnDesktop, SlideToEnd, SlideBack, SlideOff, Sliding, Held, Step
<1>3. Front(ui) = "desktop" \/ Front(ui) \in Page
  BY <1>1, Fronts DEF Up
<1>4. /\ ui' \in Ui /\ ui'.page = ui.page /\ ui'.panels = ui.panels /\ ui'.menu = ui.menu /\ ui'.saver = ui.saver
      /\ ui'.camera = ui.camera /\ ui'.reboot = ui.reboot /\ ui'.touch = "moved"
      /\ ui'.target["camera"] = ui.target["camera"]
  <2>1. CASE MoveOnPage
    BY <1>1, <1>3, <2>1, Pages DEF MoveOnPage, Step, Ui
  <2>2. CASE MoveOnDesktop
    BY <1>1, <2>2 DEF MoveOnDesktop, Step, Ui
  <2>3. CASE SlideToEnd
    BY <1>1, <2>3 DEF SlideToEnd, Ui
  <2>4. CASE SlideBack
    BY <1>1, <2>4 DEF SlideBack, Ui
  <2>5. CASE SlideOff
    BY <1>1, <2>5 DEF SlideOff, Ui
  <2>. QED BY <2>1, <2>2, <2>3, <2>4, <2>5
<1>5. OnePage(ui') /\ OnePanel(ui') /\ PhotosAlone(ui')
  BY <1>1, <1>2, <1>4 DEF Right, OnePage, OnePanel, PhotosAlone, Up
<1>6. SliderInHand(ui', gesture')
  <2>1. CASE MoveOnPage \/ MoveOnDesktop
    <3>1. ui'.dragging = ui.dragging /\ ui'.latched = ui.latched /\ gesture' = gesture
      BY <1>1, <2>1 DEF MoveOnPage, MoveOnDesktop, Step, Ui
    <3>. QED BY <1>1, <1>2, <1>4, <3>1 DEF Right, SliderInHand
  <2>2. ASSUME Sliding PROVE ~ui.reboot /\ ui.dragging /\ ui.target["camera"] = Nothing
    BY <1>1, <2>2 DEF Sliding, Right, SliderInHand, Nothing
  <2>3. CASE SlideToEnd
    <3>1. ui'.dragging = ui.dragging /\ ui'.latched /\ gesture = "start" /\ gesture' = "end"
      BY <1>1, <2>2, <2>3 DEF SlideToEnd, Sliding, Held, Right, SliderInHand, Ui
    <3>. QED BY <1>1, <1>4, <2>2, <2>3, <3>1 DEF SliderInHand, SlideToEnd
  <2>4. CASE SlideBack
    <3>1. ui'.dragging = ui.dragging /\ ~ui'.latched /\ gesture = "end" /\ gesture' = "start"
      BY <1>1, <2>2, <2>4 DEF SlideBack, Sliding, Held, Right, SliderInHand, Ui
    <3>. QED BY <1>1, <1>4, <2>2, <2>4, <3>1 DEF SliderInHand, SlideBack
  <2>5. CASE SlideOff
    <3>1. ~ui'.dragging /\ ~ui'.latched
      BY <1>1, <2>5 DEF SlideOff, Ui
    <3>. QED BY <1>4, <3>1 DEF SliderInHand
  <2>. QED BY <2>1, <2>3, <2>4, <2>5
<1>. QED BY <1>1, <1>2, <1>4, <1>5, <1>6 DEF Right

(* The finger is lifted.  Over a page there is no slider; a target of the     *)
(* camera is touched only while the slider is at rest.                        *)
LEMMA UpKeepsInv ==
  ASSUME DisplayInv, UpOnPage \/ UpOnCamera \/ UpOnRestart \/ UpOnPanel \/ UpOnExpression
  PROVE  DisplayInv' /\ (ui'.reboot /\ ~ui.reboot => gesture' = "end")
<1> SUFFICES /\ Right(ui', gesture') /\ hosted' \in BOOLEAN
             /\ ui'.reboot /\ ~ui.reboot => gesture' = "end"
  BY DEF DisplayInv, Right, OnePage, OnePanel, PhotosAlone, SliderInHand, Up
<1> DEFINE k == IF Front(ui) = "desktop" THEN "camera" ELSE Front(ui)
<1>1. /\ ui \in Ui /\ Right(ui, gesture) /\ hosted \in BOOLEAN /\ gesture \in {Nothing, "start", "end"}
      /\ k \in Page \cup {"camera"} /\ (Front(ui) = "desktop" => Up(ui) = {} /\ k = "camera")
      /\ Front(ui) # "desktop" => Front(ui) \in Up(ui) /\ ui.panels = {}
  BY Fronts DEF DisplayInv, Right, Up, OnePage
<1>2. \A u : Lifted(u) = [u EXCEPT !.touch = "up", !.target[k] = Nothing]
  BY DEF Lifted
<1> HIDE DEF k
<1>3. CASE UpOnPage
  <2>1. PICK w : w \in Ui /\ Recedes(ui, w) /\ ui' = Lifted(w)
    <3>1. Recedes(ui, ui)
      BY DEF Recedes
    <3>2. /\ Back(ui, Front(ui)) \in Ui /\ Recedes(ui, Back(ui, Front(ui)))
          /\ \A target \in Targets(ui, Front(ui)) :
               LET v == Tapped(ui, Front(ui), target) IN v \in Ui /\ Recedes(ui, v)
      BY <1>1, <1>3, BackRecedes, TappedRecedes DEF UpOnPage
    <3>. QED BY <1>1, <1>3, <3>1, <3>2 DEF UpOnPage, Step
  <2>2. hosted' = hosted /\ gesture' = gesture /\ ui.panels = {}
    BY <1>1, <1>3 DEF UpOnPage, Step
  <2>3. Right(w, gesture) /\ w.panels = {}
    BY <1>1, <2>1, <2>2, RecedingIsRight DEF Recedes
  <2>4. Right(Lifted(w), gesture)
    BY <1>1, <2>3, LiftedKeeps
  <2>5. Lifted(w).reboot = ui.reboot
    BY <1>2, <2>1 DEF Recedes, Ui
  <2>. QED BY <1>1, <2>1, <2>2, <2>4, <2>5
<1>4. CASE UpOnCamera
  <2>1. Front(ui) = "desktop" /\ ui.target["camera"] # Nothing /\ gesture' = gesture /\ hosted' = hosted
    BY <1>4 DEF UpOnCamera, Step
  <2>2. PICK w : w \in Ui /\ Right(w, gesture) /\ ui' = Lifted(w) /\ w.panels = ui.panels
                 /\ w.reboot = ui.reboot /\ w.dragging = ui.dragging /\ w.latched = ui.latched
    <3> DEFINE g == [ui EXCEPT !.camera = "gallery"]
               v == [ui EXCEPT !.camera = "viewfinder"]
    <3>1. CASE ui' = Lifted(ui)
      BY <1>1, <3>1
    <3>2. CASE ui' = Lifted(g) /\ ui.camera # "off"
      <4>1. g \in Ui /\ g.panels = ui.panels /\ g.reboot = ui.reboot /\ g.dragging = ui.dragging /\ g.latched = ui.latched
        BY <1>1 DEF Ui
      <4>2. Right(g, gesture)
        BY <1>1, <3>2, <4>1 DEF Right, OnePage, OnePanel, PhotosAlone, SliderInHand, Up, Ui
      <4>. QED BY <3>2, <4>1, <4>2
    <3>3. CASE ui' = Lifted(v) /\ ui.camera # "off"
      <4>1. v \in Ui /\ v.panels = ui.panels /\ v.reboot = ui.reboot /\ v.dragging = ui.dragging /\ v.latched = ui.latched
        BY <1>1 DEF Ui
      <4>2. Right(v, gesture)
        BY <1>1, <3>3, <4>1 DEF Right, OnePage, OnePanel, PhotosAlone, SliderInHand, Up, Ui
      <4>. QED BY <3>3, <4>1, <4>2
    <3>4. CASE ui' = Lifted(CameraSet(ui, FALSE))
      <4>1. CameraSet(ui, FALSE) \in Ui /\ Right(CameraSet(ui, FALSE), gesture) /\ CameraSet(ui, FALSE).panels = ui.panels
        BY <1>1, CameraSetKeeps
      <4>2. /\ CameraSet(ui, FALSE).reboot = ui.reboot /\ CameraSet(ui, FALSE).dragging = ui.dragging
            /\ CameraSet(ui, FALSE).latched = ui.latched
        BY <1>1 DEF CameraSet, Awake, Ui
      <4>. QED BY <3>4, <4>1, <4>2
    <3>5. ui.camera = "gallery" => ui.camera # "off"
      OBVIOUS
    <3>. QED BY <1>4, <3>1, <3>2, <3>3, <3>4, <3>5 DEF UpOnCamera, Step
  <2>3. /\ ui' \in Ui /\ ui'.page = w.page /\ ui'.panels = w.panels /\ ui'.menu = w.menu /\ ui'.camera = w.camera
        /\ ui'.saver = w.saver /\ ui'.touch = "up" /\ ui'.target["camera"] = Nothing
        /\ ui'.reboot = ui.reboot /\ ui'.dragging = ui.dragging /\ ui'.latched = ui.latched
    BY <1>1, <1>2, <2>1, <2>2 DEF Ui
  <2>4. OnePage(ui') /\ OnePanel(ui') /\ PhotosAlone(ui')
    BY <2>2, <2>3 DEF Right, OnePage, OnePanel, PhotosAlone, Up
  <2>5. SliderInHand(ui', gesture)
    BY <1>1, <2>1, <2>2, <2>3 DEF Right, SliderInHand
  <2>. QED BY <1>1, <2>1, <2>3, <2>4, <2>5 DEF Right
<1>5. CASE UpOnRestart
  <2>1. Desktop /\ "restart" \in ui.panels /\ Up(ui) = {} /\ k = "camera" /\ ui.touch # "up"
    BY <1>1, <1>5 DEF UpOnRestart, Desktop, Held
  <2> DEFINE l == Lifted(ui)
  <2>2. /\ l \in Ui /\ l.page = ui.page /\ l.panels = ui.panels /\ l.menu = ui.menu /\ l.camera = ui.camera
        /\ l.saver = ui.saver /\ l.touch = "up" /\ l.target["camera"] = Nothing
        /\ l.reboot = ui.reboot /\ l.dragging = ui.dragging /\ l.latched = ui.latched
    BY <1>1, <1>2, <2>1 DEF Ui
  <2> HIDE DEF l
  <2>3. \/ ui.latched /\ ui' = [l EXCEPT !.dragging = FALSE, !.reboot = TRUE] /\ gesture' = gesture
        \/ /\ ui.dragging /\ ~ui.latched
           /\ ui' = [l EXCEPT !.dragging = FALSE, !.latched = TRUE, !.reboot = TRUE]
           /\ gesture' = IF gesture = "start" THEN "end" ELSE gesture
        \/ ~ui.latched /\ ui' = [l EXCEPT !.dragging = FALSE] /\ gesture' = gesture
    BY <1>5 DEF UpOnRestart, Step, l
  <2>4. /\ ui' \in Ui /\ ui'.page = ui.page /\ ui'.panels = ui.panels /\ ui'.menu = ui.menu /\ ui'.camera = ui.camera
        /\ ui'.saver = ui.saver /\ ui'.touch = "up" /\ ui'.target["camera"] = Nothing /\ ~ui'.dragging
    <3>1. \/ ui' = [l EXCEPT !.dragging = FALSE, !.reboot = TRUE]
          \/ ui' = [l EXCEPT !.dragging = FALSE, !.latched = TRUE, !.reboot = TRUE]
          \/ ui' = [l EXCEPT !.dragging = FALSE]
      BY <2>3
    <3>2. ui' \in Ui
      <4>1. CASE ui' = [l EXCEPT !.dragging = FALSE, !.reboot = TRUE]
        BY <2>2, <4>1 DEF Ui
      <4>2. CASE ui' = [l EXCEPT !.dragging = FALSE, !.latched = TRUE, !.reboot = TRUE]
        BY <2>2, <4>2 DEF Ui
      <4>3. CASE ui' = [l EXCEPT !.dragging = FALSE]
        BY <2>2, <4>3 DEF Ui
      <4>. QED BY <3>1, <4>1, <4>2, <4>3
    <3>3. ASSUME NEW x, x \in {[l EXCEPT !.dragging = FALSE, !.reboot = TRUE], [l EXCEPT !.dragging = FALSE],
                              [l EXCEPT !.dragging = FALSE, !.latched = TRUE, !.reboot = TRUE]}
          PROVE  /\ x.page = l.page /\ x.panels = l.panels /\ x.menu = l.menu /\ x.camera = l.camera
                 /\ x.saver = l.saver /\ x.touch = l.touch /\ x.target = l.target /\ ~x.dragging
      <4>1. CASE x = [l EXCEPT !.dragging = FALSE, !.reboot = TRUE]
        BY <2>2, <4>1 DEF Ui
      <4>2. CASE x = [l EXCEPT !.dragging = FALSE, !.latched = TRUE, !.reboot = TRUE]
        BY <2>2, <4>2 DEF Ui
      <4>3. CASE x = [l EXCEPT !.dragging = FALSE]
        BY <2>2, <4>3 DEF Ui
      <4>. QED BY <3>3, <4>1, <4>2, <4>3
    <3>4. /\ ui'.page = l.page /\ ui'.panels = l.panels /\ ui'.menu = l.menu /\ ui'.camera = l.camera
          /\ ui'.saver = l.saver /\ ui'.touch = l.touch /\ ui'.target = l.target /\ ~ui'.dragging
      BY <3>1, <3>3
    <3>. QED BY <2>2, <3>2, <3>4
  <2>5. ui'.reboot \/ ~ui'.latched
    <3>1. CASE ui' = [l EXCEPT !.dragging = FALSE, !.reboot = TRUE]
      BY <2>2, <3>1 DEF Ui
    <3>2. CASE ui' = [l EXCEPT !.dragging = FALSE, !.latched = TRUE, !.reboot = TRUE]
      <4>1. ui'.reboot = TRUE
        BY <2>2, <3>2 DEF Ui
      <4>. QED BY <4>1
    <3>3. CASE ~ui.latched /\ ui' = [l EXCEPT !.dragging = FALSE]
      BY <2>2, <3>3 DEF Ui
    <3>. QED BY <2>3, <3>1, <3>2, <3>3
  <2>6. ui'.reboot /\ ~ui.reboot => gesture' = "end"
    BY <1>1, <2>1, <2>2, <2>3 DEF Right, SliderInHand, Ui
  <2>7. OnePage(ui') /\ OnePanel(ui') /\ PhotosAlone(ui')
    BY <1>1, <2>1, <2>4 DEF Right, OnePage, OnePanel, PhotosAlone, Up
  <2>8. SliderInHand(ui', gesture')
    BY <2>4, <2>5 DEF SliderInHand
  <2>9. hosted' = hosted /\ gesture' \in {Nothing, "start", "end"}
    BY <1>1, <1>5, <2>3 DEF UpOnRestart
  <2>. QED BY <1>1, <2>4, <2>6, <2>7, <2>8, <2>9 DEF Right
<1>6. CASE UpOnPanel \/ UpOnExpression
  <2>1. ui' = Lifted(ui) /\ gesture' = gesture /\ hosted' = hosted /\ Up(ui) = {} /\ k = "camera" /\ "restart" \notin ui.panels
    BY <1>1, <1>6 DEF UpOnPanel, UpOnExpression, Desktop, Step, Right, OnePanel
  <2>2. /\ ui' \in Ui /\ ui'.page = ui.page /\ ui'.panels = ui.panels /\ ui'.menu = ui.menu /\ ui'.camera = ui.camera
        /\ ui'.saver = ui.saver /\ ui'.touch = "up"
        /\ ui'.reboot = ui.reboot /\ ui'.dragging = ui.dragging
    BY <1>1, <1>2, <2>1 DEF Ui
  <2>3. OnePage(ui') /\ OnePanel(ui') /\ PhotosAlone(ui') /\ SliderInHand(ui', gesture)
    BY <1>1, <2>1, <2>2 DEF Right, OnePage, OnePanel, PhotosAlone, SliderInHand, Up
  <2>. QED BY <1>1, <2>1, <2>2, <2>3 DEF Right
<1>. QED BY <1>3, <1>4, <1>5, <1>6

(* The menu has no panel open.  What is chosen comes up over nothing.         *)
LEMMA MenuKeepsInv ==
  ASSUME DisplayInv, UpOnMenu
  PROVE  DisplayInv' /\ (ui'.reboot => ui.reboot)
<1> DEFINE l == Lifted(ui)
           chosen == Lifted(MenuClosed(ui))
           uncovered == IF ui.camera = "off" THEN chosen ELSE CameraSet(chosen, FALSE)
<1>1. ui \in Ui /\ Right(ui, gesture) /\ hosted \in BOOLEAN /\ Up(ui) = {} /\ ui.panels = {}
  BY Fronts DEF DisplayInv, Right, UpOnMenu, Desktop
<1>2. /\ l \in Ui /\ Right(l, gesture) /\ Up(l) = {} /\ l.panels = {} /\ l.target["camera"] = Nothing
      /\ l.reboot = ui.reboot
  <2>1. Right(l, gesture) /\ l.page = ui.page /\ l.panels = {} /\ l.target["camera"] = Nothing
    BY <1>1, LiftedKeeps
  <2>2. l.reboot = ui.reboot
    BY <1>1 DEF Lifted, Ui
  <2>. QED BY <1>1, <2>1, <2>2 DEF Up, Right
<1>3. /\ chosen \in Ui /\ Right(chosen, gesture) /\ Up(chosen) = {} /\ chosen.panels = {}
      /\ chosen.reboot = ui.reboot
  <2>1. MenuClosed(ui) \in Ui /\ Right(MenuClosed(ui), gesture) /\ MenuClosed(ui).panels = {} /\ MenuClosed(ui).page = ui.page
        /\ MenuClosed(ui).reboot = ui.reboot
    BY <1>1, MenuClosedRecedes, RecedingIsRight DEF Recedes
  <2>2. Right(chosen, gesture) /\ chosen.page = ui.page /\ chosen.panels = {}
    BY <1>1, <2>1, LiftedKeeps
  <2>3. chosen.reboot = ui.reboot
    BY <2>1 DEF Lifted, Ui
  <2>. QED BY <1>1, <2>2, <2>3 DEF Right, Up
<1>4. \A on \in BOOLEAN : Right(CameraSet(chosen, on), gesture) /\ CameraSet(chosen, on).reboot = ui.reboot
  BY <1>3, CameraSetKeeps
<1>5. /\ uncovered \in Ui /\ Right(uncovered, gesture) /\ Up(uncovered) = {} /\ uncovered.panels = {}
      /\ uncovered.reboot = ui.reboot
  BY <1>3, <1>4, CameraSetKeeps DEF Up
<1> DEFINE menu(m) == [l EXCEPT !.menu = m]
           shown == CallShown(uncovered)
<1>6. \/ ui' = l
      \/ \E panel \in Panel : ui' = PanelBegun(l, panel)
      \/ ui' = menu("applications") \/ ui' = menu("main")
      \/ \E on \in BOOLEAN : ui' = CameraSet(chosen, on)
      \/ ui' = uncovered
      \/ \E p \in Page : ui' = Opened(uncovered, p)
      \/ "call" \in AppPage /\ ui' = shown
  BY Pages DEF UpOnMenu, Step
<1>7. hosted' = hosted /\ gesture' = gesture
  BY DEF UpOnMenu, Step
<1> HIDE DEF l, chosen, uncovered
<1>8. Right(ui', gesture) /\ (ui'.reboot => ui.reboot)
  <2>1. ASSUME NEW panel \in Panel, ui' = PanelBegun(l, panel)
        PROVE  Right(ui', gesture) /\ (ui'.reboot => ui.reboot)
    <3>1. ui'.reboot => l.reboot
      BY <1>2, <2>1 DEF PanelBegun, Ui
    <3>. QED BY <1>2, <2>1, <3>1, PanelBegunKeeps
  <2>2. ASSUME NEW m \in {"main", "applications"}, ui' = menu(m)
        PROVE  Right(ui', gesture) /\ (ui'.reboot => ui.reboot)
    <3>1. ui' \in Ui /\ Recedes(l, ui') /\ ui'.reboot = l.reboot
      BY <1>2, <2>2 DEF Recedes, Up, Ui
    <3>. QED BY <1>2, <3>1, RecedingIsRight
  <2>3. ASSUME NEW p \in Page, ui' = Opened(uncovered, p)
        PROVE  Right(ui', gesture) /\ (ui'.reboot => ui.reboot)
    <3>1. Right(ui', gesture)
      BY <1>5, <2>3, OpenedKeeps
    <3>2. Opened(uncovered, p).reboot = uncovered.reboot
      BY <1>5, OpenedReboot
    <3>. QED BY <1>5, <2>3, <3>1, <3>2
  <2>4. CASE "call" \in AppPage /\ ui' = shown
    BY <1>5, <2>4, CallShownKeeps, CallShownReboot
  <2>. QED BY <1>2, <1>4, <1>5, <1>6, <2>1, <2>2, <2>3, <2>4
<1>. QED BY <1>1, <1>7, <1>8 DEF DisplayInv, Right, OnePage, OnePanel, PhotosAlone, SliderInHand, Up

-----------------------------------------------------------------------------
(* Voice commands and commands of the call service.                           *)
LEMMA CommandKeepsInv ==
  ASSUME DisplayInv, Command
  PROVE  DisplayInv' /\ ui'.reboot = ui.reboot
<1>1. ui \in Ui /\ Right(ui, gesture) /\ hosted \in BOOLEAN
  BY DEF DisplayInv, Right
<1>2. gesture' = gesture /\ hosted' \in BOOLEAN
  BY <1>1 DEF Command, VoiceOpens, VoiceCloses, VoiceLaunches, VoiceStops, CallBegins, CallEnds,
              CameraCommand, Step
<1> SUFFICES Right(ui', gesture) /\ ui'.reboot = ui.reboot
  BY <1>2 DEF DisplayInv, Right, OnePage, OnePanel, PhotosAlone, SliderInHand, Up
<1>3. ASSUME NEW w \in Ui, Recedes(ui, w), ui' = w
      PROVE  Right(ui', gesture) /\ ui'.reboot = ui.reboot
  BY <1>1, <1>3, RecedingIsRight DEF Recedes
<1>4. ASSUME NEW p \in AppPage
      PROVE  LET o == Opened(Switched(ui, p), p)
             IN o \in Ui /\ Right(o, gesture) /\ o.reboot = ui.reboot /\ p \in Up(o)
  <2> DEFINE w == Switched(ui, p)
  <2>1. w \in Ui /\ Right(w, gesture) /\ w.panels = {} /\ Up(w) \subseteq {p, "settings"} /\ w.reboot = ui.reboot
    BY <1>1, SwitchedRecedes, RecedingIsRight DEF Recedes
  <2> HIDE DEF w
  <2>2. p \in Page /\ p # "settings"
    BY Pages
  <2>3. /\ Opened(w, p) \in Ui /\ Right(Opened(w, p), gesture) /\ p \in Up(Opened(w, p))
    BY <2>1, <2>2, OpenedKeeps
  <2>4. Opened(w, p).reboot = w.reboot
    BY <2>1, <2>2, OpenedReboot
  <2>. QED BY <2>1, <2>3, <2>4 DEF w
<1>5. CASE VoiceOpens
  <2>1. PICK p \in AppPage \ {"call"} :
          LET o == Opened(Switched(ui, p), p)
          IN Step(IF p = "pomodoro" /\ p \in o.inner THEN Turned(o, p, FALSE) ELSE o)
    BY <1>5 DEF VoiceOpens
  <2> DEFINE o == Opened(Switched(ui, p), p)
  <2>2. o \in Ui /\ Right(o, gesture) /\ o.reboot = ui.reboot /\ p \in Up(o)
    BY <1>4
  <2>3. ui' = o \/ (p = "pomodoro" /\ ui' = Turned(o, p, FALSE))
    BY <2>1 DEF Step
  <2> HIDE DEF o
  <2>4. p = "pomodoro" => /\ Right(Turned(o, p, FALSE), gesture) /\ Turned(o, p, FALSE).reboot = o.reboot
    BY <2>2, TurnedRecedes, RecedingIsRight DEF Recedes
  <2>. QED BY <2>2, <2>3, <2>4
<1>6. CASE VoiceCloses
  <2>1. PICK p \in Page : ui' = Closed(ui, p)
    BY <1>6, Pages DEF VoiceCloses, Step
  <2>. QED BY <1>1, <1>3, <2>1, ClosedRecedes
<1>7. CASE VoiceLaunches
  <2> DEFINE o == Opened(Switched(ui, "workshop"), "workshop")
  <2>1. o \in Ui /\ Right(o, gesture) /\ o.reboot = ui.reboot /\ ui' = [o EXCEPT !.section = "running"]
    BY <1>4, <1>7 DEF VoiceLaunches
  <2> HIDE DEF o
  <2>2. ui' \in Ui /\ Recedes(o, ui')
    BY <2>1 DEF Ui, Recedes, Up
  <2>. QED BY <2>1, <2>2, RecedingIsRight DEF Recedes
<1>8. CASE VoiceStops
  <2>1. ui' \in Ui /\ Recedes(ui, ui')
    BY <1>1, <1>8 DEF VoiceStops, Ui, Recedes, Up
  <2>. QED BY <1>3, <2>1
<1>9. CASE CallBegins
  BY <1>1, <1>9, CallShownKeeps, CallShownReboot DEF CallBegins, Step
<1>10. CASE CallEnds
  <2>1. ui' = CallClosed(ui) \/ ui' = Returned(ui)
    BY <1>10 DEF CallEnds, Step
  <2>2. "call" \in AppPage
    BY <1>10 DEF CallEnds
  <2>. QED BY <1>1, <1>3, <2>1, <2>2, CallClosedRecedes, ReturnRecedes
<1>11. CASE CameraCommand
  <2>1. CASE \E on \in BOOLEAN : Step(CameraSet(ui, on))
    <3>1. PICK on \in BOOLEAN : ui' = CameraSet(ui, on)
      BY <2>1 DEF Step
    <3>2. ui'.reboot = ui.reboot /\ Right(ui', gesture)
      BY <1>1, <3>1, CameraSetKeeps
    <3>. QED BY <3>2
  <2>2. CASE ui.camera # "off" /\ Step([ui EXCEPT !.camera = "gallery", !.target["camera"] = Nothing])
    <3> DEFINE w == [ui EXCEPT !.camera = "gallery", !.target["camera"] = Nothing]
    <3>1. w \in Ui /\ w.reboot = ui.reboot
      BY <1>1 DEF Ui
    <3>2. /\ w.page = ui.page /\ w.panels = ui.panels /\ w.menu = ui.menu /\ w.saver = ui.saver
          /\ w.touch = ui.touch /\ w.alert = ui.alert /\ w.dragging = ui.dragging
          /\ w.latched = ui.latched /\ w.target["camera"] = Nothing
      BY <1>1 DEF Ui
    <3>3. ui' = w /\ ui.camera # "off"
      BY <2>2 DEF Step
    <3> HIDE DEF w
    <3>4. OnePage(w) /\ OnePanel(w)
      BY <1>1, <3>2 DEF Right, OnePage, OnePanel, Up
    <3>5. PhotosAlone(w) /\ SliderInHand(w, gesture)
      BY <1>1, <3>1, <3>2, <3>3 DEF Right, PhotosAlone, SliderInHand
    <3>6. Right(w, gesture)
      BY <1>1, <3>1, <3>4, <3>5 DEF Right
    <3>7. gesture' = gesture /\ hosted' = hosted
      BY <2>2 DEF Step
    <3>. QED BY <1>1, <3>1, <3>3, <3>6, <3>7
  <2>. QED BY <1>11, <2>1, <2>2 DEF CameraCommand
<1>. QED BY <1>5, <1>6, <1>7, <1>8, <1>9, <1>10, <1>11 DEF Command

-----------------------------------------------------------------------------
(* The frame loop.                                                            *)
LEMMA FrameKeepsInv ==
  ASSUME DisplayInv, FrameStep
  PROVE  DisplayInv' /\ (ui'.reboot => ui.reboot)
<1>1. ui \in Ui /\ Right(ui, gesture) /\ hosted \in BOOLEAN
  BY DEF DisplayInv, Right
<1>2. gesture' = gesture /\ hosted' \in BOOLEAN
  BY <1>1 DEF FrameStep, Animated, Polling, Answered, HostedEnds, LongPress, PanelIdle, MenuIdle,
              SaverStarts, SaverLosesPhoto, AlertStarts, AlertEnds, RebootFails, Step
<1> SUFFICES Right(ui', gesture) /\ (ui'.reboot => ui.reboot)
  BY <1>2 DEF DisplayInv, Right, OnePage, OnePanel, PhotosAlone, SliderInHand, Up
<1>3. ASSUME NEW w \in Ui, Recedes(ui, w), ui' = w
      PROVE  Right(ui', gesture) /\ (ui'.reboot => ui.reboot)
  BY <1>1, <1>3, RecedingIsRight DEF Recedes
<1>4. ASSUME NEW p \in Page, Animated(p) PROVE Right(ui', gesture) /\ (ui'.reboot => ui.reboot)
  <2> DEFINE w == [ui EXCEPT !.page[p] = "on"]
             n == Gone(ui, p)
  <2>1. (ui' = w /\ ui.page[p] = "moving") \/ ui' \in {Awake(n), Returned(n)}
    BY <1>4 DEF Animated, Step
  <2>2. ui.page[p] = "moving" => w \in Ui /\ Recedes(ui, w)
    BY <1>1 DEF Ui, Recedes, Up
  <2>3. n \in Ui /\ Recedes(ui, n)
    BY <1>1, GoneRecedes
  <2> HIDE DEF w, n
  <2>4. /\ Awake(n) \in Ui /\ Recedes(ui, Awake(n))
        /\ Returned(n) \in Ui /\ Recedes(ui, Returned(n))
    BY <1>1, <2>3, AwakeRecedes, ReturnRecedes, RecedesTwice
  <2>. QED BY <1>3, <2>1, <2>2, <2>4
<1>5. CASE Polling
  BY <1>1, <1>3, <1>5, PolledRecedes DEF Polling, Step
<1>6. CASE Answered
  <2>1. PICK result \in {"ok", "failed", "no"} : ui' = [ui EXCEPT !.request.is = result]
    BY <1>6 DEF Answered
  <2> DEFINE q == [ui.request EXCEPT !.is = result]
  <2>2. q \in [kind : {"none", "launch", "stop", "decide"}, is : {"sent", "ok", "no", "failed"}]
    BY <1>1 DEF Ui
  <2>3. ui' = [ui EXCEPT !.request = q]
    BY <1>1, <2>1 DEF Ui
  <2> HIDE DEF q
  <2>4. ui' \in Ui /\ Recedes(ui, ui')
    BY <1>1, <2>2, <2>3 DEF Ui, Recedes, Up
  <2>. QED BY <1>3, <2>4
<1>7. CASE HostedEnds
  <2>1. Recedes(ui, ui)
    BY DEF Recedes
  <2>. QED BY <1>1, <1>3, <1>7, <2>1 DEF HostedEnds
<1>8. CASE LongPress
  <2>1. ui' \in Ui /\ Recedes(ui, ui')
    BY <1>1, <1>8 DEF LongPress, Step, Ui, Recedes, Up
  <2>. QED BY <1>3, <2>1
<1>9. CASE PanelIdle
  <2>1. PICK panel \in Panel \cup {"token"} : ui' = PanelEnded(ui, panel)
    BY <1>1, <1>9 DEF PanelIdle, Step, Ui
  <2>. QED BY <1>1, <1>3, <2>1, PanelEndedRecedes
<1>10. CASE MenuIdle
  BY <1>1, <1>3, <1>10, MenuClosedRecedes DEF MenuIdle, Step
<1>11. CASE SaverStarts
  <2>1. /\ ui' = [ui EXCEPT !.saver = TRUE] /\ Up(ui) = {} /\ ui.touch = "up" /\ ui.panels = {} /\ ui.camera = "off"
    BY <1>1, <1>11, Fronts DEF SaverStarts, OnDesktop, Step
  <2>2. /\ ui' \in Ui /\ Up(ui') = {} /\ ui'.touch = "up" /\ ui'.panels = {} /\ ui'.camera = "off"
        /\ ui'.reboot = ui.reboot /\ ui'.dragging = ui.dragging
    BY <1>1, <2>1 DEF Ui, Up
  <2>3. OnePage(ui') /\ OnePanel(ui') /\ PhotosAlone(ui') /\ SliderInHand(ui', gesture)
    BY <1>1, <2>2 DEF Right, OnePage, OnePanel, PhotosAlone, SliderInHand
  <2>. QED BY <1>1, <2>2, <2>3 DEF Right
<1>12. CASE SaverLosesPhoto
  BY <1>1, <1>3, <1>12, AwakeRecedes DEF SaverLosesPhoto, Step
<1>13. CASE AlertStarts
  <2> DEFINE a == Awake(ui)
             t == [k \in DOMAIN a.target |->
                     IF k \in {"pomodoro", "performance", "music", "camera"} THEN Nothing ELSE a.target[k]]
             w == [a EXCEPT !.alert = TRUE, !.touch = "up", !.target = t]
  <2>1. a \in Ui /\ Right(a, gesture) /\ ~a.saver /\ a.reboot = ui.reboot
    BY <1>1, AwakeRecedes, RecedingIsRight DEF Recedes
  <2>2. ui' = w
    BY <1>13 DEF AlertStarts, Step
  <2> HIDE DEF a
  <2>3. t \in [Page \cup {"camera"} -> Target \cup {Nothing}] /\ t["camera"] = Nothing
    BY <2>1 DEF Ui
  <2> HIDE DEF t
  <2>4. /\ w \in Ui /\ w.page = a.page /\ w.panels = a.panels /\ w.menu = a.menu /\ ~w.saver
        /\ w.reboot = a.reboot /\ w.dragging = a.dragging /\ w.touch = "up" /\ w.alert /\ w.target["camera"] = Nothing
    BY <2>1, <2>3 DEF Ui
  <2>5. OnePage(w) /\ OnePanel(w) /\ PhotosAlone(w) /\ SliderInHand(w, gesture)
    BY <2>1, <2>4 DEF Right, OnePage, OnePanel, PhotosAlone, SliderInHand, Up
  <2>. QED BY <2>1, <2>2, <2>4, <2>5 DEF Right
<1>14. CASE AlertEnds
  <2> DEFINE a == Awake(ui)
             w == [a EXCEPT !.alert = FALSE]
  <2>1. a \in Ui /\ Right(a, gesture) /\ ~a.saver /\ a.reboot = ui.reboot /\ a.panels = ui.panels
    <3>1. a \in Ui /\ Recedes(ui, a)
      BY <1>1, AwakeRecedes
    <3>2. Right(a, gesture)
      BY <1>1, <3>1, RecedingIsRight
    <3>. QED BY <1>1, <3>1, <3>2, AwakeFields
  <2>2. ui' = w /\ ("restart" \in a.panels => a.reboot)
    BY <1>14, <2>1 DEF AlertEnds, Step
  <2> HIDE DEF a
  <2>3. /\ w \in Ui /\ w.page = a.page /\ w.panels = a.panels /\ w.menu = a.menu /\ ~w.saver /\ w.latched = a.latched
        /\ w.reboot = a.reboot /\ w.dragging = a.dragging /\ w.touch = a.touch /\ w.target = a.target
    BY <2>1 DEF Ui
  <2>4. OnePage(w) /\ OnePanel(w) /\ PhotosAlone(w) /\ SliderInHand(w, gesture)
    BY <2>1, <2>2, <2>3 DEF Right, OnePage, OnePanel, PhotosAlone, SliderInHand, Up
  <2>. QED BY <2>1, <2>2, <2>3, <2>4 DEF Right
<1>15. CASE RebootFails
  <2>1. ui' = [ui EXCEPT !.reboot = FALSE, !.latched = FALSE] /\ ui.reboot
    BY <1>15 DEF RebootFails, Step
  <2>2. /\ ui' \in Ui /\ ui'.page = ui.page /\ ui'.panels = ui.panels /\ ui'.menu = ui.menu /\ ui'.saver = ui.saver
        /\ ui'.camera = ui.camera /\ ui'.touch = ui.touch /\ ui'.target = ui.target
    BY <1>1, <2>1 DEF Ui
  <2>3. ~ui'.latched /\ ~ui'.reboot /\ ui'.dragging = ui.dragging
    BY <1>1, <2>1 DEF Ui
  <2>4. OnePage(ui') /\ OnePanel(ui') /\ PhotosAlone(ui')
    BY <1>1, <2>2 DEF Right, OnePage, OnePanel, PhotosAlone, Up
  <2>5. SliderInHand(ui', gesture)
    BY <1>1, <2>1, <2>2, <2>3 DEF Right, SliderInHand
  <2>. QED BY <1>1, <2>2, <2>3, <2>4, <2>5 DEF Right
<1>. QED BY <1>4, <1>5, <1>6, <1>7, <1>8, <1>9, <1>10, <1>11, <1>12, <1>13, <1>14, <1>15 DEF FrameStep

-----------------------------------------------------------------------------
LEMMA DownAndMoveAskForNothing ==
  ASSUME DisplayInv, \/ DownOnSaver \/ DownOnPage \/ DownOnToken \/ DownOnDesktop \/ DownOnPanel
                     \/ MoveOnPage \/ MoveOnDesktop \/ SlideToEnd \/ SlideBack \/ SlideOff
  PROVE  ui'.reboot => ui.reboot
<1>1. ui \in Ui
  BY DEF DisplayInv, Right
<1> DEFINE a == Awake(ui)
           t == Touch(ui)
<1>2. a \in Ui /\ a.reboot = ui.reboot
  BY <1>1, AwakeRecedes, AwakeFields
<1>3. t \in Ui /\ t.reboot = ui.reboot
  <2>1. PICK p : t = [a EXCEPT !.touch = "down", !.target["camera"] = p] /\ p \in Target \cup {Nothing}
    BY <1>2 DEF Touch, Ui
  <2> HIDE DEF a, t
  <2>. QED BY <1>2, <2>1 DEF Ui
<1>4. CASE DownOnSaver \/ DownOnToken
  <2>1. ui' = a \/ \E p : ui' = [a EXCEPT !.panels = p]
    BY <1>4 DEF DownOnSaver, DownOnToken, Step
  <2> HIDE DEF a
  <2>. QED BY <1>2, <2>1 DEF Ui
<1>5. CASE MoveOnPage \/ MoveOnDesktop
  BY <1>1, <1>5 DEF MoveOnPage, MoveOnDesktop, Step, Ui
<1>6. CASE SlideToEnd \/ SlideBack \/ SlideOff
  <2>1. \/ ui' = [ui EXCEPT !.touch = "moved", !.latched = TRUE]
        \/ ui' = [ui EXCEPT !.touch = "moved", !.latched = FALSE]
        \/ ui' = [ui EXCEPT !.touch = "moved", !.dragging = FALSE]
    BY <1>6 DEF SlideToEnd, SlideBack, SlideOff
  <2>2. CASE ui' = [ui EXCEPT !.touch = "moved", !.latched = TRUE]
    BY <1>1, <2>2 DEF Ui
  <2>3. CASE ui' = [ui EXCEPT !.touch = "moved", !.latched = FALSE]
    BY <1>1, <2>3 DEF Ui
  <2>4. CASE ui' = [ui EXCEPT !.touch = "moved", !.dragging = FALSE]
    BY <1>1, <2>4 DEF Ui
  <2>. QED BY <2>1, <2>2, <2>3, <2>4
<1>7. CASE DownOnPage
  <2>1. \E target : ui' = [t EXCEPT !.target[Front(ui)] = target]
    BY <1>7 DEF DownOnPage
  <2> HIDE DEF t
  <2>. QED BY <1>3, <2>1 DEF Ui
<1>8. CASE DownOnDesktop
  <2>1. \/ ui' = t \/ \E target : ui' = [t EXCEPT !.target["camera"] = target]
        \/ \E panel \in Panel : ui' = PanelBegun(t, panel)
    BY <1>8 DEF DownOnDesktop
  <2> HIDE DEF t
  <2>2. \A panel : PanelBegun(t, panel).reboot => t.reboot
    BY <1>3 DEF PanelBegun, Ui
  <2>3. \A target : [t EXCEPT !.target["camera"] = target].reboot = t.reboot
    BY <1>3 DEF Ui
  <2>. QED BY <1>3, <2>1, <2>2, <2>3
<1>9. CASE DownOnPanel
  <2>1. \/ ui' = t \/ ui' = [t EXCEPT !.dragging = TRUE, !.latched = FALSE]
        \/ \E panel \in Panel : ui' = PanelEnded(a, panel)
    BY <1>9 DEF DownOnPanel, Step
  <2> HIDE DEF a, t
  <2>2. \A panel \in Panel : PanelEnded(a, panel).reboot = a.reboot
    BY <1>2, PanelEndedRecedes DEF Recedes
  <2>3. [t EXCEPT !.dragging = TRUE, !.latched = FALSE].reboot = t.reboot
    BY <1>3 DEF Ui
  <2>. QED BY <1>2, <1>3, <2>1, <2>2, <2>3
<1>. QED BY <1>4, <1>5, <1>6, <1>7, <1>8, <1>9

LEMMA NextDisplayInv ==
  DisplayInv /\ [DisplayNext]_displayVars =>
    DisplayInv' /\ (ui'.reboot /\ ~ui.reboot => gesture' = "end")
<1> SUFFICES ASSUME DisplayInv, [DisplayNext]_displayVars
             PROVE  DisplayInv' /\ (ui'.reboot /\ ~ui.reboot => gesture' = "end")
  OBVIOUS
<1>1. CASE UNCHANGED displayVars
  BY <1>1 DEF displayVars, DisplayInv, Right, OnePage, OnePanel, PhotosAlone, SliderInHand, Up
<1>2. CASE TouchStep
  BY <1>2, DownKeepsInv, MoveKeepsInv, UpKeepsInv, MenuKeepsInv, DownAndMoveAskForNothing DEF TouchStep
<1>3. CASE Command
  BY <1>3, CommandKeepsInv
<1>4. CASE FrameStep
  BY <1>4, FrameKeepsInv
<1>. QED BY <1>1, <1>2, <1>3, <1>4 DEF DisplayNext

(* The inductive invariant holds of every state of the display.               *)
THEOREM DisplayInvariant == DisplaySpec => []DisplayInv
<1>1. DisplayInv /\ [DisplayNext]_displayVars => DisplayInv'
  BY NextDisplayInv
<1>. QED BY InitDisplayInv, <1>1, PTL DEF DisplaySpec

(* OneThingInFront, for any application pages: photos, pages and panels never *)
(* cover what is in use, and each excludes its like.                          *)
THEOREM OneIsInFront == DisplaySpec => []OneThingInFront
<1>1. DisplayInv => OneThingInFront
  BY Fronts DEF DisplayInv, Right, OnePage, OnePanel, PhotosAlone, OneThingInFront
<1>. QED BY <1>1, DisplayInvariant, PTL

(* RebootIsDeliberate, for any application pages: a reboot follows only the   *)
(* drag of the finger that is lifted, from the start of the rail to its end.  *)
THEOREM RebootsAreDeliberate == DisplaySpec => RebootIsDeliberate
<1>1. DisplayInv /\ [DisplayNext]_displayVars => [ui'.reboot /\ ~ui.reboot => gesture' = "end"]_displayVars
  BY NextDisplayInv
<1>. QED BY <1>1, DisplayInvariant, PTL DEF DisplaySpec, RebootIsDeliberate

------------------------------------------------------------------------------
(* The applications of the workshop.                                        *)

(* The plan and its permissions: an application past its draft declares what  *)
(* its plan requires, and an enabled one was granted all it declares.         *)
PlanInv ==
  /\ plan # <<>> => plan \in Seq(Nodes) /\ Valid(plan)
  /\ appStatus # "draft" => plan # <<>> /\ declared = Required(plan)
  /\ appStatus = "enabled" => granted = declared
  /\ appStatus = "draft" => session = "off"

(* The answers the host gave an application.                                  *)
CallInv == PlanInv /\ CallsAreCovered

(* Three tables in two files: the capability each call of the runtime is      *)
(* authorized for is the one validation derives from the node that makes it.  *)
LEMMA TablesAgree ==
  /\ \A m \in {"ui.present", "storage.put", "notifications.show", "vision.detect",
               "assistant.query", "tasks.create"} :
       m \in DOMAIN NodeCapability /\ MethodCapability[m] = NodeCapability[m]
  /\ "counter.increment" \in DOMAIN NodeCapability
  /\ MethodCapability["storage.put"] = NodeCapability["counter.increment"]
  /\ "camera.stream" \in DOMAIN NodeCapability
  /\ \A m \in CameraMethods : MethodCapability[m] = NodeCapability["camera.stream"]
  /\ "microphone.stream" \in DOMAIN NodeCapability
  /\ \A m \in MicrophoneMethods : MethodCapability[m] = NodeCapability["microphone.stream"]
<1>1. DOMAIN NodeCapability =
        {"camera.stream", "microphone.stream", "vision.detect", "counter.increment",
         "assistant.query", "ui.present", "notifications.show", "storage.put",
         "tasks.create"}
  BY DEF NodeCapability
<1>2. /\ MethodCapability["ui.present"] = "ui.surface"
      /\ MethodCapability["storage.put"] = "storage.app"
      /\ MethodCapability["notifications.show"] = "notifications.local"
      /\ MethodCapability["vision.detect"] = "vision.inference"
      /\ MethodCapability["assistant.query"] = "assistant.query"
      /\ MethodCapability["tasks.create"] = "tasks.submit"
  BY DEF MethodCapability, CameraMethods, MicrophoneMethods
<1>3. /\ NodeCapability["ui.present"] = "ui.surface"
      /\ NodeCapability["storage.put"] = "storage.app"
      /\ NodeCapability["counter.increment"] = "storage.app"
      /\ NodeCapability["notifications.show"] = "notifications.local"
      /\ NodeCapability["vision.detect"] = "vision.inference"
      /\ NodeCapability["assistant.query"] = "assistant.query"
      /\ NodeCapability["tasks.create"] = "tasks.submit"
      /\ NodeCapability["camera.stream"] = "camera.stream"
      /\ NodeCapability["microphone.stream"] = "microphone.stream"
  BY DEF NodeCapability
<1>4. \A m \in CameraMethods : MethodCapability[m] = "camera.stream"
  <2>1. /\ MethodCapability["camera.stream.open"] = "camera.stream"
        /\ MethodCapability["camera.stream.close"] = "camera.stream"
    BY DEF MethodCapability, CameraMethods, MicrophoneMethods
  <2> QED
    BY <2>1 DEF CameraMethods
<1>5. \A m \in MicrophoneMethods : MethodCapability[m] = "microphone.stream"
  BY DEF MethodCapability, CameraMethods, MicrophoneMethods
<1> QED
  BY <1>1, <1>2, <1>3, <1>4, <1>5

(* What a node of the plan needs is among what its manifest declares.         *)
LEMMA NodesAreCovered ==
  ASSUME NEW p, NEW i \in DOMAIN p, p[i].name \in DOMAIN NodeCapability
  PROVE  NodeCapability[p[i].name] \in Required(p)
BY DEF Required

(* A call for the capability of a node of the plan is not refused for it.     *)
LEMMA CallIsCovered ==
  ASSUME PlanInv, session # "off", NEW m, NEW a, NEW i \in DOMAIN plan,
         plan[i].name \in DOMAIN NodeCapability,
         MethodCapability[m] = NodeCapability[plan[i].name], Calls(m, a)
  PROVE  CallsAreCovered'
<1>1. declared = Required(plan) /\ (appStatus = "enabled" => granted = declared)
  BY DEF PlanInv
<1>2. MethodCapability[m] \in declared
  BY <1>1, NodesAreCovered
<1>3. Decision(m, a) \in {"app_not_enabled", "unsafe_path", "ok"}
  BY <1>1, <1>2 DEF Decision
<1> QED
  BY <1>3 DEF Calls, CallsAreCovered

(* The first node of the plan of an application that was launched.            *)
LEMMA SourceIsFirst ==
  ASSUME PlanInv, session # "off"
  PROVE  plan \in Seq(Nodes) /\ 1 \in DOMAIN plan
<1>1. plan \in Seq(Nodes) /\ Valid(plan)
  BY DEF PlanInv
<1> QED
  BY <1>1 DEF Valid

LEMMA PacksPlan == PlanInv /\ Packs => PlanInv'
<1> SUFFICES ASSUME PlanInv, Packs PROVE PlanInv'
  OBVIOUS
<1>1. PICK n \in 1..MaxNodes : plan' \in [1..n -> Nodes]
  BY DEF Packs
<1>2. n \in Nat /\ plan' \in Seq(Nodes)
  BY <1>1, WorkshopAppAssumption
<1>3. Valid(plan')
  BY DEF Packs
<1>4. Len(plan') >= 2
  BY <1>3 DEF Valid
<1>5. plan' # <<>>
  BY <1>4
<1>6. PICK w : w = plan'
  OBVIOUS
<1>7. declared' = Required(w) /\ Valid(w) /\ w \in Seq(Nodes) /\ w # <<>>
  BY <1>2, <1>3, <1>5, <1>6 DEF Packs
<1> QED
  BY <1>6, <1>7 DEF PlanInv, Packs, Valid, Required, Named, HearsSound

LEMMA StepPlan ==
  ASSUME PlanInv, [AppNext]_appVars
  PROVE  PlanInv'
<1>1. CASE Packs
  BY <1>1, PacksPlan
<1>2. CASE Approves \/ Disables
  BY <1>2 DEF PlanInv, Approves, Disables, Required, Valid, Named, HearsSound
<1>3. CASE UNCHANGED appVars
  BY <1>3 DEF PlanInv, appVars, Required, Valid, Named, HearsSound
<1>4. CASE Launches
  BY <1>4 DEF PlanInv, Launches, registration, Required, Valid, Named, HearsSound
<1>5. CASE OpensSource \/ NextFrame \/ ClosesSource \/ Detects \/ Levels \/ CountsSound
             \/ CountsOther \/ Reports
  <2>1. session # "off" /\ UNCHANGED registration
    BY <1>5 DEF OpensSource, NextFrame, ClosesSource, Detects, Levels, CountsSound,
                CountsOther, Reports, AtNode
  <2> QED
    BY <2>1 DEF PlanInv, registration, Required, Valid, Named, HearsSound
<1> QED
  BY <1>1, <1>2, <1>3, <1>4, <1>5 DEF AppNext

------------------------------------------------------------------------------
LEMMA OpensCovered == CallInv /\ OpensSource => CallsAreCovered'
<1> SUFFICES ASSUME CallInv, OpensSource PROVE CallsAreCovered'
  OBVIOUS
<1>1. PlanInv /\ session # "off" /\ 1 \in DOMAIN plan
  BY SourceIsFirst DEF CallInv, OpensSource
<1>2. CASE plan[1].name \notin Streams
  BY <1>2 DEF OpensSource, CallInv, CallsAreCovered
<1>3. CASE plan[1].name = "camera.stream"
  <2>1. Calls("camera.stream.open", "-")
    BY <1>3 DEF OpensSource, Streams, ThenIfOk
  <2> QED
    BY <1>1, <1>3, <2>1, CallIsCovered, TablesAgree DEF CameraMethods
<1>4. CASE plan[1].name = "microphone.stream"
  <2>1. Calls("microphone.stream.open", "-")
    BY <1>4 DEF OpensSource, Streams, ThenIfOk
  <2> QED
    BY <1>1, <1>4, <2>1, CallIsCovered, TablesAgree DEF MicrophoneMethods
<1> QED
  BY <1>2, <1>3, <1>4 DEF Streams

LEMMA ClosesCovered == CallInv /\ ClosesSource => CallsAreCovered'
<1> SUFFICES ASSUME CallInv, ClosesSource PROVE CallsAreCovered'
  OBVIOUS
<1>1. PlanInv /\ session # "off" /\ 1 \in DOMAIN plan
  BY SourceIsFirst DEF CallInv, ClosesSource
<1>2. CASE plan[1].name \notin Streams
  BY <1>2 DEF ClosesSource, CallInv, CallsAreCovered
<1>3. CASE plan[1].name = "camera.stream"
  <2>1. Calls("camera.stream.close", "-")
    BY <1>3 DEF ClosesSource, Streams, ThenIfOk
  <2> QED
    BY <1>1, <1>3, <2>1, CallIsCovered, TablesAgree DEF CameraMethods
<1>4. CASE plan[1].name = "microphone.stream"
  <2>1. Calls("microphone.stream.close", "-")
    BY <1>4 DEF ClosesSource, Streams, ThenIfOk
  <2> QED
    BY <1>1, <1>4, <2>1, CallIsCovered, TablesAgree DEF MicrophoneMethods
<1> QED
  BY <1>2, <1>3, <1>4 DEF Streams

LEMMA FrameCovered == CallInv /\ NextFrame => CallsAreCovered'
<1> SUFFICES ASSUME CallInv, NextFrame PROVE CallsAreCovered'
  OBVIOUS
<1>1. PlanInv /\ session # "off" /\ 1 \in DOMAIN plan
  BY SourceIsFirst DEF CallInv, NextFrame
<1>2. CASE UNCHANGED answer
  BY <1>2 DEF CallInv, CallsAreCovered
<1>3. CASE plan[1].name = "microphone.stream" /\ Calls("microphone.stream.read", "-")
  BY <1>1, <1>3, CallIsCovered, TablesAgree DEF MicrophoneMethods
<1> QED
  BY <1>2, <1>3 DEF NextFrame, ThenIfOk

(* The nodes that call the host, each under the name of its method, but for   *)
(* the counter, which keeps its value in a file.                              *)
LEMMA NodeCovered ==
  ASSUME CallInv, Detects \/ CountsSound \/ CountsOther \/ Reports
  PROVE  CallsAreCovered'
<1>1. PlanInv /\ session # "off" /\ node \in DOMAIN plan
  BY DEF CallInv, Detects, CountsSound, CountsOther, Reports, AtNode
<1>2. CASE UNCHANGED answer
  BY <1>2 DEF CallInv, CallsAreCovered
<1>3. CASE plan[node].name = "vision.detect" /\ Calls("vision.detect", "-")
  BY <1>1, <1>3, CallIsCovered, TablesAgree
<1>4. CASE plan[node].name = "counter.increment" /\ Calls("storage.put", "file")
  BY <1>1, <1>4, CallIsCovered, TablesAgree
<1>5. CASE /\ plan[node].name \in {"assistant.query", "ui.present", "storage.put",
                                   "tasks.create", "notifications.show"}
           /\ Calls(plan[node].name, plan[node].arg)
  BY <1>1, <1>5, CallIsCovered, TablesAgree
<1>6. CASE Detects
  BY <1>3, <1>6 DEF Detects, AtNode, ThenIfOk
<1>7. CASE CountsSound
  BY <1>2, <1>4, <1>7 DEF CountsSound, AtNode, ThenIfOk
<1>8. CASE CountsOther
  BY <1>2, <1>4, <1>8 DEF CountsOther, AtNode, ThenIfOk
<1>9. CASE Reports
  BY <1>2, <1>5, <1>9 DEF Reports, ThenIfOk
<1> QED
  BY <1>6, <1>7, <1>8, <1>9

LEMMA StepCovered ==
  ASSUME CallInv, [AppNext]_appVars
  PROVE  CallsAreCovered'
<1>1. CASE Packs \/ Approves \/ Disables \/ Launches \/ Levels \/ UNCHANGED appVars
  <2>1. UNCHANGED answer
    BY <1>1 DEF Packs, Approves, Disables, Launches, Levels, appVars
  <2> QED
    BY <2>1 DEF CallInv, CallsAreCovered
<1> QED
  BY <1>1, OpensCovered, ClosesCovered, FrameCovered, NodeCovered DEF AppNext

(* What validation derives is what execution asks for, whatever plan of       *)
(* whatever length was approved, and whatever becomes of it: no call of an    *)
(* enabled application is refused for want of a capability                    *)
(* (required_capabilities, authorize_request, the calls of the runtime).      *)
THEOREM CallsAreAlwaysCovered == AppSpec => []CallsAreCovered
<1>1. AppInit => CallInv
  <2> SUFFICES ASSUME AppInit PROVE CallInv
    OBVIOUS
  <2> QED
    BY DEF AppInit, CallInv, PlanInv, CallsAreCovered
<1>2. CallInv /\ [AppNext]_appVars => CallInv'
  BY StepPlan, StepCovered DEF CallInv
<1>3. CallInv => CallsAreCovered
  BY DEF CallInv
<1> QED
  BY <1>1, <1>2, <1>3, PTL DEF AppSpec

------------------------------------------------------------------------------
(* What a frame heard is what the last level measured; past an audio.level of *)
(* the plan a frame has heard something; a sound that is not remembered yet   *)
(* was not counted yet; and a draft has not run.                              *)
Ears ==
  /\ count \in [1..MaxNodes -> Nat] /\ onsets \in Nat
  /\ presence \in BOOLEAN /\ before \in BOOLEAN

Heard == heard \in {"-", IF before THEN "sound" ELSE "quiet"}

LevelWasHeard ==
  session = "frame" /\ node \in DOMAIN plan =>
    ((\E i \in Named(plan, "audio.level") : i < node) => heard # "-")

Uncounted == LevelFirst /\ before /\ ~presence => \A k \in DOMAIN count : count[k] < onsets

Untouched == appStatus = "draft" => ~before /\ \A k \in DOMAIN count : count[k] = 0

EarInv ==
  /\ PlanInv /\ node \in Nat /\ Ears /\ Heard /\ LevelWasHeard /\ Untouched
  /\ Uncounted /\ CountsOnlyOnsets

(* In an application past its draft the plan does not change, nor do the      *)
(* counters it has.                                                           *)
LEMMA PlanStays ==
  ASSUME UNCHANGED plan
  PROVE  LevelFirst' = LevelFirst /\ Named(plan, "audio.level")' = Named(plan, "audio.level")
BY DEF LevelFirst, Named

(* The node that follows is past one audio.level more if this one was one,    *)
(* and the frame has heard it then.                                           *)
LEMMA NextHeard ==
  ASSUME EarInv, session = "frame", node \in DOMAIN plan, node' = node + 1, UNCHANGED plan,
         heard' = "-" => heard = "-" /\ plan[node].name # "audio.level"
  PROVE  LevelWasHeard'
<1> SUFFICES ASSUME NEW i \in Named(plan, "audio.level"), i < node', heard' = "-"
             PROVE  FALSE
  BY PlanStays DEF LevelWasHeard
<1>1. i \in DOMAIN plan /\ plan[i].name = "audio.level" /\ node \in Nat
  BY DEF Named, EarInv
<1>2. plan \in Seq(Nodes)
  BY <1>1 DEF EarInv, PlanInv
<1>3. i \in Nat
  BY <1>1, <1>2
<1>4. i # node
  BY <1>1
<1>5. i < node
  BY <1>1, <1>3, <1>4
<1> QED
  BY <1>5 DEF EarInv, LevelWasHeard

(* Outside a frame's nodes there is nothing to have been heard.               *)
LEMMA ElsewhereHeard ==
  ASSUME EarInv, UNCHANGED plan, session' # "frame" \/ node' = Len(plan) + 1
  PROVE  LevelWasHeard'
<1>1. plan = <<>> \/ plan \in Seq(Nodes)
  BY DEF EarInv, PlanInv
<1>2. Len(plan) + 1 \notin DOMAIN plan
  BY <1>1
<1> QED
  BY <1>2 DEF LevelWasHeard

(* A frame starts at the second node: the first is its source, and no level.  *)
LEMMA FrameStarts ==
  ASSUME EarInv, UNCHANGED plan, node' = 2, plan # <<>>
  PROVE  LevelWasHeard'
<1>1. plan \in Seq(Nodes) /\ Valid(plan)
  BY DEF EarInv, PlanInv
<1>2. plan[1] \in Sources
  BY <1>1 DEF Valid
<1>3. plan[1].name # "audio.level"
  BY <1>2 DEF Sources, N
<1>4. \A i \in DOMAIN plan : i \in Nat /\ (i < 2 => i = 1)
  BY <1>1
<1>5. \A i \in Named(plan, "audio.level") : ~(i < 2)
  BY <1>3, <1>4 DEF Named
<1> QED
  BY <1>5, PlanStays DEF LevelWasHeard

(* Most steps touch nothing that counts.                                      *)
LEMMA CountsStay ==
  ASSUME EarInv, UNCHANGED <<plan, presence, count, onsets, before>>
  PROVE  Ears' /\ Uncounted' /\ CountsOnlyOnsets'
<1>1. LevelFirst' = LevelFirst
  BY PlanStays
<1> QED
  BY <1>1 DEF EarInv, Ears, Uncounted, CountsOnlyOnsets

LEMMA RegistersEars ==
  ASSUME EarInv, Packs \/ Approves \/ Disables \/ Launches \/ UNCHANGED appVars
  PROVE  EarInv'
<1>1. PlanInv'
  BY StepPlan DEF EarInv, AppNext
<1>2. CASE Packs
  <2>1. /\ ~before /\ \A k \in DOMAIN count : count[k] = 0
        /\ session = "off" /\ UNCHANGED <<session, node, ears>>
    BY <1>2 DEF Packs, EarInv, Untouched, PlanInv
  <2>2. node' \in Nat /\ Ears' /\ Heard' /\ LevelWasHeard' /\ Untouched' /\ Uncounted'
    BY <2>1 DEF ears, EarInv, Ears, Heard, LevelWasHeard, Untouched, Uncounted
  <2>3. CountsOnlyOnsets'
    BY <2>1 DEF ears, EarInv, Ears, CountsOnlyOnsets
  <2> QED
    BY <1>1, <2>2, <2>3 DEF EarInv
<1>3. CASE Approves \/ Disables \/ Launches \/ UNCHANGED appVars
  <2>1. /\ UNCHANGED <<plan, node, ears>> /\ (appStatus' = "draft" => appStatus = "draft")
        /\ (UNCHANGED session \/ session' # "frame")
    BY <1>3 DEF Approves, Disables, Launches, appVars, registration, ears
  <2>2. Ears' /\ Uncounted' /\ CountsOnlyOnsets'
    BY <2>1, CountsStay DEF ears
  <2>3. node' \in Nat /\ Heard' /\ Untouched'
    BY <2>1 DEF ears, EarInv, Heard, Untouched
  <2>4. LevelWasHeard'
    BY <2>1, PlanStays DEF ears, EarInv, LevelWasHeard
  <2> QED
    BY <1>1, <2>2, <2>3, <2>4 DEF EarInv
<1> QED
  BY <1>2, <1>3

(* The source's calls, and the frames they start.                             *)
LEMMA SourceEars ==
  ASSUME EarInv, OpensSource \/ NextFrame \/ ClosesSource
  PROVE  EarInv'
<1>1. PlanInv'
  BY StepPlan DEF EarInv, AppNext
<1>2. session # "off" /\ UNCHANGED <<registration, presence, count, onsets, before>>
  BY DEF OpensSource, NextFrame, ClosesSource, ears
<1>3. UNCHANGED plan /\ plan # <<>> /\ Len(plan) \in Nat /\ appStatus' = appStatus
  BY <1>2 DEF registration, EarInv, PlanInv
<1>4. Ears' /\ Uncounted' /\ CountsOnlyOnsets'
  BY <1>2, <1>3, CountsStay
<1>5. Heard' /\ Untouched'
  BY <1>2, <1>3 DEF OpensSource, NextFrame, ClosesSource, ears, Freshly, EarInv, Heard,
                    Untouched
<1>6. \/ session' # "frame" /\ UNCHANGED node
      \/ node' = Len(plan) + 1
      \/ node' = 2
  BY DEF OpensSource, NextFrame, ClosesSource, ThenIfOk, Raises, BeginsFrame
<1>7. node' \in Nat
  BY <1>3, <1>6 DEF EarInv
<1>8. LevelWasHeard'
  BY <1>3, <1>6, ElsewhereHeard, FrameStarts
<1> QED
  BY <1>1, <1>4, <1>5, <1>7, <1>8 DEF EarInv

(* A node goes to the next, or its call raises.                               *)
LEMMA NodeGoes ==
  ASSUME EarInv, session = "frame", node \in DOMAIN plan, UNCHANGED plan,
         Raises \/ NextNode, heard' = "-" => heard = "-" /\ plan[node].name # "audio.level"
  PROVE  node' \in Nat /\ LevelWasHeard'
<1>1. CASE Raises
  BY <1>1, ElsewhereHeard DEF Raises, EarInv
<1>2. CASE NextNode
  BY <1>2, NextHeard DEF NextNode, EarInv
<1> QED
  BY <1>1, <1>2

LEMMA QuietNodeEars ==
  ASSUME EarInv, Detects \/ CountsOther \/ Reports
  PROVE  EarInv'
<1>1. PlanInv'
  BY StepPlan DEF EarInv, AppNext
<1>2. /\ session = "frame" /\ node \in DOMAIN plan /\ (Raises \/ NextNode)
      /\ plan[node].name # "audio.level"
  BY DEF Detects, CountsOther, Reports, AtNode, ThenIfOk
<1>3. UNCHANGED <<registration, heard, presence, count, onsets, before>>
  BY DEF Detects, CountsOther, Reports, ears
<1>4. UNCHANGED <<plan, appStatus>>
  BY <1>3 DEF registration
<1>5. Ears' /\ Uncounted' /\ CountsOnlyOnsets'
  BY <1>3, <1>4, CountsStay
<1>6. Heard' /\ Untouched'
  BY <1>3, <1>4 DEF EarInv, Heard, Untouched
<1>7. node' \in Nat /\ LevelWasHeard'
  BY <1>2, <1>3, <1>4, NodeGoes
<1> QED
  BY <1>1, <1>5, <1>6, <1>7 DEF EarInv

(* A level that rises makes room for one more count of each counter.          *)
LEMMA LevelEars == EarInv /\ Levels => EarInv'
<1> SUFFICES ASSUME EarInv, Levels PROVE EarInv'
  OBVIOUS
<1>1. PlanInv'
  BY StepPlan DEF EarInv, AppNext
<1>2. /\ session = "frame" /\ node \in DOMAIN plan /\ NextNode
      /\ heard' \in {"quiet", "sound"} /\ before' = (heard' = "sound")
      /\ UNCHANGED <<plan, appStatus, presence, count>>
  BY DEF Levels, AtNode, registration
<1>3. node' \in Nat /\ LevelWasHeard'
  BY <1>2, NodeGoes
<1>4. LevelFirst' = LevelFirst
  BY <1>2, PlanStays
<1>5. Heard'
  BY <1>2 DEF Heard
<1>6. Untouched'
  <2>1. appStatus # "draft"
    BY <1>2 DEF EarInv, PlanInv
  <2> QED
    BY <1>2, <2>1 DEF Untouched
<1>7. /\ onsets \in Nat /\ count \in [1..MaxNodes -> Nat] /\ before \in BOOLEAN
      /\ presence \in BOOLEAN /\ before' \in BOOLEAN
  BY <1>2 DEF EarInv, Ears
<1>8. CASE before' /\ ~before
  <2>1. onsets' = onsets + 1
    BY <1>8 DEF Levels
  <2>2. LevelFirst => \A k \in DOMAIN count : count[k] <= onsets
    BY DEF EarInv, CountsOnlyOnsets
  <2>3. LevelFirst => \A k \in DOMAIN count : count[k] < onsets'
    BY <1>7, <2>1, <2>2
  <2>4. Ears'
    BY <1>2, <1>7, <2>1 DEF Ears
  <2>5. Uncounted' /\ CountsOnlyOnsets'
    BY <1>2, <1>4, <1>7, <2>1, <2>3 DEF Uncounted, CountsOnlyOnsets
  <2> QED
    BY <1>1, <1>3, <1>5, <1>6, <2>4, <2>5 DEF EarInv
<1>9. CASE ~(before' /\ ~before)
  <2>1. onsets' = onsets
    BY <1>9 DEF Levels
  <2>2. before' => before
    BY <1>9
  <2>3. Ears'
    BY <1>2, <1>7, <2>1 DEF Ears
  <2>4. Uncounted' /\ CountsOnlyOnsets'
    BY <1>2, <1>4, <2>1, <2>2 DEF EarInv, Uncounted, CountsOnlyOnsets
  <2> QED
    BY <1>1, <1>3, <1>5, <1>6, <2>3, <2>4 DEF EarInv
<1> QED
  BY <1>8, <1>9

(* A counter that stands after a level remembers what that level heard: it    *)
(* counts a sound it does not remember, which no counter has counted, and     *)
(* forgets it only in silence.                                                *)
LEMMA SoundEars == EarInv /\ CountsSound => EarInv'
<1> SUFFICES ASSUME EarInv, CountsSound PROVE EarInv'
  OBVIOUS
<1>1. PlanInv'
  BY StepPlan DEF EarInv, AppNext
<1>2. /\ session = "frame" /\ node \in DOMAIN plan /\ (Raises \/ NextNode)
      /\ plan[node].name = "counter.increment" /\ plan[node].arg = "sound"
      /\ UNCHANGED <<plan, appStatus, heard, onsets, before>>
      /\ presence' = (heard = "sound")
  BY DEF CountsSound, AtNode, ThenIfOk, registration
<1>3. node' \in Nat /\ LevelWasHeard'
  BY <1>2, NodeGoes
<1>4. LevelFirst' = LevelFirst
  BY <1>2, PlanStays
<1>5. Heard'
  BY <1>2 DEF EarInv, Heard
<1>6. Untouched'
  <2>1. appStatus # "draft"
    BY <1>2 DEF EarInv, PlanInv
  <2> QED
    BY <1>2, <2>1 DEF Untouched
<1>7. /\ onsets \in Nat /\ count \in [1..MaxNodes -> Nat] /\ before \in BOOLEAN
      /\ presence \in BOOLEAN /\ presence' \in BOOLEAN
  BY <1>2 DEF EarInv, Ears
<1>8. LevelFirst => heard # "-"
  <2> SUFFICES ASSUME LevelFirst PROVE heard # "-"
    OBVIOUS
  <2>1. node \in Named(plan, "counter.increment")
    BY <1>2 DEF Named
  <2>2. \E i \in Named(plan, "audio.level") : i < node
    BY <1>2, <2>1 DEF LevelFirst
  <2> QED
    BY <1>2, <2>2 DEF EarInv, LevelWasHeard
<1>9. LevelFirst => ~(before' /\ ~presence')
  <2>1. heard = "quiet" => ~before
    BY DEF EarInv, Heard
  <2> QED
    BY <1>2, <1>8, <2>1 DEF EarInv, Heard
<1>10. CASE heard = "sound" /\ ~presence
  <2>1. count' = [count EXCEPT ![node] = @ + 1]
    BY <1>10 DEF CountsSound
  <2>2. before
    BY <1>10 DEF EarInv, Heard
  <2>3. LevelFirst => \A k \in DOMAIN count : count[k] < onsets
    BY <1>10, <2>2 DEF EarInv, Uncounted
  <2>a. \A k \in DOMAIN count : count'[k] = IF k = node THEN count[k] + 1 ELSE count[k]
    BY <2>1
  <2>b. DOMAIN count' = 1..MaxNodes /\ DOMAIN count = 1..MaxNodes
    BY <1>7, <2>1
  <2>4. /\ DOMAIN count' = DOMAIN count /\ count' \in [1..MaxNodes -> Nat]
        /\ \A k \in DOMAIN count : count'[k] <= count[k] + 1
    <3>1. \A k \in DOMAIN count : count[k] \in Nat
      BY <1>7
    <3>2. \A k \in DOMAIN count : count'[k] \in Nat /\ count'[k] <= count[k] + 1
      BY <2>a, <3>1
    <3> QED
      BY <2>1, <2>b, <3>2, <1>7
  <2>5. LevelFirst => \A k \in DOMAIN count' : count'[k] <= onsets
    BY <1>7, <2>3, <2>4
  <2>6. Ears'
    BY <1>2, <1>7, <2>4 DEF Ears
  <2>7. Uncounted' /\ CountsOnlyOnsets'
    BY <1>2, <1>4, <1>9, <2>5 DEF Uncounted, CountsOnlyOnsets
  <2> QED
    BY <1>1, <1>3, <1>5, <1>6, <2>6, <2>7 DEF EarInv
<1>11. CASE ~(heard = "sound" /\ ~presence)
  <2>1. count' = count
    BY <1>11 DEF CountsSound
  <2>2. Ears'
    BY <1>2, <1>7, <2>1 DEF Ears
  <2>3. Uncounted' /\ CountsOnlyOnsets'
    BY <1>2, <1>4, <1>9, <2>1 DEF EarInv, Uncounted, CountsOnlyOnsets
  <2> QED
    BY <1>1, <1>3, <1>5, <1>6, <2>2, <2>3 DEF EarInv
<1> QED
  BY <1>10, <1>11

(* No sound is counted twice by one counter, whatever the plan, as long as    *)
(* each counter of sounds stands after an audio.level (_counter and           *)
(* _audio_level of the pipeline).                                             *)
THEOREM SoundsAreCountedOnce == AppSpec => []CountsOnlyOnsets
<1>1. AppInit => EarInv
  <2> SUFFICES ASSUME AppInit PROVE EarInv
    OBVIOUS
  <2>1. PlanInv
    BY DEF AppInit, PlanInv
  <2>2. /\ node = 0 /\ heard = "-" /\ ~before /\ ~presence /\ before \in BOOLEAN
        /\ presence \in BOOLEAN /\ onsets = 0 /\ session = "off"
        /\ count = [i \in 1..MaxNodes |-> 0]
    BY DEF AppInit
  <2> QED
    BY <2>1, <2>2 DEF EarInv, Ears, Heard, LevelWasHeard, Untouched, Uncounted,
                      CountsOnlyOnsets
<1>2. EarInv /\ [AppNext]_appVars => EarInv'
  BY RegistersEars, SourceEars, QuietNodeEars, LevelEars, SoundEars DEF AppNext
<1>3. EarInv => CountsOnlyOnsets
  BY DEF EarInv
<1> QED
  BY <1>1, <1>2, <1>3, PTL DEF AppSpec

------------------------------------------------------------------------------
(* The packages of the workshop.                                            *)

(* Packages: what a maker packs, with the digests spelled out.                *)
Sums(m, a, entry) ==
  [f \in {"manifest.json", entry} |-> IF f = entry THEN <<"app", a>> ELSE <<"manifest", m>>]

Sealed(m, a, entry, key) ==
  {Member("manifest.json", <<"manifest", m>>), Member(entry, <<"app", a>>),
   Member("checksums.json", <<"checksums", Sums(m, a, entry)>>)}
  \cup (IF key = "none" THEN {}
        ELSE {Member("signature.json", <<"signature", key, Sums(m, a, entry)>>)})

Entries == {"app/main.json", "app/main.py"}

(* What a package holds under a name, of which it has one.                    *)
LEMMA ContentOfMember ==
  ASSUME NEW ms, MembersOK(ms), NEW x \in ms
  PROVE  Content(ms, x.file) = x.content /\ x.file \in Names(ms)
<1> DEFINE y == CHOOSE y \in ms : y.file = x.file
<1>1. y \in ms /\ y.file = x.file
  OBVIOUS
<1>2. y = x
  BY <1>1 DEF MembersOK
<1> QED
  BY <1>2 DEF Content, Names

LEMMA ArchiveIsSealed ==
  ASSUME NEW m, NEW a, NEW entry \in Entries, NEW key
  PROVE  Archive(m, a, entry, key) = Sealed(m, a, entry, key)
<1> DEFINE x == Member("manifest.json", <<"manifest", m>>)
           y == Member(entry, <<"app", a>>)
           files == {x, y}
<1>1. x.file = "manifest.json" /\ y.file = entry /\ entry # "manifest.json"
      /\ x.content = <<"manifest", m>> /\ y.content = <<"app", a>>
  BY DEF Member, Entries
<1> HIDE DEF x, y
<1>2. MembersOK(files)
  BY <1>1 DEF MembersOK
<1>3. /\ Content(files, "manifest.json") = <<"manifest", m>>
      /\ Content(files, entry) = <<"app", a>>
  BY <1>1, <1>2, ContentOfMember
<1>4. Names(files) = {"manifest.json", entry}
  BY <1>1 DEF Names
<1>5. [f \in Names(files) |-> Content(files, f)] = Sums(m, a, entry)
  BY <1>1, <1>3, <1>4 DEF Sums
<1> QED
  BY <1>5 DEF Archive, Sealed, x, y

(* The members of a sealed package, each under a name of its own.             *)
LEMMA SealedMembers ==
  ASSUME NEW m, NEW a, NEW entry \in Entries, NEW key
  PROVE  LET ms == Sealed(m, a, entry, key)
         IN /\ MembersOK(ms)
            /\ {"manifest.json", entry, "checksums.json"} \subseteq Names(ms)
            /\ Names(ms) \ {"signature.json"} = {"manifest.json", entry, "checksums.json"}
            /\ ("signature.json" \in Names(ms)) = (key # "none")
            /\ Content(ms, "manifest.json") = <<"manifest", m>>
            /\ Content(ms, entry) = <<"app", a>>
            /\ Content(ms, "checksums.json") = <<"checksums", Sums(m, a, entry)>>
            /\ key # "none" =>
                 Content(ms, "signature.json") = <<"signature", key, Sums(m, a, entry)>>
<1> DEFINE x == Member("manifest.json", <<"manifest", m>>)
           y == Member(entry, <<"app", a>>)
           z == Member("checksums.json", <<"checksums", Sums(m, a, entry)>>)
           s == Member("signature.json", <<"signature", key, Sums(m, a, entry)>>)
           ms == Sealed(m, a, entry, key)
<1>1. /\ x.file = "manifest.json" /\ x.content = <<"manifest", m>>
      /\ y.file = entry /\ y.content = <<"app", a>>
      /\ z.file = "checksums.json" /\ z.content = <<"checksums", Sums(m, a, entry)>>
      /\ s.file = "signature.json" /\ s.content = <<"signature", key, Sums(m, a, entry)>>
  BY DEF Member
<1>2. ms = {x, y, z} \cup (IF key = "none" THEN {} ELSE {s})
  BY DEF Sealed
<1>3. entry \notin {"manifest.json", "checksums.json", "signature.json"}
  BY DEF Entries
<1> HIDE DEF x, y, z, s, ms
<1>4. MembersOK(ms)
  BY <1>1, <1>2, <1>3 DEF MembersOK
<1>5. x \in ms /\ y \in ms /\ z \in ms /\ (key # "none" => s \in ms)
  BY <1>2
<1>6. Names(ms) = {"manifest.json", entry, "checksums.json"}
                    \cup (IF key = "none" THEN {} ELSE {"signature.json"})
  BY <1>1, <1>2 DEF Names
<1>7. /\ Content(ms, "manifest.json") = <<"manifest", m>>
      /\ Content(ms, entry) = <<"app", a>>
      /\ Content(ms, "checksums.json") = <<"checksums", Sums(m, a, entry)>>
      /\ key # "none" =>
           Content(ms, "signature.json") = <<"signature", key, Sums(m, a, entry)>>
  BY <1>1, <1>4, <1>5, ContentOfMember
<1> QED
  BY <1>3, <1>4, <1>6, <1>7 DEF ms

LEMMA SealedManifest ==
  ASSUME NEW m, NEW a, NEW entry \in Entries, NEW key
  PROVE  Content(Sealed(m, a, entry, key), "manifest.json") = <<"manifest", m>>
<1> DEFINE x == Member("manifest.json", <<"manifest", m>>)
<1>1. x \in Sealed(m, a, entry, key) /\ x.file = "manifest.json" /\ x.content = <<"manifest", m>>
  BY DEF Sealed, Member
<1>2. MembersOK(Sealed(m, a, entry, key))
  BY SealedMembers
<1> HIDE DEF x
<1> QED
  BY <1>1, <1>2, ContentOfMember

(* A package that was damaged on its way, each member one its maker packed or *)
(* garbled, and yet whose checksums agree, is but for its signature the one   *)
(* that was packed.                                                           *)
Travelled(ms, packed) == \A x \in ms : x \in packed \/ x = Member(x.file, <<"garbled">>)
Unsigned(ms) == {x \in ms : x.file # "signature.json"}

LEMMA ChecksumsTell ==
  ASSUME NEW m, NEW a, NEW entry \in Entries, NEW key, NEW ms,
         Travelled(ms, Sealed(m, a, entry, key)), MembersOK(ms), ChecksumsOK(ms)
  PROVE  Unsigned(ms) = Unsigned(Sealed(m, a, entry, key))
<1> DEFINE packed == Sealed(m, a, entry, key)
           sums == Sums(m, a, entry)
<1>1. /\ MembersOK(packed) /\ Content(packed, "checksums.json") = <<"checksums", sums>>
      /\ Names(packed) \ {"signature.json"} = {"manifest.json", entry, "checksums.json"}
  BY SealedMembers
<1>2. DOMAIN sums = {"manifest.json", entry} /\ \A f \in DOMAIN sums : sums[f] # <<"garbled">>
  BY DEF Sums
<1> HIDE DEF packed, sums
<1>3. PICK c \in ms : c.file = "checksums.json"
  BY DEF ChecksumsOK, Holds, Names
<1>4. Content(ms, "checksums.json") = c.content /\ c.content[1] = "checksums"
  BY <1>3, ContentOfMember DEF ChecksumsOK, Holds
<1>5. c \in packed
  <2>1. Member(c.file, <<"garbled">>).content[1] = "garbled"
    BY DEF Member
  <2> QED
    BY <1>4, <2>1 DEF Travelled, packed
<1>6. c.content = <<"checksums", sums>>
  BY <1>1, <1>3, <1>5, ContentOfMember
<1>7. /\ DOMAIN sums = Names(ms) \ {"checksums.json", "signature.json"}
      /\ \A f \in DOMAIN sums : Content(ms, f) = sums[f]
  BY <1>4, <1>6 DEF ChecksumsOK
<1>8. ASSUME NEW x \in Unsigned(ms) PROVE x \in packed
  <2>1. x \in ms /\ x.file # "signature.json"
    BY DEF Unsigned
  <2>2. CASE x.file = "checksums.json"
    BY <1>3, <1>5, <2>1, <2>2 DEF MembersOK
  <2>3. CASE x.file # "checksums.json"
    <3>1. Content(ms, x.file) = x.content /\ x.file \in Names(ms)
      BY <2>1, ContentOfMember
    <3>2. x.content # <<"garbled">>
      BY <1>2, <1>7, <2>1, <2>3, <3>1
    <3>3. Member(x.file, <<"garbled">>).content = <<"garbled">>
      BY DEF Member
    <3> QED
      BY <2>1, <3>2, <3>3 DEF Travelled, packed
  <2> QED
    BY <2>2, <2>3
<1>9. ASSUME NEW x \in Unsigned(packed) PROVE x \in ms
  <2>1. x \in packed /\ x.file # "signature.json" /\ x.file \in Names(packed)
    BY DEF Unsigned, Names
  <2>2. CASE x.file = "checksums.json"
    BY <1>1, <1>3, <1>5, <2>1, <2>2 DEF MembersOK
  <2>3. CASE x.file # "checksums.json"
    <3>1. x.file \in DOMAIN sums
      BY <1>1, <1>2, <2>1, <2>3
    <3>2. PICK y \in ms : y.file = x.file
      BY <1>7, <3>1 DEF Names
    <3>3. y \in packed
      BY <1>8, <2>1, <3>2 DEF Unsigned
    <3> QED
      BY <1>1, <2>1, <3>2, <3>3 DEF MembersOK
  <2> QED
    BY <2>2, <2>3
<1> QED
  BY <1>8, <1>9 DEF Unsigned, packed

(* The manifest of such a package is the one its maker packed.                *)
LEMMA ManifestKept ==
  ASSUME NEW m, NEW a, NEW entry \in Entries, NEW key, NEW ms, MembersOK(ms),
         Unsigned(ms) = Unsigned(Sealed(m, a, entry, key))
  PROVE  Content(ms, "manifest.json") = <<"manifest", m>>
<1> DEFINE x == Member("manifest.json", <<"manifest", m>>)
<1>1. x.file = "manifest.json" /\ x.content = <<"manifest", m>> /\ x \in Sealed(m, a, entry, key)
  BY DEF Member, Sealed
<1> HIDE DEF x
<1>2. x \in ms
  BY <1>1 DEF Unsigned
<1> QED
  BY <1>1, <1>2, ContentOfMember

------------------------------------------------------------------------------
(* Manifests, of which a range of a motor is a pair of numbers.               *)
RangesAreNumbers(m) ==
  /\ "permissions" \in DOMAIN m
  /\ "motor.pan_tilt" \in DOMAIN m.permissions =>
       LET l == m.permissions["motor.pan_tilt"]
       IN l.pan[1] \in Int /\ l.pan[2] \in Int /\ l.tilt[1] \in Int /\ l.tilt[2] \in Int

LEMMA WrittenPermissionsRanges ==
  ASSUME NEW p \in WrittenPermissions, "motor.pan_tilt" \in DOMAIN p
  PROVE  /\ p["motor.pan_tilt"].pan[1] \in Int /\ p["motor.pan_tilt"].pan[2] \in Int
         /\ p["motor.pan_tilt"].tilt[1] \in Int /\ p["motor.pan_tilt"].tilt[2] \in Int
<1>1. p \in [{"motor.pan_tilt"} -> Motors]
  <2> DEFINE A == [{"network.outbound"} -> Networks]
             B == [{"speaker.playback"} -> [volume : {Unset, 0, 1, MaxVolume + 1}]]
             C == UNION {[{c} -> [indicator : BOOLEAN]] : c \in {"camera.stream", "microphone.stream"}}
             D == UNION {[{c} -> {<<>>}] : c \in {"lifecycle.autostart", "storage.app", "shell.execute"}}
  <2>0. WrittenPermissions = [{"motor.pan_tilt"} -> Motors] \cup A \cup B \cup C \cup D
    BY Zenon DEF WrittenPermissions
  <2>1. CASE p \in A \cup B
    BY <2>1
  <2>2. CASE p \in C
    <3>1. PICK c \in {"camera.stream", "microphone.stream"} : p \in [{c} -> [indicator : BOOLEAN]]
      BY <2>2
    <3> QED
      BY <3>1
  <2>3. CASE p \in D
    <3>1. PICK c \in {"lifecycle.autostart", "storage.app", "shell.execute"} : p \in [{c} -> {<<>>}]
      BY <2>3
    <3> QED
      BY <3>1
  <2> HIDE DEF A, B, C, D
  <2> QED
    BY <2>0, <2>1, <2>2, <2>3
<1>2. p["motor.pan_tilt"] \in Motors
  BY <1>1
<1>3. /\ p["motor.pan_tilt"].pan \in {<<-1, 1>>, <<1, -1>>, <<-MaxAngle - 1, 0>>}
      /\ p["motor.pan_tilt"].tilt \in {<<0, 1>>, <<0, MaxAngle + 1>>}
  BY <1>2 DEF Motors
<1> QED
  BY <1>3, WorkshopPackageAssumption

LEMMA WrittenManifestsRanges ==
  ASSUME NEW m \in WrittenManifests
  PROVE  RangesAreNumbers(m) /\ m.entrypoint \in Entries
<1> DEFINE P == PlainManifest
           A == {[P EXCEPT !.header = h] : h \in {"plain", "loose", "defaults", "wrong"}}
           B == {[P EXCEPT !.name = n, !.menuLabel = l] : n \in {0, 4, 8, 41}, l \in {Unset, 0, 4, 8}}
           C == {[P EXCEPT !.kind = k, !.entrypoint = e] :
                   k \in {"declarative-v1", "python-sandbox-v1", "shell"}, e \in {"app/main.json", "app/main.py"}}
           D == {Asking(p, a) : p \in WrittenPermissions, a \in BOOLEAN}
           E == {[P EXCEPT !.twice = TRUE], [P EXCEPT !.cpuPercent = 51]}
<1>1. WrittenManifests = A \cup B \cup C \cup D \cup E
  BY DEF WrittenManifests
<1>2. /\ P.permissions = [c \in {"ui.surface"} |-> <<>>] /\ P.entrypoint \in Entries
      /\ "permissions" \in DOMAIN P /\ "entrypoint" \in DOMAIN P
  BY DEF PlainManifest, Entries
<1> HIDE DEF P
<1>3. CASE m \in D
  <2>0. PICK p \in WrittenPermissions, a \in BOOLEAN : m = Asking(p, a)
    BY <1>3
  <2>1. m = [P EXCEPT !.permissions = p, !.autostart = a]
    BY <2>0 DEF Asking, P
  <2>2. m.permissions = p /\ "permissions" \in DOMAIN m /\ m.entrypoint \in Entries
    BY <1>2, <2>1
  <2> QED
    BY <2>2, WrittenPermissionsRanges DEF RangesAreNumbers
<1>4. ASSUME m \in A \/ m \in B \/ m \in C \/ m \in E
      PROVE  m.permissions = P.permissions /\ "permissions" \in DOMAIN m /\ m.entrypoint \in Entries
  <2>1. CASE m \in A
    BY <1>2, <2>1
  <2>2. CASE m \in B
    <3>1. PICK n \in {0, 4, 8, 41}, l \in {Unset, 0, 4, 8} : m = [P EXCEPT !.name = n, !.menuLabel = l]
      BY <2>2
    <3> QED
      BY <1>2, <3>1
  <2>3. CASE m \in C
    <3>1. PICK k \in {"declarative-v1", "python-sandbox-v1", "shell"},
               e \in {"app/main.json", "app/main.py"} :
            m = [P EXCEPT !.kind = k, !.entrypoint = e]
      BY <2>3
    <3> QED
      BY <1>2, <3>1 DEF Entries
  <2>4. CASE m = [P EXCEPT !.twice = TRUE]
    BY <1>2, <2>4
  <2>5. CASE m = [P EXCEPT !.cpuPercent = 51]
    BY <1>2, <2>5
  <2> QED
    BY <1>4, <2>1, <2>2, <2>3, <2>4, <2>5
<1>5. CASE m \in A \/ m \in B \/ m \in C \/ m \in E
  BY <1>2, <1>4, <1>5 DEF RangesAreNumbers
<1> HIDE DEF A, B, C, D, E
<1> QED
  BY <1>1, <1>3, <1>5

(* A call that the normalized manifest allows is within the bounds that its   *)
(* author wrote and those of the platform, one lemma for each method.         *)
LEMMA NormalPermissions ==
  ASSUME NEW m, "permissions" \in DOMAIN m
  PROVE  /\ DOMAIN NormalManifest(m).permissions = DOMAIN m.permissions
         /\ \A c \in DOMAIN m.permissions :
              NormalManifest(m).permissions[c] = NormalConstraints(c, m.permissions[c])
BY DEF NormalManifest

LEMMA MethodsOfHost ==
  /\ HostMethod["network.fetch"] = "network.outbound"
  /\ HostMethod["motor.move"] = "motor.pan_tilt"
  /\ HostMethod["speaker.play"] = "speaker.playback"
  /\ HostMethod["microphone.stream.open"] = "microphone.stream"
<1>1. MethodCapability["microphone.stream.open"] = "microphone.stream"
  BY DEF MethodCapability, CameraMethods, MicrophoneMethods
<1>2. DOMAIN MethodCapability =
        {"ui.present", "storage.put", "notifications.show", "vision.detect",
         "assistant.query", "tasks.create"} \cup CameraMethods \cup MicrophoneMethods
  BY DEF MethodCapability
<1> QED
  BY <1>1, <1>2 DEF HostMethod, MicrophoneMethods

(* The property, of a call and the permissions of a manifest.                 *)
WithinBounds(permissions, c) ==
  /\ HostMethod[c[1]] \in DOMAIN permissions
  /\ LET l == permissions[HostMethod[c[1]]]
     IN /\ c[1] = "motor.move" =>
             /\ c[2][2] \in (l.pan[1]..l.pan[2]) \cap (-MaxAngle..MaxAngle)
             /\ c[3][2] \in (l.tilt[1]..l.tilt[2]) \cap (-MaxAngle..MaxAngle)
             /\ NotANumber \notin {c[2], c[3]}
             /\ c[4][1] = "number" => c[4][2] \in 1..Least(l.speed, MaxSpeed)
        /\ c[1] = "network.fetch" =>
             /\ \E d \in l.domains : Within(c[2], DomainName[d])
             /\ c[3] \in l.methods \cap NetworkMethods
        /\ c[1] = "speaker.play" /\ c[2] # NotGiven =>
             /\ c[2] # NotANumber
             /\ c[2][2] \in 0..(IF l.volume = Unset THEN DefaultVolume ELSE l.volume)
        /\ c[1] = "microphone.stream.open" => l.indicator

LEMMA MovesWithin ==
  ASSUME NEW m, PermissionsOK(m), RangesAreNumbers(m), NEW c \in HostCalls,
         c[1] = "motor.move", Allowed(NormalManifest(m), c)
  PROVE  LET l == m.permissions["motor.pan_tilt"]
         IN /\ c[2][2] \in (l.pan[1]..l.pan[2]) \cap (-MaxAngle..MaxAngle)
            /\ c[3][2] \in (l.tilt[1]..l.tilt[2]) \cap (-MaxAngle..MaxAngle)
            /\ NotANumber \notin {c[2], c[3]}
            /\ c[4][1] = "number" => c[4][2] \in 1..Least(l.speed, MaxSpeed)
<1> DEFINE l == m.permissions["motor.pan_tilt"]
<1>1. PICK p, t \in Angles, s \in Speeds : c = <<"motor.move", p, t, s>>
  BY DEF HostCalls
<1>2. /\ "motor.pan_tilt" \in DOMAIN m.permissions
      /\ NormalManifest(m).permissions["motor.pan_tilt"] = NormalConstraints("motor.pan_tilt", l)
  BY NormalPermissions, MethodsOfHost DEF RangesAreNumbers, Allowed
<1>3. NormalConstraints("motor.pan_tilt", l) = l
  BY DEF NormalConstraints
<1>4. MotorAllowed(l, p, t, s)
  BY <1>1, <1>2, <1>3, MethodsOfHost DEF Allowed
<1>5. RangeOK(l.pan) /\ RangeOK(l.tilt) /\ l.speed \in 1..MaxSpeed
  BY <1>2 DEF PermissionsOK, ConstraintsOK
<1>6. l.pan[1] \in Int /\ l.pan[2] \in Int /\ l.tilt[1] \in Int /\ l.tilt[2] \in Int
  BY <1>2 DEF RangesAreNumbers
<1>7. c[2] = p /\ c[3] = t /\ c[4] = s
  BY <1>1
<1>8. \A a \in Angles : a[1] = "number" => a[2] \in Int
  BY WorkshopPackageAssumption DEF Angles, Number, NotANumber, NotGiven
<1>9. s[1] = "number" => s[2] \in Int
  BY WorkshopPackageAssumption DEF Speeds, Number, NotANumber, NotGiven
<1> HIDE DEF l
<1>10. s[1] = "number" => s[2] \in 1..Least(l.speed, MaxSpeed)
  BY <1>4, <1>5, <1>9, WorkshopPackageAssumption DEF MotorAllowed, SpeedRefused, Least
<1>11. p[1] = "number" /\ t[1] = "number"
  BY <1>4 DEF MotorAllowed, AngleAllowed
<1>12. p[2] \in Int /\ t[2] \in Int
  BY <1>8, <1>11
<1>13. p[2] \in l.pan[1]..l.pan[2] /\ t[2] \in l.tilt[1]..l.tilt[2]
  BY <1>4, <1>6, <1>12 DEF MotorAllowed, AngleAllowed
<1>14. p[2] \in -MaxAngle..MaxAngle /\ t[2] \in -MaxAngle..MaxAngle
  BY <1>5, <1>6, <1>12, <1>13, WorkshopPackageAssumption DEF RangeOK
<1>15. p # NotANumber /\ t # NotANumber
  BY <1>11 DEF NotANumber
<1> QED
  BY <1>7, <1>10, <1>13, <1>14, <1>15 DEF l

LEMMA FetchesWithin ==
  ASSUME NEW m, "permissions" \in DOMAIN m, NEW c, c[1] = "network.fetch",
         Allowed(NormalManifest(m), c)
  PROVE  LET l == m.permissions["network.outbound"]
         IN /\ \E d \in l.domains : Within(c[2], DomainName[d])
            /\ c[3] \in l.methods \cap NetworkMethods
<1> DEFINE l == m.permissions["network.outbound"]
           n == NormalConstraints("network.outbound", l)
<1>1. NormalManifest(m).permissions["network.outbound"] = n
  BY NormalPermissions, MethodsOfHost DEF Allowed
<1>2. n.domains = {DomainName[d] : d \in l.domains} /\ n.methods = l.methods \cap NetworkMethods
  BY DEF NormalConstraints
<1>3. NetworkAllowed(n, c[2], c[3])
  BY <1>1, MethodsOfHost DEF Allowed
<1> QED
  BY <1>2, <1>3 DEF NetworkAllowed

LEMMA PlaysWithin ==
  ASSUME NEW m, "permissions" \in DOMAIN m, PermissionsOK(m), NEW c,
         c[1] = "speaker.play", c[2] # NotGiven, Allowed(NormalManifest(m), c)
  PROVE  LET l == m.permissions["speaker.playback"]
         IN /\ c[2] # NotANumber
            /\ c[2][2] \in 0..(IF l.volume = Unset THEN DefaultVolume ELSE l.volume)
<1> DEFINE l == m.permissions["speaker.playback"]
           n == NormalConstraints("speaker.playback", l)
<1>1. /\ "speaker.playback" \in DOMAIN m.permissions
      /\ NormalManifest(m).permissions["speaker.playback"] = n
  BY NormalPermissions, MethodsOfHost DEF Allowed
<1>2. n.volume = IF l.volume = Unset THEN DefaultVolume ELSE l.volume
  BY DEF NormalConstraints
<1>3. VolumeAllowed(n, c[2])
  BY <1>1, MethodsOfHost DEF Allowed
<1>4. l.volume \in {Unset} \cup 0..MaxVolume
  BY <1>1 DEF PermissionsOK, ConstraintsOK
<1>5. c[2][1] = "number" /\ c[2][2] \in 0..MaxVolume /\ c[2][2] <= n.volume
  BY <1>3 DEF VolumeAllowed
<1>6. c[2] # NotANumber
  BY <1>5 DEF NotANumber
<1> HIDE DEF l, n
<1>7. c[2][2] \in 0..(IF l.volume = Unset THEN DefaultVolume ELSE l.volume)
  BY <1>2, <1>4, <1>5, WorkshopPackageAssumption DEF DefaultVolume, Unset
<1> QED
  BY <1>6, <1>7 DEF l

LEMMA HearsWithin ==
  ASSUME NEW m, PermissionsOK(m), "microphone.stream" \in DOMAIN m.permissions
  PROVE  m.permissions["microphone.stream"].indicator
BY DEF PermissionsOK, ConstraintsOK

LEMMA AllowedIsWithin ==
  ASSUME NEW m, ManifestOK(m), RangesAreNumbers(m), NEW c \in HostCalls,
         Allowed(NormalManifest(m), c)
  PROVE  WithinBounds(m.permissions, c)
<1>1. PermissionsOK(m) /\ "permissions" \in DOMAIN m
  BY DEF ManifestOK, RangesAreNumbers
<1>2. HostMethod[c[1]] \in DOMAIN m.permissions
  BY <1>1, NormalPermissions DEF Allowed
<1>3. CASE c[1] = "motor.move"
  BY <1>1, <1>2, <1>3, MovesWithin, MethodsOfHost DEF WithinBounds
<1>4. CASE c[1] = "network.fetch"
  BY <1>1, <1>2, <1>4, FetchesWithin, MethodsOfHost DEF WithinBounds
<1>5. CASE c[1] = "speaker.play"
  <2>1. CASE c[2] = NotGiven
    BY <1>2, <1>5, <2>1 DEF WithinBounds
  <2>2. CASE c[2] # NotGiven
    BY <1>1, <1>2, <1>5, <2>2, PlaysWithin, MethodsOfHost DEF WithinBounds
  <2> QED
    BY <2>1, <2>2
<1>6. CASE c[1] = "microphone.stream.open"
  BY <1>1, <1>2, <1>6, HearsWithin, MethodsOfHost DEF WithinBounds
<1>7. CASE c[1] \notin {"motor.move", "network.fetch", "speaker.play", "microphone.stream.open"}
  BY <1>2, <1>7 DEF WithinBounds
<1> QED
  BY <1>3, <1>4, <1>5, <1>6, <1>7

------------------------------------------------------------------------------
(* Surfaces and applications, and that normalizing one that is right leaves   *)
(* it right.                                                                  *)
ComponentNames ==
  {"clock", "metric", "progress", "status", "text", "x", "local-time", Absent}

ComponentForm ==
  [type : ComponentNames, id : ComponentNames, key : BOOLEAN, text : BOOLEAN, span : Seq(Int)]

AppForm(a) ==
  /\ DOMAIN a = {"pipeline", "longPrompt", "surfaces"}
  /\ \A s \in a.surfaces : s.components \in Seq(ComponentForm)

LEMMA IdReplaced ==
  ASSUME NEW T, NEW I, NEW K, NEW X, NEW S,
         NEW c \in [type : T, id : I, key : K, text : X, span : S], NEW i \in I
  PROVE  LET d == [c EXCEPT !.id = i]
         IN /\ d \in [type : T, id : I, key : K, text : X, span : S]
            /\ d.id = i /\ d.type = c.type /\ d.key = c.key /\ d.text = c.text /\ d.span = c.span
OBVIOUS

LEMMA NormalComponentRight ==
  ASSUME NEW c \in ComponentForm
  PROVE  LET d == NormalComponent(c)
         IN /\ d \in ComponentForm /\ d.type = c.type
            /\ ComponentOK(c) => ComponentOK(d)
            /\ NormalComponent(d).id = d.id
<1> DEFINE i == IF c.id = Absent THEN c.type ELSE c.id
           d == [c EXCEPT !.id = i]
           j == IF d.id = Absent THEN d.type ELSE d.id
<1>1. c.id \in ComponentNames /\ c.type \in ComponentNames
  BY DEF ComponentForm
<1>2. i \in ComponentNames
  BY <1>1
<1>3. /\ d \in ComponentForm /\ d.id = i /\ d.type = c.type /\ d.key = c.key
      /\ d.text = c.text /\ d.span = c.span
  BY <1>2, IdReplaced DEF ComponentForm
<1>4. NormalComponent(c) = d
  BY DEF NormalComponent
<1> HIDE DEF d
<1>5. NormalComponent(d).id = j
  BY <1>3 DEF NormalComponent, ComponentForm
<1>6. j = i
  BY <1>3
<1>7. ComponentOK(c) => ComponentOK(d)
  BY <1>3 DEF ComponentOK
<1> QED
  BY <1>3, <1>4, <1>5, <1>6, <1>7

LEMMA NormalSurfaceRight ==
  ASSUME NEW s, s.components \in Seq(ComponentForm), SurfaceOK(s)
  PROVE  LET n == NormalSurface(s)
         IN n.components \in Seq(ComponentForm) /\ SurfaceOK(n)
<1> DEFINE cs == s.components
           ds == [i \in DOMAIN cs |-> NormalComponent(cs[i])]
           n == NormalSurface(s)
<1>1. /\ n.components = ds
      /\ n.layout = IF s.layout = Absent THEN "hero" ELSE s.layout
  BY DEF NormalSurface
<1>2. cs \in Seq(ComponentForm) /\ Len(cs) \in 1..6 /\ DOMAIN cs = 1..Len(cs)
  BY DEF SurfaceOK
<1>3. \A i \in DOMAIN cs : cs[i] \in ComponentForm
  BY <1>2
<1> HIDE DEF cs, n
<1>4. ds \in [1..Len(cs) -> ComponentForm]
  BY <1>2, <1>3, NormalComponentRight
<1>5. ds \in Seq(ComponentForm) /\ Len(ds) = Len(cs) /\ DOMAIN ds = DOMAIN cs
  BY <1>2, <1>4
<1>6. \A i \in DOMAIN cs : ds[i] = NormalComponent(cs[i])
  OBVIOUS
<1> HIDE DEF ds
<1>7. \A i \in DOMAIN cs : ComponentOK(ds[i])
  BY <1>3, <1>6, NormalComponentRight DEF SurfaceOK, cs
<1>8. \A i, j \in DOMAIN cs : NormalComponent(ds[i]).id = NormalComponent(ds[j]).id => i = j
  <2>1. \A i, j \in DOMAIN cs :
          NormalComponent(cs[i]).id = NormalComponent(cs[j]).id => i = j
    BY DEF SurfaceOK, cs
  <2>2. \A i \in DOMAIN cs : NormalComponent(ds[i]).id = ds[i].id
    BY <1>3, <1>6, NormalComponentRight
  <2> QED
    BY <1>6, <2>1, <2>2
<1>9. ds[1].type = cs[1].type
  BY <1>2, <1>3, <1>6, NormalComponentRight
<1>10. /\ s.layout \in {"hero", "list", Absent}
       /\ s.layout \in {"hero", Absent} => cs[1].type \in {"clock", "metric", "progress"}
  BY DEF SurfaceOK, cs
<1>11. n.layout \in {"hero", "list", Absent} /\ (n.layout \in {"hero", Absent} => s.layout \in {"hero", Absent})
  BY <1>1, <1>10 DEF Absent
<1> QED
  BY <1>1, <1>2, <1>5, <1>7, <1>8, <1>9, <1>10, <1>11 DEF SurfaceOK, n

LEMMA NormalAppRight ==
  ASSUME NEW a, AppForm(a), AppOK(a)
  PROVE  LET n == NormalApp(a)
         IN AppForm(n) /\ AppOK(n) /\ n.longPrompt = a.longPrompt /\ n.pipeline = a.pipeline
<1> DEFINE n == NormalApp(a)
<1>1. /\ DOMAIN n = DOMAIN a /\ n.surfaces = {NormalSurface(s) : s \in a.surfaces}
      /\ n.pipeline = a.pipeline /\ n.longPrompt = a.longPrompt
  BY DEF NormalApp, AppForm
<1>2. \A t \in n.surfaces : t.components \in Seq(ComponentForm) /\ SurfaceOK(t)
  BY <1>1, NormalSurfaceRight DEF AppForm, AppOK
<1>3. Valid(n.pipeline) /\ ~n.longPrompt
  BY <1>1 DEF AppOK
<1> HIDE DEF n
<1> QED
  BY <1>1, <1>2, <1>3 DEF AppForm, AppOK, n

(* The fallback's plans are valid.                                            *)
LEMMA KindsOfNodes ==
  /\ \A n \in {"app.lifecycle.foreground", "camera.stream", "microphone.stream"} : Node(n, "-") \in Sources
  /\ \A a \in {"minute", "hour"} : Node("timer.interval", a) \in Sources
  /\ \A n \in {"vision.detect", "audio.level", "counter.increment", "ui.present",
               "notifications.show", "tasks.create"} : \A a : Node(n, a) \notin Sources
  /\ \A v \in {"clock", "status"} : Presents(v) \in Sinks
<1>1. \A n, a : Node(n, a).name = n /\ Node(n, a).arg = a
  BY DEF Node
<1> QED
  BY <1>1 DEF Sources, Sinks, N, Node, Presents

(* A plan without a sound counter or a clock: it starts with its source and   *)
(* shows something.                                                           *)
Quiet == {Node("vision.detect", "-"), Node("counter.increment", "class"),
          Node("counter.increment", "always"), Presents("status"),
          Node("notifications.show", "-"), Node("tasks.create", "-")}

LEMMA QuietPlanValid ==
  ASSUME NEW p, NEW n \in {3, 4, 5}, DOMAIN p = 1..n, Len(p) = n, p[1] \in Sources,
         \A i \in 2..n : p[i] \in Quiet, NEW k \in 2..n, p[k] = Presents("status")
  PROVE  Valid(p)
<1>1. \A i \in DOMAIN p : i = 1 \/ i \in 2..n
  OBVIOUS
<1>2. \A q \in Quiet : q \notin Sources
  BY KindsOfNodes DEF Quiet, Presents
<1>3. \A q \in Quiet : /\ q.name # "audio.level"
                       /\ q.name = "ui.present" => q.arg # "clock"
                       /\ q.name = "counter.increment" => q.arg # "sound"
  BY DEF Quiet, Presents, Node
<1>4. \A q \in Sources : q.name \notin {"audio.level", "ui.present", "counter.increment"}
  BY DEF Sources, N
<1>5. \A i \in DOMAIN p : p[i] \in Sources <=> i = 1
  <2>1. \A i \in 2..n : i # 1
    OBVIOUS
  <2> QED
    BY <1>1, <1>2, <2>1
<1>6. ~HearsSound(p) /\ Named(p, "audio.level") = {}
  BY <1>1, <1>3, <1>4 DEF HearsSound, Named
<1>7. ~\E i \in Named(p, "ui.present") : p[i].arg = "clock"
  BY <1>1, <1>3, <1>4 DEF Named
<1>8. \E i \in DOMAIN p : p[i] \in Sinks
  <2>1. k \in DOMAIN p
    OBVIOUS
  <2> QED
    BY <2>1, KindsOfNodes
<1>9. Len(p) >= 2
  OBVIOUS
<1> QED
  BY <1>5, <1>6, <1>7, <1>8, <1>9 DEF Valid

LEMMA OneNodeMore ==
  ASSUME NEW S, NEW q \in Seq(S), NEW e
  PROVE  LET p == Append(q, e)
         IN /\ Len(p) = Len(q) + 1 /\ DOMAIN p = 1..Len(q) + 1
            /\ \A i \in 1..Len(q) : p[i] = q[i]
            /\ p[Len(q) + 1] = e
<1>1. q \in Seq(S \cup {e})
  OBVIOUS
<1> QED
  BY <1>1, AppendProperties

LEMMA FallbackValid ==
  ASSUME NEW topic \in Topics, NEW notify \in BOOLEAN
  PROVE  Valid(Fallback(topic, notify))
<1> DEFINE show == Node("notifications.show", "-")
           telling == Presents("status")
           p == Fallback(topic, notify)
<1>0. /\ \A n, a : Node(n, a).name = n /\ Node(n, a).arg = a
      /\ telling.name = "ui.present" /\ telling.arg = "status"
      /\ telling \notin Sources
  BY KindsOfNodes DEF Node, Presents
<1>1. CASE topic = "camera" /\ ~notify
  <2> DEFINE q == <<Node("camera.stream", "-"), Node("vision.detect", "-"), Node("counter.increment", "class"), telling>>
  <2>1. p = q
    BY <1>1 DEF Fallback
  <2>2. /\ Len(q) = 4 /\ DOMAIN q = 1..4 /\ q \in Seq({Node("camera.stream", "-"), Node("vision.detect", "-"), Node("counter.increment", "class"), telling})
        /\ q[1] = Node("camera.stream", "-")
        /\ q[2] = Node("vision.detect", "-")
        /\ q[3] = Node("counter.increment", "class")
        /\ q[4] = telling
    OBVIOUS
  <2> HIDE DEF p, q, telling, show
  <2>3. /\ Len(p) = 4 /\ DOMAIN p = 1..4 /\ p[1] = Node("camera.stream", "-")
        /\ p[2] = Node("vision.detect", "-") /\ p[3] = Node("counter.increment", "class") /\ p[4] = telling
    BY <2>1, <2>2
  <2>4. \A i \in 2..4 : i \in {2, 3, 4}
    OBVIOUS
  <2>5. \A i \in 2..4 : p[i] \in Quiet
    BY <2>3, <2>4 DEF Quiet, telling, show
  <2>6. p[1] \in Sources
    BY <2>3, KindsOfNodes
  <2> QED
    BY <2>3, <2>5, <2>6, QuietPlanValid DEF p, telling
<1>2. CASE topic = "camera" /\ notify
  <2> DEFINE q == <<Node("camera.stream", "-"), Node("vision.detect", "-"), Node("counter.increment", "class"), telling>>
  <2>1. p = Append(q, show)
    BY <1>2 DEF Fallback
  <2>2. /\ Len(q) = 4 /\ DOMAIN q = 1..4 /\ q \in Seq({Node("camera.stream", "-"), Node("vision.detect", "-"), Node("counter.increment", "class"), telling})
        /\ q[1] = Node("camera.stream", "-")
        /\ q[2] = Node("vision.detect", "-")
        /\ q[3] = Node("counter.increment", "class")
        /\ q[4] = telling
    OBVIOUS
  <2> HIDE DEF p, q, telling, show
  <2>b. LET r == Append(q, show)
       IN /\ Len(r) = Len(q) + 1 /\ DOMAIN r = 1..Len(q) + 1
          /\ \A i \in 1..Len(q) : r[i] = q[i]
          /\ r[Len(q) + 1] = show
    BY <2>2, OneNodeMore
  <2>3. /\ Len(p) = 5 /\ DOMAIN p = 1..5 /\ p[1] = Node("camera.stream", "-")
        /\ p[2] = Node("vision.detect", "-") /\ p[3] = Node("counter.increment", "class") /\ p[4] = telling /\ p[5] = show
    BY <2>1, <2>2, <2>b
  <2>4. \A i \in 2..5 : i \in {2, 3, 4, 5}
    OBVIOUS
  <2>5. \A i \in 2..5 : p[i] \in Quiet
    BY <2>3, <2>4 DEF Quiet, telling, show
  <2>6. p[1] \in Sources
    BY <2>3, KindsOfNodes
  <2> QED
    BY <2>3, <2>5, <2>6, QuietPlanValid DEF p, telling
<1>3. CASE topic = "timer"
  <2> DEFINE q == <<Node("timer.interval", "hour"), Node("counter.increment", "always"), telling>>
  <2>1. p = Append(q, show)
    BY <1>3 DEF Fallback
  <2>2. /\ Len(q) = 3 /\ DOMAIN q = 1..3 /\ q \in Seq({Node("timer.interval", "hour"), Node("counter.increment", "always"), telling})
        /\ q[1] = Node("timer.interval", "hour")
        /\ q[2] = Node("counter.increment", "always")
        /\ q[3] = telling
    OBVIOUS
  <2> HIDE DEF p, q, telling, show
  <2>b. LET r == Append(q, show)
       IN /\ Len(r) = Len(q) + 1 /\ DOMAIN r = 1..Len(q) + 1
          /\ \A i \in 1..Len(q) : r[i] = q[i]
          /\ r[Len(q) + 1] = show
    BY <2>2, OneNodeMore
  <2>3. /\ Len(p) = 4 /\ DOMAIN p = 1..4 /\ p[1] = Node("timer.interval", "hour")
        /\ p[2] = Node("counter.increment", "always") /\ p[3] = telling /\ p[4] = show
    BY <2>1, <2>2, <2>b
  <2>4. \A i \in 2..4 : i \in {2, 3, 4}
    OBVIOUS
  <2>5. \A i \in 2..4 : p[i] \in Quiet
    BY <2>3, <2>4 DEF Quiet, telling, show
  <2>6. p[1] \in Sources
    BY <2>3, KindsOfNodes
  <2> QED
    BY <2>3, <2>5, <2>6, QuietPlanValid DEF p, telling
<1>4. CASE topic = "research"
  <2> DEFINE q == <<Node("app.lifecycle.foreground", "-"), Node("tasks.create", "-"), telling>>
  <2>1. p = q
    BY <1>4 DEF Fallback
  <2>2. /\ Len(q) = 3 /\ DOMAIN q = 1..3 /\ q \in Seq({Node("app.lifecycle.foreground", "-"), Node("tasks.create", "-"), telling})
        /\ q[1] = Node("app.lifecycle.foreground", "-")
        /\ q[2] = Node("tasks.create", "-")
        /\ q[3] = telling
    OBVIOUS
  <2> HIDE DEF p, q, telling, show
  <2>3. /\ Len(p) = 3 /\ DOMAIN p = 1..3 /\ p[1] = Node("app.lifecycle.foreground", "-")
        /\ p[2] = Node("tasks.create", "-") /\ p[3] = telling
    BY <2>1, <2>2
  <2>4. \A i \in 2..3 : i \in {2, 3}
    OBVIOUS
  <2>5. \A i \in 2..3 : p[i] \in Quiet
    BY <2>3, <2>4 DEF Quiet, telling, show
  <2>6. p[1] \in Sources
    BY <2>3, KindsOfNodes
  <2> QED
    BY <2>3, <2>5, <2>6, QuietPlanValid DEF p, telling
<1>5. CASE topic = "other"
  <2> DEFINE q == <<Node("app.lifecycle.foreground", "-"), Node("counter.increment", "always"), telling>>
  <2>1. p = q
    BY <1>5 DEF Fallback
  <2>2. /\ Len(q) = 3 /\ DOMAIN q = 1..3 /\ q \in Seq({Node("app.lifecycle.foreground", "-"), Node("counter.increment", "always"), telling})
        /\ q[1] = Node("app.lifecycle.foreground", "-")
        /\ q[2] = Node("counter.increment", "always")
        /\ q[3] = telling
    OBVIOUS
  <2> HIDE DEF p, q, telling, show
  <2>3. /\ Len(p) = 3 /\ DOMAIN p = 1..3 /\ p[1] = Node("app.lifecycle.foreground", "-")
        /\ p[2] = Node("counter.increment", "always") /\ p[3] = telling
    BY <2>1, <2>2
  <2>4. \A i \in 2..3 : i \in {2, 3}
    OBVIOUS
  <2>5. \A i \in 2..3 : p[i] \in Quiet
    BY <2>3, <2>4 DEF Quiet, telling, show
  <2>6. p[1] \in Sources
    BY <2>3, KindsOfNodes
  <2> QED
    BY <2>3, <2>5, <2>6, QuietPlanValid DEF p, telling
<1>6. CASE topic = "clock"
  <2>1. p = <<Node("timer.interval", "minute"), Presents("clock")>>
    BY <1>6 DEF Fallback
  <2>2. Presents("clock").name = "ui.present" /\ Presents("clock") \notin Sources
    BY KindsOfNodes DEF Presents, Node
  <2> HIDE DEF p, telling
  <2>3. DOMAIN p = 1..2 /\ Len(p) = 2
    BY <2>1
  <2>4. ~HearsSound(p) /\ Named(p, "audio.level") = {}
    BY <1>0, <2>1, <2>2, <2>3 DEF HearsSound, Named
  <2>5. p[1] \in N("timer.interval", {"minute"})
    BY <2>1 DEF N, Node
  <2> QED
    BY <2>1, <2>2, <2>3, <2>4, <2>5, KindsOfNodes DEF Valid, p
<1>7. CASE topic = "sound"
  <2> DEFINE q == <<Node("microphone.stream", "-"), Node("audio.level", "-"),
                    Node("counter.increment", "sound"), telling>>
  <2>1. p = IF notify THEN Append(q, show) ELSE q
    BY <1>7 DEF Fallback
  <2>a. /\ Len(q) = 4 /\ DOMAIN q = 1..4
        /\ q \in Seq({Node("microphone.stream", "-"), Node("audio.level", "-"),
                      Node("counter.increment", "sound"), telling})
        /\ q[1] = Node("microphone.stream", "-") /\ q[2] = Node("audio.level", "-")
        /\ q[3] = Node("counter.increment", "sound") /\ q[4] = telling
    OBVIOUS
  <2> HIDE DEF p, q, telling
  <2>b. LET r == Append(q, show)
       IN /\ Len(r) = Len(q) + 1 /\ DOMAIN r = 1..Len(q) + 1
          /\ \A i \in 1..Len(q) : r[i] = q[i]
          /\ r[Len(q) + 1] = show
    BY <2>a, OneNodeMore
  <2>2. /\ Len(p) \in {4, 5} /\ DOMAIN p = 1..Len(p)
        /\ p[1] = Node("microphone.stream", "-") /\ p[2] = Node("audio.level", "-")
        /\ p[3] = Node("counter.increment", "sound") /\ p[4] = telling
        /\ 5 \in DOMAIN p => p[5] = show
    BY <2>1, <2>a, <2>b
  <2>3. 2 \in Named(p, "audio.level") /\ p[1].name = "microphone.stream" /\ 4 \in DOMAIN p
    BY <1>0, <2>2 DEF Named
  <2>4. \A i \in DOMAIN p : i \in {1, 2, 3, 4, 5}
    BY <2>2
  <2>5. \A i \in DOMAIN p : p[i] \in Sources <=> i = 1
    BY <1>0, <2>2, <2>4, KindsOfNodes
  <2>6. \A i \in Named(p, "ui.present") : p[i].arg # "clock"
    BY <1>0, <2>2, <2>4 DEF Named
  <2>7. p[4] \in Sinks
    BY <2>2, KindsOfNodes DEF telling
  <2> QED
    BY <2>2, <2>3, <2>5, <2>6, <2>7 DEF Valid, p
<1> QED
  BY <1>1, <1>2, <1>3, <1>4, <1>5, <1>6, <1>7 DEF Topics

(* What the device plans is an application, and one that passes validation    *)
(* unless it hands a long requirement to a task.                              *)
LEMMA ComponentsAreForms == Components \subseteq ComponentForm
<1>1. ASSUME NEW t \in ComponentNames, NEW i \in ComponentNames, NEW k \in BOOLEAN, NEW x \in BOOLEAN, NEW s \in Seq(Int)
      PROVE  Component(t, i, k, x, s) \in ComponentForm
  BY DEF Component, ComponentForm
<1>2. <<0, 0>> \in Seq(Int) /\ <<0, 1>> \in Seq(Int) /\ <<1, 1>> \in Seq(Int)
  OBVIOUS
<1>3. {"clock", "metric", "progress", "text", "x", Absent} \subseteq ComponentNames
  BY DEF ComponentNames
<1>4. /\ Component("clock", Absent, FALSE, FALSE, <<0, 0>>) \in ComponentForm
      /\ Component("metric", "x", TRUE, FALSE, <<0, 0>>) \in ComponentForm
      /\ Component("metric", Absent, TRUE, FALSE, <<0, 0>>) \in ComponentForm
  BY <1>1, <1>2, <1>3
<1>5. /\ Component("progress", Absent, TRUE, FALSE, <<0, 1>>) \in ComponentForm
      /\ Component("progress", "x", TRUE, FALSE, <<1, 1>>) \in ComponentForm
  BY <1>1, <1>2, <1>3
<1>6. /\ Component("text", Absent, FALSE, TRUE, <<0, 0>>) \in ComponentForm
      /\ Component("text", "x", TRUE, TRUE, <<0, 0>>) \in ComponentForm
  BY <1>1, <1>2, <1>3
<1> QED
  BY <1>4, <1>5, <1>6 DEF Components

LEMMA PlannedIsForm ==
  ASSUME NEW a \in PlannedApps
  PROVE  AppForm(a)
<1>1. PICK s \in Surfaces : a = [pipeline |-> Fallback("clock", FALSE), longPrompt |-> FALSE, surfaces |-> {s}]
  BY DEF PlannedApps
<1>2. PICK l \in {"hero", "list", "wall", Absent}, cs \in UNION {[1..n -> Components] : n \in 0..2} :
        s = [layout |-> l, components |-> cs]
  BY DEF Surfaces
<1>3. PICK n \in 0..2 : cs \in [1..n -> Components]
  BY <1>2
<1>4. cs \in Seq(ComponentForm)
  BY <1>3, ComponentsAreForms
<1> QED
  BY <1>1, <1>2, <1>4 DEF AppForm

LEMMA OfflineIsRight ==
  ASSUME NEW topic \in Topics, NEW notify \in BOOLEAN, NEW long \in BOOLEAN
  PROVE  LET a == OfflineApp(topic, notify, long)
         IN AppForm(a) /\ (~a.longPrompt => AppOK(a))
<1> DEFINE a == OfflineApp(topic, notify, long)
           c == Component("clock", "local-time", FALSE, FALSE, <<0, 0>>)
           s == [layout |-> "hero", components |-> <<c>>]
<1>1. /\ a.surfaces = IF topic # "clock" THEN {} ELSE {s}
      /\ a.pipeline = Fallback(topic, notify)
      /\ DOMAIN a = {"pipeline", "longPrompt", "surfaces"}
  BY DEF OfflineApp
<1>2. c \in ComponentForm /\ c.type = "clock"
  BY DEF Component, ComponentForm, ComponentNames
<1> HIDE DEF a, c
<1>3. s.components \in Seq(ComponentForm) /\ s.layout = "hero" /\ Len(s.components) = 1
      /\ s.components[1] = c /\ DOMAIN s.components = {1}
  BY <1>2
<1> HIDE DEF s
<1>4. SurfaceOK(s)
  BY <1>2, <1>3 DEF SurfaceOK, ComponentOK
<1>5. AppForm(a)
  BY <1>1, <1>3 DEF AppForm
<1>6. ~a.longPrompt => AppOK(a)
  BY <1>1, <1>4, FallbackValid DEF AppOK
<1> QED
  BY <1>5, <1>6 DEF a

(* The manifest the device derives is right, and stays so when normalized.    *)
Derived(m) ==
  /\ {"header", "menuLabel", "permissions"} \subseteq DOMAIN m
  /\ ManifestOK(m) /\ m.kind = "declarative-v1" /\ m.entrypoint = "app/main.json"
  /\ DOMAIN m.permissions \cap {"network.outbound", "motor.pan_tilt", "speaker.playback"} = {}

LEMMA RequiredCapabilities ==
  ASSUME NEW p
  PROVE  /\ Required(p) \subseteq Capabilities
         /\ Required(p) \cap {"network.outbound", "motor.pan_tilt", "speaker.playback"} = {}
         /\ Cardinality(Required(p)) \in Nat
<1> DEFINE A == {"camera.stream", "microphone.stream"}
           B == {"vision.inference", "storage.app"}
           C == {"assistant.query", "ui.surface"}
           D == {"notifications.local", "tasks.submit"}
           T == (A \cup B) \cup (C \cup D)
<1>1. \A n \in DOMAIN NodeCapability : NodeCapability[n] \in T
  BY DEF NodeCapability
<1> HIDE DEF T
<1>2. Required(p) \subseteq T
  BY <1>1 DEF Required
<1>3. IsFiniteSet(T)
  <2>1. ASSUME NEW x, NEW y PROVE IsFiniteSet({x, y})
    <3>1. {x, y} = {x} \cup {y}
      OBVIOUS
    <3>2. IsFiniteSet({x}) /\ IsFiniteSet({y})
      BY FS_Singleton
    <3> QED
      BY <3>1, <3>2, FS_Union
  <2>2. IsFiniteSet(A) /\ IsFiniteSet(B) /\ IsFiniteSet(C) /\ IsFiniteSet(D)
    BY <2>1
  <2> HIDE DEF A, B, C, D
  <2>3. IsFiniteSet(A \cup B) /\ IsFiniteSet(C \cup D)
    BY <2>2, FS_Union
  <2> QED
    BY <2>3, FS_Union DEF T
<1>4. IsFiniteSet(Required(p))
  BY <1>2, <1>3, FS_Subset
<1> QED
  BY <1>2, <1>4, FS_CardinalityType DEF T, Capabilities

LEMMA CandidateIsDerived ==
  ASSUME NEW a, NEW name \in {0, 4, 30}, NEW label \in {0, 4, 9}
  PROVE  Derived(CandidateManifest(a, name, label))
<1> DEFINE needed == Required(a.pipeline)
           n == Cardinality(needed)
           cut == Least(IF name = 0 THEN 4 ELSE name, 20)
           menu == Least(IF label = 0 THEN cut ELSE label, 6)
           cpu == Least(35, 5 + n * 4)
           memory == Least(384, 64 + n * 32)
           asked == [c \in needed |-> IF c \in {"camera.stream", "microphone.stream"}
                                      THEN [indicator |-> TRUE] ELSE <<>>]
           m == CandidateManifest(a, name, label)
<1>1. n \in Nat
  BY RequiredCapabilities
<1>2. cut \in 1..40 /\ menu \in 1..6
  BY DEF Least
<1> HIDE DEF n
<1>3. cpu \in 1..50 /\ memory \in 16..512
  BY <1>1 DEF Least
<1> HIDE DEF cut, menu, cpu, memory, asked
<1>4. m = [PlainManifest EXCEPT !.name = cut, !.menuLabel = menu, !.cpuPercent = cpu,
                                !.memoryMB = memory, !.permissions = asked]
  BY DEF CandidateManifest, cut, menu, cpu, memory, asked, n
<1> HIDE DEF m
<1>5. /\ m.header = "plain" /\ m.name = cut /\ m.menuLabel = menu /\ m.cpuPercent = cpu
      /\ m.memoryMB = memory /\ m.permissions = asked /\ m.kind = "declarative-v1"
      /\ m.entrypoint = "app/main.json" /\ {"header", "menuLabel", "permissions"} \subseteq DOMAIN m
  BY <1>4 DEF PlainManifest
<1>6. ~m.twice /\ ~m.autostart
  BY <1>4 DEF PlainManifest
<1>7. DOMAIN asked = needed
  BY DEF asked
<1>8. \A c \in needed : ConstraintsOK(c, asked[c])
  <2> SUFFICES ASSUME NEW c \in needed PROVE ConstraintsOK(c, asked[c])
    OBVIOUS
  <2>1. CASE c \in {"camera.stream", "microphone.stream"}
    BY <2>1 DEF ConstraintsOK, asked
  <2>2. CASE c \notin {"camera.stream", "microphone.stream"}
    BY <2>2, RequiredCapabilities DEF ConstraintsOK
  <2> QED
    BY <2>1, <2>2
<1>9. PermissionsOK(m)
  BY <1>5, <1>6, <1>7, <1>8, RequiredCapabilities DEF PermissionsOK
<1>10. MetadataOK(m) /\ RuntimeOK(m)
  BY <1>2, <1>5 DEF MetadataOK, RuntimeOK, Suffix
<1>11. LifecycleOK(m)
  <2>1. MenuLabel(m) = menu
    BY <1>2, <1>5 DEF MenuLabel, Unset
  <2> QED
    BY <1>2, <1>3, <1>5, <1>6, <2>1 DEF LifecycleOK
<1> QED
  BY <1>5, <1>7, <1>9, <1>10, <1>11, RequiredCapabilities DEF Derived, ManifestOK, m

LEMMA NormalIsDerived ==
  ASSUME NEW m, Derived(m)
  PROVE  Derived(NormalManifest(m))
<1> DEFINE n == NormalManifest(m)
           asked == [c \in DOMAIN m.permissions |-> NormalConstraints(c, m.permissions[c])]
           menu == MenuLabel(m)
<1> HIDE DEF asked, menu
<1>1. n = [m EXCEPT !.header = "plain", !.menuLabel = menu, !.permissions = asked]
  BY DEF NormalManifest, asked, menu
<1> HIDE DEF n
<1>2. /\ n.header = "plain" /\ n.menuLabel = menu /\ n.permissions = asked
      /\ n.name = m.name /\ n.kind = m.kind /\ n.entrypoint = m.entrypoint
      /\ n.cpuPercent = m.cpuPercent /\ n.memoryMB = m.memoryMB /\ DOMAIN n = DOMAIN m
  BY <1>1 DEF Derived
<1>3. n.twice = m.twice /\ n.autostart = m.autostart
  BY <1>1 DEF Derived
<1>4. DOMAIN asked = DOMAIN m.permissions
  BY DEF asked
<1>5. \A c \in DOMAIN m.permissions : asked[c] = m.permissions[c]
  BY DEF asked, NormalConstraints, Derived
<1>6. MetadataOK(n) /\ RuntimeOK(n)
  BY <1>2 DEF Derived, ManifestOK, MetadataOK, RuntimeOK
<1>7. PermissionsOK(n)
  BY <1>2, <1>3, <1>4, <1>5 DEF Derived, ManifestOK, PermissionsOK
<1>8. LifecycleOK(n)
  <2>1. menu \in 1..6
    BY DEF menu, Derived, ManifestOK, LifecycleOK
  <2>2. MenuLabel(n) \in 1..6
    BY <1>2, <2>1 DEF MenuLabel, Unset
  <2>3. /\ m.autostart => "lifecycle.autostart" \in DOMAIN m.permissions
        /\ m.cpuPercent \in 1..50 /\ m.memoryMB \in 16..512
    BY DEF Derived, ManifestOK, LifecycleOK
  <2> QED
    BY <1>2, <1>3, <1>4, <2>2, <2>3 DEF LifecycleOK
<1> QED
  BY <1>2, <1>4, <1>6, <1>7, <1>8 DEF Derived, ManifestOK, n

LEMMA DerivedRanges == \A m : Derived(m) => RangesAreNumbers(m)
BY DEF Derived, RangesAreNumbers

(* The inspection lets in what the device sealed.                             *)
LEMMA SealedPasses ==
  ASSUME NEW m, Derived(m), NEW a, AppOK(a), NEW required
  PROVE  InspectionOK(Sealed(m, a, "app/main.json", "device"), required)
<1> DEFINE ms == Sealed(m, a, "app/main.json", "device")
           sums == Sums(m, a, "app/main.json")
<1>1. "app/main.json" \in Entries /\ "device" # "none"
  BY DEF Entries
<1>2. /\ MembersOK(ms)
      /\ {"manifest.json", "app/main.json", "checksums.json"} \subseteq Names(ms)
      /\ Names(ms) \ {"signature.json"} = {"manifest.json", "app/main.json", "checksums.json"}
      /\ "signature.json" \in Names(ms)
      /\ Content(ms, "manifest.json") = <<"manifest", m>>
      /\ Content(ms, "app/main.json") = <<"app", a>>
      /\ Content(ms, "checksums.json") = <<"checksums", sums>>
      /\ Content(ms, "signature.json") = <<"signature", "device", sums>>
  BY <1>1, SealedMembers
<1>3. /\ DOMAIN sums = {"manifest.json", "app/main.json"}
      /\ sums["manifest.json"] = <<"manifest", m>> /\ sums["app/main.json"] = <<"app", a>>
  BY DEF Sums
<1> HIDE DEF ms, sums
<1>4. ChecksumsOK(ms)
  BY <1>2, <1>3 DEF ChecksumsOK, Holds
<1>5. SignatureOK(ms)
  BY <1>2 DEF SignatureOK, Holds, Trusted
<1>6. Holds(ms, "manifest.json", "manifest") /\ Holds(ms, "app/main.json", "app")
  BY <1>2 DEF Holds
<1>7. ManifestOK(m) /\ m.entrypoint = "app/main.json"
  BY DEF Derived
<1> QED
  BY <1>2, <1>4, <1>5, <1>6, <1>7 DEF InspectionOK, ms

------------------------------------------------------------------------------
(* The inductive invariant: a package is what its maker sealed or damaged; in *)
(* from the inspection on, it is but for its signature what was sealed; what  *)
(* is installed is the sealed manifest; and what the device has in hand, or   *)
(* sealed, passes every validation to come.                                   *)
Carried ==
  stage \in {"packed", "inspected", "enabled", "unreadable"} =>
    \E m, a, key : \E entry \in Entries :
      /\ built = Sealed(m, a, entry, key) /\ Travelled(members, built) /\ RangesAreNumbers(m)
      /\ maker = "device" => /\ Derived(m) /\ AppOK(a)
                             /\ entry = "app/main.json" /\ key = "device"

Entered ==
  stage \in {"inspected", "enabled", "unreadable"} =>
    MembersOK(members) /\ Unsigned(members) = Unsigned(built)

Installed == stage \in {"enabled", "unreadable"} => written = Content(built, "manifest.json")[2]

InHand ==
  /\ stage = "asked" => maker = "none"
  /\ stage \in {"planned", "candidate"} => maker = "device" /\ AppForm(application)
  /\ stage = "planned" => (~application.longPrompt => AppOK(application))
  /\ stage = "candidate" => AppOK(application) /\ Derived(written)

GetsThrough ==
  maker = "device" /\ members = built /\ ~application.longPrompt =>
    stage \notin {"refused", "unreadable"}

AllowedWithin ==
  allowed # <<>> => stage \in {"enabled", "unreadable"} /\ WithinBounds(Declared, allowed)

PackageInv == Carried /\ Entered /\ Installed /\ InHand /\ GetsThrough /\ AllowedWithin

LEMMA PlansInv == PackageInv /\ Plans => PackageInv'
<1> SUFFICES ASSUME PackageInv, Plans PROVE PackageInv'
  OBVIOUS
<1>1. stage = "asked" /\ stage' = "planned" /\ maker' = "device" /\ allowed' = allowed
  BY DEF Plans
<1>2. AppForm(application') /\ (~application'.longPrompt => AppOK(application'))
  <2>1. CASE application' \in PlannedApps /\ AppOK(application')
    BY <2>1, PlannedIsForm
  <2>2. CASE \E t \in Topics, n, l \in BOOLEAN : application' = OfflineApp(t, n, l)
    BY <2>2, OfflineIsRight
  <2> QED
    BY <2>1, <2>2 DEF Plans
<1>3. InHand'
  <2>1. PICK x : x = application'
    OBVIOUS
  <2> QED
    BY <1>1, <1>2 DEF InHand, AppForm, AppOK
<1>4. allowed = <<>>
  BY <1>1 DEF PackageInv, AllowedWithin
<1> QED
  BY <1>1, <1>3, <1>4 DEF PackageInv, Carried, Entered, Installed, GetsThrough, AllowedWithin

LEMMA ComposesInv == PackageInv /\ Composes => PackageInv'
<1> SUFFICES ASSUME PackageInv, Composes PROVE PackageInv'
  OBVIOUS
<1>1. /\ stage = "planned" /\ stage' \in {"candidate", "refused"} /\ maker = "device"
      /\ AppForm(application) /\ (~application.longPrompt => AppOK(application))
      /\ UNCHANGED <<maker, members, built, damages, allowed>>
  BY DEF Composes, PackageInv, InHand
<1>2. PICK w : w = written'
  OBVIOUS
<1>3. Derived(w)
  BY <1>2, CandidateIsDerived DEF Composes
<1>4. ManifestOK(w)
  BY <1>3 DEF Derived
<1>5. allowed = <<>>
  BY <1>1 DEF PackageInv, AllowedWithin
<1>6. CASE AppOK(application)
  <2>1. stage' = "candidate" /\ application' = NormalApp(application)
    BY <1>2, <1>4, <1>6 DEF Composes
  <2>2. PICK x : x = application'
    OBVIOUS
  <2>3. AppForm(x) /\ AppOK(x)
    BY <1>1, <1>6, <2>1, <2>2, NormalAppRight
  <2>4. InHand'
    BY <1>1, <1>2, <1>3, <2>1, <2>2, <2>3 DEF InHand, AppForm, AppOK, Derived
  <2> QED
    BY <1>1, <1>5, <2>1, <2>4 DEF PackageInv, Carried, Entered, Installed, GetsThrough, AllowedWithin
<1>7. CASE ~AppOK(application)
  <2>1. stage' = "refused" /\ application' = application /\ application.longPrompt
    BY <1>1, <1>7 DEF Composes
  <2> QED
    BY <1>1, <1>5, <2>1 DEF PackageInv, InHand, Carried, Entered, Installed, GetsThrough, AllowedWithin
<1> QED
  BY <1>6, <1>7

(* What was sealed and not touched since.                                     *)
LEMMA FreshlySealed ==
  ASSUME PackageInv, stage \in {"asked", "candidate"}, stage' = "packed", members' = built',
         allowed' = allowed, NEW m, NEW a, NEW key, NEW entry \in Entries,
         built' = Sealed(m, a, entry, key), RangesAreNumbers(m),
         maker' = "device" => Derived(m) /\ AppOK(a) /\ entry = "app/main.json" /\ key = "device"
  PROVE  PackageInv'
<1>1. allowed = <<>>
  BY DEF PackageInv, AllowedWithin
<1>2. Travelled(members', built')
  BY DEF Travelled
<1>3. PICK b, ms, mk : b = built' /\ ms = members' /\ mk = maker'
  OBVIOUS
<1>4. \E m_1, a_1, key_1 : \E entry_1 \in Entries :
        /\ b = Sealed(m_1, a_1, entry_1, key_1) /\ Travelled(ms, b) /\ RangesAreNumbers(m_1)
        /\ mk = "device" => /\ Derived(m_1) /\ AppOK(a_1)
                            /\ entry_1 = "app/main.json" /\ key_1 = "device"
  BY <1>2, <1>3
<1>5. Carried'
  BY <1>3, <1>4 DEF Carried, Travelled
<1> QED
  BY <1>1, <1>5 DEF PackageInv, Entered, Installed, InHand, GetsThrough, AllowedWithin

LEMMA BuildsInv == PackageInv /\ Builds => PackageInv'
<1> SUFFICES ASSUME PackageInv, Builds PROVE PackageInv'
  OBVIOUS
<1>1. /\ stage = "candidate" /\ AppForm(application) /\ AppOK(application) /\ Derived(written)
      /\ allowed' = allowed /\ built' = members'
  BY DEF Builds, PackageInv, InHand
<1>2. ManifestOK(written) /\ written.entrypoint = "app/main.json"
  BY <1>1 DEF Derived
<1> DEFINE m == NormalManifest(written)
           a == NormalApp(application)
<1>3. members' = Archive(m, a, "app/main.json", "device") /\ stage' = "packed"
  BY <1>1, <1>2 DEF Builds
<1>4. Derived(m) /\ AppOK(a)
  BY <1>1, NormalIsDerived, NormalAppRight
<1> HIDE DEF m, a
<1>5. built' = Sealed(m, a, "app/main.json", "device") /\ "app/main.json" \in Entries
  BY <1>1, <1>3, ArchiveIsSealed DEF Entries
<1> QED
  BY <1>1, <1>3, <1>4, <1>5, DerivedRanges, FreshlySealed

LEMMA AuthorsInv == PackageInv /\ Authors => PackageInv'
<1> SUFFICES ASSUME PackageInv, Authors PROVE PackageInv'
  OBVIOUS
<1>1. /\ stage = "asked" /\ stage' = "packed" /\ maker' = "author" /\ allowed' = allowed
      /\ built' = members'
  BY DEF Authors
<1>2. PICK w, x : w = written' /\ x = application'
  OBVIOUS
<1>3. w \in WrittenManifests
  BY <1>2 DEF Authors
<1>4. RangesAreNumbers(w) /\ w.entrypoint \in Entries
  BY <1>3, WrittenManifestsRanges
<1>5. PICK entry \in {"app/main.json", w.entrypoint}, key \in {"vendor", "stranger", "none"} :
        members' = Archive(w, x, entry, key)
  BY <1>2 DEF Authors
<1>6. entry \in Entries
  BY <1>4, <1>5 DEF Entries
<1>7. built' = Sealed(w, x, entry, key)
  BY <1>1, <1>5, <1>6, ArchiveIsSealed
<1> QED
  BY <1>1, <1>4, <1>6, <1>7, FreshlySealed

(* A step on a packed package, that may change its members and its stage.     *)
LEMMA OnItsWay ==
  ASSUME PackageInv, stage = "packed", UNCHANGED <<maker, application, written, built, allowed>>,
         stage' \in {"packed", "inspected", "refused"}, Travelled(members, built) => Travelled(members', built)
  PROVE  Carried' /\ Installed' /\ InHand' /\ AllowedWithin'
<1>1. allowed = <<>>
  BY DEF PackageInv, AllowedWithin
<1>2. PICK m, a, key : \E entry \in Entries :
        /\ built = Sealed(m, a, entry, key) /\ Travelled(members, built) /\ RangesAreNumbers(m)
        /\ maker = "device" => /\ Derived(m) /\ AppOK(a)
                               /\ entry = "app/main.json" /\ key = "device"
  BY DEF PackageInv, Carried
<1>3. PICK ms : ms = members'
  OBVIOUS
<1>4. Travelled(ms, built)
  BY <1>2, <1>3 DEF Travelled
<1>5. Carried'
  BY <1>2, <1>3, <1>4 DEF Carried, Travelled
<1> QED
  BY <1>1, <1>5 DEF Installed, InHand, AllowedWithin

LEMMA DamagesInv == PackageInv /\ Damages => PackageInv'
<1> SUFFICES ASSUME PackageInv, Damages PROVE PackageInv'
  OBVIOUS
<1>1. /\ stage = "packed" /\ stage' = stage
      /\ UNCHANGED <<maker, application, written, built, allowed>>
  BY DEF Damages
<1>2. ASSUME NEW x \in members' PROVE x \in members \/ x = Member(x.file, <<"garbled">>)
  <2>1. \A f : Member(f, <<"garbled">>).file = f
    BY DEF Member
  <2>2. x \in members \/ \E f : x = Member(f, <<"garbled">>)
    BY DEF Damages
  <2> QED
    BY <2>1, <2>2
<1>3. Travelled(members, built) => Travelled(members', built)
  BY <1>2 DEF Travelled
<1>4. Carried' /\ Installed' /\ InHand' /\ AllowedWithin'
  BY <1>1, <1>3, OnItsWay
<1> QED
  BY <1>1, <1>4 DEF PackageInv, Entered, GetsThrough

LEMMA InspectsInv == PackageInv /\ Inspects => PackageInv'
<1> SUFFICES ASSUME PackageInv, Inspects PROVE PackageInv'
  OBVIOUS
<1>1. /\ stage = "packed" /\ stage' \in {"inspected", "refused"}
      /\ UNCHANGED <<maker, application, written, members, built, allowed>>
  BY DEF Inspects
<1>2. PICK required \in {TRUE, maker = "device"} :
        stage' = IF InspectionOK(members, required) THEN "inspected" ELSE "refused"
  BY DEF Inspects
<1>3. Carried' /\ Installed' /\ InHand' /\ AllowedWithin'
  BY <1>1, OnItsWay
<1>4. PICK m, a, key, entry :
        /\ entry \in Entries
        /\ built = Sealed(m, a, entry, key) /\ Travelled(members, built)
        /\ maker = "device" => /\ Derived(m) /\ AppOK(a)
                               /\ entry = "app/main.json" /\ key = "device"
  BY <1>1 DEF PackageInv, Carried
<1>5. Entered'
  <2> SUFFICES ASSUME stage' = "inspected" PROVE Entered'
    BY <1>1 DEF Entered
  <2>1. MembersOK(members) /\ ChecksumsOK(members)
    BY <1>2 DEF InspectionOK
  <2>2. Unsigned(members) = Unsigned(built)
    BY <1>4, <2>1, ChecksumsTell
  <2> QED
    BY <1>1, <2>1, <2>2 DEF Entered, MembersOK, Unsigned
<1>6. GetsThrough'
  <2> SUFFICES ASSUME maker = "device", members = built, stage' = "refused" PROVE FALSE
    BY <1>1 DEF GetsThrough
  <2>1. InspectionOK(members, required)
    BY <1>4, SealedPasses
  <2> QED
    BY <1>2, <2>1
<1> QED
  BY <1>3, <1>5, <1>6 DEF PackageInv

LEMMA InstallsInv == PackageInv /\ Installs => PackageInv'
<1> SUFFICES ASSUME PackageInv, Installs PROVE PackageInv'
  OBVIOUS
<1>1. /\ stage = "inspected" /\ stage' = "enabled"
      /\ written' = Content(members, "manifest.json")[2]
      /\ UNCHANGED <<maker, application, members, built, damages, allowed>>
  BY DEF Installs
<1>2. Carried' /\ Entered' /\ InHand' /\ GetsThrough' /\ allowed = <<>>
  BY <1>1 DEF PackageInv, Carried, Entered, InHand, GetsThrough, AllowedWithin, Travelled,
              MembersOK, Unsigned
<1>3. Installed'
  <2>1. PICK m, a, key, entry : entry \in Entries /\ built = Sealed(m, a, entry, key)
    BY <1>1 DEF PackageInv, Carried
  <2>2. MembersOK(members) /\ Unsigned(members) = Unsigned(built)
    BY <1>1 DEF PackageInv, Entered
  <2>3. Content(members, "manifest.json") = <<"manifest", m>>
    BY <2>1, <2>2, ManifestKept
  <2>4. Content(built, "manifest.json") = <<"manifest", m>>
    BY <2>1, SealedManifest
  <2>5. written' = Content(built, "manifest.json")[2]
    BY <1>1, <2>3, <2>4
  <2> QED
    BY <1>1, <2>5 DEF Installed, Content
<1> QED
  BY <1>1, <1>2, <1>3 DEF PackageInv, AllowedWithin

LEMMA AsksInv == PackageInv /\ Asks => PackageInv'
<1> SUFFICES ASSUME PackageInv, Asks PROVE PackageInv'
  OBVIOUS
<1>1. /\ stage = "enabled" /\ stage' \in {"enabled", "unreadable"}
      /\ UNCHANGED <<maker, application, written, members, built, damages>>
  BY DEF Asks
<1>2. Carried' /\ Entered' /\ Installed' /\ InHand'
  BY <1>1 DEF PackageInv, Carried, Entered, Installed, InHand, Travelled, MembersOK, Unsigned, Content
<1>3. PICK m, a, key, entry :
        /\ entry \in Entries /\ built = Sealed(m, a, entry, key) /\ RangesAreNumbers(m)
        /\ maker = "device" => Derived(m)
  BY <1>1 DEF PackageInv, Carried
<1>4. Content(built, "manifest.json")[2] = m
  <2>1. Content(built, "manifest.json") = <<"manifest", m>>
    BY <1>3, SealedManifest
  <2> QED
    BY <2>1
<1>5. written = m /\ Declared = m.permissions
  BY <1>1, <1>4 DEF PackageInv, Installed, Declared
<1>6. Declared' = Declared
  BY <1>1 DEF Declared, Content
<1>7. CASE ManifestOK(written)
  <2>1. stage' = stage /\ allowed' \in HostCalls /\ Allowed(NormalManifest(written), allowed')
    BY <1>7 DEF Asks
  <2>2. WithinBounds(Declared, allowed')
    BY <1>3, <1>5, <1>7, <2>1, AllowedIsWithin
  <2>3. AllowedWithin'
    <3>1. PICK c : c = allowed'
      OBVIOUS
    <3> QED
      BY <1>1, <1>6, <2>1, <2>2 DEF AllowedWithin, WithinBounds
  <2>4. GetsThrough'
    BY <1>1, <2>1 DEF GetsThrough
  <2> QED
    BY <1>2, <2>3, <2>4 DEF PackageInv
<1>8. CASE ~ManifestOK(written)
  <2>1. stage' = "unreadable" /\ allowed' = allowed
    BY <1>8 DEF Asks
  <2>2. maker # "device"
    BY <1>3, <1>5, <1>8 DEF Derived
  <2>3. AllowedWithin' /\ GetsThrough'
    BY <1>1, <1>6, <2>1, <2>2 DEF PackageInv, AllowedWithin, GetsThrough, WithinBounds
  <2> QED
    BY <1>2, <2>3 DEF PackageInv
<1> QED
  BY <1>7, <1>8

LEMMA StepPackage == PackageInv /\ [PackageNext]_packageVars => PackageInv'
<1>1. ASSUME PackageInv, UNCHANGED packageVars PROVE PackageInv'
  <2>1. UNCHANGED <<maker, application, written, members, built, stage, allowed>>
    BY <1>1 DEF packageVars
  <2>2. Carried'
    BY <1>1, <2>1, Zenon DEF PackageInv, Carried, Travelled
  <2>3. Entered'
    BY <1>1, <2>1, Zenon DEF PackageInv, Entered, MembersOK, Unsigned
  <2>4. Installed' /\ InHand'
    BY <1>1, <2>1, Zenon DEF PackageInv, Installed, InHand, Content
  <2>5. GetsThrough'
    BY <1>1, <2>1, Zenon DEF PackageInv, GetsThrough
  <2>6. Declared' = Declared
    BY <2>1, Zenon DEF Declared, Content
  <2>7. AllowedWithin'
    <3>1. PICK c : c = allowed
      OBVIOUS
    <3> QED
      BY <1>1, <2>1, <2>6 DEF PackageInv, AllowedWithin, WithinBounds
  <2> QED
    BY <2>2, <2>3, <2>4, <2>5, <2>7 DEF PackageInv
<1> QED
  BY <1>1, PlansInv, ComposesInv, BuildsInv, AuthorsInv, DamagesInv, InspectsInv, InstallsInv,
     AsksInv DEF PackageNext

(* The inductive invariant holds of every package.                            *)
THEOREM PackageInvariant == PackageSpec => []PackageInv
<1>1. PackageInit => PackageInv
  <2> SUFFICES ASSUME PackageInit PROVE PackageInv
    OBVIOUS
  <2>1. stage = "asked" /\ maker = "none" /\ allowed = <<>>
    BY DEF PackageInit
  <2> QED
    BY <2>1 DEF PackageInv, Carried, Entered, Installed, InHand, GetsThrough, AllowedWithin
<1> QED
  BY <1>1, StepPackage, PTL DEF PackageSpec

(* Whatever the device generates gets through every later reading of it, and  *)
(* what the inspection lets in is what its maker sealed, for any number of    *)
(* damages on its way (build_candidate, build_signed_package,                 *)
(* inspect_package, installed_manifest).                                      *)
THEOREM PackagesAreAlwaysKnown == PackageSpec => []PackagesAreKnown
<1>1. PackageInv => PackagesAreKnown
  BY DEF PackageInv, GetsThrough, Entered, Unsigned, PackagesAreKnown
<1> QED
  BY <1>1, PackageInvariant, PTL

(* What the host allows is within the bounds that the author declared and     *)
(* those of the platform, for any such bounds (validate_manifest,             *)
(* authorize_request).                                                        *)
THEOREM CallsAlwaysStayWithin == PackageSpec => []CallsStayWithinTheManifest
<1>1. ASSUME allowed # <<>>, WithinBounds(Declared, allowed) PROVE CallsStayWithinTheManifest
  BY <1>1 DEF CallsStayWithinTheManifest, WithinBounds
<1>2. PackageInv => CallsStayWithinTheManifest
  BY <1>1 DEF PackageInv, AllowedWithin, CallsStayWithinTheManifest
<1> QED
  BY <1>2, PackageInvariant, PTL

------------------------------------------------------------------------------
(* The events of the voice service.                                         *)

(* When nothing is on its way any more, the screen shows the last event, or  *)
(* rests because that grew old (reconcile_snapshot, retry_pending_delivery): *)
(* what ScreenCatchesUp comes to.                                            *)
QuietScreenIsRight ==
  /\ bridge.at = "serving" /\ delivered /\ inbox = <<>>
  /\ publisher.sending = None /\ publisher.life = snapshot.life
  => screen = snapshot \/ (aged /\ screen = None)

(* An event is as old as the snapshot or older.                              *)
NotAfter(e, f) == e = f \/ Newer(f, e)

(* The snapshot is still to come: in the socket, with its publisher, or to   *)
(* be replaced by the first event of a publisher that has started.           *)
ToCome ==
  \/ \E i \in 1..Len(inbox) : inbox[i] = snapshot
  \/ publisher.sending # None \/ snapshot.life < publisher.life

PublisherInv ==
  /\ EventsTypeOK
  /\ snapshot = None \/ snapshot.life > 0
  /\ snapshot.life <= publisher.life
  /\ snapshot.life = publisher.life => snapshot.seq = publisher.seq
  /\ publisher.sending \in {None, snapshot}

BridgeInv ==
  /\ \A i \in 1..Len(inbox) : NotAfter(inbox[i], snapshot)
  /\ NotAfter(consumer, snapshot)
  /\ bridge.at = "bound" => consumer = None /\ (inbox = <<>> \/ ToCome)
  /\ bridge.at = "serving" /\ delivered => screen = consumer
  /\ bridge.at = "serving" =>
       consumer = snapshot \/ ToCome \/ (aged /\ consumer = None /\ inbox = <<>>)

EventsInv == PublisherInv /\ BridgeInv

LEMMA NoneIsAnEvent == None \in Event /\ None.life = 0 /\ None.seq = 0
BY EventsAssumption DEF None, Event

LEMMA NewerIsTransitive ==
  ASSUME NEW e \in Event, NEW f \in Event, NEW g \in Event, NotAfter(e, f), Newer(g, f)
  PROVE  NotAfter(e, g)
<1>1. /\ e.life \in Nat /\ f.life \in Nat /\ g.life \in Nat
      /\ e.seq \in Nat /\ f.seq \in Nat /\ g.seq \in Nat
  BY EventsAssumption DEF Event
<1>2. CASE e = f
  BY <1>2 DEF NotAfter
<1>3. CASE Newer(f, e)
  BY <1>1, <1>3 DEF NotAfter, Newer
<1> QED BY <1>2, <1>3 DEF NotAfter

LEMMA InitEventsInv == EventsInit => EventsInv
<1> SUFFICES ASSUME EventsInit PROVE EventsInv
  OBVIOUS
<1>1. /\ publisher = [life |-> 0, seq |-> 0, sending |-> None]
      /\ snapshot = None /\ consumer = None /\ screen = None /\ inbox = <<>>
      /\ bridge = [at |-> "down", starts |-> 0]
      /\ aged = FALSE /\ delivered = FALSE /\ display = FALSE
  BY DEF EventsInit
<1>2. publisher \in [life : 0..MaxLives, seq : 0..MaxEvents, sending : Event]
  BY <1>1, NoneIsAnEvent, EventsAssumption
<1>3. bridge \in [at : {"down", "bound", "serving"}, starts : 0..MaxLives]
  BY <1>1, EventsAssumption
<1>4. inbox \in Seq(Event) /\ Len(inbox) = 0 /\ Len(inbox) <= InboxSize
  BY <1>1, EventsAssumption
<1>5. EventsTypeOK
  BY <1>1, <1>2, <1>3, <1>4, NoneIsAnEvent DEF EventsTypeOK
<1>6. publisher.life = 0 /\ publisher.seq = 0 /\ publisher.sending = None /\ bridge.at = "down"
  BY <1>1
<1>7. PublisherInv
  BY <1>1, <1>5, <1>6, NoneIsAnEvent DEF PublisherInv
<1>8. BridgeInv
  BY <1>1, <1>4, <1>6 DEF BridgeInv, NotAfter
<1> QED BY <1>7, <1>8 DEF EventsInv

LEMMA PublisherStartsKeeps == EventsInv /\ PublisherStarts => EventsInv'
<1> SUFFICES ASSUME EventsInv, PublisherStarts PROVE EventsInv'
  OBVIOUS
<1>1. /\ publisher' = [life |-> publisher.life + 1, seq |-> 0, sending |-> None]
      /\ publisher.life < MaxLives
      /\ UNCHANGED <<snapshot, aged, inbox, bridge, consumer, delivered, display, screen>>
  BY DEF PublisherStarts
<1>2. /\ publisher.life \in Nat /\ publisher.life + 1 \in 0..MaxLives /\ 0 \in 0..MaxEvents
      /\ snapshot.life \in Nat
  BY <1>1, EventsAssumption DEF EventsInv, PublisherInv, EventsTypeOK, Event
<1>3. /\ publisher' \in [life : 0..MaxLives, seq : 0..MaxEvents, sending : Event]
      /\ publisher'.life = publisher.life + 1 /\ publisher'.sending = None
  BY <1>1, <1>2, NoneIsAnEvent
<1>4. snapshot.life < publisher'.life
  BY <1>2, <1>3 DEF EventsInv, PublisherInv
<1>5. PublisherInv'
  <2>1. EventsTypeOK'
    BY <1>1, <1>3 DEF EventsInv, PublisherInv, EventsTypeOK
  <2> QED BY <1>1, <1>2, <1>3, <1>4, <2>1 DEF EventsInv, PublisherInv
<1>6. BridgeInv'
  <2>1. ToCome'
    BY <1>1, <1>4 DEF ToCome
  <2> QED BY <1>1, <2>1 DEF EventsInv, BridgeInv
<1> QED BY <1>5, <1>6 DEF EventsInv

LEMMA PublishKeeps ==
  ASSUME EventsInv, NEW state \in Face \cup {"idle"}, Publish(state) PROVE EventsInv'
<1> DEFINE event == [life |-> publisher.life, seq |-> publisher.seq + 1, state |-> state]
<1>1. /\ publisher.life > 0 /\ publisher.sending = None /\ publisher.seq < MaxEvents
      /\ publisher' = [publisher EXCEPT !.seq = event.seq, !.sending = event]
      /\ snapshot' = event /\ aged' = FALSE
      /\ UNCHANGED <<inbox, bridge, consumer, delivered, display, screen>>
  BY DEF Publish
<1>2. /\ publisher.life \in 0..MaxLives /\ publisher.seq \in 0..MaxEvents
      /\ publisher.seq + 1 \in 0..MaxEvents
  BY <1>1, EventsAssumption DEF EventsInv, PublisherInv, EventsTypeOK
<1>3. event \in Event /\ event.life = publisher.life /\ event.seq = publisher.seq + 1
  BY <1>2 DEF Event
<1>4. event # None
  BY <1>1, <1>3, NoneIsAnEvent
<1> HIDE DEF event
<1>5. /\ publisher' \in [life : 0..MaxLives, seq : 0..MaxEvents, sending : Event]
      /\ publisher'.life = publisher.life /\ publisher'.seq = event.seq
      /\ publisher'.sending = event
  BY <1>1, <1>2, <1>3 DEF EventsInv, PublisherInv, EventsTypeOK
<1>6. Newer(event, snapshot)
  <2>1. snapshot.life <= publisher.life /\ (snapshot.life = publisher.life => snapshot.seq = publisher.seq)
    BY DEF EventsInv, PublisherInv
  <2>2. snapshot.life \in Nat
    BY EventsAssumption DEF EventsInv, PublisherInv, EventsTypeOK, Event
  <2> QED BY <1>2, <1>3, <2>1, <2>2, EventsAssumption DEF Newer
<1>7. PublisherInv'
  <2>1. EventsTypeOK'
    BY <1>1, <1>3, <1>5 DEF EventsInv, PublisherInv, EventsTypeOK
  <2>2. snapshot'.life > 0 /\ snapshot'.life <= publisher'.life /\ snapshot'.seq = publisher'.seq
    BY <1>1, <1>2, <1>3, <1>5
  <2> QED BY <1>1, <1>5, <2>1, <2>2 DEF PublisherInv
<1>8. BridgeInv'
  <2>1. ToCome'
    BY <1>4, <1>5 DEF ToCome, None
  <2>2. snapshot \in Event /\ consumer \in Event /\ inbox \in Seq(Event)
    BY DEF EventsInv, PublisherInv, EventsTypeOK
  <2>3. NotAfter(consumer, event)
    <3>1. NotAfter(consumer, snapshot)
      BY DEF EventsInv, BridgeInv
    <3> QED BY <1>3, <1>6, <2>2, <3>1, NewerIsTransitive
  <2>4. ASSUME NEW i \in 1..Len(inbox) PROVE NotAfter(inbox[i], event)
    <3>1. inbox[i] \in Event /\ NotAfter(inbox[i], snapshot)
      BY <2>2 DEF EventsInv, BridgeInv
    <3> QED BY <1>3, <1>6, <2>2, <3>1, NewerIsTransitive
  <2> QED BY <1>1, <2>1, <2>3, <2>4 DEF EventsInv, BridgeInv
<1> QED BY <1>7, <1>8 DEF EventsInv

LEMMA SendDatagramKeeps == EventsInv /\ SendDatagram => EventsInv'
<1> SUFFICES ASSUME EventsInv, SendDatagram PROVE EventsInv'
  OBVIOUS
<1>1. /\ publisher.sending # None /\ publisher' = [publisher EXCEPT !.sending = None]
      /\ UNCHANGED <<snapshot, aged, bridge, consumer, delivered, display, screen>>
  BY DEF SendDatagram
<1>2. publisher.sending = snapshot /\ snapshot \in Event /\ inbox \in Seq(Event)
  BY <1>1 DEF EventsInv, PublisherInv, EventsTypeOK
<1>3. /\ publisher' \in [life : 0..MaxLives, seq : 0..MaxEvents, sending : Event]
      /\ publisher'.life = publisher.life /\ publisher'.seq = publisher.seq
      /\ publisher'.sending = None
  BY <1>1, NoneIsAnEvent DEF EventsInv, PublisherInv, EventsTypeOK
<1>4. CASE bridge.at = "down" /\ UNCHANGED inbox
  <2>1. EventsTypeOK'
    BY <1>1, <1>3, <1>4 DEF EventsInv, PublisherInv, EventsTypeOK
  <2>2. PublisherInv'
    BY <1>1, <1>3, <2>1 DEF EventsInv, PublisherInv
  <2>3. BridgeInv'
    BY <1>1, <1>4 DEF EventsInv, BridgeInv
  <2> QED BY <2>2, <2>3 DEF EventsInv
<1>5. CASE Len(inbox) < InboxSize /\ inbox' = Append(inbox, snapshot)
  <2>1. /\ inbox' \in Seq(Event) /\ Len(inbox') = Len(inbox) + 1 /\ Len(inbox') <= InboxSize
        /\ inbox'[Len(inbox) + 1] = snapshot
        /\ \A i \in 1..Len(inbox) : inbox'[i] = inbox[i]
    BY <1>2, <1>5, EventsAssumption
  <2>2. EventsTypeOK'
    BY <1>1, <1>3, <2>1 DEF EventsInv, PublisherInv, EventsTypeOK
  <2>3. PublisherInv'
    BY <1>1, <1>3, <2>2 DEF EventsInv, PublisherInv
  <2>4. Len(inbox) \in Nat
    BY <1>2
  <2>5. ToCome'
    BY <1>1, <2>1, <2>4 DEF ToCome
  <2>6. ASSUME NEW i \in 1..Len(inbox') PROVE NotAfter(inbox'[i], snapshot)
    <3>1. CASE i = Len(inbox) + 1
      BY <2>1, <3>1 DEF NotAfter
    <3>2. CASE i \in 1..Len(inbox)
      BY <2>1, <3>2 DEF EventsInv, BridgeInv
    <3> QED BY <2>1, <2>4, <3>1, <3>2
  <2>7. BridgeInv'
    BY <1>1, <2>5, <2>6 DEF EventsInv, BridgeInv
  <2> QED BY <2>3, <2>7 DEF EventsInv
<1> QED BY <1>2, <1>4, <1>5 DEF SendDatagram

(* Steps of the bridge and of the display leave the publisher and the        *)
(* snapshot alone.                                                           *)
LEMMA BridgeStepsKeep ==
  ASSUME EventsInv, UNCHANGED <<publisher, snapshot>>,
         EventsTypeOK', BridgeInv'
  PROVE  EventsInv'
BY DEF EventsInv, PublisherInv

LEMMA BindsKeeps == EventsInv /\ BridgeBinds => EventsInv'
<1> SUFFICES ASSUME EventsInv, BridgeBinds PROVE EventsInv'
  OBVIOUS
<1>1. /\ bridge' = [at |-> "bound", starts |-> bridge.starts + 1] /\ bridge.starts < MaxLives
      /\ inbox' = <<>> /\ consumer' = None /\ delivered' = FALSE
      /\ UNCHANGED <<publisher, snapshot, aged, display, screen>>
  BY DEF BridgeBinds
<1>2. bridge' \in [at : {"down", "bound", "serving"}, starts : 0..MaxLives] /\ bridge'.at = "bound"
  BY <1>1, EventsAssumption DEF EventsInv, PublisherInv, EventsTypeOK
<1>3. inbox' \in Seq(Event) /\ Len(inbox') = 0 /\ Len(inbox') <= InboxSize
  BY <1>1, EventsAssumption
<1>4. EventsTypeOK'
  BY <1>1, <1>2, <1>3, NoneIsAnEvent DEF EventsInv, PublisherInv, EventsTypeOK
<1>5. NotAfter(None, snapshot)
  <2>1. snapshot = None \/ snapshot.life > 0
    BY DEF EventsInv, PublisherInv
  <2> QED BY <2>1, NoneIsAnEvent DEF NotAfter, Newer
<1>6. BridgeInv'
  BY <1>1, <1>2, <1>3, <1>5 DEF BridgeInv
<1> QED BY <1>1, <1>4, <1>6, BridgeStepsKeep

LEMMA ReconcileKeeps == EventsInv /\ Reconcile => EventsInv'
<1> SUFFICES ASSUME EventsInv, Reconcile PROVE EventsInv'
  OBVIOUS
<1>1. /\ bridge.at = "bound" /\ bridge' = [bridge EXCEPT !.at = "serving"]
      /\ UNCHANGED <<publisher, snapshot, aged, inbox, display>>
  BY DEF Reconcile
<1>2. bridge' \in [at : {"down", "bound", "serving"}, starts : 0..MaxLives] /\ bridge'.at = "serving"
  BY <1>1 DEF EventsInv, PublisherInv, EventsTypeOK
<1>3. /\ snapshot \in Event /\ consumer = None /\ (inbox = <<>> \/ ToCome)
      /\ display \in BOOLEAN /\ screen \in Event
      /\ \A i \in 1..Len(inbox) : NotAfter(inbox[i], snapshot)
      /\ NotAfter(consumer, snapshot)
  BY <1>1 DEF EventsInv, PublisherInv, BridgeInv, EventsTypeOK
<1>4. /\ consumer' = snapshot \/ (consumer' = None /\ (snapshot = None \/ aged))
      /\ Deliver(consumer')
  BY <1>3 DEF Reconcile
<1>5. /\ consumer' \in Event /\ NotAfter(consumer', snapshot)
  BY <1>3, <1>4, NoneIsAnEvent DEF NotAfter
<1>6. delivered' \in BOOLEAN /\ screen' \in Event /\ (delivered' => screen' = consumer')
  BY <1>3, <1>4, <1>5 DEF Deliver
<1>7. EventsTypeOK'
  BY <1>1, <1>2, <1>5, <1>6 DEF EventsInv, PublisherInv, EventsTypeOK
<1>8. consumer' = snapshot \/ ToCome' \/ (aged /\ consumer' = None /\ inbox = <<>>)
  BY <1>1, <1>3, <1>4 DEF ToCome
<1>9. BridgeInv'
  BY <1>1, <1>2, <1>3, <1>5, <1>6, <1>8 DEF BridgeInv
<1> QED BY <1>1, <1>7, <1>9, BridgeStepsKeep

LEMMA ReceiveKeeps == EventsInv /\ Receive => EventsInv'
<1> SUFFICES ASSUME EventsInv, Receive PROVE EventsInv'
  OBVIOUS
<1> DEFINE head == Head(inbox)
<1>1. /\ bridge.at = "serving" /\ inbox # <<>> /\ inbox' = Tail(inbox)
      /\ UNCHANGED <<publisher, snapshot, aged, bridge, display>>
      /\ \/ Newer(head, consumer) /\ consumer' = head /\ Deliver(head)
         \/ ~Newer(head, consumer) /\ UNCHANGED <<consumer, delivered, screen>>
  BY DEF Receive, Acceptable
<1>2. /\ inbox \in Seq(Event) /\ Len(inbox) \in Nat /\ Len(inbox) >= 1 /\ Len(inbox) <= InboxSize
      /\ snapshot \in Event /\ consumer \in Event /\ screen \in Event
      /\ display \in BOOLEAN /\ delivered \in BOOLEAN
  <2>1. /\ inbox \in Seq(Event) /\ Len(inbox) <= InboxSize
        /\ snapshot \in Event /\ consumer \in Event /\ screen \in Event
        /\ display \in BOOLEAN /\ delivered \in BOOLEAN
    BY DEF EventsInv, PublisherInv, EventsTypeOK
  <2> QED BY <1>1, <2>1
<1>3. /\ inbox' \in Seq(Event) /\ Len(inbox') = Len(inbox) - 1
      /\ \A i \in 1..Len(inbox') : inbox'[i] = inbox[i + 1]
      /\ head \in Event /\ head = inbox[1]
  BY <1>1, <1>2
<1> HIDE DEF head
<1>4. NotAfter(head, snapshot) /\ NotAfter(consumer, snapshot)
  BY <1>2, <1>3 DEF EventsInv, BridgeInv
<1>5. \A i \in 1..Len(inbox') : NotAfter(inbox'[i], snapshot)
  <2>1. ASSUME NEW i \in 1..Len(inbox') PROVE i + 1 \in 1..Len(inbox)
    BY <1>2, <1>3
  <2> QED BY <1>3, <2>1 DEF EventsInv, BridgeInv
<1>6. /\ consumer' \in Event /\ NotAfter(consumer', snapshot)
      /\ delivered' \in BOOLEAN /\ screen' \in Event /\ (delivered' => screen' = consumer')
  <2>1. delivered => screen = consumer
    BY <1>1 DEF EventsInv, BridgeInv
  <2> QED BY <1>1, <1>2, <1>3, <1>4, <2>1 DEF Deliver
<1>7. EventsTypeOK'
  <2>1. Len(inbox') <= InboxSize
    BY <1>2, <1>3, EventsAssumption
  <2> QED BY <1>1, <1>3, <1>6, <2>1 DEF EventsInv, PublisherInv, EventsTypeOK
<1>8. consumer' = snapshot \/ ToCome'
  <2>1. CASE consumer = snapshot
    <3>1. ~Newer(head, snapshot)
      <4>1. head \in Event /\ snapshot \in Event
        BY <1>2, <1>3
      <4>2. /\ head.life \in Nat /\ snapshot.life \in Nat
            /\ head.seq \in Nat /\ snapshot.seq \in Nat
        BY <4>1, EventsAssumption DEF Event
      <4> QED BY <1>4, <4>2 DEF NotAfter, Newer
    <3> QED BY <1>1, <2>1, <3>1
  <2>2. CASE publisher.sending # None \/ snapshot.life < publisher.life
    BY <1>1, <2>2 DEF ToCome
  <2>3. ASSUME NEW i \in 1..Len(inbox), inbox[i] = snapshot PROVE consumer' = snapshot \/ ToCome'
    <3>1. CASE i = 1
      <4>1. head = snapshot
        BY <1>3, <2>3, <3>1
      <4> QED BY <1>1, <1>4, <4>1 DEF NotAfter
    <3>2. CASE i > 1
      <4>1. i - 1 \in 1..Len(inbox') /\ inbox'[i - 1] = snapshot
        BY <1>2, <1>3, <2>3, <3>2
      <4> QED BY <1>1, <4>1 DEF ToCome
    <3> QED BY <3>1, <3>2
  <2>4. consumer = snapshot \/ ToCome
    BY <1>1 DEF EventsInv, BridgeInv
  <2> QED BY <2>1, <2>2, <2>3, <2>4 DEF ToCome
<1>9. BridgeInv'
  BY <1>1, <1>5, <1>6, <1>8 DEF BridgeInv
<1> QED BY <1>1, <1>7, <1>9, BridgeStepsKeep

LEMMA RestKeeps ==
  EventsInv /\ (SnapshotAges \/ Retry \/ BridgeDies \/ DisplayStarts \/ UNCHANGED eventVars)
    => EventsInv'
<1> SUFFICES ASSUME EventsInv, SnapshotAges \/ Retry \/ BridgeDies \/ DisplayStarts \/ UNCHANGED eventVars
             PROVE  EventsInv'
  OBVIOUS
<1>1. UNCHANGED <<publisher, snapshot, inbox, consumer>>
  BY DEF SnapshotAges, Retry, BridgeDies, DisplayStarts, eventVars
<1>2. ToCome' = ToCome
  BY <1>1 DEF ToCome
<1>3. CASE SnapshotAges \/ DisplayStarts \/ UNCHANGED eventVars
  <2>1. /\ UNCHANGED <<bridge, delivered, screen>> /\ aged' \in BOOLEAN /\ display' \in BOOLEAN
        /\ aged => aged'
    BY <1>3 DEF SnapshotAges, DisplayStarts, eventVars, EventsInv, PublisherInv, EventsTypeOK
  <2>2. EventsTypeOK'
    BY <1>1, <2>1 DEF EventsInv, PublisherInv, EventsTypeOK
  <2>3. BridgeInv'
    BY <1>1, <1>2, <2>1 DEF EventsInv, BridgeInv
  <2> QED BY <1>1, <2>2, <2>3, BridgeStepsKeep
<1>4. CASE Retry
  <2>1. UNCHANGED <<aged, bridge, display>> /\ Deliver(consumer)
    BY <1>4 DEF Retry
  <2>2. delivered' \in BOOLEAN /\ screen' \in Event /\ (delivered' => screen' = consumer)
    BY <2>1 DEF Deliver, EventsInv, PublisherInv, EventsTypeOK
  <2>3. EventsTypeOK'
    BY <1>1, <2>1, <2>2 DEF EventsInv, PublisherInv, EventsTypeOK
  <2>4. BridgeInv'
    BY <1>1, <1>2, <2>1, <2>2 DEF EventsInv, BridgeInv
  <2> QED BY <1>1, <2>3, <2>4, BridgeStepsKeep
<1>5. CASE BridgeDies
  <2>1. bridge' = [bridge EXCEPT !.at = "down"] /\ UNCHANGED <<aged, delivered, display, screen>>
    BY <1>5 DEF BridgeDies
  <2>2. bridge' \in [at : {"down", "bound", "serving"}, starts : 0..MaxLives] /\ bridge'.at = "down"
    BY <2>1 DEF EventsInv, PublisherInv, EventsTypeOK
  <2>3. EventsTypeOK'
    BY <1>1, <2>1, <2>2 DEF EventsInv, PublisherInv, EventsTypeOK
  <2>4. BridgeInv'
    BY <1>1, <2>2 DEF EventsInv, BridgeInv
  <2> QED BY <1>1, <2>3, <2>4, BridgeStepsKeep
<1> QED BY <1>3, <1>4, <1>5

LEMMA NextEventsInv == EventsInv /\ [EventsNext]_eventVars => EventsInv'
BY PublisherStartsKeeps, PublishKeeps, SendDatagramKeeps, BindsKeeps, ReconcileKeeps,
   ReceiveKeeps, RestKeeps
DEF EventsNext, BridgeStep

(* Whatever was lost while the bridge was down or before the display         *)
(* listened: when nothing is on its way, the screen is right.                *)
THEOREM ScreenIsRightAtRest == EventsSpec => []QuietScreenIsRight
<1>1. EventsInv => QuietScreenIsRight
  <2> SUFFICES ASSUME EventsInv, bridge.at = "serving", delivered, inbox = <<>>,
                      publisher.sending = None, publisher.life = snapshot.life
               PROVE  screen = snapshot \/ (aged /\ screen = None)
    BY DEF QuietScreenIsRight
  <2>1. screen = consumer
    BY DEF EventsInv, BridgeInv
  <2>2. ~ToCome
    <3>1. snapshot.life \in Nat
      BY EventsAssumption DEF EventsInv, PublisherInv, EventsTypeOK, Event
    <3> QED BY <3>1 DEF ToCome
  <2> QED BY <2>1, <2>2 DEF EventsInv, BridgeInv
<1> QED BY <1>1, InitEventsInv, NextEventsInv, PTL DEF EventsSpec
------------------------------------------------------------------------------
(* Provisioning.                                                            *)

(* A hotspot that nmcli reported as started and that nobody has told it to   *)
(* take down is remembered before the loop looks at the link again, and      *)
(* remembered in a mode the loop leaves when the network is back             *)
(* (start_hotspot, activate, step): what HotspotEnds rests on.  A hotspot    *)
(* that came up or stayed up against nmcli's report is "left", and not meant.*)
HotspotIsKnown ==
  hotspot = "up" => stepping = "started" \/ (service.hotspot /\ service.mode # "inactive")

ProvisioningInv ==
  /\ ProvisioningTypeOK
  /\ HotspotIsKnown
  /\ service.hotspot => service.mode # "inactive"

LEMMA InitProvisioningInv == ProvisioningInit => ProvisioningInv
<1> SUFFICES ASSUME ProvisioningInit PROVE ProvisioningInv
  OBVIOUS
<1>1. service \in [mode : {"inactive", "lan", "hotspot", "error"},
                   phase : {"idle", "waiting", "applying", "failed", "complete"},
                   hotspot : BOOLEAN, offline : {"no", "since", "long"}]
      /\ service.hotspot = FALSE
  BY DEF ProvisioningInit, NoSetup
<1>2. status \in [active : BOOLEAN, ssid : BOOLEAN]
  BY DEF ProvisioningInit, NoSetup, File
<1>3. /\ link = "online" /\ radio \in BOOLEAN /\ hotspot = "down" /\ stepping = "waiting"
      /\ applying = "none" /\ setupScreen \in BOOLEAN /\ toggle = "none"
  BY DEF ProvisioningInit
<1> QED BY <1>1, <1>2, <1>3 DEF ProvisioningInv, ProvisioningTypeOK, HotspotIsKnown

LEMMA NextProvisioningInv ==
  ProvisioningInv /\ [ProvisioningNext]_provisioningVars => ProvisioningInv'
<1> SUFFICES ASSUME ProvisioningInv, [ProvisioningNext]_provisioningVars
             PROVE  ProvisioningInv'
  OBVIOUS
<1> USE DEF ProvisioningInv, ProvisioningTypeOK, HotspotIsKnown
<1>1. CASE Probes
  <2>1. UNCHANGED <<network, applying, status, onDisplay>>
    BY <1>1 DEF Probes
  <2>2. /\ stepping = "waiting" /\ stepping' \in {"waiting", "leaving", "hotspot", "page"}
        /\ \/ service' = service
           \/ service' = [service EXCEPT !.offline = "no"]
           \/ service' = [service EXCEPT !.offline = "since"]
    BY <1>1 DEF Probes
  <2>3. /\ service' \in [mode : {"inactive", "lan", "hotspot", "error"},
                         phase : {"idle", "waiting", "applying", "failed", "complete"},
                         hotspot : BOOLEAN, offline : {"no", "since", "long"}]
        /\ service'.mode = service.mode /\ service'.hotspot = service.hotspot
    BY <2>2
  <2> QED BY <2>1, <2>2, <2>3 DEF network, onDisplay
<1>2. CASE GraceEnds
  BY <1>2 DEF GraceEnds, network, onDisplay
<1>3. CASE StartsHotspot
  <2>1. UNCHANGED <<link, radio, applying, setupScreen, toggle>> /\ stepping = "hotspot"
    BY <1>3 DEF StartsHotspot, onDisplay
  <2>2. CASE service.hotspot
    BY <1>3, <2>1, <2>2 DEF StartsHotspot
  <2>3. CASE ~service.hotspot /\ hotspot' = "up" /\ stepping' = "started" /\ UNCHANGED <<service, status>>
    BY <2>1, <2>3
  <2>4. CASE /\ ~service.hotspot /\ hotspot' \in {"down", "left"} /\ stepping' = "waiting"
             /\ service' = [service EXCEPT !.mode = "error", !.phase = "failed"]
             /\ status' = File(TRUE, service')
    BY <2>1, <2>4 DEF File
  <2> QED BY <1>3, <2>2, <2>3, <2>4 DEF StartsHotspot
<1>4. CASE Announces
  <2> PICK drawn \in BOOLEAN :
        service' = [service EXCEPT !.hotspot = Remembers(drawn),
                                   !.mode = IF Remembers(drawn) THEN "hotspot" ELSE "lan",
                                   !.phase = IF drawn THEN "waiting" ELSE "failed"]
    BY <1>4 DEF Announces
  <2>1. Remembers(drawn) = (stepping = "started" \/ service.hotspot)
    BY DEF Remembers
  <2>2. /\ service' \in [mode : {"inactive", "lan", "hotspot", "error"},
                         phase : {"idle", "waiting", "applying", "failed", "complete"},
                         hotspot : BOOLEAN, offline : {"no", "since", "long"}]
        /\ service'.hotspot = (stepping = "started" \/ service.hotspot)
        /\ service'.mode # "inactive"
    BY <2>1
  <2>3. UNCHANGED <<link, radio, hotspot, applying, setupScreen, toggle>>
        /\ stepping' = "waiting" /\ status' = File(TRUE, service')
    BY <1>4 DEF Announces, network, onDisplay
  <2>4. status' \in [active : BOOLEAN, ssid : BOOLEAN]
    BY <2>2, <2>3 DEF File
  <2>5. hotspot = "up" => service'.hotspot /\ service'.mode # "inactive"
    BY <2>2
  <2> QED BY <2>2, <2>3, <2>4, <2>5
<1>5. CASE Deactivates
  BY <1>5 DEF Deactivates, StopsHotspot, NoSetup, File, onDisplay
<1>6. CASE Posts
  BY <1>6 DEF Posts, File, network, onDisplay
<1>7. CASE LeavesHotspot
  <2>1. /\ applying' = "connecting" /\ UNCHANGED <<link, radio, stepping, status, setupScreen, toggle>>
        /\ service' = [service EXCEPT !.hotspot = FALSE]
        /\ hotspot' \in {"down", "left"} \/ (hotspot' = hotspot /\ (~service.hotspot \/ hotspot = "down"))
    BY <1>7 DEF LeavesHotspot, StopsHotspot, onDisplay
  <2>2. /\ service' \in [mode : {"inactive", "lan", "hotspot", "error"},
                         phase : {"idle", "waiting", "applying", "failed", "complete"},
                         hotspot : BOOLEAN, offline : {"no", "since", "long"}]
        /\ ~service'.hotspot
    BY <2>1
  <2>3. hotspot' = "up" => stepping' = "started"
    BY <2>1
  <2> QED BY <2>1, <2>2, <2>3
<1>8. CASE ConnectsWifi
  <2>1. UNCHANGED <<link, radio, stepping, setupScreen, toggle>> /\ applying' = "none"
        /\ status' = File(TRUE, service')
    BY <1>8 DEF ConnectsWifi, onDisplay
  <2>2. CASE /\ hotspot' = "down"
             /\ service' = [service EXCEPT !.mode = "lan", !.phase = "complete", !.offline = "no"]
    BY <2>1, <2>2 DEF File
  <2>3. CASE service' = [service EXCEPT !.phase = "failed"] /\ hotspot' \in {hotspot, "down"}
    BY <2>1, <2>3 DEF File
  <2> QED BY <1>8, <2>2, <2>3 DEF ConnectsWifi
<1>9. CASE ServiceRestarts
  BY <1>9 DEF ServiceRestarts, NoSetup, File, onDisplay
<1>10. CASE ReadsProvisioning \/ TogglesWifi
  BY <1>10 DEF ReadsProvisioning, TogglesWifi, network
<1>11. CASE WifiToggled
  <2>1. radio' \in BOOLEAN /\ (hotspot' = "down" \/ hotspot' = hotspot) /\ toggle' = "none"
    BY <1>11 DEF WifiToggled
  <2>2. UNCHANGED <<link, service, stepping, applying, status, setupScreen>>
    BY <1>11 DEF WifiToggled
  <2> QED BY <2>1, <2>2
<1>12. CASE LinkChanges
  BY <1>12 DEF LinkChanges, onDisplay
<1>13. CASE UNCHANGED provisioningVars
  BY <1>13 DEF provisioningVars
<1> QED
  BY <1>1, <1>2, <1>3, <1>4, <1>5, <1>6, <1>7, <1>8, <1>9, <1>10, <1>11, <1>12, <1>13
  DEF ProvisioningNext, ServiceLoop

(* The service never loses sight of a hotspot that nmcli reported as started *)
(* until it has nmcli take it down, whatever its loop, a posted              *)
(* configuration and the Wi-Fi switch do in between.                         *)
THEOREM HotspotHasItsOwner == ProvisioningSpec => []HotspotIsKnown
<1>1. ProvisioningInv => HotspotIsKnown
  BY DEF ProvisioningInv
<1> QED BY <1>1, InitProvisioningInv, NextProvisioningInv, PTL DEF ProvisioningSpec
==============================================================================
