--------------------------- MODULE ShutterProofs ---------------------------
(***************************************************************************)
(* Theorems about Shutter, for any set of shutters, any durations, any     *)
(* latency of the workqueue, and, where they say so, with or without the   *)
(* argument checks.                                                        *)
(***************************************************************************)
EXTENDS Shutter, TLAPS

USE DEF EventTime, WorkState, Unscheduled, Idle

-----------------------------------------------------------------------------
(* Type correctness *)

\* UINT16_MAX stays folded from here on: the provers would list the words.
LEMMA WordRange ==
    /\ Word \subseteq Nat
    /\ 0 \in Word
    /\ \A x \in Int : x % (UINT16_MAX + 1) \in Word
<1>1. UINT16_MAX \in Nat
  BY SMT DEF UINT16_MAX
<1> QED
  BY <1>1, SMT DEF Word

LEMMA Arithmetic ==
    /\ Travel \in Nat
    /\ Travel + ExtraTicks \in Word
    /\ \A x \in Int : U16(x) \in Word
    /\ Byte \subseteq Nat
    /\ Word \subseteq Nat
    /\ 0 \in Byte /\ 0 \in Word
<1>1. Travel \in Nat /\ Travel + ExtraTicks \in Word
  BY ShutterAssumption, SMT DEF Travel
<1>2. \A x \in Int : U16(x) \in Word
  BY WordRange, Zenon DEF U16
<1>3. Byte \subseteq Nat /\ 0 \in Byte
  BY SMT DEF Byte
<1> QED
  BY <1>1, <1>2, <1>3, WordRange

LEMMA RunDirectionType ==
    ASSUME NEW r \in ShutterState, NEW dir \in Directions
    PROVE  RunDirection(r, dir) \in ShutterState
<1> DEFINE p == (dir = "OPENNING")
           n == (dir = "CLOSING")
<1>1. RunDirection(r, dir) = [r EXCEPT !.pos = p, !.neg = n]
  BY DEF RunDirection
<1>2. p \in BOOLEAN /\ n \in BOOLEAN
  OBVIOUS
<1> HIDE DEF p, n
<1> QED
  BY <1>1, <1>2 DEF ShutterState

LEMMA DurationType ==
    ASSUME NEW r \in ShutterState, NEW openness \in Byte
    PROVE  Duration(r, openness) \in Word
<1>1. Relative(r, openness) \in Int
  <2>1. openness \in Int /\ r.openness \in Int
    <3>1. openness \in Byte /\ r.openness \in Byte
      BY DEF ShutterState
    <3>2. \A b \in Byte : b \in Int
      BY SMT DEF Byte
    <3> QED
      BY <3>1, <3>2
  <2>2. \A x \in Int : Int8(x) \in Int
    BY SMT DEF Int8
  <2> QED
    BY <2>1, <2>2 DEF Relative
<1>2. Magnitude(Relative(r, openness)) \in Word
  <2>1. \A x \in Int : Int8(x) \in Int
    BY SMT DEF Int8
  <2> QED
    BY <1>1, <2>1, Arithmetic DEF Magnitude
<1>3. UnitTicks * Magnitude(Relative(r, openness)) \in Int
  <2>1. \A a, b \in Nat : a * b \in Int
    OBVIOUS
  <2> QED
    BY <1>2, <2>1, Arithmetic, ShutterAssumption
<1> QED
  BY <1>3, Arithmetic DEF Duration

LEMMA SetOpennessType ==
    ASSUME NEW r \in ShutterState, NEW openness \in Byte
    PROVE  SetOpenness(r, openness) \in ShutterState
<1> DEFINE marked   == [r EXCEPT !.openness = openness, !.flag = TRUE]
           dir      == Direction(r, openness)
           duration == Duration(r, openness)
<1>1. marked \in ShutterState
  BY DEF ShutterState
<1>2. dir \in Directions
  BY DEF Direction, Directions
<1>3. duration \in Word
  BY DurationType
<1>4. StartNow(marked, dir, duration) \in ShutterState
  <2>1. RunDirection(marked, dir) \in ShutterState
    BY <1>1, <1>2, RunDirectionType
  <2> HIDE DEF marked, dir, duration
  <2> QED
    BY <1>3, <2>1, Arithmetic DEF StartNow, Schedule, ShutterState, Directions
<1>5. StartLater(marked, dir, duration) \in ShutterState
  <2> HIDE DEF marked, dir, duration
  <2> QED
    BY <1>1, <1>2, <1>3, ShutterAssumption, Arithmetic DEF StartLater, Schedule, ShutterState
<1> QED
  BY <1>4, <1>5 DEF SetOpenness

LEMMA EventCbType ==
    ASSUME NEW r \in ShutterState
    PROVE  EventCb(r) \in ShutterState
BY DEF EventCb, Submit, ShutterState

LEMMA EventHandlerType ==
    ASSUME NEW r \in ShutterState
    PROVE  EventHandler(r) \in ShutterState
<1> DEFINE run == [RunDirection(r, r.state) EXCEPT !.work = Idle]
<1>1. RunDirection(r, r.state) \in ShutterState
  BY RunDirectionType DEF ShutterState
<1>2. run \in ShutterState
  BY <1>1 DEF ShutterState
<1>3. EventHandler(r) =
        IF r.state = "STOPPED" THEN [run EXCEPT !.flag = FALSE]
        ELSE [run EXCEPT !.state = "STOPPED", !.ev = Schedule(@, r.duration)]
  BY DEF EventHandler
<1>4. "STOPPED" \in Directions
  BY DEF Directions
<1> HIDE DEF run
<1>5. Schedule(run.ev, r.duration) \in EventTime
  <2>1. r.duration \in Nat
    BY Arithmetic DEF ShutterState
  <2>2. run.ev \in EventTime
    BY <1>2 DEF ShutterState
  <2> QED
    BY <2>1, <2>2 DEF Schedule
<1>6. [run EXCEPT !.flag = FALSE] \in ShutterState
  BY <1>2 DEF ShutterState
<1>7. [run EXCEPT !.state = "STOPPED", !.ev = Schedule(@, r.duration)] \in ShutterState
  BY <1>2, <1>4, <1>5 DEF ShutterState
<1> QED
  BY <1>3, <1>6, <1>7

LEMMA AgeType ==
    ASSUME NEW r \in ShutterState, ~Expired(r.ev)
    PROVE  Age(r) \in ShutterState
<1>1. Elapse(r.ev) \in EventTime /\ Wait(r.work) \in WorkState
  BY DEF Expired, Elapse, Wait, ShutterState
<1> QED
  BY <1>1 DEF Age, ShutterState

LEMMA CommandType ==
    ASSUME NEW cmds \in [Shutters -> Commands \cup {None}], NEW s \in Shutters,
           cmds[s] # None
    PROVE  cmds[s] \in Byte /\ cmds[s] \in Commands
BY ShutterAssumption

\* Every operation leaves well-formed shutters: openness and durations within
\* their bytes, delays that are natural numbers, positions within the travel.
THEOREM TypeCorrect == Spec => []TypeOK
<1>1. Init => TypeOK
  <2> SUFFICES ASSUME Init PROVE TypeOK
    OBVIOUS
  <2>1. InitialShutter \in ShutterState
    BY Arithmetic DEF InitialShutter, ShutterState, Directions
  <2>2. 0 \in 0..StartupTicks /\ Travel \in 0..Travel
    BY Arithmetic, ShutterAssumption
  <2> QED
    BY <2>1, <2>2 DEF Init, TypeOK
<1>2. TypeOK /\ [Next]_vars => TypeOK'
  <2> SUFFICES ASSUME TypeOK, [Next]_vars
               PROVE  TypeOK'
    OBVIOUS
  <2> USE DEF TypeOK
  <2>1. ASSUME NEW cmds \in [Shutters -> Commands \cup {None}], AppCommand(cmds)
        PROVE  TypeOK'
    <3>1. sh' \in [Shutters -> ShutterState]
      BY <2>1, CommandType, SetOpennessType DEF AppCommand
    <3>2. power' \in BOOLEAN
      BY <2>1 DEF AppCommand
    <3>3. settle' \in 0..StartupTicks
      BY <2>1, ShutterAssumption DEF AppCommand
    <3> QED
      BY <2>1, <3>1, <3>2, <3>3 DEF AppCommand
  <2>2. ASSUME NEW s \in Shutters, EventFires(s)
        PROVE  TypeOK'
    BY <2>2, EventCbType DEF EventFires
  <2>3. ASSUME NEW s \in Shutters, WorkRuns(s)
        PROVE  TypeOK'
    <3>1. sh' \in [Shutters -> ShutterState]
      BY <2>3, EventHandlerType DEF WorkRuns
    <3>2. powered' \in BOOLEAN /\ power' \in BOOLEAN
      BY <2>3 DEF WorkRuns, AnyRunning
    <3>3. SlackAfter(sh[s], slack[s]) \in 0..Travel
      BY <2>3, Arithmetic DEF SlackAfter, WorkRuns, ShutterState
    <3>4. slack' \in [Shutters -> 0..Travel]
      BY <2>3, <3>3 DEF WorkRuns
    <3> QED
      BY <2>3, <3>1, <3>2, <3>4 DEF WorkRuns
  <2>4. ASSUME Tick
        PROVE  TypeOK'
    <3>1. sh' \in [Shutters -> ShutterState]
      BY <2>4, AgeType DEF Tick
    <3>2. settle' \in 0..StartupTicks
      BY <2>4, ShutterAssumption DEF Tick
    <3>3. \A s \in Shutters : Moved(sh[s], real[s]) \in 0..Travel
      BY Arithmetic DEF Moved
    <3> QED
      BY <2>4, <3>1, <3>2, <3>3 DEF Tick
  <2>5. CASE UNCHANGED vars
    BY <2>5 DEF vars
  <2> QED
    BY <2>1, <2>2, <2>3, <2>4, <2>5 DEF Next
<1> QED
  BY <1>1, <1>2, PTL DEF Spec

-----------------------------------------------------------------------------
(* Running shutters are tracked, with or without the argument checks *)

\* A shutter that runs, is driven or is about to be is marked, and has a step
\* on its way.
Tracked(r) ==
    r.flag \/ Driven(r) \/ r.state # "STOPPED" =>
        r.flag /\ (Scheduled(r) \/ Queued(r))

\* The power is on whenever a shutter runs, and the driver knows of it only then.
PowerFollows ==
    /\ AnyRunning(sh) => power
    /\ powered => AnyRunning(sh)

LEMMA DurationIsDelay ==
    ASSUME NEW r \in ShutterState, NEW openness \in Byte
    PROVE  Duration(r, openness) \in Nat
<1>1. Duration(r, openness) \in Word
  BY DurationType
<1>2. \A w \in Word : w \in Nat
  BY Arithmetic
<1> QED
  BY <1>1, <1>2

\* What an accepted command leaves behind.
LEMMA SetOpennessTracks ==
    ASSUME NEW r \in ShutterState, NEW openness \in Byte, Accepted(r, openness)
    PROVE  /\ SetOpenness(r, openness).flag
           /\ Scheduled(SetOpenness(r, openness))
           /\ SetOpenness(r, openness).work = r.work
<1> DEFINE marked   == [r EXCEPT !.openness = openness, !.flag = TRUE]
           dir      == Direction(r, openness)
           duration == Duration(r, openness)
<1>1. duration \in Nat
  BY DurationIsDelay
<1>2. SetOpenness(r, openness) =
        IF powered THEN StartNow(marked, dir, duration)
        ELSE StartLater(marked, dir, duration)
  BY DEF SetOpenness
<1>3. /\ StartNow(marked, dir, duration).flag
      /\ Scheduled(StartNow(marked, dir, duration))
      /\ StartNow(marked, dir, duration).work = r.work
  <2> HIDE DEF dir, duration
  <2> QED
    BY <1>1 DEF StartNow, RunDirection, Schedule, Scheduled, ShutterState
<1>4. /\ StartLater(marked, dir, duration).flag
      /\ Scheduled(StartLater(marked, dir, duration))
      /\ StartLater(marked, dir, duration).work = r.work
  <2> HIDE DEF dir, duration
  <2> QED
    BY <1>1, ShutterAssumption DEF StartLater, Schedule, Scheduled, ShutterState
<1> HIDE DEF marked, dir, duration
<1> QED
  BY <1>2, <1>3, <1>4

\* What the handler leaves behind: a stopped shutter, or one whose stop is
\* scheduled.
LEMMA EventHandlerStops ==
    ASSUME NEW r \in ShutterState, r.state = "STOPPED"
    PROVE  /\ ~EventHandler(r).flag
           /\ ~Driven(EventHandler(r))
           /\ EventHandler(r).state = "STOPPED"
           /\ EventHandler(r).ev = r.ev
           /\ EventHandler(r).work = Idle
<1>1. EventHandler(r) = [r EXCEPT !.pos = FALSE, !.neg = FALSE, !.work = Idle,
                                  !.flag = FALSE]
  BY DEF EventHandler, RunDirection, ShutterState
<1> QED
  BY <1>1 DEF Driven, ShutterState

LEMMA EventHandlerStarts ==
    ASSUME NEW r \in ShutterState, r.state # "STOPPED"
    PROVE  /\ EventHandler(r).flag = r.flag
           /\ EventHandler(r).state = "STOPPED"
           /\ Scheduled(EventHandler(r))
           /\ EventHandler(r).work = Idle
<1>1. r.duration \in Nat
  <2>1. r.duration \in Word
    BY DEF ShutterState
  <2>2. \A w \in Word : w \in Nat
    BY Arithmetic
  <2> QED
    BY <2>1, <2>2
<1> QED
  BY <1>1 DEF EventHandler, RunDirection, Schedule, Scheduled, ShutterState

LEMMA EventCbTracks ==
    ASSUME NEW r \in ShutterState
    PROVE  /\ EventCb(r).flag = r.flag /\ EventCb(r).state = r.state
           /\ Driven(EventCb(r)) <=> Driven(r)
           /\ EventCb(r).pos = r.pos /\ EventCb(r).neg = r.neg
           /\ EventCb(r).ev = Unscheduled
           /\ Queued(EventCb(r))
BY DEF EventCb, Submit, Queued, Driven, ShutterState

LEMMA AgeTracks ==
    ASSUME NEW r \in ShutterState, ~Expired(r.ev)
    PROVE  /\ Age(r).flag = r.flag /\ Age(r).state = r.state
           /\ Driven(Age(r)) <=> Driven(r)
           /\ Scheduled(Age(r)) <=> Scheduled(r)
           /\ Queued(Age(r)) <=> Queued(r)
           /\ Scheduled(r) => Age(r).ev = r.ev - 1
           /\ Age(r).pos = r.pos /\ Age(r).neg = r.neg
BY DEF Age, Expired, Elapse, Wait, Scheduled, Queued, Driven, ShutterState

LEMMA CommandMoves ==
    ASSUME TypeOK, NEW cmds \in [Shutters -> Commands \cup {None}],
           AppCommand(cmds), NEW s \in Shutters
    PROVE  \/ sh'[s] = sh[s]
           \/ /\ cmds[s] # None /\ cmds[s] \in Byte
              /\ Accepted(sh[s], cmds[s])
              /\ sh'[s] = SetOpenness(sh[s], cmds[s])
              /\ powered \/ power'
BY CommandType DEF AppCommand, TypeOK

TrackInv ==
    /\ \A s \in Shutters : Tracked(sh[s])
    /\ PowerFollows
    /\ ~AnyRunning(sh) => ~power \/ \A s \in Shutters : Untouched(sh[s])

LEMMA TrackInvInit == Init => TrackInv
<1> SUFFICES ASSUME Init PROVE TrackInv
  OBVIOUS
<1>1. \A s \in Shutters : sh[s] = InitialShutter
  BY DEF Init
<1>2. \A s \in Shutters : Tracked(sh[s]) /\ ~sh[s].flag /\ Untouched(sh[s])
  <2>1. /\ ~InitialShutter.flag /\ InitialShutter.pos /\ InitialShutter.neg
        /\ InitialShutter.state = "STOPPED"
    BY DEF InitialShutter
  <2>2. InitialShutter.pos = InitialShutter.neg
    BY DEF InitialShutter
  <2> QED
    BY <1>1, <2>1, <2>2 DEF Tracked, Driven, Untouched
<1>3. ~powered /\ ~AnyRunning(sh)
  BY <1>2 DEF Init, AnyRunning
<1> QED
  BY <1>2, <1>3 DEF TrackInv, PowerFollows

LEMMA TrackInvNext == TypeOK /\ TrackInv /\ [Next]_vars => TrackInv'
<1> SUFFICES ASSUME TypeOK, TrackInv, [Next]_vars
             PROVE  TrackInv'
  OBVIOUS
<1>0. \A s \in Shutters : sh[s] \in ShutterState
  BY DEF TypeOK
<1>1. ASSUME NEW cmds \in [Shutters -> Commands \cup {None}], AppCommand(cmds)
      PROVE  TrackInv'
  <2>1. \A s \in Shutters : Tracked(sh'[s])
    BY <1>0, <1>1, CommandMoves, SetOpennessTracks DEF TrackInv, Tracked
  <2>2. \A s \in Shutters : sh[s].flag => sh'[s].flag
    BY <1>0, <1>1, CommandMoves, SetOpennessTracks
  <2>3. AnyRunning(sh) => AnyRunning(sh')
    BY <2>2 DEF AnyRunning
  <2>4. power => power'
    BY <1>1 DEF AppCommand
  <2>5. AnyRunning(sh') => power'
    <3> SUFFICES ASSUME NEW s \in Shutters, sh'[s].flag
                 PROVE  power'
      BY DEF AnyRunning
    <3>1. CASE sh'[s] = sh[s]
      BY <2>4, <3>1 DEF TrackInv, PowerFollows, AnyRunning
    <3>2. CASE powered \/ power'
      BY <2>4, <3>2 DEF TrackInv, PowerFollows
    <3> QED
      BY <1>1, <3>1, <3>2, CommandMoves
  <2>6. powered' => AnyRunning(sh')
    BY <1>1, <2>3 DEF AppCommand, TrackInv, PowerFollows
  <2>7. ~AnyRunning(sh') => ~power' \/ \A s \in Shutters : Untouched(sh'[s])
    <3> SUFFICES ASSUME ~AnyRunning(sh'), power'
                 PROVE  \A s \in Shutters : Untouched(sh'[s])
      OBVIOUS
    <3>1. \A s \in Shutters : sh'[s] = sh[s]
      BY <1>0, <1>1, CommandMoves, SetOpennessTracks DEF AnyRunning
    <3>2. \A s \in Shutters : cmds[s] # None => ~Accepted(sh[s], cmds[s])
      BY <1>0, <1>1, CommandType, SetOpennessTracks DEF AppCommand, AnyRunning
    <3>3. power
      BY <1>1, <3>2 DEF AppCommand
    <3> QED
      BY <2>3, <3>1, <3>3 DEF TrackInv
  <2> QED
    BY <2>1, <2>5, <2>6, <2>7 DEF TrackInv, PowerFollows
<1>2. ASSUME NEW s \in Shutters, EventFires(s)
      PROVE  TrackInv'
  <2>1. /\ sh'[s] = EventCb(sh[s])
        /\ \A t \in Shutters : t # s => sh'[t] = sh[t]
        /\ power' = power /\ powered' = powered
    BY <1>2 DEF EventFires, TypeOK
  <2>2. \A t \in Shutters : sh'[t].flag = sh[t].flag
    BY <1>0, <2>1, EventCbTracks
  <2>3. \A t \in Shutters : Tracked(sh'[t])
    BY <1>0, <2>1, EventCbTracks DEF TrackInv, Tracked
  <2>4. \A t \in Shutters : Untouched(sh[t]) => Untouched(sh'[t])
    BY <1>0, <2>1, EventCbTracks DEF Untouched
  <2>5. AnyRunning(sh') <=> AnyRunning(sh)
    BY <2>2 DEF AnyRunning
  <2> QED
    BY <2>1, <2>3, <2>4, <2>5 DEF TrackInv, PowerFollows
<1>3. ASSUME NEW s \in Shutters, WorkRuns(s)
      PROVE  TrackInv'
  <2>1. /\ sh'[s] = EventHandler(sh[s])
        /\ \A t \in Shutters : t # s => sh'[t] = sh[t]
        /\ powered' = AnyRunning(sh')
        /\ power' = (power /\ AnyRunning(sh'))
    BY <1>3 DEF WorkRuns, TypeOK
  <2>2. Tracked(sh'[s])
    BY <1>0, <2>1, EventHandlerStops, EventHandlerStarts DEF TrackInv, Tracked
  <2>3. \A t \in Shutters : Tracked(sh'[t])
    BY <2>1, <2>2 DEF TrackInv
  <2>4. AnyRunning(sh') => AnyRunning(sh)
    <3>1. sh'[s].flag => sh[s].flag
      BY <1>0, <2>1, EventHandlerStops, EventHandlerStarts
    <3> QED
      BY <2>1, <3>1 DEF AnyRunning
  <2> QED
    BY <2>1, <2>3, <2>4 DEF TrackInv, PowerFollows
<1>4. ASSUME Tick
      PROVE  TrackInv'
  <2>1. /\ \A t \in Shutters : sh'[t] = Age(sh[t])
        /\ power' = power /\ powered' = powered
    BY <1>4 DEF Tick
  <2>2. \A t \in Shutters : ~Expired(sh[t].ev)
    BY <1>4 DEF Tick
  <2>3. \A t \in Shutters : Tracked(sh'[t]) /\ sh'[t].flag = sh[t].flag
    BY <1>0, <2>1, <2>2, AgeTracks DEF TrackInv, Tracked
  <2>4. \A t \in Shutters : Untouched(sh[t]) => Untouched(sh'[t])
    BY <1>0, <2>1, <2>2, AgeTracks DEF Untouched
  <2>5. AnyRunning(sh') <=> AnyRunning(sh)
    BY <2>3 DEF AnyRunning
  <2> QED
    BY <2>1, <2>3, <2>4, <2>5 DEF TrackInv, PowerFollows
<1>5. CASE UNCHANGED vars
  BY <1>5 DEF vars, TrackInv, PowerFollows, AnyRunning
<1> QED
  BY <1>1, <1>2, <1>3, <1>4, <1>5 DEF Next

\* Whatever the frames carry, and whether or not the argument checks are
\* compiled in, a shutter that runs has its stop on the way and the power on.
THEOREM RunningIsTrackedHolds == Spec => []RunningIsTracked
<1>1. TrackInv => RunningIsTracked
  BY DEF TrackInv, Tracked, PowerFollows, AnyRunning, RunningIsTracked
<1> QED
  BY <1>1, TrackInvInit, TrackInvNext, TypeCorrect, PTL DEF Spec

\* Likewise, the power is off whenever no shutter runs, boot excepted.
THEOREM IdleMeansUnpoweredHolds == Spec => []IdleMeansUnpowered
<1>1. TrackInv => IdleMeansUnpowered
  BY DEF TrackInv, PowerFollows, IdleMeansUnpowered
<1> QED
  BY <1>1, TrackInvInit, TrackInvNext, TypeCorrect, PTL DEF Spec

\* Both at once: the shared power goes off with the last shutter that moves.
THEOREM PowerTrackedHolds == Spec => []PowerTracked
  BY RunningIsTrackedHolds, IdleMeansUnpoweredHolds, PTL DEF PowerTracked

-----------------------------------------------------------------------------
(* The time a move takes, with or without the argument checks *)

LEMMA Bounds ==
    /\ MaxLatency \in Nat /\ StartupTicks \in Nat /\ ExtraTicks \in Nat
    /\ Travel \in Nat /\ Travel + ExtraTicks \in Nat
    /\ LongestMove = StartupTicks + (Travel + ExtraTicks) + 2 * MaxLatency
<1>1. MaxLatency \in Nat /\ StartupTicks \in Nat /\ ExtraTicks \in Nat /\ Travel \in Nat
  BY ShutterAssumption, Arithmetic
<1> HIDE DEF Travel
<1> QED
  BY <1>1 DEF LongestMove

LEMMA TicksType ==
    ASSUME NEW r \in ShutterState
    PROVE  TicksLeft(r) \in Int
<1>1. r.ev \in EventTime /\ r.work \in WorkState /\ r.duration \in Nat
  BY Arithmetic DEF ShutterState
<1>2. NextRun(r) \in Int /\ RunsFor(r) \in Int
  BY <1>1, Bounds DEF NextRun, RunsFor
<1> QED
  BY <1>1, <1>2, Bounds DEF TicksLeft

\* An interrupt and a work item leave what is left as it is, or less; a tick takes
\* one off.
LEMMA EventCbFalls ==
    ASSUME NEW r \in ShutterState, r.ev = 0
    PROVE  TicksLeft(EventCb(r)) <= TicksLeft(r)
<1>1. /\ EventCb(r).ev = Unscheduled
      /\ EventCb(r).work = IF r.work = Idle THEN 0 ELSE r.work
      /\ EventCb(r).state = r.state /\ EventCb(r).flag = r.flag
      /\ EventCb(r).duration = r.duration
  BY DEF EventCb, Submit, ShutterState
<1>2. r.work \in WorkState /\ r.duration \in Nat
  BY Arithmetic DEF ShutterState
<1>3. /\ NextRun(EventCb(r)) = NextRun(r) /\ NextRun(r) \in Int
      /\ RunsFor(EventCb(r)) <= RunsFor(r) /\ RunsFor(r) \in Nat
      /\ RunsFor(EventCb(r)) \in Nat
  BY <1>1, <1>2, Bounds DEF NextRun, RunsFor, Queued
<1> QED
  BY <1>1, <1>3, Bounds DEF TicksLeft

LEMMA EventHandlerFalls ==
    ASSUME NEW r \in ShutterState, Queued(r), r.work <= MaxLatency
    PROVE  TicksLeft(EventHandler(r)) <= TicksLeft(r)
<1>1. /\ r.ev \in EventTime /\ r.work \in Nat /\ r.duration \in Nat
  BY Arithmetic DEF Queued, ShutterState
<1>2. /\ NextRun(r) = MaxLatency - r.work /\ NextRun(r) \in Nat
      /\ RunsFor(r) \in Nat /\ r.ev <= RunsFor(r) /\ r.duration <= RunsFor(r)
  BY <1>1, Bounds DEF NextRun, RunsFor
<1>3. CASE r.state = "STOPPED"
  <2>1. TicksLeft(EventHandler(r)) = 0
    BY <1>3, EventHandlerStops DEF TicksLeft
  <2>2. TicksLeft(r) \in Nat
    BY <1>2, <1>3 DEF TicksLeft
  <2> QED
    BY <2>1, <2>2
<1>4. CASE r.state # "STOPPED"
  <2>1. /\ EventHandler(r).flag = r.flag /\ EventHandler(r).state = "STOPPED"
        /\ EventHandler(r).ev = (IF r.ev = Unscheduled THEN r.duration ELSE r.ev)
        /\ EventHandler(r).work = Idle
    BY <1>4 DEF EventHandler, RunDirection, Schedule, ShutterState
  <2>2. NextRun(EventHandler(r)) <= RunsFor(r) + MaxLatency
    BY <1>1, <1>2, <2>1, Bounds DEF NextRun, Queued
  <2>3. NextRun(EventHandler(r)) \in Int
    BY <1>1, <2>1, Bounds DEF NextRun, Queued
  <2> QED
    BY <1>2, <1>4, <2>1, <2>2, <2>3, Bounds DEF TicksLeft
<1> QED
  BY <1>3, <1>4

LEMMA AgeFalls ==
    ASSUME NEW r \in ShutterState, ~Expired(r.ev), Tracked(r), r.flag
    PROVE  TicksLeft(Age(r)) < TicksLeft(r)
<1>1. /\ Age(r).flag = r.flag /\ Age(r).state = r.state /\ Age(r).duration = r.duration
      /\ Age(r).ev = Elapse(r.ev) /\ Age(r).work = Wait(r.work)
  BY DEF Age, ShutterState
<1>2. r.ev \in EventTime /\ r.work \in WorkState /\ r.ev # 0 /\ r.duration \in Nat
  BY Arithmetic DEF ShutterState, Expired
<1>3. Scheduled(r) \/ Queued(r)
  BY DEF Tracked
<1>4. /\ NextRun(r) \in Int /\ NextRun(Age(r)) = NextRun(r) - 1
      /\ RunsFor(r) \in Nat /\ RunsFor(Age(r)) \in Nat
      /\ RunsFor(Age(r)) <= RunsFor(r)
  <2>1. CASE Queued(r)
    <3>1. r.work \in Nat /\ Age(r).work = r.work + 1
      BY <1>1, <1>2, <2>1 DEF Queued, Wait
    <3>2. Age(r).ev \in Int /\ Age(r).ev <= r.ev
      BY <1>1, <1>2 DEF Elapse
    <3> QED
      BY <1>1, <1>2, <2>1, <3>1, <3>2, Bounds DEF NextRun, RunsFor, Queued
  <2>2. CASE ~Queued(r)
    <3>1. /\ r.work = Idle /\ Age(r).work = Idle /\ r.ev \in Nat
          /\ Age(r).ev = r.ev - 1
      BY <1>1, <1>2, <1>3, <2>2 DEF Queued, Scheduled, Wait, Elapse
    <3> QED
      BY <1>1, <1>2, <3>1, Bounds DEF NextRun, RunsFor, Queued
  <2> QED
    BY <2>1, <2>2
<1> QED
  BY <1>1, <1>4, Bounds DEF TicksLeft

\* Events and work items are never later than this, in any build.
LongestDelay == StartupTicks + UINT16_MAX

Prompt == \A s \in Shutters : sh[s].work <= MaxLatency /\ sh[s].ev <= LongestDelay

LEMMA DelayBounds ==
    /\ LongestDelay \in Nat /\ StartupTicks <= LongestDelay
    /\ \A w \in Word : w \in Nat /\ w <= LongestDelay
    /\ UINT16_MAX \in Nat
<1>1. UINT16_MAX \in Nat
  BY DEF UINT16_MAX
<1> QED
  BY <1>1, Bounds DEF LongestDelay, Word

\* What is left of a move is a number of ticks.
LEMMA LeftBound ==
    ASSUME NEW r \in ShutterState, Tracked(r), r.work <= MaxLatency, r.ev <= LongestDelay
    PROVE  TicksLeft(r) \in 0..(StartupTicks + 2 * UINT16_MAX + 2 * MaxLatency)
<1>1. /\ r.ev \in EventTime /\ r.work \in WorkState
      /\ r.duration \in Nat /\ r.duration <= UINT16_MAX
  BY Arithmetic DEF ShutterState, Word
<1>2. CASE ~r.flag
  BY <1>2, Bounds, DelayBounds DEF TicksLeft
<1>3. CASE r.flag
  <2>1. Scheduled(r) \/ Queued(r)
    BY <1>3 DEF Tracked
  <2>2. /\ NextRun(r) \in Nat /\ RunsFor(r) \in Nat
        /\ NextRun(r) + RunsFor(r) <= StartupTicks + 2 * UINT16_MAX + MaxLatency
        /\ NextRun(r) <= StartupTicks + UINT16_MAX + MaxLatency
    <3>1. CASE Queued(r)
      <4>1. r.work \in Nat /\ NextRun(r) = MaxLatency - r.work
        BY <1>1, <3>1 DEF NextRun, Queued
      <4>2. RunsFor(r) \in Nat /\ RunsFor(r) <= StartupTicks + UINT16_MAX
        BY <1>1, Bounds, DelayBounds DEF RunsFor, LongestDelay
      <4> QED
        BY <4>1, <4>2, Bounds, DelayBounds
    <3>2. CASE ~Queued(r)
      <4>1. r.ev \in Nat /\ NextRun(r) = r.ev + MaxLatency /\ RunsFor(r) = r.duration
        BY <1>1, <2>1, <3>2 DEF NextRun, RunsFor, Scheduled
      <4> QED
        BY <1>1, <4>1, Bounds, DelayBounds DEF LongestDelay
    <3> QED
      BY <3>1, <3>2
  <2> QED
    BY <1>3, <2>2, Bounds, DelayBounds DEF TicksLeft
<1> QED
  BY <1>2, <1>3

LEMMA PromptInit == Init => Prompt
<1>1. InitialShutter.work = Idle /\ InitialShutter.ev = Unscheduled
  BY DEF InitialShutter
<1> QED
  BY <1>1, Bounds, DelayBounds DEF Init, Prompt

LEMMA PromptNext ==
    ASSUME TypeOK, Prompt, [Next]_vars
    PROVE  Prompt'
<1> SUFFICES ASSUME NEW t \in Shutters
             PROVE  sh'[t].work <= MaxLatency /\ sh'[t].ev <= LongestDelay
  BY DEF Prompt
<1>0. sh[t] \in ShutterState /\ sh[t].work <= MaxLatency /\ sh[t].ev <= LongestDelay
  BY DEF TypeOK, Prompt
<1>1. ASSUME NEW cmds \in [Shutters -> Commands \cup {None}], AppCommand(cmds)
      PROVE  sh'[t].work <= MaxLatency /\ sh'[t].ev <= LongestDelay
  <2>1. CASE sh'[t] = sh[t]
    BY <1>0, <2>1
  <2>2. CASE /\ cmds[t] \in Byte /\ Accepted(sh[t], cmds[t])
             /\ sh'[t] = SetOpenness(sh[t], cmds[t])
    <3> DEFINE r        == sh[t]
               marked   == [r EXCEPT !.openness = cmds[t], !.flag = TRUE]
               dir      == Direction(r, cmds[t])
               duration == Duration(r, cmds[t])
               new      == SetOpenness(r, cmds[t])
    <3>1. new.work = r.work
      BY <1>0, <2>2, SetOpennessTracks
    <3>2. new = IF powered THEN StartNow(marked, dir, duration)
                ELSE StartLater(marked, dir, duration)
      BY <2>2 DEF SetOpenness
    <3>3. duration <= LongestDelay
      BY <1>0, <2>2, DurationType, DelayBounds
    <3>4. marked \in ShutterState /\ marked.ev = r.ev
      BY <1>0, <2>2 DEF ShutterState
    <3> HIDE DEF marked, dir, duration, new, r
    <3>5. new.ev \in {r.ev, duration, StartupTicks}
      BY <3>2, <3>4 DEF StartNow, StartLater, RunDirection, Schedule, ShutterState
    <3> QED
      BY <1>0, <2>2, <3>1, <3>3, <3>5, DelayBounds DEF new, r
  <2> QED
    BY <1>1, <2>1, <2>2, CommandMoves
<1>2. ASSUME NEW s \in Shutters, EventFires(s)
      PROVE  sh'[t].work <= MaxLatency /\ sh'[t].ev <= LongestDelay
  <2>1. sh'[t] = (IF t = s THEN EventCb(sh[t]) ELSE sh[t])
    BY <1>2 DEF EventFires, TypeOK
  <2>2. /\ EventCb(sh[t]).ev = Unscheduled
        /\ EventCb(sh[t]).work = IF sh[t].work = Idle THEN 0 ELSE sh[t].work
    BY <1>0 DEF EventCb, Submit, ShutterState
  <2> QED
    BY <1>0, <2>1, <2>2, Bounds, DelayBounds
<1>3. ASSUME NEW s \in Shutters, WorkRuns(s)
      PROVE  sh'[t].work <= MaxLatency /\ sh'[t].ev <= LongestDelay
  <2>1. sh'[t] = (IF t = s THEN EventHandler(sh[t]) ELSE sh[t])
    BY <1>3 DEF WorkRuns, TypeOK
  <2>2. EventHandler(sh[t]).work = Idle
    BY <1>0, EventHandlerStops, EventHandlerStarts
  <2>3. EventHandler(sh[t]).ev \in {sh[t].ev, sh[t].duration}
    BY <1>0 DEF EventHandler, RunDirection, Schedule, ShutterState
  <2>4. sh[t].duration <= LongestDelay
    BY <1>0, DelayBounds DEF ShutterState
  <2> QED
    BY <1>0, <2>1, <2>2, <2>3, <2>4, Bounds
<1>4. ASSUME Tick
      PROVE  sh'[t].work <= MaxLatency /\ sh'[t].ev <= LongestDelay
  <2>1. sh'[t] = Age(sh[t]) /\ sh[t].work < MaxLatency
    BY <1>4 DEF Tick
  <2>2. Age(sh[t]).ev = Elapse(sh[t].ev) /\ Age(sh[t]).work = Wait(sh[t].work)
    BY <1>0 DEF Age, ShutterState
  <2>3. sh[t].ev \in EventTime /\ sh[t].work \in WorkState
    BY <1>0 DEF ShutterState
  <2> QED
    BY <1>0, <2>1, <2>2, <2>3, Bounds, DelayBounds DEF Elapse, Wait
<1>5. CASE UNCHANGED vars
  BY <1>0, <1>5 DEF vars
<1> QED
  BY <1>1, <1>2, <1>3, <1>4, <1>5 DEF Next

Falls(s) ==
    sh[s].flag => /\ TicksLeft(sh'[s]) <= TicksLeft(sh[s])
                  /\ Tick => TicksLeft(sh'[s]) < TicksLeft(sh[s])

\* A command that a shutter accepts.
Commanded(s) ==
    \E cmds \in [Shutters -> Commands \cup {None}] :
        AppCommand(cmds) /\ cmds[s] # None /\ Accepted(sh[s], cmds[s])

LEMMA NextFalls ==
    ASSUME TypeOK, TrackInv, Prompt, Next, NEW t \in Shutters
    PROVE  Falls(t) \/ Commanded(t)
<1>0. sh[t] \in ShutterState /\ Tracked(sh[t]) /\ sh[t].work <= MaxLatency
  BY DEF TypeOK, TrackInv, Prompt
<1>1. TicksLeft(sh[t]) \in Int
  BY <1>0, TicksType
<1>2. CASE Tick
  <2>1. sh'[t] = Age(sh[t]) /\ ~Expired(sh[t].ev)
    BY <1>2 DEF Tick
  <2>2. sh[t].flag => TicksLeft(Age(sh[t])) < TicksLeft(sh[t])
    BY <1>0, <2>1, AgeFalls
  <2>3. TicksLeft(Age(sh[t])) \in Int
    BY <1>0, <2>1, AgeType, TicksType
  <2> QED
    BY <1>1, <2>1, <2>2, <2>3 DEF Falls
<1>3. ASSUME ~Tick, TicksLeft(sh'[t]) <= TicksLeft(sh[t])
      PROVE  Falls(t)
  BY <1>3 DEF Falls
<1>4. ASSUME ~Tick, sh'[t] = sh[t]
      PROVE  Falls(t)
  BY <1>1, <1>3, <1>4
<1>5. ASSUME ~Tick, NEW cmds \in [Shutters -> Commands \cup {None}], AppCommand(cmds)
      PROVE  Falls(t) \/ Commanded(t)
  BY <1>4, <1>5, CommandMoves DEF Commanded
<1>6. ASSUME ~Tick, NEW s \in Shutters, EventFires(s)
      PROVE  Falls(t)
  <2>1. sh'[t] = (IF t = s THEN EventCb(sh[t]) ELSE sh[t]) /\ sh[s].ev = 0
    BY <1>6 DEF EventFires, Expired, TypeOK
  <2> QED
    BY <1>0, <1>3, <1>4, <1>6, <2>1, EventCbFalls
<1>7. ASSUME ~Tick, NEW s \in Shutters, WorkRuns(s)
      PROVE  Falls(t)
  <2>1. sh'[t] = (IF t = s THEN EventHandler(sh[t]) ELSE sh[t]) /\ Queued(sh[s])
    BY <1>7 DEF WorkRuns, Queued, TypeOK
  <2> QED
    BY <1>0, <1>3, <1>4, <1>7, <2>1, EventHandlerFalls
<1> QED
  BY <1>2, <1>5, <1>6, <1>7 DEF Next

\* In any build, the shipped one included: what is left of a shutter's move is a
\* bounded number of ticks, time takes from it, and nothing but a command to that very
\* shutter can add to it; a motor that is left alone stops.
THEOREM MoveRunsOut ==
    Spec => /\ [](\A s \in Shutters : TicksLeft(sh[s]) \in
                     0..(StartupTicks + 2 * UINT16_MAX + 2 * MaxLatency))
            /\ [][\A s \in Shutters : Falls(s) \/ Commanded(s)]_vars
<1> DEFINE Bound == \A s \in Shutters : TicksLeft(sh[s]) \in
                      0..(StartupTicks + 2 * UINT16_MAX + 2 * MaxLatency)
           Fall  == \A s \in Shutters : Falls(s) \/ Commanded(s)
<1>1. TypeOK /\ TrackInv /\ Prompt => Bound
  BY LeftBound DEF TypeOK, TrackInv, Prompt
<1>2. TypeOK /\ TrackInv /\ Prompt /\ [Next]_vars => [Fall]_vars
  BY NextFalls
<1> HIDE DEF Bound, Fall
<1>3. Spec => []Bound /\ [][Fall]_vars
  BY <1>1, <1>2, PromptInit, PromptNext, TrackInvInit, TrackInvNext, TypeCorrect, PTL
  DEF Spec
<1> QED
  BY <1>3 DEF Bound, Fall

-----------------------------------------------------------------------------
(* With the argument checks: one step ahead, settled power, no reversal *)

OneStep(r) ==
    /\ r.flag <=> Scheduled(r) \/ Queued(r)
    /\ ~(Scheduled(r) /\ Queued(r))

\* The strengthening that makes it inductive: until the driver knows the power
\* to be on, what is left of a shutter's event covers the rest of the start-up
\* delay, and a shutter that is driven has nothing but its stop ahead.
Timed(r, on, t) ==
    /\ Driven(r) => on /\ r.state = "STOPPED"
    /\ Scheduled(r) /\ ~on => t + r.ev >= StartupTicks
    /\ Queued(r) => t = StartupTicks

CheckedInv ==
    /\ \A s \in Shutters : OneStep(sh[s]) /\ Timed(sh[s], powered, settle)
    /\ powered => settle = StartupTicks

\* With the checks, only an idle shutter is commanded: its event is free.
LEMMA SetOpennessChecked ==
    ASSUME NEW r \in ShutterState, NEW openness \in Byte,
           Checks, Accepted(r, openness), OneStep(r), TypeOK
    PROVE  /\ ~r.flag
           /\ powered => SetOpenness(r, openness).state = "STOPPED"
           /\ ~powered => /\ SetOpenness(r, openness).ev = StartupTicks
                          /\ SetOpenness(r, openness).pos = r.pos
                          /\ SetOpenness(r, openness).neg = r.neg
<1> DEFINE marked   == [r EXCEPT !.openness = openness, !.flag = TRUE]
           dir      == Direction(r, openness)
           duration == Duration(r, openness)
<1>1. ~r.flag /\ r.ev = Unscheduled
  BY DEF Accepted, OneStep, Scheduled
<1>2. SetOpenness(r, openness) =
        IF powered THEN StartNow(marked, dir, duration)
        ELSE StartLater(marked, dir, duration)
  BY DEF SetOpenness
<1>3. StartNow(marked, dir, duration).state = "STOPPED"
  <2> HIDE DEF dir, duration
  <2> QED
    BY DEF StartNow, RunDirection, ShutterState
<1>4. /\ StartLater(marked, dir, duration).ev = StartupTicks
      /\ StartLater(marked, dir, duration).pos = r.pos
      /\ StartLater(marked, dir, duration).neg = r.neg
  <2> HIDE DEF dir, duration
  <2> QED
    BY <1>1 DEF StartLater, Schedule, ShutterState
<1> HIDE DEF marked, dir, duration
<1> QED
  BY <1>1, <1>2, <1>3, <1>4

LEMMA CheckedInvInit == Init => CheckedInv
<1> SUFFICES ASSUME Init PROVE CheckedInv
  OBVIOUS
<1>1. /\ ~InitialShutter.flag
      /\ InitialShutter.pos = InitialShutter.neg
      /\ InitialShutter.ev = Unscheduled /\ InitialShutter.work = Idle
  BY DEF InitialShutter
<1>2. \A s \in Shutters : OneStep(sh[s]) /\ Timed(sh[s], powered, settle)
  BY <1>1 DEF Init, OneStep, Timed, Driven, Scheduled, Queued
<1> QED
  BY <1>2 DEF Init, CheckedInv

LEMMA CheckedInvNext ==
    ASSUME Checks
    PROVE  TypeOK /\ TrackInv /\ CheckedInv /\ [Next]_vars => CheckedInv'
<1> SUFFICES ASSUME TypeOK, TrackInv, CheckedInv, [Next]_vars
             PROVE  CheckedInv'
  OBVIOUS
<1>0. /\ \A s \in Shutters : sh[s] \in ShutterState
      /\ settle \in 0..StartupTicks
  BY DEF TypeOK
<1>1. ASSUME NEW cmds \in [Shutters -> Commands \cup {None}], AppCommand(cmds)
      PROVE  CheckedInv'
  <2>1. powered' = powered /\ settle' = IF power THEN settle ELSE 0
    BY <1>1 DEF AppCommand
  <2>2. settle' = settle \/ (~power /\ ~powered /\ settle' = 0)
    BY <2>1 DEF TrackInv, PowerFollows
  <2>3. ASSUME NEW s \in Shutters
        PROVE  OneStep(sh'[s]) /\ Timed(sh'[s], powered', settle')
    <3>1. CASE sh'[s] = sh[s]
      <4>1. OneStep(sh[s]) /\ Timed(sh[s], powered, settle)
        BY DEF CheckedInv
      <4>2. CASE settle' = settle
        BY <2>1, <3>1, <4>1, <4>2
      <4>3. CASE ~power
        <5>1. ~sh[s].flag
          BY <4>3 DEF TrackInv, PowerFollows, AnyRunning
        <5>2. ~Scheduled(sh[s]) /\ ~Queued(sh[s])
          BY <4>1, <5>1 DEF OneStep
        <5> QED
          BY <2>1, <3>1, <4>1, <5>2 DEF Timed
      <4> QED
        BY <2>2, <4>2, <4>3
    <3>2. CASE /\ cmds[s] # None /\ cmds[s] \in Byte
               /\ Accepted(sh[s], cmds[s])
               /\ sh'[s] = SetOpenness(sh[s], cmds[s])
      <4>1. OneStep(sh[s]) /\ Timed(sh[s], powered, settle) /\ Tracked(sh[s])
        BY DEF CheckedInv, TrackInv
      <4>2. ~sh[s].flag /\ ~Queued(sh[s]) /\ ~Driven(sh[s])
        BY <1>0, <3>2, <4>1, SetOpennessChecked DEF OneStep, Tracked
      <4>3. sh'[s].flag /\ Scheduled(sh'[s]) /\ ~Queued(sh'[s])
        BY <1>0, <3>2, <4>2, SetOpennessTracks DEF Queued
      <4>4. OneStep(sh'[s])
        BY <4>3 DEF OneStep
      <4>5. CASE powered
        <5>1. sh'[s].state = "STOPPED" /\ powered'
          BY <1>0, <2>1, <3>2, <4>1, <4>5, SetOpennessChecked
        <5> QED
          BY <4>3, <4>4, <5>1 DEF Timed
      <4>6. CASE ~powered
        <5>1. sh'[s].ev = StartupTicks /\ ~Driven(sh'[s])
          BY <1>0, <3>2, <4>1, <4>2, <4>6, SetOpennessChecked DEF Driven
        <5>2. settle' + StartupTicks >= StartupTicks
          BY <1>0, <2>2, ShutterAssumption
        <5>3. settle' + sh'[s].ev >= StartupTicks
          BY <5>1, <5>2
        <5>4. Timed(sh'[s], powered', settle')
          BY <4>3, <5>1, <5>3 DEF Timed
        <5> QED
          BY <4>4, <5>4
      <4> QED
        BY <4>4, <4>5, <4>6
    <3> QED
      BY <1>1, <3>1, <3>2, CommandMoves
  <2>4. powered' => settle' = StartupTicks
    BY <2>1, <2>2 DEF CheckedInv
  <2> QED
    BY <2>3, <2>4 DEF CheckedInv
<1>2. ASSUME NEW s \in Shutters, EventFires(s)
      PROVE  CheckedInv'
  <2>1. /\ sh'[s] = EventCb(sh[s]) /\ sh[s].ev = 0
        /\ \A t \in Shutters : t # s => sh'[t] = sh[t]
        /\ powered' = powered /\ settle' = settle
    BY <1>2 DEF EventFires, Expired, TypeOK
  <2>2. OneStep(sh[s]) /\ Timed(sh[s], powered, settle)
    BY DEF CheckedInv
  <2>3. Scheduled(sh[s])
    BY <2>1 DEF Scheduled
  <2>4. OneStep(sh'[s])
    BY <1>0, <2>1, <2>2, <2>3, EventCbTracks DEF OneStep, Scheduled
  <2>5. settle = StartupTicks
    BY <1>0, <2>1, <2>2, <2>3, ShutterAssumption DEF CheckedInv, Timed
  <2>6. Timed(sh'[s], powered', settle')
    BY <1>0, <2>1, <2>2, <2>5, EventCbTracks DEF Timed, Scheduled
  <2> QED
    BY <2>1, <2>4, <2>6 DEF CheckedInv
<1>3. ASSUME NEW s \in Shutters, WorkRuns(s)
      PROVE  CheckedInv'
  <2>1. /\ sh'[s] = EventHandler(sh[s]) /\ Queued(sh[s])
        /\ \A t \in Shutters : t # s => sh'[t] = sh[t]
        /\ powered' = AnyRunning(sh') /\ settle' = settle
    BY <1>3 DEF WorkRuns, TypeOK, Queued
  <2>2. OneStep(sh[s]) /\ Timed(sh[s], powered, settle)
    BY DEF CheckedInv
  <2>3. sh[s].flag /\ ~Scheduled(sh[s]) /\ settle = StartupTicks
    BY <2>1, <2>2 DEF OneStep, Timed
  <2>4. OneStep(sh'[s]) /\ Timed(sh'[s], powered', settle')
    <3>1. CASE sh[s].state = "STOPPED"
      BY <1>0, <2>1, <2>3, <3>1, EventHandlerStops
      DEF OneStep, Timed, Scheduled, Queued
    <3>2. CASE sh[s].state # "STOPPED"
      <4>1. /\ sh'[s].flag /\ Scheduled(sh'[s]) /\ ~Queued(sh'[s])
            /\ sh'[s].state = "STOPPED"
        BY <1>0, <2>1, <2>3, <3>2, EventHandlerStarts DEF Queued
      <4>2. powered'
        BY <2>1, <4>1 DEF AnyRunning
      <4> QED
        BY <4>1, <4>2 DEF OneStep, Timed
    <3> QED
      BY <3>1, <3>2
  <2>5. ASSUME NEW t \in Shutters, t # s
        PROVE  OneStep(sh'[t]) /\ Timed(sh'[t], powered', settle')
    <3>1. OneStep(sh[t]) /\ Timed(sh[t], powered, settle) /\ Tracked(sh[t])
      BY DEF CheckedInv, TrackInv
    <3>2. sh'[t] = sh[t]
      BY <2>1, <2>5
    <3>3. CASE sh[t].flag
      <4>1. powered'
        BY <2>1, <3>2, <3>3 DEF AnyRunning
      <4> QED
        BY <2>1, <2>3, <3>1, <3>2, <4>1 DEF Timed
    <3>4. CASE ~sh[t].flag
      BY <3>1, <3>2, <3>4 DEF OneStep, Timed, Tracked
    <3> QED
      BY <3>3, <3>4
  <2> QED
    BY <2>1, <2>3, <2>4, <2>5 DEF CheckedInv
<1>4. ASSUME Tick
      PROVE  CheckedInv'
  <2>1. /\ \A t \in Shutters : sh'[t] = Age(sh[t]) /\ ~Expired(sh[t].ev)
        /\ powered' = powered
        /\ settle' = IF settle < StartupTicks THEN settle + 1 ELSE settle
    BY <1>4 DEF Tick
  <2>2. ASSUME NEW t \in Shutters
        PROVE  OneStep(sh'[t]) /\ Timed(sh'[t], powered', settle')
    <3>1. OneStep(sh[t]) /\ Timed(sh[t], powered, settle)
      BY DEF CheckedInv
    <3>2. OneStep(sh'[t])
      BY <1>0, <2>1, <3>1, AgeTracks DEF OneStep
    <3>3. Driven(sh'[t]) => powered' /\ sh'[t].state = "STOPPED"
      BY <1>0, <2>1, <3>1, AgeTracks DEF Timed
    <3>4. Queued(sh'[t]) => settle' = StartupTicks
      BY <1>0, <2>1, <3>1, AgeTracks, ShutterAssumption DEF Timed
    <3>5. ASSUME Scheduled(sh'[t]), ~powered'
          PROVE  settle' + sh'[t].ev >= StartupTicks
      <4>1. /\ Scheduled(sh[t]) /\ sh'[t].ev = sh[t].ev - 1
            /\ settle + sh[t].ev >= StartupTicks
        BY <1>0, <2>1, <3>1, <3>5, AgeTracks DEF Timed
      <4>2. sh[t].ev \in Nat /\ sh[t].ev # 0
        <5>1. sh[t].ev \in EventTime
          BY <1>0 DEF ShutterState
        <5> QED
          BY <2>1, <4>1, <5>1 DEF Scheduled, Expired
      <4> QED
        BY <1>0, <2>1, <4>1, <4>2, ShutterAssumption
    <3> QED
      BY <3>2, <3>3, <3>4, <3>5 DEF Timed
  <2>3. powered' => settle' = StartupTicks
    BY <2>1, ShutterAssumption DEF CheckedInv
  <2> QED
    BY <2>2, <2>3 DEF CheckedInv
<1>5. CASE UNCHANGED vars
  BY <1>5 DEF vars, CheckedInv
<1> QED
  BY <1>1, <1>2, <1>3, <1>4, <1>5 DEF Next

LEMMA CheckedInvHolds ==
    ASSUME Checks
    PROVE  Spec => [](TypeOK /\ TrackInv /\ CheckedInv)
BY CheckedInvInit, CheckedInvNext, TrackInvInit, TrackInvNext, TypeCorrect, PTL
DEF Spec

\* With the argument checks, a shutter marked as running has exactly one step
\* ahead of it, and one that is not has none.
THEOREM OneStepAheadHolds ==
    ASSUME Checks
    PROVE  Spec => []OneStepAhead
<1>1. CheckedInv => OneStepAhead
  BY DEF CheckedInv, OneStep, OneStepAhead
<1> QED
  BY <1>1, CheckedInvHolds, PTL

\* With the argument checks, no motor is driven before the power has been on for
\* the start-up delay.
THEOREM DrivenOnlySettledHolds ==
    ASSUME Checks
    PROVE  Spec => []DrivenOnlySettled
<1>1. TrackInv /\ CheckedInv => DrivenOnlySettled
  BY DEF TrackInv, Tracked, PowerFollows, CheckedInv, Timed, AnyRunning,
         DrivenOnlySettled
<1> QED
  BY <1>1, CheckedInvHolds, PTL

\* Nor does a handler run before: what its comment says (shutter.c:142) is so with
\* the checks.
THEOREM PowerSettledInHandlerHolds ==
    ASSUME Checks
    PROVE  Spec => []PowerSettledInHandler
<1>1. TrackInv /\ CheckedInv => PowerSettledInHandler
  BY DEF TrackInv, PowerFollows, AnyRunning, CheckedInv, OneStep, Timed,
         PowerSettledInHandler
<1> QED
  BY <1>1, CheckedInvHolds, PTL

\* With the argument checks, a motor always stops before it is driven the other
\* way: a command cannot reach a driven shutter, and the handler only ever finds
\* it with its stop ahead.
THEOREM NoReversalHolds ==
    ASSUME Checks
    PROVE  Spec => NoReversal
<1> DEFINE Keeps == \A s \in Shutters : /\ Opening(sh[s]) => ~Closing(sh'[s])
                                        /\ Closing(sh[s]) => ~Opening(sh'[s])
<1>1. TypeOK /\ TrackInv /\ CheckedInv /\ [Next]_vars => [Keeps]_vars
  <2> SUFFICES ASSUME TypeOK, TrackInv, CheckedInv, Next, NEW t \in Shutters,
                      Driven(sh[t])
               PROVE  \/ ~Driven(sh'[t])
                      \/ sh'[t].pos = sh[t].pos /\ sh'[t].neg = sh[t].neg
    BY DEF Driven, Opening, Closing, TypeOK, ShutterState
  <2>0. sh[t] \in ShutterState
    BY DEF TypeOK
  <2>1. sh[t].flag /\ sh[t].state = "STOPPED"
    BY DEF TrackInv, Tracked, CheckedInv, Timed
  <2>2. ASSUME NEW cmds \in [Shutters -> Commands \cup {None}], AppCommand(cmds)
        PROVE  sh'[t] = sh[t]
    BY <2>1, <2>2, CommandMoves DEF Accepted
  <2>3. ASSUME NEW s \in Shutters, EventFires(s)
        PROVE  sh'[t].pos = sh[t].pos /\ sh'[t].neg = sh[t].neg
    BY <2>0, <2>3, EventCbTracks DEF EventFires, TypeOK
  <2>4. ASSUME NEW s \in Shutters, WorkRuns(s)
        PROVE  sh'[t] = sh[t] \/ ~Driven(sh'[t])
    BY <2>0, <2>1, <2>4, EventHandlerStops DEF WorkRuns, TypeOK
  <2>5. ASSUME Tick
        PROVE  sh'[t].pos = sh[t].pos /\ sh'[t].neg = sh[t].neg
    BY <2>0, <2>5, AgeTracks DEF Tick
  <2> QED
    BY <2>2, <2>3, <2>4, <2>5 DEF Next
<1> QED
  BY <1>1, CheckedInvHolds, PTL DEF Spec, NoReversal

-----------------------------------------------------------------------------
(* With the argument checks: the error on the position *)

Degrees == 0..Full
Target(openness) == openness * UnitTicks

\* Ticks a shutter that is driven still runs, and ticks its stop is late.
Left(r) == IF Scheduled(r) THEN r.ev ELSE 0
Late(r) == IF Queued(r) THEN r.work ELSE 0

\* A shutter at x, on its way to an openness with so many ticks left to run, or
\* so many ticks late, arrives: wherever it started if the move is full, within
\* the bound and the ticks it is late if not.
Arrives(openness, dir, left, late, x, bound) ==
    /\ openness = Full =>
         dir = "OPENNING" /\ (x = Travel \/ x + left >= Travel + ExtraTicks)
    /\ openness = 0 =>
         dir = "CLOSING" /\ (x = 0 \/ x + ExtraTicks <= left)
    /\ ~IsFull(openness) =>
         CASE dir = "OPENNING" -> /\ left <= Target(openness)
                                  /\ Distance(x, Target(openness) - left) <= bound + late
           [] dir = "CLOSING"  -> /\ Target(openness) + left <= Travel
                                  /\ Distance(x, Target(openness) + left) <= bound + late
           [] OTHER -> FALSE

LEMMA Targets ==
    /\ Full \in Degrees /\ 0 \in Degrees /\ 0 # Full
    /\ \A a \in Degrees : a \in Nat /\ a <= Full /\ Target(a) \in 0..Travel
    /\ Target(0) = 0 /\ Target(Full) = Travel
    /\ \A a, b \in Degrees : b <= a =>
         /\ UnitTicks * (a - b) = Target(a) - Target(b)
         /\ UnitTicks * (a - b) \in 0..Travel
         /\ Target(b) <= Target(a)
<1>1. Full \in Nat /\ Full >= 1 /\ UnitTicks \in Nat
  BY ShutterAssumption
<1>2. \A a \in Degrees : a \in Nat /\ a <= Full
  BY <1>1 DEF Degrees
<1>3. \A a, b \in Nat : b <= a =>
        /\ UnitTicks * (a - b) = a * UnitTicks - b * UnitTicks
        /\ UnitTicks * (a - b) >= 0
  BY <1>1, SMT
<1>4. \A a \in Nat : a * UnitTicks \in Nat
  BY <1>1, SMT
<1>5. Full * UnitTicks = Travel /\ Travel \in Nat
  BY Arithmetic DEF Travel
<1>6. 0 * UnitTicks = 0
  BY <1>1, SMT
<1>7. \A a, b \in Nat : b <= a => b * UnitTicks <= a * UnitTicks
  <2>1. ASSUME NEW a \in Nat, NEW b \in Nat, b <= a PROVE b * UnitTicks <= a * UnitTicks
    <3>1. a * UnitTicks - b * UnitTicks >= 0
      BY <1>3, <2>1
    <3>2. a * UnitTicks \in Nat /\ b * UnitTicks \in Nat
      BY <1>4
    <3> QED
      BY <3>1, <3>2
  <2> QED
    BY <2>1
<1>8. \A a \in Degrees : Target(a) \in 0..Travel
  <2>1. ASSUME NEW a \in Degrees PROVE Target(a) \in 0..Travel
    <3>1. a * UnitTicks \in Nat /\ a * UnitTicks <= Full * UnitTicks
      BY <1>1, <1>2, <1>4, <1>7
    <3> QED
      BY <1>5, <3>1 DEF Target
  <2> QED
    BY <2>1
<1>9. ASSUME NEW a \in Degrees, NEW b \in Degrees, b <= a
      PROVE  /\ UnitTicks * (a - b) = Target(a) - Target(b)
             /\ UnitTicks * (a - b) \in 0..Travel
             /\ Target(b) <= Target(a)
  <2>1. UnitTicks * (a - b) = Target(a) - Target(b) /\ UnitTicks * (a - b) >= 0
    BY <1>2, <1>3, <1>9 DEF Target
  <2>2. Target(a) \in 0..Travel /\ Target(b) \in 0..Travel
    BY <1>8
  <2> HIDE DEF Target
  <2> QED
    BY <1>5, <2>1, <2>2
<1>10. Full \in Degrees /\ 0 \in Degrees /\ 0 # Full
  BY <1>1 DEF Degrees
<1> QED
  BY <1>2, <1>5, <1>6, <1>8, <1>9, <1>10 DEF Target

LEMMA WordId ==
    /\ \A n \in 0..Travel : n % (UINT16_MAX + 1) = n
    /\ \A n \in Degrees : n % (UINT16_MAX + 1) = n
<1>1. UINT16_MAX \in Nat /\ 100 <= UINT16_MAX
  BY SMT DEF UINT16_MAX
<1>2. Travel \in Nat /\ Travel <= UINT16_MAX /\ Full \in Nat /\ Full <= UINT16_MAX
  BY <1>1, Arithmetic, ShutterAssumption DEF Word
<1>3. \A n \in Nat : n <= UINT16_MAX => n % (UINT16_MAX + 1) = n
  BY <1>1, SMT
<1> HIDE DEF Travel
<1> QED
  BY <1>1, <1>2, <1>3 DEF Degrees

\* What a command that is accepted asks for.
LEMMA MoveIs ==
    ASSUME NEW r \in ShutterState, r.openness \in Degrees, NEW openness \in Degrees
    PROVE  /\ openness = Full => Direction(r, openness) = "OPENNING"
           /\ openness = 0 => Direction(r, openness) = "CLOSING"
           /\ IsFull(openness) => Duration(r, openness) = Travel + ExtraTicks
           /\ ~IsFull(openness) =>
                IF Direction(r, openness) = "OPENNING"
                THEN Duration(r, openness) = Target(openness) - Target(r.openness)
                ELSE /\ Direction(r, openness) = "CLOSING"
                     /\ Duration(r, openness) = Target(r.openness) - Target(openness)
           /\ Duration(r, openness) \in Nat
<1> DEFINE from == r.openness
           rel  == Relative(r, openness)
<1>1. from \in 0..100 /\ openness \in 0..100
  BY ShutterAssumption DEF Degrees
<1>2. \A x \in -100..100 : Int8(x) = x
  BY SMT DEF Int8
<1>3. rel = openness - from
  BY <1>1, <1>2 DEF Relative
<1> HIDE DEF rel, from
<1>4. /\ IsFull(openness) <=> openness = 0 \/ openness = Full
      /\ Direction(r, openness) =
           IF openness = Full \/ (openness # 0 /\ rel > 0) THEN "OPENNING" ELSE "CLOSING"
  BY DEF IsFull, Direction, rel
<1>5. /\ openness = Full => Direction(r, openness) = "OPENNING"
      /\ openness = 0 => Direction(r, openness) = "CLOSING"
  BY <1>4, Targets
<1>6. ASSUME ~IsFull(openness), rel > 0
      PROVE  /\ Direction(r, openness) = "OPENNING"
             /\ Duration(r, openness) = Target(openness) - Target(from)
             /\ Duration(r, openness) \in Nat
  <2>1. from <= openness /\ rel \in Degrees /\ ~(rel < 0)
    <3>1. from \in Nat /\ openness \in Nat /\ rel \in Nat /\ rel <= openness
      BY <1>1, <1>3, <1>6
    <3>2. openness <= Full /\ Full \in Nat
      BY Targets, ShutterAssumption
    <3>3. rel \in Degrees
      BY <3>1, <3>2 DEF Degrees
    <3> QED
      BY <1>1, <1>3, <1>6, <3>1, <3>3
  <2>2. /\ UnitTicks * rel = Target(openness) - Target(from)
        /\ UnitTicks * rel \in 0..Travel
    BY <1>3, <2>1, Targets DEF from
  <2>3. Magnitude(rel) = rel
    BY <2>1, WordId DEF Magnitude, U16
  <2>4. Duration(r, openness) = UnitTicks * rel
    BY <1>6, <2>2, <2>3, WordId DEF Duration, U16, rel
  <2>5. UnitTicks * rel \in Nat
    BY <2>2, Arithmetic
  <2> QED
    BY <1>4, <1>6, <2>2, <2>4, <2>5
<1>7. ASSUME ~IsFull(openness), ~(rel > 0)
      PROVE  /\ Direction(r, openness) = "CLOSING"
             /\ Duration(r, openness) = Target(from) - Target(openness)
             /\ Duration(r, openness) \in Nat
  <2> DEFINE m == from - openness
  <2>1. /\ openness <= from /\ m \in Degrees /\ -rel = m
        /\ rel = 0 => m = 0 /\ rel = m
        /\ rel \in -100..100 /\ -rel \in -100..100
        /\ rel < 0 \/ rel = 0
    <3>1. from \in Nat /\ openness \in Nat /\ openness <= from /\ m \in Nat /\ m <= from
      BY <1>1, <1>3, <1>7
    <3>2. from <= Full /\ Full \in Nat
      BY Targets, ShutterAssumption DEF from
    <3>3. m \in Degrees
      BY <3>1, <3>2 DEF Degrees
    <3> QED
      BY <1>1, <1>3, <1>7, <3>1, <3>3
  <2>2. /\ UnitTicks * m = Target(from) - Target(openness)
        /\ UnitTicks * m \in 0..Travel
    BY <2>1, Targets DEF from
  <2>3. Magnitude(rel) = m
    <3> HIDE DEF m
    <3>1. (IF rel < 0 THEN Int8(-rel) ELSE rel) = m
      BY <1>2, <2>1
    <3> QED
      BY <2>1, <3>1, WordId DEF Magnitude, U16
  <2> HIDE DEF m
  <2>4. Duration(r, openness) = UnitTicks * m
    BY <1>7, <2>2, <2>3, WordId DEF Duration, U16, rel
  <2>5. UnitTicks * m \in Nat
    BY <2>2, Arithmetic
  <2> QED
    BY <1>4, <1>7, <2>2, <2>4, <2>5
<1>8. IsFull(openness) => /\ Duration(r, openness) = Travel + ExtraTicks
                          /\ Duration(r, openness) \in Nat
  BY Arithmetic, ShutterAssumption DEF Duration
<1> QED
  BY <1>5, <1>6, <1>7, <1>8 DEF from

\* A move that begins within a bound of the openness last asked for arrives.
LEMMA MoveArrives ==
    ASSUME NEW r \in ShutterState, r.openness \in Degrees, NEW openness \in Degrees,
           NEW x \in 0..Travel, NEW bound \in 0..Travel,
           Distance(x, Target(r.openness)) <= bound
    PROVE  Arrives(openness, Direction(r, openness), Duration(r, openness), 0, x, bound)
<1> DEFINE dir  == Direction(r, openness)
           left == Duration(r, openness)
           from == Target(r.openness)
           to   == Target(openness)
<1>1. /\ from \in 0..Travel /\ to \in 0..Travel /\ left \in Nat
      /\ Travel \in Nat /\ ExtraTicks \in Nat
  BY MoveIs, Targets, Arithmetic, ShutterAssumption
<1>2. /\ openness = Full => dir = "OPENNING"
      /\ openness = 0 => dir = "CLOSING"
      /\ IsFull(openness) => left = Travel + ExtraTicks
      /\ ~IsFull(openness) => \/ dir = "OPENNING" /\ left = to - from
                              \/ dir = "CLOSING" /\ left = from - to
      /\ openness = 0 \/ openness = Full => IsFull(openness)
  BY MoveIs DEF IsFull
<1>3. Distance(x, from) <= bound
  OBVIOUS
<1>4. Arrives(openness, dir, left, 0, x, bound) <=>
        /\ openness = Full =>
             dir = "OPENNING" /\ (x = Travel \/ x + left >= Travel + ExtraTicks)
        /\ openness = 0 =>
             dir = "CLOSING" /\ (x = 0 \/ x + ExtraTicks <= left)
        /\ ~IsFull(openness) =>
             CASE dir = "OPENNING" -> left <= to /\ Distance(x, to - left) <= bound + 0
               [] dir = "CLOSING"  -> to + left <= Travel /\ Distance(x, to + left) <= bound + 0
               [] OTHER -> FALSE
  BY DEF Arrives
<1> HIDE DEF dir, left, from, to
<1> DEFINE goal == Arrives(openness, dir, left, 0, x, bound)
<1> HIDE DEF goal
<1>5. ASSUME IsFull(openness)
      PROVE  goal
  BY <1>1, <1>2, <1>4, <1>5 DEF goal
<1>6. ASSUME ~IsFull(openness), dir = "OPENNING", left = to - from
      PROVE  goal
  <2>1. left <= to /\ to - left = from /\ bound + 0 = bound
    BY <1>1, <1>6
  <2> QED
    BY <1>2, <1>3, <1>4, <1>6, <2>1 DEF goal
<1>7. ASSUME ~IsFull(openness), dir = "CLOSING", left = from - to
      PROVE  goal
  <2>1. to + left <= Travel /\ to + left = from /\ bound + 0 = bound
    BY <1>1, <1>7
  <2>2. dir # "OPENNING"
    BY <1>7
  <2> QED
    BY <1>2, <1>3, <1>4, <1>7, <2>1, <2>2 DEF goal
<1> QED
  <2>1. goal
    BY <1>2, <1>5, <1>6, <1>7
  <2> QED
    BY <2>1 DEF goal, dir, left

Step(dir, x) ==
    CASE dir = "OPENNING" /\ x < Travel -> x + 1
      [] dir = "CLOSING" /\ x > 0 -> x - 1
      [] OTHER -> x

\* A tick with the motor on brings it nearer, or makes it later.
LEMMA TickArrives ==
    ASSUME NEW openness \in Degrees, NEW dir \in {"OPENNING", "CLOSING"},
           NEW left \in Nat, NEW late \in Nat, NEW x \in 0..Travel, NEW bound \in 0..Travel,
           Arrives(openness, dir, left, late, x, bound),
           NEW nowLeft, NEW nowLate,
           \/ left > 0 /\ nowLeft = left - 1 /\ nowLate = late
           \/ left = 0 /\ nowLeft = 0 /\ nowLate = late + 1
    PROVE  Arrives(openness, dir, nowLeft, nowLate, Step(dir, x), bound)
<1> DEFINE to == Target(openness)
           y  == Step(dir, x)
<1>1. /\ to \in 0..Travel /\ Travel \in Nat /\ ExtraTicks \in Nat
      /\ nowLeft \in Nat /\ nowLate \in Nat
  <2>1. to \in 0..Travel
    BY Targets
  <2>2. Travel \in Nat /\ ExtraTicks \in Nat
    BY Arithmetic, ShutterAssumption
  <2>3. nowLeft \in Nat /\ nowLate \in Nat
    OBVIOUS
  <2> QED
    BY <2>1, <2>2, <2>3
<1>2. /\ dir = "OPENNING" => y = IF x < Travel THEN x + 1 ELSE x
      /\ dir = "CLOSING" => y = IF x > 0 THEN x - 1 ELSE x
      /\ y \in Int
  BY <1>1 DEF Step
<1> HIDE DEF to, y
<1>3. openness = Full => dir = "OPENNING" /\ (y = Travel \/ y + nowLeft >= Travel + ExtraTicks)
  BY <1>1, <1>2 DEF Arrives
<1>4. openness = 0 => dir = "CLOSING" /\ (y = 0 \/ y + ExtraTicks <= nowLeft)
  <2>1. openness = 0 => dir = "CLOSING" /\ (x = 0 \/ x + ExtraTicks <= left)
    BY DEF Arrives
  <2> QED
    BY <1>1, <1>2, <2>1
<1>5. CASE ~IsFull(openness) /\ dir = "OPENNING"
  <2>1. left <= to /\ Distance(x, to - left) <= bound + late
    BY <1>5, Zenon DEF Arrives, to
  <2>2. nowLeft <= to /\ Distance(y, to - nowLeft) <= bound + nowLate
    BY <1>1, <1>2, <1>5, <2>1 DEF Distance
  <2> QED
    BY <1>3, <1>4, <1>5, <2>2, Zenon DEF Arrives, to, y
<1>6. CASE ~IsFull(openness) /\ dir = "CLOSING"
  <2>0. dir # "OPENNING"
    BY <1>6
  <2>1. to + left <= Travel /\ Distance(x, to + left) <= bound + late
    BY <1>6, <2>0, Zenon DEF Arrives, to
  <2>2. to + nowLeft <= Travel /\ Distance(y, to + nowLeft) <= bound + nowLate
    BY <1>1, <1>2, <1>6, <2>1 DEF Distance
  <2> QED
    BY <1>3, <1>4, <1>6, <2>0, <2>2, Zenon DEF Arrives, to, y
<1>7. CASE IsFull(openness)
  BY <1>3, <1>4, <1>7, Zenon DEF Arrives, y
<1> QED
  BY <1>5, <1>6, <1>7

\* A shutter that stops is off by no more than the bound that results.
LEMMA StopArrives ==
    ASSUME NEW r \in ShutterState, r.openness \in Degrees, r.state = "STOPPED",
           r.work \in Nat,
           NEW dir \in {"OPENNING", "CLOSING"}, NEW x \in 0..Travel, NEW bound \in 0..Travel,
           Arrives(r.openness, dir, 0, r.work, x, bound)
    PROVE  Distance(x, Target(r.openness)) <= SlackAfter(r, bound)
<1> DEFINE to   == Target(r.openness)
           late == r.work
<1>1. to \in 0..Travel /\ Travel \in Nat /\ ExtraTicks \in Nat /\ late \in Nat
  BY Targets, Arithmetic, ShutterAssumption
<1>2. SlackAfter(r, bound) = IF IsFull(r.openness) THEN 0
                             ELSE IF bound + late < Travel THEN bound + late ELSE Travel
  BY DEF SlackAfter
<1>3. CASE IsFull(r.openness)
  <2>1. r.openness = Full \/ r.openness = 0
    BY <1>3 DEF IsFull
  <2>2. x = to
    <3>1. r.openness = Full => x = Travel \/ x + 0 >= Travel + ExtraTicks
      BY DEF Arrives
    <3>2. r.openness = 0 => x = 0 \/ x + ExtraTicks <= 0
      BY DEF Arrives
    <3>3. /\ r.openness = Full => to = Travel
          /\ r.openness = 0 => to = 0
      BY Targets
    <3> HIDE DEF to
    <3> QED
      BY <1>1, <2>1, <3>1, <3>2, <3>3
  <2>3. Distance(x, x) = 0
    BY DEF Distance
  <2> HIDE DEF to
  <2>4. Distance(x, to) <= SlackAfter(r, bound)
    BY <1>2, <1>3, <2>2, <2>3
  <2> QED
    BY <2>4 DEF to
<1>4. CASE ~IsFull(r.openness)
  <2>1. \/ dir = "OPENNING" /\ Distance(x, to - 0) <= bound + late
        \/ dir = "CLOSING" /\ Distance(x, to + 0) <= bound + late
    <3>1. CASE dir = "OPENNING"
      BY <1>4, <3>1, Zenon DEF Arrives
    <3>2. CASE dir = "CLOSING"
      <4>1. dir # "OPENNING"
        BY <3>2
      <4> QED
        BY <1>4, <3>2, <4>1, Zenon DEF Arrives
    <3> QED
      BY <3>1, <3>2
  <2> HIDE DEF to, late
  <2>2. Distance(x, to) <= bound + late /\ Distance(x, to) <= Travel
    BY <1>1, <2>1 DEF Distance
  <2>3. Distance(x, to) <= SlackAfter(r, bound)
    BY <1>2, <1>4, <2>2
  <2> QED
    BY <2>3 DEF to
<1> QED
  BY <1>3, <1>4

\* The way a shutter is driven, and where it is with respect to where it was told
\* to go: there if idle, on its way, or about to be.
Way(r) == IF r.pos THEN "OPENNING" ELSE "CLOSING"

Sited(r, x, bound) ==
    /\ r.openness \in Degrees
    /\ ~r.flag => Distance(x, Target(r.openness)) <= bound
    /\ r.flag /\ ~Driven(r) =>
         /\ r.state \in {"OPENNING", "CLOSING"}
         /\ Arrives(r.openness, r.state, r.duration, 0, x, bound)
    /\ Driven(r) => Arrives(r.openness, Way(r), Left(r), Late(r), x, bound)

LEMMA SetOpennessSited ==
    ASSUME TypeOK, Checks, NEW r \in ShutterState, NEW openness \in Byte,
           Accepted(r, openness), OneStep(r), Tracked(r),
           NEW x \in 0..Travel, NEW bound \in 0..Travel, Sited(r, x, bound)
    PROVE  Sited(SetOpenness(r, openness), x, bound)
<1> DEFINE marked   == [r EXCEPT !.openness = openness, !.flag = TRUE]
           dir      == Direction(r, openness)
           duration == Duration(r, openness)
           new      == SetOpenness(r, openness)
<1>1. /\ ~r.flag /\ ~Driven(r) /\ r.ev = Unscheduled /\ r.work = Idle
      /\ r.openness \in Degrees /\ Distance(x, Target(r.openness)) <= bound
  BY DEF Accepted, OneStep, Tracked, Scheduled, Queued, Sited
<1>2. openness \in Degrees
  <2>1. openness \in Nat /\ openness <= Full
    BY Arithmetic DEF Accepted
  <2> QED
    BY <2>1, ShutterAssumption DEF Degrees
<1>3. duration \in Nat /\ dir \in {"OPENNING", "CLOSING"}
  BY <1>1, <1>2, MoveIs DEF Direction
<1>4. Arrives(openness, dir, duration, 0, x, bound)
  BY <1>1, <1>2, MoveArrives
<1>5. new = IF powered THEN StartNow(marked, dir, duration)
            ELSE StartLater(marked, dir, duration)
  BY DEF SetOpenness
<1>6. marked \in ShutterState /\ marked.openness = openness /\ marked.flag
      /\ marked.ev = Unscheduled /\ marked.work = Idle
      /\ marked.pos = r.pos /\ marked.neg = r.neg
  BY <1>1 DEF ShutterState
<1> HIDE DEF marked, dir, duration, new
<1>7. CASE powered
  <2>1. /\ new.openness = openness /\ new.flag
        /\ new.ev = duration /\ new.work = Idle
        /\ new.pos = (dir = "OPENNING") /\ new.neg = (dir = "CLOSING")
    BY <1>5, <1>6, <1>7 DEF StartNow, RunDirection, Schedule, ShutterState
  <2>2. Driven(new) /\ Way(new) = dir
    BY <1>3, <2>1 DEF Driven, Way
  <2>3. Left(new) = duration /\ Late(new) = 0
    BY <1>3, <2>1 DEF Left, Late, Scheduled, Queued
  <2> QED
    BY <1>2, <1>4, <2>1, <2>2, <2>3 DEF Sited, new
<1>8. CASE ~powered
  <2>1. /\ new.openness = openness /\ new.flag
        /\ new.state = dir /\ new.duration = duration
        /\ new.pos = r.pos /\ new.neg = r.neg
    BY <1>5, <1>6, <1>8 DEF StartLater, ShutterState
  <2>2. ~Driven(new)
    BY <1>1, <2>1 DEF Driven
  <2> QED
    BY <1>2, <1>3, <1>4, <2>1, <2>2 DEF Sited, new
<1> QED
  BY <1>7, <1>8

LEMMA EventCbSited ==
    ASSUME NEW r \in ShutterState, r.ev = 0, OneStep(r), NEW x, NEW bound, Sited(r, x, bound)
    PROVE  Sited(EventCb(r), x, bound)
<1>1. r.work = Idle
  BY DEF OneStep, Scheduled, Queued
<1>2. EventCb(r) = [r EXCEPT !.ev = Unscheduled, !.work = 0]
  BY <1>1 DEF EventCb, Submit
<1>3. /\ EventCb(r).openness = r.openness /\ EventCb(r).flag = r.flag
      /\ EventCb(r).state = r.state /\ EventCb(r).duration = r.duration
      /\ EventCb(r).pos = r.pos /\ EventCb(r).neg = r.neg
      /\ EventCb(r).ev = Unscheduled /\ EventCb(r).work = 0
  BY <1>2 DEF ShutterState
<1>4. Left(EventCb(r)) = Left(r) /\ Late(EventCb(r)) = Late(r)
  BY <1>1, <1>3 DEF Left, Late, Scheduled, Queued
<1>5. (Driven(EventCb(r)) <=> Driven(r)) /\ Way(EventCb(r)) = Way(r)
  BY <1>3 DEF Driven, Way
<1> QED
  BY <1>3, <1>4, <1>5, Zenon DEF Sited

LEMMA EventHandlerSited ==
    ASSUME NEW r \in ShutterState, Queued(r), OneStep(r), Timed(r, powered, settle),
           NEW x \in 0..Travel, NEW bound \in 0..Travel, Sited(r, x, bound)
    PROVE  Sited(EventHandler(r), x, SlackAfter(r, bound))
<1>1. r.flag /\ r.ev = Unscheduled /\ r.openness \in Degrees
  BY DEF OneStep, Scheduled, Sited
<1>2. CASE r.state = "STOPPED"
  <2>1. Driven(r)
    BY <1>1, <1>2 DEF Sited
  <2>2. r.work \in Nat /\ Left(r) = 0 /\ Late(r) = r.work
    BY <1>1 DEF ShutterState, Queued, Left, Late, Scheduled
  <2>3. Arrives(r.openness, Way(r), 0, r.work, x, bound) /\ Way(r) \in {"OPENNING", "CLOSING"}
    BY <2>1, <2>2 DEF Sited, Way
  <2>4. Distance(x, Target(r.openness)) <= SlackAfter(r, bound)
    BY <1>1, <1>2, <2>2, <2>3, StopArrives
  <2>5. /\ EventHandler(r).openness = r.openness
        /\ ~EventHandler(r).flag /\ ~Driven(EventHandler(r))
    <3>1. EventHandler(r).openness = r.openness
      BY <1>2 DEF EventHandler, RunDirection, ShutterState
    <3> QED
      BY <1>2, <3>1, EventHandlerStops
  <2> QED
    BY <1>1, <2>4, <2>5 DEF Sited
<1>3. CASE r.state # "STOPPED"
  <2>1. ~Driven(r)
    BY <1>3 DEF Timed
  <2>2. r.state \in {"OPENNING", "CLOSING"} /\ Arrives(r.openness, r.state, r.duration, 0, x, bound)
    BY <1>1, <2>1 DEF Sited
  <2>3. r.duration \in Nat
    BY Arithmetic DEF ShutterState
  <2>4. /\ EventHandler(r).openness = r.openness /\ EventHandler(r).flag
        /\ EventHandler(r).pos = (r.state = "OPENNING")
        /\ EventHandler(r).neg = (r.state = "CLOSING")
        /\ EventHandler(r).ev = r.duration /\ EventHandler(r).work = Idle
    BY <1>1, <1>3 DEF EventHandler, RunDirection, Schedule, ShutterState
  <2>5. Driven(EventHandler(r)) /\ Way(EventHandler(r)) = r.state
    BY <2>2, <2>4 DEF Driven, Way
  <2>6. Left(EventHandler(r)) = r.duration /\ Late(EventHandler(r)) = 0
    BY <2>3, <2>4 DEF Left, Late, Scheduled, Queued
  <2>7. SlackAfter(r, bound) = bound
    BY <1>3 DEF SlackAfter
  <2> QED
    BY <1>1, <2>2, <2>4, <2>5, <2>6, <2>7 DEF Sited
<1> QED
  BY <1>2, <1>3

LEMMA AgeSited ==
    ASSUME NEW r \in ShutterState, ~Expired(r.ev), OneStep(r), Tracked(r), r.flag => power,
           NEW x \in 0..Travel, NEW bound \in 0..Travel, Sited(r, x, bound)
    PROVE  Sited(Age(r), Moved(r, x), bound)
<1>1. /\ Age(r).openness = r.openness /\ Age(r).flag = r.flag
      /\ Age(r).state = r.state /\ Age(r).duration = r.duration
      /\ Age(r).pos = r.pos /\ Age(r).neg = r.neg
      /\ Age(r).ev = Elapse(r.ev) /\ Age(r).work = Wait(r.work)
  BY DEF Age, ShutterState
<1>2. (Driven(Age(r)) <=> Driven(r)) /\ Way(Age(r)) = Way(r)
  BY <1>1 DEF Driven, Way
<1>3. r.pos \in BOOLEAN /\ r.neg \in BOOLEAN
  BY DEF ShutterState
<1>4. CASE ~Driven(r)
  <2>1. ~Opening(r) /\ ~Closing(r)
    BY <1>3, <1>4 DEF Driven, Opening, Closing
  <2>2. Moved(r, x) = x
    BY <2>1, Zenon DEF Moved
  <2> QED
    BY <1>1, <1>2, <1>4, <2>2, Zenon DEF Sited
<1>5. CASE Driven(r)
  <2>1. r.flag /\ power /\ (Scheduled(r) \/ Queued(r)) /\ ~(Scheduled(r) /\ Queued(r))
    BY <1>5 DEF Tracked, OneStep
  <2>2. /\ Opening(r) <=> Way(r) = "OPENNING"
        /\ Closing(r) <=> Way(r) = "CLOSING"
        /\ Way(r) \in {"OPENNING", "CLOSING"}
    BY <1>3, <1>5 DEF Driven, Opening, Closing, Way
  <2>3. Moved(r, x) = Step(Way(r), x)
    BY <2>1, <2>2, Zenon DEF Moved, Step
  <2>4. /\ Left(r) \in Nat /\ Late(r) \in Nat
        /\ \/ Left(r) > 0 /\ Left(Age(r)) = Left(r) - 1 /\ Late(Age(r)) = Late(r)
           \/ Left(r) = 0 /\ Left(Age(r)) = 0 /\ Late(Age(r)) = Late(r) + 1
    <3>1. r.ev \in EventTime /\ r.work \in WorkState
      BY DEF ShutterState
    <3>2. CASE Scheduled(r)
      <4>1. r.ev \in Nat /\ r.ev > 0 /\ r.work = Idle
        BY <2>1, <3>1, <3>2 DEF Scheduled, Queued, Expired
      <4>2. Age(r).ev = r.ev - 1 /\ Age(r).work = Idle
        BY <1>1, <4>1 DEF Elapse, Wait
      <4> QED
        BY <4>1, <4>2 DEF Left, Late, Scheduled, Queued
    <3>3. CASE Queued(r)
      <4>1. r.ev = Unscheduled /\ r.work \in Nat
        BY <2>1, <3>1, <3>3 DEF Scheduled, Queued
      <4>2. Age(r).ev = Unscheduled /\ Age(r).work = r.work + 1
        BY <1>1, <4>1 DEF Elapse, Wait
      <4> QED
        BY <4>1, <4>2 DEF Left, Late, Scheduled, Queued
    <3> QED
      BY <2>1, <3>2, <3>3
  <2>5. r.openness \in Degrees /\ Arrives(r.openness, Way(r), Left(r), Late(r), x, bound)
    BY <1>5 DEF Sited
  <2>6. Arrives(r.openness, Way(r), Left(Age(r)), Late(Age(r)), Step(Way(r), x), bound)
    BY <2>2, <2>4, <2>5, TickArrives
  <2> QED
    BY <1>1, <1>2, <1>5, <2>1, <2>3, <2>5, <2>6, Zenon DEF Sited
<1> QED
  BY <1>4, <1>5

DriftInv == \A s \in Shutters : Sited(sh[s], real[s], slack[s])

LEMMA DriftInvInit == Init => DriftInv
<1> SUFFICES ASSUME Init, NEW s \in Shutters PROVE Sited(sh[s], real[s], slack[s])
  BY DEF DriftInv
<1>1. sh[s] = InitialShutter /\ real[s] \in 0..Travel /\ slack[s] = Travel
  BY DEF Init
<1>2. /\ InitialShutter.openness = 0 /\ ~InitialShutter.flag
      /\ InitialShutter.pos = InitialShutter.neg
  BY DEF InitialShutter
<1>3. Distance(real[s], 0) <= Travel
  BY <1>1, Arithmetic DEF Distance
<1> QED
  BY <1>1, <1>2, <1>3, Targets DEF Sited, Driven

LEMMA DriftInvNext ==
    ASSUME Checks
    PROVE  TypeOK /\ TrackInv /\ CheckedInv /\ DriftInv /\ [Next]_vars => DriftInv'
<1> SUFFICES ASSUME TypeOK, TrackInv, CheckedInv, DriftInv, [Next]_vars, NEW t \in Shutters
             PROVE  Sited(sh'[t], real'[t], slack'[t])
  BY DEF DriftInv
<1>0. /\ sh[t] \in ShutterState /\ real[t] \in 0..Travel /\ slack[t] \in 0..Travel
      /\ OneStep(sh[t]) /\ Timed(sh[t], powered, settle) /\ Tracked(sh[t])
      /\ sh[t].flag => power
      /\ Sited(sh[t], real[t], slack[t])
  BY DEF TypeOK, TrackInv, PowerFollows, AnyRunning, CheckedInv, DriftInv
<1>1. ASSUME NEW cmds \in [Shutters -> Commands \cup {None}], AppCommand(cmds)
      PROVE  Sited(sh'[t], real'[t], slack'[t])
  <2>1. real' = real /\ slack' = slack
    BY <1>1 DEF AppCommand
  <2>2. CASE sh'[t] = sh[t]
    BY <1>0, <2>1, <2>2
  <2>3. CASE /\ cmds[t] \in Byte /\ Accepted(sh[t], cmds[t])
             /\ sh'[t] = SetOpenness(sh[t], cmds[t])
    BY <1>0, <2>1, <2>3, SetOpennessSited
  <2> QED
    BY <1>1, <2>2, <2>3, CommandMoves
<1>2. ASSUME NEW s \in Shutters, EventFires(s)
      PROVE  Sited(sh'[t], real'[t], slack'[t])
  <2>1. /\ sh'[t] = IF t = s THEN EventCb(sh[t]) ELSE sh[t]
        /\ sh[s].ev = 0 /\ real' = real /\ slack' = slack
    BY <1>2 DEF EventFires, Expired, TypeOK
  <2> QED
    BY <1>0, <2>1, EventCbSited
<1>3. ASSUME NEW s \in Shutters, WorkRuns(s)
      PROVE  Sited(sh'[t], real'[t], slack'[t])
  <2>1. /\ sh'[t] = IF t = s THEN EventHandler(sh[t]) ELSE sh[t]
        /\ slack'[t] = IF t = s THEN SlackAfter(sh[t], slack[t]) ELSE slack[t]
        /\ Queued(sh[s]) /\ real' = real
    BY <1>3 DEF WorkRuns, Queued, TypeOK
  <2> QED
    BY <1>0, <2>1, EventHandlerSited
<1>4. ASSUME Tick
      PROVE  Sited(sh'[t], real'[t], slack'[t])
  <2>1. /\ sh'[t] = Age(sh[t]) /\ ~Expired(sh[t].ev)
        /\ real'[t] = Moved(sh[t], real[t]) /\ slack' = slack
    BY <1>4 DEF Tick
  <2> QED
    BY <1>0, <2>1, AgeSited
<1>5. CASE UNCHANGED vars
  BY <1>0, <1>5 DEF vars
<1> QED
  BY <1>1, <1>2, <1>3, <1>4, <1>5 DEF Next

\* With the argument checks, and for any durations and latency: the openness
\* reported for a shutter that stands still is off by no more than what its stops
\* waited in the workqueue since it last was fully opened or closed.
THEOREM PositionDriftHolds ==
    ASSUME Checks
    PROVE  Spec => []PositionDrift
<1>1. DriftInv => PositionDrift
  BY DEF DriftInv, Sited, Target, PositionDrift
<1> QED
  BY <1>1, DriftInvInit, DriftInvNext, CheckedInvHolds, PTL DEF Spec

-----------------------------------------------------------------------------
(* With the argument checks: the time a move takes *)

\* What is ahead of a shutter is never more than it should be: a start is the end
\* of the start-up delay, a stop that of the move.
InTime(r) ==
    /\ r.flag /\ r.state # "STOPPED" => r.ev <= StartupTicks /\ r.duration <= Travel + ExtraTicks
    /\ r.flag /\ r.state = "STOPPED" => r.ev <= Travel + ExtraTicks

Timely == \A s \in Shutters : InTime(sh[s])

\* No move an accepted command asks for is longer than a full one.
LEMMA DurationBound ==
    ASSUME NEW r \in ShutterState, r.openness \in Degrees, NEW openness \in Degrees
    PROVE  Duration(r, openness) \in 0..(Travel + ExtraTicks)
<1> DEFINE from == Target(r.openness)
           to   == Target(openness)
           d    == Duration(r, openness)
<1>1. from \in 0..Travel /\ to \in 0..Travel
  BY Targets
<1>2. d \in Nat /\ (d = Travel + ExtraTicks \/ d = to - from \/ d = from - to)
  BY MoveIs
<1> HIDE DEF from, to, d, Travel
<1>3. d \in 0..(Travel + ExtraTicks)
  BY <1>1, <1>2, Bounds
<1> QED
  BY <1>3 DEF d

\* What is left of the move is well defined.
LEMMA LeftIs ==
    ASSUME NEW r \in ShutterState, OneStep(r), InTime(r), r.work <= MaxLatency
    PROVE  TicksLeft(r) \in 0..LongestMove
<1>1. /\ r.ev \in EventTime /\ r.work \in WorkState /\ r.duration \in Nat
  BY Arithmetic DEF ShutterState
<1>2. CASE ~r.flag
  BY <1>2, Bounds DEF TicksLeft
<1>3. CASE r.flag
  <2> DEFINE next == NextRun(r)
             M    == Travel + ExtraTicks
  <2>1. /\ Scheduled(r) \/ Queued(r)
        /\ Scheduled(r) => ~Queued(r) /\ r.ev \in Nat
        /\ Queued(r) => r.work \in Nat
    BY <1>1, <1>3 DEF OneStep, Scheduled, Queued
  <2>2. CASE r.state = "STOPPED"
    <3>1. r.ev <= M
      BY <1>3, <2>2 DEF InTime
    <3>2. TicksLeft(r) = NextRun(r)
      BY <1>3, <2>2 DEF TicksLeft
    <3>3. next \in 0..(M + MaxLatency)
      <4>1. M \in Nat
        BY Bounds
      <4> HIDE DEF M
      <4> QED
        BY <2>1, <3>1, <4>1, Bounds DEF NextRun
    <3> HIDE DEF M, next
    <3> QED
      BY <3>2, <3>3, Bounds DEF next, M
  <2>3. CASE r.state # "STOPPED"
    <3>1. r.ev <= StartupTicks /\ r.duration <= M
      BY <1>3, <2>3 DEF InTime
    <3>2. TicksLeft(r) = next + r.duration + MaxLatency
      BY <1>1, <1>3, <2>1, <2>3 DEF TicksLeft, RunsFor, Scheduled
    <3>3. next \in 0..(StartupTicks + MaxLatency)
      BY <2>1, <3>1, Bounds DEF NextRun
    <3> HIDE DEF M, next
    <3> QED
      BY <1>1, <3>1, <3>2, <3>3, Bounds DEF M
  <2> QED
    BY <2>2, <2>3
<1> QED
  BY <1>2, <1>3

\* A command that is accepted begins a move in time.
LEMMA SetOpennessInTime ==
    ASSUME TypeOK, Checks, NEW r \in ShutterState, NEW openness \in Byte,
           Accepted(r, openness), OneStep(r), r.openness \in Degrees
    PROVE  InTime(SetOpenness(r, openness))
<1> DEFINE marked   == [r EXCEPT !.openness = openness, !.flag = TRUE]
           dir      == Direction(r, openness)
           duration == Duration(r, openness)
           new      == SetOpenness(r, openness)
           M        == Travel + ExtraTicks
<1>1. r.ev = Unscheduled /\ r.work = Idle
  BY DEF Accepted, OneStep, Scheduled, Queued
<1>2. openness \in Degrees
  <2>1. openness \in Nat /\ openness <= Full
    BY Arithmetic DEF Accepted
  <2> QED
    BY <2>1, ShutterAssumption DEF Degrees
<1>3. duration \in 0..M
  BY <1>2, DurationBound
<1>4. dir \in {"OPENNING", "CLOSING"}
  BY DEF Direction
<1>5. new = IF powered THEN StartNow(marked, dir, duration)
            ELSE StartLater(marked, dir, duration)
  BY DEF SetOpenness
<1>6. marked \in ShutterState /\ marked.ev = Unscheduled /\ marked.work = Idle
  BY <1>1 DEF ShutterState
<1> HIDE DEF marked, dir, duration, new, M
<1>7. CASE powered
  <2>1. new.state = "STOPPED" /\ new.ev = duration /\ new.work = Idle
    BY <1>5, <1>6, <1>7 DEF StartNow, RunDirection, Schedule, ShutterState
  <2> QED
    BY <1>3, <2>1, Bounds DEF InTime, M, new
<1>8. CASE ~powered
  <2>1. /\ new.state = dir /\ new.duration = duration
        /\ new.ev = StartupTicks /\ new.work = Idle
    BY <1>5, <1>6, <1>8 DEF StartLater, Schedule, ShutterState
  <2> QED
    BY <1>3, <1>4, <2>1, Bounds DEF InTime, M, new
<1> QED
  BY <1>7, <1>8

LEMMA TimelyInit == Init => Timely
<1>1. ~InitialShutter.flag
  BY DEF InitialShutter
<1> QED
  BY <1>1 DEF Init, Timely, InTime

LEMMA TimelyNext ==
    ASSUME Checks, TypeOK, CheckedInv, DriftInv, Timely, [Next]_vars
    PROVE  Timely'
<1> SUFFICES ASSUME NEW t \in Shutters PROVE InTime(sh'[t])
  BY DEF Timely
<1>0. /\ sh[t] \in ShutterState /\ OneStep(sh[t]) /\ InTime(sh[t])
      /\ sh[t].openness \in Degrees
  BY DEF TypeOK, CheckedInv, DriftInv, Sited, Timely
<1>1. ASSUME NEW cmds \in [Shutters -> Commands \cup {None}], AppCommand(cmds)
      PROVE  InTime(sh'[t])
  BY <1>0, <1>1, CommandMoves, SetOpennessInTime
<1>2. ASSUME NEW s \in Shutters, EventFires(s)
      PROVE  InTime(sh'[t])
  <2>1. sh'[t] = (IF t = s THEN EventCb(sh[t]) ELSE sh[t])
    BY <1>2 DEF EventFires, TypeOK
  <2>2. /\ EventCb(sh[t]).ev = Unscheduled /\ EventCb(sh[t]).duration = sh[t].duration
        /\ EventCb(sh[t]).flag = sh[t].flag /\ EventCb(sh[t]).state = sh[t].state
    BY <1>0 DEF EventCb, ShutterState
  <2>3. Unscheduled <= StartupTicks /\ Unscheduled <= Travel + ExtraTicks
    BY Bounds
  <2>4. InTime(EventCb(sh[t]))
    BY <1>0, <2>2, <2>3 DEF InTime
  <2> QED
    BY <1>0, <2>1, <2>4
<1>3. ASSUME NEW s \in Shutters, WorkRuns(s)
      PROVE  InTime(sh'[t])
  <2>1. sh'[t] = (IF t = s THEN EventHandler(sh[t]) ELSE sh[t]) /\ Queued(sh[s])
    BY <1>3 DEF WorkRuns, Queued, TypeOK
  <2>2. CASE t = s /\ sh[t].state = "STOPPED"
    BY <1>0, <2>1, <2>2, EventHandlerStops DEF InTime
  <2>3. CASE t = s /\ sh[t].state # "STOPPED"
    <3>1. sh[t].flag /\ sh[t].ev = Unscheduled
      BY <1>0, <2>1, <2>3 DEF OneStep, Scheduled
    <3>2. EventHandler(sh[t]).ev = sh[t].duration /\ EventHandler(sh[t]).state = "STOPPED"
      BY <1>0, <2>3, <3>1 DEF EventHandler, RunDirection, Schedule, ShutterState
    <3> QED
      BY <1>0, <2>1, <2>3, <3>1, <3>2 DEF InTime
  <2> QED
    BY <1>0, <2>1, <2>2, <2>3
<1>4. ASSUME Tick
      PROVE  InTime(sh'[t])
  <2>1. sh'[t] = Age(sh[t])
    BY <1>4 DEF Tick
  <2>2. /\ Age(sh[t]).flag = sh[t].flag /\ Age(sh[t]).state = sh[t].state
        /\ Age(sh[t]).duration = sh[t].duration /\ Age(sh[t]).ev = Elapse(sh[t].ev)
    BY <1>0 DEF Age, ShutterState
  <2> DEFINE M == Travel + ExtraTicks
             e == Elapse(sh[t].ev)
  <2>3. /\ sh[t].ev \in Int /\ e \in Int /\ e <= sh[t].ev /\ M \in Nat
        /\ StartupTicks \in Nat
    BY <1>0, Bounds DEF Elapse, ShutterState
  <2> HIDE DEF M, e
  <2>4. /\ sh[t].ev <= StartupTicks => e <= StartupTicks
        /\ sh[t].ev <= M => e <= M
    BY <2>3
  <2> QED
    BY <1>0, <2>1, <2>2, <2>4 DEF InTime, M, e
<1>5. CASE UNCHANGED vars
  BY <1>0, <1>5 DEF vars
<1> QED
  BY <1>1, <1>2, <1>3, <1>4, <1>5 DEF Next

\* With the argument checks, and for any durations and latency: a motor is never
\* driven for longer than its start-up delay, a full move and what two work items may
\* wait, for neither commands nor the other shutters add to what is left of a move,
\* and time takes from it.
THEOREM MoveInTimeHolds ==
    ASSUME Checks
    PROVE  Spec => MoveInTime
<1> DEFINE Bound == \A s \in Shutters : TicksLeft(sh[s]) \in 0..LongestMove
           Fall  == \A s \in Shutters : Falls(s)
           Inv   == TypeOK /\ TrackInv /\ CheckedInv /\ DriftInv
<1>1. Spec => []Inv
  BY DriftInvInit, DriftInvNext, CheckedInvHolds, PTL DEF Spec
<1>2. Inv /\ Timely /\ [Next]_vars => Timely'
  BY TimelyNext
<1>3. Inv /\ Prompt /\ [Next]_vars => Prompt'
  BY PromptNext
<1>4. Inv /\ Prompt /\ Timely => Bound
  BY LeftIs DEF TypeOK, CheckedInv, Timely, Prompt
<1>5. Inv /\ Prompt /\ [Next]_vars => [Fall]_vars
  <2>1. \A s \in Shutters : Commanded(s) => ~sh[s].flag
    BY DEF Commanded, Accepted
  <2> QED
    BY <2>1, NextFalls DEF Falls
<1> HIDE DEF Bound, Fall, Inv
<1>6. Spec => []Bound /\ [][Fall]_vars
  BY <1>1, <1>2, <1>3, <1>4, <1>5, TimelyInit, PromptInit, PTL DEF Spec
<1> QED
  BY <1>6 DEF MoveInTime, Bound, Fall, Falls
=============================================================================
