------------------------------ MODULE Shutter ------------------------------
(***************************************************************************)
(* The shutters driver (devices/shutter.c) under the command handler of    *)
(* the shutters controller (nodes/shutters-controller/dev.c).              *)
(*                                                                         *)
(* A shutter is moved by two outputs, one per direction; all shutters      *)
(* share one power output.  A command computes for how long to run, powers *)
(* the motors if they are not, and leaves the rest to the shutter's event: *)
(* its interrupt submits a work item that starts or stops the motor and    *)
(* cuts the power when no shutter is running any more.                     *)
(*                                                                         *)
(* Durations are in ticks.  The true position of a shutter, which the      *)
(* firmware has no sensor for, is part of the model as a ghost.            *)
(***************************************************************************)
EXTENDS KernelEvents

CONSTANTS
    Shutters,
    Checks,        \* CONFIG_CHECKS: the argument checks are compiled in
    Commands,      \* openness values a command frame may carry
    Full,          \* openness of an open shutter: 100
    UnitTicks,     \* SHUTTER_OPENNING_DURATION_MS / 100
    ExtraTicks,    \* ENSURE_ADDITIONAL_DURATION_MS
    StartupTicks,  \* POWER_ON_STARTUP_DELAY_MS
    MinDiff,       \* SHUTTER_MINIMAL_OPENNESS_DIFF_PERCENT
    MaxLatency     \* ticks a submitted work item may wait for the workqueue

UINT16_MAX == 65535

Byte == 0..255          \* uint8_t
Word == 0..UINT16_MAX   \* uint16_t

ASSUME ShutterAssumption ==
    /\ Checks \in BOOLEAN
    /\ Commands \subseteq Byte
    /\ Full \in 1..100
    /\ UnitTicks \in Nat \ {0}
    /\ ExtraTicks \in Nat
    /\ StartupTicks \in Nat
    /\ MinDiff \in 1..Full
    /\ MaxLatency \in Nat
    /\ Full * UnitTicks + ExtraTicks \in Word

None == 255   \* CANIOT_SHUTTER_CMD_NONE

VARIABLES
    sh,       \* struct shutter of each shutter, its flag and its two outputs
    powered,  \* FLAG_POWERED
    power,    \* level of the power output
    settle,   \* ghost: ticks since the power output became active, saturating
    real,     \* ghost: ticks of opening travel each shutter is away from closed
    slack     \* ghost: bound of the error on the position, in ticks

vars == <<sh, powered, power, settle, real, slack>>

Directions == {"STOPPED", "OPENNING", "CLOSING"}

ShutterState ==
    [openness: Byte, duration: Word, state: Directions,
     ev: EventTime, work: WorkState, flag: BOOLEAN, pos: BOOLEAN, neg: BOOLEAN]

Travel == Full * UnitTicks

-----------------------------------------------------------------------------
(* What a command amounts to *)

\* Conversion to int8_t and to uint16_t.
Int8(x) == ((x + 128) % 256) - 128
U16(x)  == x % (UINT16_MAX + 1)

\* The move an openness asks for, relative to the one last asked for.
Relative(r, openness) == Int8(openness - r.openness)
Magnitude(rel) == U16(IF rel < 0 THEN Int8(-rel) ELSE rel)

IsFull(openness) == openness \in {0, Full}

\* Bug: a shutter that is running is not refused.
AcceptedBusy(r, openness) ==
    /\ Checks => openness <= Full
    /\ IsFull(openness) \/ Magnitude(Relative(r, openness)) >= MinDiff

\* The argument checks, and the moves that are refused as too short.
Accepted(r, openness) ==
    /\ Checks => openness <= Full /\ ~r.flag
    /\ IsFull(openness) \/ Magnitude(Relative(r, openness)) >= MinDiff

Direction(r, openness) ==
    IF openness = Full \/ (openness # 0 /\ Relative(r, openness) > 0)
    THEN "OPENNING" ELSE "CLOSING"

\* Bug: a full move lasts no longer than the difference asks for.
DurationRelative(r, openness) == U16(UnitTicks * Magnitude(Relative(r, openness)))

Duration(r, openness) ==
    IF IsFull(openness) THEN Travel + ExtraTicks
    ELSE U16(UnitTicks * Magnitude(Relative(r, openness)))

-----------------------------------------------------------------------------
(* The driver's operations on one shutter *)

RunDirection(r, dir) ==
    [r EXCEPT !.pos = (dir = "OPENNING"), !.neg = (dir = "CLOSING")]

\* Motors powered: start at once, the event will stop.
StartNow(r, dir, duration) ==
    [RunDirection(r, dir) EXCEPT !.state = "STOPPED", !.ev = Schedule(@, duration)]

\* Bug: the start-up delay is not waited for.
StartAtOnce(r, dir, duration) ==
    [r EXCEPT !.state = dir, !.duration = duration, !.ev = Schedule(@, 0)]

\* Motors being powered: the event will start, after the start-up delay.
StartLater(r, dir, duration) ==
    [r EXCEPT !.state = dir, !.duration = duration, !.ev = Schedule(@, StartupTicks)]

\* Bug: the power is taken to be on.
SetOpennessPowered(r, openness) ==
    IF ~Accepted(r, openness) THEN r
    ELSE StartNow([r EXCEPT !.openness = openness, !.flag = TRUE],
                  Direction(r, openness), Duration(r, openness))

\* shutter_set_openness.
SetOpenness(r, openness) ==
    IF ~Accepted(r, openness) THEN r
    ELSE LET marked   == [r EXCEPT !.openness = openness, !.flag = TRUE]
             dir      == Direction(r, openness)
             duration == Duration(r, openness)
         IN  IF powered THEN StartNow(marked, dir, duration)
             ELSE StartLater(marked, dir, duration)

\* event_cb, in the timer interrupt.
EventCb(r) == [r EXCEPT !.ev = Unscheduled, !.work = Submit(@)]

\* Bug: the stop is not scheduled.
EventHandlerNoStop(r) ==
    LET run == [RunDirection(r, r.state) EXCEPT !.work = Idle]
    IN  IF r.state = "STOPPED" THEN [run EXCEPT !.flag = FALSE]
        ELSE [run EXCEPT !.state = "STOPPED"]

\* shutter_event_handler, on the shutter itself: apply the state, then either
\* the shutter is stopped or its stop is scheduled.
EventHandler(r) ==
    LET run == [RunDirection(r, r.state) EXCEPT !.work = Idle]
    IN  IF r.state = "STOPPED" THEN [run EXCEPT !.flag = FALSE]
        ELSE [run EXCEPT !.state = "STOPPED", !.ev = Schedule(@, r.duration)]

AnyRunning(shutters) == \E s \in Shutters : shutters[s].flag

\* shutters_system_init: zeroed state, every output driven low, which is the
\* active level of all of them.
InitialShutter ==
    [openness |-> 0, duration |-> 0, state |-> "STOPPED", ev |-> Unscheduled,
     work |-> Idle, flag |-> FALSE, pos |-> TRUE, neg |-> TRUE]

Age(r) == [r EXCEPT !.ev = Elapse(@), !.work = Wait(@)]

-----------------------------------------------------------------------------
(* Ghosts *)

Opening(r) == r.pos /\ ~r.neg
Closing(r) == r.neg /\ ~r.pos
Driven(r)  == r.pos # r.neg

\* A motor turns when powered, one way at a time, up to the end of its travel.
Moved(r, x) ==
    CASE power /\ Opening(r) /\ x < Travel -> x + 1
      [] power /\ Closing(r) /\ x > 0 -> x - 1
      [] OTHER -> x

\* The error on the position is unknown at first, none once a full opening or
\* closing stopped, and grows by the time the stop waited in the workqueue.
SlackAfter(r, bound) ==
    IF r.state # "STOPPED" THEN bound
    ELSE IF IsFull(r.openness) THEN 0
    ELSE IF bound + r.work < Travel THEN bound + r.work ELSE Travel

-----------------------------------------------------------------------------
Init ==
    /\ sh = [s \in Shutters |-> InitialShutter]
    /\ powered = FALSE
    /\ power = TRUE
    /\ settle = 0
    /\ real \in [Shutters -> 0..Travel]
    /\ slack = [s \in Shutters |-> Travel]

\* app_command_handler: one frame commands any number of the shutters.  The
\* first move of an unpowered board switches the power on.
AppCommand(cmds) ==
    LET moves == {s \in Shutters : cmds[s] # None /\ Accepted(sh[s], cmds[s])}
    IN  /\ sh' = [s \in Shutters |->
                    IF s \in moves THEN SetOpenness(sh[s], cmds[s]) ELSE sh[s]]
        /\ power' = (power \/ (moves # {} /\ ~powered))
        /\ settle' = IF power THEN settle ELSE 0
        /\ UNCHANGED <<powered, real, slack>>

EventFires(s) ==
    /\ Expired(sh[s].ev)
    /\ sh' = [sh EXCEPT ![s] = EventCb(@)]
    /\ UNCHANGED <<powered, power, settle, real, slack>>

\* Bug: the power goes off with any shutter that stops.
WorkRunsDepowers(s) ==
    /\ sh[s].work # Idle
    /\ sh' = [sh EXCEPT ![s] = EventHandler(@)]
    /\ powered' = sh'[s].flag
    /\ power' = (power /\ sh'[s].flag)
    /\ slack' = [slack EXCEPT ![s] = SlackAfter(sh[s], @)]
    /\ UNCHANGED <<settle, real>>

\* work_cb: the power goes off with the last running shutter.
WorkRuns(s) ==
    /\ sh[s].work # Idle
    /\ sh' = [sh EXCEPT ![s] = EventHandler(@)]
    /\ powered' = AnyRunning(sh')
    /\ power' = (power /\ AnyRunning(sh'))
    /\ slack' = [slack EXCEPT ![s] = SlackAfter(sh[s], @)]
    /\ UNCHANGED <<settle, real>>

Tick ==
    /\ \A s \in Shutters : ~Expired(sh[s].ev) /\ sh[s].work < MaxLatency
    /\ sh' = [s \in Shutters |-> Age(sh[s])]
    /\ settle' = IF settle < StartupTicks THEN settle + 1 ELSE settle
    /\ real' = [s \in Shutters |-> Moved(sh[s], real[s])]
    /\ UNCHANGED <<powered, power, slack>>

Next ==
    \/ \E cmds \in [Shutters -> Commands \cup {None}] : AppCommand(cmds)
    \/ \E s \in Shutters : EventFires(s) \/ WorkRuns(s)
    \/ Tick

Spec == Init /\ [][Next]_vars

\* The timer runs, the interrupt is taken and the workqueue is scheduled.
Fairness ==
    /\ WF_vars(Tick)
    /\ \A s \in Shutters : WF_vars(EventFires(s)) /\ WF_vars(WorkRuns(s))

FairSpec == Spec /\ Fairness

-----------------------------------------------------------------------------
(* Properties *)

TypeOK ==
    /\ sh \in [Shutters -> ShutterState]
    /\ powered \in BOOLEAN
    /\ power \in BOOLEAN
    /\ settle \in 0..StartupTicks
    /\ real \in [Shutters -> 0..Travel]
    /\ slack \in [Shutters -> 0..Travel]

Scheduled(r) == r.ev # Unscheduled
Queued(r)    == r.work # Idle

\* A shutter marked as running has exactly one next step on its way, its event
\* or its work item, and one that is not marked has none: the mark set by the
\* command and cleared by the handler follows the kernel objects through every
\* interleaving.
OneStepAhead ==
    \A s \in Shutters :
        /\ sh[s].flag <=> Scheduled(sh[s]) \/ Queued(sh[s])
        /\ ~(Scheduled(sh[s]) /\ Queued(sh[s]))

\* A shutter that is running or driven has a next step on its way and the power
\* on: no sequence of commands leaves a motor running for ever, even without
\* the argument checks, when a command may hit a shutter that is moving.
RunningIsTracked ==
    \A s \in Shutters : sh[s].flag \/ Driven(sh[s]) =>
        power /\ sh[s].flag /\ (Scheduled(sh[s]) \/ Queued(sh[s]))

\* No motor is driven before the power it shares with the others has been on
\* for the start-up delay, nor after it went off (POWER_ON_STARTUP_DELAY_MS).
DrivenOnlySettled ==
    \A s \in Shutters : Driven(sh[s]) =>
        powered /\ power /\ settle = StartupTicks /\ sh[s].flag

\* shutter_event_handler says "Power has necessarily been turned on at least
\* POWER_ON_STARTUP_DELAY_MS ago": so it is whenever the handler may run.
PowerSettledInHandler ==
    \A s \in Shutters : Queued(sh[s]) => power /\ settle = StartupTicks

Untouched(r) == r.pos /\ r.neg

\* "Depower if no more shutters are running": with no shutter running the power
\* is off, unless no shutter has run since boot.
IdleMeansUnpowered ==
    ~AnyRunning(sh) =>
        \/ ~power /\ ~powered
        \/ \A s \in Shutters : Untouched(sh[s])

\* The power the shutters share goes off with the last one that moves: not earlier,
\* so that every move comes to its end, and not never.
PowerTracked == RunningIsTracked /\ IdleMeansUnpowered

\* A motor is never thrown from one direction into the other: it stops between.
NoReversal ==
    [][\A s \in Shutters : /\ Opening(sh[s]) => ~Closing(sh'[s])
                           /\ Closing(sh[s]) => ~Opening(sh'[s])]_vars

Distance(x, y) == IF x < y THEN y - x ELSE x - y

\* Without a sensor, the openness reported for a stopped shutter is off by no
\* more than what its stops waited in the workqueue since it last was fully
\* opened or closed; a full move corrects any error, the one at boot included.
PositionDrift ==
    \A s \in Shutters : ~sh[s].flag =>
        Distance(real[s], sh[s].openness * UnitTicks) <= slack[s]

\* Ticks until a shutter's work item next runs, at the latest.
NextRun(r) == IF Queued(r) THEN MaxLatency - r.work ELSE r.ev + MaxLatency

\* Ticks a shutter that is to be started then runs: its event's, if it was scheduled
\* again before the work item came to start it.
RunsFor(r) == IF Queued(r) /\ r.ev > r.duration THEN r.ev ELSE r.duration

\* Ticks until a running shutter stands still, at the latest: a run that starts it
\* is followed by its move and the run that stops it.
TicksLeft(r) ==
    IF ~r.flag THEN 0
    ELSE IF r.state = "STOPPED" THEN NextRun(r)
    ELSE NextRun(r) + RunsFor(r) + MaxLatency

LongestMove == StartupTicks + Travel + ExtraTicks + 2 * MaxLatency

\* With the argument checks a motor runs no longer than its start-up delay, a full
\* move and what its two work items may wait: what is left of a move never exceeds
\* that, no command, interrupt or work item of any shutter adds to it, and every
\* tick of time takes from it.
MoveInTime ==
    /\ [](\A s \in Shutters : TicksLeft(sh[s]) \in 0..LongestMove)
    /\ [][\A s \in Shutters : sh[s].flag =>
             /\ TicksLeft(sh'[s]) <= TicksLeft(sh[s])
             /\ Tick => TicksLeft(sh'[s]) < TicksLeft(sh[s])]_vars

\* A running shutter stops.
EveryMoveEnds == \A s \in Shutters : sh[s].flag ~> ~sh[s].flag
=============================================================================
