------------------------------- MODULE Heater -------------------------------
(***************************************************************************)
(* The heater driver (devices/heater.c) under the command handler of the   *)
(* heating controller (nodes/heating-controller/dev.c).                    *)
(*                                                                         *)
(* A heater is told its mode over a pilot wire with two half-phases, each  *)
(* switched by an open-collector output.  The steady modes are a constant  *)
(* level of the two outputs; COMFORT -1 and -2 pulse both of them with a   *)
(* duty cycle, driven by an event whose interrupt submits a work item that *)
(* toggles the outputs and schedules the next phase.                       *)
(*                                                                         *)
(* The main thread (commands), the timer interrupt (events) and the        *)
(* workqueue (phase changes) interleave freely; time is a Tick action that *)
(* may neither pass an expired event nor keep a queued work item waiting   *)
(* for more than MaxLatency ticks.                                         *)
(***************************************************************************)
EXTENDS KernelEvents

CONSTANTS
    Heaters,      \* the heaters of the board
    Commands,     \* mode values a command frame may carry
    ActiveTicks1, \* HEATER_COMFORT_MIN_1_ACTIVE_DURATION_MS
    ActiveTicks2, \* HEATER_COMFORT_MIN_2_ACTIVE_DURATION_MS
    PeriodTicks,  \* HEATER_COMFORT_MIN_PERIOD_MS
    MaxLatency    \* ticks a submitted work item may wait for the workqueue

SteadyModes == {"COMFORT", "ENERGY_SAVING", "FROST_FREE", "OFF"}
MinModes    == {"COMFORT_MIN_1", "COMFORT_MIN_2"}
Modes       == SteadyModes \cup MinModes

None    == "NONE"     \* CANIOT_HEATER_NONE: the frame leaves this heater alone
Invalid == "INVALID"  \* the frame's values above the last mode

ASSUME CommandsAssumption == Commands \subseteq Modes \cup {Invalid}
ASSUME TicksAssumption ==
    /\ ActiveTicks1 \in Nat \ {0}
    /\ ActiveTicks2 \in Nat \ {0}
    /\ PeriodTicks \in Nat
    /\ ActiveTicks1 < PeriodTicks
    /\ ActiveTicks2 < PeriodTicks
    /\ MaxLatency \in Nat

VARIABLES
    hs,     \* the driver's struct heater and the level of its two outputs
    quiet,  \* ghost: ticks since a command last reached the heater, saturating
    held    \* ghost: ticks since its outputs or its mode last changed, saturating

vars == <<hs, quiet, held>>

HeaterState ==
    [mode: Modes, active: BOOLEAN, ev: EventTime, work: WorkState,
     pos: BOOLEAN, neg: BOOLEAN]

-----------------------------------------------------------------------------
(* The driver's operations, each on the state of the one heater it touches *)

ActiveTicks(mode) == IF mode = "COMFORT_MIN_1" THEN ActiveTicks1 ELSE ActiveTicks2

\* Bug: the difference taken the wrong way round.
PhaseTicksReversed(mode, active) ==
    IF active THEN ActiveTicks(mode) ELSE ActiveTicks(mode) - PeriodTicks

\* How long a COMFORT -1/-2 phase lasts.
PhaseTicks(mode, active) ==
    IF active THEN ActiveTicks(mode) ELSE PeriodTicks - ActiveTicks(mode)

\* The level of the two outputs in a steady mode.
SteadyPos(mode) == mode \in {"ENERGY_SAVING", "OFF"}
SteadyNeg(mode) == mode \in {"ENERGY_SAVING", "FROST_FREE"}

\* A new mode other than COMFORT -1/-2 cancels the event before it is looked at.
CancelOnExit(r, mode) ==
    IF r.mode # mode /\ mode \notin MinModes
    THEN [r EXCEPT !.ev = Cancel(@)] ELSE r

SetSteady(r, mode) ==
    [r EXCEPT !.mode = mode, !.pos = SteadyPos(mode), !.neg = SteadyNeg(mode)]

\* Bug: the phase of the mode that was left is kept.
SetMinKeepsPhase(r, mode) == [r EXCEPT !.mode = mode, !.ev = Schedule(@, 0)]

SetMin(r, mode) ==
    [r EXCEPT !.mode   = mode,
              !.active = IF r.mode # mode THEN FALSE ELSE @,
              !.ev     = Schedule(@, 0)]

\* heater_set_mode; an invalid mode is refused after the event was cancelled.
SetMode(r, mode) ==
    LET c == CancelOnExit(r, mode)
    IN  CASE mode \in SteadyModes -> SetSteady(c, mode)
          [] mode \in MinModes    -> SetMin(c, mode)
          [] OTHER                -> c

\* event_cb, in the timer interrupt.
EventCb(r) == [r EXCEPT !.ev = Unscheduled, !.work = Submit(@)]

\* Bugs: the event is not scheduled again; it is scheduled for the length of the
\* phase that ends; the new phase is not stored.
NextPhaseIsLast(r) ==
    [r EXCEPT !.active = ~@, !.pos = ~r.active, !.neg = ~r.active]

NextPhaseSwapped(r) ==
    [NextPhaseIsLast(r) EXCEPT !.ev = Schedule(@, PhaseTicks(r.mode, r.active))]

NextPhaseForgets(r) ==
    [NextPhaseIsLast(r) EXCEPT !.active = r.active,
                               !.ev = Schedule(@, PhaseTicks(r.mode, ~r.active))]

\* Toggle the phase and schedule its end.
NextPhase(r) ==
    LET active == ~r.active
    IN  [r EXCEPT !.active = active, !.pos = active, !.neg = active,
                  !.ev = Schedule(@, PhaseTicks(r.mode, active))]

\* work_cb and heater_ev_cb: nothing is left to do if the mode became steady
\* while the work item was queued.
WorkCb(r) ==
    LET dequeued == [r EXCEPT !.work = Idle]
    IN  IF r.mode \in MinModes THEN NextPhase(dequeued) ELSE dequeued

\* One tick of time.
Age(r) == [r EXCEPT !.ev = Elapse(@), !.work = Wait(@)]

\* heaters_init: zeroed state, outputs driven low (active), then mode OFF.
InitialHeater ==
    SetMode([mode |-> "COMFORT", active |-> FALSE, ev |-> Unscheduled,
             work |-> Idle, pos |-> TRUE, neg |-> TRUE], "OFF")

-----------------------------------------------------------------------------
(* Ghosts *)

\* Quiet time after which a heater is settled in its mode, and the bound of
\* both ghosts.
SettleTicks == 2 * (PeriodTicks + MaxLatency)

Saturate(t) == IF t < SettleTicks THEN t + 1 ELSE t

SameSignal(r, s) == r.mode = s.mode /\ r.pos = s.pos /\ r.neg = s.neg

HeldAfter(new) == [h \in Heaters |-> IF SameSignal(hs[h], new[h]) THEN held[h] ELSE 0]

-----------------------------------------------------------------------------
Init ==
    /\ hs = [h \in Heaters |-> InitialHeater]
    /\ quiet = [h \in Heaters |-> 0]
    /\ held = [h \in Heaters |-> 0]

\* app_command_handler: one frame commands any number of the heaters.
AppCommand(cmds) ==
    /\ hs' = [h \in Heaters |->
                IF cmds[h] = None THEN hs[h] ELSE SetMode(hs[h], cmds[h])]
    /\ quiet' = [h \in Heaters |-> IF cmds[h] = None THEN quiet[h] ELSE 0]
    /\ held' = HeldAfter(hs')

EventFires(h) ==
    /\ Expired(hs[h].ev)
    /\ hs' = [hs EXCEPT ![h] = EventCb(@)]
    /\ UNCHANGED <<quiet, held>>

WorkRuns(h) ==
    /\ hs[h].work # Idle
    /\ hs' = [hs EXCEPT ![h] = WorkCb(@)]
    /\ held' = HeldAfter(hs')
    /\ UNCHANGED quiet

Tick ==
    /\ \A h \in Heaters : ~Expired(hs[h].ev) /\ hs[h].work < MaxLatency
    /\ hs' = [h \in Heaters |-> Age(hs[h])]
    /\ quiet' = [h \in Heaters |-> Saturate(quiet[h])]
    /\ held' = [h \in Heaters |-> Saturate(held[h])]

Next ==
    \/ \E cmds \in [Heaters -> Commands \cup {None}] : AppCommand(cmds)
    \/ \E h \in Heaters : EventFires(h) \/ WorkRuns(h)
    \/ Tick

Spec == Init /\ [][Next]_vars

\* The timer runs, the interrupt is taken and the workqueue thread is scheduled:
\* every thread of the kernel blocks or yields once per turn of its loop.
Fairness ==
    /\ WF_vars(Tick)
    /\ \A h \in Heaters : WF_vars(EventFires(h)) /\ WF_vars(WorkRuns(h))

FairSpec == Spec /\ Fairness

-----------------------------------------------------------------------------
(* Properties *)

TypeOK ==
    /\ hs \in [Heaters -> HeaterState]
    /\ quiet \in [Heaters -> 0..SettleTicks]
    /\ held \in [Heaters -> 0..SettleTicks]

InMin(r)   == r.mode \in MinModes
Pending(r) == r.ev # Unscheduled \/ r.work # Idle

\* A heater in COMFORT -1/-2 always has its next phase change on the way: the
\* event is scheduled or the work item queued, whatever the order of commands,
\* interrupts and work (heater_set_mode, heater_ev_cb).
NeverStalls == \A h \in Heaters : InMin(hs[h]) => Pending(hs[h])

\* A half-phase signal (FROST_FREE, OFF) never outlives a change to COMFORT
\* -1/-2 by more than one run of the work item: while the two outputs still
\* differ, the phase change that evens them is due now.
HalfPhaseIsDue ==
    \A h \in Heaters : InMin(hs[h]) /\ hs[h].pos # hs[h].neg =>
        Expired(hs[h].ev) \/ hs[h].work # Idle

\* What the two outputs put on the pilot wire.
Signal(r) ==
    IF r.pos THEN IF r.neg THEN "COMPLETE" ELSE "POSITIVE"
             ELSE IF r.neg THEN "NEGATIVE" ELSE "NONE"

\* The driver implements pilot wires: whatever commands, valid or not, come between
\* an interrupt and its work item, a wire carries the signal of the mode or pulses,
\* and the first pulse after a change of mode is a complete signal.
Wire == INSTANCE PilotWire WITH
    mode   <- [h \in Heaters |-> hs[h].mode],
    signal <- [h \in Heaters |-> Signal(hs[h])]

ImplementsPilotWire == Wire!PilotSpec

Settled(h) == quiet[h] = SettleTicks

NoPhaseLong(h) ==
    /\ hs[h].pos = hs[h].neg
    /\ held[h] <= PhaseTicks(hs[h].mode, hs[h].pos) + MaxLatency

Toggles(h) == hs[h].mode = hs'[h].mode /\ InMin(hs[h]) /\ hs[h].pos # hs'[h].pos

FullPhase(h) == held[h] >= PhaseTicks(hs[h].mode, hs[h].pos)

\* Once commands stop, a heater in COMFORT -1/-2 settles in its duty cycle:
\* no phase is longer than its duration plus the workqueue's latency, nor is any
\* cut short, whatever commands, double runs or mode changes came before.
DutyCycle ==
    /\ [](\A h \in Heaters : InMin(hs[h]) /\ Settled(h) => NoPhaseLong(h))
    /\ [][\A h \in Heaters : Toggles(h) /\ Settled(h) => FullPhase(h)]_vars

SignalOn(h)  == hs[h].pos /\ hs[h].neg
SignalOff(h) == ~hs[h].pos /\ ~hs[h].neg

\* A heater left in COMFORT -1/-2 keeps pulsing, even if the same mode is
\* commanded again and again.
KeepsPulsing ==
    \A h \in Heaters, m \in MinModes :
        <>[](hs[h].mode = m) => []<>SignalOn(h) /\ []<>SignalOff(h)
=============================================================================
