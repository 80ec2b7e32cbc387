---------------------------- MODULE PowerMonitor ----------------------------
(***************************************************************************)
(* The power-cut monitor of the heating controller                         *)
(* (nodes/heating-controller/pcc.c, and app_process in dev.c there): an    *)
(* interrupt counts the edges of the zero-crossing detector, one of a      *)
(* timer turns the count into a frequency every second, and each turn of   *)
(* the main loop compares it with the limits and asks for a telemetry when *)
(* the power came or went.                                                 *)
(*                                                                         *)
(* The frequency is volatile and is read once for each limit, with the     *)
(* interrupts on: a second may end between the two.                        *)
(***************************************************************************)
EXTENDS Integers

CONSTANTS
    CounterModulus,   \* values of the counters: 256, for uint8_t
    MaxEdges,         \* edges the detector gives in a second at most
    FreqExpected,     \* FREQ_EXPECTED
    FreqTolerance     \* FREQ_TOLERANCE

\* "We assume maximum expected ISR frequency is 255Hz, so we can use 8 bits".
ASSUME PowerAssumption ==
    /\ CounterModulus \in Nat \ {0}
    /\ MaxEdges \in Nat /\ MaxEdges < CounterModulus
    /\ FreqExpected \in Nat /\ FreqTolerance \in 0..FreqExpected

VARIABLES
    counter, last_counter, freq,   \* of pcc.c
    looking,        \* app_process found the frequency above its lower limit
    power_status,   \* power_current_status
    requested,      \* a telemetry of the application endpoint is to be sent
    edges,          \* ghost: edges since the last second ended
    counted,        \* ghost: edges of that second
    seen,           \* ghost: the frequency at each limit, when last compared
    ended,          \* ghost: a second ended since then
    reported        \* ghost: the power status of the last telemetry

powerVars ==
    <<counter, last_counter, freq, looking, power_status, requested, edges, counted,
      seen, ended, reported>>

\* 2 edges per pulse, 2 pulses per period.
EdgesPerPeriod == 4

AboveLow(f)  == f > FreqExpected - FreqTolerance
BelowHigh(f) == f < FreqExpected + FreqTolerance

-----------------------------------------------------------------------------
\* app_init: the power is taken to be off, and the initial state is sent.
PowerInit ==
    /\ counter = 0 /\ last_counter = 0 /\ freq = 0
    /\ looking = FALSE
    /\ power_status = FALSE /\ requested = TRUE
    /\ edges = 0 /\ counted = 0
    /\ seen = [low |-> 0, high |-> 0] /\ ended = FALSE
    /\ reported = FALSE

\* PHASE_ZERO_CROSSING_COUNTER_PCINT_VECT.
PowerEdge ==
    /\ edges < MaxEdges
    /\ counter' = IF counter + 1 = CounterModulus THEN 0 ELSE counter + 1
    /\ edges' = edges + 1
    /\ UNCHANGED <<last_counter, freq, looking, power_status, requested, counted, seen,
                   ended, reported>>

\* Bug: the count of a second in which the counter wrapped is lost.
DeltaSaturated == IF counter >= last_counter THEN counter - last_counter ELSE 0

\* Edges since last_counter, in the width of the counters.
Delta ==
    IF counter >= last_counter THEN counter - last_counter
    ELSE CounterModulus + counter - last_counter

\* TIMER1_COMPA_vect, every second.
PowerSecond ==
    /\ freq' = Delta \div EdgesPerPeriod
    /\ last_counter' = counter
    /\ edges' = 0 /\ counted' = edges
    /\ ended' = TRUE
    /\ UNCHANGED <<counter, looking, power_status, requested, seen, reported>>

\* The rest of app_process: what pcc_get_power_status returned is compared with the
\* status.
Judge(new_status) ==
    /\ looking' = FALSE
    /\ power_status' = new_status
    /\ requested' = (requested \/ new_status # power_status)

\* pcc_get_power_status looks at the lower limit, and only then at the upper one.
LookLow ==
    /\ ~looking
    /\ IF AboveLow(freq) THEN looking' = TRUE /\ UNCHANGED <<power_status, requested>>
       ELSE Judge(FALSE)
    /\ seen' = [low |-> freq, high |-> freq]
    /\ ended' = FALSE
    /\ UNCHANGED <<counter, last_counter, freq, edges, counted, reported>>

LookHigh ==
    /\ looking
    /\ Judge(BelowHigh(freq))
    /\ seen' = [seen EXCEPT !.high = freq]
    /\ ended' = FALSE
    /\ UNCHANGED <<counter, last_counter, freq, edges, counted, reported>>

\* The main loop sends a telemetry of the application endpoint, requested by
\* app_process or by the controller.
PowerTelemetry ==
    /\ ~looking
    /\ requested' = FALSE
    /\ reported' = power_status
    /\ UNCHANGED <<counter, last_counter, freq, looking, power_status, edges, counted,
                   seen, ended>>

PowerNext == PowerEdge \/ PowerSecond \/ LookLow \/ LookHigh \/ PowerTelemetry

PowerSpec == PowerInit /\ [][PowerNext]_powerVars

-----------------------------------------------------------------------------
(* Properties *)

PowerTypeOK ==
    /\ {counter, last_counter} \subseteq 0..(CounterModulus - 1)
    /\ freq \in Nat
    /\ {looking, power_status, requested, ended, reported} \subseteq BOOLEAN
    /\ edges \in 0..MaxEdges /\ counted \in 0..MaxEdges
    /\ seen \in [low: Nat, high: Nat]

WithinLimits(f) == AboveLow(f) /\ BelowHigh(f)

\* The status is the one of the edges counted in the last second, however the
\* counter wraps, until the second ends.  It is wrong only if a second ended
\* between the two looks and the frequency fell from above the limits to below
\* them: then the power is said to be on though it was not in either second.  And
\* a status the controller does not know of has its telemetry requested.
PowerSound ==
    /\ ~looking /\ ~ended /\ seen.low = seen.high =>
          (power_status <=> WithinLimits(counted \div EdgesPerPeriod))
    /\ ~looking /\ power_status =>
          \/ WithinLimits(seen.low) \/ WithinLimits(seen.high)
          \/ ~BelowHigh(seen.low) /\ ~AboveLow(seen.high)
    /\ power_status # reported => requested
=============================================================================
