----------------------------- MODULE PilotWire -----------------------------
(***************************************************************************)
(* What the heater driver (devices/heater.h) promises of the pilot wires   *)
(* of its heaters: each carries the signal of its heater's mode, or, in a  *)
(* pulsed mode, a complete signal and none in turn.  A signal changes for  *)
(* no other reason, and pulses always begin with the complete signal.      *)
(* Nothing is said of how long a pulse lasts.                              *)
(***************************************************************************)

CONSTANT Heaters

VARIABLES
    mode,    \* per heater: the mode it was last told
    signal   \* per heater: what its pilot wire carries

wireVars == <<mode, signal>>

Pulsed == {"COMFORT_MIN_1", "COMFORT_MIN_2"}

SteadySignal ==
    [COMFORT       |-> "NONE",
     ENERGY_SAVING |-> "COMPLETE",
     FROST_FREE    |-> "NEGATIVE",
     OFF           |-> "POSITIVE"]

PilotInit ==
    /\ mode = [h \in Heaters |-> "OFF"]
    /\ signal = [h \in Heaters |-> SteadySignal["OFF"]]

\* Any of the heaters are told a mode; one that is told to pulse keeps its signal
\* until it does.
Told ==
    /\ mode' \in [Heaters -> DOMAIN SteadySignal \cup Pulsed]
    /\ signal' = [h \in Heaters |->
                    IF mode'[h] \in Pulsed THEN signal[h] ELSE SteadySignal[mode'[h]]]

Pulse(h) ==
    /\ mode[h] \in Pulsed
    /\ signal' = [signal EXCEPT ![h] = IF @ = "COMPLETE" THEN "NONE" ELSE "COMPLETE"]
    /\ UNCHANGED mode

PilotNext == Told \/ \E h \in Heaters : Pulse(h)

PilotSpec == PilotInit /\ [][PilotNext]_wireVars
=============================================================================
