----------------------------- MODULE MCDevices -----------------------------
(* Instances for TLC of three parts of a board that share no state and have *)
(* something to do for ever: one of them moves in a behaviour, the others   *)
(* stay as they are at boot.                                                *)
EXTENDS Heater, MultiDevice, OneWire

VARIABLE part   \* the one that moves

devicesVars == <<part, vars, multiVars, owVars>>

\* What every well-formed controller sends to a heater.
ValidCommands == Modes

\* Three sensors for two places, one of which is meant for the second sensor.
ThreeSensors == <<"s1", "s2", "s3">>
TwoPlaces    == <<"s2", NoSensor>>

DevicesInit ==
    /\ part \in {"HEATER", "MULTI", "ONEWIRE"}
    /\ Init /\ MultiInit /\ OwInit
    /\ part # "ONEWIRE" => present = {}

DevicesNext ==
    \/ part = "HEATER" /\ Next /\ UNCHANGED <<part, multiVars, owVars>>
    \/ part = "MULTI" /\ MultiNext /\ UNCHANGED <<part, vars, owVars>>
    \/ part = "ONEWIRE" /\ OwNext /\ UNCHANGED <<part, vars, multiVars>>

\* Fairness, MultiFairness and OwFairness, each where its part moves.
DevicesFairness ==
    /\ WF_vars(part = "HEATER" /\ Tick)
    /\ \A h \in Heaters : /\ WF_vars(part = "HEATER" /\ EventFires(h))
                         /\ WF_vars(part = "HEATER" /\ WorkRuns(h))
    /\ WF_multiVars(part = "MULTI" /\ BeginRound)
    /\ WF_multiVars(part = "MULTI" /\ ProcessNext)
    /\ WF_owVars(part = "ONEWIRE" /\ StartDiscover)
    /\ WF_owVars(part = "ONEWIRE" /\ StartMeasure)
    /\ WF_owVars(part = "ONEWIRE" /\ up = "START" /\ MeasStart)
    /\ WF_owVars(part = "ONEWIRE" /\ MeasTimer)
    /\ WF_owVars(part = "ONEWIRE" /\ MeasHandler)

DevicesSpec == DevicesInit /\ [][DevicesNext]_devicesVars /\ DevicesFairness

-----------------------------------------------------------------------------
(* Properties *)

\* Every variable of the three parts keeps to its type: heaters to their modes and
\* times, slots and instances to the arrays' bounds, counters to their width.
DevicesTypeOK == TypeOK /\ MultiTypeOK /\ OwTypeOK
=============================================================================
