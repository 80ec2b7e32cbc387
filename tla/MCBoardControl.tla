--------------------------- MODULE MCBoardControl ---------------------------
(* Instances of BoardControl for TLC. *)
EXTENDS BoardControl

\* Three pins for two blocks, so that the slab runs out.
ThreePins == <<"p1", "p2", "p3">>
TwoPins   == <<"p1", "p2">>
OnePin    == <<"p1">>

\* A frame with one command, and one with pulses, low pulses on the second pin.
Only(pin, cmd) == [other \in Pins |-> IF other = pin THEN cmd ELSE NoCommand]
Pulsed(pins) ==
    [pin \in Pins |-> IF pin \notin pins THEN NoCommand
                      ELSE IF pin = "p2" THEN "PULSE_OFF" ELSE "PULSE_ON"]

\* Pulses on several pins at once; any command on the first pin; a pulse or the
\* cancellation of a pulse on the others.
SomeFrames ==
    {Pulsed(pins) : pins \in SUBSET Pins}
        \cup {Only("p1", cmd) : cmd \in XpsCommands \ {"PULSE_OFF"}}
        \cup {Only(pin, "PULSE_CANCEL") : pin \in Pins}

\* Pulses of two ticks, on outputs that all rest low or high.
Resting(outputs) ==
    [pulse_durations |-> [pin \in Pins |-> 2], outputs_default |-> outputs,
     directions |-> Pins, self_managed |-> {}]

LowOrHigh == {Resting({}), Resting(Pins)}

\* Pulses on all pins; or none on the first pin, the second one the application's
\* own, the third one an input of a class 1 device and with shorter pulses on a
\* class 0 device.
SomeConfigs ==
    {Resting({}),
     [Resting(Pins) EXCEPT !.pulse_durations["p1"] = 0, !.pulse_durations["p3"] = 1,
                           !.self_managed = {"p2"}, !.directions = {"p1", "p2"}]}

\* Nothing but one pulse at a time.
Pulses == {Only(pin, "PULSE_ON") : pin \in Pins}
=============================================================================
