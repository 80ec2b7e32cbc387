----------------------------- MODULE MCOneWire -----------------------------
(* Instances of OneWire for TLC. *)
EXTENDS OneWire

\* Two sensors, each with a place that is its own.
TwoSensors == <<"s1", "s2">>
=============================================================================
