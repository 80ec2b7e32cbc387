------------------------------ MODULE MCHeater ------------------------------
(* Instances of Heater for TLC. *)
EXTENDS Heater

\* What every well-formed controller sends.
ValidCommands == Modes
\* A frame's field may hold values above the last mode.
AnyCommands == Modes \cup {Invalid}
=============================================================================
