------------------------------- MODULE MCNode -------------------------------
(* Instances of Node for TLC. *)
EXTENDS Node

\* A command of no interest here, a reset, the watchdog turned off, and a command
\* that turns it on and resets.
SomeCommands ==
    {[watchdog |-> "NONE", reset |-> FALSE], [watchdog |-> "NONE", reset |-> TRUE],
     [watchdog |-> "OFF", reset |-> FALSE], [watchdog |-> "ON", reset |-> TRUE]}
=============================================================================
