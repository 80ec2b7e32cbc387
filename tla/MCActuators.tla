---------------------------- MODULE MCActuators ----------------------------
(* Instances for TLC of the two parts of a board that drive outputs for a   *)
(* time, the pulses and the shutters, which share no state: one of them     *)
(* moves in a behaviour, the other stays in one of its initial states.      *)
EXTENDS MCShutter, MCBoardControl

VARIABLE part   \* the one that moves

actuatorsVars == <<part, vars, boardVars>>

ActuatorsInit ==
    /\ part \in {"SHUTTERS", "BOARD"}
    /\ Init /\ BoardInit
    /\ part = "SHUTTERS" => class = 0 /\ cfg = Resting({})
    /\ part = "BOARD" => real = [s \in Shutters |-> 0]

ActuatorsNext ==
    \/ part = "SHUTTERS" /\ Next /\ UNCHANGED <<part, boardVars>>
    \/ part = "BOARD" /\ BoardNext /\ UNCHANGED <<part, vars>>

ActuatorsSpec == ActuatorsInit /\ [][ActuatorsNext]_actuatorsVars

-----------------------------------------------------------------------------
(* Properties *)

\* Every variable of the two parts keeps to its type: slab, queue and pins to
\* theirs even when a block was freed twice, durations of shutters to 16 bits.
ActuatorsTypeOK == TypeOK /\ BoardTypeOK
=============================================================================
