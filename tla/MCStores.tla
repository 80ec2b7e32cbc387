------------------------------ MODULE MCStores ------------------------------
(* Instances for TLC of five parts of a board that keep something: the reset  *)
(* diagnostics, the settings, the port expander, the characters for the       *)
(* shell, the power status.  One of them moves in a behaviour, the others     *)
(* stay as they are at boot.                                                  *)
EXTENDS ResetDiag, Settings, BoardPins, Shell, PowerMonitor

VARIABLE part   \* the one that moves

storesVars == <<part, vars, settingsVars, pinVars, shellVars, powerVars>>

\* The defaults of the instances differ.
TwoDefaults ==
    [i \in Instances |-> [a \in Attributes |-> IF i = 0 THEN "x" ELSE "y"]]

StoresInit ==
    /\ part \in {"DIAG", "SETTINGS", "PINS", "SHELL", "POWER"}
    /\ Init /\ SettingsInit /\ PinsInit /\ ShellInit /\ PowerInit
    /\ part # "PINS" => latch = {}

StoresNext ==
    \/ /\ part = "DIAG" /\ Next
       /\ UNCHANGED <<part, settingsVars, pinVars, shellVars, powerVars>>
    \/ /\ part = "SETTINGS" /\ SettingsNext
       /\ UNCHANGED <<part, vars, pinVars, shellVars, powerVars>>
    \/ /\ part = "PINS" /\ PinsNext
       /\ UNCHANGED <<part, vars, settingsVars, shellVars, powerVars>>
    \/ /\ part = "SHELL" /\ ShellNext
       /\ UNCHANGED <<part, vars, settingsVars, pinVars, powerVars>>
    \/ /\ part = "POWER" /\ PowerNext
       /\ UNCHANGED <<part, vars, settingsVars, pinVars, shellVars>>

StoresSpec == StoresInit /\ [][StoresNext]_storesVars

-----------------------------------------------------------------------------
(* Properties *)

\* Every variable of the five parts keeps to its type: what is stored is whole or
\* known to be damaged, and counters stay within their width.
StoresTypeOK == TypeOK /\ SettingsTypeOK /\ PinsTypeOK /\ ShellTypeOK /\ PowerTypeOK
=============================================================================
