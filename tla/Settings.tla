------------------------------ MODULE Settings ------------------------------
(***************************************************************************)
(* The settings (settings.c) of a device, or of the instances of a multi-  *)
(* instance device: a block per instance in EEPROM, that is a checksum and *)
(* a configuration, and one configuration in RAM that all instances share  *)
(* (device_settings_rambuf, dev.c).                                        *)
(*                                                                         *)
(* A configuration is written before its checksum, and a reset may come in *)
(* the middle of either.  Two configurations are taken to have different   *)
(* checksums, and a block of which a part was written to match none.       *)
(***************************************************************************)
EXTENDS Integers

CONSTANTS
    Count,      \* CONFIG_DEVICE_INSTANCES_COUNT
    Attributes, \* the attributes of a configuration
    Values,     \* the values they take
    Defaults,   \* default_config: a configuration per instance
    Damaged,    \* stands for a block that was partly written, or never
    MaxCuts     \* bound on the resets

Instances == 0..Count - 1
Configs   == [Attributes -> Values]

ASSUME SettingsAssumption ==
    /\ Count \in Nat \ {0}
    /\ Defaults \in [Instances -> Configs]
    /\ Damaged \notin Configs
    /\ MaxCuts \in Nat

VARIABLES
    rambuf,   \* device_settings_rambuf
    blocks,   \* per instance: the configuration, and the one its checksum is of
    job,      \* what is being done, "NONE" when settings are left alone
    at,       \* the instance it is being done to
    step,     \* how far it has come
    applied,  \* the configuration the device was last set up with
    initial,  \* init_config_to_apply
    driven,   \* ghost: how often the outputs were driven to defaults since boot
    cuts,     \* resets so far
    asked     \* ghost, per instance: the configuration asked for, the one
              \* before it, and whether a reset cut the change short

settingsVars == <<rambuf, blocks, job, at, step, applied, initial, driven, cuts,
                  asked>>

Jobs  == {"NONE", "BOOT", "WRITE", "RESTORE"}
Steps == {"BEGIN", "BLOCK", "CHECKSUM"}

Image == [block: Configs \cup {Damaged}, crc: Configs \cup {Damaged}]

\* settings_read returns 0.
Valid(image) == image.block # Damaged /\ image.crc = image.block

-----------------------------------------------------------------------------
\* A board whose EEPROM was never written.
SettingsInit ==
    /\ rambuf = Damaged
    /\ blocks = [i \in Instances |-> [block |-> Damaged, crc |-> Damaged]]
    /\ job = "BOOT" /\ at = 0 /\ step = "BEGIN"
    /\ applied = Damaged
    /\ initial = TRUE
    /\ driven = 0
    /\ cuts = 0
    /\ asked = [i \in Instances |->
                  [config |-> Defaults[i], before |-> Defaults[i], cut |-> TRUE]]

\* settings_apply, class0_config_apply, class1_config_apply: the outputs are
\* driven to their defaults by the first configuration after boot only.
Applied(config) ==
    /\ applied' = config
    /\ driven' = IF initial THEN driven + 1 ELSE driven

\* The job is done with an instance: on to the next, or back to the main loop.
Advance ==
    /\ initial' = (initial /\ job # "BOOT")
    /\ step' = "BEGIN"
    /\ IF job \in {"BOOT", "RESTORE"} /\ at + 1 < Count
       THEN at' = at + 1 /\ UNCHANGED job
       ELSE at' = 0 /\ job' = "NONE"

\* settings_init of an instance whose block is valid.
InitValid ==
    /\ job = "BOOT" /\ step = "BEGIN" /\ Valid(blocks[at])
    /\ rambuf' = blocks[at].block
    /\ Applied(rambuf')
    /\ Advance
    /\ UNCHANGED <<blocks, cuts, asked>>

\* The configuration to be written to an instance; what it was is what was asked
\* for last, unless a reset left that open.
Ask(i, config) ==
    asked' = [asked EXCEPT ![i] =
                [config |-> config, cut |-> FALSE,
                 before |-> IF @.cut THEN blocks[i].block ELSE @.config]]

\* Bug: one default configuration for all instances.
RestoreFirst ==
    /\ \/ job = "BOOT" /\ step = "BEGIN" /\ ~Valid(blocks[at])
       \/ job = "RESTORE" /\ step = "BEGIN"
    /\ rambuf' = Defaults[0]
    /\ step' = "BLOCK"
    /\ IF job = "BOOT" THEN UNCHANGED asked ELSE Ask(at, Defaults[at])
    /\ UNCHANGED <<blocks, job, at, applied, initial, driven, cuts>>

\* settings_restore_default of the next instance: its block is not valid at
\* boot, or the shell asked for all of them (dev_settings_restore_default).
Restore ==
    /\ \/ job = "BOOT" /\ step = "BEGIN" /\ ~Valid(blocks[at])
       \/ job = "RESTORE" /\ step = "BEGIN"
    /\ rambuf' = Defaults[at]
    /\ step' = "BLOCK"
    /\ IF job = "BOOT" THEN UNCHANGED asked ELSE Ask(at, Defaults[at])
    /\ UNCHANGED <<blocks, job, at, applied, initial, driven, cuts>>

RestoreAll ==
    /\ job = "NONE"
    /\ job' = "RESTORE" /\ at' = 0 /\ step' = "BEGIN"
    /\ UNCHANGED <<rambuf, blocks, applied, initial, driven, cuts, asked>>

\* A system command of a frame restores one instance.
RestoreOne(i) ==
    /\ job = "NONE"
    /\ job' = "WRITE" /\ at' = i /\ step' = "BLOCK"
    /\ rambuf' = Defaults[i]
    /\ Ask(i, Defaults[i])
    /\ UNCHANGED <<blocks, applied, initial, driven, cuts>>

\* A frame reads a configuration attribute: settings_read.
ReadAttribute(i) ==
    /\ job = "NONE"
    /\ rambuf' = blocks[i].block
    /\ UNCHANGED <<blocks, job, at, step, applied, initial, driven, cuts, asked>>

\* A frame writes one: the library has the configuration read into RAM, changes
\* it there and has it written.
WriteAttribute(i, a, v) ==
    /\ job = "NONE"
    /\ job' = "WRITE" /\ at' = i /\ step' = "BLOCK"
    /\ rambuf' = [blocks[i].block EXCEPT ![a] = v]
    /\ Ask(i, [(IF asked[i].cut THEN blocks[i].block ELSE asked[i].config)
               EXCEPT ![a] = v])
    /\ UNCHANGED <<blocks, applied, initial, driven, cuts>>

\* settings_write: the configuration, then its checksum, and it is applied.
WriteBlock ==
    /\ step = "BLOCK"
    /\ blocks' = [blocks EXCEPT ![at].block = rambuf]
    /\ step' = "CHECKSUM"
    /\ UNCHANGED <<rambuf, job, at, applied, initial, driven, cuts, asked>>

WriteChecksum ==
    /\ step = "CHECKSUM"
    /\ blocks' = [blocks EXCEPT ![at].crc = rambuf]
    /\ Applied(rambuf)
    /\ Advance
    /\ UNCHANGED <<rambuf, cuts, asked>>

\* The board restarts, whatever it was doing; the RAM configuration is not
\* initialised.
Cut ==
    /\ cuts < MaxCuts
    /\ cuts' = cuts + 1
    /\ \E block \in IF step = "BLOCK" THEN {blocks[at].block, Damaged, rambuf}
                    ELSE {blocks[at].block},
          crc \in IF step = "CHECKSUM" THEN {blocks[at].crc, Damaged, rambuf}
                  ELSE {blocks[at].crc} :
          blocks' = [blocks EXCEPT ![at] = [block |-> block, crc |-> crc]]
    /\ job' = "BOOT" /\ at' = 0 /\ step' = "BEGIN"
    /\ applied' = Damaged
    /\ initial' = TRUE
    /\ driven' = 0
    /\ asked' = IF step = "BEGIN" THEN asked ELSE [asked EXCEPT ![at].cut = TRUE]
    /\ UNCHANGED rambuf

SettingsNext ==
    \/ InitValid \/ Restore \/ RestoreAll
    \/ WriteBlock \/ WriteChecksum \/ Cut
    \/ \E i \in Instances : RestoreOne(i) \/ ReadAttribute(i)
    \/ \E i \in Instances, a \in Attributes, v \in Values : WriteAttribute(i, a, v)

SettingsSpec == SettingsInit /\ [][SettingsNext]_settingsVars

-----------------------------------------------------------------------------
(* Properties *)

SettingsTypeOK ==
    /\ rambuf \in Configs \cup {Damaged}
    /\ blocks \in [Instances -> Image]
    /\ job \in Jobs
    /\ at \in Instances
    /\ step \in Steps
    /\ applied \in Configs \cup {Damaged}
    /\ initial \in BOOLEAN
    /\ driven \in Nat
    /\ cuts \in 0..MaxCuts
    /\ asked \in [Instances -> [config: Configs, before: Configs, cut: BOOLEAN]]

\* Once booted every instance has whole settings, and they are its own: what was
\* asked for it last, though all instances share the RAM copy.  Only if a reset
\* cut that change short may they be the ones before it or the defaults instead.
KeptWhole ==
    job = "NONE" =>
        \A i \in Instances :
            /\ Valid(blocks[i])
            /\ blocks[i].block \in
                  {asked[i].config} \cup
                  (IF asked[i].cut THEN {asked[i].before, Defaults[i]} ELSE {})

\* What the device runs with is what one of the instances has stored.
AppliedIsStored ==
    job = "NONE" => \E i \in Instances : applied = blocks[i].block

\* The outputs were driven to defaults once since boot, by the settings of the
\* first instance: no later change of settings moves an output.
DrivenOnce == job = "NONE" => driven = 1

\* The settings of all instances outlive resets, whole and apart from each other,
\* are in effect, and leave the outputs alone.
SettingsSound == KeptWhole /\ AppliedIsStored /\ DrivenOnce
=============================================================================
