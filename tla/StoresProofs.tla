---------------------------- MODULE StoresProofs ----------------------------
(***************************************************************************)
(* Theorems about the parts of a board that keep something: its settings,  *)
(* for any number of instances, attributes, values and resets; the pins of *)
(* the port expander; the characters typed for the shell; the power        *)
(* status; and the composition of MCStores, from the theorems of its parts. *)
(***************************************************************************)
EXTENDS MCStores, ResetDiagProofs

-----------------------------------------------------------------------------
(* Settings *)

\* What an instance may have stored: what was asked for or, if a reset cut that
\* short, what it was before or the defaults.
Allowed(i) ==
    {asked[i].config} \cup
    (IF asked[i].cut THEN {asked[i].before, Defaults[i]} ELSE {})

\* The block of an instance is whole; or may be damaged, by a reset.
Good(i) == Valid(blocks[i]) /\ blocks[i].block \in Allowed(i)
Sane(i) == IF Valid(blocks[i]) THEN blocks[i].block \in Allowed(i) ELSE asked[i].cut

\* Every block but the one being written is good, or sane until the boot has come
\* to it.  The one being written is known from the step of the write.
Stored ==
    /\ \A i \in Instances : i # at \/ step = "BEGIN" =>
          IF job # "BOOT" \/ i < at THEN Good(i) ELSE Sane(i)
    /\ step # "BEGIN" =>
          /\ job # "NONE" /\ rambuf \in Configs
          /\ IF job = "BOOT" THEN asked[at].cut /\ rambuf = Defaults[at]
             ELSE rambuf = asked[at].config
    /\ step = "BLOCK" =>
          IF job = "BOOT" THEN ~Valid(blocks[at])
          ELSE Valid(blocks[at]) /\ blocks[at].block = asked[at].before
    /\ step = "CHECKSUM" => blocks[at].block = rambuf
    /\ job = "WRITE" => step # "BEGIN"

\* The outputs are driven by the first settings applied after boot.
Driven == driven = (IF initial THEN 0 ELSE 1) /\ (initial => job = "BOOT")

SettingsInv == SettingsTypeOK /\ Stored /\ AppliedIsStored /\ Driven

LEMMA SettingsInitInv == SettingsInit => SettingsInv
<1> SUFFICES ASSUME SettingsInit PROVE SettingsInv
  OBVIOUS
<1> USE SettingsAssumption DEF SettingsInit
<1>1. 0 \in Instances
  BY DEF Instances
<1>2. SettingsTypeOK
  <2>1. \A i \in Instances : Defaults[i] \in Configs
    OBVIOUS
  <2> QED
    BY <1>1, <2>1 DEF SettingsTypeOK, Image, Jobs, Steps
<1>3. Stored
  <2>1. \A i \in Instances : asked[i].cut /\ ~Valid(blocks[i]) /\ ~(i < at)
    BY DEF Valid, Instances
  <2> QED
    BY <2>1 DEF Stored, Sane
<1> QED
  BY <1>2, <1>3 DEF SettingsInv, AppliedIsStored, Driven

\* A configuration that is asked for where nothing is being written.
LEMMA AskSafe ==
    ASSUME SettingsTypeOK, NEW i \in Instances, Good(i), NEW config \in Configs,
           Ask(i, config)
    PROVE  /\ asked' \in [Instances -> [config: Configs, before: Configs, cut: BOOLEAN]]
           /\ asked'[i].config = config
           /\ asked'[i].before = blocks[i].block
           /\ \A j \in Instances \ {i} : asked'[j] = asked[j]
<1> DEFINE before == IF asked[i].cut THEN blocks[i].block ELSE asked[i].config
<1>1. asked' = [asked EXCEPT ![i] = [config |-> config, cut |-> FALSE, before |-> before]]
  BY DEF Ask
<1>2. before = blocks[i].block /\ before \in Configs
  <2>1. blocks[i].block \in Configs
    BY DEF Good, Valid, SettingsTypeOK, Image
  <2>2. ~asked[i].cut => blocks[i].block = asked[i].config
    BY DEF Good, Allowed
  <2> QED
    BY <2>1, <2>2
<1> HIDE DEF before
<1> QED
  BY <1>1, <1>2 DEF SettingsTypeOK

\* A write begins.
LEMMA WriteBegins ==
    ASSUME SettingsInv, step = "BEGIN", NEW i \in Instances,
           NEW config \in Configs, Ask(i, config),
           \/ job = "NONE" /\ job' = "WRITE"
           \/ job = "RESTORE" /\ job' = "RESTORE",
           at' = i, step' = "BLOCK", rambuf' = config,
           UNCHANGED <<blocks, applied, initial, driven, cuts>>
    PROVE  SettingsInv'
<1>1. \A j \in Instances : Good(j)
  BY DEF SettingsInv, Stored
<1>2. /\ asked' \in [Instances -> [config: Configs, before: Configs, cut: BOOLEAN]]
      /\ asked'[i].config = config
      /\ asked'[i].before = blocks[i].block
      /\ \A j \in Instances \ {i} : asked'[j] = asked[j]
  BY <1>1, AskSafe DEF SettingsInv
<1>3. SettingsTypeOK'
  BY <1>2 DEF SettingsInv, SettingsTypeOK, Jobs, Steps
<1>4. \A j \in Instances \ {i} : Good(j)'
  BY <1>1, <1>2 DEF Good, Allowed, Valid
<1>5. Valid(blocks'[i])
  BY <1>1 DEF Good
<1>6. Stored'
  BY <1>2, <1>4, <1>5 DEF Stored
<1> QED
  BY <1>3, <1>6 DEF SettingsInv, AppliedIsStored, Driven

\* The job is done with the instance at hand, whose settings are applied.
LEMMA AdvanceSafe ==
    ASSUME SettingsInv, NEW i \in Instances, i = at, Good(i)', Advance,
           job # "NONE", asked' = asked, cuts' = cuts,
           rambuf' \in Configs, rambuf' = blocks'[at].block, Applied(rambuf'),
           blocks' \in [Instances -> Image],
           \A j \in Instances \ {at} : blocks'[j] = blocks[j]
    PROVE  SettingsInv'
<1> USE SettingsAssumption
<1>1. at \in Instances /\ at \in Int /\ Count \in Nat
  BY DEF SettingsInv, SettingsTypeOK, Instances
<1>2. job' \in Jobs /\ at' \in Instances /\ step' = "BEGIN" /\ job' # "WRITE"
  BY <1>1 DEF Advance, SettingsInv, SettingsTypeOK, Instances, Jobs
<1>3. initial' \in BOOLEAN /\ driven' \in Nat /\ applied' \in Configs
  BY DEF Advance, Applied, SettingsInv, SettingsTypeOK
<1>4. SettingsTypeOK'
  BY <1>2, <1>3 DEF SettingsInv, SettingsTypeOK, Steps
<1>5. \A j \in Instances \ {at} :
         IF job # "BOOT" \/ j < at THEN Good(j)' ELSE Sane(j)'
  <2> SUFFICES ASSUME NEW j \in Instances \ {at}
               PROVE  IF job # "BOOT" \/ j < at THEN Good(j)' ELSE Sane(j)'
    OBVIOUS
  <2>1. Good(j)' = Good(j) /\ Sane(j)' = Sane(j)
    BY DEF Good, Sane, Allowed, Valid
  <2> QED
    BY <2>1 DEF SettingsInv, Stored
<1>6. \A j \in Instances : IF job' # "BOOT" \/ j < at' THEN Good(j)' ELSE Sane(j)'
  <2> SUFFICES ASSUME NEW j \in Instances
               PROVE  IF job' # "BOOT" \/ j < at' THEN Good(j)' ELSE Sane(j)'
    OBVIOUS
  <2>1. CASE j = i
    BY <2>1 DEF Good, Sane
  <2>2. CASE j # i
    <3>1. j \in Int /\ 0 <= j /\ j < Count
      BY DEF Instances
    <3>2. \/ job' = job /\ at' = at + 1
          \/ job' = "NONE" /\ (job = "BOOT" => j < at)
      BY <1>1, <2>2, <3>1 DEF Advance, Instances
    <3> QED
      BY <1>1, <1>5, <2>2, <3>1, <3>2
  <2> QED
    BY <2>1, <2>2
<1>7. Stored'
  BY <1>2, <1>6 DEF Stored
<1>8. AppliedIsStored'
  BY <1>1 DEF AppliedIsStored, Applied
<1>9. Driven'
  <2>1. ~initial'
    <3>1. initial' = (initial /\ job # "BOOT")
      BY DEF Advance
    <3>2. initial => job = "BOOT"
      BY DEF SettingsInv, Driven
    <3> QED
      BY <3>1, <3>2, Zenon
  <2>2. driven' = 1
    <3>1. CASE initial
      BY <3>1 DEF Applied, SettingsInv, Driven
    <3>2. CASE ~initial
      BY <3>2 DEF Applied, SettingsInv, Driven
    <3> QED
      BY <3>1, <3>2
  <2> QED
    BY <2>1, <2>2 DEF Driven
<1> QED
  BY <1>4, <1>7, <1>8, <1>9 DEF SettingsInv
LEMMA BlocksAfter ==
    ASSUME SettingsTypeOK, NEW v \in Configs \cup {Damaged}
    PROVE  /\ blocks' = [blocks EXCEPT ![at].block = v] =>
                /\ blocks' \in [Instances -> Image]
                /\ blocks'[at] = [block |-> v, crc |-> blocks[at].crc]
                /\ \A j \in Instances \ {at} : blocks'[j] = blocks[j]
           /\ blocks' = [blocks EXCEPT ![at].crc = v] =>
                /\ blocks' \in [Instances -> Image]
                /\ blocks'[at] = [block |-> blocks[at].block, crc |-> v]
                /\ \A j \in Instances \ {at} : blocks'[j] = blocks[j]
<1>1. /\ at \in Instances /\ blocks \in [Instances -> Image]
      /\ blocks[at] = [block |-> blocks[at].block, crc |-> blocks[at].crc]
      /\ blocks[at].block \in Configs \cup {Damaged}
      /\ blocks[at].crc \in Configs \cup {Damaged}
  BY DEF SettingsTypeOK, Image
<1> QED
  BY <1>1 DEF Image

LEMMA InitValidSafe ==
    ASSUME SettingsInv, InitValid
    PROVE  SettingsInv'
<1>1. /\ job = "BOOT" /\ step = "BEGIN" /\ Valid(blocks[at])
      /\ rambuf' = blocks[at].block /\ Applied(rambuf') /\ Advance
      /\ blocks' = blocks /\ cuts' = cuts /\ asked' = asked
  BY DEF InitValid
<1>2. at \in Instances /\ Sane(at)
  <2>1. at \in Instances /\ at \in Int
    BY DEF SettingsInv, SettingsTypeOK, Instances
  <2> QED
    BY <1>1, <2>1 DEF SettingsInv, Stored
<1>3. PICK i \in Instances : i = at
  BY <1>2
<1>4. Good(i)'
  BY <1>1, <1>2, <1>3 DEF Good, Sane, Allowed, Valid
<1>5. rambuf' \in Configs
  BY <1>1, <1>2 DEF Valid, SettingsInv, SettingsTypeOK, Image
<1>6. blocks' \in [Instances -> Image]
  BY <1>1 DEF SettingsInv, SettingsTypeOK
<1> QED
  BY <1>1, <1>3, <1>4, <1>5, <1>6, AdvanceSafe

LEMMA RestoreSafe ==
    ASSUME SettingsInv, Restore
    PROVE  SettingsInv'
<1> USE SettingsAssumption
<1>1. at \in Instances /\ at \in Int /\ Defaults[at] \in Configs
  BY DEF SettingsInv, SettingsTypeOK, Instances
<1>2. CASE job = "RESTORE" /\ step = "BEGIN"
  <2>1. Ask(at, Defaults[at])
    BY <1>2 DEF Restore
  <2>2. /\ job' = job /\ at' = at /\ step' = "BLOCK" /\ rambuf' = Defaults[at]
        /\ UNCHANGED <<blocks, applied, initial, driven, cuts>>
    BY DEF Restore
  <2> QED
    BY <1>1, <1>2, <2>1, <2>2, WriteBegins
<1>3. CASE job = "BOOT" /\ step = "BEGIN" /\ ~Valid(blocks[at])
  <2>1. /\ job' = job /\ at' = at /\ step' = "BLOCK" /\ rambuf' = Defaults[at]
        /\ UNCHANGED <<blocks, applied, initial, driven, cuts, asked>>
    BY <1>3 DEF Restore
  <2>2. SettingsTypeOK'
    BY <1>1, <2>1 DEF SettingsInv, SettingsTypeOK, Steps
  <2>3. asked[at].cut
    BY <1>1, <1>3 DEF SettingsInv, Stored, Sane
  <2>4. \A j \in Instances : Good(j)' = Good(j) /\ Sane(j)' = Sane(j)
    BY <2>1 DEF Good, Sane, Allowed, Valid
  <2>5. Stored'
    BY <1>1, <1>3, <2>1, <2>3, <2>4 DEF SettingsInv, Stored
  <2> QED
    BY <1>3, <2>1, <2>2, <2>5 DEF SettingsInv, AppliedIsStored, Driven
<1> QED
  BY <1>2, <1>3 DEF Restore

LEMMA WriteBlockSafe ==
    ASSUME SettingsInv, WriteBlock
    PROVE  SettingsInv'
<1>1. /\ step = "BLOCK" /\ step' = "CHECKSUM"
      /\ blocks' = [blocks EXCEPT ![at].block = rambuf]
      /\ UNCHANGED <<rambuf, job, at, applied, initial, driven, cuts, asked>>
  BY DEF WriteBlock
<1>2. at \in Instances /\ rambuf \in Configs /\ job # "NONE"
  BY <1>1 DEF SettingsInv, Stored, SettingsTypeOK
<1>3. /\ blocks' \in [Instances -> Image]
      /\ blocks'[at] = [block |-> rambuf, crc |-> blocks[at].crc]
      /\ \A j \in Instances \ {at} : blocks'[j] = blocks[j]
  BY <1>1, <1>2, BlocksAfter DEF SettingsInv
<1>4. SettingsTypeOK'
  BY <1>1, <1>3 DEF SettingsInv, SettingsTypeOK, Steps
<1>5. \A j \in Instances \ {at} : Good(j)' = Good(j) /\ Sane(j)' = Sane(j)
  BY <1>1, <1>3 DEF Good, Sane, Allowed, Valid
<1>6. Stored'
  BY <1>1, <1>2, <1>3, <1>5 DEF SettingsInv, Stored
<1> QED
  BY <1>1, <1>2, <1>4, <1>6 DEF SettingsInv, AppliedIsStored, Driven

LEMMA WriteChecksumSafe ==
    ASSUME SettingsInv, WriteChecksum
    PROVE  SettingsInv'
<1>1. /\ step = "CHECKSUM"
      /\ blocks' = [blocks EXCEPT ![at].crc = rambuf]
      /\ Applied(rambuf) /\ Advance
      /\ rambuf' = rambuf /\ cuts' = cuts /\ asked' = asked
  BY DEF WriteChecksum
<1>2. /\ at \in Instances /\ rambuf \in Configs /\ job # "NONE"
      /\ blocks[at].block = rambuf
  BY <1>1 DEF SettingsInv, Stored, SettingsTypeOK
<1>3. /\ blocks' \in [Instances -> Image]
      /\ blocks'[at] = [block |-> rambuf, crc |-> rambuf]
      /\ \A j \in Instances \ {at} : blocks'[j] = blocks[j]
  BY <1>1, <1>2, BlocksAfter DEF SettingsInv
<1>4. PICK i \in Instances : i = at
  BY <1>2
<1>5. rambuf \in Allowed(i)
  BY <1>1, <1>4 DEF SettingsInv, Stored, Allowed
<1>6. Good(i)'
  <2>1. Allowed(i)' = Allowed(i)
    BY <1>1 DEF Allowed
  <2>2. rambuf # Damaged
    BY <1>2, SettingsAssumption
  <2> QED
    BY <1>3, <1>4, <1>5, <2>1, <2>2 DEF Good, Valid
<1> QED
  BY <1>1, <1>2, <1>3, <1>4, <1>6, AdvanceSafe

LEMMA CutSafe ==
    ASSUME SettingsInv, Cut
    PROVE  SettingsInv'
<1> USE SettingsAssumption
<1>1. PICK block \in IF step = "BLOCK" THEN {blocks[at].block, Damaged, rambuf}
                     ELSE {blocks[at].block},
           crc \in IF step = "CHECKSUM" THEN {blocks[at].crc, Damaged, rambuf}
                   ELSE {blocks[at].crc} :
         blocks' = [blocks EXCEPT ![at] = [block |-> block, crc |-> crc]]
  BY DEF Cut
<1>2. /\ cuts < MaxCuts /\ cuts' = cuts + 1
      /\ job' = "BOOT" /\ at' = 0 /\ step' = "BEGIN"
      /\ applied' = Damaged /\ initial' = TRUE /\ driven' = 0 /\ rambuf' = rambuf
      /\ asked' = IF step = "BEGIN" THEN asked ELSE [asked EXCEPT ![at].cut = TRUE]
  BY DEF Cut
<1>3. at \in Instances /\ at \in Int /\ 0 \in Instances
  BY DEF SettingsInv, SettingsTypeOK, Instances
<1>4. block \in Configs \cup {Damaged} /\ crc \in Configs \cup {Damaged}
  <2>1. blocks[at] \in Image
    BY <1>3 DEF SettingsInv, SettingsTypeOK
  <2> QED
    BY <1>1, <2>1 DEF SettingsInv, SettingsTypeOK, Image
<1>5. /\ blocks' \in [Instances -> Image]
      /\ blocks'[at] = [block |-> block, crc |-> crc]
      /\ \A j \in Instances \ {at} : blocks'[j] = blocks[j]
  BY <1>1, <1>3, <1>4 DEF SettingsInv, SettingsTypeOK, Image
<1>6. /\ asked' \in [Instances -> [config: Configs, before: Configs, cut: BOOLEAN]]
      /\ \A j \in Instances \ {at} : asked'[j] = asked[j]
      /\ asked'[at].config = asked[at].config /\ asked'[at].before = asked[at].before
      /\ IF step = "BEGIN" THEN asked' = asked ELSE asked'[at].cut
  BY <1>2, <1>3 DEF SettingsInv, SettingsTypeOK
<1>7. SettingsTypeOK'
  BY <1>2, <1>3, <1>5, <1>6 DEF SettingsInv, SettingsTypeOK, Jobs, Steps
<1>8. \A j \in Instances \ {at} : Sane(j)'
  <2> SUFFICES ASSUME NEW j \in Instances \ {at} PROVE Sane(j)'
    OBVIOUS
  <2>1. Good(j) \/ Sane(j)
    BY DEF SettingsInv, Stored
  <2>2. Sane(j)
    BY <2>1 DEF Good, Sane
  <2> QED
    BY <1>5, <1>6, <2>2 DEF Sane, Allowed, Valid
<1>9. PICK i \in Instances : i = at
  BY <1>3
<1>10. Sane(i)'
  <2>1. CASE step = "BEGIN"
    <3>1. Good(i) \/ Sane(i)
      BY <1>9, <2>1 DEF SettingsInv, Stored
    <3>2. Sane(i)
      BY <3>1 DEF Good, Sane
    <3>3. blocks'[i].block = blocks[i].block /\ blocks'[i].crc = blocks[i].crc
      BY <1>1, <1>5, <1>9, <2>1
    <3> QED
      BY <1>6, <2>1, <3>2, <3>3 DEF Sane, Allowed, Valid
  <2>2. CASE step # "BEGIN"
    <3>1. asked'[i].cut
      BY <1>6, <1>9, <2>2
    <3>2. Defaults[i] \in Allowed(i)' /\ asked[i].before \in Allowed(i)'
          /\ asked[i].config \in Allowed(i)'
      BY <1>6, <1>9, <3>1 DEF Allowed
    <3>3. rambuf \in {Defaults[i], asked[i].config}
      BY <1>9, <2>2 DEF SettingsInv, Stored
    <3>4. Valid(blocks'[i]) => block \in {rambuf, asked[i].before}
      <4>1. CASE step = "BLOCK"
        <5>1. CASE block = blocks[i].block
          <6>1. Valid(blocks'[i]) => Valid(blocks[i])
            BY <1>1, <1>5, <1>9, <4>1, <5>1 DEF Valid
          <6> QED
            BY <1>9, <4>1, <5>1, <6>1 DEF SettingsInv, Stored
        <5>2. CASE block = Damaged
          BY <1>5, <1>9, <5>2 DEF Valid
        <5>3. CASE block = rambuf
          BY <5>3
        <5> QED
          BY <1>1, <1>9, <4>1, <5>1, <5>2, <5>3
      <4>2. CASE step = "CHECKSUM"
        BY <1>1, <1>9, <4>2 DEF SettingsInv, Stored
      <4> QED
        BY <2>2, <4>1, <4>2 DEF SettingsInv, SettingsTypeOK, Steps
    <3>5. blocks'[i].block = block
      BY <1>5, <1>9
    <3> QED
      BY <3>1, <3>2, <3>3, <3>4, <3>5 DEF Sane
  <2> QED
    BY <2>1, <2>2
<1>11. Stored'
  <2>1. \A j \in Instances : Sane(j)' /\ ~(j < 0)
    BY <1>8, <1>9, <1>10 DEF Instances
  <2> QED
    BY <1>2, <2>1 DEF Stored
<1>12. AppliedIsStored' /\ Driven'
  BY <1>2 DEF AppliedIsStored, Driven
<1> QED
  BY <1>7, <1>11, <1>12 DEF SettingsInv

LEMMA SettingsNextInv ==
    ASSUME SettingsInv, [SettingsNext]_settingsVars
    PROVE  SettingsInv'
<1> USE SettingsAssumption
<1>1. CASE InitValid
  BY <1>1, InitValidSafe
<1>2. CASE Restore
  BY <1>2, RestoreSafe
<1>3. CASE RestoreAll
  <2>1. /\ job = "NONE" /\ job' = "RESTORE" /\ at' = 0 /\ step' = "BEGIN"
        /\ UNCHANGED <<rambuf, blocks, applied, initial, driven, cuts, asked>>
    BY <1>3 DEF RestoreAll
  <2>2. step = "BEGIN" /\ \A j \in Instances : Good(j)
    BY <2>1 DEF SettingsInv, Stored, SettingsTypeOK, Steps
  <2>3. \A j \in Instances : Good(j)'
    BY <2>1, <2>2 DEF Good, Allowed
  <2>4. SettingsTypeOK'
    BY <2>1 DEF SettingsInv, SettingsTypeOK, Jobs, Steps, Instances
  <2>5. Stored'
    BY <2>1, <2>3 DEF Stored
  <2>6. AppliedIsStored' /\ Driven'
    BY <2>1 DEF SettingsInv, AppliedIsStored, Driven
  <2> QED
    BY <2>4, <2>5, <2>6 DEF SettingsInv
<1>4. CASE WriteBlock
  BY <1>4, WriteBlockSafe
<1>5. CASE WriteChecksum
  BY <1>5, WriteChecksumSafe
<1>6. CASE Cut
  BY <1>6, CutSafe
<1>7. ASSUME NEW i \in Instances, RestoreOne(i)
      PROVE  SettingsInv'
  <2>1. step = "BEGIN" /\ Defaults[i] \in Configs
    BY <1>7 DEF RestoreOne, SettingsInv, Stored, SettingsTypeOK, Steps
  <2> QED
    BY <1>7, <2>1, WriteBegins DEF RestoreOne
<1>8. ASSUME NEW i \in Instances, ReadAttribute(i)
      PROVE  SettingsInv'
  <2>1. /\ job = "NONE" /\ rambuf' = blocks[i].block
        /\ UNCHANGED <<blocks, job, at, step, applied, initial, driven, cuts, asked>>
    BY <1>8 DEF ReadAttribute
  <2>2. SettingsTypeOK'
    BY <2>1 DEF SettingsInv, SettingsTypeOK, Image
  <2>3. \A j \in Instances : Good(j)' = Good(j) /\ Sane(j)' = Sane(j)
    BY <2>1 DEF Good, Sane, Allowed, Valid
  <2>4. step = "BEGIN"
    BY <2>1 DEF SettingsInv, Stored, SettingsTypeOK, Steps
  <2>5. Stored'
    BY <2>1, <2>3, <2>4 DEF SettingsInv, Stored
  <2> QED
    BY <2>1, <2>2, <2>5 DEF SettingsInv, AppliedIsStored, Driven
<1>9. ASSUME NEW i \in Instances, NEW a \in Attributes, NEW v \in Values,
             WriteAttribute(i, a, v)
      PROVE  SettingsInv'
  <2> DEFINE config == [blocks[i].block EXCEPT ![a] = v]
  <2>1. step = "BEGIN" /\ job = "NONE" /\ Good(i)
    BY <1>9 DEF WriteAttribute, SettingsInv, Stored, SettingsTypeOK, Steps
  <2>2. config \in Configs
    BY <2>1 DEF Good, Valid, Configs, SettingsInv, SettingsTypeOK, Image
  <2>3. Ask(i, config)
    <3>1. (IF asked[i].cut THEN blocks[i].block ELSE asked[i].config) = blocks[i].block
      BY <2>1 DEF Good, Allowed
    <3> QED
      BY <1>9, <3>1 DEF WriteAttribute
  <2>4. /\ job' = "WRITE" /\ at' = i /\ step' = "BLOCK" /\ rambuf' = config
        /\ UNCHANGED <<blocks, applied, initial, driven, cuts>>
    BY <1>9 DEF WriteAttribute
  <2> HIDE DEF config
  <2> QED
    BY <2>1, <2>2, <2>3, <2>4, WriteBegins
<1>10. CASE UNCHANGED settingsVars
  BY <1>10 DEF settingsVars, SettingsInv, SettingsTypeOK, Stored, Good, Sane, Allowed,
               Valid, AppliedIsStored, Driven
<1> QED
  BY <1>1, <1>2, <1>3, <1>4, <1>5, <1>6, <1>7, <1>8, <1>9, <1>10 DEF SettingsNext

\* The settings are well typed: RAM and EEPROM hold configurations, or what a reset
\* left of one, and a configuration that is read to be changed is whole.
THEOREM SettingsTypeCorrect == SettingsSpec => []SettingsTypeOK
<1>1. SettingsInv => SettingsTypeOK
  BY DEF SettingsInv
<1> QED
  BY <1>1, SettingsInitInv, SettingsNextInv, PTL DEF SettingsSpec

\* The settings of every instance outlive resets, at any step of any write, are in
\* effect, and leave the outputs alone (settings.c:81, dev.c:480).
THEOREM SettingsSoundHolds == SettingsSpec => []SettingsSound
<1>1. SettingsInv => SettingsSound
  <2>1. SettingsInv => KeptWhole
    BY DEF SettingsInv, SettingsTypeOK, Steps, Stored, KeptWhole, Good, Allowed
  <2>2. SettingsInv => AppliedIsStored /\ DrivenOnce
    BY DEF SettingsInv, Driven, DrivenOnce
  <2> QED
    BY <2>1, <2>2 DEF SettingsSound
<1> QED
  BY <1>1, SettingsInitInv, SettingsNextInv, PTL DEF SettingsSpec
-----------------------------------------------------------------------------
(* Port expander *)

\* The state the board keeps is that of the levels it was asked for, and the
\* expander's too unless the last transfer failed.
StateAgrees ==
    /\ ready /\ ~refused => latch = state
    /\ \A p \in ExtPins : IF level[p] = "NONE" THEN p \notin state
                          ELSE p \in state <=> level[p] = "HIGH"

Fresh(pins) == \A p \in ExtPins \ written : p \in pins <=> p \in PinLevels

\* What is being read, and what was, is what the pins are, or an interrupt is on
\* its way.  The line stays low behind an interrupt only until the next transfer.
ReadAgrees ==
    /\ reading /\ ~raced /\ ~flag => Fresh(sample)
    /\ valid /\ ~raced /\ ~flag => Fresh(buffer)
    /\ line /\ ~flag /\ (valid \/ reading) => raced

PinsInv == PinsTypeOK /\ StateAgrees /\ ReadAgrees

LEMMA PcfSetSafe ==
    ASSUME PinsTypeOK, ReadAgrees, NEW value \in SUBSET ExtPins, PcfSet(value)
    PROVE  /\ latch' \in SUBSET ExtPins /\ low' \in SUBSET ExtPins
           /\ buffer' \in SUBSET ExtPins /\ sample' \in SUBSET ExtPins
           /\ written' \in SUBSET ExtPins
           /\ refused' \in BOOLEAN /\ line' \in BOOLEAN /\ flag' \in BOOLEAN
           /\ valid' \in BOOLEAN /\ reading' \in BOOLEAN /\ raced' \in BOOLEAN
           /\ failures' \in 0..MaxFailures
           /\ ~refused' => latch' = value
           /\ ReadAgrees'
<1> USE PinsAssumption
<1>1. UNCHANGED <<low, flag, buffer, valid, reading, sample, raced>> /\ ~reading
  BY DEF PcfSet, reads
<1>2. CASE /\ latch' = value /\ refused' = FALSE /\ line' = FALSE
           /\ written' = written \cup (latch \ value) \cup (value \ latch)
           /\ failures' = failures
  <2>1. \A p \in ExtPins \ written' : p \in ExtPins \ written
                                     /\ (p \in PinLevels' <=> p \in PinLevels)
    BY <1>1, <1>2 DEF PinLevels
  <2>2. ReadAgrees'
    BY <1>1, <1>2, <2>1 DEF ReadAgrees, Fresh
  <2>3. written' \in SUBSET ExtPins
    BY <1>2 DEF PinsTypeOK
  <2> QED
    BY <1>1, <1>2, <2>2, <2>3 DEF PinsTypeOK
<1>3. CASE /\ failures < MaxFailures /\ failures' = failures + 1 /\ refused' = TRUE
           /\ UNCHANGED <<latch, line, written>>
  <2>1. ReadAgrees'
    BY <1>1, <1>3 DEF ReadAgrees, Fresh, PinLevels
  <2>2. failures' \in 0..MaxFailures
    BY <1>3 DEF PinsTypeOK
  <2> QED
    BY <1>1, <1>3, <2>1, <2>2 DEF PinsTypeOK
<1> QED
  BY <1>2, <1>3 DEF PcfSet

\* A level asked for an expander pin.
LEMMA ExtioWritten ==
    ASSUME PinsInv, NEW pin \in ExtPins, NEW l \in Levels,
           NEW s \in SUBSET ExtPins,
           \A p \in ExtPins \ {pin} : p \in s <=> p \in state,
           state' = ExtioState(s, pin, l), level' = [level EXCEPT ![pin] = l]
    PROVE  /\ state' \in SUBSET ExtPins
           /\ level' \in [ExtPins -> Levels \cup {"NONE"}]
           /\ \A p \in ExtPins : IF level'[p] = "NONE" THEN p \notin state'
                                 ELSE p \in state' <=> level'[p] = "HIGH"
<1>1. state' \in SUBSET ExtPins
  BY DEF ExtioState
<1>2. level' \in [ExtPins -> Levels \cup {"NONE"}]
  BY DEF PinsInv, PinsTypeOK
<1>3. level'[pin] = l /\ \A p \in ExtPins \ {pin} : level'[p] = level[p]
  BY DEF PinsInv, PinsTypeOK
<1>4. pin \in state' <=> l = "HIGH"
  BY DEF ExtioState
<1>5. \A p \in ExtPins \ {pin} : p \in state' <=> p \in state
  BY DEF ExtioState
<1> QED
  BY <1>1, <1>2, <1>3, <1>4, <1>5 DEF PinsInv, StateAgrees, Levels

\* A pin of the microcontroller is written.
LEMMA GpioWritten ==
    ASSUME PinsInv, NEW pin \in GpioPins, NEW l, GpioWrite(pin, l),
           ddr' \in SUBSET GpioPins, mode' \in [AllPins -> PinModes], ready' = ready,
           UNCHANGED <<state, chip, reads, failures, level, refused, written>>
    PROVE  PinsInv'
<1>1. port' \in SUBSET GpioPins
  BY DEF GpioWrite, PinsInv, PinsTypeOK
<1> QED
  BY <1>1 DEF chip, reads, PinsInv, PinsTypeOK, StateAgrees, ReadAgrees, Fresh, PinLevels

\* An expander pin is written.
LEMMA ExtWritten ==
    ASSUME PinsInv, NEW pin \in ExtPins, NEW l \in Levels,
           NEW s \in SUBSET ExtPins,
           \A p \in ExtPins \ {pin} : p \in s <=> p \in state,
           state' = ExtioState(s, pin, l), level' = [level EXCEPT ![pin] = l],
           PcfSet(state'), mode' \in [AllPins -> PinModes], ready' = ready,
           UNCHANGED <<ddr, port>>
    PROVE  PinsInv'
<1>1. /\ state' \in SUBSET ExtPins
      /\ level' \in [ExtPins -> Levels \cup {"NONE"}]
      /\ \A p \in ExtPins : IF level'[p] = "NONE" THEN p \notin state'
                            ELSE p \in state' <=> level'[p] = "HIGH"
  BY ExtioWritten
<1>2. PICK value \in SUBSET ExtPins : value = state'
  BY <1>1
<1>3. PcfSet(value)
  BY <1>2
<1>4. /\ latch' \in SUBSET ExtPins /\ low' \in SUBSET ExtPins
      /\ buffer' \in SUBSET ExtPins /\ sample' \in SUBSET ExtPins
      /\ written' \in SUBSET ExtPins
      /\ refused' \in BOOLEAN /\ line' \in BOOLEAN /\ flag' \in BOOLEAN
      /\ valid' \in BOOLEAN /\ reading' \in BOOLEAN /\ raced' \in BOOLEAN
      /\ failures' \in 0..MaxFailures
      /\ ~refused' => latch' = value
      /\ ReadAgrees'
  BY <1>3, PcfSetSafe DEF PinsInv
<1>5. PinsTypeOK'
  BY <1>1, <1>4 DEF PinsInv, PinsTypeOK
<1>6. StateAgrees'
  BY <1>1, <1>2, <1>4 DEF StateAgrees
<1> QED
  BY <1>4, <1>5, <1>6 DEF PinsInv

LEMMA PinsNextInv ==
    ASSUME PinsInv, [PinsNext]_pinVars
    PROVE  PinsInv'
<1> USE PinsAssumption
<1>1. CASE BspTinyInit
  <2>1. /\ ready' = TRUE /\ ddr' = {} /\ port' = {} /\ PcfSet(state)
        /\ UNCHANGED <<state, mode, level>>
    BY <1>1 DEF BspTinyInit
  <2>2. state \in SUBSET ExtPins
    BY DEF PinsInv, PinsTypeOK
  <2>3. /\ latch' \in SUBSET ExtPins /\ low' \in SUBSET ExtPins
        /\ buffer' \in SUBSET ExtPins /\ sample' \in SUBSET ExtPins
        /\ written' \in SUBSET ExtPins
        /\ refused' \in BOOLEAN /\ line' \in BOOLEAN /\ flag' \in BOOLEAN
        /\ valid' \in BOOLEAN /\ reading' \in BOOLEAN /\ raced' \in BOOLEAN
        /\ failures' \in 0..MaxFailures
        /\ ~refused' => latch' = state
        /\ ReadAgrees'
    BY <2>1, <2>2, PcfSetSafe DEF PinsInv
  <2> QED
    BY <2>1, <2>3 DEF PinsInv, PinsTypeOK, StateAgrees
<1>2. ASSUME NEW pin \in AllPins, NEW m \in PinModes, NEW l \in Levels,
             PinInit(pin, m, l)
      PROVE  PinsInv'
  <2>1. mode' \in [AllPins -> PinModes] /\ ready' = ready
    BY <1>2 DEF PinInit, PinsInv, PinsTypeOK
  <2>2. CASE pin \in GpioPins
    <3>1. ddr' \in SUBSET GpioPins
      BY <1>2, <2>2 DEF PinInit, PinsInv, PinsTypeOK
    <3> QED
      BY <1>2, <2>1, <2>2, <3>1, GpioWritten DEF PinInit
  <2>3. CASE pin \notin GpioPins
    <3> DEFINE s == IF m = "INPUT" THEN state \cup {pin} ELSE state
    <3>1. pin \in ExtPins
      BY <2>3 DEF AllPins
    <3>2. s \in SUBSET ExtPins /\ \A p \in ExtPins \ {pin} : p \in s <=> p \in state
      BY <3>1 DEF PinsInv, PinsTypeOK
    <3>3. /\ state' = ExtioState(s, pin, l) /\ level' = [level EXCEPT ![pin] = l]
          /\ PcfSet(state') /\ UNCHANGED <<ddr, port>>
      BY <1>2, <2>3 DEF PinInit
    <3> HIDE DEF s
    <3> QED
      BY <2>1, <3>1, <3>2, <3>3, ExtWritten
  <2> QED
    BY <2>2, <2>3
<1>3. ASSUME NEW pin \in AllPins, NEW l \in Levels, OutputWrite(pin, l)
      PROVE  PinsInv'
  <2>1. mode' \in [AllPins -> PinModes] /\ ready' = ready /\ ddr' = ddr
        /\ ddr' \in SUBSET GpioPins
    BY <1>3 DEF OutputWrite, PinsInv, PinsTypeOK
  <2>2. CASE pin \in GpioPins
    BY <1>3, <2>1, <2>2, GpioWritten DEF OutputWrite
  <2>3. CASE pin \notin GpioPins
    <3>1. pin \in ExtPins /\ state \in SUBSET ExtPins
      BY <2>3 DEF AllPins, PinsInv, PinsTypeOK
    <3>2. /\ state' = ExtioState(state, pin, l) /\ level' = [level EXCEPT ![pin] = l]
          /\ PcfSet(state') /\ port' = port
      BY <1>3, <2>3 DEF OutputWrite
    <3> QED
      BY <2>1, <3>1, <3>2, ExtWritten
  <2> QED
    BY <2>2, <2>3
<1>4. ASSUME NEW pin \in AllPins, Toggle(pin)
      PROVE  PinsInv'
  <2>1. mode' \in [AllPins -> PinModes] /\ ready' = ready /\ ddr' = ddr
        /\ ddr' \in SUBSET GpioPins
    BY <1>4 DEF Toggle, PinsInv, PinsTypeOK
  <2>2. CASE pin \in GpioPins
    BY <1>4, <2>1, <2>2, GpioWritten DEF Toggle
  <2>3. CASE pin \notin GpioPins
    <3>1. pin \in ExtPins /\ state \in SUBSET ExtPins
      BY <2>3 DEF AllPins, PinsInv, PinsTypeOK
    <3>2. /\ state' = ExtioState(state, pin, Toggled(pin))
          /\ level' = [level EXCEPT ![pin] = IF @ = "NONE" THEN "HIGH" ELSE Opposite(@)]
          /\ PcfSet(state') /\ port' = port
      BY <1>4, <2>3 DEF Toggle
    <3>3. Toggled(pin) \in Levels
      BY DEF Toggled, Levels
    <3>4. level[pin] \in Levels \cup {"NONE"}
      BY <3>1 DEF PinsInv, PinsTypeOK
    <3>5. Toggled(pin) = IF level[pin] = "NONE" THEN "HIGH" ELSE Opposite(level[pin])
      BY <3>1, <3>4 DEF Toggled, Opposite, Levels, PinsInv, StateAgrees
    <3>6. level' = [level EXCEPT ![pin] = Toggled(pin)]
      BY <3>2, <3>5
    <3> QED
      BY <2>1, <3>1, <3>2, <3>3, <3>6, ExtWritten
  <2> QED
    BY <2>2, <2>3
<1>5. CASE ReadBegin
  <2>1. Fresh(sample)'
    BY <1>5 DEF ReadBegin, Fresh, PinLevels
  <2>2. PinsTypeOK'
    BY <1>5, ZenonT(60) DEF ReadBegin, PinsInv, PinsTypeOK, PinLevels
  <2> QED
    BY <1>5, <2>1, <2>2 DEF ReadBegin, PinsInv, StateAgrees, ReadAgrees
<1>6. CASE ReadEnd
  <2>1. /\ reading /\ reading' = FALSE /\ sample' = {}
        /\ UNCHANGED <<ready, ddr, port, state, latch, low, line, flag, raced, mode,
                       level, refused, written>>
    BY <1>6 DEF ReadEnd, chip
  <2>2. \/ buffer' = sample /\ valid' = Buffered /\ failures' = failures
        \/ buffer' = {} /\ valid' = FALSE /\ failures < MaxFailures
           /\ failures' = failures + 1
    BY <1>6 DEF ReadEnd
  <2>3. PinsTypeOK'
    <3>1. failures' \in 0..MaxFailures
      BY <2>2 DEF PinsInv, PinsTypeOK
    <3>2. valid' \in BOOLEAN /\ buffer' \in SUBSET ExtPins
      BY <2>2 DEF PinsInv, PinsTypeOK
    <3> QED
      BY <2>1, <3>1, <3>2, ZenonT(60) DEF PinsInv, PinsTypeOK
  <2>4. ReadAgrees'
    BY <2>1, <2>2 DEF PinsInv, ReadAgrees, Fresh, PinLevels
  <2> QED
    BY <2>1, <2>3, <2>4 DEF PinsInv, StateAgrees
<1>7. CASE ExtInterrupt
  BY <1>7 DEF ExtInterrupt, PinsInv, PinsTypeOK, StateAgrees, ReadAgrees, Fresh, PinLevels
<1>8. ASSUME NEW pin \in ExtPins, InputChange(pin)
      PROVE  PinsInv'
  <2>1. /\ low' = IF pin \in low THEN low \ {pin} ELSE low \cup {pin}
        /\ line' = (line \/ pin \in latch)
        /\ flag' = (flag \/ (pin \in latch /\ ~line))
        /\ UNCHANGED <<ready, ddr, port, state, latch, buffer, valid, reading, sample,
                       raced, failures, mode, level, refused, written>>
    BY <1>8 DEF InputChange, reads
  <2>2. PinsTypeOK'
    BY <2>1 DEF PinsInv, PinsTypeOK
  <2>3. ReadAgrees'
    <3>1. CASE pin \notin latch
      <4>1. PinLevels' = PinLevels
        BY <2>1, <3>1 DEF PinLevels
      <4> QED
        BY <2>1, <3>1, <4>1 DEF PinsInv, ReadAgrees, Fresh
    <3>2. CASE pin \in latch /\ ~line
      BY <2>1, <3>2 DEF ReadAgrees
    <3>3. CASE pin \in latch /\ line
      BY <2>1, <3>3 DEF PinsInv, ReadAgrees
    <3> QED
      BY <3>1, <3>2, <3>3
  <2> QED
    BY <2>1, <2>2, <2>3 DEF PinsInv, StateAgrees
<1>9. CASE UNCHANGED pinVars
  BY <1>9 DEF pinVars, chip, reads, PinsInv, PinsTypeOK, StateAgrees, ReadAgrees, Fresh,
              PinLevels
<1> QED
  BY <1>1, <1>2, <1>3, <1>4, <1>5, <1>6, <1>7, <1>8, <1>9 DEF PinsNext

LEMMA PinsInitInv == PinsInit => PinsInv
<1> SUFFICES ASSUME PinsInit PROVE PinsInv
  OBVIOUS
<1>1. latch \in SUBSET ExtPins
  BY DEF PinsInit
<1>2. mode \in [AllPins -> PinModes] /\ level \in [ExtPins -> Levels \cup {"NONE"}]
  BY DEF PinsInit, PinModes
<1>3. failures \in 0..MaxFailures
  BY PinsAssumption DEF PinsInit
<1>4. PinsTypeOK
  BY <1>1, <1>2, <1>3 DEF PinsInit, PinsTypeOK
<1>5. StateAgrees
  BY DEF PinsInit, StateAgrees
<1>6. ReadAgrees
  BY DEF PinsInit, ReadAgrees
<1> QED
  BY <1>4, <1>5, <1>6 DEF PinsInv

\* The state kept of the expander is the expander's after any transfer that
\* succeeds, and a valid read buffer is fresh but for the race in the middle of a
\* read (bsp.cpp, pcf8574.cpp:62).
THEOREM PinsSoundHolds == PinsSpec => []PinsSound
<1>1. PinsInv => PinsSound
  BY DEF PinsInv, StateAgrees, ReadAgrees, Fresh, PinsSound, ExpanderAgrees, BufferFresh
<1> QED
  BY <1>1, PinsInitInv, PinsNextInv, PTL DEF PinsSpec

-----------------------------------------------------------------------------
(* Shell *)

\* A semaphore that is taken has a character ahead that gives it back, and one
\* that waits has its work queued or running.
Woken ==
    Offloaded =>
        /\ ~idle /\ chars = <<>> => doing \in {"DO", "RESET"}
        /\ chars # <<>> /\ doing = "AWAY" => submitted

LEMMA ShellInitInv == ShellInit => ShellTypeOK /\ Woken
BY EmptySeq DEF ShellInit, ShellTypeOK, Woken, Places

LEMMA ShellNextInv ==
    ASSUME ShellTypeOK, Woken, [ShellNext]_shellVars
    PROVE  ShellTypeOK' /\ Woken'
<1> USE ShellAssumption
<1>1. ASSUME NEW key \in Keys, Type(key)
      PROVE  ShellTypeOK' /\ Woken'
  <2>1. CASE Len(chars) = Capacity
    BY <1>1, <2>1 DEF Type, ShellTypeOK, Woken
  <2>2. CASE Len(chars) # Capacity
    <3>1. /\ chars' = Append(chars, key)
          /\ submitted' = (submitted \/ (Offloaded /\ idle))
          /\ idle' = (idle /\ ~Offloaded)
          /\ doing' = doing
      BY <1>1, <2>2 DEF Type
    <3>2. chars' \in Seq(Keys) /\ chars' # <<>>
      BY <3>1, AppendProperties DEF ShellTypeOK
    <3>3. Woken'
      BY <3>1, <3>2 DEF Woken
    <3> QED
      BY <3>1, <3>2, <3>3 DEF ShellTypeOK
  <2> QED
    BY <2>1, <2>2
<1>2. CASE ShellBegin
  BY <1>2 DEF ShellBegin, ShellTypeOK, Woken, Places
<1>3. CASE ShellGet
  <2>1. CASE chars = <<>>
    BY <1>3, <2>1 DEF ShellGet, ShellTypeOK, Woken, Places
  <2>2. CASE chars # <<>>
    <3>1. Tail(chars) \in Seq(Keys)
      BY <2>2, HeadTailProperties DEF ShellTypeOK
    <3> QED
      BY <1>3, <2>2, <3>1 DEF ShellGet, ShellTypeOK, Woken, Places
  <2> QED
    BY <2>1, <2>2
<1>4. CASE ShellDone
  BY <1>4 DEF ShellDone, ShellTypeOK, Woken, Places
<1>5. CASE ShellRestart
  BY <1>5, EmptySeq DEF ShellRestart, ShellTypeOK, Woken, Places
<1>6. CASE UNCHANGED shellVars
  BY <1>6 DEF shellVars, ShellTypeOK, Woken
<1> QED
  BY <1>1, <1>2, <1>3, <1>4, <1>5, <1>6 DEF ShellNext

\* No character waits in the queue for another to be typed: the semaphore between
\* the serial interrupt and the work item is never lost (shell.c:54).
THEOREM ShellWakesHolds == ShellSpec => []ShellWakes
<1>1. Woken => ShellWakes
  BY DEF Woken, ShellWakes
<1> QED
  BY <1>1, ShellInitInv, ShellNextInv, PTL DEF ShellSpec

-----------------------------------------------------------------------------
(* The power-cut monitor *)

\* The counter is ahead of its last value by the edges of this second, wrapped or not,
\* and the frequency is that of the second before.
Counts ==
    /\ counter = last_counter + edges \/ counter = last_counter + edges - CounterModulus
    /\ freq = counted \div EdgesPerPeriod

\* What was seen is still the frequency as long as the second has not ended; the
\* status is what was seen, once the reading is over.
Watched ==
    /\ ~looking /\ ~ended => seen.high = freq
    /\ looking => AboveLow(seen.low)
    /\ ~looking => (power_status <=> AboveLow(seen.low) /\ BelowHigh(seen.high))

Told == power_status # reported => requested

PowerInv == PowerTypeOK /\ Counts /\ Watched /\ Told

\* The difference of the counters, in their width, is the number of edges.
LEMMA DeltaIsEdges ==
    ASSUME PowerTypeOK, Counts
    PROVE  Delta = edges
<1>1. /\ CounterModulus \in Nat /\ MaxEdges \in Nat /\ MaxEdges < CounterModulus
      /\ counter \in 0..(CounterModulus - 1) /\ last_counter \in 0..(CounterModulus - 1)
      /\ edges \in 0..MaxEdges
  BY PowerAssumption DEF PowerTypeOK
<1>2. counter = last_counter + edges \/ counter = last_counter + edges - CounterModulus
  BY DEF Counts
<1> QED
  BY <1>1, <1>2 DEF Delta

LEMMA FrequencyType ==
    ASSUME NEW n \in Nat
    PROVE  n \div EdgesPerPeriod \in Nat
BY DEF EdgesPerPeriod

LEMMA PowerInitInv == PowerInit => PowerInv
<1> SUFFICES ASSUME PowerInit PROVE PowerInv
  OBVIOUS
<1>1. PowerTypeOK
  <2>1. /\ counter = 0 /\ last_counter = 0 /\ freq = 0 /\ edges = 0 /\ counted = 0
        /\ seen = [low |-> 0, high |-> 0]
    BY DEF PowerInit
  <2>2. 0 \in 0..(CounterModulus - 1) /\ 0 \in 0..MaxEdges
    BY PowerAssumption
  <2>3. {counter, last_counter} \subseteq 0..(CounterModulus - 1)
    BY <2>1, <2>2
  <2>4. {looking, power_status, requested, ended, reported} \subseteq BOOLEAN
    BY Zenon DEF PowerInit
  <2> QED
    BY <2>1, <2>2, <2>3, <2>4 DEF PowerTypeOK
<1>2. Counts
  BY DEF PowerInit, Counts, EdgesPerPeriod
<1>3. Watched
  BY PowerAssumption DEF PowerInit, Watched, AboveLow
<1>4. Told
  BY DEF PowerInit, Told
<1> QED
  BY <1>1, <1>2, <1>3, <1>4 DEF PowerInv

LEMMA PowerNextInv ==
    ASSUME PowerInv, [PowerNext]_powerVars
    PROVE  PowerInv'
<1> USE PowerAssumption DEF PowerInv
<1>1. CASE PowerEdge
  <2>1. PowerTypeOK'
    BY <1>1 DEF PowerEdge, PowerTypeOK
  <2>2. Counts'
    BY <1>1 DEF PowerEdge, PowerTypeOK, Counts
  <2>3. Watched' /\ Told'
    BY <1>1 DEF PowerEdge, Watched, Told, AboveLow, BelowHigh
  <2> QED
    BY <2>1, <2>2, <2>3
<1>2. CASE PowerSecond
  <2>1. freq' = edges \div EdgesPerPeriod /\ edges \in Nat
    BY <1>2, DeltaIsEdges DEF PowerSecond, PowerTypeOK
  <2>2. PowerTypeOK'
    BY <1>2, <2>1, FrequencyType DEF PowerSecond, PowerTypeOK
  <2>3. Counts'
    BY <1>2, <2>1 DEF PowerSecond, PowerTypeOK, Counts
  <2>4. Watched' /\ Told'
    BY <1>2 DEF PowerSecond, Watched, Told, AboveLow, BelowHigh
  <2> QED
    BY <2>2, <2>3, <2>4
<1>3. CASE LookLow
  <2>1. /\ UNCHANGED <<counter, last_counter, freq, edges, counted, reported>>
        /\ seen' = [low |-> freq, high |-> freq] /\ ended' = FALSE /\ ~looking
    BY <1>3 DEF LookLow
  <2>2. CASE AboveLow(freq)
    <3>1. looking' = TRUE /\ power_status' = power_status /\ requested' = requested
      BY <1>3, <2>2 DEF LookLow
    <3> QED
      BY <2>1, <2>2, <3>1
      DEF PowerTypeOK, Counts, Watched, Told, AboveLow, BelowHigh
  <2>3. CASE ~AboveLow(freq)
    <3>1. /\ looking' = FALSE /\ power_status' = FALSE
          /\ requested' = (requested \/ FALSE # power_status)
      BY <1>3, <2>3 DEF LookLow, Judge
    <3>2. Told'
      BY <2>1, <3>1 DEF Told, PowerTypeOK
    <3>3. requested' \in BOOLEAN
      BY <3>1
    <3> QED
      BY <2>1, <2>3, <3>1, <3>2, <3>3
      DEF PowerTypeOK, Counts, Watched, AboveLow, BelowHigh
  <2> QED
    BY <2>2, <2>3
<1>4. CASE LookHigh
  <2>1. /\ UNCHANGED <<counter, last_counter, freq, edges, counted, reported>>
        /\ seen' = [seen EXCEPT !.high = freq] /\ ended' = FALSE /\ looking
        /\ looking' = FALSE /\ power_status' = BelowHigh(freq)
        /\ requested' = (requested \/ BelowHigh(freq) # power_status)
    BY <1>4 DEF LookHigh, Judge
  <2>2. Told'
    BY <2>1 DEF Told, PowerTypeOK
  <2>3. requested' \in BOOLEAN /\ power_status' \in BOOLEAN
    BY <2>1 DEF BelowHigh
  <2>4. seen' \in [low: Nat, high: Nat] /\ seen'.low = seen.low /\ seen'.high = freq
    BY <2>1 DEF PowerTypeOK
  <2>5. Watched'
    BY <2>1, <2>4 DEF Watched, AboveLow, BelowHigh
  <2> QED
    BY <2>1, <2>2, <2>3, <2>4, <2>5 DEF PowerTypeOK, Counts
<1>5. CASE PowerTelemetry
  <2>1. Told' /\ requested' \in BOOLEAN /\ reported' \in BOOLEAN
    BY <1>5 DEF PowerTelemetry, Told, PowerTypeOK
  <2> QED
    BY <1>5, <2>1 DEF PowerTelemetry, PowerTypeOK, Counts, Watched, AboveLow, BelowHigh
<1>6. CASE UNCHANGED powerVars
  BY <1>6 DEF powerVars, PowerTypeOK, Counts, Watched, Told, AboveLow, BelowHigh
<1> QED
  BY <1>1, <1>2, <1>3, <1>4, <1>5, <1>6 DEF PowerNext

\* The power status is that of the last second, for counters of any width that the
\* edges of a second do not exceed; a second that ends between the two looks of
\* pcc_get_power_status misleads it in one case only; and the controller is told.
THEOREM PowerSoundHolds == PowerSpec => []PowerSound
<1>1. PowerInv => PowerSound
  <2> SUFFICES ASSUME PowerInv PROVE PowerSound
    OBVIOUS
  <2>1. ~looking /\ ~ended /\ seen.low = seen.high =>
           (power_status <=> WithinLimits(counted \div EdgesPerPeriod))
    BY DEF PowerInv, Counts, Watched, WithinLimits
  <2>2. ~looking /\ power_status =>
           \/ WithinLimits(seen.low) \/ WithinLimits(seen.high)
           \/ ~BelowHigh(seen.low) /\ ~AboveLow(seen.high)
    BY DEF PowerInv, Watched, WithinLimits
  <2> QED
    BY <2>1, <2>2 DEF PowerInv, Told, PowerSound
<1> QED
  BY <1>1, PowerInitInv, PowerNextInv, PTL DEF PowerSpec

-----------------------------------------------------------------------------
(* The composition *)

\* In a behaviour of the composition each part behaves as it does alone, whichever
\* of them moves.
LEMMA PartsBehave ==
    StoresSpec => Spec /\ SettingsSpec /\ PinsSpec /\ ShellSpec /\ PowerSpec
<1>1. StoresInit => Init /\ SettingsInit /\ PinsInit /\ ShellInit /\ PowerInit
  BY DEF StoresInit
<1>2. [StoresNext]_storesVars =>
         /\ [Next]_vars /\ [SettingsNext]_settingsVars /\ [PinsNext]_pinVars
         /\ [ShellNext]_shellVars /\ [PowerNext]_powerVars
  BY DEF StoresNext, storesVars
<1> QED
  BY <1>1, <1>2, PTL DEF StoresSpec, Spec, SettingsSpec, PinsSpec, ShellSpec, PowerSpec

\* Every variable of the five parts keeps to its type, for any number of slots,
\* instances, pins and characters and counters of any width: what is stored is whole
\* or known to be damaged.
THEOREM StoresTypeCorrect == StoresSpec => []StoresTypeOK
<1>1. PinsInv => PinsTypeOK
  BY DEF PinsInv
<1>2. PowerInv => PowerTypeOK
  BY DEF PowerInv
<1>3. /\ PinsSpec => []PinsTypeOK
      /\ ShellSpec => []ShellTypeOK
      /\ PowerSpec => []PowerTypeOK
  BY <1>1, <1>2, PinsInitInv, PinsNextInv, ShellInitInv, ShellNextInv,
     PowerInitInv, PowerNextInv, PTL DEF PinsSpec, ShellSpec, PowerSpec
<1>4. TypeOK /\ SettingsTypeOK /\ PinsTypeOK /\ ShellTypeOK /\ PowerTypeOK => StoresTypeOK
  BY DEF StoresTypeOK
<1> QED
  BY <1>3, <1>4, PartsBehave, TypeCorrect, SettingsTypeCorrect, PTL
=============================================================================
