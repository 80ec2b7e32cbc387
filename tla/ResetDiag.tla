----------------------------- MODULE ResetDiag -----------------------------
(***************************************************************************)
(* The reset diagnostics (diag.c): a context in RAM that survives a warm   *)
(* reset, from which a boot learns how long the run before it lasted and   *)
(* how long and how often the board ran since it last lost its memory (its *)
(* streak), and statistics in EEPROM, to which a boot adds its reset.      *)
(*                                                                         *)
(* A reset may come at any step: between two updates of the RAM, or in the *)
(* middle of a write of the EEPROM, which then holds the old image, the    *)
(* new one, or a mix that the size and the checksum betray.                *)
(***************************************************************************)
EXTENDS Integers, Sequences, FiniteSets

CONSTANTS
    Reasons,     \* the reset reasons that happen, "UNKNOWN" among them
    Torn,        \* stands for statistics whose size or checksum is wrong
    Slots,       \* CONFIG_DIAG_RESET_CONTEXT_SAVED_COUNT
    Modulus,     \* 2^16, the width of the counters
    MaxUptime,   \* bound on the uptime of a run
    MaxResets    \* bound on the resets after the first

\* enum diag_reset_reason.
AllReasons == {"UNKNOWN", "POWER_ON", "WATCHDOG", "EXTERNAL", "BROWN_OUT"}
Unknown    == "UNKNOWN"

\* Reasons for which RAM may have lost its content.
ColdReasons == {"POWER_ON", "BROWN_OUT"}

ASSUME DiagAssumption ==
    /\ {Unknown, "POWER_ON"} \subseteq Reasons /\ Reasons \subseteq AllReasons
    /\ Slots \in Nat \ {0, 1}
    /\ Modulus \in Nat \ {0}
    /\ MaxUptime \in Nat
    /\ MaxResets \in Nat

VARIABLES
    stage,    \* how far the boot has come
    reason,   \* what diag_reset_get_reason returns for this boot
    uptime,   \* the kernel's uptime, as of the last turn of the main loop
    ram,      \* accross_reset_context
    prev,     \* previous_run_context
    eeprom,   \* the statistics in EEPROM, or Torn
    image,    \* the statistics being written to it, or Torn for none
    resets,   \* resets so far
    streak    \* ghost: the runs and the uptime since RAM was lost or cleared, how
              \* long the run of the clear had lasted before it, and whether a
              \* reset came while a boot was adding them up

vars == <<stage, reason, uptime, ram, prev, eeprom, image, resets, streak>>

Counters == 0..Modulus - 1
Runtime  == [uptime: 0..MaxUptime, streak_uptime: Nat, streak_count: Counters]
Context  == [reason: Reasons, runtime: Runtime]

\* struct eeprom_reset_stats; the slots are numbered from 0 as in the code.
Stats == [counter: [Reasons -> Counters], contexts: [0..Slots - 1 -> Context]]

ASSUME TornAssumption == Torn \notin Stats

Stages == {"ADD_UPTIME", "ADD_RUN", "CLEAR_UPTIME", "UPDATE_STATS", "WRITE", "RUN"}

-----------------------------------------------------------------------------
(* The statistics *)

ZeroRuntime == [uptime |-> 0, streak_uptime |-> 0, streak_count |-> 0]
NoContext   == [reason |-> Unknown, runtime |-> ZeroRuntime]
ZeroStats   == [counter |-> [r \in Reasons |-> 0],
                contexts |-> [i \in 0..Slots - 1 |-> NoContext]]

\* read_reset_stats, or zeroed statistics when the image is not valid.
ReadStats == IF eeprom = Torn THEN ZeroStats ELSE eeprom

\* The first slot whose reason is unknown; Slots if there is none.
Terminator(contexts) ==
    LET ends == {i \in 0..Slots - 1 : contexts[i].reason = Unknown}
    IN  IF ends = {} THEN Slots ELSE CHOOSE i \in ends : \A j \in ends : i <= j

\* Bug: the slot after the one written is not cleared.
ContextSaveNoEnd(contexts, context) ==
    LET end == Terminator(contexts)
    IN  [contexts EXCEPT ![IF end = Slots THEN 0 ELSE end] = context]

\* reset_context_save: into the slot that ends the store, whose end then is the
\* slot after it; a store without an end is begun again.
ContextSave(contexts, context) ==
    LET end  == Terminator(contexts)
        slot == IF end = Slots THEN 0 ELSE end
    IN  [contexts EXCEPT ![slot] = context, ![(slot + 1) % Slots].reason = Unknown]

\* Bug: the slot that ends the store is taken for the last one saved.
ReadLastOff(contexts, ago) ==
    LET index == (Terminator(contexts) + Slots - ago) % Slots
    IN  IF ago + 1 >= Slots \/ contexts[index].reason = Unknown THEN NoContext
        ELSE contexts[index]

\* reset_context_read_last, NoContext for NULL.
ReadLast(contexts, ago) ==
    LET index == (Terminator(contexts) - 1 + Slots - ago) % Slots
    IN  IF ago + 1 >= Slots \/ contexts[index].reason = Unknown THEN NoContext
        ELSE contexts[index]

\* The counters an attribute that is written clears (attr_write): all, or one.
AttributeClears == {Reasons} \cup {{r} : r \in Reasons}

\* Bugs: the counter is wider than its field; the context is saved before the run
\* it describes is copied.
UpdatedWide(stats) ==
    [counter |-> [stats.counter EXCEPT ![reason] = @ + 1],
     contexts |-> IF reason = Unknown THEN stats.contexts
                  ELSE ContextSave(stats.contexts, [reason |-> reason, runtime |-> prev])]

UpdatedEarly(stats) ==
    [counter |-> [stats.counter EXCEPT ![reason] = (@ + 1) % Modulus],
     contexts |-> IF reason = Unknown THEN stats.contexts
                  ELSE ContextSave(stats.contexts,
                                   [reason |-> reason, runtime |-> ZeroRuntime])]

\* diag_reset_stats_init_update.
Updated(stats) ==
    [counter |-> [stats.counter EXCEPT ![reason] = (@ + 1) % Modulus],
     contexts |-> IF reason = Unknown THEN stats.contexts
                  ELSE ContextSave(stats.contexts, [reason |-> reason, runtime |-> prev])]

-----------------------------------------------------------------------------
(* The boot and the run *)

ZeroRam == [magic |-> TRUE, uptime |-> 0, streak_uptime |-> 0, streak_count |-> 0]
LostRam == [ZeroRam EXCEPT !.magic = FALSE]

NewStreak == [uptime |-> 0, before |-> 0, count |-> 0, cut |-> FALSE]

\* The boot is at the assignments of reset_context_init.
AddingUp == stage \in {"ADD_UPTIME", "ADD_RUN", "CLEAR_UPTIME"}

\* A board fresh from the factory is powered on.
Init ==
    /\ stage = "ADD_UPTIME"
    /\ reason = "POWER_ON"
    /\ uptime = 0
    /\ ram = LostRam
    /\ prev = ZeroRuntime
    /\ eeprom = Torn
    /\ image = Torn
    /\ resets = 0
    /\ streak = NewStreak

\* reset_context_init, on a RAM context that was lost.
ColdBoot ==
    /\ stage = "ADD_UPTIME" /\ ~ram.magic
    /\ ram' = ZeroRam
    /\ stage' = "UPDATE_STATS"
    /\ streak' = NewStreak
    /\ UNCHANGED <<reason, uptime, prev, eeprom, image, resets>>

\* Bug: the copy, still zero, is added.
AddUptimeOfCopy ==
    /\ stage = "ADD_UPTIME" /\ ram.magic
    /\ ram' = [ram EXCEPT !.streak_uptime = @ + prev.uptime]
    /\ stage' = "ADD_RUN"
    /\ UNCHANGED <<reason, uptime, prev, eeprom, image, resets, streak>>

\* reset_context_init, on one that survived, assignment by assignment.
AddUptime ==
    /\ stage = "ADD_UPTIME" /\ ram.magic
    /\ ram' = [ram EXCEPT !.streak_uptime = @ + ram.uptime]
    /\ stage' = "ADD_RUN"
    /\ UNCHANGED <<reason, uptime, prev, eeprom, image, resets, streak>>

AddRun ==
    /\ stage = "ADD_RUN"
    /\ ram' = [ram EXCEPT !.streak_count = (@ + 1) % Modulus]
    /\ prev' = [uptime |-> ram.uptime, streak_uptime |-> ram.streak_uptime,
                streak_count |-> ram'.streak_count]
    /\ stage' = "CLEAR_UPTIME"
    /\ UNCHANGED <<reason, uptime, eeprom, image, resets, streak>>

ClearUptime ==
    /\ stage = "CLEAR_UPTIME"
    /\ ram' = [ram EXCEPT !.uptime = 0]
    /\ stage' = "UPDATE_STATS"
    /\ UNCHANGED <<reason, uptime, prev, eeprom, image, resets, streak>>

\* The statistics are read and updated, and their write begins.
UpdateStats ==
    /\ stage = "UPDATE_STATS"
    /\ image' = Updated(ReadStats)
    /\ stage' = "WRITE"
    /\ UNCHANGED <<reason, uptime, ram, prev, eeprom, resets, streak>>

WriteDone ==
    /\ stage = "WRITE"
    /\ eeprom' = image
    /\ image' = Torn
    /\ stage' = "RUN"
    /\ UNCHANGED <<reason, uptime, ram, prev, resets, streak>>

\* diag_reset_context_update, at the end of a turn of the main loop: the uptime
\* of the whole run, even if the context was cleared in the middle of it.
ContextUpdate ==
    /\ stage = "RUN"
    /\ \E now \in uptime..MaxUptime :
        /\ uptime' = now
        /\ ram' = [ram EXCEPT !.uptime = now, !.magic = TRUE]
        /\ streak' = [streak EXCEPT !.uptime = @ + (now - uptime)]
    /\ UNCHANGED <<stage, reason, prev, eeprom, image, resets>>

\* diag_reset_count_clear_bm: nothing is written over statistics it cannot read.
CountClear(S) ==
    /\ stage = "RUN" /\ eeprom # Torn
    /\ image' = [eeprom EXCEPT !.counter = [r \in Reasons |-> IF r \in S THEN 0 ELSE @[r]]]
    /\ stage' = "WRITE"
    /\ UNCHANGED <<reason, uptime, ram, prev, eeprom, resets, streak>>

\* diag_reset_context_clear and diag_reset_stats_eeprom_clear, from the shell.
ContextClear ==
    /\ stage = "RUN"
    /\ ram' = ZeroRam
    /\ streak' = [NewStreak EXCEPT !.before = uptime]
    /\ UNCHANGED <<stage, reason, uptime, prev, eeprom, image, resets>>

StatsClear ==
    /\ stage = "RUN"
    /\ image' = ZeroStats
    /\ stage' = "WRITE"
    /\ UNCHANGED <<reason, uptime, ram, prev, eeprom, resets, streak>>

\* The board restarts, whatever it was doing; zeroed variables are zero again.
Reset(r) ==
    /\ resets < MaxResets
    /\ resets' = resets + 1
    /\ reason' = r
    /\ stage' = "ADD_UPTIME"
    /\ uptime' = 0
    /\ prev' = ZeroRuntime
    /\ \/ ram' = ram
       \/ r \in ColdReasons /\ ram' = LostRam
    /\ streak' = [streak EXCEPT !.count = @ + 1, !.cut = @ \/ AddingUp]
    /\ eeprom' \in IF stage = "WRITE" THEN {eeprom, Torn, image} ELSE {eeprom}
    /\ image' = Torn

Next ==
    \/ ColdBoot \/ AddUptime \/ AddRun \/ ClearUptime
    \/ UpdateStats \/ WriteDone
    \/ ContextUpdate \/ ContextClear \/ StatsClear
    \/ \E S \in AttributeClears : CountClear(S)
    \/ \E r \in Reasons : Reset(r)

Spec == Init /\ [][Next]_vars

-----------------------------------------------------------------------------
(* Properties *)

TypeOK ==
    /\ stage \in Stages
    /\ reason \in Reasons
    /\ uptime \in 0..MaxUptime
    /\ ram \in [magic: BOOLEAN, uptime: 0..MaxUptime, streak_uptime: Nat,
               streak_count: Counters]
    /\ prev \in Runtime
    /\ eeprom = Torn \/ eeprom \in Stats
    /\ image = Torn \/ image \in Stats
    /\ resets \in 0..MaxResets
    /\ streak \in [uptime: Nat, before: 0..MaxUptime, count: Nat, cut: BOOLEAN]

\* The store of contexts always has an end: "if we didn't save the context at
\* this point, the store is malformed" never comes true of valid statistics.
StoreHasEnd == eeprom # Torn => Terminator(eeprom.contexts) < Slots

Ages == 0..Slots - 1

\* The contexts that can be read back, most recent first.
LogOf(contexts) ==
    LET n == Cardinality({ago \in Ages : ReadLast(contexts, ago) # NoContext})
    IN  [i \in 1..n |-> ReadLast(contexts, i - 1)]

\* The statistics are a log of the last resets and a counter per reason: the
\* ring of slots, the marker that ends it, the resets in the middle of a write
\* and the clears show nothing else to who reads them.
Log == INSTANCE ResetLog WITH
    Depth <- Slots - 1,
    log   <- IF eeprom = Torn THEN <<>> ELSE LogOf(eeprom.contexts),
    count <- IF eeprom = Torn THEN ZeroStats.counter ELSE eeprom.counter

ImplementsLog == Log!ResetLogSpec

\* The attributes of a reset some resets ago (diag_reset_get_last_reason,
\* diag_reset_context_get_last): that of age 0 is from RAM, others from the log.
LastContext(ago) ==
    IF ago = 0 THEN [reason |-> reason, runtime |-> prev]
    ELSE IF eeprom = Torn THEN NoContext
    ELSE ReadLast(eeprom.contexts, ago)

\* While the board runs, the attributes of all ages are one log: what RAM tells of
\* the last reset is what the log has of it, so that none is skipped or told twice.
\* (A reset of unknown reason is not in the log, and moves the ages by one.)
BootRecorded ==
    stage = "RUN" /\ reason # Unknown =>
        ReadLast(eeprom.contexts, 0) \in {NoContext, LastContext(0)}

\* The board's account of its streak: of the runs before and of this one.
StreakUptime == ram.streak_uptime + ram.uptime

\* The streak accounts for every run and all its uptime since RAM was lost or
\* cleared, if no boot was itself reset while it added them up.  A clear from the
\* shell does not take away what its own run had lasted: the next turn of the loop
\* counts that run from its start again, so that it is counted whole.
StreakExact ==
    ~AddingUp /\ ~streak.cut =>
        /\ StreakUptime \in {streak.uptime, streak.uptime + streak.before}
        /\ ram.streak_count = streak.count % Modulus

\* Even then no uptime is lost: a run may be counted twice, never left out.
StreakNeverShort == ~AddingUp => streak.uptime <= StreakUptime

\* What the board says of its streak is right, but for the run of a clear, counted
\* from its start, and a run counted twice.
StreakRight == StreakExact /\ StreakNeverShort
=============================================================================
