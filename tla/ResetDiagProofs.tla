-------------------------- MODULE ResetDiagProofs --------------------------
(***************************************************************************)
(* Theorems about ResetDiag, for any set of reasons, any number of slots   *)
(* (two at least), any width of the counters and any number of resets.     *)
(***************************************************************************)
EXTENDS ResetDiag, SequenceTheorems, FiniteSetTheorems, WellFoundedInduction, TLAPS

-----------------------------------------------------------------------------
(* The ring of saved contexts *)

Ring == 0..Slots - 1

LEMMA Indices ==
    /\ Slots \in Nat /\ Slots > 1
    /\ 0 \in Ring /\ Slots - 1 \in Ring
    /\ \A i \in Ring : i \in Int /\ i \in Nat /\ 0 <= i /\ i < Slots
    /\ \A i \in Ring : (i + 1) % Slots = IF i + 1 = Slots THEN 0 ELSE i + 1
    /\ \A i \in Ring : (i + 1) % Slots \in Ring /\ (i + 1) % Slots # i
    /\ \A i \in Ring : i % Slots = i /\ (i + Slots) % Slots = i
<1>1. Slots \in Nat /\ Slots > 1
  BY DiagAssumption
<1>2. /\ 0 \in Ring /\ Slots - 1 \in Ring
      /\ \A i \in Ring : i \in Int /\ i \in Nat /\ 0 <= i /\ i < Slots
  BY <1>1 DEF Ring
<1>3. ASSUME NEW i \in Ring
      PROVE  (i + 1) % Slots = IF i + 1 = Slots THEN 0 ELSE i + 1
  <2>1. CASE i + 1 = Slots
    <3>1. Slots % Slots = 0
      BY <1>1
    <3> QED
      BY <2>1, <3>1
  <2>2. CASE i + 1 # Slots
    <3>1. i + 1 \in 0..Slots - 1
      BY <1>1, <2>2 DEF Ring
    <3> QED
      BY <1>1, <2>2, <3>1
  <2> QED
    BY <2>1, <2>2
<1>4. ASSUME NEW i \in Ring
      PROVE  (i + 1) % Slots \in Ring /\ (i + 1) % Slots # i
  BY <1>1, <1>3 DEF Ring
<1>5. ASSUME NEW i \in Ring
      PROVE  i % Slots = i /\ (i + Slots) % Slots = i
  BY <1>1, SMT DEF Ring
<1> QED
  BY <1>1, <1>2, <1>3, <1>4, <1>5

\* The natural numbers are well ordered.
LEMMA LeastElement ==
    ASSUME NEW T \in SUBSET Nat, T # {}
    PROVE  \E i \in T : \A j \in T : i <= j
<1>1. PICK i \in T : \A j \in T : <<j, i>> \notin OpToRel(<, Nat)
  BY WFMin, NatLessThanWellFounded, Zenon
<1>2. \A j \in T : ~(j < i)
  BY <1>1, Zenon DEF OpToRel
<1> QED
  BY <1>2

\* Where the store ends, and what is at its end and before it.
LEMMA TerminatorIs ==
    ASSUME NEW contexts
    PROVE  /\ Terminator(contexts) \in Ring \cup {Slots}
           /\ Terminator(contexts) # Slots =>
                contexts[Terminator(contexts)].reason = Unknown
           /\ \A i \in Ring :
                contexts[i].reason = Unknown => Terminator(contexts) <= i
<1> DEFINE ends == {i \in Ring : contexts[i].reason = Unknown}
<1>1. Terminator(contexts) =
        IF ends = {} THEN Slots ELSE CHOOSE i \in ends : \A j \in ends : i <= j
  BY DEF Terminator, Ring
<1>2. CASE ends = {}
  BY <1>1, <1>2
<1>3. CASE ends # {}
  <2>1. ends \in SUBSET Nat
    BY Indices
  <2>2. \E i \in ends : \A j \in ends : i <= j
    BY <1>3, <2>1, LeastElement
  <2>3. Terminator(contexts) \in ends /\ \A j \in ends : Terminator(contexts) <= j
    <3> HIDE DEF ends
    <3> QED
      BY <1>1, <1>3, <2>2, Zenon
  <2>4. Terminator(contexts) # Slots
    BY <2>3, Indices
  <2> QED
    BY <2>3, <2>4
<1> QED
  BY <1>2, <1>3

\* What ends a store tells where.
LEMMA TerminatorAt ==
    ASSUME NEW contexts, NEW i \in Ring,
           contexts[i].reason = Unknown,
           \A j \in Ring : j < i => contexts[j].reason # Unknown
    PROVE  Terminator(contexts) = i
<1>1. Terminator(contexts) \in Ring
  BY TerminatorIs, Indices DEF Ring
<1>2. Terminator(contexts) <= i
  BY TerminatorIs
<1>3. contexts[Terminator(contexts)].reason = Unknown
  BY <1>1, TerminatorIs, Indices
<1>4. ~(Terminator(contexts) < i)
  BY <1>1, <1>3, Zenon
<1>5. Terminator(contexts) \in Int /\ i \in Int
  BY <1>1, Indices
<1> HIDE DEF Terminator
<1> QED
  BY <1>2, <1>4, <1>5

HasEnd(contexts) == \E i \in Ring : contexts[i].reason = Unknown

LEMMA HasEndMeans ==
    ASSUME NEW contexts, HasEnd(contexts)
    PROVE  Terminator(contexts) < Slots
<1>1. PICK i \in Ring : contexts[i].reason = Unknown
  BY DEF HasEnd
<1> QED
  BY <1>1, TerminatorIs, Indices DEF Ring

Contexts == [Ring -> Context]

\* Where a context is saved, and what ends the store from then on.
FreeSlot(contexts) == IF Terminator(contexts) = Slots THEN 0 ELSE Terminator(contexts)
SlotAfter(contexts) == (FreeSlot(contexts) + 1) % Slots

LEMMA SavedSlots ==
    ASSUME NEW contexts \in Contexts, NEW context \in Context, context.reason # Unknown,
           NEW saved, saved = ContextSave(contexts, context)
    PROVE  /\ FreeSlot(contexts) \in Ring /\ SlotAfter(contexts) \in Ring
           /\ saved \in Contexts
           /\ saved[FreeSlot(contexts)] = context
           /\ saved[SlotAfter(contexts)].reason = Unknown
           /\ \A j \in Ring : j # FreeSlot(contexts) /\ j # SlotAfter(contexts) =>
                saved[j] = contexts[j]
           /\ Terminator(saved) = SlotAfter(contexts)
<1> DEFINE end   == Terminator(contexts)
           slot  == IF end = Slots THEN 0 ELSE end
           after == (slot + 1) % Slots
<1>1. slot \in Ring
  BY TerminatorIs, Indices
<1>2. after \in Ring /\ after # slot /\ after = IF slot + 1 = Slots THEN 0 ELSE slot + 1
  BY <1>1, Indices
<1>3. saved = [contexts EXCEPT ![slot] = context, ![after].reason = Unknown]
  BY DEF ContextSave
<1>4. ASSUME NEW j \in Ring, j < slot PROVE contexts[j].reason # Unknown
  <2>1. end # Slots /\ slot = end /\ end \in Ring
    <3>1. end \in Ring \cup {Slots}
      BY TerminatorIs
    <3>2. ~(j < 0)
      BY Indices
    <3>3. end # Slots
      BY <1>4, <3>2
    <3> QED
      BY <3>1, <3>3
  <2>2. ~(end <= j)
    BY <1>4, <2>1, Indices
  <2> HIDE DEF end
  <2>3. contexts[j].reason = Unknown => end <= j
    BY TerminatorIs DEF end
  <2> QED
    BY <2>2, <2>3
<1>s. slot = FreeSlot(contexts) /\ after = SlotAfter(contexts)
  BY DEF FreeSlot, SlotAfter
<1> HIDE DEF end, slot, after
<1>5. /\ saved \in Contexts
      /\ saved[slot] = context
      /\ saved[after].reason = Unknown
      /\ \A j \in Ring : j # slot /\ j # after => saved[j] = contexts[j]
  <2>1. [contexts[after] EXCEPT !.reason = Unknown] \in Context
    BY <1>2, DiagAssumption DEF Contexts, Context
  <2>2. [contexts[after] EXCEPT !.reason = Unknown].reason = Unknown
    BY <1>2 DEF Contexts, Context
  <2>3. saved = [[contexts EXCEPT ![slot] = context]
                   EXCEPT ![after] = [contexts[after] EXCEPT !.reason = Unknown]]
    BY <1>1, <1>2, <1>3 DEF Contexts
  <2> QED
    BY <1>1, <1>2, <2>1, <2>2, <2>3 DEF Contexts
<1>6. Terminator(saved) = after
  <2>1. ASSUME NEW j \in Ring, j < after PROVE saved[j].reason # Unknown
    <3>1. slot + 1 # Slots
      BY <1>2, <2>1, Indices
    <3>2. CASE j = slot
      BY <1>5, <3>2
    <3>3. CASE j # slot
      <4>1. j < slot /\ j # after
        BY <1>1, <1>2, <2>1, <3>1, <3>3, Indices
      <4>2. saved[j] = contexts[j] /\ contexts[j].reason # Unknown
        BY <1>4, <1>5, <3>3, <4>1
      <4> QED
        BY <4>2
    <3> QED
      BY <3>2, <3>3
  <2> QED
    BY <1>2, <1>5, <2>1, TerminatorAt
<1> QED
  BY <1>1, <1>2, <1>5, <1>6, <1>s

\* A context is saved whole, the store keeps an end, and the context is the one
\* read back first.
LEMMA ContextSaved ==
    ASSUME NEW contexts \in Contexts, NEW context \in Context, context.reason # Unknown
    PROVE  /\ ContextSave(contexts, context) \in Contexts
           /\ HasEnd(ContextSave(contexts, context))
           /\ ReadLast(ContextSave(contexts, context), 0) = context
<1> DEFINE slot  == FreeSlot(contexts)
           after == SlotAfter(contexts)
           saved == ContextSave(contexts, context)
<1>1. /\ slot \in Ring /\ after \in Ring
      /\ saved \in Contexts
      /\ saved[slot] = context
      /\ saved[after].reason = Unknown
      /\ Terminator(saved) = after
  BY SavedSlots
<1>2. after = IF slot + 1 = Slots THEN 0 ELSE slot + 1
  BY <1>1, Indices DEF SlotAfter
<1> HIDE DEF slot, after, saved
<1>3. HasEnd(saved)
  BY <1>1 DEF HasEnd
<1>4. (after - 1 + Slots - 0) % Slots = slot
  <2>1. CASE slot + 1 = Slots
    <3>1. after - 1 + Slots - 0 = slot
      BY <1>1, <1>2, <2>1, Indices
    <3> QED
      BY <1>1, <3>1, Indices
  <2>2. CASE slot + 1 # Slots
    <3>1. after - 1 + Slots - 0 = slot + Slots
      BY <1>1, <1>2, <2>2, Indices
    <3> QED
      BY <1>1, <3>1, Indices
  <2> QED
    BY <2>1, <2>2
<1>5. ReadLast(saved, 0) = saved[slot]
  <2>1. ~(0 + 1 >= Slots)
    BY Indices
  <2> QED
    BY <1>1, <1>4, <2>1 DEF ReadLast
<1> QED
  BY <1>1, <1>3, <1>5 DEF saved

-----------------------------------------------------------------------------
(* Type correctness *)

LEMMA StatsAre == Stats = [counter: [Reasons -> Counters], contexts: Contexts]
BY DEF Stats, Contexts, Ring

LEMMA ValueTypes ==
    /\ Unknown \in Reasons
    /\ 0 \in Counters
    /\ \A n \in Counters : n \in Nat /\ (n + 1) % Modulus \in Counters
    /\ 0 \in 0..MaxUptime
    /\ \A n \in 0..MaxUptime : n \in Nat /\ (n < MaxUptime => n + 1 \in 0..MaxUptime)
<1>1. Unknown \in Reasons /\ Modulus \in Nat /\ Modulus > 0 /\ MaxUptime \in Nat
  BY DiagAssumption
<1>2. \A n \in Counters : n \in Nat /\ (n + 1) % Modulus \in Counters
  BY <1>1, SMT DEF Counters
<1> QED
  BY <1>1, <1>2 DEF Counters

LEMMA ZeroTypes ==
    /\ ZeroRuntime \in Runtime
    /\ NoContext \in Context
    /\ ZeroStats \in Stats
    /\ HasEnd(ZeroStats.contexts)
    /\ ReadLast(ZeroStats.contexts, 0) = NoContext
<1>1. ZeroRuntime \in Runtime
  BY ValueTypes DEF ZeroRuntime, Runtime
<1>2. NoContext \in Context
  BY <1>1, ValueTypes DEF NoContext, Context
<1>3. ZeroStats = [counter |-> [r \in Reasons |-> 0], contexts |-> [i \in Ring |-> NoContext]]
  BY DEF ZeroStats, Ring
<1>4. ZeroStats \in Stats
  BY <1>2, <1>3, StatsAre, ValueTypes DEF Contexts
<1>5. ZeroStats.contexts = [i \in Ring |-> NoContext]
  BY <1>3
<1>6. \A i \in Ring : ZeroStats.contexts[i].reason = Unknown
  BY <1>5 DEF NoContext
<1>7. HasEnd(ZeroStats.contexts)
  BY <1>6, Indices DEF HasEnd
<1>8. ReadLast(ZeroStats.contexts, 0) = NoContext
  <2>1. Terminator(ZeroStats.contexts) = 0
    <3>1. 0 \in Ring /\ \A j \in Ring : ~(j < 0)
      BY Indices
    <3>2. ZeroStats.contexts[0].reason = Unknown
      BY <1>6, <3>1
    <3> QED
      BY <3>1, <3>2, TerminatorAt
  <2>2. (Terminator(ZeroStats.contexts) - 1 + Slots - 0) % Slots = Slots - 1
    BY <2>1, Indices
  <2>3. ZeroStats.contexts[(Terminator(ZeroStats.contexts) - 1 + Slots - 0) % Slots].reason
          = Unknown
    BY <1>6, <2>2, Indices
  <2> QED
    BY <2>3, Zenon DEF ReadLast
<1> QED
  BY <1>1, <1>2, <1>4, <1>7, <1>8

\* The statistics are updated whole, and the store of the updated ones has an
\* end, if the one it was updated from has.
LEMMA UpdatedIs ==
    ASSUME NEW stats \in Stats, reason \in Reasons, prev \in Runtime
    PROVE  /\ Updated(stats) \in Stats
           /\ HasEnd(stats.contexts) => HasEnd(Updated(stats).contexts)
           /\ reason # Unknown =>
                ReadLast(Updated(stats).contexts, 0) = [reason |-> reason, runtime |-> prev]
<1> DEFINE context  == [reason |-> reason, runtime |-> prev]
           counter  == [stats.counter EXCEPT ![reason] = (@ + 1) % Modulus]
           contexts == IF reason = Unknown THEN stats.contexts
                       ELSE ContextSave(stats.contexts, context)
<1>1. stats.counter \in [Reasons -> Counters] /\ stats.contexts \in Contexts
  BY StatsAre
<1>2. context \in Context /\ context.reason = reason
  BY DEF Context
<1>3. counter \in [Reasons -> Counters]
  BY <1>1, ValueTypes
<1>4. /\ contexts \in Contexts
      /\ HasEnd(stats.contexts) => HasEnd(contexts)
      /\ reason # Unknown => ReadLast(contexts, 0) = context
  <2> HIDE DEF context
  <2> QED
    BY <1>1, <1>2, ContextSaved
<1>5. Updated(stats) = [counter |-> counter, contexts |-> contexts]
  BY DEF Updated
<1> HIDE DEF counter, contexts
<1> QED
  BY <1>3, <1>4, <1>5, StatsAre

LEMMA ReadStatsType ==
    ASSUME TypeOK
    PROVE  ReadStats \in Stats
BY ZeroTypes DEF TypeOK, ReadStats

RamType    == [magic: BOOLEAN, uptime: 0..MaxUptime, streak_uptime: Nat,
               streak_count: Counters]
StreakType == [uptime: Nat, before: 0..MaxUptime, count: Nat, cut: BOOLEAN]

LEMMA FreshTypes == ZeroRam \in RamType /\ LostRam \in RamType /\ NewStreak \in StreakType
<1>1. ZeroRam \in RamType
  BY ValueTypes DEF ZeroRam, RamType
<1>2. LostRam \in RamType
  BY <1>1 DEF LostRam, RamType
<1>3. NewStreak \in StreakType
  BY ValueTypes DEF NewStreak, StreakType
<1> QED
  BY <1>1, <1>2, <1>3

LEMMA InitTypeOK == Init => TypeOK
<1> SUFFICES ASSUME Init PROVE TypeOK
  OBVIOUS
<1>1. "POWER_ON" \in Reasons
  BY DiagAssumption
<1> QED
  BY <1>1, FreshTypes, ZeroTypes, DiagAssumption
     DEF Init, TypeOK, Stages, RamType, StreakType

LEMMA NextTypeOK == TypeOK /\ [Next]_vars => TypeOK'
<1> SUFFICES ASSUME TypeOK, [Next]_vars PROVE TypeOK'
  OBVIOUS
<1> USE DEF RamType, StreakType
<1>0. /\ ram \in RamType /\ streak \in StreakType
      /\ ram.uptime \in 0..MaxUptime /\ ram.uptime \in Nat
      /\ ram.streak_uptime \in Nat /\ ram.streak_count \in Counters
      /\ streak.uptime \in Nat /\ streak.count \in Nat
      /\ uptime \in 0..MaxUptime /\ 0 \in 0..MaxUptime
  BY ValueTypes DEF TypeOK
<1>z. /\ ZeroRam \in RamType /\ LostRam \in RamType /\ NewStreak \in StreakType
      /\ ZeroRuntime \in Runtime /\ ZeroStats \in Stats
  BY FreshTypes, ZeroTypes
<1>1. CASE ColdBoot
  BY <1>1, <1>z DEF ColdBoot, TypeOK, Stages
<1>2. CASE AddUptime
  <2>1. ram.streak_uptime + ram.uptime \in Nat
    BY <1>0
  <2> QED
    BY <1>2, <1>0, <2>1 DEF AddUptime, TypeOK, Stages
<1>3. CASE AddRun
  <2>1. (ram.streak_count + 1) % Modulus \in Counters
    BY <1>0, ValueTypes
  <2>2. ram' = [ram EXCEPT !.streak_count = (ram.streak_count + 1) % Modulus]
    BY <1>3 DEF AddRun
  <2>3. ram' \in RamType /\ ram'.streak_count \in Counters
    BY <1>0, <2>1, <2>2
  <2>4. prev' \in Runtime
    BY <1>0, <1>3, <2>3 DEF AddRun, Runtime
  <2> QED
    BY <1>3, <2>3, <2>4 DEF AddRun, TypeOK, Stages
<1>4. CASE ClearUptime
  BY <1>4, <1>0, ValueTypes DEF ClearUptime, TypeOK, Stages
<1>5. CASE UpdateStats
  <2>1. Updated(ReadStats) \in Stats
    BY ReadStatsType, UpdatedIs DEF TypeOK
  <2> QED
    BY <1>5, <2>1 DEF UpdateStats, TypeOK, Stages
<1>6. CASE WriteDone
  BY <1>6 DEF WriteDone, TypeOK, Stages
<1>7. CASE ContextUpdate
  <2>1. PICK now \in uptime..MaxUptime :
             /\ uptime' = now
             /\ ram' = [ram EXCEPT !.uptime = now, !.magic = TRUE]
             /\ streak' = [streak EXCEPT !.uptime = streak.uptime + (now - uptime)]
    BY <1>7 DEF ContextUpdate
  <2>2. now \in 0..MaxUptime /\ streak.uptime + (now - uptime) \in Nat
    BY <1>0, DiagAssumption
  <2>3. ram' \in RamType /\ streak' \in StreakType
    BY <1>0, <2>1, <2>2
  <2> QED
    BY <1>7, <2>1, <2>2, <2>3 DEF ContextUpdate, TypeOK, Stages
<1>8. CASE ContextClear
  <2>1. streak' \in StreakType
    BY <1>0, <1>8, <1>z DEF ContextClear
  <2> QED
    BY <1>8, <1>z, <2>1 DEF ContextClear, TypeOK, Stages
<1>9. CASE StatsClear
  BY <1>9, <1>z DEF StatsClear, TypeOK, Stages
<1>10. ASSUME NEW S \in AttributeClears, CountClear(S)
       PROVE  TypeOK'
  <2> DEFINE cleared == [r \in Reasons |-> IF r \in S THEN 0 ELSE eeprom.counter[r]]
  <2>1. eeprom \in Stats
    BY <1>10 DEF CountClear, TypeOK
  <2>2. image' = [eeprom EXCEPT !.counter = cleared]
    BY <1>10 DEF CountClear
  <2>3. cleared \in [Reasons -> Counters]
    BY <2>1, ValueTypes, StatsAre
  <2> HIDE DEF cleared
  <2>4. image' \in Stats
    BY <2>1, <2>2, <2>3, StatsAre
  <2> QED
    BY <1>10, <2>4 DEF CountClear, TypeOK, Stages
<1>11. ASSUME NEW r \in Reasons, Reset(r)
       PROVE  TypeOK'
  <2>1. ram' \in RamType
    BY <1>11, <1>0, <1>z DEF Reset
  <2>2. streak' \in StreakType
    <3> DEFINE cut == streak.cut \/ AddingUp
    <3>1. cut \in BOOLEAN /\ streak.count + 1 \in Nat
      BY <1>0
    <3>2. streak' = [streak EXCEPT !.count = streak.count + 1, !.cut = cut]
      BY <1>11 DEF Reset
    <3> HIDE DEF cut
    <3> QED
      BY <1>0, <3>1, <3>2
  <2>3. eeprom' = Torn \/ eeprom' \in Stats
    BY <1>11 DEF Reset, TypeOK
  <2>4. resets' \in 0..MaxResets
    BY <1>11, DiagAssumption DEF Reset, TypeOK
  <2> QED
    BY <1>0, <1>11, <1>z, <2>1, <2>2, <2>3, <2>4 DEF Reset, TypeOK, Stages
<1>12. CASE UNCHANGED vars
  BY <1>12 DEF vars, TypeOK
<1> QED
  BY <1>1, <1>2, <1>3, <1>4, <1>5, <1>6, <1>7, <1>8, <1>9, <1>10, <1>11, <1>12 DEF Next

\* The context in RAM, the statistics and the ghosts are well typed: a counter
\* never leaves its field, and what is read back from EEPROM is a context.
THEOREM TypeCorrect == Spec => []TypeOK
<1> QED
  BY InitTypeOK, NextTypeOK, PTL DEF Spec

-----------------------------------------------------------------------------
(* The store of contexts and what the boot records in it *)

\* The statistics in EEPROM, and those on their way to it, have an end.
Ends ==
    /\ eeprom # Torn => HasEnd(eeprom.contexts)
    /\ image # Torn => HasEnd(image.contexts)

\* The last context of these statistics is that of this boot, if any is.
Last(stats) ==
    reason # Unknown =>
        ReadLast(stats.contexts, 0) \in {NoContext, [reason |-> reason, runtime |-> prev]}

Records ==
    /\ stage = "WRITE" => image # Torn /\ Last(image)
    /\ stage = "RUN" => eeprom # Torn /\ Last(eeprom)

LEMMA NotTorn == \A stats \in Stats : stats # Torn
BY TornAssumption

\* Reading the statistics yields a store with an end.
LEMMA ReadStatsEnd ==
    ASSUME Ends
    PROVE  HasEnd(ReadStats.contexts)
<1>1. CASE eeprom = Torn
  BY <1>1, ZeroTypes DEF ReadStats
<1>2. CASE eeprom # Torn
  BY <1>2 DEF ReadStats, Ends
<1> QED
  BY <1>1, <1>2

\* Clearing counters leaves the contexts alone.
LEMMA CountClearKeeps ==
    ASSUME TypeOK, NEW S, CountClear(S)
    PROVE  image'.contexts = eeprom.contexts /\ image' # Torn
<1> DEFINE cleared == [r \in Reasons |-> IF r \in S THEN 0 ELSE eeprom.counter[r]]
<1>1. eeprom \in Stats
  BY DEF CountClear, TypeOK
<1>2. image' = [eeprom EXCEPT !.counter = cleared]
  BY DEF CountClear
<1>3. cleared \in [Reasons -> Counters]
  BY <1>1, ValueTypes, StatsAre
<1> HIDE DEF cleared
<1>4. image' \in Stats /\ image'.contexts = eeprom.contexts
  BY <1>1, <1>2, <1>3, StatsAre
<1> QED
  BY <1>4, NotTorn

LEMMA NextEnds == TypeOK /\ Ends /\ [Next]_vars => Ends'
<1> SUFFICES ASSUME TypeOK, Ends, [Next]_vars PROVE Ends'
  OBVIOUS
<1>1. CASE ColdBoot \/ AddUptime \/ AddRun \/ ClearUptime \/ ContextUpdate \/ ContextClear
  BY <1>1 DEF ColdBoot, AddUptime, AddRun, ClearUptime, ContextUpdate, ContextClear, Ends
<1>2. CASE UpdateStats
  <2>1. HasEnd(Updated(ReadStats).contexts)
    BY ReadStatsType, ReadStatsEnd, UpdatedIs DEF TypeOK
  <2> QED
    BY <1>2, <2>1 DEF UpdateStats, Ends
<1>3. CASE WriteDone
  BY <1>3 DEF WriteDone, Ends
<1>4. CASE StatsClear
  BY <1>4, ZeroTypes DEF StatsClear, Ends
<1>5. ASSUME NEW S \in AttributeClears, CountClear(S)
      PROVE  Ends'
  <2>1. eeprom' = eeprom /\ eeprom # Torn
    BY <1>5 DEF CountClear
  <2> QED
    BY <1>5, <2>1, CountClearKeeps DEF Ends
<1>6. ASSUME NEW r \in Reasons, Reset(r)
      PROVE  Ends'
  <2>1. image' = Torn /\ eeprom' \in {eeprom, Torn, image}
    BY <1>6 DEF Reset
  <2> QED
    BY <2>1 DEF Ends
<1>7. CASE UNCHANGED vars
  BY <1>7 DEF vars, Ends
<1> QED
  BY <1>1, <1>2, <1>3, <1>4, <1>5, <1>6, <1>7 DEF Next

\* The store of contexts always has an end, so that a context is never saved
\* over a newer one, whatever resets interrupt its writes.
THEOREM StoreHasEndHolds == Spec => []StoreHasEnd
<1>1. Init => Ends
  BY DEF Init, Ends
<1>2. Ends => StoreHasEnd
  BY HasEndMeans DEF Ends, StoreHasEnd
<1> QED
  BY <1>1, <1>2, NextEnds, TypeCorrect, PTL DEF Spec

LEMMA NextRecords == TypeOK /\ Records /\ [Next]_vars => Records'
<1> SUFFICES ASSUME TypeOK, Records, [Next]_vars PROVE Records'
  OBVIOUS
<1>1. CASE ColdBoot \/ AddUptime \/ AddRun \/ ClearUptime
  BY <1>1 DEF ColdBoot, AddUptime, AddRun, ClearUptime, Records
<1>2. CASE UpdateStats
  <2>1. /\ Updated(ReadStats) \in Stats
        /\ reason # Unknown => ReadLast(Updated(ReadStats).contexts, 0)
                                 = [reason |-> reason, runtime |-> prev]
    BY ReadStatsType, UpdatedIs DEF TypeOK
  <2>2. stage' = "WRITE" /\ image' = Updated(ReadStats) /\ reason' = reason /\ prev' = prev
    BY <1>2 DEF UpdateStats
  <2>3. image' # Torn
    BY <2>1, <2>2, NotTorn
  <2> QED
    BY <2>1, <2>2, <2>3, Zenon DEF Records, Last
<1>3. CASE WriteDone
  BY <1>3 DEF WriteDone, Records, Last
<1>4. CASE ContextUpdate \/ ContextClear
  BY <1>4 DEF ContextUpdate, ContextClear, Records, Last
<1>5. CASE StatsClear
  <2>1. stage' = "WRITE" /\ image' = ZeroStats
    BY <1>5 DEF StatsClear
  <2>2. image' # Torn /\ ReadLast(image'.contexts, 0) = NoContext
    BY <2>1, ZeroTypes, NotTorn
  <2> QED
    BY <2>1, <2>2, Zenon DEF Records, Last
<1>6. ASSUME NEW S \in AttributeClears, CountClear(S)
      PROVE  Records'
  <2>1. /\ stage = "RUN" /\ stage' = "WRITE" /\ reason' = reason /\ prev' = prev
        /\ image'.contexts = eeprom.contexts /\ image' # Torn
    BY <1>6, CountClearKeeps DEF CountClear
  <2> QED
    BY <2>1, Zenon DEF Records, Last
<1>7. ASSUME NEW r \in Reasons, Reset(r)
      PROVE  Records'
  BY <1>7 DEF Reset, Records
<1>8. CASE UNCHANGED vars
  BY <1>8 DEF vars, Records, Last
<1> QED
  BY <1>1, <1>2, <1>3, <1>4, <1>5, <1>6, <1>7, <1>8 DEF Next

LEMMA RecordsAlways == Spec => []Records
<1>1. Init => Records
  BY DEF Init, Records
<1> QED
  BY <1>1, NextRecords, TypeCorrect, PTL DEF Spec

\* A board that runs reads back, as the last context, its own boot or none: a
\* reset in the middle of a write never leaves an older one in its place.
THEOREM BootRecordedHolds == Spec => []BootRecorded
<1>1. Records => BootRecorded
  BY Zenon DEF Records, Last, LastContext, BootRecorded
<1> QED
  BY <1>1, RecordsAlways, PTL

-----------------------------------------------------------------------------
(* The streak *)

\* What the context in RAM accounts for, of the uptime and of the runs, when the
\* boot has come to its stage. A context that was lost accounts for nothing.
Summed  == IF stage \in {"ADD_RUN", "CLEAR_UPTIME"} THEN ram.streak_uptime
           ELSE ram.streak_uptime + ram.uptime
Counted == IF stage \in {"ADD_UPTIME", "ADD_RUN"} THEN (ram.streak_count + 1) % Modulus
           ELSE ram.streak_count

Accounts ==
    \/ stage = "ADD_UPTIME" /\ ~ram.magic
    \/ /\ streak.uptime <= Summed
       /\ ~streak.cut => /\ Summed \in {streak.uptime, streak.uptime + streak.before}
                         /\ Counted = streak.count % Modulus

\* The context in RAM has the uptime of the run, as of the last turn, but from a
\* clear to the turn after it.
JustCleared ==
    /\ ram.uptime = 0 /\ ram.streak_uptime = 0
    /\ streak.uptime = 0 /\ streak.before = uptime

UptimeSeen ==
    IF AddingUp THEN uptime = 0 ELSE ram.uptime = uptime \/ JustCleared

LEMMA NextSeen == TypeOK /\ UptimeSeen /\ [Next]_vars => UptimeSeen'
<1> SUFFICES ASSUME TypeOK, UptimeSeen, [Next]_vars PROVE UptimeSeen'
  OBVIOUS
<1>0. ram \in RamType /\ streak \in StreakType
  BY DEF TypeOK, RamType, StreakType
<1>1. CASE ColdBoot
  BY <1>1 DEF ColdBoot, UptimeSeen, AddingUp, ZeroRam
<1>2. CASE AddUptime \/ AddRun
  BY <1>2 DEF AddUptime, AddRun, UptimeSeen, AddingUp
<1>3. CASE ClearUptime
  <2>1. ram'.uptime = 0
    BY <1>0, <1>3 DEF ClearUptime, RamType
  <2> QED
    BY <1>3, <2>1 DEF ClearUptime, UptimeSeen, AddingUp
<1>4. ASSUME \/ UpdateStats \/ WriteDone \/ StatsClear
             \/ \E S \in AttributeClears : CountClear(S)
      PROVE  UptimeSeen'
  BY <1>4 DEF UpdateStats, WriteDone, StatsClear, CountClear, UptimeSeen, AddingUp,
              JustCleared
<1>5. CASE ContextUpdate
  <2>1. PICK now \in uptime..MaxUptime :
             uptime' = now /\ ram' = [ram EXCEPT !.uptime = now, !.magic = TRUE]
    BY <1>5 DEF ContextUpdate
  <2>2. ram'.uptime = uptime'
    BY <1>0, <2>1 DEF RamType
  <2> QED
    BY <1>5, <2>2 DEF ContextUpdate, UptimeSeen, AddingUp
<1>6. CASE ContextClear
  <2>1. /\ ram' = ZeroRam /\ uptime' = uptime /\ stage' = stage /\ stage = "RUN"
        /\ streak' = [NewStreak EXCEPT !.before = uptime]
    BY <1>6 DEF ContextClear
  <2>2. streak'.uptime = 0 /\ streak'.before = uptime
    BY <2>1 DEF NewStreak
  <2>3. ram'.uptime = 0 /\ ram'.streak_uptime = 0
    BY <2>1 DEF ZeroRam
  <2> QED
    BY <2>1, <2>2, <2>3 DEF UptimeSeen, AddingUp, JustCleared
<1>7. ASSUME NEW r \in Reasons, Reset(r)
      PROVE  UptimeSeen'
  BY <1>7 DEF Reset, UptimeSeen, AddingUp
<1>8. CASE UNCHANGED vars
  BY <1>8 DEF vars, UptimeSeen, AddingUp, JustCleared
<1> QED
  BY <1>1, <1>2, <1>3, <1>4, <1>5, <1>6, <1>7, <1>8 DEF Next

LEMMA Modular ==
    /\ \A n \in Nat : ((n % Modulus) + 1) % Modulus = (n + 1) % Modulus
    /\ 0 % Modulus = 0
<1>1. Modulus \in Nat /\ Modulus > 0
  BY DiagAssumption
<1>2. ASSUME NEW n \in Nat
      PROVE  ((n % Modulus) + 1) % Modulus = (n + 1) % Modulus
  <2> DEFINE q == n \div Modulus
             r == n % Modulus
  <2>1. q \in Int /\ r \in 0..Modulus - 1 /\ n = Modulus * q + r
    BY <1>1, SMT
  <2> HIDE DEF q, r
  <2>2. CASE r + 1 < Modulus
    <3>1. n + 1 = Modulus * q + (r + 1) /\ r + 1 \in 0..Modulus - 1
      BY <1>1, <2>1, <2>2, SMT
    <3>2. (n + 1) % Modulus = r + 1
      BY <1>1, <2>1, <3>1, SMT
    <3>3. (r + 1) % Modulus = r + 1
      BY <1>1, <3>1, SMT
    <3> QED
      BY <3>2, <3>3 DEF r
  <2>3. CASE r + 1 = Modulus
    <3>1. n + 1 = Modulus * (q + 1)
      BY <1>1, <2>1, <2>3, SMT
    <3>2. (n + 1) % Modulus = 0
      BY <1>1, <2>1, <3>1, SMT
    <3>3. (r + 1) % Modulus = 0
      BY <1>1, <2>3, SMT
    <3> QED
      BY <3>2, <3>3 DEF r
  <2> QED
    BY <1>1, <2>1, <2>2, <2>3, SMT
<1> QED
  BY <1>1, <1>2

LEMMA NextAccounts == TypeOK /\ UptimeSeen /\ Accounts /\ [Next]_vars => Accounts'
<1> SUFFICES ASSUME TypeOK, UptimeSeen, Accounts, [Next]_vars PROVE Accounts'
  OBVIOUS
<1>0. /\ ram \in RamType /\ streak \in StreakType
      /\ ram.uptime \in Nat /\ ram.streak_uptime \in Nat /\ ram.streak_count \in Counters
      /\ streak.uptime \in Nat /\ streak.before \in Nat /\ streak.count \in Nat
      /\ uptime \in Nat
  BY ValueTypes DEF TypeOK, RamType, StreakType
<1>1. CASE ColdBoot \/ ContextClear
  <2>1. /\ ram' = ZeroRam /\ stage' \in {"UPDATE_STATS", "RUN"}
        /\ streak' = NewStreak \/ streak' = [NewStreak EXCEPT !.before = uptime]
    BY <1>1 DEF ColdBoot, ContextClear
  <2>2. streak'.uptime = 0 /\ streak'.count = 0
    BY <2>1 DEF NewStreak
  <2>3. Summed' = 0 /\ Counted' = 0
    BY <2>1 DEF Summed, Counted, ZeroRam
  <2> QED
    BY <2>2, <2>3, Modular DEF Accounts
<1>2. CASE AddUptime
  <2>1. /\ ram' = [ram EXCEPT !.streak_uptime = ram.streak_uptime + ram.uptime]
        /\ stage = "ADD_UPTIME" /\ ram.magic /\ stage' = "ADD_RUN" /\ streak' = streak
    BY <1>2 DEF AddUptime
  <2>2. /\ ram'.streak_uptime = ram.streak_uptime + ram.uptime
        /\ ram'.streak_count = ram.streak_count
    BY <1>0, <2>1 DEF RamType
  <2>3. Summed' = Summed /\ Counted' = Counted
    BY <2>1, <2>2 DEF Summed, Counted
  <2> QED
    BY <2>1, <2>3 DEF Accounts
<1>3. CASE AddRun
  <2>1. /\ ram' = [ram EXCEPT !.streak_count = (ram.streak_count + 1) % Modulus]
        /\ stage = "ADD_RUN" /\ stage' = "CLEAR_UPTIME" /\ streak' = streak
    BY <1>3 DEF AddRun
  <2>2. /\ ram'.streak_uptime = ram.streak_uptime
        /\ ram'.streak_count = (ram.streak_count + 1) % Modulus
    BY <1>0, <2>1 DEF RamType
  <2>3. Summed' = Summed /\ Counted' = Counted
    BY <2>1, <2>2 DEF Summed, Counted
  <2> QED
    BY <2>1, <2>3 DEF Accounts
<1>4. CASE ClearUptime
  <2>1. /\ ram' = [ram EXCEPT !.uptime = 0]
        /\ stage = "CLEAR_UPTIME" /\ stage' = "UPDATE_STATS" /\ streak' = streak
    BY <1>4 DEF ClearUptime
  <2>2. /\ ram'.streak_uptime = ram.streak_uptime /\ ram'.uptime = 0
        /\ ram'.streak_count = ram.streak_count
    BY <1>0, <2>1 DEF RamType
  <2>3. Summed' = Summed /\ Counted' = Counted
    BY <1>0, <2>1, <2>2 DEF Summed, Counted
  <2> QED
    BY <2>1, <2>3 DEF Accounts
<1>5. ASSUME \/ UpdateStats \/ WriteDone \/ StatsClear
             \/ \E S \in AttributeClears : CountClear(S)
      PROVE  Accounts'
  <2>1. /\ stage \in {"UPDATE_STATS", "WRITE", "RUN"} /\ stage' \in {"WRITE", "RUN"}
        /\ ram' = ram /\ streak' = streak
    BY <1>5 DEF UpdateStats, WriteDone, StatsClear, CountClear
  <2>2. Summed' = Summed /\ Counted' = Counted
    BY <2>1 DEF Summed, Counted
  <2> QED
    BY <2>1, <2>2 DEF Accounts
<1>6. CASE ContextUpdate
  <2>1. PICK now \in uptime..MaxUptime :
             /\ ram' = [ram EXCEPT !.uptime = now, !.magic = TRUE]
             /\ streak' = [streak EXCEPT !.uptime = streak.uptime + (now - uptime)]
    BY <1>6 DEF ContextUpdate
  <2>2. now \in Nat /\ uptime <= now
    BY <1>0, DiagAssumption
  <2>3. stage = "RUN" /\ stage' = "RUN" /\ ~AddingUp
    BY <1>6 DEF ContextUpdate, AddingUp
  <2>4. /\ ram'.uptime = now /\ ram'.streak_uptime = ram.streak_uptime
        /\ ram'.streak_count = ram.streak_count
    BY <1>0, <2>1 DEF RamType
  <2>5. /\ streak'.uptime = streak.uptime + (now - uptime)
        /\ streak'.before = streak.before
        /\ streak'.count = streak.count /\ streak'.cut = streak.cut
    BY <1>0, <2>1 DEF StreakType
  <2>6. /\ Summed = ram.streak_uptime + ram.uptime /\ Counted = ram.streak_count
        /\ Summed' = ram.streak_uptime + now /\ Counted' = Counted
    BY <2>3, <2>4 DEF Summed, Counted
  <2>7. /\ streak.uptime <= Summed
        /\ ~streak.cut => /\ Summed \in {streak.uptime, streak.uptime + streak.before}
                          /\ Counted = streak.count % Modulus
    BY <2>3 DEF Accounts
  <2>8. ram.uptime = uptime \/ JustCleared
    BY <2>3 DEF UptimeSeen
  <2> HIDE DEF Summed, Counted
  <2>9. /\ streak'.uptime <= Summed'
        /\ ~streak.cut => Summed' \in {streak'.uptime, streak'.uptime + streak'.before}
    <3>1. CASE ram.uptime = uptime
      <4>1. Summed' = Summed + (now - uptime)
        BY <1>0, <2>2, <2>6, <3>1
      <4>2. Summed \in Nat
        BY <1>0, <2>6
      <4> QED
        BY <1>0, <2>2, <2>5, <2>7, <4>1, <4>2
    <3>2. CASE JustCleared
      <4>1. /\ Summed' = now /\ streak'.uptime = now - uptime
            /\ streak'.uptime + streak'.before = now
        BY <1>0, <2>2, <2>5, <2>6, <3>2 DEF JustCleared
      <4> QED
        BY <1>0, <2>2, <4>1
    <3> QED
      BY <2>8, <3>1, <3>2
  <2> QED
    BY <2>5, <2>6, <2>7, <2>9 DEF Accounts
<1>7. ASSUME NEW r \in Reasons, Reset(r)
      PROVE  Accounts'
  <2> DEFINE cut == streak.cut \/ AddingUp
  <2>1. /\ stage' = "ADD_UPTIME"
        /\ streak' = [streak EXCEPT !.count = streak.count + 1, !.cut = cut]
        /\ ram' = ram \/ ram' = LostRam
    BY <1>7 DEF Reset
  <2>2. CASE ram' = LostRam
    <3>1. ~ram'.magic
      BY <2>2 DEF LostRam, ZeroRam
    <3> QED
      BY <2>1, <3>1 DEF Accounts
  <2>3. CASE ram' = ram /\ ram.magic
    <3>1. /\ streak.uptime <= Summed
          /\ ~streak.cut =>
               /\ Summed \in {streak.uptime, streak.uptime + streak.before}
               /\ Counted = streak.count % Modulus
      BY <2>3 DEF Accounts
    <3>2. /\ streak'.uptime = streak.uptime /\ streak'.before = streak.before
          /\ streak'.count = streak.count + 1
          /\ ~streak'.cut => ~streak.cut /\ ~AddingUp
      <4>1. ~cut => ~streak.cut /\ ~AddingUp
        OBVIOUS
      <4> HIDE DEF cut
      <4>2. streak' = [streak EXCEPT !.count = streak.count + 1, !.cut = cut]
        BY <2>1
      <4> QED
        BY <1>0, <4>1, <4>2 DEF StreakType
    <3>3. Summed' = ram.streak_uptime + ram.uptime /\ Summed <= Summed' /\ Summed \in Nat
      BY <1>0, <2>1, <2>3 DEF Summed
    <3>4. Counted' = (ram.streak_count + 1) % Modulus
      BY <2>1, <2>3 DEF Counted
    <3>5. ASSUME ~streak'.cut
          PROVE  /\ Summed' \in {streak'.uptime, streak'.uptime + streak'.before}
                 /\ Counted' = streak'.count % Modulus
      <4>1. Summed' = Summed /\ Counted = ram.streak_count
        BY <3>2, <3>3, <3>5 DEF Summed, Counted, AddingUp
      <4>2. ram.streak_count = streak.count % Modulus
        BY <3>1, <3>2, <3>5, <4>1
      <4>3. ((streak.count % Modulus) + 1) % Modulus = (streak.count + 1) % Modulus
        BY <1>0, Modular
      <4> QED
        BY <3>1, <3>2, <3>4, <3>5, <4>1, <4>2, <4>3
    <3>6. streak'.uptime <= Summed'
      BY <1>0, <3>1, <3>2, <3>3
    <3> QED
      BY <3>5, <3>6 DEF Accounts
  <2>4. CASE ram' = ram /\ ~ram.magic
    BY <2>1, <2>4 DEF Accounts
  <2> QED
    BY <2>1, <2>2, <2>3, <2>4
<1>8. CASE UNCHANGED vars
  BY <1>8 DEF vars, Accounts, Summed, Counted
<1> QED
  BY <1>1, <1>2, <1>3, <1>4, <1>5, <1>6, <1>7, <1>8 DEF Next

LEMMA AccountsAlways == Spec => []Accounts
<1>1. Init => Accounts /\ UptimeSeen
  BY DEF Init, Accounts, UptimeSeen, AddingUp, LostRam, ZeroRam
<1>2. TypeOK /\ UptimeSeen /\ Accounts /\ [Next]_vars => UptimeSeen' /\ Accounts'
  BY NextSeen, NextAccounts
<1> QED
  BY <1>1, <1>2, TypeCorrect, PTL DEF Spec

\* If no boot was reset while it added up, the streak accounts for every run and
\* all its uptime since RAM was lost or cleared: that, or that and what the run of
\* the clear had lasted before it (diag.c:74-78 writes the whole run's uptime back).
THEOREM StreakExactHolds == Spec => []StreakExact
<1>1. Accounts => StreakExact
  BY DEF Accounts, Summed, Counted, AddingUp, StreakExact, StreakUptime
<1> QED
  BY <1>1, AccountsAlways, PTL

\* Whatever boots were reset, and wherever the context was cleared, no uptime since
\* is left out of the streak.
THEOREM StreakNeverShortHolds == Spec => []StreakNeverShort
<1>1. Accounts => StreakNeverShort
  BY DEF Accounts, Summed, AddingUp, StreakNeverShort, StreakUptime
<1> QED
  BY <1>1, AccountsAlways, PTL

\* Both at once: the streak counts every run, too much at most, and no more than
\* the start of the run of a clear if no boot was reset while it added up.
THEOREM StreakRightHolds == Spec => []StreakRight
  BY StreakExactHolds, StreakNeverShortHolds, PTL DEF StreakRight

-----------------------------------------------------------------------------
(* The log that is read back *)

\* Of the slots after the end of a store, all hold a context or none does.
Shape(contexts) ==
    \A j, k \in Ring : j > Terminator(contexts) /\ k > Terminator(contexts) =>
        (contexts[j].reason = Unknown <=> contexts[k].reason = Unknown)

Store == {contexts \in Contexts : HasEnd(contexts) /\ Shape(contexts)}

\* The store was filled once, and how many contexts it holds.
Wrapped(contexts) ==
    \E j \in Ring : j > Terminator(contexts) /\ contexts[j].reason # Unknown

Held(contexts) == IF Wrapped(contexts) THEN Slots - 1 ELSE Terminator(contexts)

\* The slot of the context saved some contexts before the last one.
Back(end, ago) == IF ago < end THEN end - 1 - ago ELSE end - 1 - ago + Slots

LEMMA BackIs ==
    ASSUME NEW end \in Ring, NEW ago \in Ring, ago + 1 < Slots
    PROVE  /\ (end - 1 + Slots - ago) % Slots = Back(end, ago)
           /\ Back(end, ago) \in Ring
           /\ ago < end => Back(end, ago) < end
           /\ ~(ago < end) => Back(end, ago) > end
<1>1. /\ Slots \in Nat /\ end \in Nat /\ ago \in Nat /\ end < Slots
  BY Indices
<1>2. \A i \in Int : 0 <= i /\ i < Slots => i \in Ring
  BY <1>1 DEF Ring
<1>3. CASE ago < end
  <2> DEFINE i == end - 1 - ago
  <2>1. i \in Ring /\ i < end
    BY <1>1, <1>2, <1>3
  <2>2. end - 1 + Slots - ago = i + Slots
    BY <1>1
  <2>3. Back(end, ago) = i
    BY <1>3 DEF Back
  <2> HIDE DEF i
  <2> QED
    BY <1>3, <2>1, <2>2, <2>3, Indices
<1>4. CASE ~(ago < end)
  <2> DEFINE i == end - 1 - ago + Slots
  <2>1. i \in Ring /\ i > end
    BY <1>1, <1>2, <1>4
  <2>2. end - 1 + Slots - ago = i
    BY <1>1
  <2>3. Back(end, ago) = i
    BY <1>4 DEF Back
  <2> HIDE DEF i
  <2> QED
    BY <1>4, <2>1, <2>2, <2>3, Indices
<1> QED
  BY <1>3, <1>4

LEMMA StoreEnd ==
    ASSUME NEW contexts \in Store
    PROVE  /\ contexts \in Contexts
           /\ Terminator(contexts) \in Ring
           /\ FreeSlot(contexts) = Terminator(contexts)
           /\ Held(contexts) \in Ring
           /\ Terminator(contexts) <= Held(contexts)
<1>1. contexts \in Contexts /\ HasEnd(contexts)
  BY DEF Store
<1>2. Terminator(contexts) \in Ring
  BY <1>1, HasEndMeans, TerminatorIs, Indices
<1>3. Terminator(contexts) # Slots
  BY <1>2, Indices
<1>4. Held(contexts) \in Ring /\ Terminator(contexts) <= Held(contexts)
  <2> DEFINE end == Terminator(contexts)
  <2>1. end \in Nat /\ end < Slots /\ Slots \in Nat /\ Slots - 1 \in Ring
    BY <1>2, Indices
  <2>2. Held(contexts) = IF Wrapped(contexts) THEN Slots - 1 ELSE end
    BY DEF Held
  <2> HIDE DEF end
  <2>3. end <= Slots - 1 /\ end <= end
    BY <2>1
  <2>4. Held(contexts) \in Ring /\ end <= Held(contexts)
    BY <1>2, <2>1, <2>2, <2>3, Zenon DEF end
  <2> QED
    BY <2>4 DEF end
<1> QED
  BY <1>1, <1>2, <1>3, <1>4 DEF FreeSlot

\* What is read back of each age: the contexts held, from the end backwards.
LEMMA ReadLastIs ==
    ASSUME NEW contexts \in Store, NEW ago \in Ring
    PROVE  /\ ago < Held(contexts) =>
                /\ ReadLast(contexts, ago) = contexts[Back(Terminator(contexts), ago)]
                /\ ReadLast(contexts, ago) # NoContext
                /\ ReadLast(contexts, ago) \in Context
           /\ ~(ago < Held(contexts)) => ReadLast(contexts, ago) = NoContext
<1> DEFINE end   == Terminator(contexts)
           held  == Held(contexts)
           index == Back(end, ago)
           known == contexts[index].reason # Unknown
<1>1. contexts \in Contexts /\ end \in Ring /\ held \in Ring /\ end <= held /\ Shape(contexts)
  BY StoreEnd DEF Store
<1>2. ago \in Nat /\ held \in Nat /\ end \in Nat /\ held < Slots /\ Slots \in Nat
  BY <1>1, Indices
<1>3. CASE ago + 1 >= Slots
  <2>1. ReadLast(contexts, ago) = NoContext
    BY <1>3 DEF ReadLast
  <2>2. ~(ago < held)
    BY <1>2, <1>3
  <2> QED
    BY <2>1, <2>2
<1>4. CASE ago + 1 < Slots
  <2>1. /\ (end - 1 + Slots - ago) % Slots = index
        /\ index \in Ring
        /\ ago < end => index < end
        /\ ~(ago < end) => index > end
    BY <1>1, <1>4, BackIs
  <2>2. ReadLast(contexts, ago) = IF known THEN contexts[index] ELSE NoContext
    <3>1. ~(ago + 1 >= Slots)
      BY <1>2, <1>4
    <3> QED
      BY <2>1, <3>1, Zenon DEF ReadLast
  <2>3. known <=> ago < held
    <3>1. CASE ago < end
      <4>1. ~(end <= index)
        BY <1>1, <2>1, <3>1, Indices
      <4>2. known
        BY <2>1, <4>1, TerminatorIs
      <4>3. ago < held
        BY <1>1, <1>2, <3>1
      <4> QED
        BY <4>2, <4>3
    <3>2. CASE ~(ago < end)
      <4>1. index > end /\ index \in Ring
        BY <2>1, <3>2
      <4>2. known <=> Wrapped(contexts)
        BY <1>1, <4>1 DEF Wrapped, Shape
      <4>3. held = IF Wrapped(contexts) THEN Slots - 1 ELSE end
        BY DEF Held
      <4>4. Wrapped(contexts) => ago < held
        BY <1>2, <1>4, <4>3
      <4>5. ~Wrapped(contexts) => ~(ago < held)
        BY <3>2, <4>3
      <4> QED
        BY <4>2, <4>4, <4>5
    <3> QED
      BY <3>1, <3>2
  <2>4. contexts[index] \in Context
    BY <1>1, <2>1 DEF Contexts
  <2>5. known => contexts[index] # NoContext
    BY DEF NoContext
  <2> QED
    BY <2>2, <2>3, <2>4, <2>5
<1> QED
  BY <1>2, <1>3, <1>4

LEMMA LogIs ==
    ASSUME NEW contexts \in Store
    PROVE  /\ LogOf(contexts) = [i \in 1..Held(contexts) |-> ReadLast(contexts, i - 1)]
           /\ LogOf(contexts) \in Seq(Context)
           /\ Len(LogOf(contexts)) = Held(contexts)
<1> DEFINE held == Held(contexts)
           last == held - 1
           n    == Cardinality({ago \in Ages : ReadLast(contexts, ago) # NoContext})
           log  == [i \in 1..held |-> ReadLast(contexts, i - 1)]
<1>1. held \in Ring /\ held \in Nat /\ held < Slots /\ last \in Int
  BY StoreEnd, Indices
<1>2. \A ago : ago \in Ages /\ ReadLast(contexts, ago) # NoContext <=> ago \in 0..last
  <2>1. Ages = Ring
    BY DEF Ages, Ring
  <2>2. \A ago \in Ring : ReadLast(contexts, ago) # NoContext <=> ago < held
    BY ReadLastIs
  <2>3. \A ago : ago \in Ring /\ ago < held <=> ago \in 0..last
    <3> HIDE DEF held
    <3> QED
      BY <1>1, Indices DEF Ring
  <2> HIDE DEF last, held
  <2> QED
    BY <2>1, <2>2, <2>3, Zenon
<1>3. n = held
  <2>1. {ago \in Ages : ReadLast(contexts, ago) # NoContext} = 0..last
    <3> HIDE DEF last
    <3> QED
      BY <1>2, Zenon
  <2>2. 0 \in Int /\ (IF 0 > last THEN 0 ELSE last - 0 + 1) = held
    BY <1>1
  <2> HIDE DEF last, held
  <2>3. Cardinality(0..last) = IF 0 > last THEN 0 ELSE last - 0 + 1
    BY <1>1, <2>2, FS_Interval
  <2> QED
    BY <2>1, <2>2, <2>3
<1>4. LogOf(contexts) = log
  <2>1. LogOf(contexts) = [i \in 1..n |-> ReadLast(contexts, i - 1)]
    BY DEF LogOf
  <2> HIDE DEF n, held
  <2> QED
    BY <1>3, <2>1
<1>5. log \in [1..held -> Context]
  <2>1. ASSUME NEW i \in 1..held PROVE ReadLast(contexts, i - 1) \in Context
    <3>1. i - 1 \in Ring /\ i - 1 < held
      <4> HIDE DEF held
      <4> QED
        BY <1>1, Indices DEF Ring
    <3> QED
      BY <3>1, ReadLastIs
  <2> HIDE DEF held
  <2> QED
    BY <2>1
<1> HIDE DEF held, log
<1>6. log \in Seq(Context)
  BY <1>1, <1>5, SeqDef
<1>7. DOMAIN log = 1..held
  BY <1>5
<1>8. Len(log) = held
  BY <1>1, <1>6, <1>7, LenProperties
<1> QED
  BY <1>4, <1>6, <1>8 DEF log, held

\* A context that is saved comes before those the store held, of which the oldest
\* may go.
LEMMA SaveStores ==
    ASSUME NEW contexts \in Store, NEW context \in Context, context.reason # Unknown,
           NEW saved, saved = ContextSave(contexts, context)
    PROVE  /\ saved \in Store
           /\ Held(saved) = IF Held(contexts) + 1 < Slots THEN Held(contexts) + 1
                            ELSE Slots - 1
           /\ Terminator(saved) = (Terminator(contexts) + 1) % Slots
           /\ saved[Terminator(contexts)] = context
           /\ \A j \in Ring : j # Terminator(contexts) /\ j # Terminator(saved) =>
                saved[j] = contexts[j]
<1> DEFINE end   == Terminator(contexts)
           after == Terminator(saved)
<1>1. /\ contexts \in Contexts /\ end \in Ring /\ FreeSlot(contexts) = end
      /\ SlotAfter(contexts) = (end + 1) % Slots
      /\ Shape(contexts)
  BY StoreEnd DEF SlotAfter, Store
<1>2. /\ saved \in Contexts
      /\ saved[end] = context
      /\ saved[after].reason = Unknown
      /\ \A j \in Ring : j # end /\ j # after => saved[j] = contexts[j]
      /\ after = (end + 1) % Slots
      /\ after \in Ring
  BY <1>1, SavedSlots
<1>3. after = IF end + 1 = Slots THEN 0 ELSE end + 1
  BY <1>1, <1>2, Indices
<1>4. HasEnd(saved)
  BY <1>2 DEF HasEnd
<1>5. /\ Slots \in Nat /\ Slots > 1 /\ end \in Nat /\ end < Slots
      /\ \A j \in Ring : j \in Nat /\ j < Slots
  BY <1>1, Indices
<1>6. CASE end + 1 = Slots
  <2>1. after = 0
    BY <1>3, <1>6
  <2>2. ASSUME NEW j \in Ring, j > after PROVE saved[j].reason # Unknown
    <3>1. CASE j = end
      BY <1>2, <3>1
    <3>2. CASE j # end
      <4>1. j # after /\ ~(end <= j)
        BY <1>5, <1>6, <2>1, <2>2, <3>2
      <4>2. contexts[j].reason # Unknown
        BY <4>1, TerminatorIs
      <4> QED
        BY <1>2, <3>2, <4>1, <4>2
    <3> QED
      BY <3>1, <3>2
  <2>3. Shape(saved)
    BY <2>2 DEF Shape
  <2>4. Wrapped(saved)
    <3>1. end > after
      BY <1>5, <1>6, <2>1
    <3> QED
      BY <1>1, <2>2, <3>1 DEF Wrapped
  <2>5. Held(saved) = Slots - 1
    BY <2>4 DEF Held
  <2>6. Held(contexts) = Slots - 1
    BY <1>5, <1>6 DEF Held
  <2>7. ~(Held(contexts) + 1 < Slots)
    BY <1>5, <2>6
  <2> QED
    BY <1>2, <1>4, <2>3, <2>5, <2>7 DEF Store
<1>7. CASE end + 1 # Slots
  <2>1. after = end + 1
    BY <1>3, <1>7
  <2>2. ASSUME NEW j \in Ring, j > after PROVE j > end /\ saved[j] = contexts[j]
    <3>1. j > end /\ j # end /\ j # after
      BY <1>5, <2>1, <2>2
    <3> QED
      BY <1>2, <3>1
  <2>3. Shape(saved)
    BY <1>1, <2>2 DEF Shape
  <2>4. CASE Wrapped(contexts)
    <3>1. Held(contexts) = Slots - 1 /\ ~(Held(contexts) + 1 < Slots)
      BY <1>5, <2>4 DEF Held
    <3>2. Held(saved) = Slots - 1
      <4>1. CASE Wrapped(saved)
        BY <4>1 DEF Held
      <4>2. CASE ~Wrapped(saved)
        <5>1. after = Slots - 1
          <6>1. ASSUME after # Slots - 1 PROVE FALSE
            <7>1. Slots - 1 \in Ring /\ Slots - 1 > after
              <8>1. Slots - 1 \in Ring
                BY Indices
              <8>2. end + 1 < Slots
                BY <1>5, <1>7
              <8> HIDE DEF end, after
              <8> QED
                BY <1>5, <2>1, <6>1, <8>1, <8>2
            <7>2. PICK j \in Ring : j > end /\ contexts[j].reason # Unknown
              BY <2>4 DEF Wrapped
            <7>3. Slots - 1 > end
              BY <1>5, <2>1, <7>1
            <7>4. contexts[Slots - 1].reason # Unknown
              BY <1>1, <7>1, <7>2, <7>3 DEF Shape
            <7>5. saved[Slots - 1].reason # Unknown
              BY <2>2, <7>1, <7>4
            <7> QED
              BY <4>2, <7>1, <7>5 DEF Wrapped
          <6> QED
            BY <6>1
        <5> QED
          BY <4>2, <5>1 DEF Held
      <4> QED
        BY <4>1, <4>2
    <3> QED
      BY <1>2, <1>4, <2>3, <3>1, <3>2 DEF Store
  <2>5. CASE ~Wrapped(contexts)
    <3>1. Held(contexts) = end
      BY <2>5 DEF Held
    <3>2. ~Wrapped(saved)
      BY <2>2, <2>5 DEF Wrapped
    <3>3. Held(saved) = end + 1
      BY <2>1, <3>2 DEF Held
    <3>4. end + 1 < Slots
      BY <1>5, <1>7
    <3> QED
      BY <1>2, <1>4, <2>3, <3>1, <3>3, <3>4 DEF Store
  <2> QED
    BY <2>4, <2>5
<1> QED
  BY <1>6, <1>7

LEMMA SaveReads ==
    ASSUME NEW contexts \in Store, NEW context \in Context, context.reason # Unknown,
           NEW saved, saved = ContextSave(contexts, context),
           NEW i \in 1..Held(saved)
    PROVE  ReadLast(saved, i - 1) = IF i = 1 THEN context ELSE ReadLast(contexts, i - 2)
<1> DEFINE end   == Terminator(contexts)
           after == Terminator(saved)
           held  == Held(contexts)
           ago   == i - 2
<1>1. /\ saved \in Store
      /\ Held(saved) = IF held + 1 < Slots THEN held + 1 ELSE Slots - 1
      /\ after = (end + 1) % Slots
      /\ \A j \in Ring : j # end /\ j # after => saved[j] = contexts[j]
  BY SaveStores
<1>2. end \in Ring /\ held \in Ring /\ after \in Ring /\ Held(saved) \in Ring
  BY <1>1, StoreEnd
<1>3. /\ Slots \in Nat /\ end \in Nat /\ held \in Nat /\ held < Slots /\ end < Slots
      /\ after = IF end + 1 = Slots THEN 0 ELSE end + 1
      /\ Held(saved) \in Nat /\ Held(saved) <= held + 1 /\ Held(saved) < Slots
  <2>1. after = IF end + 1 = Slots THEN 0 ELSE end + 1
    BY <1>1, <1>2, Indices
  <2>2. /\ Slots \in Nat /\ end \in Nat /\ held \in Nat /\ held < Slots /\ end < Slots
        /\ Held(saved) \in Nat /\ Held(saved) < Slots
    BY <1>2, Indices
  <2> HIDE DEF held, end, after
  <2>3. Held(saved) <= held + 1
    BY <1>1, <2>2
  <2> QED
    BY <2>1, <2>2, <2>3
<1>4. CASE i = 1
  <2>1. ReadLast(saved, 0) = context
    BY ContextSaved DEF Store
  <2> QED
    BY <1>4, <2>1
<1>5. CASE i # 1
  <2>1. /\ i \in Int /\ i - 1 \in Ring /\ ago \in Ring
        /\ ago + 1 < Slots /\ (i - 1) + 1 < Slots
        /\ i - 1 < Held(saved) /\ ago < held /\ i - 1 = ago + 1
    <3> HIDE DEF held, end, after
    <3> QED
      BY <1>3, <1>5 DEF Ring
  <2>2. ReadLast(saved, i - 1) = saved[Back(after, i - 1)]
    BY <1>1, <2>1, ReadLastIs
  <2>3. ReadLast(contexts, ago) = contexts[Back(end, ago)]
    BY <2>1, ReadLastIs
  <2>4. /\ Back(after, i - 1) = Back(end, ago)
        /\ Back(end, ago) # end /\ Back(end, ago) # after
        /\ Back(end, ago) \in Ring
    <3>1. Back(end, ago) \in Ring
      BY <1>2, <2>1, BackIs
    <3>2. /\ ago \in Nat
          /\ Back(end, ago) = IF ago < end THEN end - 1 - ago ELSE end - 1 - ago + Slots
      BY <2>1, Indices DEF Back
    <3>3. Back(after, i - 1) = IF i - 1 < after THEN after - 1 - (i - 1)
                               ELSE after - 1 - (i - 1) + Slots
      BY DEF Back
    <3> HIDE DEF end, after, ago
    <3>4. Back(after, i - 1) = Back(end, ago)
      BY <1>3, <2>1, <3>2, <3>3
    <3>5. Back(end, ago) # end /\ Back(end, ago) # after
      BY <1>3, <2>1, <3>2
    <3> QED
      BY <3>1, <3>4, <3>5
  <2> HIDE DEF end, after, held
  <2> QED
    BY <1>1, <1>5, <2>2, <2>3, <2>4
<1> QED
  BY <1>4, <1>5

LEMMA SaveLog ==
    ASSUME NEW contexts \in Store, NEW context \in Context, context.reason # Unknown,
           NEW saved, saved = ContextSave(contexts, context)
    PROVE  /\ LogOf(saved) # <<>>
           /\ Head(LogOf(saved)) = context
           /\ LogOf(saved) = Log!Kept(<<context>> \o LogOf(contexts))
<1> DEFINE old  == LogOf(contexts)
           new  == LogOf(saved)
           one  == <<context>>
           both == one \o old
           held == Held(contexts)
           n    == Held(saved)
<1>1. saved \in Store /\ n = IF held + 1 < Slots THEN held + 1 ELSE Slots - 1
  BY SaveStores
<1>2. /\ Slots \in Nat /\ Slots > 1 /\ held \in Nat /\ held < Slots
      /\ n \in Nat /\ n >= 1 /\ n <= held + 1
      /\ n = IF held + 1 < Slots - 1 THEN held + 1 ELSE Slots - 1
  <2>1. held \in Ring
    BY StoreEnd
  <2>2. Slots \in Nat /\ Slots > 1 /\ held \in Nat /\ held < Slots
    BY <2>1, Indices
  <2> HIDE DEF held, n
  <2> QED
    BY <1>1, <2>2
<1>3. /\ old \in Seq(Context) /\ Len(old) = held
      /\ old = [i \in 1..held |-> ReadLast(contexts, i - 1)]
  BY LogIs
<1>4. /\ new \in Seq(Context) /\ Len(new) = n
      /\ new = [i \in 1..n |-> ReadLast(saved, i - 1)]
  BY <1>1, LogIs
<1>5. \A i \in 1..n : ReadLast(saved, i - 1) =
                        IF i = 1 THEN context ELSE ReadLast(contexts, i - 2)
  BY SaveReads
<1> HIDE DEF old, new, held, n
<1>6. one \in Seq(Context) /\ Len(one) = 1 /\ one[1] = context
  OBVIOUS
<1> HIDE DEF one
<1>7. /\ both \in Seq(Context) /\ Len(both) = 1 + held
      /\ \A i \in 1..1 + held : both[i] = IF i <= 1 THEN one[i] ELSE old[i - 1]
  <2>1. one \in Seq(Context) /\ old \in Seq(Context)
    BY <1>3, <1>6
  <2>2. /\ both \in Seq(Context) /\ Len(both) = Len(one) + Len(old)
        /\ \A i \in 1..Len(one) + Len(old) :
             both[i] = IF i <= Len(one) THEN one[i] ELSE old[i - Len(one)]
    BY ONLY <2>1, ConcatProperties DEF both
  <2>3. Len(one) = 1 /\ Len(old) = held
    BY <1>3, <1>6
  <2> HIDE DEF both
  <2> QED
    BY ONLY <2>2, <2>3
<1> HIDE DEF both
<1>8. ASSUME NEW i \in 1..n PROVE both[i] = new[i] /\ both[i] \in Context
  <2>1. i \in 1..1 + held /\ i \in 1..Len(both)
    BY <1>2, <1>7
  <2>2. both[i] = IF i <= 1 THEN one[i] ELSE old[i - 1]
    BY <1>7, <2>1
  <2>3. new[i] = IF i = 1 THEN context ELSE ReadLast(contexts, i - 2)
    BY <1>4, <1>5
  <2>4. CASE i = 1
    BY <1>6, <2>2, <2>3, <2>4
  <2>5. CASE i # 1
    <3>1. i - 1 \in 1..held /\ ~(i <= 1) /\ (i - 1) - 1 = i - 2
      BY <1>2, <2>5
    <3>2. old[i - 1] = ReadLast(contexts, i - 2)
      BY <1>3, <3>1
    <3>3. both[i] = new[i]
      BY <2>2, <2>3, <2>5, <3>1, <3>2
    <3> QED
      BY <1>3, <2>2, <3>1, <3>3, ElementOfSeq
  <2> QED
    BY <2>4, <2>5
<1>9. SubSeq(both, 1, n) = new
  <2>1. 1 \in Int /\ n \in Int /\ 1 <= n /\ n - 1 + 1 = n
    BY <1>2
  <2>2. /\ SubSeq(both, 1, n) \in Seq(Context)
        /\ Len(SubSeq(both, 1, n)) = n
        /\ \A i \in 1..n : SubSeq(both, 1, n)[i] = both[1 + i - 1]
    BY <1>8, <2>1, SubSeqProperties
  <2>3. \A i \in 1..n : SubSeq(both, 1, n)[i] = new[i]
    <3>1. \A i \in 1..n : 1 + i - 1 = i
      OBVIOUS
    <3> QED
      BY <1>8, <2>2, <3>1
  <2> QED
    BY <1>4, <2>2, <2>3, SeqEqual
<1>10. Log!Kept(both) = SubSeq(both, 1, n)
  <2>1. Log!Kept(both) = SubSeq(both, 1, IF Len(both) < Slots - 1 THEN Len(both) ELSE Slots - 1)
    BY DEF Log!Kept
  <2>2. (IF Len(both) < Slots - 1 THEN Len(both) ELSE Slots - 1) = n
    BY <1>2, <1>7
  <2> QED
    BY <2>1, <2>2
<1>11. new # <<>> /\ Head(new) = context
  <2>1. new[1] = context
    BY <1>2, <1>6, <1>7, <1>8
  <2>2. new # <<>>
    BY <1>2, <1>4
  <2> QED
    BY <1>4, <2>1, <2>2
<1> QED
  BY <1>9, <1>10, <1>11 DEF new, both, one, old

-----------------------------------------------------------------------------
(* The statistics implement the log *)

\* Statistics that are being written are those read with this reset added, with
\* counters cleared, or none.
Updates(stats) ==
    \/ stats = Updated(ReadStats)
    \/ \E S \in SUBSET Reasons :
         stats = [counter  |-> [r \in Reasons |-> IF r \in S THEN 0 ELSE ReadStats.counter[r]],
                  contexts |-> ReadStats.contexts]
    \/ stats = ZeroStats

LogInv ==
    /\ ReadStats.contexts \in Store
    /\ stage = "WRITE" => Updates(image)

LogStep == [Log!ResetLogNext]_(Log!logVars)

LEMMA ZeroStore ==
    /\ ZeroStats.contexts \in Store
    /\ LogOf(ZeroStats.contexts) = <<>>
    /\ ZeroStats.counter = [r \in Reasons |-> 0]
<1> DEFINE zero == ZeroStats.contexts
<1>1. ZeroStats = [counter |-> [r \in Reasons |-> 0], contexts |-> [i \in Ring |-> NoContext]]
  BY DEF ZeroStats, Ring
<1>2. \A i \in Ring : zero[i].reason = Unknown
  BY <1>1 DEF NoContext
<1>3. zero \in Contexts /\ HasEnd(zero)
  BY ZeroTypes, StatsAre
<1>4. Terminator(zero) = 0
  <2>1. 0 \in Ring /\ \A j \in Ring : ~(j < 0)
    BY Indices
  <2> QED
    BY <1>2, <2>1, TerminatorAt
<1>5. ~Wrapped(zero) /\ Shape(zero)
  BY <1>2 DEF Wrapped, Shape
<1>6. zero \in Store
  BY <1>3, <1>5 DEF Store
<1>7. Held(zero) = 0
  BY <1>4, <1>5 DEF Held
<1>8. LogOf(zero) = <<>>
  BY <1>6, <1>7, LogIs, EmptySeq
<1> QED
  BY <1>1, <1>6, <1>8

\* Who reads the statistics sees the same log and counters as the refinement.
LEMMA LogSeen ==
    /\ (IF eeprom = Torn THEN <<>> ELSE LogOf(eeprom.contexts)) = LogOf(ReadStats.contexts)
    /\ (IF eeprom = Torn THEN ZeroStats.counter ELSE eeprom.counter) = ReadStats.counter
    /\ (IF eeprom' = Torn THEN <<>> ELSE LogOf(eeprom'.contexts)) = LogOf(ReadStats'.contexts)
    /\ (IF eeprom' = Torn THEN ZeroStats.counter ELSE eeprom'.counter) = ReadStats'.counter
<1>1. ReadStats = IF eeprom = Torn THEN ZeroStats ELSE eeprom
  BY DEF ReadStats
<1>2. ReadStats' = IF eeprom' = Torn THEN ZeroStats ELSE eeprom'
  BY DEF ReadStats
<1> QED
  BY <1>1, <1>2, ZeroStore

LEMMA SameLog ==
    ASSUME ReadStats' = ReadStats
    PROVE  LogStep
<1>1. /\ (IF eeprom' = Torn THEN <<>> ELSE LogOf(eeprom'.contexts))
           = (IF eeprom = Torn THEN <<>> ELSE LogOf(eeprom.contexts))
      /\ (IF eeprom' = Torn THEN ZeroStats.counter ELSE eeprom'.counter)
           = (IF eeprom = Torn THEN ZeroStats.counter ELSE eeprom.counter)
  BY LogSeen
<1> QED
  BY <1>1 DEF LogStep, Log!logVars

LEMMA RecordedLog ==
    ASSUME TypeOK, ReadStats.contexts \in Store, ReadStats' = Updated(ReadStats)
    PROVE  ReadStats'.contexts \in Store /\ LogStep
<1> DEFINE old     == ReadStats
           new     == ReadStats'
           context == [reason |-> reason, runtime |-> prev]
           count   == [old.counter EXCEPT ![reason] = (@ + 1) % Modulus]
           contexts == IF reason = Unknown THEN old.contexts
                       ELSE ContextSave(old.contexts, context)
<1>1. reason \in Reasons /\ context \in Context /\ context.reason = reason
  BY DEF TypeOK, Context
<1>2. new.counter = count /\ new.contexts = contexts
  BY DEF Updated
<1>3. Log!Record(reason) <=>
        /\ new.counter = [old.counter EXCEPT ![reason] = (@ + 1) % Modulus]
        /\ IF reason = Unknown THEN LogOf(new.contexts) = LogOf(old.contexts)
           ELSE /\ LogOf(new.contexts) # <<>>
                /\ Head(LogOf(new.contexts)).reason = reason
                /\ LogOf(new.contexts)
                     = Log!Kept(<<Head(LogOf(new.contexts))>> \o LogOf(old.contexts))
  BY LogSeen DEF Log!Record
<1> HIDE DEF old, new, count
<1>4. CASE reason = Unknown
  <2>1. new.contexts = old.contexts
    BY <1>2, <1>4
  <2>2. Log!Record(reason)
    BY <1>2, <1>3, <1>4, <2>1 DEF count
  <2> QED
    BY <1>1, <2>1, <2>2 DEF new, old, LogStep, Log!ResetLogNext
<1>5. CASE reason # Unknown
  <2>1. new.contexts = ContextSave(old.contexts, context)
    BY <1>2, <1>5
  <2> HIDE DEF context
  <2>2. new.contexts \in Store
    BY <1>1, <1>5, <2>1, SaveStores DEF old
  <2>3. /\ LogOf(new.contexts) # <<>>
        /\ Head(LogOf(new.contexts)) = context
        /\ LogOf(new.contexts) = Log!Kept(<<context>> \o LogOf(old.contexts))
    BY <1>1, <1>5, <2>1, SaveLog DEF old
  <2>4. Log!Record(reason)
    BY <1>1, <1>2, <1>3, <1>5, <2>3 DEF count
  <2> QED
    BY <1>1, <2>2, <2>4 DEF new, LogStep, Log!ResetLogNext
<1> QED
  BY <1>4, <1>5

LEMMA ClearedLog ==
    ASSUME NEW S \in SUBSET Reasons,
           ReadStats' = [counter  |-> [r \in Reasons |-> IF r \in S THEN 0
                                                         ELSE ReadStats.counter[r]],
                         contexts |-> ReadStats.contexts]
    PROVE  ReadStats'.contexts = ReadStats.contexts /\ LogStep
<1>1. /\ ReadStats'.contexts = ReadStats.contexts
      /\ ReadStats'.counter = [r \in Reasons |-> IF r \in S THEN 0 ELSE ReadStats.counter[r]]
  OBVIOUS
<1>2. Log!ClearCounts(S)
  BY <1>1, LogSeen DEF Log!ClearCounts
<1> QED
  BY <1>1, <1>2 DEF LogStep, Log!ResetLogNext

LEMMA LostLog ==
    ASSUME ReadStats' = ZeroStats
    PROVE  ReadStats'.contexts \in Store /\ LogStep
<1>1. Log!Lose
  BY LogSeen, ZeroStore DEF Log!Lose
<1> QED
  BY <1>1, ZeroStore DEF LogStep, Log!ResetLogNext

\* What was written takes the place of what is read.
LEMMA WrittenLog ==
    ASSUME TypeOK, LogInv, stage = "WRITE", ReadStats' = image
    PROVE  ReadStats'.contexts \in Store /\ LogStep
<1>1. ReadStats.contexts \in Store /\ Updates(image)
  BY DEF LogInv
<1>2. CASE image = Updated(ReadStats)
  BY <1>1, <1>2, RecordedLog
<1>3. ASSUME NEW S \in SUBSET Reasons,
             image = [counter  |-> [r \in Reasons |-> IF r \in S THEN 0
                                                      ELSE ReadStats.counter[r]],
                      contexts |-> ReadStats.contexts]
      PROVE  ReadStats'.contexts \in Store /\ LogStep
  BY <1>1, <1>3, ClearedLog
<1>4. CASE image = ZeroStats
  BY <1>4, LostLog
<1> QED
  BY <1>1, <1>2, <1>3, <1>4 DEF Updates

LEMMA NextLog == TypeOK /\ Records /\ LogInv /\ [Next]_vars => LogInv' /\ LogStep
<1> SUFFICES ASSUME TypeOK, Records, LogInv, [Next]_vars PROVE LogInv' /\ LogStep
  OBVIOUS
<1>0. /\ eeprom' = eeprom => ReadStats' = ReadStats
      /\ eeprom' # Torn => ReadStats' = eeprom'
      /\ eeprom' = Torn => ReadStats' = ZeroStats
  BY DEF ReadStats
<1>1. CASE ColdBoot \/ AddUptime \/ AddRun \/ ClearUptime \/ ContextUpdate \/ ContextClear
  <2>1. eeprom' = eeprom /\ stage' # "WRITE"
    BY <1>1 DEF ColdBoot, AddUptime, AddRun, ClearUptime, ContextUpdate, ContextClear
  <2> QED
    BY <1>0, <2>1, SameLog DEF LogInv
<1>2. CASE UpdateStats
  <2>1. /\ eeprom' = eeprom /\ reason' = reason /\ prev' = prev
        /\ image' = Updated(ReadStats)
    BY <1>2 DEF UpdateStats
  <2>2. ReadStats' = ReadStats
    BY <1>0, <2>1
  <2>3. Updates(image)'
    BY <2>1, <2>2 DEF Updates, Updated
  <2> QED
    BY <2>2, <2>3, SameLog DEF LogInv
<1>3. CASE WriteDone
  <2>1. stage = "WRITE" /\ eeprom' = image /\ stage' # "WRITE"
    BY <1>3 DEF WriteDone
  <2>2. ReadStats' = image
    BY <1>0, <2>1 DEF Records
  <2> QED
    BY <2>1, <2>2, WrittenLog DEF LogInv
<1>4. CASE StatsClear
  <2>1. eeprom' = eeprom /\ image' = ZeroStats
    BY <1>4 DEF StatsClear
  <2>2. Updates(image)'
    BY <2>1 DEF Updates
  <2> QED
    BY <1>0, <2>1, <2>2, SameLog DEF LogInv
<1>5. ASSUME NEW S \in AttributeClears, CountClear(S)
      PROVE  LogInv' /\ LogStep
  <2> DEFINE cleared == [r \in Reasons |-> IF r \in S THEN 0 ELSE eeprom.counter[r]]
  <2>1. eeprom' = eeprom /\ eeprom # Torn /\ eeprom \in Stats /\ ReadStats = eeprom
    BY <1>5 DEF CountClear, TypeOK, ReadStats
  <2>2. image' = [eeprom EXCEPT !.counter = cleared]
    BY <1>5 DEF CountClear
  <2>3. ReadStats' = ReadStats
    BY <1>0, <2>1
  <2>4. S \in SUBSET Reasons
    BY DEF AttributeClears
  <2>5. image' = [counter |-> cleared, contexts |-> eeprom.contexts]
    <3> HIDE DEF cleared
    <3> QED
      BY <2>1, <2>2, StatsAre
  <2>6. Updates(image)'
    <3>1. image' = [counter  |-> [r \in Reasons |-> IF r \in S THEN 0
                                                    ELSE ReadStats'.counter[r]],
                    contexts |-> ReadStats'.contexts]
      BY <2>1, <2>3, <2>5
    <3> QED
      BY <2>4, <3>1 DEF Updates
  <2> QED
    BY <2>3, <2>6, SameLog DEF LogInv
<1>6. ASSUME NEW r \in Reasons, Reset(r)
      PROVE  LogInv' /\ LogStep
  <2>1. /\ stage' # "WRITE"
        /\ \/ eeprom' = eeprom \/ eeprom' = Torn
           \/ stage = "WRITE" /\ eeprom' = image
    BY <1>6 DEF Reset
  <2>2. CASE eeprom' = eeprom
    BY <1>0, <2>1, <2>2, SameLog DEF LogInv
  <2>3. CASE eeprom' = Torn
    BY <1>0, <2>1, <2>3, LostLog DEF LogInv
  <2>4. CASE stage = "WRITE" /\ eeprom' = image
    <3>1. ReadStats' = image
      BY <1>0, <2>4 DEF Records
    <3> QED
      BY <2>1, <2>4, <3>1, WrittenLog DEF LogInv
  <2> QED
    BY <2>1, <2>2, <2>3, <2>4
<1>7. CASE UNCHANGED vars
  <2>1. /\ eeprom' = eeprom /\ image' = image /\ stage' = stage
        /\ reason' = reason /\ prev' = prev
    BY <1>7 DEF vars
  <2>2. ReadStats' = ReadStats
    BY <1>0, <2>1
  <2>3. Updates(image) => Updates(image)'
    BY <2>1, <2>2 DEF Updates, Updated
  <2> QED
    BY <2>1, <2>2, <2>3, SameLog DEF LogInv
<1> QED
  BY <1>1, <1>2, <1>3, <1>4, <1>5, <1>6, <1>7 DEF Next

LEMMA InitLog == Init => LogInv /\ Log!ResetLogInit
<1> SUFFICES ASSUME Init PROVE LogInv /\ Log!ResetLogInit
  OBVIOUS
<1>1. eeprom = Torn /\ stage # "WRITE" /\ ReadStats = ZeroStats
  BY DEF Init, ReadStats
<1> QED
  BY <1>1, ZeroStore DEF LogInv, Log!ResetLogInit

\* The ring of slots and the marker that ends it, written over resets that may
\* come in the middle of the write, implement the log: a reset is recorded once,
\* whole and first, the oldest one goes when the ring is full, and nothing else
\* changes what is read back but the loss of everything or a clear.
THEOREM LogImplemented == Spec => ImplementsLog
<1>1. Init => LogInv /\ Log!ResetLogInit
  BY InitLog
<1>2. TypeOK /\ Records /\ LogInv /\ [Next]_vars
        => LogInv' /\ [Log!ResetLogNext]_(Log!logVars)
  BY NextLog DEF LogStep
<1> QED
  BY <1>1, <1>2, TypeCorrect, RecordsAlways, PTL
     DEF Spec, ImplementsLog, Log!ResetLogSpec
=============================================================================
