--------------------------- MODULE OneWireProofs ---------------------------
(***************************************************************************)
(* Theorems about the temperature measurements of a one-wire bus, for any  *)
(* number of sensors and slots; and about the composition of MCDevices,    *)
(* from those of its three parts.                                          *)
(***************************************************************************)
EXTENDS MCDevices, HeaterProofs, MultiDeviceProofs, FiniteSetTheorems

-----------------------------------------------------------------------------
(* The search of the bus *)

\* The equation that defines the states of a search, up to the n-th sensor.
Searching(f, n, met) ==
    f = [m \in 0..n |-> IF m = 0 THEN [slots |-> sensors, count |-> 0]
                        ELSE Meet(f[m - 1], Search[m], met)]

\* The states of a search up to a sensor extend to the next.
LEMMA SearchExtends ==
    ASSUME NEW n \in Nat, NEW met, NEW f, Searching(f, n, met)
    PROVE  \E g : Searching(g, n + 1, met)
<1> DEFINE g == [m \in 0..n + 1 |-> IF m = n + 1 THEN Meet(f[n], Search[n + 1], met)
                                    ELSE f[m]]
<1>1. ASSUME NEW m \in 0..n + 1
      PROVE  g[m] = IF m = 0 THEN [slots |-> sensors, count |-> 0]
                    ELSE Meet(g[m - 1], Search[m], met)
  <2>1. CASE m = n + 1
    <3>1. g[n] = f[n] /\ m - 1 = n /\ m # 0
      BY <2>1
    <3> QED
      BY <2>1, <3>1
  <2>2. CASE m # n + 1
    <3>1. m \in 0..n /\ g[m] = f[m]
      BY <2>2
    <3>2. f[m] = IF m = 0 THEN [slots |-> sensors, count |-> 0]
                 ELSE Meet(f[m - 1], Search[m], met)
      BY <3>1 DEF Searching
    <3>3. m # 0 => g[m - 1] = f[m - 1]
      BY <3>1
    <3> QED
      BY <3>1, <3>2, <3>3
  <2> QED
    BY <2>1, <2>2
<1>2. Searching(g, n + 1, met)
  BY <1>1 DEF Searching
<1> QED
  BY <1>2

\* A search has states up to any sensor.
LEMMA SearchExists ==
    ASSUME NEW n \in Nat, NEW met
    PROVE  \E f : Searching(f, n, met)
<1> DEFINE T == {k \in Nat : ~\E f : Searching(f, k, met)}
<1> SUFFICES ASSUME T # {} PROVE FALSE
  OBVIOUS
<1>1. PICK k \in T : \A j \in T : k <= j
  <2>1. T \in SUBSET Nat
    OBVIOUS
  <2> HIDE DEF T
  <2> QED
    BY <2>1, LeastElement
<1>2. CASE k = 0
  <2> DEFINE g == [m \in 0..0 |-> [slots |-> sensors, count |-> 0]]
  <2>1. Searching(g, 0, met)
    BY DEF Searching
  <2> QED
    BY <1>2, <2>1
<1>3. CASE k # 0
  <2>1. k - 1 \in Nat /\ k - 1 \notin T /\ (k - 1) + 1 = k
    BY <1>1, <1>3
  <2>2. \E f : Searching(f, k - 1, met)
    BY <2>1
  <2>3. \E f : Searching(f, (k - 1) + 1, met)
    BY <2>1, <2>2, SearchExtends
  <2> QED
    BY <2>1, <2>3
<1> QED
  BY <1>2, <1>3

\* What a search comes to, sensor by sensor.
LEMMA SearchStatesAre ==
    ASSUME NEW met
    PROVE  /\ SearchStates(met)[0] = [slots |-> sensors, count |-> 0]
           /\ \A n \in 1..Len(Search) :
                 SearchStates(met)[n] = Meet(SearchStates(met)[n - 1], Search[n], met)
<1> DEFINE N == Len(Search)
<1>1. N \in Nat
  BY OneWireAssumption
<1>2. SearchStates(met) = CHOOSE f : Searching(f, N, met)
  BY Zenon DEF SearchStates, Searching
<1>3. Searching(SearchStates(met), N, met)
  BY <1>1, <1>2, SearchExists
<1> QED
  BY <1>1, <1>3 DEF Searching

-----------------------------------------------------------------------------
(* The slots *)

\* The slots of a search, and of the runs between searches: a sensor has one, and
\* a conversion is under way where it was, if the sensor is active.
Sound(slots) ==
    /\ slots \in [Places -> Slot]
    /\ \A j, k \in Places :
          slots[j].id = slots[k].id => j = k \/ slots[j].id = NoSensor
    /\ \A k \in Places :
          slots[k].in_progress => slots[k].active /\ sensors[k].in_progress

OwInv ==
    /\ OwTypeOK /\ MeasurementsSound
    /\ \A k \in Places : sensors[k].in_progress => sensors[k].active

\* The constants are of their types.
LEMMA OwConstants ==
    /\ Expected \in Nat /\ Expected > 0
    /\ Len(Search) \in Nat
    /\ \A n \in 1..Len(Search) : Search[n] \in Sensors
    /\ Periodicity * Expected \in Nat
    /\ \A k \in Places : k \in Int /\ k # -1
    /\ \A k \in Places : Registered[k + 1] \in Sensors \cup {NoSensor}
<1> USE OneWireAssumption
<1>1. Expected \in Nat /\ Expected > 0 /\ Len(Search) \in Nat
  BY DEF Expected
<1>2. \A n \in 1..Len(Search) : Search[n] \in Sensors
  BY DEF Sensors
<1>3. Periodicity * Expected \in Nat
  BY <1>1
<1>4. \A k \in Places : k \in Int /\ k # -1
  BY <1>1 DEF Places
<1>5. \A k \in Places : Registered[k + 1] \in Sensors \cup {NoSensor}
  BY <1>1 DEF Places, Expected
<1> QED
  BY <1>1, <1>2, <1>3, <1>4, <1>5

\* The slot a sensor is given is its own, unless it has none.
LEMMA SlotForIs ==
    ASSUME NEW slots, NEW id
    PROVE  /\ SlotFor(slots, id) \in Places \cup {-1}
           /\ SlotFor(slots, id) # -1 =>
                \/ slots[SlotFor(slots, id)].id = id
                \/ \A k \in Places : slots[k].id # id
<1> DEFINE own  == {k \in Places : slots[k].id = id}
           free == {k \in Places : slots[k].id = NoSensor}
           from == IF own # {} THEN own ELSE free
<1>1. CASE from = {}
  BY <1>1 DEF SlotFor
<1>2. CASE from # {}
  <2> DEFINE least == CHOOSE k \in from : \A j \in from : k <= j
  <2>1. from \in SUBSET Nat
    BY OwConstants DEF Places
  <2>2. \E k \in from : \A j \in from : k <= j
    <3> HIDE DEF from
    <3> QED
      BY <1>2, <2>1, LeastElement
  <2>3. least \in from
    <3> HIDE DEF from
    <3> QED
      BY <2>2
  <2>4. SlotFor(slots, id) = least
    BY <1>2 DEF SlotFor
  <2>5. least \in Places /\ (own # {} => least \in own)
    BY <2>3
  <2> HIDE DEF least
  <2> QED
    BY <2>4, <2>5
<1> QED
  BY <1>1, <1>2

\* A sensor that is met leaves the slots sound.
LEMMA MeetSound ==
    ASSUME NEW last, NEW id \in Sensors, NEW met, Sound(last.slots), last.count \in Nat
    PROVE  Sound(Meet(last, id, met).slots) /\ Meet(last, id, met).count \in Nat
<1> DEFINE k == SlotFor(last.slots, id)
<1>1. CASE id \notin met \/ last.count = Expected \/ k = -1
  BY <1>1 DEF Meet
<1>2. CASE ~(id \notin met \/ last.count = Expected \/ k = -1)
  <2> DEFINE entry == [id |-> id, active |-> TRUE, errors |-> 0, in_progress |-> FALSE,
                       valid |-> last.slots[k].valid /\ last.slots[k].id = id]
             after == [last.slots EXCEPT ![k] = entry]
  <2>1. Meet(last, id, met) = [slots |-> after, count |-> last.count + 1]
    <3>1. Discovered(last.slots, k, id) = after
      BY DEF Discovered
    <3> HIDE DEF after, k
    <3> QED
      BY <1>2, <3>1 DEF Meet, k
  <2>2. /\ k \in Places
        /\ \/ last.slots[k].id = id
           \/ \A j \in Places : last.slots[j].id # id
    BY <1>2, SlotForIs
  <2>3. entry \in Slot
    <3>1. last.slots[k].valid \in BOOLEAN
      BY <2>2 DEF Sound, Slot
    <3>2. 0 \in 0..ErrorModulus - 1
      BY OneWireAssumption
    <3> QED
      BY <3>1, <3>2, Zenon DEF Slot
  <2>4. entry.id = id /\ ~entry.in_progress /\ id # NoSensor
    BY OneWireAssumption
  <2> HIDE DEF k, entry
  <2>5. Sound(after)
    <3>1. after \in [Places -> Slot]
      BY <2>2, <2>3 DEF Sound
    <3>2. \A j \in Places : after[j] = IF j = k THEN entry ELSE last.slots[j]
      BY <2>2 DEF Sound
    <3>3. ASSUME NEW i \in Places, NEW j \in Places, after[i].id = after[j].id, i # j
          PROVE  after[i].id = NoSensor
      <4>1. CASE i # k /\ j # k
        BY <3>2, <3>3, <4>1 DEF Sound
      <4>2. CASE i = k
        <5>1. last.slots[j].id = id
          BY <2>4, <3>2, <3>3, <4>2
        <5>2. last.slots[k].id = id
          BY <2>2, <5>1
        <5> QED
          BY <2>2, <2>4, <3>3, <4>2, <5>1, <5>2 DEF Sound
      <4>3. CASE j = k
        <5>1. last.slots[i].id = id
          BY <2>4, <3>2, <3>3, <4>3
        <5>2. last.slots[k].id = id
          BY <2>2, <5>1
        <5> QED
          BY <2>2, <2>4, <3>3, <4>3, <5>1, <5>2 DEF Sound
      <4> QED
        BY <4>1, <4>2, <4>3
    <3>4. ASSUME NEW i \in Places, after[i].in_progress
          PROVE  after[i].active /\ sensors[i].in_progress
      BY <2>4, <3>2, <3>4 DEF Sound
    <3> QED
      BY <3>1, <3>3, <3>4 DEF Sound
  <2> HIDE DEF after
  <2> QED
    BY <2>1, <2>5
<1> QED
  BY <1>1, <1>2

\* A search leaves the slots sound, whichever sensors it meets.
LEMMA DiscoverSound ==
    ASSUME OwInv, NEW met
    PROVE  Sound(Discover(met).slots)
<1> DEFINE S(n) == SearchStates(met)[n]
           T    == {n \in 0..Len(Search) : ~(Sound(S(n).slots) /\ S(n).count \in Nat)}
<1>1. T = {}
  <2> SUFFICES ASSUME T # {} PROVE FALSE
    OBVIOUS
  <2>1. PICK n \in T : \A m \in T : n <= m
    <3>1. T \in SUBSET Nat
      OBVIOUS
    <3> HIDE DEF T
    <3> QED
      BY <3>1, LeastElement
  <2>2. CASE n = 0
    <3>1. Sound(sensors)
      BY DEF OwInv, OwTypeOK, MeasurementsSound, OneSlot, Sound
    <3> QED
      BY <2>1, <2>2, <3>1, SearchStatesAre
  <2>3. CASE n # 0
    <3>1. n - 1 \in 0..Len(Search) /\ n - 1 \notin T /\ n \in 1..Len(Search)
      BY <2>1, <2>3, OwConstants
    <3>2. Sound(S(n - 1).slots) /\ S(n - 1).count \in Nat
      BY <3>1
    <3>3. S(n) = Meet(S(n - 1), Search[n], met)
      BY <3>1, SearchStatesAre
    <3>4. Search[n] \in Sensors
      BY <3>1, OwConstants
    <3> HIDE DEF S
    <3>5. Sound(S(n).slots) /\ S(n).count \in Nat
      BY <3>2, <3>3, <3>4, MeetSound
    <3> QED
      BY <2>1, <3>5
  <2> QED
    BY <2>2, <2>3
<1>2. Len(Search) \in 0..Len(Search)
  BY OwConstants
<1> QED
  BY <1>1, <1>2 DEF Discover

-----------------------------------------------------------------------------
(* The steps *)

LEMMA OwInitInv == OwInit => OwInv
<1> SUFFICES ASSUME OwInit PROVE OwInv
  OBVIOUS
<1> USE OneWireAssumption DEF OwInit
<1>1. sensors \in [Places -> Slot]
  <2>1. 0 \in 0..ErrorModulus - 1
    OBVIOUS
  <2>2. \A k \in Places : EmptySlot(Registered[k + 1]) \in Slot
    BY <2>1, OwConstants DEF EmptySlot, Slot
  <2> QED
    BY <2>2
<1>2. OwTypeOK
  <2>1. 0 \in Places
    BY OwConstants DEF Places
  <2>2. remaining \in 0..Periodicity * Expected
    BY OwConstants
  <2>3. faults \in 0..MaxFaults /\ stops \in 0..MaxStops
    OBVIOUS
  <2>4. up \in OwStages /\ present \in SUBSET Sensors /\ discovery \in BOOLEAN
    BY DEF OwStages
  <2>5. {running, timer, queued, sem} \subseteq BOOLEAN
    OBVIOUS
  <2> QED
    BY <1>1, <2>1, <2>2, <2>3, <2>4, <2>5 DEF OwTypeOK
<1>3. \A k \in Places : sensors[k].id = Registered[k + 1] /\ ~sensors[k].in_progress
  BY DEF EmptySlot
<1>4. OneSlot
  <2> SUFFICES ASSUME NEW j \in Places, NEW k \in Places, j # k,
                      Registered[j + 1] = Registered[k + 1]
               PROVE  Registered[j + 1] = NoSensor
    BY <1>3 DEF OneSlot
  <2>1. j + 1 \in DOMAIN Registered /\ k + 1 \in DOMAIN Registered /\ j + 1 # k + 1
    BY OwConstants, SMTT(60) DEF Places, Expected
  <2> QED
    BY <2>1
<1>5. OneCycle /\ OneConversion
  BY <1>3 DEF OneCycle, OneConversion
<1> QED
  BY <1>2, <1>3, <1>4, <1>5 DEF OwInv, MeasurementsSound

\* A result leaves a slot what it is, but for its temperature and its errors.
LEMMA ResultKeeps ==
    ASSUME NEW s \in Slot
    PROVE  /\ Succeeded(s) \in Slot /\ Failed(s) \in Slot
           /\ Succeeded(s).id = s.id /\ Failed(s).id = s.id
           /\ Succeeded(s).active = s.active /\ Failed(s).active = s.active
           /\ Succeeded(s).in_progress = s.in_progress
           /\ Failed(s).in_progress = s.in_progress
<1>1. (s.errors + 1) % ErrorModulus \in 0..ErrorModulus - 1 /\ 0 \in 0..ErrorModulus - 1
  BY OneWireAssumption DEF Slot
<1> QED
  BY <1>1 DEF Succeeded, Failed, Slot

\* What the slots are where none was added, dropped or told to convert.
LEMMA SlotsKept ==
    ASSUME NEW old, NEW new, Sound(old), new \in [Places -> Slot],
           \A k \in Places : /\ new[k].id = old[k].id
                             /\ new[k].active = old[k].active
                             /\ new[k].in_progress => old[k].in_progress
    PROVE  Sound(new)
<1>1. ASSUME NEW j \in Places, NEW k \in Places, new[j].id = new[k].id
      PROVE  j = k \/ new[j].id = NoSensor
  <2>1. old[j].id = old[k].id /\ old[j].id = new[j].id
    BY <1>1
  <2> QED
    BY <2>1 DEF Sound
<1>2. ASSUME NEW k \in Places, new[k].in_progress
      PROVE  new[k].active /\ sensors[k].in_progress
  <2>1. old[k].in_progress /\ new[k].active = old[k].active
    BY <1>2
  <2> QED
    BY <2>1 DEF Sound
<1> QED
  BY <1>1, <1>2 DEF Sound

LEMMA SoundNow ==
    ASSUME OwInv
    PROVE  Sound(sensors)
BY DEF OwInv, OwTypeOK, MeasurementsSound, OneSlot, Sound

\* Sound slots keep the invariant where nothing else of it changes.
LEMMA SoundKeeps ==
    ASSUME OwInv, Sound(sensors'), UNCHANGED <<cur, running, timer, queued, sem>>,
           OwTypeOK'
    PROVE  OwInv'
<1>1. OneCycle'
  BY DEF OwInv, MeasurementsSound, OneCycle
<1>2. OneConversion' /\ OneSlot'
  BY DEF OwInv, MeasurementsSound, OneConversion, OneSlot, Sound
<1> QED
  BY <1>1, <1>2 DEF OwInv, MeasurementsSound, Sound

LEMMA StartDiscoverInv == OwInv /\ StartDiscover => OwInv'
<1> SUFFICES ASSUME OwInv, StartDiscover PROVE OwInv'
  OBVIOUS
<1> USE DEF StartDiscover
<1>1. PICK met \in SUBSET present :
         /\ faults' = faults + Missed(met) /\ faults' <= MaxFaults
         /\ sensors' = Discover(met).slots
         /\ discovery' = (Discover(met).count = 0)
  OBVIOUS
<1>2. Sound(sensors')
  BY <1>1, DiscoverSound
<1>3. faults' \in 0..MaxFaults
  BY <1>1 DEF OwInv, OwTypeOK, Missed
<1>4. OwTypeOK'
  BY <1>1, <1>2, <1>3, OwConstants DEF OwInv, OwTypeOK, OwStages, Sound
<1> QED
  BY <1>2, <1>4, SoundKeeps

LEMMA StartMeasureInv == OwInv /\ StartMeasure => OwInv'
<1> SUFFICES ASSUME OwInv, StartMeasure PROVE OwInv'
  OBVIOUS
<1> USE DEF StartMeasure
<1>1. PICK results \in [Active -> {"SUCCESS", "NO_DEVICES", "NULL_DATA", "CRC_ERROR"}] :
         /\ faults' = faults + Cardinality({k \in Active :
                                             Misread(sensors[k].id, results[k]) = 1})
         /\ faults' <= MaxFaults
         /\ sensors' = [k \in Places |->
                           IF k \notin Active THEN sensors[k]
                           ELSE IF results[k] = "SUCCESS" THEN Succeeded(sensors[k])
                           ELSE Failed(sensors[k])]
  OBVIOUS
<1>2. ASSUME NEW k \in Places
      PROVE  /\ sensors'[k] \in Slot
             /\ sensors'[k].id = sensors[k].id
             /\ sensors'[k].active = sensors[k].active
             /\ sensors'[k].in_progress = sensors[k].in_progress
  <2>1. sensors[k] \in Slot
    BY DEF OwInv, OwTypeOK
  <2>2. sensors'[k] \in {sensors[k], Succeeded(sensors[k]), Failed(sensors[k])}
    BY <1>1
  <2> QED
    BY <2>1, <2>2, ResultKeeps
<1>3. Sound(sensors')
  <2>1. sensors' \in [Places -> Slot]
    <3>1. sensors' = [k \in Places |-> sensors'[k]]
      BY <1>1
    <3> QED
      BY <1>2, <3>1
  <2> QED
    BY <1>2, <2>1, SoundNow DEF Sound
<1>4. faults' \in 0..MaxFaults
  <2> DEFINE misread == {k \in Active : Misread(sensors[k].id, results[k]) = 1}
  <2>1. IsFiniteSet(misread)
    <3>1. IsFiniteSet(Places)
      BY OwConstants, FS_Interval DEF Places
    <3> QED
      BY <3>1, FS_Subset DEF Active
  <2>2. Cardinality(misread) \in Nat
    BY <2>1, FS_CardinalityType
  <2> HIDE DEF misread
  <2>3. faults' = faults + Cardinality(misread)
    BY <1>1 DEF misread
  <2> QED
    BY <1>1, <2>2, <2>3, OneWireAssumption DEF OwInv, OwTypeOK
<1>5. OwTypeOK'
  BY <1>3, <1>4 DEF OwInv, OwTypeOK, OwStages, Sound
<1> QED
  BY <1>3, <1>5, SoundKeeps

\* Starting and stopping the measurements, and the timer.
LEMMA ControlInv == OwInv /\ (MeasStart \/ MeasStop \/ MeasTimer) => OwInv'
<1> SUFFICES ASSUME OwInv, MeasStart \/ MeasStop \/ MeasTimer PROVE OwInv'
  OBVIOUS
<1>1. sensors' = sensors /\ cur' = cur
  BY DEF MeasStart, MeasStop, MeasTimer
<1>2. OneCycle' /\ (sem' => sem)
  <2>1. {running, timer, queued, sem} \subseteq BOOLEAN /\ OneCycle
    BY DEF OwInv, OwTypeOK, MeasurementsSound
  <2>2. CASE MeasStart
    BY <2>1, <2>2, Zenon DEF MeasStart, OneCycle
  <2>3. CASE MeasStop
    BY <2>1, <2>3, Zenon DEF MeasStop, OneCycle
  <2>4. CASE MeasTimer
    BY <2>1, <2>4, Zenon DEF MeasTimer, OneCycle
  <2> QED
    BY <2>2, <2>3, <2>4
<1>3. OwTypeOK'
  <2>1. CASE MeasStart
    BY <2>1 DEF MeasStart, OwInv, OwTypeOK, OwStages
  <2>2. CASE MeasStop
    <3>1. stops' \in 0..MaxStops
      BY <2>2, OneWireAssumption DEF MeasStop, OwInv, OwTypeOK
    <3>2. {running', timer', queued', sem'} \subseteq BOOLEAN
      BY <2>2 DEF MeasStop, OwInv, OwTypeOK
    <3> QED
      BY <2>2, <3>1, <3>2 DEF MeasStop, OwInv, OwTypeOK
  <2>3. CASE MeasTimer
    BY <2>3 DEF MeasTimer, OwInv, OwTypeOK
  <2> QED
    BY <2>1, <2>2, <2>3
<1> QED
  BY <1>1, <1>2, <1>3 DEF OwInv, MeasurementsSound, OneConversion, OneSlot

LEMMA PlugInv ==
    ASSUME NEW id \in Sensors
    PROVE  OwInv /\ Plug(id) => OwInv'
<1> SUFFICES ASSUME OwInv, Plug(id) PROVE OwInv'
  OBVIOUS
<1>1. OwTypeOK'
  BY OneWireAssumption DEF Plug, OwInv, OwTypeOK
<1>2. Sound(sensors')
  BY SoundNow DEF Plug
<1> QED
  BY <1>1, <1>2, SoundKeeps DEF Plug

\* What a run of the work item knows of the slots and of the next search.
LEMMA SearchIfDueSafe ==
    ASSUME OwInv, NEW met
    PROVE  /\ Sound(SearchIfDue(met).slots)
           /\ SearchIfDue(met).again \in BOOLEAN
           /\ SearchIfDue(met).remaining \in 0..Periodicity * Expected
<1>1. CASE SearchDue
  BY <1>1, DiscoverSound, OwConstants DEF SearchIfDue, Searched
<1>2. CASE ~SearchDue
  <2>1. Cardinality(Active) \in 0..Expected
    <3>1. IsFiniteSet(Places) /\ Cardinality(Places) = Expected
      <4> DEFINE last == Expected - 1
      <4>1. last \in Int /\ 0 \in Int /\ ~(0 > last) /\ last - 0 + 1 = Expected
        BY OwConstants
      <4> HIDE DEF last
      <4>2. IsFiniteSet(0..last) /\ Cardinality(0..last) = last - 0 + 1
        BY <4>1, FS_Interval
      <4> QED
        BY <4>1, <4>2 DEF Places, last
    <3>2. Active \in SUBSET Places
      BY DEF Active
    <3>3. IsFiniteSet(Active) /\ Cardinality(Active) <= Cardinality(Places)
      BY <3>1, <3>2, FS_Subset
    <3>4. Cardinality(Active) \in Nat
      BY <3>3, FS_CardinalityType
    <3> QED
      BY <3>1, <3>3, <3>4, OwConstants
  <2>2. remaining \in Nat /\ remaining <= Periodicity * Expected
    BY OwConstants DEF OwInv, OwTypeOK
  <2>3. remaining - Missing \in 0..Periodicity * Expected
    BY <1>2, <2>1, <2>2, OwConstants DEF SearchDue, Missing
  <2> QED
    BY <1>2, <2>3, SoundNow DEF SearchIfDue, NotSearched
<1> QED
  BY <1>1, <1>2

\* The slot whose measurement is over, which is the only one that had begun, is
\* left; the cycle goes on if measurements run.
LEMMA ProceedSafe ==
    ASSUME OwInv, queued, queued' = FALSE, running' = running, NEW result,
           Proceed(result), Sound(sensors'), ~sensors'[cur].in_progress
    PROVE  /\ OneCycle' /\ OneConversion' /\ cur' \in Places
           /\ {running', timer', queued', sem'} \subseteq BOOLEAN
<1>1. {running, timer, queued, sem} \subseteq BOOLEAN /\ OneCycle /\ OneConversion
  BY DEF OwInv, OwTypeOK, MeasurementsSound
<1>2. ~sem /\ timer' = running /\ sem' = (sem \/ ~running)
  BY <1>1 DEF OneCycle, Proceed
<1>3. OneCycle' /\ {running', timer', queued', sem'} \subseteq BOOLEAN
  BY <1>1, <1>2 DEF OneCycle
<1>4. \A k \in Places : ~sensors'[k].in_progress
  BY <1>1 DEF OneConversion, Sound
<1>5. cur' \in Places
  <2>1. cur \in Int /\ cur' = (cur + 1) % Expected
    BY OwConstants DEF OwInv, OwTypeOK, Proceed
  <2> QED
    BY <2>1, OwConstants DEF Places
<1> QED
  BY <1>3, <1>4, <1>5 DEF OneConversion

\* A conversion begins, or cannot for want of sensors.
LEMMA BeginSafe ==
    ASSUME OwInv, queued, queued' = FALSE, running' = running, NEW met,
           ~SearchIfDue(met).slots[cur].in_progress,
           SearchIfDue(met).slots[cur].active,
           Begin(SearchIfDue(met))
    PROVE  /\ sensors' \in [Places -> Slot]
           /\ OneCycle' /\ OneConversion' /\ OneSlot' /\ cur' \in Places
           /\ {running', timer', queued', sem'} \subseteq BOOLEAN
           /\ \A k \in Places : sensors'[k].in_progress => sensors'[k].active
<1> DEFINE slots == SearchIfDue(met).slots
<1>1. Sound(slots) /\ cur \in Places
  BY SearchIfDueSafe DEF OwInv, OwTypeOK
<1>2. slots[cur] \in Slot
  BY <1>1 DEF Sound
<1>3. {running, timer, queued, sem} \subseteq BOOLEAN /\ OneCycle /\ OneConversion
  BY DEF OwInv, OwTypeOK, MeasurementsSound
<1>4. CASE StartResult = "SUCCESS"
  <2> DEFINE begun == [slots[cur] EXCEPT !.in_progress = TRUE]
  <2>1. sensors' = [slots EXCEPT ![cur] = begun] /\ timer' = TRUE /\ cur' = cur /\ sem' = sem
    BY <1>4 DEF Begin
  <2>2. begun \in Slot /\ begun.id = slots[cur].id /\ begun.active = slots[cur].active
    BY <1>2 DEF Slot
  <2> HIDE DEF slots, begun
  <2>3. \A k \in Places : sensors'[k] = IF k = cur THEN begun ELSE slots[k]
    BY <1>1, <2>1 DEF Sound
  <2>4. sensors' \in [Places -> Slot]
    BY <1>1, <2>1, <2>2 DEF Sound
  <2>5. \A k \in Places : sensors'[k].id = slots[k].id /\ sensors'[k].active = slots[k].active
    BY <2>2, <2>3
  <2>6. OneSlot'
    BY <1>1, <2>5 DEF OneSlot, Sound
  <2>7. ~sem
    BY <1>3 DEF OneCycle
  <2>8. OneConversion'
    BY <1>1, <1>3, <2>1, <2>3, <2>7 DEF OneConversion, Sound
  <2>9. OneCycle' /\ {running', timer', queued', sem'} \subseteq BOOLEAN
    BY <1>3, <2>1, <2>7 DEF OneCycle
  <2>10. \A k \in Places : sensors'[k].in_progress => sensors'[k].active
    <3>1. slots[cur].active
      BY DEF slots
    <3> QED
      BY <1>1, <2>2, <2>3, <3>1 DEF Sound
  <2> QED
    BY <1>1, <2>1, <2>4, <2>6, <2>8, <2>9, <2>10
<1>5. CASE StartResult # "SUCCESS"
  <2> DEFINE failed == Failed(slots[cur])
  <2>1. sensors' = [slots EXCEPT ![cur] = failed] /\ Proceed(StartResult)
    BY <1>5 DEF Begin
  <2>2. /\ failed \in Slot /\ failed.id = slots[cur].id
        /\ failed.active = slots[cur].active /\ ~failed.in_progress
    BY <1>2, ResultKeeps
  <2> HIDE DEF slots, failed
  <2>3. \A k \in Places : sensors'[k] = IF k = cur THEN failed ELSE slots[k]
    BY <1>1, <2>1 DEF Sound
  <2>4. sensors' \in [Places -> Slot]
    BY <1>1, <2>1, <2>2 DEF Sound
  <2>5. Sound(sensors')
    BY <1>1, <2>2, <2>3, <2>4, SlotsKept
  <2>6. ~sensors'[cur].in_progress
    BY <1>1, <2>2, <2>3
  <2>7. \A k \in Places : sensors'[k].in_progress => sensors'[k].active
    BY <2>5 DEF Sound
  <2> QED
    BY <2>1, <2>4, <2>5, <2>6, <2>7, ProceedSafe DEF OneSlot, Sound
<1> QED
  BY <1>4, <1>5

\* A measurement ends, and its sensor may be given up.
LEMMA EndSafe ==
    ASSUME OwInv, queued, queued' = FALSE, running' = running, NEW met, NEW result,
           End(SearchIfDue(met), result)
    PROVE  /\ Sound(sensors') /\ discovery' \in BOOLEAN
           /\ OneCycle' /\ OneConversion' /\ cur' \in Places
           /\ {running', timer', queued', sem'} \subseteq BOOLEAN
<1> DEFINE slots == SearchIfDue(met).slots
           read  == [slots[cur] EXCEPT !.in_progress = FALSE]
           done  == IF result = "SUCCESS" THEN Succeeded(read) ELSE Failed(read)
           gone  == GivenUp(done, result)
           last  == IF gone THEN [done EXCEPT !.active = FALSE, !.errors = 0] ELSE done
<1>1. Sound(slots) /\ cur \in Places
  BY SearchIfDueSafe DEF OwInv, OwTypeOK
<1>2. slots[cur] \in Slot
  BY <1>1 DEF Sound
<1>3. /\ sensors' = [slots EXCEPT ![cur] = last]
      /\ discovery' = (gone \/ SearchIfDue(met).again)
      /\ Proceed(result)
  BY DEF End
<1>4. read \in Slot /\ read.id = slots[cur].id /\ ~read.in_progress
  BY <1>2 DEF Slot
<1>5. done \in Slot /\ done.id = slots[cur].id /\ ~done.in_progress
  <2> HIDE DEF read
  <2> QED
    BY <1>4, ResultKeeps
<1>6. last \in Slot /\ last.id = slots[cur].id /\ ~last.in_progress
  <2> HIDE DEF done
  <2>1. 0 \in 0..ErrorModulus - 1
    BY OneWireAssumption
  <2> QED
    BY <1>5, <2>1 DEF Slot
<1>7. discovery' \in BOOLEAN
  BY <1>3, SearchIfDueSafe DEF GivenUp
<1> HIDE DEF slots, last
<1>8. \A k \in Places : sensors'[k] = IF k = cur THEN last ELSE slots[k]
  BY <1>1, <1>3 DEF Sound
<1>9. sensors' \in [Places -> Slot]
  BY <1>1, <1>3, <1>6 DEF Sound
<1>10. Sound(sensors')
  <2>1. \A k \in Places : sensors'[k].id = slots[k].id
    BY <1>6, <1>8
  <2>2. \A j, k \in Places :
           sensors'[j].id = sensors'[k].id => j = k \/ sensors'[j].id = NoSensor
    BY <1>1, <2>1 DEF Sound
  <2>3. \A k \in Places :
           sensors'[k].in_progress => sensors'[k].active /\ sensors[k].in_progress
    BY <1>1, <1>6, <1>8 DEF Sound
  <2> QED
    BY <1>9, <2>2, <2>3 DEF Sound
<1>11. ~sensors'[cur].in_progress
  BY <1>1, <1>6, <1>8
<1> QED
  BY <1>3, <1>7, <1>10, <1>11, ProceedSafe

LEMMA MeasHandlerInv == OwInv /\ MeasHandler => OwInv'
<1> SUFFICES ASSUME OwInv, MeasHandler PROVE OwInv'
  OBVIOUS
<1>1. /\ queued /\ queued' = FALSE
      /\ UNCHANGED <<up, running, present, stops>>
  BY DEF MeasHandler
<1>2. PICK met \in SUBSET present :
         LET found == SearchIfDue(met)
             s     == found.slots[cur]
         IN  /\ remaining' = found.remaining
             /\ faults + Missed(met) <= MaxFaults
             /\ \/ ~s.active
                   /\ sensors' = found.slots
                   /\ discovery' = found.again
                   /\ Proceed("SUCCESS")
                   /\ faults' = faults + Missed(met)
                \/ s.active /\ ~s.in_progress
                   /\ Begin(found)
                   /\ discovery' = found.again
                   /\ faults' = faults + Missed(met)
                \/ s.active /\ s.in_progress
                   /\ \E result \in Results(s.id) :
                         /\ End(found, result)
                         /\ faults' = faults + Missed(met) + Misread(s.id, result)
                         /\ faults' <= MaxFaults
  BY DEF MeasHandler
<1> DEFINE found == SearchIfDue(met)
           s     == found.slots[cur]
<1>3. /\ Sound(found.slots) /\ found.again \in BOOLEAN
      /\ found.remaining \in 0..Periodicity * Expected
      /\ cur \in Places /\ remaining' = found.remaining
  BY <1>2, SearchIfDueSafe DEF OwInv, OwTypeOK
<1>4. Missed(met) \in Nat /\ faults \in Nat
  BY DEF Missed, OwInv, OwTypeOK
<1>5. \A result : Misread(s.id, result) \in Nat
  BY DEF Misread
<1>6. s \in Slot /\ s.active \in BOOLEAN /\ s.in_progress \in BOOLEAN
  BY <1>3 DEF Sound, Slot
<1> HIDE DEF found
<1>7. /\ sensors' \in [Places -> Slot]
      /\ discovery' \in BOOLEAN /\ faults' \in 0..MaxFaults
      /\ OneCycle' /\ OneConversion' /\ OneSlot' /\ cur' \in Places
      /\ {running', timer', queued', sem'} \subseteq BOOLEAN
      /\ \A k \in Places : sensors'[k].in_progress => sensors'[k].active
  <2>1. CASE ~s.active
    <3>1. /\ sensors' = found.slots /\ discovery' = found.again
          /\ Proceed("SUCCESS") /\ faults' = faults + Missed(met)
          /\ faults + Missed(met) <= MaxFaults
      BY <1>2, <2>1 DEF found
    <3>2. ~sensors'[cur].in_progress
      BY <1>3, <2>1, <3>1 DEF Sound
    <3>3. /\ OneCycle' /\ OneConversion' /\ cur' \in Places
          /\ {running', timer', queued', sem'} \subseteq BOOLEAN
      BY <1>1, <1>3, <3>1, <3>2, ProceedSafe
    <3>4. faults' \in 0..MaxFaults
      BY <1>4, <3>1
    <3> QED
      BY <1>3, <3>1, <3>3, <3>4 DEF OneSlot, Sound
  <2>2. CASE s.active /\ ~s.in_progress
    <3>1. /\ Begin(found) /\ discovery' = found.again /\ faults' = faults + Missed(met)
          /\ faults + Missed(met) <= MaxFaults
      BY <1>2, <2>2 DEF found
    <3>2. faults' \in 0..MaxFaults
      BY <1>4, <3>1
    <3>3. /\ sensors' \in [Places -> Slot]
          /\ OneCycle' /\ OneConversion' /\ OneSlot' /\ cur' \in Places
          /\ {running', timer', queued', sem'} \subseteq BOOLEAN
          /\ \A k \in Places : sensors'[k].in_progress => sensors'[k].active
      BY <1>1, <2>2, <3>1, BeginSafe DEF found
    <3> QED
      BY <1>3, <3>1, <3>2, <3>3
  <2>3. CASE s.active /\ s.in_progress
    <3>1. PICK result \in Results(s.id) :
             /\ End(found, result)
             /\ faults' = faults + Missed(met) + Misread(s.id, result)
             /\ faults' <= MaxFaults
      BY <1>2, <2>3 DEF found
    <3>2. faults' \in 0..MaxFaults
      BY <1>4, <1>5, <3>1
    <3>3. /\ Sound(sensors') /\ discovery' \in BOOLEAN
          /\ OneCycle' /\ OneConversion' /\ cur' \in Places
          /\ {running', timer', queued', sem'} \subseteq BOOLEAN
      BY <1>1, <3>1, EndSafe DEF found
    <3> QED
      BY <3>2, <3>3 DEF OneSlot, Sound
  <2> QED
    BY <1>6, <2>1, <2>2, <2>3, Zenon
<1>8. OwTypeOK'
  BY <1>1, <1>3, <1>7 DEF OwInv, OwTypeOK
<1> QED
  BY <1>7, <1>8 DEF OwInv, MeasurementsSound

-----------------------------------------------------------------------------
(* The turn of each slot *)

\* The runs of the work item until the measurement of a slot is over: two for each
\* slot before it, less one if the current conversion has begun.
RunsLeft(k) ==
    2 * ((k - cur) % Expected) + (IF sensors[cur].in_progress THEN 0 ELSE 1)

\* A run brings every slot but the current one closer to its turn, unless it
\* searches the bus and so begins a conversion again; nothing takes a slot further
\* from it but the end of its own.
TurnNears(k) ==
    /\ RunsLeft(k)' > RunsLeft(k) => MeasHandler /\ k = cur /\ ~sensors'[k].in_progress
    /\ MeasHandler /\ k # cur /\ ~SearchDue => RunsLeft(k)' < RunsLeft(k)

TurnComes ==
    /\ [](\A k \in Places : RunsLeft(k) \in 0..2 * Expected - 1)
    /\ [][\A k \in Places : TurnNears(k)]_owVars

\* A conversion begins, and not a second time but after a search.
Stays ==
    /\ cur' = cur /\ sensors'[cur].in_progress
    /\ sensors[cur].in_progress => SearchDue

\* The current slot is left, and none is under way.
Leaves ==
    /\ cur' = (cur + 1) % Expected
    /\ \A k \in Places : ~sensors'[k].in_progress

LEMMA NoneUnderWay ==
    ASSUME OwInv, Sound(sensors'), ~sensors'[cur].in_progress
    PROVE  \A k \in Places : ~sensors'[k].in_progress
BY DEF OwInv, MeasurementsSound, OneConversion, Sound

LEMMA HandlerTurns ==
    ASSUME OwInv, MeasHandler
    PROVE  Stays \/ Leaves
<1>1. PICK met \in SUBSET present :
         LET found == SearchIfDue(met)
             s     == found.slots[cur]
         IN  \/ ~s.active /\ sensors' = found.slots /\ Proceed("SUCCESS")
             \/ s.active /\ ~s.in_progress /\ Begin(found)
             \/ s.active /\ s.in_progress
                /\ \E result \in Results(s.id) : End(found, result)
  BY DEF MeasHandler
<1> DEFINE found == SearchIfDue(met)
           s     == found.slots[cur]
<1>2. Sound(found.slots) /\ cur \in Places
  BY SearchIfDueSafe DEF OwInv, OwTypeOK
<1>3. s \in Slot /\ s.active \in BOOLEAN /\ s.in_progress \in BOOLEAN
  BY <1>2 DEF Sound, Slot
<1>4. ~SearchDue => found.slots = sensors
  BY DEF SearchIfDue, NotSearched
<1> HIDE DEF found
<1>5. CASE ~s.active
  <2>1. sensors' = found.slots /\ Proceed("SUCCESS")
    BY <1>1, <1>5 DEF found
  <2>2. Sound(sensors') /\ ~sensors'[cur].in_progress
    BY <1>2, <1>5, <2>1 DEF Sound
  <2> QED
    BY <2>1, <2>2, NoneUnderWay DEF Leaves, Proceed
<1>6. CASE s.active /\ ~s.in_progress
  <2>1. Begin(found)
    BY <1>1, <1>6 DEF found
  <2>2. CASE StartResult = "SUCCESS"
    <3>1. sensors' = [found.slots EXCEPT ![cur].in_progress = TRUE] /\ cur' = cur
      BY <2>1, <2>2 DEF Begin
    <3>2. sensors'[cur].in_progress
      BY <1>2, <1>3, <3>1 DEF Sound, Slot
    <3>3. sensors[cur].in_progress => SearchDue
      BY <1>4, <1>6
    <3> QED
      BY <3>1, <3>2, <3>3 DEF Stays
  <2>3. CASE StartResult # "SUCCESS"
    <3>1. sensors' = [found.slots EXCEPT ![cur] = Failed(@)] /\ Proceed(StartResult)
      BY <2>1, <2>3 DEF Begin
    <3> DEFINE failed == Failed(s)
    <3>2. /\ failed \in Slot /\ failed.id = s.id
          /\ failed.active = s.active /\ ~failed.in_progress
      BY <1>3, <1>6, ResultKeeps
    <3> HIDE DEF failed
    <3>3. sensors' = [found.slots EXCEPT ![cur] = failed]
      BY <3>1 DEF failed
    <3>4. \A k \in Places : sensors'[k] = IF k = cur THEN failed ELSE found.slots[k]
      BY <1>2, <3>3 DEF Sound
    <3>5. \A k \in Places : ~sensors'[k].in_progress
      BY <1>2, <3>2, <3>4 DEF Sound, OwInv, MeasurementsSound, OneConversion
    <3> QED
      BY <3>1, <3>5 DEF Leaves, Proceed
  <2> QED
    BY <2>2, <2>3
<1>7. CASE s.active /\ s.in_progress
  <2>1. PICK result \in Results(s.id) : End(found, result)
    BY <1>1, <1>7 DEF found
  <2>2. queued /\ queued' = FALSE /\ running' = running
    BY DEF MeasHandler
  <2>3. Sound(sensors')
    BY <2>1, <2>2, EndSafe DEF found
  <2>4. ~sensors'[cur].in_progress
    <3> DEFINE read  == [s EXCEPT !.in_progress = FALSE]
               done  == IF result = "SUCCESS" THEN Succeeded(read) ELSE Failed(read)
               gone  == GivenUp(done, result)
               last  == IF gone THEN [done EXCEPT !.active = FALSE, !.errors = 0] ELSE done
    <3>1. sensors' = [found.slots EXCEPT ![cur] = last]
      BY <2>1 DEF End
    <3>2. read \in Slot /\ ~read.in_progress
      BY <1>3 DEF Slot
    <3>3. done \in Slot /\ ~done.in_progress
      <4> HIDE DEF read
      <4> QED
        BY <3>2, ResultKeeps
    <3>4. ~last.in_progress
      <4> HIDE DEF done
      <4> QED
        BY <3>3 DEF Slot
    <3> HIDE DEF last
    <3> QED
      BY <1>2, <3>1, <3>4 DEF Sound
  <2> QED
    BY <2>1, <2>3, <2>4, NoneUnderWay DEF Leaves, End, Proceed
<1> QED
  BY <1>3, <1>5, <1>6, <1>7, Zenon

\* The distance round the slots, and the slot after the current one.
LEMMA Around ==
    ASSUME NEW n \in Nat, NEW k \in 0..n - 1, NEW c \in 0..n - 1
    PROVE  /\ (k - c) % n = IF k >= c THEN k - c ELSE k - c + n
           /\ (c + 1) % n = IF c + 1 = n THEN 0 ELSE c + 1
<1>1. (k - c) % n = IF k >= c THEN k - c ELSE k - c + n
  <2>1. ASSUME k >= c
        PROVE  (k - c) % n = k - c
    BY <2>1
  <2>2. ASSUME k < c
        PROVE  (k - c) % n = k - c + n
    BY <2>2
  <2> QED
    BY <2>1, <2>2
<1>2. (c + 1) % n = IF c + 1 = n THEN 0 ELSE c + 1
  <2>1. ASSUME c + 1 < n
        PROVE  (c + 1) % n = c + 1
    BY <2>1
  <2>2. n > 0 => n % n = 0
    OBVIOUS
  <2> QED
    BY <2>1, <2>2
<1> QED
  BY <1>1, <1>2

\* One slot fewer lies before any slot but the one that is left.
LEMMA NextIsNearer ==
    ASSUME NEW n \in Nat, NEW k \in 0..n - 1, NEW c \in 0..n - 1,
           NEW d, d = (c + 1) % n
    PROVE  /\ d \in 0..n - 1
           /\ (k - c) % n \in 0..n - 1
           /\ k # c => (k - d) % n = ((k - c) % n) - 1
<1>1. d = IF c + 1 = n THEN 0 ELSE c + 1
  BY Around
<1>2. d \in 0..n - 1
  BY <1>1
<1>3. (k - c) % n = IF k >= c THEN k - c ELSE k - c + n
  BY Around
<1>4. (k - d) % n = IF k >= d THEN k - d ELSE k - d + n
  BY <1>2, Around
<1> QED
  BY <1>1, <1>2, <1>3, <1>4

\* No measurement is under way before temp_start begins one.
StartsIdle == up # "UP" => sem

LEMMA StartsIdleNext == OwInv /\ StartsIdle /\ [OwNext]_owVars => StartsIdle'
<1> SUFFICES ASSUME OwInv, StartsIdle, [OwNext]_owVars PROVE StartsIdle'
  OBVIOUS
<1>1. CASE MeasHandler
  <2>1. up = "UP" /\ up' = up
    BY <1>1 DEF MeasHandler, OwInv, MeasurementsSound, OneCycle, StartsIdle
  <2> QED
    BY <2>1 DEF StartsIdle
<1>2. CASE StartDiscover \/ StartMeasure
  BY <1>2 DEF StartDiscover, StartMeasure, StartsIdle
<1>3. CASE MeasStart \/ MeasStop
  BY <1>3 DEF MeasStart, MeasStop, StartsIdle
<1>4. ASSUME MeasTimer \/ (\E id \in Sensors : Plug(id)) \/ UNCHANGED owVars
      PROVE  StartsIdle'
  BY <1>4 DEF MeasTimer, Plug, owVars, StartsIdle
<1> QED
  BY <1>1, <1>2, <1>3, <1>4 DEF OwNext

LEMMA TurnNearsNext ==
    ASSUME OwInv, OwInv', StartsIdle, [OwNext]_owVars, NEW k \in Places
    PROVE  TurnNears(k)
<1>1. /\ Expected \in Nat /\ Expected > 0
      /\ cur \in 0..Expected - 1 /\ k \in 0..Expected - 1
      /\ sensors[cur].in_progress \in BOOLEAN
  BY OwConstants DEF OwInv, OwTypeOK, Places, Slot
<1> DEFINE before == (k - cur) % Expected
<1>2. before \in 0..Expected - 1
  BY <1>1, NextIsNearer
<1>3. RunsLeft(k) = 2 * before + (IF sensors[cur].in_progress THEN 0 ELSE 1)
  BY DEF RunsLeft
<1> HIDE DEF before
<1>4. RunsLeft(k) \in Nat
  BY <1>2, <1>3
<1>5. ASSUME ~MeasHandler, cur' = cur,
             sensors'[cur].in_progress <=> sensors[cur].in_progress
      PROVE  TurnNears(k)
  <2>1. RunsLeft(k)' = RunsLeft(k)
    BY <1>5 DEF RunsLeft
  <2> QED
    BY <1>4, <1>5, <2>1 DEF TurnNears
<1>6. CASE MeasHandler /\ Stays
  <2>1. RunsLeft(k)' = 2 * before
    <3>1. RunsLeft(k)' =
              2 * ((k - cur') % Expected) + (IF sensors'[cur'].in_progress THEN 0 ELSE 1)
      BY DEF RunsLeft
    <3>2. cur' = cur /\ sensors'[cur'].in_progress
      BY <1>6 DEF Stays
    <3>3. RunsLeft(k)' = 2 * before + 0
      BY <3>1, <3>2 DEF before
    <3> QED
      BY <1>2, <3>3
  <2>2. ~SearchDue => RunsLeft(k) = 2 * before + 1
    BY <1>3, <1>6 DEF Stays
  <2> QED
    BY <1>2, <1>3, <2>1, <2>2 DEF TurnNears
<1>7. CASE MeasHandler /\ Leaves
  <2>1. cur' \in 0..Expected - 1 /\ cur' = (cur + 1) % Expected
        /\ ~sensors'[k].in_progress /\ ~sensors'[cur'].in_progress
    BY <1>1, <1>7, NextIsNearer DEF Leaves, Places
  <2>2. RunsLeft(k)' = 2 * ((k - cur') % Expected) + 1
    <3>1. RunsLeft(k)' =
              2 * ((k - cur') % Expected) + (IF sensors'[cur'].in_progress THEN 0 ELSE 1)
      BY DEF RunsLeft
    <3> QED
      BY <2>1, <3>1
  <2>3. k # cur => (k - cur') % Expected = before - 1
    <3>1. PICK d : d = cur'
      OBVIOUS
    <3>2. d = (cur + 1) % Expected
      BY <2>1, <3>1
    <3>3. k # cur => (k - d) % Expected = ((k - cur) % Expected) - 1
      BY <1>1, <3>2, NextIsNearer, Zenon
    <3> QED
      BY <3>1, <3>3 DEF before
  <2>4. k # cur => RunsLeft(k)' < RunsLeft(k)
    BY <1>2, <1>3, <2>2, <2>3
  <2>5. RunsLeft(k)' \in Int
    BY <1>1, <2>1, <2>2, NextIsNearer
  <2> QED
    BY <1>4, <1>7, <2>1, <2>4, <2>5 DEF TurnNears
<1>8. CASE StartDiscover \/ StartMeasure
  <2>1. sem /\ ~queued
    BY <1>8 DEF StartDiscover, StartMeasure, StartsIdle, OwInv, OwTypeOK,
                MeasurementsSound, OneCycle
  <2>2. ~MeasHandler /\ cur' = cur /\ sem' = sem
    BY <1>8, <2>1 DEF StartDiscover, StartMeasure, MeasHandler
  <2>3. ~sensors[cur].in_progress /\ ~sensors'[cur].in_progress
    BY <2>1, <2>2 DEF OwInv, OwTypeOK, MeasurementsSound, OneConversion
  <2> QED
    BY <1>5, <2>2, <2>3
<1>9. CASE ~MeasHandler /\ (MeasStart \/ MeasStop \/ MeasTimer)
  BY <1>5, <1>9 DEF MeasStart, MeasStop, MeasTimer
<1>10. ASSUME ~MeasHandler, NEW id \in Sensors, Plug(id)
       PROVE  TurnNears(k)
  BY <1>5, <1>10 DEF Plug
<1>11. CASE ~MeasHandler /\ UNCHANGED owVars
  BY <1>5, <1>11 DEF owVars
<1> QED
  BY <1>6, <1>7, <1>8, <1>9, <1>10, <1>11, HandlerTurns DEF OwNext

-----------------------------------------------------------------------------
(* The theorems *)

LEMMA OwInductive == OwInv /\ [OwNext]_owVars => OwInv'
<1> SUFFICES ASSUME OwInv, [OwNext]_owVars PROVE OwInv'
  OBVIOUS
<1>1. CASE UNCHANGED owVars
  BY <1>1 DEF owVars, OwInv, OwTypeOK, MeasurementsSound, OneCycle, OneConversion, OneSlot
<1>2. CASE OwNext
  BY <1>2, StartDiscoverInv, StartMeasureInv, ControlInv, MeasHandlerInv, PlugInv, Zenon
     DEF OwNext
<1> QED
  BY <1>1, <1>2

LEMMA OwInvariant == OwInit /\ [][OwNext]_owVars => []OwInv
<1>1. OwInit => OwInv
  BY OwInitInv
<1>2. OwInv /\ [OwNext]_owVars => OwInv'
  BY OwInductive
<1> QED
  BY <1>1, <1>2, PTL

\* The state of the measurements keeps to its type: the error counters to their
\* width, and the time to the next search does not wrap below zero.
THEOREM OwTypeCorrect == OwSpec => []OwTypeOK
<1>1. OwInv => OwTypeOK
  BY DEF OwInv
<1> QED
  BY <1>1, OwInvariant, PTL DEF OwSpec

\* One measurement is under way at most, the semaphore is free when there is none,
\* a conversion is awaited of the current sensor only, and a sensor has one slot,
\* for any number of slots and sensors and however sensors come, go and fail.
THEOREM MeasurementsSoundHolds == OwSpec => []MeasurementsSound
<1>1. OwInv => MeasurementsSound
  BY DEF OwInv
<1> QED
  BY <1>1, OwInvariant, PTL DEF OwSpec

\* The safety half of SensorsServed: the turn of every slot comes, within two runs
\* of the work item for each slot and the ones that search the bus (meas_handler).
THEOREM TurnComesHolds == OwSpec => TurnComes
<1> DEFINE Reach == \A k \in Places : RunsLeft(k) \in 0..2 * Expected - 1
           Nears == \A k \in Places : TurnNears(k)
<1>1. OwInv => Reach
  <2> SUFFICES ASSUME OwInv, NEW k \in Places
               PROVE  RunsLeft(k) \in 0..2 * Expected - 1
    OBVIOUS
  <2>1. Expected \in Nat /\ cur \in 0..Expected - 1 /\ k \in 0..Expected - 1
    BY OwConstants DEF OwInv, OwTypeOK, Places
  <2>2. (k - cur) % Expected \in 0..Expected - 1
    BY <2>1, NextIsNearer
  <2> QED
    BY <2>1, <2>2 DEF RunsLeft
<1>2. OwInv /\ OwInv' /\ StartsIdle /\ [OwNext]_owVars => [Nears]_owVars
  BY TurnNearsNext
<1>3. OwInit => StartsIdle
  BY DEF OwInit, StartsIdle
<1>4. OwInv /\ StartsIdle /\ [OwNext]_owVars => StartsIdle'
  BY StartsIdleNext
<1> HIDE DEF Reach, Nears
<1>5. OwSpec => []Reach /\ [][Nears]_owVars
  BY <1>1, <1>2, <1>3, <1>4, OwInvariant, PTL DEF OwSpec
<1> QED
  BY <1>5 DEF TurnComes, Reach, Nears

-----------------------------------------------------------------------------
(* The composition *)

\* In a behaviour of the composition each part behaves as it does alone, whichever
\* of them moves.
LEMMA PartsBehave ==
    DevicesSpec => /\ Spec
                   /\ MultiInit /\ [][MultiNext]_multiVars
                   /\ OwInit /\ [][OwNext]_owVars
<1>1. DevicesInit => Init /\ MultiInit /\ OwInit
  BY DEF DevicesInit
<1>2. [DevicesNext]_devicesVars => [Next]_vars /\ [MultiNext]_multiVars /\ [OwNext]_owVars
  BY DEF DevicesNext, devicesVars
<1> QED
  BY <1>1, <1>2, PTL DEF DevicesSpec, Spec

\* Every variable of the three parts keeps to its type, for any number of heaters,
\* instances, sensors and slots, and any durations.
THEOREM DevicesTypeCorrect == DevicesSpec => []DevicesTypeOK
<1>1. MultiInv => MultiTypeOK
  BY DEF MultiInv
<1>2. OwInv => OwTypeOK
  BY DEF OwInv
<1>3. TypeOK /\ MultiTypeOK /\ OwTypeOK => DevicesTypeOK
  BY DEF DevicesTypeOK
<1> QED
  BY <1>1, <1>2, <1>3, PartsBehave, TypeCorrect, MultiInvariant, OwInvariant, PTL
=============================================================================
