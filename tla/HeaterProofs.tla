---------------------------- MODULE HeaterProofs ----------------------------
(***************************************************************************)
(* Theorems about Heater, for any set of heaters, any durations and any    *)
(* latency of the workqueue.                                               *)
(*                                                                         *)
(* A heater's operations act on its own record, so each invariant is a     *)
(* predicate of one record.  The lemmas say what each operation does to    *)
(* it; the theorems lift them to the actions.                              *)
(***************************************************************************)
EXTENDS Heater, TLAPS

\* What the operations of the driver preserve whatever a frame carries.
SteadyRecord(r) ==
    ~InMin(r) => /\ r.ev = Unscheduled
                 /\ r.pos = SteadyPos(r.mode)
                 /\ r.neg = SteadyNeg(r.mode)

PhaseRecord(r) == InMin(r) /\ r.active => r.pos /\ r.neg

\* What they preserve when frames carry modes only.
StallRecord(r) == InMin(r) => Pending(r)

DueRecord(r) == InMin(r) /\ r.pos # r.neg => Expired(r.ev) \/ r.work # Idle

USE DEF EventTime, WorkState, Unscheduled, Idle

-----------------------------------------------------------------------------
(* What the operations do to a heater's record *)

LEMMA PhaseTicksType ==
    ASSUME NEW mode \in MinModes, NEW active \in BOOLEAN
    PROVE  PhaseTicks(mode, active) \in Nat
BY TicksAssumption DEF PhaseTicks, ActiveTicks

LEMMA SetModeSafe ==
    ASSUME NEW r \in HeaterState, NEW mode \in Modes \cup {Invalid}
    PROVE  /\ SetMode(r, mode) \in HeaterState
           /\ SteadyRecord(r) => SteadyRecord(SetMode(r, mode))
           /\ PhaseRecord(r) => PhaseRecord(SetMode(r, mode))
<1> DEFINE c == CancelOnExit(r, mode)
<1>1. c \in HeaterState
  BY DEF HeaterState, CancelOnExit, Cancel
<1>2. CASE mode \in SteadyModes
  <2>1. mode \notin MinModes
    BY <1>2 DEF SteadyModes, MinModes
  <2>2. SetMode(r, mode) = SetSteady(c, mode)
    BY <1>2 DEF SetMode, MinModes, SteadyModes
  <2>3. SetSteady(c, mode) \in HeaterState
    <3>1. SteadyPos(mode) \in BOOLEAN /\ SteadyNeg(mode) \in BOOLEAN
      BY DEF SteadyPos, SteadyNeg
    <3> QED
      BY <1>1, <1>2, <3>1 DEF SetSteady, HeaterState, Modes
  <2>4. SteadyRecord(r) => SteadyRecord(SetSteady(c, mode))
    BY <1>2, <2>1 DEF SteadyRecord, InMin, SetSteady, CancelOnExit, Cancel,
                      HeaterState
  <2>5. PhaseRecord(SetSteady(c, mode))
    BY <1>1, <2>1 DEF PhaseRecord, InMin, SetSteady, HeaterState
  <2> QED
    BY <2>2, <2>3, <2>4, <2>5
<1>3. CASE mode \in MinModes
  <2>1. SetMode(r, mode) = SetMin(r, mode)
    BY <1>3 DEF SetMode, CancelOnExit, MinModes, SteadyModes
  <2>2. SetMin(r, mode) \in HeaterState
    BY <1>3 DEF SetMin, HeaterState, Modes, Schedule
  <2>3. SteadyRecord(SetMin(r, mode))
    BY <1>3 DEF SteadyRecord, InMin, SetMin, HeaterState
  <2>4. PhaseRecord(r) => PhaseRecord(SetMin(r, mode))
    BY <1>3 DEF PhaseRecord, InMin, SetMin, HeaterState
  <2> QED
    BY <2>1, <2>2, <2>3, <2>4
<1>4. CASE mode = Invalid
  <2>1. SetMode(r, mode) = c
    BY <1>4 DEF SetMode, MinModes, SteadyModes, Invalid
  <2>2. SteadyRecord(r) => SteadyRecord(c)
    BY DEF SteadyRecord, InMin, CancelOnExit, Cancel, HeaterState
  <2>3. PhaseRecord(r) => PhaseRecord(c)
    BY DEF PhaseRecord, InMin, CancelOnExit, Cancel, HeaterState
  <2> QED
    BY <1>1, <2>1, <2>2, <2>3
<1> QED
  BY <1>2, <1>3, <1>4 DEF Modes

LEMMA EventCbSafe ==
    ASSUME NEW r \in HeaterState
    PROVE  /\ EventCb(r) \in HeaterState
           /\ SteadyRecord(r) => SteadyRecord(EventCb(r))
           /\ PhaseRecord(r) => PhaseRecord(EventCb(r))
           /\ StallRecord(EventCb(r))
           /\ DueRecord(EventCb(r))
<1>1. EventCb(r) \in HeaterState
  BY DEF EventCb, Submit, HeaterState
<1>2. SteadyRecord(r) => SteadyRecord(EventCb(r))
  BY DEF EventCb, HeaterState, SteadyRecord, InMin
<1>3. PhaseRecord(r) => PhaseRecord(EventCb(r))
  BY DEF EventCb, HeaterState, PhaseRecord, InMin
<1>4. EventCb(r).work # Idle
  BY DEF EventCb, Submit, HeaterState
<1> QED
  BY <1>1, <1>2, <1>3, <1>4 DEF StallRecord, DueRecord, Pending

LEMMA WorkCbSafe ==
    ASSUME NEW r \in HeaterState
    PROVE  /\ WorkCb(r) \in HeaterState
           /\ SteadyRecord(r) => SteadyRecord(WorkCb(r))
           /\ PhaseRecord(r) => PhaseRecord(WorkCb(r))
           /\ StallRecord(WorkCb(r))
           /\ DueRecord(WorkCb(r))
<1> DEFINE dequeued == [r EXCEPT !.work = Idle]
<1>1. dequeued \in HeaterState
  BY DEF HeaterState
<1>2. CASE InMin(r)
  <2>1. WorkCb(r) = NextPhase(dequeued)
    BY <1>2 DEF WorkCb, InMin
  <2>2. PhaseTicks(dequeued.mode, ~dequeued.active) \in Nat
    BY <1>1, <1>2, PhaseTicksType DEF InMin, HeaterState
  <2>3. NextPhase(dequeued) \in HeaterState
    BY <1>1, <2>2, ZenonT(60) DEF NextPhase, Schedule, HeaterState
  <2>4. /\ SteadyRecord(NextPhase(dequeued))
        /\ PhaseRecord(NextPhase(dequeued))
        /\ StallRecord(NextPhase(dequeued))
        /\ DueRecord(NextPhase(dequeued))
    BY <1>1, <1>2, <2>2
    DEF NextPhase, Schedule, HeaterState, SteadyRecord, PhaseRecord,
        StallRecord, DueRecord, Pending, InMin
  <2> QED
    BY <2>1, <2>3, <2>4
<1>3. CASE ~InMin(r)
  BY <1>1, <1>3 DEF WorkCb, InMin, HeaterState, SteadyRecord, PhaseRecord,
                    StallRecord, DueRecord
<1> QED
  BY <1>2, <1>3

LEMMA AgeSafe ==
    ASSUME NEW r \in HeaterState, ~Expired(r.ev)
    PROVE  /\ Age(r) \in HeaterState
           /\ SteadyRecord(r) => SteadyRecord(Age(r))
           /\ PhaseRecord(r) => PhaseRecord(Age(r))
           /\ StallRecord(r) => StallRecord(Age(r))
           /\ DueRecord(r) => DueRecord(Age(r))
<1>1. Age(r) \in HeaterState
  <2>1. Elapse(r.ev) \in EventTime /\ Wait(r.work) \in WorkState
    BY DEF Expired, Elapse, Wait, HeaterState
  <2> QED
    BY <2>1 DEF Age, HeaterState
<1>2. SteadyRecord(r) => SteadyRecord(Age(r))
  BY DEF Age, Elapse, HeaterState, SteadyRecord, InMin
<1>3. PhaseRecord(r) => PhaseRecord(Age(r))
  BY DEF Age, HeaterState, PhaseRecord, InMin
<1>4. StallRecord(r) => StallRecord(Age(r))
  BY DEF Age, Expired, Elapse, Wait, HeaterState, StallRecord, Pending, InMin
<1>5. DueRecord(r) => DueRecord(Age(r))
  BY DEF Age, Expired, Wait, HeaterState, DueRecord, InMin
<1> QED
  BY <1>1, <1>2, <1>3, <1>4, <1>5

\* A valid mode leaves a heater of COMFORT -1/-2 with a phase change on the way.
LEMMA SetModeAlive ==
    ASSUME NEW r \in HeaterState, NEW mode \in Modes,
           SteadyRecord(r), StallRecord(r), DueRecord(r)
    PROVE  StallRecord(SetMode(r, mode)) /\ DueRecord(SetMode(r, mode))
<1>1. CASE mode \in SteadyModes
  BY <1>1 DEF SetMode, SetSteady, CancelOnExit, Cancel, StallRecord, DueRecord,
              InMin, HeaterState, SteadyModes, MinModes
<1>2. CASE mode \in MinModes
  <2>1. SetMode(r, mode) = SetMin(r, mode)
    BY <1>2 DEF SetMode, CancelOnExit, MinModes, SteadyModes
  <2>2. StallRecord(SetMin(r, mode))
    BY DEF SetMin, Schedule, StallRecord, Pending, HeaterState
  <2>3. DueRecord(SetMin(r, mode))
    <3>1. CASE r.ev = Unscheduled
      BY <3>1 DEF SetMin, Schedule, DueRecord, Expired, HeaterState
    <3>2. CASE r.ev # Unscheduled
      BY <3>2 DEF SetMin, Schedule, DueRecord, SteadyRecord, Expired,
                  InMin, HeaterState
    <3> QED
      BY <3>1, <3>2
  <2> QED
    BY <2>1, <2>2, <2>3
<1> QED
  BY <1>1, <1>2 DEF Modes

LEMMA InitialHeaterSafe ==
    /\ InitialHeater \in HeaterState
    /\ SteadyRecord(InitialHeater)
    /\ PhaseRecord(InitialHeater)
    /\ StallRecord(InitialHeater)
    /\ DueRecord(InitialHeater)
<1> DEFINE zeroed == [mode |-> "COMFORT", active |-> FALSE, ev |-> Unscheduled,
                      work |-> Idle, pos |-> TRUE, neg |-> TRUE]
<1>1. zeroed \in HeaterState
  BY DEF HeaterState, Modes, SteadyModes
<1>2. InitialHeater = SetSteady(zeroed, "OFF")
  BY DEF InitialHeater, SetMode, CancelOnExit, Cancel, SteadyModes, MinModes
<1>3. InitialHeater \in HeaterState
  BY <1>1, SetModeSafe DEF InitialHeater, Modes, SteadyModes
<1>4. InitialHeater.mode = "OFF" /\ InitialHeater.ev = Unscheduled
  BY <1>2 DEF SetSteady
<1>5. /\ InitialHeater.pos = SteadyPos("OFF")
      /\ InitialHeater.neg = SteadyNeg("OFF")
  BY <1>2 DEF SetSteady
<1> QED
  BY <1>3, <1>4, <1>5
  DEF SteadyRecord, PhaseRecord, StallRecord, DueRecord, InMin, MinModes

-----------------------------------------------------------------------------
(* Type correctness *)

LEMMA GhostTypes ==
    /\ 0 \in 0..SettleTicks
    /\ \A t \in 0..SettleTicks : Saturate(t) \in 0..SettleTicks
<1>1. SettleTicks \in Nat
  BY TicksAssumption DEF SettleTicks
<1> QED
  BY <1>1 DEF Saturate

LEMMA CommandTypes ==
    ASSUME NEW cmds \in [Heaters -> Commands \cup {None}], NEW h \in Heaters,
           cmds[h] # None
    PROVE  cmds[h] \in Commands /\ cmds[h] \in Modes \cup {Invalid}
BY CommandsAssumption

\* Every operation leaves a well-formed heater, with delays that are natural
\* numbers: no phase of COMFORT -1/-2 has a negative length (heater.c).
THEOREM TypeCorrect == Spec => []TypeOK
<1>1. Init => TypeOK
  BY InitialHeaterSafe, GhostTypes DEF Init, TypeOK
<1>2. TypeOK /\ [Next]_vars => TypeOK'
  <2> SUFFICES ASSUME TypeOK, [Next]_vars
               PROVE  TypeOK'
    OBVIOUS
  <2> USE DEF TypeOK
  <2>1. ASSUME NEW cmds \in [Heaters -> Commands \cup {None}], AppCommand(cmds)
        PROVE  TypeOK'
    <3>1. hs' \in [Heaters -> HeaterState]
      BY <2>1, CommandTypes, SetModeSafe DEF AppCommand
    <3>2. quiet' \in [Heaters -> 0..SettleTicks]
      BY <2>1, GhostTypes DEF AppCommand
    <3>3. held' \in [Heaters -> 0..SettleTicks]
      BY <2>1, GhostTypes DEF AppCommand, HeldAfter
    <3> QED
      BY <3>1, <3>2, <3>3
  <2>2. ASSUME NEW h \in Heaters, EventFires(h)
        PROVE  TypeOK'
    BY <2>2, EventCbSafe DEF EventFires
  <2>3. ASSUME NEW h \in Heaters, WorkRuns(h)
        PROVE  TypeOK'
    <3>1. hs' \in [Heaters -> HeaterState]
      BY <2>3, WorkCbSafe DEF WorkRuns
    <3>2. held' \in [Heaters -> 0..SettleTicks]
      BY <2>3, GhostTypes DEF WorkRuns, HeldAfter
    <3> QED
      BY <2>3, <3>1, <3>2 DEF WorkRuns
  <2>4. ASSUME Tick
        PROVE  TypeOK'
    <3>1. hs' = [h \in Heaters |-> Age(hs[h])]
      BY <2>4 DEF Tick
    <3>2. hs' \in [Heaters -> HeaterState]
      BY <2>4, <3>1, AgeSafe DEF Tick
    <3>3. /\ quiet' \in [Heaters -> 0..SettleTicks]
          /\ held' \in [Heaters -> 0..SettleTicks]
      BY <2>4, GhostTypes DEF Tick
    <3> QED
      BY <3>2, <3>3
  <2>5. CASE UNCHANGED vars
    BY <2>5 DEF vars
  <2> QED
    BY <2>1, <2>2, <2>3, <2>4, <2>5 DEF Next
<1> QED
  BY <1>1, <1>2, PTL DEF Spec

-----------------------------------------------------------------------------
(* Safety *)

\* In a steady mode the outputs are the mode's.
LEMMA SteadyAlways == Spec => [](\A h \in Heaters : SteadyRecord(hs[h]))
<1> DEFINE Inv == \A h \in Heaters : SteadyRecord(hs[h])
<1>1. Init => Inv
  BY InitialHeaterSafe DEF Init
<1>2. TypeOK /\ Inv /\ [Next]_vars => Inv'
  <2> SUFFICES ASSUME TypeOK, Inv, [Next]_vars, NEW h \in Heaters
               PROVE  SteadyRecord(hs[h])'
    OBVIOUS
  <2>0. hs[h] \in HeaterState
    BY DEF TypeOK
  <2>1. ASSUME NEW cmds \in [Heaters -> Commands \cup {None}], AppCommand(cmds)
        PROVE  SteadyRecord(hs'[h])
    BY <2>0, <2>1, CommandTypes, SetModeSafe DEF AppCommand
  <2>2. ASSUME NEW i \in Heaters, EventFires(i)
        PROVE  SteadyRecord(hs'[h])
    BY <2>0, <2>2, EventCbSafe DEF EventFires, TypeOK
  <2>3. ASSUME NEW i \in Heaters, WorkRuns(i)
        PROVE  SteadyRecord(hs'[h])
    BY <2>0, <2>3, WorkCbSafe DEF WorkRuns, TypeOK
  <2>4. ASSUME Tick
        PROVE  SteadyRecord(hs'[h])
    BY <2>0, <2>4, AgeSafe DEF Tick
  <2>5. CASE UNCHANGED vars
    BY <2>5 DEF vars
  <2> QED
    BY <2>1, <2>2, <2>3, <2>4, <2>5 DEF Next
<1> QED
  BY <1>1, <1>2, TypeCorrect, PTL DEF Spec

\* Whatever a frame carries, invalid modes included: no event runs in a steady
\* mode, though a work item of the mode that was left may still be queued
\* (heater_set_mode, heater_ev_cb).
SteadyOutputs ==
    \A h \in Heaters : ~InMin(hs[h]) =>
        /\ hs[h].ev = Unscheduled
        /\ hs[h].pos = SteadyPos(hs[h].mode)
        /\ hs[h].neg = SteadyNeg(hs[h].mode)

LEMMA SteadyOutputsHold == Spec => []SteadyOutputs
<1>1. (\A h \in Heaters : SteadyRecord(hs[h])) => SteadyOutputs
  BY DEF SteadyRecord, SteadyOutputs
<1> QED
  BY <1>1, SteadyAlways, PTL

\* In a pulsed mode, the outputs of an active phase are active.
LEMMA PhaseAlways == Spec => [](\A h \in Heaters : PhaseRecord(hs[h]))
<1> DEFINE Inv == \A h \in Heaters : PhaseRecord(hs[h])
<1>1. Init => Inv
  BY InitialHeaterSafe DEF Init
<1>2. TypeOK /\ Inv /\ [Next]_vars => Inv'
  <2> SUFFICES ASSUME TypeOK, Inv, [Next]_vars, NEW h \in Heaters
               PROVE  PhaseRecord(hs[h])'
    OBVIOUS
  <2>0. hs[h] \in HeaterState
    BY DEF TypeOK
  <2>1. ASSUME NEW cmds \in [Heaters -> Commands \cup {None}], AppCommand(cmds)
        PROVE  PhaseRecord(hs'[h])
    BY <2>0, <2>1, CommandTypes, SetModeSafe DEF AppCommand
  <2>2. ASSUME NEW i \in Heaters, EventFires(i)
        PROVE  PhaseRecord(hs'[h])
    BY <2>0, <2>2, EventCbSafe DEF EventFires, TypeOK
  <2>3. ASSUME NEW i \in Heaters, WorkRuns(i)
        PROVE  PhaseRecord(hs'[h])
    BY <2>0, <2>3, WorkCbSafe DEF WorkRuns, TypeOK
  <2>4. ASSUME Tick
        PROVE  PhaseRecord(hs'[h])
    BY <2>0, <2>4, AgeSafe DEF Tick
  <2>5. CASE UNCHANGED vars
    BY <2>5 DEF vars
  <2> QED
    BY <2>1, <2>2, <2>3, <2>4, <2>5 DEF Next
<1> QED
  BY <1>1, <1>2, TypeCorrect, PTL DEF Spec

\* The actions of the heaters, each as what pilot wires do or nothing.
SteadyAndPhased(h) ==
    hs[h] \in HeaterState /\ SteadyRecord(hs[h]) /\ PhaseRecord(hs[h])

SameWire(h) == hs'[h].mode = hs[h].mode /\ Signal(hs'[h]) = Signal(hs[h])

LEMMA SteadySignalIs ==
    ASSUME NEW r \in HeaterState, SteadyRecord(r), ~InMin(r)
    PROVE  r.mode \in SteadyModes /\ Signal(r) = Wire!SteadySignal[r.mode]
<1>1. r.mode \in SteadyModes
  BY DEF HeaterState, Modes, InMin
<1>2. /\ r.pos <=> SteadyPos(r.mode)
      /\ r.neg <=> SteadyNeg(r.mode)
  BY DEF SteadyRecord
<1>3. CASE r.mode = "COMFORT"
  BY <1>2, <1>3 DEF SteadyPos, SteadyNeg, Signal, SteadyModes, Wire!SteadySignal
<1>4. CASE r.mode = "ENERGY_SAVING"
  BY <1>2, <1>4 DEF SteadyPos, SteadyNeg, Signal, SteadyModes, Wire!SteadySignal
<1>5. CASE r.mode = "FROST_FREE"
  BY <1>2, <1>5 DEF SteadyPos, SteadyNeg, Signal, SteadyModes, Wire!SteadySignal
<1>6. CASE r.mode = "OFF"
  BY <1>2, <1>6 DEF SteadyPos, SteadyNeg, Signal, SteadyModes, Wire!SteadySignal
<1> QED
  BY <1>1, <1>3, <1>4, <1>5, <1>6 DEF SteadyModes

\* A command gives a heater a mode, or none; its wire carries that mode's signal or
\* is left as it was for pulses.
LEMMA CommandOnWire ==
    ASSUME NEW r \in HeaterState, NEW mode \in Modes \cup {Invalid}
    PROVE  LET s == SetMode(r, mode)
           IN  InMin(s) => Signal(s) = Signal(r)
<1>1. CASE mode \in SteadyModes
  BY <1>1 DEF SetMode, SetSteady, CancelOnExit, Cancel, InMin, HeaterState,
              SteadyModes, MinModes
<1>2. CASE mode \in MinModes
  BY <1>2 DEF SetMode, SetMin, CancelOnExit, Schedule, Signal, HeaterState,
              SteadyModes, MinModes
<1>3. CASE mode = Invalid
  BY <1>3 DEF SetMode, CancelOnExit, Cancel, Signal, HeaterState, Invalid,
              SteadyModes, MinModes
<1> QED
  BY <1>1, <1>2, <1>3 DEF Modes

LEMMA WorkOnWire ==
    ASSUME NEW r \in HeaterState, PhaseRecord(r), NEW s, s = WorkCb(r)
    PROVE  /\ s.mode = r.mode
           /\ \/ Signal(s) = Signal(r)
              \/ /\ InMin(r)
                 /\ Signal(s) = IF Signal(r) = "COMPLETE" THEN "NONE" ELSE "COMPLETE"
<1>1. CASE InMin(r)
  <2>1. /\ s.mode = r.mode /\ s.pos = ~r.active /\ s.neg = ~r.active
    BY <1>1 DEF WorkCb, NextPhase, HeaterState, InMin
  <2> QED
    BY <1>1, <2>1 DEF Signal, PhaseRecord, HeaterState
<1>2. CASE ~InMin(r)
  BY <1>2 DEF WorkCb, InMin, HeaterState, Signal
<1> QED
  BY <1>1, <1>2

LEMMA WireStep ==
    ASSUME TypeOK, TypeOK', [Next]_vars, \A h \in Heaters : SteadyAndPhased(h),
           \A h \in Heaters : SteadyAndPhased(h)'
    PROVE  [Wire!PilotNext]_(Wire!wireVars)
<1> DEFINE mode   == [h \in Heaters |-> hs[h].mode]
           signal == [h \in Heaters |-> Signal(hs[h])]
<1>1. ASSUME \A h \in Heaters : SameWire(h)
      PROVE  UNCHANGED Wire!wireVars
  BY <1>1 DEF SameWire, Wire!wireVars
<1>2. ASSUME NEW cmds \in [Heaters -> Commands \cup {None}], AppCommand(cmds)
      PROVE  Wire!Told
  <2>1. mode' \in [Heaters -> DOMAIN Wire!SteadySignal \cup Wire!Pulsed]
    BY DEF TypeOK, HeaterState, Modes, SteadyModes, MinModes, Wire!SteadySignal, Wire!Pulsed
  <2>2. ASSUME NEW h \in Heaters
        PROVE  signal'[h] = IF mode'[h] \in Wire!Pulsed THEN signal[h]
                            ELSE Wire!SteadySignal[mode'[h]]
    <3>1. mode'[h] \in Wire!Pulsed <=> InMin(hs'[h])
      BY DEF InMin, MinModes, Wire!Pulsed
    <3>2. CASE InMin(hs'[h])
      <4>1. cmds[h] # None => hs'[h] = SetMode(hs[h], cmds[h])
        BY <1>2 DEF AppCommand
      <4>2. cmds[h] = None => hs'[h] = hs[h]
        BY <1>2 DEF AppCommand
      <4>3. hs[h] \in HeaterState
        BY DEF SteadyAndPhased
      <4>4. Signal(hs'[h]) = Signal(hs[h])
        BY <3>2, <4>1, <4>2, <4>3, CommandTypes, CommandOnWire
      <4> QED
        BY <3>1, <3>2, <4>4
    <3>3. CASE ~InMin(hs'[h])
      BY <3>1, <3>3, SteadySignalIs DEF SteadyAndPhased
    <3> QED
      BY <3>2, <3>3
  <2>3. signal' = [h \in Heaters |-> IF mode'[h] \in Wire!Pulsed THEN signal[h]
                                     ELSE Wire!SteadySignal[mode'[h]]]
    BY <2>2
  <2> QED
    BY <2>1, <2>3 DEF Wire!Told
<1>3. ASSUME NEW i \in Heaters, EventFires(i)
      PROVE  UNCHANGED Wire!wireVars
  <2>1. \A h \in Heaters : SameWire(h)
    BY <1>3 DEF EventFires, EventCb, SameWire, Signal, TypeOK, HeaterState
  <2> QED
    BY <1>1, <2>1
<1>4. ASSUME NEW i \in Heaters, WorkRuns(i)
      PROVE  [Wire!Pulse(i)]_(Wire!wireVars)
  <2>1. hs' = [hs EXCEPT ![i] = WorkCb(hs[i])]
    BY <1>4 DEF WorkRuns
  <2>2. \A h \in Heaters \ {i} : SameWire(h)
    BY <2>1 DEF SameWire, TypeOK
  <2>3. hs'[i] = WorkCb(hs[i]) /\ hs[i] \in HeaterState /\ PhaseRecord(hs[i])
    BY <2>1 DEF TypeOK, SteadyAndPhased
  <2>4. /\ hs'[i].mode = hs[i].mode
        /\ \/ Signal(hs'[i]) = Signal(hs[i])
           \/ /\ InMin(hs[i])
              /\ Signal(hs'[i]) = IF Signal(hs[i]) = "COMPLETE" THEN "NONE" ELSE "COMPLETE"
    BY <2>3, WorkOnWire
  <2>5. CASE Signal(hs'[i]) = Signal(hs[i])
    BY <1>1, <2>2, <2>4, <2>5 DEF SameWire
  <2>6. CASE /\ InMin(hs[i])
             /\ Signal(hs'[i]) = IF Signal(hs[i]) = "COMPLETE" THEN "NONE" ELSE "COMPLETE"
    <3>1. mode' = mode
      BY <2>2, <2>4 DEF SameWire
    <3>2. signal' = [signal EXCEPT ![i] = IF @ = "COMPLETE" THEN "NONE" ELSE "COMPLETE"]
      BY <2>2, <2>6 DEF SameWire
    <3>3. mode[i] \in Wire!Pulsed
      BY <2>6 DEF InMin, MinModes, Wire!Pulsed
    <3> QED
      BY <3>1, <3>2, <3>3 DEF Wire!Pulse
  <2> QED
    BY <2>4, <2>5, <2>6
<1>5. ASSUME Tick
      PROVE  UNCHANGED Wire!wireVars
  <2>1. ASSUME NEW h \in Heaters
        PROVE  SameWire(h)
    <3>1. hs'[h] = Age(hs[h]) /\ hs[h] \in HeaterState
      BY <1>5 DEF Tick, TypeOK
    <3>2. hs'[h].mode = hs[h].mode /\ hs'[h].pos = hs[h].pos /\ hs'[h].neg = hs[h].neg
      BY <3>1 DEF Age, HeaterState
    <3> QED
      BY <3>2 DEF SameWire, Signal
  <2> QED
    BY <1>1, <2>1
<1>6. CASE UNCHANGED vars
  BY <1>1, <1>6 DEF vars, SameWire
<1> QED
  BY <1>2, <1>3, <1>4, <1>5, <1>6 DEF Next, Wire!PilotNext

\* The heaters implement pilot wires, for any number of heaters, any values a frame
\* may carry, invalid ones included, and any delay between interrupts and work items.
THEOREM PilotWireImplemented == Spec => ImplementsPilotWire
<1> DEFINE Inv == TypeOK /\ \A h \in Heaters : SteadyAndPhased(h)
<1>1. Init => Wire!PilotInit
  <2>1. /\ InitialHeater \in HeaterState /\ SteadyRecord(InitialHeater)
        /\ InitialHeater.mode = "OFF" /\ ~InMin(InitialHeater)
    BY InitialHeaterSafe
    DEF InitialHeater, SetMode, SetSteady, CancelOnExit, SteadyModes, MinModes, InMin
  <2>2. Signal(InitialHeater) = Wire!SteadySignal["OFF"]
    BY <2>1, SteadySignalIs
  <2> QED
    BY <2>1, <2>2 DEF Init, Wire!PilotInit
<1>2. /\ TypeOK
      /\ \A h \in Heaters : SteadyRecord(hs[h])
      /\ \A h \in Heaters : PhaseRecord(hs[h])
      => Inv
  BY DEF TypeOK, SteadyAndPhased
<1>3. Inv /\ Inv' /\ [Next]_vars => [Wire!PilotNext]_(Wire!wireVars)
  BY WireStep
<1> HIDE DEF Inv
<1> QED
  BY <1>1, <1>2, <1>3, TypeCorrect, SteadyAlways, PhaseAlways, PTL
  DEF Spec, ImplementsPilotWire, Wire!PilotSpec

\* If every frame carries modes only, a pulsed heater never stalls, and a
\* half-phase signal left on its wire is about to end.  The steady outputs are
\* the strengthening: a heater that enters COMFORT -1/-2 has no event running,
\* so that the one heater_set_mode schedules is due at once.
THEOREM PulseAlive ==
    ASSUME Commands \subseteq Modes
    PROVE  Spec => [](NeverStalls /\ HalfPhaseIsDue)
<1> DEFINE Inv == \A h \in Heaters : StallRecord(hs[h]) /\ DueRecord(hs[h])
<1>1. Init => Inv
  BY InitialHeaterSafe DEF Init
<1>2. TypeOK /\ SteadyOutputs /\ Inv /\ [Next]_vars => Inv'
  <2> SUFFICES ASSUME TypeOK, SteadyOutputs, Inv, [Next]_vars, NEW h \in Heaters
               PROVE  StallRecord(hs'[h]) /\ DueRecord(hs'[h])
    OBVIOUS
  <2>0. hs[h] \in HeaterState /\ SteadyRecord(hs[h])
    BY DEF TypeOK, SteadyOutputs, SteadyRecord
  <2>1. ASSUME NEW cmds \in [Heaters -> Commands \cup {None}], AppCommand(cmds)
        PROVE  StallRecord(hs'[h]) /\ DueRecord(hs'[h])
    BY <2>0, <2>1, CommandTypes, SetModeAlive DEF AppCommand
  <2>2. ASSUME NEW i \in Heaters, EventFires(i)
        PROVE  StallRecord(hs'[h]) /\ DueRecord(hs'[h])
    BY <2>0, <2>2, EventCbSafe DEF EventFires, TypeOK
  <2>3. ASSUME NEW i \in Heaters, WorkRuns(i)
        PROVE  StallRecord(hs'[h]) /\ DueRecord(hs'[h])
    BY <2>0, <2>3, WorkCbSafe DEF WorkRuns, TypeOK
  <2>4. ASSUME Tick
        PROVE  StallRecord(hs'[h]) /\ DueRecord(hs'[h])
    BY <2>0, <2>4, AgeSafe DEF Tick
  <2>5. CASE UNCHANGED vars
    BY <2>5 DEF vars
  <2> QED
    BY <2>1, <2>2, <2>3, <2>4, <2>5 DEF Next
<1>3. Inv => NeverStalls /\ HalfPhaseIsDue
  BY DEF StallRecord, DueRecord, NeverStalls, HalfPhaseIsDue
<1> QED
  BY <1>1, <1>2, <1>3, TypeCorrect, SteadyOutputsHold, PTL DEF Spec

-----------------------------------------------------------------------------
(* The duty cycle: where in it a heater of COMFORT -1/-2 is *)

PhaseAt(r) == PhaseTicks(r.mode, r.pos)
InPhase(r) == r.pos = r.active /\ r.neg = r.active

\* q is the quiet time of the heater, k how long its signal has been held.

\* The phase change a command waits for: of the phase the command found, or at once.
Starting(r, q) ==
    \/ r.ev # Unscheduled /\ q + r.ev <= PeriodTicks /\ (r.work # Idle => r.ev = 0)
    \/ r.ev = Unscheduled /\ r.work # Idle /\ q <= PeriodTicks + r.work

\* The phase after it, whose signal may be older than the phase is.
FirstPhase(r, q) ==
    /\ InPhase(r)
    /\ \/ r.ev # Unscheduled /\ r.work = Idle
          /\ q + r.ev <= PeriodTicks + MaxLatency + PhaseAt(r)
       \/ r.ev = Unscheduled /\ r.work # Idle
          /\ q <= PeriodTicks + MaxLatency + PhaseAt(r) + r.work

\* Any later phase.
LaterPhase(r, k) ==
    /\ InPhase(r)
    /\ \/ r.ev # Unscheduled /\ r.work = Idle /\ k + r.ev = PhaseAt(r)
       \/ r.ev = Unscheduled /\ r.work # Idle /\ k = PhaseAt(r) + r.work

InCycle(r, q, k) ==
    /\ r.work <= MaxLatency /\ r.ev <= PeriodTicks
    /\ InMin(r) => Starting(r, q) \/ FirstPhase(r, q) \/ LaterPhase(r, k)

LEMMA PhaseBounds ==
    ASSUME NEW mode \in MinModes, NEW active \in BOOLEAN
    PROVE  PhaseTicks(mode, active) \in Nat /\ PhaseTicks(mode, active) < PeriodTicks
BY TicksAssumption DEF PhaseTicks, ActiveTicks

LEMMA SettleType ==
    /\ SettleTicks \in Nat /\ PeriodTicks \in Nat /\ MaxLatency \in Nat
    /\ SettleTicks = 2 * (PeriodTicks + MaxLatency)
    /\ 0 < PeriodTicks
BY TicksAssumption DEF SettleTicks

\* A command starts the cycle over, and never shortens the event it finds running.
LEMMA SetModeInCycle ==
    ASSUME NEW r \in HeaterState, NEW mode \in Modes,
           NEW q \in 0..SettleTicks, NEW k \in 0..SettleTicks, NEW j \in 0..SettleTicks,
           SteadyRecord(r), InCycle(r, q, k)
    PROVE  InCycle(SetMode(r, mode), 0, j)
<1>1. CASE mode \in SteadyModes
  BY <1>1, SettleType
  DEF SetMode, SetSteady, CancelOnExit, Cancel, InCycle, InMin, HeaterState,
      SteadyModes, MinModes
<1>2. CASE mode \in MinModes
  <2>1. SetMode(r, mode) = SetMin(r, mode)
    BY <1>2 DEF SetMode, CancelOnExit, MinModes, SteadyModes
  <2>2. /\ SetMin(r, mode).ev = IF r.ev = Unscheduled THEN 0 ELSE r.ev
        /\ SetMin(r, mode).work = r.work
    BY DEF SetMin, Schedule, HeaterState
  <2>3. r.ev # Unscheduled /\ r.work # Idle => r.ev = 0
    BY DEF InCycle, SteadyRecord, Starting, FirstPhase, LaterPhase
  <2>4. r.ev \in EventTime /\ r.work \in WorkState
    BY DEF HeaterState
  <2>5. Starting(SetMin(r, mode), 0)
    BY <2>2, <2>3, <2>4, SettleType DEF Starting, InCycle
  <2> QED
    BY <2>1, <2>2, <2>4, <2>5, SettleType DEF InCycle
<1> QED
  BY <1>1, <1>2 DEF Modes

LEMMA EventCbInCycle ==
    ASSUME NEW r \in HeaterState, Expired(r.ev),
           NEW q \in 0..SettleTicks, NEW k \in 0..SettleTicks, InCycle(r, q, k)
    PROVE  InCycle(EventCb(r), q, k)
<1> DEFINE e == EventCb(r)
<1>1. /\ e.mode = r.mode /\ e.pos = r.pos /\ e.neg = r.neg /\ e.active = r.active
      /\ e.ev = Unscheduled
      /\ e.work = IF r.work = Idle THEN 0 ELSE r.work
  BY DEF EventCb, Submit, HeaterState
<1>2. r.work \in WorkState /\ r.ev = 0
  BY DEF HeaterState, Expired
<1>3. e.work \in Nat /\ e.work <= MaxLatency /\ e.ev <= PeriodTicks
  BY <1>1, <1>2, SettleType DEF InCycle
<1> HIDE DEF e
<1>4. ASSUME InMin(r)
      PROVE  Starting(e, q) \/ FirstPhase(e, q) \/ LaterPhase(e, k)
  <2>1. PhaseAt(e) = PhaseAt(r) /\ PhaseAt(r) \in Nat
    BY <1>1, <1>4, PhaseBounds DEF PhaseAt, InMin, HeaterState
  <2>2. CASE Starting(r, q)
    BY <1>1, <1>2, <1>3, <2>2, SettleType DEF Starting
  <2>3. CASE FirstPhase(r, q)
    BY <1>1, <1>2, <1>3, <2>1, <2>3, SettleType DEF FirstPhase, InPhase
  <2>4. CASE LaterPhase(r, k)
    BY <1>1, <1>2, <1>3, <2>1, <2>4, SettleType DEF LaterPhase, InPhase
  <2> QED
    BY <1>4, <2>2, <2>3, <2>4 DEF InCycle
<1>5. InMin(e) <=> InMin(r)
  BY <1>1 DEF InMin
<1> QED
  BY <1>3, <1>4, <1>5 DEF InCycle, e

\* How long the signal has been held once the work item has run.
HeldThen(r, s, k) == IF SameSignal(r, s) THEN k ELSE 0

\* The first phase change may keep the signal; every later one toggles it, after
\* the phase's full length.
LEMMA WorkCbInCycle ==
    ASSUME NEW r \in HeaterState, r.work # Idle,
           NEW q \in 0..SettleTicks, NEW k \in 0..SettleTicks, InCycle(r, q, k)
    PROVE  InCycle(WorkCb(r), q, HeldThen(r, WorkCb(r), k))
<1>1. CASE ~InMin(r)
  BY <1>1, SettleType DEF InMin, WorkCb, InCycle, HeaterState
<1>2. CASE InMin(r)
  <2> DEFINE n == WorkCb(r)
             D == PhaseTicks(r.mode, ~r.active)
  <2>1. /\ n.mode = r.mode /\ n.work = Idle /\ InPhase(n) /\ n.active = ~r.active
        /\ n.ev = IF r.ev = Unscheduled THEN D ELSE r.ev
    BY <1>2 DEF WorkCb, NextPhase, Schedule, HeaterState, InMin, InPhase
  <2>2. D \in Nat /\ D < PeriodTicks /\ PhaseAt(n) = D
    BY <1>2, <2>1, PhaseBounds DEF InMin, InPhase, PhaseAt, HeaterState
  <2>3. r.ev \in EventTime /\ r.work \in Nat /\ r.work <= MaxLatency /\ r.ev <= PeriodTicks
    BY DEF HeaterState, InCycle
  <2> HIDE DEF n, D
  <2>4. n.work <= MaxLatency /\ n.ev <= PeriodTicks
    BY <2>1, <2>2, <2>3, SettleType
  <2>5. CASE Starting(r, q)
    <3>1. q + n.ev <= PeriodTicks + MaxLatency + D /\ n.ev # Unscheduled
      BY <2>1, <2>2, <2>3, <2>5, SettleType DEF Starting
    <3> QED
      BY <2>1, <2>2, <2>4, <3>1 DEF InCycle, FirstPhase, n
  <2>6. CASE InPhase(r) /\ r.ev = Unscheduled
    <3>1. ~SameSignal(r, n)
      BY <2>1, <2>6 DEF InPhase, SameSignal, HeaterState
    <3>2. LaterPhase(n, 0)
      BY <2>1, <2>2, <2>6 DEF LaterPhase
    <3> QED
      BY <2>4, <3>1, <3>2 DEF InCycle, HeldThen, n
  <2> QED
    BY <1>2, <2>5, <2>6 DEF InCycle, FirstPhase, LaterPhase
<1> QED
  BY <1>1, <1>2

LEMMA AgeInCycle ==
    ASSUME NEW r \in HeaterState, ~Expired(r.ev), r.work < MaxLatency,
           NEW q \in 0..SettleTicks, NEW k \in 0..SettleTicks, InCycle(r, q, k)
    PROVE  InCycle(Age(r), Saturate(q), Saturate(k))
<1> DEFINE n == Age(r)
           q1 == Saturate(q)
           k1 == Saturate(k)
<1>1. /\ n.mode = r.mode /\ n.pos = r.pos /\ n.neg = r.neg /\ n.active = r.active
      /\ n.ev = IF r.ev = Unscheduled THEN r.ev ELSE r.ev - 1
      /\ n.work = IF r.work = Idle THEN r.work ELSE r.work + 1
  BY DEF Age, Elapse, Wait, HeaterState
<1>2. r.work \in WorkState /\ r.ev \in EventTime /\ r.ev # 0
  BY DEF HeaterState, Expired
<1>3. /\ q1 \in Nat /\ q1 <= q + 1
      /\ k < SettleTicks => k1 = k + 1
  BY SettleType DEF Saturate
<1> HIDE DEF n, q1, k1
<1>4. n.work <= MaxLatency /\ n.ev <= PeriodTicks
  BY <1>1, <1>2, SettleType DEF InCycle
<1>5. ASSUME InMin(r)
      PROVE  Starting(n, q1) \/ FirstPhase(n, q1) \/ LaterPhase(n, k1)
  <2>1. PhaseAt(n) = PhaseAt(r) /\ PhaseAt(r) \in Nat /\ PhaseAt(r) < PeriodTicks
    BY <1>1, <1>5, PhaseBounds DEF PhaseAt, InMin, HeaterState
  <2>2. CASE Starting(r, q)
    BY <1>1, <1>2, <1>3, <2>2, SettleType DEF Starting
  <2>3. CASE FirstPhase(r, q)
    BY <1>1, <1>2, <1>3, <2>1, <2>3, SettleType DEF FirstPhase, InPhase
  <2>4. CASE LaterPhase(r, k)
    <3>1. k < SettleTicks
      BY <1>2, <2>1, <2>4, SettleType DEF LaterPhase
    <3> QED
      BY <1>1, <1>2, <1>3, <2>1, <2>4, <3>1, SettleType DEF LaterPhase, InPhase
  <2> QED
    BY <1>5, <2>2, <2>3, <2>4 DEF InCycle
<1>6. InMin(n) <=> InMin(r)
  BY <1>1 DEF InMin
<1> QED
  BY <1>4, <1>5, <1>6 DEF InCycle, n, q1, k1

CycleInv == \A h \in Heaters : InCycle(hs[h], quiet[h], held[h])

LEMMA CycleInvInit == Init => CycleInv
<1>1. ASSUME Init, NEW h \in Heaters
      PROVE  InCycle(hs[h], quiet[h], held[h])
  <2>1. /\ hs[h] = InitialHeater /\ quiet[h] = 0 /\ held[h] = 0
    BY <1>1 DEF Init
  <2>2. /\ InitialHeater.ev = Unscheduled /\ InitialHeater.work = Idle
        /\ ~InMin(InitialHeater)
    BY DEF InitialHeater, SetMode, SetSteady, CancelOnExit, Cancel, InMin,
           SteadyModes, MinModes
  <2> QED
    BY <2>1, <2>2, SettleType DEF InCycle
<1> QED
  BY <1>1 DEF CycleInv

LEMMA CycleInvNext ==
    ASSUME Commands \subseteq Modes
    PROVE  TypeOK /\ SteadyOutputs /\ CycleInv /\ [Next]_vars => CycleInv'
<1> SUFFICES ASSUME TypeOK, SteadyOutputs, CycleInv, [Next]_vars, NEW h \in Heaters
             PROVE  InCycle(hs'[h], quiet'[h], held'[h])
  BY DEF CycleInv
<1>0. /\ hs[h] \in HeaterState /\ SteadyRecord(hs[h])
      /\ quiet[h] \in 0..SettleTicks /\ held[h] \in 0..SettleTicks
      /\ InCycle(hs[h], quiet[h], held[h])
  BY DEF TypeOK, SteadyOutputs, SteadyRecord, CycleInv
<1>1. ASSUME NEW cmds \in [Heaters -> Commands \cup {None}], AppCommand(cmds)
      PROVE  InCycle(hs'[h], quiet'[h], held'[h])
  <2>1. CASE cmds[h] = None
    <3>1. hs'[h] = hs[h] /\ quiet'[h] = quiet[h] /\ held'[h] = held[h]
      BY <1>1, <2>1 DEF AppCommand, HeldAfter, SameSignal
    <3> QED
      BY <1>0, <3>1
  <2>2. CASE cmds[h] # None
    <3>1. hs'[h] = SetMode(hs[h], cmds[h]) /\ quiet'[h] = 0 /\ cmds[h] \in Modes
      BY <1>1, <2>2 DEF AppCommand
    <3>2. held'[h] \in 0..SettleTicks
      BY <1>0, <1>1, GhostTypes DEF AppCommand, HeldAfter
    <3> QED
      BY <1>0, <3>1, <3>2, SetModeInCycle
  <2> QED
    BY <2>1, <2>2
<1>2. ASSUME NEW i \in Heaters, EventFires(i)
      PROVE  InCycle(hs'[h], quiet'[h], held'[h])
  BY <1>0, <1>2, EventCbInCycle DEF EventFires, TypeOK
<1>3. ASSUME NEW i \in Heaters, WorkRuns(i)
      PROVE  InCycle(hs'[h], quiet'[h], held'[h])
  <2>1. /\ hs'[h] = IF h = i THEN WorkCb(hs[h]) ELSE hs[h]
        /\ quiet'[h] = quiet[h]
        /\ held'[h] = HeldThen(hs[h], hs'[h], held[h])
        /\ hs[i].work # Idle
    BY <1>3 DEF WorkRuns, HeldAfter, HeldThen, TypeOK
  <2>2. HeldThen(hs[h], hs[h], held[h]) = held[h]
    BY DEF HeldThen, SameSignal
  <2> QED
    BY <1>0, <2>1, <2>2, WorkCbInCycle
<1>4. ASSUME Tick
      PROVE  InCycle(hs'[h], quiet'[h], held'[h])
  <2>1. /\ hs'[h] = Age(hs[h]) /\ quiet'[h] = Saturate(quiet[h])
        /\ held'[h] = Saturate(held[h])
        /\ ~Expired(hs[h].ev) /\ hs[h].work < MaxLatency
    BY <1>4 DEF Tick
  <2> QED
    BY <1>0, <2>1, AgeInCycle
<1>5. CASE UNCHANGED vars
  BY <1>0, <1>5 DEF vars
<1> QED
  BY <1>1, <1>2, <1>3, <1>4, <1>5 DEF Next

\* After the quiet time of a settled heater, any phase but a later one is over.
LEMMA SettledIsLater ==
    ASSUME TypeOK, CycleInv, NEW h \in Heaters, InMin(hs[h]), Settled(h)
    PROVE  /\ LaterPhase(hs[h], held[h])
           /\ PhaseAt(hs[h]) \in Nat /\ hs[h].ev \in EventTime
           /\ hs[h].work <= MaxLatency /\ hs[h].work \in WorkState
<1>1. hs[h] \in HeaterState /\ InCycle(hs[h], quiet[h], held[h])
  BY DEF TypeOK, CycleInv
<1>2. hs[h].ev \in EventTime /\ hs[h].work \in WorkState
  BY <1>1 DEF HeaterState
<1>3. PhaseAt(hs[h]) \in Nat /\ PhaseAt(hs[h]) < PeriodTicks
  BY <1>1, PhaseBounds DEF PhaseAt, InMin, HeaterState
<1>4. ~Starting(hs[h], quiet[h])
  BY <1>1, <1>2, SettleType DEF Starting, InCycle, Settled
<1>5. ~FirstPhase(hs[h], quiet[h])
  BY <1>1, <1>2, <1>3, SettleType DEF FirstPhase, InCycle, Settled
<1> QED
  BY <1>1, <1>2, <1>3, <1>4, <1>5 DEF InCycle

\* If every frame carries modes only, then once commands stop a heater of COMFORT
\* -1/-2 settles in its duty cycle: no phase exceeds its duration by more than the
\* workqueue's latency, and none is cut short.
THEOREM DutyCycleHolds ==
    ASSUME Commands \subseteq Modes
    PROVE  Spec => DutyCycle
<1> DEFINE Long  == \A h \in Heaters : InMin(hs[h]) /\ Settled(h) => NoPhaseLong(h)
           Short == \A h \in Heaters : Toggles(h) /\ Settled(h) => FullPhase(h)
<1>1. TypeOK /\ CycleInv => Long
  <2> SUFFICES ASSUME TypeOK, CycleInv, NEW h \in Heaters, InMin(hs[h]), Settled(h)
               PROVE  NoPhaseLong(h)
    OBVIOUS
  <2>1. /\ LaterPhase(hs[h], held[h])
        /\ PhaseAt(hs[h]) \in Nat /\ hs[h].ev \in EventTime
        /\ hs[h].work <= MaxLatency /\ hs[h].work \in WorkState
    BY SettledIsLater
  <2>2. held[h] \in Int
    BY SettleType DEF TypeOK
  <2>3. held[h] <= PhaseAt(hs[h]) + MaxLatency
    BY <2>1, <2>2, SettleType DEF LaterPhase
  <2> QED
    BY <2>1, <2>3 DEF NoPhaseLong, LaterPhase, InPhase, PhaseAt
<1>2. TypeOK /\ CycleInv /\ [Next]_vars => [Short]_vars
  <2> SUFFICES ASSUME TypeOK, CycleInv, Next, NEW h \in Heaters, Toggles(h), Settled(h)
               PROVE  FullPhase(h)
    OBVIOUS
  <2>1. /\ LaterPhase(hs[h], held[h])
        /\ PhaseAt(hs[h]) \in Nat /\ hs[h].ev \in EventTime
        /\ hs[h].work <= MaxLatency /\ hs[h].work \in WorkState
    BY SettledIsLater DEF Toggles
  <2>2. ASSUME NEW cmds \in [Heaters -> Commands \cup {None}], AppCommand(cmds)
        PROVE  FALSE
    <3>1. CASE cmds[h] = None
      BY <2>2, <3>1 DEF AppCommand, Toggles
    <3>2. CASE cmds[h] # None
      <4>1. hs'[h] = SetMode(hs[h], cmds[h]) /\ cmds[h] \in Modes
        BY <2>2, <3>2 DEF AppCommand
      <4>2. hs[h] \in HeaterState
        BY DEF TypeOK
      <4>3. cmds[h] \in MinModes => hs'[h].pos = hs[h].pos
        BY <4>1, <4>2
        DEF SetMode, SetMin, CancelOnExit, HeaterState, SteadyModes, MinModes
      <4>4. cmds[h] \in SteadyModes => hs'[h].mode \notin MinModes
        BY <4>1, <4>2
        DEF SetMode, SetSteady, CancelOnExit, HeaterState, SteadyModes, MinModes
      <4> QED
        BY <4>1, <4>3, <4>4 DEF Toggles, InMin, Modes
    <3> QED
      BY <3>1, <3>2
  <2>3. ASSUME NEW i \in Heaters, EventFires(i)
        PROVE  FALSE
    BY <2>3 DEF EventFires, EventCb, Toggles, TypeOK, HeaterState
  <2>4. ASSUME NEW i \in Heaters, WorkRuns(i)
        PROVE  FullPhase(h)
    <3>1. hs[h].work # Idle
      BY <2>4 DEF WorkRuns, Toggles, TypeOK
    <3> QED
      BY <2>1, <3>1 DEF LaterPhase, FullPhase, PhaseAt
  <2>5. ASSUME Tick
        PROVE  FALSE
    BY <2>5 DEF Tick, Age, Toggles, TypeOK, HeaterState
  <2> QED
    BY <2>2, <2>3, <2>4, <2>5 DEF Next
<1> HIDE DEF Long, Short
<1>3. Spec => []Long /\ [][Short]_vars
  BY <1>1, <1>2, CycleInvInit, CycleInvNext, TypeCorrect, SteadyOutputsHold, PTL DEF Spec
<1> QED
  BY <1>3 DEF DutyCycle, Long, Short
-----------------------------------------------------------------------------
(* The time to the next phase change *)

\* How long a pulsed heater may still keep its phase.
PhaseLeft(r) == IF r.work # Idle THEN MaxLatency - r.work ELSE r.ev + MaxLatency

\* What a step may do to it but to change the phase or leave COMFORT -1/-2.
PhaseNears(h) ==
    /\ PhaseLeft(hs'[h]) <= PhaseLeft(hs[h])
    /\ Tick => PhaseLeft(hs'[h]) < PhaseLeft(hs[h])

\* A pulsed heater changes its phase within a period and the workqueue's latency,
\* a time every tick shortens and no command for either pulsed mode lengthens.
PulseInTime ==
    /\ [](\A h \in Heaters : InMin(hs[h]) => PhaseLeft(hs[h]) \in 0..PeriodTicks + MaxLatency)
    /\ [][\A h \in Heaters :
             InMin(hs[h]) => ~InMin(hs[h])' \/ WorkRuns(h) \/ PhaseNears(h)]_vars

LEMMA CommandNears ==
    ASSUME NEW r \in HeaterState, NEW mode \in Modes, NEW n, n = SetMode(r, mode),
           InMin(r), InMin(n), Pending(r)
    PROVE  PhaseLeft(n) = PhaseLeft(r)
<1>1. mode \in MinModes
  BY DEF SetMode, SetSteady, CancelOnExit, InMin, Modes, SteadyModes, MinModes, HeaterState
<1>2. n = SetMin(r, mode)
  BY <1>1 DEF SetMode, CancelOnExit, MinModes, SteadyModes
<1>3. n.work = r.work /\ n.ev = Schedule(r.ev, 0)
  BY <1>2 DEF SetMin, HeaterState
<1> QED
  BY <1>3 DEF PhaseLeft, Schedule, Pending

LEMMA EventNears ==
    ASSUME NEW r \in HeaterState, r.work <= MaxLatency, Expired(r.ev),
           NEW n, n = EventCb(r)
    PROVE  PhaseLeft(n) <= PhaseLeft(r)
<1>1. n.work = Submit(r.work) /\ r.ev = 0 /\ r.work \in WorkState
  BY DEF EventCb, HeaterState, Expired
<1> QED
  BY <1>1, SettleType DEF PhaseLeft, Submit

LEMMA AgeNears ==
    ASSUME NEW r \in HeaterState, Pending(r), NEW n, n = Age(r)
    PROVE  PhaseLeft(n) < PhaseLeft(r)
<1>1. n.ev = Elapse(r.ev) /\ n.work = Wait(r.work)
  BY DEF Age, HeaterState
<1>2. r.ev \in EventTime /\ r.work \in WorkState
  BY DEF HeaterState
<1>3. CASE r.work # Idle
  <2>1. n.work = r.work + 1 /\ n.work # Idle
    BY <1>1, <1>2, <1>3 DEF Wait
  <2> QED
    BY <1>2, <1>3, <2>1, SettleType DEF PhaseLeft
<1>4. CASE r.work = Idle
  <2>1. n.work = Idle /\ r.ev # Unscheduled
    BY <1>1, <1>4 DEF Wait, Pending
  <2>2. n.ev = r.ev - 1
    BY <1>1, <2>1 DEF Elapse
  <2> QED
    BY <1>2, <1>4, <2>1, <2>2, SettleType DEF PhaseLeft
<1> QED
  BY <1>3, <1>4

\* The safety half of KeepsPulsing: if every frame carries modes only, a pulsed
\* heater is always within reach of its next phase change, whatever commands for a
\* pulsed mode come (heater_set_mode, work_cb).
THEOREM PulseInTimeHolds ==
    ASSUME Commands \subseteq Modes
    PROVE  Spec => PulseInTime
<1> DEFINE Near == \A h \in Heaters :
               InMin(hs[h]) => PhaseLeft(hs[h]) \in 0..PeriodTicks + MaxLatency
           Nears == \A h \in Heaters :
               InMin(hs[h]) => ~InMin(hs[h])' \/ WorkRuns(h) \/ PhaseNears(h)
<1>1. TypeOK /\ NeverStalls /\ CycleInv => Near
  <2> SUFFICES ASSUME TypeOK, NeverStalls, CycleInv, NEW h \in Heaters, InMin(hs[h])
               PROVE  PhaseLeft(hs[h]) \in 0..PeriodTicks + MaxLatency
    OBVIOUS
  <2>1. /\ hs[h].ev \in EventTime /\ hs[h].work \in WorkState
        /\ hs[h].work <= MaxLatency /\ hs[h].ev <= PeriodTicks
    BY DEF TypeOK, HeaterState, CycleInv, InCycle
  <2>2. Pending(hs[h])
    BY DEF NeverStalls
  <2> QED
    BY <2>1, <2>2, SettleType DEF PhaseLeft, Pending
<1>2. TypeOK /\ NeverStalls /\ CycleInv /\ [Next]_vars => [Nears]_vars
  <2> SUFFICES ASSUME TypeOK, NeverStalls, CycleInv, Next,
                      NEW h \in Heaters, InMin(hs[h]), InMin(hs'[h]), ~WorkRuns(h)
               PROVE  PhaseNears(h)
    OBVIOUS
  <2>0. /\ hs[h] \in HeaterState /\ Pending(hs[h])
        /\ hs[h].work <= MaxLatency
        /\ hs[h].ev \in EventTime /\ hs[h].work \in WorkState
    BY DEF TypeOK, HeaterState, CycleInv, InCycle, NeverStalls
  <2>1. PhaseLeft(hs[h]) \in Int
    BY <2>0, SettleType DEF PhaseLeft
  <2>2. CASE Tick
    <3>1. hs'[h] = Age(hs[h])
      BY <2>2 DEF Tick
    <3>2. PhaseLeft(hs'[h]) < PhaseLeft(hs[h])
      BY <2>0, <3>1, AgeNears
    <3>3. PhaseLeft(hs'[h]) \in Int
      <4>1. hs'[h].work \in Int /\ hs'[h].ev \in Int
        BY <2>0, <3>1 DEF Age, Elapse, Wait, HeaterState
      <4> QED
        BY <4>1, SettleType DEF PhaseLeft
    <3> QED
      BY <2>1, <3>2, <3>3 DEF PhaseNears
  <2>3. ASSUME ~Tick, hs'[h] = hs[h]
        PROVE  PhaseNears(h)
    BY <2>1, <2>3 DEF PhaseNears
  <2>4. ASSUME ~Tick, NEW cmds \in [Heaters -> Commands \cup {None}], AppCommand(cmds)
        PROVE  PhaseNears(h)
    <3>1. CASE cmds[h] = None
      BY <2>3, <2>4, <3>1 DEF AppCommand
    <3>2. CASE cmds[h] # None
      <4>1. hs'[h] = SetMode(hs[h], cmds[h]) /\ cmds[h] \in Modes
        BY <2>4, <3>2 DEF AppCommand
      <4>2. PhaseLeft(hs'[h]) = PhaseLeft(hs[h])
        BY <2>0, <4>1, CommandNears
      <4> QED
        BY <2>1, <2>4, <4>2 DEF PhaseNears
    <3> QED
      BY <3>1, <3>2
  <2>5. ASSUME ~Tick, NEW i \in Heaters, EventFires(i)
        PROVE  PhaseNears(h)
    <3>1. CASE i = h
      <4>1. hs'[h] = EventCb(hs[h]) /\ Expired(hs[h].ev)
        BY <2>5, <3>1 DEF EventFires, TypeOK
      <4>2. PhaseLeft(hs'[h]) <= PhaseLeft(hs[h])
        BY <2>0, <4>1, EventNears
      <4> QED
        BY <2>5, <4>2 DEF PhaseNears
    <3>2. CASE i # h
      BY <2>3, <2>5, <3>2 DEF EventFires, TypeOK
    <3> QED
      BY <3>1, <3>2
  <2>6. ASSUME ~Tick, NEW i \in Heaters, WorkRuns(i)
        PROVE  PhaseNears(h)
    <3>1. i # h
      BY <2>6
    <3> QED
      BY <2>3, <2>6, <3>1 DEF WorkRuns, TypeOK
  <2> QED
    BY <2>2, <2>4, <2>5, <2>6 DEF Next
<1> HIDE DEF Near, Nears
<1>3. Spec => [](NeverStalls /\ HalfPhaseIsDue)
  BY PulseAlive
<1>4. Spec => []Near /\ [][Nears]_vars
  BY <1>1, <1>2, <1>3, CycleInvInit, CycleInvNext, TypeCorrect, SteadyOutputsHold, PTL
  DEF Spec
<1> QED
  BY <1>4 DEF PulseInTime, Near, Nears
=============================================================================
