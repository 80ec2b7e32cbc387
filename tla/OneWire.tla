------------------------------ MODULE OneWire ------------------------------
(***************************************************************************)
(* Temperatures of the sensors of a one-wire bus (ow_ds_meas.c over        *)
(* ow_ds_drv.cpp, started by temp.c).  The bus is searched for sensors,    *)
(* each of which takes a slot of an array, known from the build or filled  *)
(* as sensors are met; then a work item takes the slots in turn: it starts *)
(* a conversion, and reads the result when a timer event runs it again.    *)
(* Places without an active sensor make it search the bus again now and     *)
(* then.  Sensors come and go, and reads fail.                             *)
(***************************************************************************)
EXTENDS Integers, Sequences, FiniteSets

CONSTANTS
    Search,        \* the sensors there may be, in the order a search meets them
    Registered,    \* the slots as built: a sensor, or NoSensor
    NoSensor,
    MaxErrors,     \* OW_DS_MAX_CONSECUTIVE_ERRORS
    ErrorModulus,  \* 2^4, the width of the error counter
    Periodicity,   \* OW_DS_DISCOVERIES_PERIODICITY
    MaxFaults,     \* bound on sensors coming and going, and failures
    MaxStops       \* bound on stops of the measurements

Expected == Len(Registered)
Places   == 0..Expected - 1
Sensors  == {Search[i] : i \in DOMAIN Search}

ASSUME OneWireAssumption ==
    /\ Search \in Seq(Sensors) /\ Registered \in Seq(Sensors \cup {NoSensor})
    /\ Expected > 0
    /\ NoSensor \notin Sensors
    /\ \A i, j \in DOMAIN Registered :
          i # j => Registered[i] = NoSensor \/ Registered[i] # Registered[j]
    /\ MaxErrors \in Nat /\ ErrorModulus \in Nat \ {0}
    /\ Periodicity \in Nat \ {0}
    /\ MaxFaults \in Nat /\ MaxStops \in Nat

VARIABLES
    up,         \* how far temp_start has come
    sensors,    \* the array of slots
    cur,        \* the slot being measured
    discovery,  \* do_discovery: search the bus at the next run of the work
    remaining,  \* remaining_to_discovery
    running,    \* meas_running: begin another measurement after this one
    timer,      \* the event is scheduled
    queued,     \* the work item is queued
    sem,        \* _sched_sem: no measurements are under way
    present,    \* the sensors on the bus
    faults, stops

owVars == <<up, sensors, cur, discovery, remaining, running, timer, queued, sem,
            present, faults, stops>>

OwStages == {"DISCOVER", "MEASURE", "START", "UP"}
Slot   == [id: Sensors \cup {NoSensor}, active: BOOLEAN, valid: BOOLEAN,
           errors: 0..ErrorModulus - 1, in_progress: BOOLEAN]

EmptySlot(id) == [id |-> id, active |-> FALSE, valid |-> FALSE, errors |-> 0,
                  in_progress |-> FALSE]

-----------------------------------------------------------------------------
(* The bus *)

\* What ow_ds_drv_read_handle_result and ow_ds_drv_read may return for a sensor:
\* no presence pulse on an empty bus, no or garbled data if it is not there; one
\* that is there may be misread.
Results(id) ==
    IF present = {} THEN {"NO_DEVICES"}
    ELSE IF id \in present THEN {"SUCCESS", "CRC_ERROR"}
    ELSE {"NULL_DATA", "CRC_ERROR"}

\* ow_ds_drv_read_start fails for want of a presence pulse alone.
StartResult == IF present = {} THEN "NO_DEVICES" ELSE "SUCCESS"

\* A failure that nothing explains: a misread sensor, or one a search missed
\* (handle_addr refuses an address whose checksum is wrong).
Misread(id, result) == IF id \in present /\ result # "SUCCESS" THEN 1 ELSE 0
Missed(met) == IF met = present THEN 0 ELSE 1

\* Bug: a sensor that is known already is not looked up.
SlotForNew(slots, id) ==
    LET free == {k \in Places : slots[k].id = NoSensor}
    IN  IF free = {} THEN -1 ELSE CHOOSE k \in free : \A j \in free : k <= j

\* The slot a sensor that was met goes to (get_sensor_by_id, get_free_slot): its
\* own, else the first that was never filled; -1 if there is none.
SlotFor(slots, id) ==
    LET own  == {k \in Places : slots[k].id = id}
        free == {k \in Places : slots[k].id = NoSensor}
        from == IF own # {} THEN own ELSE free
    IN  IF from = {} THEN -1 ELSE CHOOSE k \in from : \A j \in from : k <= j

\* ds_discovered_cb: a sensor that was known keeps its temperature.
Discovered(slots, k, id) ==
    [slots EXCEPT ![k] = [id |-> id, active |-> TRUE, errors |-> 0, in_progress |-> FALSE,
                          valid |-> @.valid /\ @.id = id]]

\* ow_ds_drv_discover_iter: the search goes on from a sensor that is met while a
\* slot is not met.
Meet(last, id, met) ==
    LET k == SlotFor(last.slots, id)
    IN  IF id \notin met \/ last.count = Expected \/ k = -1 THEN last
        ELSE [slots |-> Discovered(last.slots, k, id), count |-> last.count + 1]

SearchStates(met) ==
    LET after[n \in 0..Len(Search)] ==
            IF n = 0 THEN [slots |-> sensors, count |-> 0]
            ELSE Meet(after[n - 1], Search[n], met)
    IN  after

\* The slots when the search is over, and how many sensors it met.
Discover(met) == SearchStates(met)[Len(Search)]

Active == {k \in Places : sensors[k].active}

Succeeded(s) == [s EXCEPT !.valid = TRUE, !.errors = 0]
Failed(s)    == [s EXCEPT !.valid = FALSE, !.errors = (@ + 1) % ErrorModulus]

-----------------------------------------------------------------------------
\* ds_init.
OwInit ==
    /\ up = "DISCOVER"
    /\ sensors = [k \in Places |-> EmptySlot(Registered[k + 1])]
    /\ cur = 0
    /\ discovery = TRUE
    /\ remaining = 0
    /\ running = FALSE
    /\ timer = FALSE /\ queued = FALSE
    /\ sem = TRUE
    /\ present \in SUBSET Sensors
    /\ faults = 0 /\ stops = 0

\* temp_start: ds_discover.
StartDiscover ==
    /\ up = "DISCOVER"
    /\ up' = "MEASURE"
    /\ \E met \in SUBSET present :
          /\ faults' = faults + Missed(met) /\ faults' <= MaxFaults
          /\ sensors' = Discover(met).slots
          /\ discovery' = (Discover(met).count = 0)
    /\ remaining' = Periodicity * Expected
    /\ UNCHANGED <<cur, running, timer, queued, sem, present, stops>>

\* ds_measure_all, measure_sensor: every active sensor, one after the other.
StartMeasure ==
    /\ up = "MEASURE"
    /\ up' = "START"
    /\ \E results \in [Active -> {"SUCCESS", "NO_DEVICES", "NULL_DATA", "CRC_ERROR"}] :
          /\ \A k \in Active : results[k] \in Results(sensors[k].id)
          /\ faults' = faults + Cardinality({k \in Active :
                                                Misread(sensors[k].id, results[k]) = 1})
          /\ faults' <= MaxFaults
          /\ sensors' = [k \in Places |->
                            IF k \notin Active THEN sensors[k]
                            ELSE IF results[k] = "SUCCESS" THEN Succeeded(sensors[k])
                            ELSE Failed(sensors[k])]
    /\ UNCHANGED <<cur, discovery, remaining, running, timer, queued, sem, present, stops>>

\* ds_meas_start, by temp_start and after a stop: nothing if the last measurement
\* is still under way.
MeasStart ==
    /\ up \in {"START", "UP"}
    /\ up' = "UP"
    /\ sem' = FALSE
    /\ running' = (running \/ sem)
    /\ queued' = (queued \/ sem)
    /\ UNCHANGED <<sensors, cur, discovery, remaining, timer, present, faults, stops>>

\* ds_meas_stop.
MeasStop ==
    /\ up = "UP" /\ running
    /\ stops < MaxStops
    /\ stops' = stops + 1
    /\ running' = FALSE
    /\ UNCHANGED <<up, sensors, cur, discovery, remaining, timer, queued, sem, present,
                   faults>>

\* event_handler, in the timer interrupt.
MeasTimer ==
    /\ timer
    /\ timer' = FALSE
    /\ queued' = TRUE
    /\ UNCHANGED <<up, sensors, cur, discovery, remaining, running, sem, present, faults,
                   stops>>

\* A sensor is deactivated and a search asked for.
GivenUp(s, result) ==
    result = "SENS_MEAS_FAILED" /\ s.errors > MaxErrors

\* The end of a measurement: the next slot, after the period if not stopped.
Proceed(result) ==
    /\ cur' = (cur + 1) % Expected
    /\ timer' = running
    /\ sem' = (sem \/ ~running)

\* What a run of the work item knows once it searched the bus, or did not.
Searched(met) ==
    LET found == Discover(met)
    IN  [slots |-> found.slots, again |-> found.count = 0,
         remaining |-> Periodicity * Expected]

NotSearched(left) == [slots |-> sensors, again |-> FALSE, remaining |-> left]

Missing   == Expected - Cardinality(Active)
SearchDue == discovery \/ remaining < Missing

\* Bug: the time to the next search is left as it is.
SearchIfDueFrozen(met) ==
    IF SearchDue THEN Searched(met) ELSE NotSearched(remaining)

\* meas_handler begins with the time to the next search, which runs the faster
\* the more sensors are missing, and searches the bus when it is over.
SearchIfDue(met) ==
    IF SearchDue THEN Searched(met) ELSE NotSearched(remaining - Missing)

\* The current sensor is told to convert; its result is read after a while.
Begin(found) ==
    IF StartResult = "SUCCESS"
    THEN /\ sensors' = [found.slots EXCEPT ![cur].in_progress = TRUE]
         /\ timer' = TRUE
         /\ UNCHANGED <<cur, sem>>
    ELSE /\ sensors' = [found.slots EXCEPT ![cur] = Failed(@)]
         /\ Proceed(StartResult)

\* The result is read; too many failures of one kind give the sensor up.
End(found, result) ==
    LET read == [found.slots[cur] EXCEPT !.in_progress = FALSE]
        done == IF result = "SUCCESS" THEN Succeeded(read) ELSE Failed(read)
        gone == GivenUp(done, result)
    IN  /\ sensors' = [found.slots EXCEPT ![cur] =
                         IF gone THEN [done EXCEPT !.active = FALSE, !.errors = 0]
                         ELSE done]
        /\ discovery' = (gone \/ found.again)
        /\ Proceed(result)

\* meas_handler: the work item.
MeasHandler ==
    /\ queued
    /\ queued' = FALSE
    /\ \E met \in IF SearchDue THEN SUBSET present ELSE {present} :
          LET found == SearchIfDue(met)
              s     == found.slots[cur]
          IN  /\ remaining' = found.remaining
              /\ faults + Missed(met) <= MaxFaults
              /\ \/ ~s.active
                    /\ sensors' = found.slots
                    /\ discovery' = found.again
                    /\ Proceed("SUCCESS")
                    /\ faults' = faults + Missed(met)
                 \/ s.active /\ ~s.in_progress
                    /\ Begin(found)
                    /\ discovery' = found.again
                    /\ faults' = faults + Missed(met)
                 \/ s.active /\ s.in_progress
                    /\ \E result \in Results(s.id) :
                          /\ End(found, result)
                          /\ faults' = faults + Missed(met) + Misread(s.id, result)
                          /\ faults' <= MaxFaults
    /\ UNCHANGED <<up, running, present, stops>>

\* A sensor is plugged in or out.
Plug(id) ==
    /\ faults < MaxFaults
    /\ faults' = faults + 1
    /\ present' = IF id \in present THEN present \ {id} ELSE present \cup {id}
    /\ UNCHANGED <<up, sensors, cur, discovery, remaining, running, timer, queued, sem,
                   stops>>

OwNext ==
    \/ StartDiscover \/ StartMeasure \/ MeasStart \/ MeasStop
    \/ MeasTimer \/ MeasHandler
    \/ \E id \in Sensors : Plug(id)

\* The timer interrupt and the system workqueue run; temp_start goes on.
OwFairness ==
    /\ WF_owVars(StartDiscover) /\ WF_owVars(StartMeasure)
    /\ WF_owVars(up = "START" /\ MeasStart)
    /\ WF_owVars(MeasTimer) /\ WF_owVars(MeasHandler)

OwSpec == OwInit /\ [][OwNext]_owVars /\ OwFairness

-----------------------------------------------------------------------------
(* Properties *)

OwTypeOK ==
    /\ up \in OwStages
    /\ sensors \in [Places -> Slot]
    /\ cur \in Places
    /\ discovery \in BOOLEAN
    /\ remaining \in 0..Periodicity * Expected
    /\ {running, timer, queued, sem} \subseteq BOOLEAN
    /\ present \in SUBSET Sensors
    /\ faults \in 0..MaxFaults
    /\ stops \in 0..MaxStops

\* One measurement is under way at most, with either its timer or its work item
\* pending, and the semaphore is free when there is none: whenever measurements
\* are stopped and started, they neither stop for good nor run twice.
OneCycle ==
    /\ ~(timer /\ queued)
    /\ sem <=> ~(timer \/ queued)
    /\ running => ~sem

\* A conversion is awaited of the current sensor only.
OneConversion ==
    \A k \in Places : sensors[k].in_progress => k = cur /\ ~sem

\* A sensor has one slot, however often it is found again.
OneSlot ==
    \A j, k \in Places :
        sensors[j].id = sensors[k].id => j = k \/ sensors[j].id = NoSensor

MeasurementsSound == OneCycle /\ OneConversion /\ OneSlot

\* A sensor that has a slot and is on the bus is measured again, after failures
\* and after it was away, while measurements run.
SensorsServed ==
    \A k \in Places :
        running /\ sensors[k].id \in present
            ~> sensors[k].valid \/ ~running \/ sensors[k].id \notin present

\* A sensor is given up, and searched for again, before it failed more often than
\* this: "Max errors before trying to discover again" (ow_ds_meas.h:17).
ErrorsBounded == \A k \in Places : sensors[k].errors <= MaxErrors
=============================================================================
