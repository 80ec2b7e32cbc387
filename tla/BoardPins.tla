------------------------------ MODULE BoardPins ------------------------------
(***************************************************************************)
(* The pins of a Tiny board (bsp.cpp, tiny/tiny.cpp): those of the         *)
(* microcontroller, and those of a PCF8574 port expander on I2C            *)
(* (pcf8574.cpp), of which the board keeps the state it last sent.         *)
(*                                                                         *)
(* An expander pin has a latch and no direction: low drives the pin, high  *)
(* releases it, so that it can be read.  With the buffered read, what was  *)
(* read is kept until the expander's interrupt says that an input changed. *)
(* That interrupt is an edge, and the expander lets go of its line when it *)
(* is read or written.                                                     *)
(***************************************************************************)
EXTENDS Integers, FiniteSets

CONSTANTS
    GpioPins,     \* pins of the microcontroller
    ExtPins,      \* pins of the expander
    Buffered,     \* CONFIG_PCF8574_BUFFERED_READ
    MaxFailures   \* bound on the I2C transfers that fail

AllPins    == GpioPins \cup ExtPins
Levels     == {"LOW", "HIGH"}
PinModes   == {"INPUT", "OUTPUT"}

ASSUME PinsAssumption ==
    /\ GpioPins \cap ExtPins = {}
    /\ Buffered \in BOOLEAN
    /\ MaxFailures \in Nat

VARIABLES
    ready,     \* bsp_tiny_init is done
    ddr, port, \* pins of the microcontroller driven, and high
    state,     \* extio_device.state: expander pins the board takes for high
    latch,     \* those that are
    low,       \* expander pins pulled low from outside
    buffer, valid,   \* read_buffer, read_buffer_valid
    reading,   \* a transfer reads the expander
    sample,    \* what it read
    line,      \* the expander holds its interrupt line low
    flag,      \* the falling edge awaits its interrupt
    failures,
    mode,      \* ghost: the direction asked for each pin
    level,     \* ghost: the level asked for each expander pin, or "NONE"
    refused,   \* ghost: the last transfer to the expander failed
    raced,     \* ghost: an interrupt came in the middle of a read
    written    \* ghost: expander pins whose latch changed since the last read

chip    == <<latch, low, line, flag>>
reads   == <<buffer, valid, reading, sample, raced>>
pinVars == <<ready, ddr, port, state, chip, reads, failures, mode, level, refused,
             written>>

\* The level of the expander's pins.
PinLevels == latch \ low

-----------------------------------------------------------------------------
\* The microcontroller starts; the expander may not have lost its latches.
PinsInit ==
    /\ ready = FALSE
    /\ ddr = {} /\ port = {} /\ state = {}
    /\ latch \in {{}, ExtPins}
    /\ low = {}
    /\ buffer = {} /\ valid = FALSE /\ reading = FALSE /\ sample = {}
    /\ line = FALSE /\ flag = FALSE
    /\ failures = 0
    /\ mode = [p \in AllPins |-> "INPUT"]
    /\ level = [p \in ExtPins |-> "NONE"]
    /\ refused = FALSE /\ raced = FALSE /\ written = {}

\* pcf8574_set: the result of the transfer is not looked at.
PcfSet(value) ==
    /\ ~reading
    /\ \/ /\ latch' = value
          /\ refused' = FALSE
          /\ line' = FALSE
          /\ written' = written \cup (latch \ value) \cup (value \ latch)
          /\ UNCHANGED failures
       \/ /\ failures < MaxFailures
          /\ failures' = failures + 1
          /\ refused' = TRUE
          /\ UNCHANGED <<latch, line, written>>
    /\ UNCHANGED <<low, flag, reads>>

\* bsp_tiny_init: the pins of the microcontroller are inputs without pull-up; no
\* bit of the expander's state is set before it is sent (mask 0, value 0).
BspTinyInit ==
    /\ ~ready
    /\ ready' = TRUE
    /\ ddr' = {} /\ port' = {}
    /\ UNCHANGED <<state, mode, level>>
    /\ PcfSet(state)

\* bsp_pin_output_write on a pin of the microcontroller.
GpioWrite(pin, l) ==
    port' = IF l = "HIGH" THEN port \cup {pin} ELSE port \ {pin}

\* Bug: the other pins of the expander are written low.
ExtioStateAlone(s, pin, l) == IF l = "HIGH" THEN {pin} ELSE {}

\* bsp_extio_write_pin_state.
ExtioState(s, pin, l) == IF l = "HIGH" THEN s \cup {pin} ELSE s \ {pin}

\* bsp_pin_init, by class1_config_apply: direction, then level, of an input too.
\* The expander is sent its state for each; only the last one stays.
PinInit(pin, m, l) ==
    /\ ready /\ ~reading
    /\ mode' = [mode EXCEPT ![pin] = m]
    /\ IF pin \in GpioPins
       THEN /\ ddr' = IF m = "OUTPUT" THEN ddr \cup {pin} ELSE ddr \ {pin}
            /\ GpioWrite(pin, l)
            /\ UNCHANGED <<state, chip, reads, failures, level, refused, written>>
       ELSE /\ state' = ExtioState(IF m = "INPUT" THEN state \cup {pin} ELSE state, pin, l)
            /\ level' = [level EXCEPT ![pin] = l]
            /\ PcfSet(state')
            /\ UNCHANGED <<ddr, port>>
    /\ UNCHANGED ready

\* bsp_descr_gpio_output_write, bsp_pin_output_write.
OutputWrite(pin, l) ==
    /\ ready /\ ~reading
    /\ IF pin \in GpioPins
       THEN /\ GpioWrite(pin, l)
            /\ UNCHANGED <<state, chip, reads, failures, level, refused, written>>
       ELSE /\ state' = ExtioState(state, pin, l)
            /\ level' = [level EXCEPT ![pin] = l]
            /\ PcfSet(state')
            /\ UNCHANGED port
    /\ UNCHANGED <<ready, ddr, mode>>

Opposite(l) == IF l = "HIGH" THEN "LOW" ELSE "HIGH"

\* bsp_extio_toggle_pin goes by the state.
Toggled(pin) == IF pin \in state THEN "LOW" ELSE "HIGH"

\* bsp_descr_gpio_toggle, bsp_pin_toggle.
Toggle(pin) ==
    /\ ready /\ ~reading
    /\ IF pin \in GpioPins
       THEN /\ GpioWrite(pin, IF pin \in port THEN "LOW" ELSE "HIGH")
            /\ UNCHANGED <<state, chip, reads, failures, level, refused, written>>
       ELSE /\ state' = ExtioState(state, pin, Toggled(pin))
            /\ level' = [level EXCEPT ![pin] = IF @ = "NONE" THEN "HIGH" ELSE Opposite(@)]
            /\ PcfSet(state')
            /\ UNCHANGED port
    /\ UNCHANGED <<ready, ddr, mode>>

\* pcf8574_get without a valid buffer: the expander is read, during which an
\* interrupt may come.
ReadBegin ==
    /\ ready /\ ~reading /\ ~valid
    /\ reading' = TRUE
    /\ sample' = PinLevels
    /\ line' = FALSE
    /\ raced' = FALSE
    /\ written' = {}
    /\ UNCHANGED <<ready, ddr, port, state, latch, low, flag, buffer, valid, failures,
                   mode, level, refused>>

\* Its result is kept and, if the transfer succeeded, valid.
ReadEnd ==
    /\ reading
    /\ reading' = FALSE /\ sample' = {}
    /\ \/ buffer' = sample /\ valid' = Buffered /\ UNCHANGED failures
       \/ /\ failures < MaxFailures /\ failures' = failures + 1
          /\ buffer' = {} /\ valid' = FALSE
    /\ UNCHANGED <<ready, ddr, port, state, chip, raced, mode, level, refused, written>>

\* BSP_PCF_INT_vect: pcf8574_invalidate_buffer; the main loop is woken.
ExtInterrupt ==
    /\ flag
    /\ flag' = FALSE
    /\ valid' = FALSE
    /\ raced' = (raced \/ reading)
    /\ UNCHANGED <<ready, ddr, port, state, latch, low, line, buffer, reading, sample,
                   failures, mode, level, refused, written>>

\* What is connected to an expander pin pulls it low or lets go of it; the
\* expander interrupts for a pin whose level changes.
InputChange(pin) ==
    /\ low' = IF pin \in low THEN low \ {pin} ELSE low \cup {pin}
    /\ line' = (line \/ pin \in latch)
    /\ flag' = (flag \/ (pin \in latch /\ ~line))
    /\ UNCHANGED <<ready, ddr, port, state, latch, reads, failures, mode, level, refused,
                   written>>

PinsNext ==
    \/ BspTinyInit
    \/ \E pin \in AllPins, m \in PinModes, l \in Levels : PinInit(pin, m, l)
    \/ \E pin \in AllPins, l \in Levels : OutputWrite(pin, l)
    \/ \E pin \in AllPins : Toggle(pin)
    \/ ReadBegin \/ ReadEnd \/ ExtInterrupt
    \/ \E pin \in ExtPins : InputChange(pin)

PinsSpec == PinsInit /\ [][PinsNext]_pinVars

-----------------------------------------------------------------------------
(* Properties *)

PinsTypeOK ==
    /\ {ready, valid, reading, line, flag, refused, raced} \subseteq BOOLEAN
    /\ ddr \in SUBSET GpioPins /\ port \in SUBSET GpioPins
    /\ {state, latch, low, buffer, sample, written} \subseteq SUBSET ExtPins
    /\ failures \in 0..MaxFailures
    /\ mode \in [AllPins -> PinModes]
    /\ level \in [ExtPins -> Levels \cup {"NONE"}]

\* After a transfer that succeeded every expander pin has the level it was last
\* given: one that failed before loses nothing for good, for no pin is written
\* without the others.
ExpanderAgrees ==
    ready /\ ~refused =>
        /\ latch = state
        /\ \A p \in ExtPins : level[p] # "NONE" => (p \in latch <=> level[p] = "HIGH")

\* What the buffer says of a pin that was not written since is the pin's level,
\* or an interrupt is about to say otherwise; but for an interrupt that came in
\* the middle of the read, whose change the buffer may miss.
BufferFresh ==
    valid /\ ~raced /\ ~flag =>
        \A p \in ExtPins \ written : p \in buffer <=> p \in PinLevels

PinsSound == ExpanderAgrees /\ BufferFresh

\* A pin that is an input is not driven: "Set all pins as inputs without pullup"
\* (tiny.cpp:88).
InputsReleased ==
    ready /\ ~refused =>
        \A p \in AllPins : mode[p] = "INPUT" => p \notin ddr /\ p \notin ExtPins \ latch
=============================================================================
