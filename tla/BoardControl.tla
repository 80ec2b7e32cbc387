---------------------------- MODULE BoardControl ----------------------------
(***************************************************************************)
(* Board-level control: the command frames and the configuration of a      *)
(* class 0 device (class/class0.c) or a class 1 device (class/class1.c),   *)
(* carried out by the main loop (main.c) that also ends the pulses.        *)
(*                                                                         *)
(* A turn of the loop wakes up, ends the pulses that expired, and then     *)
(* handles the frames received, which takes time: up to MaxBusy ticks.     *)
(* Then it sleeps until something is to be done.  Pulses are counted from  *)
(* the last turn, not from the command, so they may be a little short.     *)
(*                                                                         *)
(* Frames come in any order and at any pace: a pin may be commanded again  *)
(* after its pulse ended.  The pin still remembers the block of that pulse *)
(* then, and the command frees it again: twice, if it is still free (the   *)
(* model stops there), or else under the pulse of the pin that was given   *)
(* it since.                                                               *)
(***************************************************************************)
EXTENDS GpioPulse

CONSTANTS
    PinOrder,     \* the pins, in the order a frame is carried out
    Frames,       \* commands of a frame: functions from Pins to commands
    Configs,      \* the configurations
    Classes,      \* __DEVICE_CLS__: the classes to look at
    MaxBusy,      \* ticks a turn of the loop may spend on received frames
    MaxInterval,  \* max_process_interval
    MaxLate       \* ticks the main thread may be late to wake up

NoCommand == "NONE"

\* struct caniot_class0_config, struct caniot_class1_config: durations in ticks, the
\* pins driven high by default, the ones that are outputs, and the ones the
\* application has for itself; a class 0 device has neither of the last two.
Config ==
    [pulse_durations: [Pins -> Nat], outputs_default: SUBSET Pins,
     directions: SUBSET Pins, self_managed: SUBSET Pins]

ASSUME BoardAssumption ==
    /\ PinOrder \in [1..Cardinality(Pins) -> Pins]
    /\ \A pin \in Pins : \E i \in DOMAIN PinOrder : PinOrder[i] = pin
    /\ \A i, j \in DOMAIN PinOrder : PinOrder[i] = PinOrder[j] => i = j
    /\ Frames \subseteq [Pins -> XpsCommands \cup {NoCommand}]
    /\ Configs \subseteq Config
    /\ Classes \subseteq {0, 1}
    /\ MaxBusy \in Nat
    /\ MaxInterval \in Nat
    /\ MaxLate \in Nat

VARIABLES
    io,       \* the pulses and the pins
    class,    \* the class of the device
    cfg,      \* its configuration
    awake,    \* the main loop is handling frames, not sleeping
    since,    \* ticks since pulse_process ran (pulse_last_process)
    wait,     \* while asleep: ticks until the loop's poll times out
    due,      \* ghost: duration of the pulse a pin owes, 0 for none
    age,      \* ghost: ticks since that pulse began, while it is pending
    refused   \* ghost: pins whose pending pulse a frame failed to renew

loop == <<awake, since, wait>>
boardVars == <<io, class, cfg, loop, due, age, refused>>

-----------------------------------------------------------------------------
\* class1_blc_command_handler: the commands of a frame that are carried out, those
\* for outputs that are not self managed; class 0 has no others.
Carried(frame) ==
    IF class = 0 THEN frame
    ELSE [pin \in Pins |-> IF pin \in cfg.directions \ cfg.self_managed
                           THEN frame[pin] ELSE NoCommand]

\* class0_blc_command_handler, and class 1 likewise: the pins in order, each with
\* its command.
PinByPin(frame) ==
    LET after[i \in 0..Cardinality(Pins)] ==
            IF i = 0 THEN io
            ELSE LET pin == PinOrder[i]
                 IN  CommandXps(after[i - 1], pin, frame[pin], cfg.pulse_durations[pin])
    IN  after

Applied(frame) == PinByPin(frame)[Cardinality(Pins)]

\* class0_config_apply: the outputs are driven to their defaults at boot; reset
\* states stay low.
Class0Driven(config) == [pin \in Pins |-> pin \in config.outputs_default]

\* class1_config_apply: likewise but for self-managed pins, and the default output
\* is what RESET restores from then on.
Class1Driven(config) ==
    [pin \in Pins |-> pin \in config.outputs_default \ config.self_managed]

Class1ResetStates(config, states) ==
    [pin \in Pins |-> IF pin \in config.self_managed THEN states[pin]
                      ELSE pin \in config.outputs_default]

PulseCommands == {"PULSE_ON", "PULSE_OFF", "PULSE_CANCEL", "RESET"}

\* The pin remembers no block, or the block of a pulse that is its own and pending.
Owned(pin) ==
    io.pev[pin] # NoBlock =>
        io.event[io.pev[pin]].scheduled /\ io.event[io.pev[pin]].pin = pin

\* The pin has a pulse that is pending.
HasPulse(pin) == \E b \in Pending(io) : io.event[b].pin = pin

Triggers(frame, pin) == frame[pin] \in {"PULSE_ON", "PULSE_OFF"}

Promised(frame, pin) ==
    CASE Triggers(frame, pin) ->
            IF io'.pev[pin] = NoBlock THEN 0 ELSE cfg.pulse_durations[pin]
      [] frame[pin] \in {"PULSE_CANCEL", "RESET"} -> 0
      [] OTHER -> due[pin]

Low == [pin \in Pins |-> FALSE]

BoardInit ==
    /\ class \in Classes
    /\ cfg \in Configs
    /\ io = IF class = 0 THEN InitialPulseIo(Class0Driven(cfg), Low)
            ELSE InitialPulseIo(Class1Driven(cfg), Class1ResetStates(cfg, Low))
    /\ awake = TRUE
    /\ since = 0
    /\ wait = 0
    /\ due = [pin \in Pins |-> 0]
    /\ age = [pin \in Pins |-> 0]
    /\ refused = {}

Command(sent) ==
    LET frame == Carried(sent)
    IN  /\ awake /\ ~io.corrupt
        /\ io' = Applied(frame)
        /\ due' = [pin \in Pins |-> Promised(frame, pin)]
        /\ age' = [pin \in Pins |->
                     IF frame[pin] \in PulseCommands THEN 0 ELSE age[pin]]
        /\ refused' = {pin \in Pins : /\ Triggers(frame, pin)
                                      /\ cfg.pulse_durations[pin] # 0
                                      /\ HasPulse(pin) /\ io'.pev[pin] = NoBlock}
        /\ UNCHANGED <<class, cfg, loop>>

\* The configuration is written, by a frame or from the shell, and applied: pulses
\* under way keep their duration, and no output is driven.
WriteConfig(config) ==
    /\ ~io.corrupt
    /\ cfg' = config
    /\ io' = IF class = 0 THEN io
             ELSE [io EXCEPT !.reset_state = Class1ResetStates(config, @)]
    /\ UNCHANGED <<class, loop, due, age, refused>>

\* The end of a turn: poll until the next pulse, at most max_process_interval.
Sleep ==
    /\ awake /\ ~io.corrupt
    /\ awake' = FALSE
    /\ wait' = PulseRemaining(io, MaxInterval)
    /\ UNCHANGED <<io, class, cfg, since, due, age, refused>>

\* A signal or the timeout begins the next turn: pulse_process.
Wake ==
    /\ ~awake /\ ~io.corrupt
    /\ awake' = TRUE
    /\ io' = PulseProcess(io, since)
    /\ since' = 0
    /\ wait' = 0
    /\ due' = [pin \in Pins |-> IF pin \in EndingPins(io, since) THEN 0 ELSE due[pin]]
    /\ age' = [pin \in Pins |-> IF pin \in EndingPins(io, since) THEN 0 ELSE age[pin]]
    /\ UNCHANGED <<class, cfg, refused>>

BoardTick ==
    /\ ~io.corrupt
    /\ IF awake THEN since < MaxBusy ELSE wait > -MaxLate
    /\ since' = since + 1
    /\ wait' = IF awake THEN wait ELSE wait - 1
    /\ age' = [pin \in Pins |-> IF HasPulse(pin) THEN age[pin] + 1 ELSE 0]
    /\ UNCHANGED <<io, class, cfg, awake, due, refused>>

BoardNext ==
    \/ \E frame \in Frames : Command(frame)
    \/ \E config \in Configs : WriteConfig(config)
    \/ Sleep
    \/ Wake
    \/ BoardTick

BoardSpec == BoardInit /\ [][BoardNext]_boardVars

-----------------------------------------------------------------------------
(* Properties *)

BoardTypeOK ==
    /\ io \in PulseIo
    /\ class \in Classes
    /\ cfg \in Config
    /\ awake \in BOOLEAN
    /\ since \in Nat
    /\ wait \in Int
    /\ due \in [Pins -> Nat]
    /\ age \in [Pins -> Nat]
    /\ refused \in SUBSET Pins

\* Every block of the slab is either free, once, or holds a pending pulse.
BlocksAccounted ==
    /\ \A b \in Blocks : io.event[b].scheduled <=> ~IsFree(io, b)
    /\ Len(io.free) = Cardinality(Blocks \ Pending(io))

\* A pin has at most one pulse, and it is the one it remembers: a new pulse
\* cancelled the last one ("If a pulse is already active on this pin, cancel it
\* ... Then trigger a new pulse").
OnePulsePerPin ==
    \A b \in Pending(io) : io.pev[io.event[b].pin] = b

\* Blocks and pulses belong together one to one, and every pulse to the pin that
\* remembers it, until a block is freed twice: no command loses a block, though
\* pins may remember the blocks of pulses that ended (devices/gpio_pulse.c).
PulsesOwned == ~io.corrupt => BlocksAccounted /\ OnePulsePerPin

\* A pending pulse is gone after a step only if its time was over, if a frame
\* commanded a pin that remembers its block, its own or one whose own pulse ended
\* before, or if a block was freed twice: no other frame, configuration or turn
\* takes a pulse from a pin, and no exhaustion of the slab does.
PulseStays ==
    [][\A b \in Pending(io) :
         \/ io'.event[b].scheduled /\ io'.event[b].pin = io.event[b].pin
         \/ Wake /\ io.event[b].left <= since
         \/ io'.corrupt
         \/ \E frame \in Frames :
               /\ Command(frame)
               /\ \E pin \in Pins :
                     io.pev[pin] = b /\ Carried(frame)[pin] \in PulseCommands]_boardVars

\* A block is freed twice only by a frame that commands a pulse, a cancel or a reset
\* of a pin whose last pulse ended by itself, or was taken from it.
FreedTwiceAfterEnd ==
    [][io'.corrupt =>
         \E frame \in Frames :
            /\ Command(frame)
            /\ \E pin \in Pins :
                  Carried(frame)[pin] \in PulseCommands /\ ~Owned(pin)]_boardVars

\* A pulse does not outlast its duration by more than the time the loop spent
\* on frames and the time it was late to wake up.
PulseNotLate ==
    \A pin \in Pins :
        ~io.corrupt /\ HasPulse(pin) => age[pin] <= due[pin] + MaxBusy + MaxLate

\* Nor is a pulse that ends by itself shorter than its duration by more than the
\* time of the turn that began it.
PulseNotShort ==
    [][Wake => \A pin \in EndingPins(io, since) : age[pin] + MaxBusy >= due[pin]]_boardVars

\* A pulse commanded on a pin whose pulse is still pending always takes place,
\* even with the slab exhausted: the cancel gives the block back first.
RetriggerSucceeds == ~io.corrupt => refused = {}

\* What the documentation says of pulses on relays: a pulse may be sent to the same
\* pin time and again (app-garage.md), and cancels the last one if it is active.
FreedOnce == ~io.corrupt

\* A pulse that was begun stays queued until it ends or is cancelled through its
\* own pin: no other pin's command loses it.
PulseKept ==
    \A pin \in Pins : due[pin] # 0 => HasPulse(pin)
=============================================================================
