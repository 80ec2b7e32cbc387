----------------------------- MODULE GpioPulse -----------------------------
(***************************************************************************)
(* Pulses on output pins (devices/gpio_pulse.c) and the commands a board   *)
(* control frame holds for one pin (devices/gpio_xps.c).                   *)
(*                                                                         *)
(* A pulse is held by a block of a slab of CONFIG_GPIO_PULSE_SIMULTANEOUS_ *)
(* COUNT blocks, queued by the time it has left, and a pin remembers the   *)
(* block of its pulse.  The slab and the queue are kernel objects; the     *)
(* slab hands out first the block that was freed last.  A block freed      *)
(* twice, or queued twice, corrupts them: the model stops there.           *)
(***************************************************************************)
EXTENDS Integers, Sequences, FiniteSets

CONSTANTS
    Pins,     \* the output pins that commands may drive
    Blocks,   \* the blocks of the slab
    NoBlock   \* NULL

ASSUME PulseAssumption ==
    NoBlock \notin Blocks /\ IsFiniteSet(Blocks) /\ IsFiniteSet(Pins) /\ Pins # {}

XpsCommands ==
    {"SET_ON", "SET_OFF", "TOGGLE", "PULSE_ON", "PULSE_OFF", "PULSE_CANCEL", "RESET"}

\* struct pulse_event; "left" is the time the queue counts down, from the last
\* time it was shifted, and 0 in an event that is not queued.
PulseEvent ==
    [scheduled: BOOLEAN, pin: Pins, reset_state: BOOLEAN, left: Nat]

\* The slab, the queue and, per pin, its level and its struct xps_context.
PulseIo ==
    [event: [Blocks -> PulseEvent], free: Seq(Blocks), corrupt: BOOLEAN,
     level: [Pins -> BOOLEAN], reset_state: [Pins -> BOOLEAN],
     pev: [Pins -> Blocks \cup {NoBlock}]]

Write(io, pin, state) == [io EXCEPT !.level[pin] = state]

IsFree(io, b) == \E i \in DOMAIN io.free : io.free[i] = b

\* Bugs: the block is not freed; the event stays in the queue.
PulseCancelLeaks(io, b, do_reset) ==
    IF b = NoBlock THEN io
    ELSE [io EXCEPT
            !.event[b] = [@ EXCEPT !.scheduled = FALSE, !.left = 0],
            !.level[io.event[b].pin] = IF do_reset THEN io.event[b].reset_state ELSE @]

PulseCancelKeepsQueued(io, b, do_reset) ==
    IF b = NoBlock THEN io
    ELSE [io EXCEPT
            !.level[io.event[b].pin] = IF do_reset THEN io.event[b].reset_state ELSE @,
            !.corrupt = @ \/ IsFree(io, b),
            !.free = IF IsFree(io, b) THEN @ ELSE <<b>> \o @]

\* pulse_cancel: the block is freed whether or not its pulse was pending.
PulseCancel(io, b, do_reset) ==
    IF b = NoBlock THEN io
    ELSE [io EXCEPT
            !.event[b] = [@ EXCEPT !.scheduled = FALSE, !.left = 0],
            !.level[io.event[b].pin] = IF do_reset THEN io.event[b].reset_state ELSE @,
            !.corrupt = @ \/ IsFree(io, b),
            !.free = IF IsFree(io, b) THEN @ ELSE <<b>> \o @]

\* Bug: an empty slab is not noticed, and a block that is in use is handed out.
PulseTriggerSteals(io, pin, state, duration) ==
    IF duration = 0 THEN [io EXCEPT !.pev[pin] = NoBlock]
    ELSE LET b == IF io.free = <<>> THEN CHOOSE c \in Blocks : TRUE ELSE Head(io.free)
         IN  [Write(io, pin, state) EXCEPT
                !.free = IF @ = <<>> THEN @ ELSE Tail(@),
                !.event[b] = [scheduled |-> TRUE, pin |-> pin,
                              reset_state |-> ~state, left |-> duration],
                !.pev[pin] = b]

\* pulse_trigger for a pin, which keeps the block it returns: none for a pulse
\* of no duration, or when the slab is empty.
PulseTrigger(io, pin, state, duration) ==
    IF duration = 0 \/ io.free = <<>> THEN [io EXCEPT !.pev[pin] = NoBlock]
    ELSE LET b == Head(io.free)
         IN  [Write(io, pin, state) EXCEPT
                !.free = Tail(@),
                !.event[b] = [scheduled |-> TRUE, pin |-> pin,
                              reset_state |-> ~state, left |-> duration],
                !.pev[pin] = b]

\* command_xps.
CommandXps(io, pin, cmd, duration) ==
    CASE cmd = "SET_ON"  -> Write(io, pin, TRUE)
      [] cmd = "SET_OFF" -> Write(io, pin, FALSE)
      [] cmd = "TOGGLE"  -> Write(io, pin, ~io.level[pin])
      [] cmd \in {"PULSE_ON", "PULSE_OFF"} ->
            PulseTrigger(PulseCancel(io, io.pev[pin], FALSE),
                         pin, cmd = "PULSE_ON", duration)
      [] cmd = "PULSE_CANCEL" -> PulseCancel(io, io.pev[pin], TRUE)
      [] cmd = "RESET" ->
            [Write(PulseCancel(io, io.pev[pin], TRUE), pin, io.reset_state[pin])
                EXCEPT !.pev[pin] = NoBlock]
      [] OTHER -> io

Pending(io) == {b \in Blocks : io.event[b].scheduled}

\* Bugs: only the events of that very tick; one tick early.
ExpiringExactly(io, elapsed) == {b \in Pending(io) : io.event[b].left = elapsed}
ExpiringEarly(io, elapsed)   == {b \in Pending(io) : io.event[b].left <= elapsed + 1}

\* The events a shift of the queue by "elapsed" brings to their end.
Expiring(io, elapsed) == {b \in Pending(io) : io.event[b].left <= elapsed}

\* Pins whose pulse ends with this shift of the queue.
EndingPins(io, elapsed) == {io.event[b].pin : b \in Expiring(io, elapsed)}

\* The sequence that frees the blocks of a set, in some order.
FreeSeq(S) == CHOOSE s \in [1..Cardinality(S) -> S] : {s[i] : i \in DOMAIN s} = S

\* pulse_process: every pulse that expired resets its pin and frees its block;
\* the pins keep their pointer to it.
PulseProcess(io, elapsed) ==
    LET expired == Expiring(io, elapsed)
    IN  [io EXCEPT
            !.event = [b \in Blocks |->
                IF b \in expired
                THEN [io.event[b] EXCEPT !.scheduled = FALSE, !.left = 0]
                ELSE IF io.event[b].scheduled
                THEN [io.event[b] EXCEPT !.left = @ - elapsed]
                ELSE io.event[b]],
            !.level = [pin \in Pins |->
                IF pin \in EndingPins(io, elapsed)
                THEN \E b \in expired : io.event[b].pin = pin /\ io.event[b].reset_state
                ELSE io.level[pin]],
            !.free = FreeSeq(expired) \o @]

\* Bug: the pulses are not looked at.
PulseRemainingLimit(io, limit) == limit

\* pulse_remaining, at most "limit": the time of the first pulse of the queue.
PulseRemaining(io, limit) ==
    LET times == {io.event[b].left : b \in Pending(io)} \cup {limit}
    IN  CHOOSE t \in times : \A u \in times : t <= u

InitialPulseIo(level, states) ==
    [event |-> [b \in Blocks |-> [scheduled |-> FALSE, pin |-> CHOOSE p \in Pins : TRUE,
                                  reset_state |-> FALSE, left |-> 0]],
     free |-> FreeSeq(Blocks), corrupt |-> FALSE,
     level |-> level, reset_state |-> states, pev |-> [pin \in Pins |-> NoBlock]]
=============================================================================
