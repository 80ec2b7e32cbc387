---------------------------- MODULE MultiDevice ----------------------------
(***************************************************************************)
(* The instances of a multi-instance device (dev.c) behind one CAN         *)
(* controller.  A turn of the main loop lets each instance process until   *)
(* it finds nothing to do.  The instance at hand pops a frame from the     *)
(* controller whoever it is for: one for another instance goes to that     *)
(* instance's slot, and the one at hand is told there is none.             *)
(*                                                                         *)
(* The controller has two receive buffers and an interrupt line it holds   *)
(* low while one is full; only the falling edge raises the signal the main *)
(* loop polls.  What the library does with a frame, and when it sends      *)
(* telemetry, is outside this repository.                                  *)
(***************************************************************************)
EXTENDS Integers, Sequences, FiniteSets

CONSTANTS
    Size,         \* CONFIG_DEVICE_INSTANCES_COUNT
    OtherSid,     \* a sub-id no instance has: broadcast, or another device
    RxBuffers,    \* receive buffers of the controller
    MaxFrames,    \* bound on the frames that arrive
    MaxTriggers,  \* bound on the telemetry requests
    MaxRxErrors   \* receptions that may fail in a round

Devices == 0..Size - 1
Sids    == Devices \cup {OtherSid}

ASSUME MultiAssumption ==
    /\ Size \in Nat \ {0}
    /\ OtherSid \notin Devices
    /\ RxBuffers \in Nat \ {0}
    /\ MaxFrames \in Nat
    /\ MaxTriggers \in Nat
    /\ MaxRxErrors \in Nat

VARIABLES
    round,     \* do_run_map: instances still to process; empty while asleep
    current,   \* current_device_index
    rx,        \* frames in the controller, oldest first
    slot,      \* devices_rx_frames: the number of a frame, 0 for none
    telem,     \* instances of which telemetry is requested
    signal,    \* dev_process_sig
    arrived,   \* frames that arrived; they are numbered from 1
    handled,   \* ghost: frames each instance handled, whatever came of them
    triggered, \* telemetry requests so far
    rxErrors   \* receptions that failed in the round

multiVars ==
    <<round, current, rx, slot, telem, signal, arrived, handled, triggered, rxErrors>>

NoFrame == 0
Numbers == 1..MaxFrames
Frame   == [number: Numbers, sid: Sids]

Asleep == round = {}

-----------------------------------------------------------------------------
MultiInit ==
    /\ round = {}
    /\ current = 0
    /\ rx = <<>>
    /\ slot = [i \in Devices |-> NoFrame]
    /\ telem = Devices           \* telemetry is sent on startup
    /\ signal = TRUE
    /\ arrived = 0
    /\ handled = [i \in Devices |-> {}]
    /\ triggered = 0
    /\ rxErrors = 0

\* next_index: the first instance of the map after the one at hand.
NextIndex(index, map) ==
    LET found == {d \in 1..Size : (index + d) % Size \in map}
    IN  IF found = {} THEN index
        ELSE (index + (CHOOSE d \in found : \A e \in found : d <= e)) % Size

\* A frame passes the filters of the controller (can_init), which takes it if a
\* buffer is free; BSP_CAN_INT_vect comes with the falling edge only.
Arrive(sid) ==
    /\ arrived < MaxFrames /\ Len(rx) < RxBuffers
    /\ arrived' = arrived + 1
    /\ rx' = Append(rx, [number |-> arrived', sid |-> sid])
    /\ signal' = (signal \/ rx = <<>>)
    /\ UNCHANGED <<round, current, slot, telem, handled, triggered, rxErrors>>

\* dev_trigger_telemetry, from an interrupt, the application or a pulse's end.
TriggerTelemetry ==
    /\ triggered < MaxTriggers
    /\ triggered' = triggered + 1
    /\ telem' = Devices
    /\ signal' = TRUE
    /\ UNCHANGED <<round, current, rx, slot, arrived, handled, rxErrors>>

\* The period of an instance's telemetry ran out.
TelemetryDue(i) ==
    /\ triggered < MaxTriggers
    /\ triggered' = triggered + 1
    /\ telem' = telem \cup {i}
    /\ UNCHANGED <<round, current, rx, slot, signal, arrived, handled, rxErrors>>

\* The main loop's poll ends, by the signal or by its timeout, and dev_process
\* begins with all instances.
BeginRound ==
    /\ Asleep
    /\ signal' = (signal /\ telem # {})
    /\ round' = Devices
    /\ current' = Size - 1
    /\ rxErrors' = 0
    /\ UNCHANGED <<rx, slot, telem, arrived, handled, triggered>>

\* multi_caniot_recv for instance i: the frame it is given, if any, and the
\* slots and the controller thereafter.
Popped(i) ==
    LET frame == Head(rx)
    IN  IF frame.sid = i THEN [number |-> frame.number, slot |-> slot]
        ELSE [number |-> NoFrame,
              slot |-> IF frame.sid \in Devices
                       THEN [slot EXCEPT ![frame.sid] = frame.number] ELSE slot]

\* Bugs: a full slot keeps the frame it has; a slot is never looked at.
RecvKeeps(i) ==
    IF rx = <<>> THEN [number |-> slot[i], slot |-> [slot EXCEPT ![i] = NoFrame]]
    ELSE LET frame == Head(rx)
         IN  IF frame.sid \in Devices \ {i} /\ slot[frame.sid] # NoFrame
             THEN [number |-> NoFrame, slot |-> slot]
             ELSE Popped(i)

RecvForgetsSlot(i) ==
    IF rx = <<>> THEN [number |-> NoFrame, slot |-> slot] ELSE Popped(i)

Recv(i) ==
    IF rx = <<>> THEN [number |-> slot[i], slot |-> [slot EXCEPT ![i] = NoFrame]]
    ELSE Popped(i)

\* do_run_map once instance i found no frame and no telemetry to send.
Left(i) == round \ {i}

\* One pass of dev_process: the next instance handles the frame it is given, or
\* sends the telemetry requested of it, and stays in the round; or it leaves.
ProcessNext ==
    LET i == NextIndex(current, round)
        received == Recv(i)
    IN  /\ ~Asleep
        /\ current' = i
        /\ rx' = IF rx = <<>> THEN rx ELSE Tail(rx)
        /\ slot' = received.slot
        /\ IF received.number # NoFrame
           THEN /\ handled' = [handled EXCEPT ![i] = @ \cup {received.number}]
                /\ UNCHANGED <<round, telem>>
           ELSE /\ telem' = telem \ {i}
                /\ round' = IF i \in telem THEN round ELSE Left(i)
                /\ UNCHANGED handled
        /\ UNCHANGED <<signal, arrived, triggered, rxErrors>>

\* A pass that ends in the error of can_recv: no slot is looked at, and the
\* instance stays in the round.
ReceiveFails ==
    /\ ~Asleep /\ rxErrors < MaxRxErrors
    /\ rxErrors' = rxErrors + 1
    /\ current' = NextIndex(current, round)
    /\ UNCHANGED <<round, rx, slot, telem, signal, arrived, handled, triggered>>

MultiNext ==
    \/ \E sid \in Sids : Arrive(sid)
    \/ TriggerTelemetry
    \/ \E i \in Devices : TelemetryDue(i)
    \/ BeginRound
    \/ ProcessNext
    \/ ReceiveFails

\* The poll of the main loop has a timeout, and a turn goes on: its receptions do
\* not fail for ever.
MultiFairness == WF_multiVars(BeginRound) /\ WF_multiVars(ProcessNext)

MultiSpec == MultiInit /\ [][MultiNext]_multiVars /\ MultiFairness

-----------------------------------------------------------------------------
(* Properties *)

MultiTypeOK ==
    /\ round \in SUBSET Devices
    /\ current \in Devices
    /\ rx \in Seq(Frame)
    /\ slot \in [Devices -> Numbers \cup {NoFrame}]
    /\ telem \in SUBSET Devices
    /\ signal \in BOOLEAN
    /\ arrived \in 0..MaxFrames
    /\ handled \in [Devices -> SUBSET Numbers]
    /\ triggered \in 0..MaxTriggers
    /\ rxErrors \in 0..MaxRxErrors

\* The frames that wait for an instance, in the controller or in its slot.
Waiting(i) ==
    {rx[k].number : k \in {k \in DOMAIN rx : rx[k].sid = i}}
        \cup (IF slot[i] = NoFrame THEN {} ELSE {slot[i]})

\* The slots and the rounds implement a mailbox: a frame put aside by an instance
\* that is not its own is neither lost, unless to a later one, nor handled twice.
Mail == INSTANCE Mailbox WITH
    Instances <- Devices,
    last      <- arrived,
    waiting   <- [i \in Devices |-> Waiting(i)]

ImplementsMailbox == Mail!MailboxSpec

\* No frame waits for ever, though an instance leaves the round with its own
\* frame unread when it pops another's: the next turns get to it.
FramesSettle ==
    \A n \in Numbers :
        (\E i \in Devices : n \in Waiting(i)) ~> (\A i \in Devices : n \notin Waiting(i))

\* An instance leaves the round only when no frame waits in its slot: "no frame
\* received for the device" (dev.c:580).
LeavesDrained ==
    [][\A i \in round \ round' : slot'[i] = NoFrame]_multiVars
=============================================================================
