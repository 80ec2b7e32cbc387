-------------------------------- MODULE Node --------------------------------
(***************************************************************************)
(* A board with one device: the main loop (main.c), the processing of      *)
(* frames and telemetry (dev.c), the transmit queue (can.c), the delayed   *)
(* answers and the reset (platform.c), and the watchdog (watchdog.c).      *)
(*                                                                         *)
(* The main thread gives way to the workqueue only where it blocks: in the *)
(* poll of a turn, in k_yield after a frame, in k_sleep after an error.    *)
(* Interrupts come at any time: the controller's, the inputs', the timer's.*)
(* The workqueue sends the frames; a thread of its own, in the other build,*)
(* is woken by the same calls and does the same.                           *)
(*                                                                         *)
(* What the library makes of a frame is left open but for the commands of  *)
(* dev_apply_blc_sys_command and the answer it sends.                      *)
(***************************************************************************)
EXTENDS KernelEvents, Sequences, FiniteSets

CONSTANTS
    SysCommands,  \* commands a frame may carry
    Unreadable,   \* stands for a frame the controller fails to hand over
    RxBuffers,    \* receive buffers of the controller
    TxSize,       \* CONFIG_CAN_TX_MSGQ_SIZE
    Delayed,      \* the blocks of dmsg_slab: CONFIG_CAN_DELAYABLE_TX_BUFFER
    MaxDelay,     \* longest delay of an answer, in ticks
    MaxErrors,    \* CONFIG_CAN_WTD_MAX_ERROR_COUNT, 0 for -1
    MaxInterval,  \* max_process_interval
    ErrorSleep,   \* the sleep after an error
    ResetDelay,   \* DEFERRED_RESET_DELAY
    WdtTimeout,   \* WATCHDOG_TIMEOUT_MS
    MaxLatency,   \* ticks a work item waits, or the main thread takes from being
                  \* ready to its next blocking call
    MaxInputs     \* bound on the frames, and on the telemetry requests

SysCommand == [watchdog: {"NONE", "ON", "OFF"}, reset: BOOLEAN]

ASSUME NodeAssumption ==
    /\ SysCommands \subseteq SysCommand
    /\ Unreadable \notin SysCommand
    /\ RxBuffers \in Nat \ {0}
    /\ TxSize \in Nat \ {0}
    /\ MaxDelay \in Nat
    /\ MaxErrors \in 0..255
    /\ MaxInterval \in Nat \ {0}
    /\ ErrorSleep \in Nat \ {0}
    /\ ResetDelay \in Nat
    /\ MaxLatency \in Nat
    /\ MaxInputs \in Nat
    /\ MaxDelay + MaxLatency < ResetDelay
    /\ WdtTimeout \in Nat
    /\ MaxInterval + 2 * MaxLatency < WdtTimeout
    /\ ErrorSleep + 2 * MaxLatency < WdtTimeout

VARIABLES
    stage,    \* where the main thread is
    sleep,    \* ticks until its poll or its sleep ends
    late,     \* ticks it has been ready to run, or running
    signal,   \* dev_process_sig
    rx,       \* frames in the controller, oldest first
    telem,    \* telemetry is requested
    txq,      \* frames to send, oldest first
    txwork,   \* can_tx_work
    delay,    \* per block of dmsg_slab: its event
    held,     \* per block: its message
    free,     \* blocks that are free
    reset,    \* the event of sys_work
    syswork,  \* the work of sys_work
    wdt,      \* ticks until the watchdog resets the board, if it is enabled
    errors,   \* can_wtd_error_count
    frames,   \* frames that arrived
    triggers  \* telemetry requests, but for the periodic ones

queueVars  == <<txq, txwork, delay, held, free>>
resetVars  == <<reset, syswork>>
inputVars  == <<frames, triggers>>
nodeVars   == <<stage, sleep, late, signal, rx, telem, queueVars, resetVars, wdt,
                errors, inputVars>>

Ack      == "ACK"     \* the answer to the command that began a reset
Answer   == "ANSWER"  \* any other answer, and telemetry
Messages == {Ack, Answer}

Stages == {"TURN", "POLL", "CHECK", "CLEAR", "ALIVE", "PROCESS", "YIELD", "SLEEP",
           "SPIN"}

\* The main thread lets others run; in the spin of reset_now nothing does.
Blocked  == stage \in {"POLL", "YIELD", "SLEEP"}
Spinning == stage = "SPIN"

\* It is waiting, rather than running or ready to run.
Waiting == \/ stage = "POLL" /\ ~signal /\ sleep > 0
           \/ stage = "SLEEP" /\ sleep > 0

-----------------------------------------------------------------------------
\* main, once everything is initialised and telemetry was triggered.
NodeInit ==
    /\ stage = "TURN" /\ sleep = 0 /\ late = 0
    /\ signal = TRUE
    /\ rx = <<>>
    /\ telem = TRUE
    /\ txq = <<>> /\ txwork = Idle
    /\ delay = [b \in Delayed |-> Unscheduled]
    /\ held = [b \in Delayed |-> Answer]
    /\ free = Delayed
    /\ reset = Unscheduled /\ syswork = Idle
    /\ wdt = WdtTimeout
    /\ errors = 0
    /\ frames = 0 /\ triggers = 0

\* The main thread goes on, or comes to a blocking call.
Step(s)     == stage' = s /\ UNCHANGED <<sleep, late>>
Block(s, t) == stage' = s /\ sleep' = t /\ late' = 0

\* alive, of the only critical thread; wdt_reset leaves a watchdog that is off.
Alive == wdt' = IF wdt = Unscheduled THEN wdt ELSE WdtTimeout

\* reset_now: enable the watchdog if it is off, and let it run out.
\* Bug: it is not enabled.
ResetNowAsIs ==
    /\ stage' = "SPIN"
    /\ UNCHANGED <<sleep, late, wdt>>

ResetNow ==
    /\ stage' = "SPIN"
    /\ wdt' = IF wdt = Unscheduled THEN WdtTimeout ELSE wdt
    /\ UNCHANGED <<sleep, late>>

-----------------------------------------------------------------------------
(* Sending *)

\* can_txq_message.  Bug: one frame more than there is room for.
PutOver(message) ==
    IF Len(txq) <= TxSize
    THEN txq' = Append(txq, message) /\ txwork' = Submit(txwork)
    ELSE UNCHANGED <<txq, txwork>>

Put(message) ==
    IF Len(txq) < TxSize
    THEN txq' = Append(txq, message) /\ txwork' = Submit(txwork)
    ELSE UNCHANGED <<txq, txwork>>

\* platform_caniot_send: at once, or by a block of the slab and its event.
Accepts(d) == IF d = 0 THEN Len(txq) < TxSize ELSE free # {}

Send(message, d) ==
    IF d = 0 THEN Put(message) /\ UNCHANGED <<delay, held, free>>
    ELSE IF free = {} THEN UNCHANGED queueVars
    ELSE LET b == CHOOSE b \in free : TRUE
         IN  /\ delay' = [delay EXCEPT ![b] = Schedule(@, d)]
             /\ held' = [held EXCEPT ![b] = message]
             /\ free' = free \ {b}
             /\ UNCHANGED <<txq, txwork>>

\* dmsg_handler, in the timer interrupt.  Bug: a message that finds the queue
\* full keeps its block.
DelayedSendKeeps(b) ==
    /\ ~Spinning /\ Expired(delay[b])
    /\ delay' = [delay EXCEPT ![b] = Unscheduled]
    /\ Put(held[b])
    /\ free' = IF Len(txq) < TxSize THEN free \cup {b} ELSE free
    /\ UNCHANGED <<stage, sleep, late, signal, rx, telem, held, resetVars, wdt,
                   errors, inputVars>>

DelayedSend(b) ==
    /\ ~Spinning /\ Expired(delay[b])
    /\ delay' = [delay EXCEPT ![b] = Unscheduled]
    /\ Put(held[b])
    /\ free' = free \cup {b}
    /\ UNCHANGED <<stage, sleep, late, signal, rx, telem, held, resetVars, wdt,
                   errors, inputVars>>

\* can_watchdog: how many frames may have failed on end once the queue is empty,
\* its last ones, or all of them after others.
Failures == (0..Len(txq) - 1) \cup {errors + Len(txq)}

\* can_tx_wq_cb: every frame is sent, or fails to be; too many failures on end
\* reset the board (if some in the middle would, so would all of them).
TxDrain ==
    /\ Blocked /\ txwork # Idle
    /\ txq' = <<>>
    /\ txwork' = Idle
    /\ \E n \in Failures :
          IF MaxErrors # 0 /\ n >= MaxErrors THEN ResetNow /\ UNCHANGED errors
          ELSE /\ errors' = IF MaxErrors = 0 THEN 0 ELSE n
               /\ UNCHANGED <<stage, sleep, late, wdt>>
    /\ UNCHANGED <<signal, rx, telem, delay, held, free, resetVars, inputVars>>

-----------------------------------------------------------------------------
(* Interrupts *)

\* BSP_CAN_INT_vect, at the falling edge of the controller's line only.
Arrive(frame) ==
    /\ ~Spinning
    /\ frames < MaxInputs /\ Len(rx) < RxBuffers
    /\ frames' = frames + 1
    /\ rx' = Append(rx, frame)
    /\ signal' = (signal \/ rx = <<>>)
    /\ UNCHANGED <<stage, sleep, late, telem, queueVars, resetVars, wdt, errors,
                   triggers>>

\* dev_trigger_telemetry from an interrupt of the inputs.
TriggerTelemetry ==
    /\ ~Spinning
    /\ triggers < MaxInputs
    /\ triggers' = triggers + 1
    /\ telem' = TRUE
    /\ signal' = TRUE
    /\ UNCHANGED <<stage, sleep, late, rx, queueVars, resetVars, wdt, errors, frames>>

\* The delay of the reset is over: its work is submitted.
ResetDue ==
    /\ ~Spinning /\ Expired(reset)
    /\ reset' = Unscheduled
    /\ syswork' = Submit(syswork)
    /\ UNCHANGED <<stage, sleep, late, signal, rx, telem, queueVars, wdt, errors,
                   inputVars>>

\* sys_work_handler.
SysWork ==
    /\ Blocked /\ syswork # Idle
    /\ syswork' = Idle
    /\ ResetNow
    /\ UNCHANGED <<signal, rx, telem, queueVars, reset, errors, inputVars>>

-----------------------------------------------------------------------------
(* The main thread *)

\* Bug: the signal is cleared on the way into the poll, after the frames were read.
PollClears ==
    /\ stage = "TURN"
    /\ signal' = FALSE
    /\ IF telem THEN Step("CHECK") ELSE \E t \in 1..MaxInterval : Block("POLL", t)
    /\ UNCHANGED <<rx, telem, queueVars, resetVars, wdt, errors, inputVars>>

\* A turn begins with the poll, which does not block if there is something to do;
\* the library asks for a turn at once when telemetry is requested.
Poll ==
    /\ stage = "TURN"
    /\ IF signal \/ telem THEN Step("CHECK")
       ELSE \E t \in 1..MaxInterval : Block("POLL", t)
    /\ UNCHANGED <<signal, rx, telem, queueVars, resetVars, wdt, errors, inputVars>>

\* The poll ends, by the signal or by its timeout: telemetry may be due by then.
PollEnds ==
    /\ stage = "POLL" /\ ~Waiting
    /\ Step("CHECK")
    /\ telem' \in {telem, telem \/ sleep = 0}
    /\ UNCHANGED <<signal, rx, queueVars, resetVars, wdt, errors, inputVars>>

\* if (!dev_telemetry_is_requested()) K_SIGNAL_SET_UNREADY.
CheckTelemetry ==
    /\ stage = "CHECK"
    /\ Step(IF telem THEN "ALIVE" ELSE "CLEAR")
    /\ UNCHANGED <<signal, rx, telem, queueVars, resetVars, wdt, errors, inputVars>>

ClearSignal ==
    /\ stage = "CLEAR"
    /\ Step("ALIVE")
    /\ signal' = FALSE
    /\ UNCHANGED <<rx, telem, queueVars, resetVars, wdt, errors, inputVars>>

\* alive, and pulse_process and app_process, which may ask for telemetry.
Prepare ==
    /\ stage = "ALIVE"
    /\ Step("PROCESS")
    /\ Alive
    /\ \/ UNCHANGED <<signal, telem, triggers>>
       \/ /\ triggers < MaxInputs /\ triggers' = triggers + 1
          /\ signal' = TRUE /\ telem' = TRUE
    /\ UNCHANGED <<rx, queueVars, resetVars, errors, frames>>

\* dev_process once the library returned: k_yield after success, k_sleep after an
\* error.
Yield == Block("YIELD", 0)
Pause == Block("SLEEP", ErrorSleep)

\* dev_apply_blc_sys_command and platform_reset.  Bugs: the reset is not delayed;
\* the same command again delays it again.
ResetAtOnce == Schedule(reset, 0)
ResetAgain == Schedule(Cancel(reset), ResetDelay)
ResetLater == Schedule(reset, ResetDelay)

Apply(command) ==
    /\ wdt' = CASE command.watchdog = "ON"   -> WdtTimeout
                [] command.watchdog = "OFF"  -> Unscheduled
                [] command.watchdog = "NONE" -> wdt
    /\ reset' = IF command.reset THEN ResetLater ELSE reset

BeginsReset(command) == command.reset /\ reset = Unscheduled /\ syswork = Idle

\* The library takes a frame, and sends an answer.
ProcessFrame ==
    /\ stage = "PROCESS" /\ rx # <<>> /\ Head(rx) # Unreadable
    /\ rx' = Tail(rx)
    /\ Apply(Head(rx))
    /\ \E d \in 0..MaxDelay :
          /\ Send(IF BeginsReset(Head(rx)) THEN Ack ELSE Answer, d)
          /\ IF Accepts(d) THEN Yield ELSE Pause
    /\ UNCHANGED <<signal, telem, syswork, errors, inputVars>>

\* can_recv fails.
ProcessError ==
    /\ stage = "PROCESS" /\ rx # <<>> /\ Head(rx) = Unreadable
    /\ rx' = Tail(rx)
    /\ Pause
    /\ UNCHANGED <<signal, telem, queueVars, resetVars, wdt, errors, inputVars>>

\* There is no frame, but telemetry to send; the library may give up on it if it
\* cannot.
ProcessTelemetry ==
    /\ stage = "PROCESS" /\ rx = <<>> /\ telem
    /\ Send(Answer, 0)
    /\ IF Accepts(0) THEN Yield /\ telem' = FALSE
       ELSE Pause /\ telem' \in BOOLEAN
    /\ UNCHANGED <<signal, rx, resetVars, wdt, errors, inputVars>>

\* -CANIOT_EAGAIN.
ProcessNothing ==
    /\ stage = "PROCESS" /\ rx = <<>> /\ ~telem
    /\ Step("TURN")
    /\ Alive
    /\ UNCHANGED <<signal, rx, telem, queueVars, resetVars, errors, inputVars>>

\* Bug: dev_process does not say it is alive.
ResumeSilent ==
    /\ stage \in {"YIELD", "SLEEP"} /\ ~Waiting
    /\ Step("PROCESS")
    /\ UNCHANGED <<signal, rx, telem, queueVars, resetVars, wdt, errors, inputVars>>

\* dev_process after its k_yield or k_sleep: alive, and once more.
Resume ==
    /\ stage \in {"YIELD", "SLEEP"} /\ ~Waiting
    /\ Step("PROCESS")
    /\ Alive
    /\ UNCHANGED <<signal, rx, telem, queueVars, resetVars, errors, inputVars>>

Main ==
    \/ Poll \/ PollEnds \/ CheckTelemetry \/ ClearSignal \/ Prepare
    \/ ProcessFrame \/ ProcessError \/ ProcessTelemetry \/ ProcessNothing \/ Resume

-----------------------------------------------------------------------------
\* Time: events fire before it goes on, and nobody is later than the bound.
Tick ==
    /\ wdt # 0
    /\ IF Spinning THEN UNCHANGED <<sleep, late, txwork, delay, resetVars>>
       ELSE /\ \A b \in Delayed : ~Expired(delay[b])
            /\ ~Expired(reset)
            /\ txwork < MaxLatency /\ syswork < MaxLatency
            /\ IF Waiting THEN sleep' = sleep - 1 /\ UNCHANGED late
               ELSE late < MaxLatency /\ late' = late + 1 /\ UNCHANGED sleep
            /\ txwork' = Wait(txwork) /\ syswork' = Wait(syswork)
            /\ delay' = [b \in Delayed |-> Elapse(delay[b])]
            /\ reset' = Elapse(reset)
    /\ wdt' = Elapse(wdt)
    /\ UNCHANGED <<stage, signal, rx, telem, txq, held, free, errors, inputVars>>

\* The watchdog runs out, and the board boots.
Restart ==
    /\ wdt = 0
    /\ stage' = "TURN" /\ sleep' = 0 /\ late' = 0
    /\ signal' = TRUE
    /\ rx' = <<>>
    /\ telem' = TRUE
    /\ txq' = <<>> /\ txwork' = Idle
    /\ delay' = [b \in Delayed |-> Unscheduled]
    /\ held' = [b \in Delayed |-> Answer]
    /\ free' = Delayed
    /\ reset' = Unscheduled /\ syswork' = Idle
    /\ wdt' = WdtTimeout
    /\ errors' = 0
    /\ UNCHANGED inputVars

NodeNext ==
    \/ Main
    \/ \E frame \in SysCommands \cup {Unreadable} : Arrive(frame)
    \/ TriggerTelemetry
    \/ \E b \in Delayed : DelayedSend(b)
    \/ ResetDue \/ SysWork \/ TxDrain
    \/ Tick \/ Restart

\* Ready threads run when another one blocks, due events fire, time goes on.
NodeFairness ==
    /\ WF_nodeVars(Main)
    /\ WF_nodeVars(\E b \in Delayed : DelayedSend(b))
    /\ WF_nodeVars(ResetDue)
    /\ SF_nodeVars(SysWork)
    /\ SF_nodeVars(TxDrain)
    /\ WF_nodeVars(Tick)
    /\ WF_nodeVars(Restart)

NodeSpec == NodeInit /\ [][NodeNext]_nodeVars /\ NodeFairness

-----------------------------------------------------------------------------
(* Properties *)

NodeTypeOK ==
    /\ stage \in Stages
    /\ sleep \in Nat /\ late \in 0..MaxLatency
    /\ signal \in BOOLEAN
    /\ rx \in Seq(SysCommands \cup {Unreadable}) /\ Len(rx) <= RxBuffers
    /\ telem \in BOOLEAN
    /\ txq \in Seq(Messages) /\ Len(txq) <= TxSize
    /\ txwork \in WorkState
    /\ delay \in [Delayed -> EventTime]
    /\ held \in [Delayed -> Messages]
    /\ free \in SUBSET Delayed
    /\ reset \in EventTime
    /\ syswork \in WorkState
    /\ wdt \in EventTime
    /\ errors \in Nat
    /\ frames \in 0..MaxInputs
    /\ triggers \in 0..MaxInputs

\* The main thread never sleeps on work: if nothing signals it, no frame waits in
\* the controller, whose line gives no second edge, and no telemetry is due.
SleepsDrained == stage = "POLL" /\ ~signal => rx = <<>> /\ ~telem

\* The watchdog never resets a board that was not told to: the thread says it is
\* alive in time, whatever frames, errors and answers that find no room come.
WatchdogPatient == wdt = 0 => Spinning

\* A frame to send has its work submitted, and a block of the slab is free or
\* waits for its event, never neither: nothing queued is forgotten.
NothingStranded ==
    ~Spinning =>
        /\ txq # <<>> => txwork # Idle
        /\ \A b \in Delayed : b \in free <=> delay[b] = Unscheduled

\* "Let time for the device to send the CAN response if pending" (platform.c:18):
\* when the reset it was told comes, the command that began it has its answer sent
\* or dropped, not waiting.
Unsent(message) ==
    \/ \E k \in DOMAIN txq : txq[k] = message
    \/ \E b \in Delayed : delay[b] # Unscheduled /\ held[b] = message

AckBeforeReset == [][SysWork => ~Unsent(Ack)]_nodeVars

\* A reset that was ordered comes, even if the same command, or a later one,
\* disables the watchdog that is to carry it out.
ResetComing == reset # Unscheduled \/ syswork # Idle \/ Spinning
ResetComes  == ResetComing ~> ~ResetComing

\* How long a reset may still take: the delay, the workqueue's latency, and the
\* watchdog that reset_now waits for.
ResetLeft == IF Spinning THEN wdt
             ELSE IF syswork # Idle THEN MaxLatency - syswork + WdtTimeout
             ELSE reset + MaxLatency + WdtTimeout

LongestReset == ResetDelay + MaxLatency + WdtTimeout

\* No command, frame or error after it delays a reset that was ordered, nor calls
\* it off, nor takes from reset_now the watchdog it waits for: it is due within a
\* time that every tick shortens and only the restart ends.
ResetFalls == ResetComing /\ ~Restart =>
    ResetComing' /\ ResetLeft' <= ResetLeft /\ (Tick => ResetLeft' < ResetLeft)

ResetInTime == [](ResetComing => ResetLeft \in 0..LongestReset)
               /\ [][ResetFalls]_nodeVars
=============================================================================
