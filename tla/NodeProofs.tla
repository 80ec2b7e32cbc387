----------------------------- MODULE NodeProofs -----------------------------
(***************************************************************************)
(* Theorems about Node, for any commands, sizes of the queues, delays and  *)
(* latency under the assumptions of that module, and any number of frames. *)
(***************************************************************************)
EXTENDS Node, SequenceTheorems, TLAPS

USE DEF EventTime, WorkState, Unscheduled, Idle

-----------------------------------------------------------------------------
(* What sending does to the queue and the slab *)

LEMMA PutSafe ==
    ASSUME NodeTypeOK, NEW message \in Messages, Put(message)
    PROVE  /\ txq' \in Seq(Messages)
           /\ Len(txq') <= TxSize
           /\ txwork' \in WorkState
           /\ (txq # <<>> => txwork # Idle) => (txq' # <<>> => txwork' # Idle)
<1>1. CASE Len(txq) < TxSize
  <2>1. /\ txq' = Append(txq, message)
        /\ txwork' = Submit(txwork)
    BY <1>1 DEF Put
  <2>2. /\ txq' \in Seq(Messages)
        /\ Len(txq') = Len(txq) + 1
    BY <2>1, AppendProperties DEF NodeTypeOK
  <2>3. txwork' \in Nat
    BY <2>1 DEF Submit, NodeTypeOK
  <2>4. Len(txq) \in Nat /\ TxSize \in Nat
    BY NodeAssumption, LenProperties DEF NodeTypeOK
  <2> QED
    BY <1>1, <2>2, <2>3, <2>4
<1>2. CASE ~(Len(txq) < TxSize)
  BY <1>2 DEF Put, NodeTypeOK
<1> QED
  BY <1>1, <1>2

LEMMA SendSafe ==
    ASSUME NodeTypeOK, NEW message \in Messages, NEW d \in 0..MaxDelay,
           Send(message, d)
    PROVE  /\ txq' \in Seq(Messages)
           /\ Len(txq') <= TxSize
           /\ txwork' \in WorkState
           /\ delay' \in [Delayed -> EventTime]
           /\ held' \in [Delayed -> Messages]
           /\ free' \in SUBSET Delayed
<1>1. CASE d = 0
  BY <1>1, PutSafe DEF Send, NodeTypeOK
<1>2. CASE d # 0 /\ free = {}
  BY <1>2 DEF Send, NodeTypeOK, queueVars
<1>3. CASE d # 0 /\ free # {}
  <2> DEFINE b == CHOOSE b \in free : TRUE
  <2>1. /\ delay' = [delay EXCEPT ![b] = Schedule(@, d)]
        /\ held' = [held EXCEPT ![b] = message]
        /\ free' = free \ {b}
        /\ UNCHANGED <<txq, txwork>>
    BY <1>3 DEF Send
  <2>2. b \in Delayed
    BY <1>3 DEF NodeTypeOK
  <2> HIDE DEF b
  <2>3. Schedule(delay[b], d) \in EventTime
    BY <2>2, NodeAssumption DEF Schedule, NodeTypeOK
  <2> QED
    BY <2>1, <2>2, <2>3 DEF NodeTypeOK
<1> QED
  BY <1>1, <1>2, <1>3

-----------------------------------------------------------------------------
(* Type correctness *)

LEMMA TypeInit == NodeInit => NodeTypeOK
BY NodeAssumption, EmptySeq
   DEF NodeInit, NodeTypeOK, Stages, Messages, Answer

LEMMA TypeMain ==
    ASSUME NodeTypeOK, Main
    PROVE  NodeTypeOK'
<1> USE NodeAssumption DEF NodeTypeOK, Stages
<1>1. CASE Poll
  BY <1>1 DEF Poll, Step, Block, queueVars, resetVars, inputVars
<1>2. CASE PollEnds
  BY <1>2 DEF PollEnds, Step, queueVars, resetVars, inputVars
<1>3. CASE CheckTelemetry
  BY <1>3 DEF CheckTelemetry, Step, queueVars, resetVars, inputVars
<1>4. CASE ClearSignal
  BY <1>4 DEF ClearSignal, Step, queueVars, resetVars, inputVars
<1>5. CASE Prepare
  <2>1. wdt' \in EventTime
    BY <1>5 DEF Prepare, Alive
  <2>2. signal' \in BOOLEAN /\ telem' \in BOOLEAN
    BY <1>5, Zenon DEF Prepare
  <2>3. triggers' \in 0..MaxInputs
    <3>1. \/ triggers' = triggers
          \/ triggers < MaxInputs /\ triggers' = triggers + 1
      BY <1>5, Zenon DEF Prepare
    <3> QED
      BY <3>1
  <2> QED
    BY <1>5, <2>1, <2>2, <2>3 DEF Prepare, Step, queueVars, resetVars
<1>6. CASE ProcessFrame
  <2>1. Head(rx) \in SysCommands /\ rx' \in Seq(SysCommands \cup {Unreadable})
        /\ Len(rx') <= RxBuffers
    <3>1. rx # <<>> /\ Head(rx) # Unreadable /\ rx' = Tail(rx)
      BY <1>6 DEF ProcessFrame
    <3>2. Len(rx) \in Nat /\ Len(rx') = Len(rx) - 1
      BY <3>1, HeadTailProperties, LenProperties
    <3> QED
      BY <3>1, <3>2, HeadTailProperties
  <2>2. wdt' \in EventTime /\ reset' \in EventTime
    BY <1>6, <2>1 DEF ProcessFrame, Apply, SysCommand, ResetLater, Schedule
  <2>3. PICK d \in 0..MaxDelay :
          /\ Send(IF BeginsReset(Head(rx)) THEN Ack ELSE Answer, d)
          /\ IF Accepts(d) THEN Yield ELSE Pause
    BY <1>6 DEF ProcessFrame
  <2>4. (IF BeginsReset(Head(rx)) THEN Ack ELSE Answer) \in Messages
    BY DEF Messages
  <2>5. /\ txq' \in Seq(Messages) /\ Len(txq') <= TxSize
        /\ txwork' \in WorkState
        /\ delay' \in [Delayed -> EventTime]
        /\ held' \in [Delayed -> Messages]
        /\ free' \in SUBSET Delayed
    BY <2>3, <2>4, SendSafe
  <2>6. stage' \in Stages /\ sleep' \in Nat /\ late' = 0
    BY <2>3 DEF Yield, Pause, Block
  <2> QED
    BY <1>6, <2>1, <2>2, <2>5, <2>6 DEF ProcessFrame, inputVars
<1>7. CASE ProcessError
  <2>1. rx' \in Seq(SysCommands \cup {Unreadable}) /\ Len(rx') <= RxBuffers
    <3>1. rx # <<>> /\ rx' = Tail(rx)
      BY <1>7 DEF ProcessError
    <3>2. Len(rx) \in Nat /\ Len(rx') = Len(rx) - 1
      BY <3>1, HeadTailProperties, LenProperties
    <3> QED
      BY <3>1, <3>2, HeadTailProperties
  <2> QED
    BY <1>7, <2>1 DEF ProcessError, Pause, Block, queueVars, resetVars, inputVars
<1>8. CASE ProcessTelemetry
  <2>1. 0 \in 0..MaxDelay /\ Answer \in Messages /\ Send(Answer, 0)
    BY <1>8 DEF Messages, ProcessTelemetry
  <2>2. /\ txq' \in Seq(Messages) /\ Len(txq') <= TxSize
        /\ txwork' \in WorkState
        /\ delay' \in [Delayed -> EventTime]
        /\ held' \in [Delayed -> Messages]
        /\ free' \in SUBSET Delayed
    BY <2>1, SendSafe
  <2>3. stage' \in Stages /\ sleep' \in Nat /\ late' = 0
    BY <1>8 DEF ProcessTelemetry, Yield, Pause, Block
  <2>4. telem' \in BOOLEAN
    BY <1>8, Zenon DEF ProcessTelemetry
  <2> QED
    BY <1>8, <2>2, <2>3, <2>4 DEF ProcessTelemetry, resetVars, inputVars
<1>9. CASE ProcessNothing
  BY <1>9 DEF ProcessNothing, Step, Alive, queueVars, resetVars, inputVars
<1>10. CASE Resume
  BY <1>10 DEF Resume, Step, Alive, queueVars, resetVars, inputVars
<1> QED
  BY <1>1, <1>2, <1>3, <1>4, <1>5, <1>6, <1>7, <1>8, <1>9, <1>10 DEF Main

LEMMA TypeNext ==
    ASSUME NodeTypeOK, [NodeNext]_nodeVars
    PROVE  NodeTypeOK'
<1> USE NodeAssumption DEF NodeTypeOK, Stages
<1>1. CASE Main
  BY <1>1, TypeMain
<1>2. ASSUME NEW frame \in SysCommands \cup {Unreadable}, Arrive(frame)
      PROVE  NodeTypeOK'
  <2>1. rx' = Append(rx, frame) /\ Len(rx) < RxBuffers
    BY <1>2 DEF Arrive
  <2>2. rx' \in Seq(SysCommands \cup {Unreadable}) /\ Len(rx') <= RxBuffers
    <3>1. Len(rx') = Len(rx) + 1 /\ Len(rx) \in Nat
      BY <2>1, AppendProperties, LenProperties
    <3> QED
      BY <2>1, <3>1, AppendProperties
  <2>3. signal' \in BOOLEAN
    BY <1>2 DEF Arrive
  <2> QED
    BY <1>2, <2>2, <2>3 DEF Arrive, queueVars, resetVars
<1>3. CASE TriggerTelemetry
  BY <1>3 DEF TriggerTelemetry, queueVars, resetVars
<1>4. ASSUME NEW b \in Delayed, DelayedSend(b)
      PROVE  NodeTypeOK'
  <2>1. Put(held[b]) /\ held[b] \in Messages
    BY <1>4 DEF DelayedSend
  <2>2. txq' \in Seq(Messages) /\ Len(txq') <= TxSize /\ txwork' \in WorkState
    BY <2>1, PutSafe
  <2> QED
    BY <1>4, <2>2 DEF DelayedSend, resetVars, inputVars
<1>5. CASE ResetDue
  BY <1>5 DEF ResetDue, Submit, queueVars, inputVars
<1>6. CASE SysWork
  BY <1>6 DEF SysWork, ResetNow, queueVars, inputVars
<1>7. CASE TxDrain
  <2>1. txq' \in Seq(Messages) /\ Len(txq') <= TxSize
    BY <1>7, EmptySeq DEF TxDrain
  <2>2. PICK n \in Failures :
          IF MaxErrors # 0 /\ n >= MaxErrors THEN ResetNow /\ UNCHANGED errors
          ELSE /\ errors' = IF MaxErrors = 0 THEN 0 ELSE n
               /\ UNCHANGED <<stage, sleep, late, wdt>>
    BY <1>7 DEF TxDrain
  <2>3. n \in Nat
    BY LenProperties DEF Failures
  <2>4. /\ stage' \in Stages /\ sleep' \in Nat /\ late' \in 0..MaxLatency
        /\ wdt' \in EventTime /\ errors' \in Nat
    BY <2>2, <2>3, SMTT(60) DEF ResetNow
  <2> QED
    BY <1>7, <2>1, <2>4 DEF TxDrain, resetVars, inputVars
<1>8. CASE Tick
  <2>1. wdt' \in EventTime
    BY <1>8 DEF Tick, Elapse
  <2>2. CASE Spinning
    BY <1>8, <2>1, <2>2 DEF Tick, resetVars, inputVars
  <2>3. CASE ~Spinning
    <3>1. delay' \in [Delayed -> EventTime]
      BY <1>8, <2>3 DEF Tick, Elapse, Expired
    <3>2. reset' \in EventTime
      BY <1>8, <2>3 DEF Tick, Elapse, Expired
    <3>3. txwork' \in WorkState /\ syswork' \in WorkState
      BY <1>8, <2>3, SMTT(60) DEF Tick, Wait
    <3>4. sleep' \in Nat /\ late' \in 0..MaxLatency
      BY <1>8, <2>3, SMTT(60) DEF Tick, Waiting
    <3> QED
      BY <1>8, <2>1, <3>1, <3>2, <3>3, <3>4 DEF Tick, inputVars
  <2> QED
    BY <2>2, <2>3
<1>9. CASE Restart
  BY <1>9, EmptySeq DEF Restart, inputVars, Messages, Answer
<1>10. CASE UNCHANGED nodeVars
  BY <1>10 DEF nodeVars, queueVars, resetVars, inputVars
<1> QED
  BY <1>1, <1>2, <1>3, <1>4, <1>5, <1>6, <1>7, <1>8, <1>9, <1>10 DEF NodeNext

\* The state of the board is well typed: neither queue overflows, whatever
\* arrives and however often a send is refused (can_txq_message).
THEOREM TypeCorrect == NodeSpec => []NodeTypeOK
<1>1. NodeInit => NodeTypeOK
  BY TypeInit
<1>2. NodeTypeOK /\ [NodeNext]_nodeVars => NodeTypeOK'
  BY TypeNext
<1> QED
  BY <1>1, <1>2, PTL DEF NodeSpec

-----------------------------------------------------------------------------
(* The transmit queue and the delayed messages *)

\* What NothingStranded says, whether or not the board is about to restart.
Kept ==
    /\ txq # <<>> => txwork # Idle
    /\ \A b \in Delayed : b \in free <=> delay[b] = Unscheduled

LEMMA SendKeeps ==
    ASSUME NodeTypeOK, Kept, NEW message \in Messages, NEW d \in 0..MaxDelay,
           Send(message, d)
    PROVE  Kept'
<1>1. CASE d = 0
  <2>1. Put(message) /\ UNCHANGED <<delay, held, free>>
    BY <1>1 DEF Send
  <2> QED
    BY <2>1, PutSafe DEF Kept
<1>2. CASE d # 0 /\ free = {}
  BY <1>2 DEF Send, Kept, queueVars
<1>3. CASE d # 0 /\ free # {}
  <2> DEFINE b == CHOOSE b \in free : TRUE
  <2>1. /\ delay' = [delay EXCEPT ![b] = Schedule(@, d)]
        /\ free' = free \ {b}
        /\ UNCHANGED <<txq, txwork>>
    BY <1>3 DEF Send
  <2>2. b \in free
    BY <1>3
  <2> HIDE DEF b
  <2>3. delay[b] = Unscheduled /\ b \in Delayed
    BY <2>2 DEF Kept, NodeTypeOK
  <2>4. Schedule(delay[b], d) # Unscheduled
    BY <2>3, <1>3, NodeAssumption DEF Schedule
  <2> QED
    BY <2>1, <2>2, <2>3, <2>4 DEF Kept, NodeTypeOK
<1> QED
  BY <1>1, <1>2, <1>3

LEMMA KeptNext ==
    ASSUME NodeTypeOK, Kept, [NodeNext]_nodeVars
    PROVE  Kept'
<1> USE DEF Kept
<1>1. CASE UNCHANGED queueVars
  BY <1>1 DEF queueVars
<1>2. CASE ProcessFrame
  <2>1. PICK d \in 0..MaxDelay :
           Send(IF BeginsReset(Head(rx)) THEN Ack ELSE Answer, d)
    BY <1>2 DEF ProcessFrame
  <2> QED
    BY <2>1, SendKeeps DEF Messages
<1>3. CASE ProcessTelemetry
  BY <1>3, SendKeeps, NodeAssumption DEF ProcessTelemetry, Messages
<1>4. ASSUME NEW b \in Delayed, DelayedSend(b)
      PROVE  Kept'
  <2>1. /\ Put(held[b]) /\ held[b] \in Messages
        /\ delay' = [delay EXCEPT ![b] = Unscheduled]
        /\ free' = free \cup {b}
    BY <1>4 DEF DelayedSend, NodeTypeOK
  <2>2. txq' # <<>> => txwork' # Idle
    BY <2>1, PutSafe
  <2> QED
    BY <2>1, <2>2 DEF NodeTypeOK
<1>5. CASE TxDrain
  BY <1>5 DEF TxDrain
<1>6. CASE Tick
  <2>1. CASE Spinning
    BY <1>6, <2>1 DEF Tick
  <2>2. CASE ~Spinning
    <3>1. txq' = txq /\ free' = free
      BY <1>6 DEF Tick
    <3>2. txwork' = Wait(txwork)
          /\ delay' = [b \in Delayed |-> Elapse(delay[b])]
      BY <1>6, <2>2 DEF Tick
    <3>3. \A b \in Delayed : ~Expired(delay[b])
      BY <1>6, <2>2 DEF Tick
    <3>4. \A b \in Delayed : Elapse(delay[b]) = Unscheduled <=> delay[b] = Unscheduled
      BY <3>3 DEF Elapse, Expired, NodeTypeOK
    <3>5. txwork # Idle => txwork' # Idle
      BY <3>2 DEF Wait, NodeTypeOK
    <3> QED
      BY <3>1, <3>2, <3>4, <3>5
  <2> QED
    BY <2>1, <2>2
<1>7. CASE Restart
  BY <1>7 DEF Restart
<1>8. CASE UNCHANGED nodeVars
  BY <1>1, <1>8 DEF nodeVars
<1>9. ASSUME NEW frame \in SysCommands \cup {Unreadable}, Arrive(frame)
      PROVE  Kept'
  BY <1>1, <1>9 DEF Arrive
<1>10. CASE Poll \/ PollEnds \/ CheckTelemetry \/ ClearSignal \/ Prepare
            \/ ProcessError \/ ProcessNothing \/ Resume
  BY <1>1, <1>10 DEF Poll, PollEnds, CheckTelemetry, ClearSignal, Prepare,
                     ProcessError, ProcessNothing, Resume
<1>11. CASE TriggerTelemetry \/ ResetDue \/ SysWork
  BY <1>1, <1>11 DEF TriggerTelemetry, ResetDue, SysWork
<1> QED
  BY <1>2, <1>3, <1>4, <1>5, <1>6, <1>7, <1>8, <1>9, <1>10, <1>11 DEF NodeNext, Main

\* A frame in the transmit queue has its work submitted, and the slab of delayed
\* messages neither loses a block nor hands out one that waits (can.c, platform.c).
THEOREM NothingStrandedHolds == NodeSpec => []NothingStranded
<1>1. NodeInit => Kept
  BY DEF NodeInit, Kept
<1>2. NodeTypeOK /\ Kept /\ [NodeNext]_nodeVars => Kept'
  BY KeptNext
<1>3. Kept => NothingStranded
  BY DEF Kept, NothingStranded
<1> QED
  BY <1>1, <1>2, <1>3, TypeCorrect, PTL DEF NodeSpec

-----------------------------------------------------------------------------
(* The signal *)

\* From the end of a turn to the end of the poll, a frame or a request that came
\* in between has left its signal.
Signalled ==
    /\ stage \in {"TURN", "POLL"} /\ ~signal => rx = <<>>
    /\ stage = "POLL" /\ ~signal => ~telem

LEMMA SignalledNext ==
    ASSUME NodeTypeOK, Signalled, [NodeNext]_nodeVars
    PROVE  Signalled'
<1> USE DEF Signalled
<1>1. CASE stage' \notin {"TURN", "POLL"}
  BY <1>1
<1>2. CASE Poll
  BY <1>2, Zenon DEF Poll, Step, Block
<1>3. CASE ProcessNothing
  BY <1>3 DEF ProcessNothing, Step
<1>4. CASE Restart
  BY <1>4 DEF Restart
<1>5. ASSUME NEW frame \in SysCommands \cup {Unreadable}, Arrive(frame)
      PROVE  Signalled'
  <2>1. /\ signal' = (signal \/ rx = <<>>)
        /\ stage' = stage /\ telem' = telem
    BY <1>5 DEF Arrive
  <2> QED
    BY <2>1
<1>6. CASE TriggerTelemetry
  BY <1>6 DEF TriggerTelemetry
<1>7. CASE stage' = stage /\ UNCHANGED <<signal, rx, telem>>
  BY <1>7
<1>8. CASE UNCHANGED nodeVars
  BY <1>7, <1>8 DEF nodeVars
<1>9. ASSUME NEW b \in Delayed, DelayedSend(b)
      PROVE  Signalled'
  BY <1>7, <1>9 DEF DelayedSend
<1>10. CASE ResetDue \/ Tick
  BY <1>7, <1>10 DEF ResetDue, Tick
<1>11. CASE SysWork
  BY <1>1, <1>11 DEF SysWork, ResetNow
<1>12. CASE TxDrain
  BY <1>1, <1>7, <1>12 DEF TxDrain, ResetNow
<1>13. CASE PollEnds \/ CheckTelemetry \/ ClearSignal \/ Prepare \/ Resume
  BY <1>1, <1>13 DEF PollEnds, CheckTelemetry, ClearSignal, Prepare, Resume, Step
<1>14. CASE ProcessFrame \/ ProcessError \/ ProcessTelemetry
  <2>1. Yield \/ Pause
    BY <1>14, Zenon DEF ProcessFrame, ProcessError, ProcessTelemetry
  <2> QED
    BY <1>1, <2>1 DEF Yield, Pause, Block
<1> QED
  BY <1>2, <1>3, <1>4, <1>5, <1>6, <1>8, <1>9, <1>10, <1>11, <1>12, <1>13, <1>14
     DEF NodeNext, Main

\* The main thread never polls on work that nothing signals: interrupts that come
\* anywhere in a turn, around the clearing of the signal too (main.c:117), leave
\* either the signal or the turn to find what they brought.
THEOREM SleepsDrainedHolds == NodeSpec => []SleepsDrained
<1>1. NodeInit => Signalled
  BY DEF NodeInit, Signalled
<1>2. NodeTypeOK /\ Signalled /\ [NodeNext]_nodeVars => Signalled'
  BY SignalledNext
<1>3. Signalled => SleepsDrained
  BY DEF Signalled, SleepsDrained
<1> QED
  BY <1>1, <1>2, <1>3, TypeCorrect, PTL DEF NodeSpec
-----------------------------------------------------------------------------
(* The watchdog *)

\* What is left of the watchdog covers what is left of the sleep or, where the
\* thread said it is alive in this stage, of a whole turn.
InTime ==
    ~Spinning /\ wdt # Unscheduled =>
        /\ stage \in {"TURN", "PROCESS"} => wdt + late >= WdtTimeout
        /\ stage \in {"POLL", "SLEEP"} => wdt + late > MaxLatency + sleep
        /\ wdt + late > MaxLatency

LEMMA InTimeNext ==
    ASSUME NodeTypeOK, InTime, [NodeNext]_nodeVars
    PROVE  InTime'
<1> USE NodeAssumption DEF InTime, Spinning
<1> USE DEF NodeTypeOK
<1>1. CASE UNCHANGED <<stage, sleep, late, wdt>>
  BY <1>1
<1>2. CASE Poll
  <2>1. CASE Step("CHECK")
    BY <1>2, <2>1 DEF Poll, Step
  <2>2. CASE \E t \in 1..MaxInterval : Block("POLL", t)
    <3>1. PICK t \in 1..MaxInterval : Block("POLL", t)
      BY <2>2
    <3>2. stage' = "POLL" /\ sleep' = t /\ late' = 0 /\ wdt' = wdt /\ stage = "TURN"
      BY <1>2, <3>1 DEF Poll, Block
    <3> QED
      BY <3>2
  <2> QED
    BY <1>2, <2>1, <2>2 DEF Poll
<1>3. CASE PollEnds \/ CheckTelemetry \/ ClearSignal
  BY <1>3 DEF PollEnds, CheckTelemetry, ClearSignal, Step
<1>4. CASE Prepare \/ ProcessNothing \/ Resume
  <2>1. Alive /\ late' = late /\ stage' \in {"PROCESS", "TURN"}
    BY <1>4, Zenon DEF Prepare, ProcessNothing, Resume, Step
  <2> QED
    BY <2>1 DEF Alive
<1>5. CASE ProcessFrame \/ ProcessError \/ ProcessTelemetry
  <2>1. stage = "PROCESS" /\ (wdt' = wdt \/ wdt' = WdtTimeout \/ wdt' = Unscheduled)
    <3>1. CASE ProcessFrame
      <4>1. stage = "PROCESS" /\ Head(rx) \in SysCommand /\ Apply(Head(rx))
        BY <3>1, HeadTailProperties DEF ProcessFrame
      <4> QED
        BY <4>1 DEF Apply, SysCommand
    <3>2. CASE ProcessError \/ ProcessTelemetry
      BY <3>2 DEF ProcessError, ProcessTelemetry
    <3> QED
      BY <1>5, <3>1, <3>2
  <2>2. Yield \/ Pause
    BY <1>5, Zenon DEF ProcessFrame, ProcessError, ProcessTelemetry
  <2>3. late' = 0 /\ \/ stage' = "YIELD" /\ sleep' = 0
                     \/ stage' = "SLEEP" /\ sleep' = ErrorSleep
    BY <2>2 DEF Yield, Pause, Block
  <2> QED
    BY <2>1, <2>3, SMTT(60)
<1>6. CASE SysWork
  BY <1>6 DEF SysWork, ResetNow
<1>7. CASE TxDrain
  BY <1>1, <1>7 DEF TxDrain, ResetNow
<1>8. CASE Tick
  <2>1. CASE Spinning
    BY <1>8, <2>1 DEF Tick
  <2>2. CASE ~Spinning
    <3>1. /\ stage' = stage /\ wdt' = Elapse(wdt)
          /\ \/ Waiting /\ sleep' = sleep - 1 /\ late' = late
             \/ ~Waiting /\ late' = late + 1 /\ sleep' = sleep
      BY <1>8, <2>2 DEF Tick
    <3>2. wdt' = Unscheduled \/ (wdt # Unscheduled /\ wdt' = wdt - 1)
      BY <3>1 DEF Elapse
    <3>3. Waiting => stage \in {"POLL", "SLEEP"} /\ sleep > 0
      BY DEF Waiting
    <3> QED
      BY <2>2, <3>1, <3>2, <3>3, SMTT(60)
  <2> QED
    BY <2>1, <2>2
<1>9. CASE Restart
  BY <1>9 DEF Restart
<1>10. CASE UNCHANGED nodeVars
  BY <1>1, <1>10 DEF nodeVars
<1>11. ASSUME NEW frame \in SysCommands \cup {Unreadable}, Arrive(frame)
       PROVE  InTime'
  BY <1>1, <1>11 DEF Arrive
<1>12. ASSUME NEW b \in Delayed, DelayedSend(b)
       PROVE  InTime'
  BY <1>1, <1>12 DEF DelayedSend
<1>13. CASE TriggerTelemetry \/ ResetDue
  BY <1>1, <1>13 DEF TriggerTelemetry, ResetDue
<1> QED
  BY <1>2, <1>3, <1>4, <1>5, <1>6, <1>7, <1>8, <1>9, <1>10, <1>11, <1>12, <1>13
     DEF NodeNext, Main

\* The watchdog never runs out but in reset_now: a turn, a frame, an error and an
\* answer that finds no room are each followed by a report in time (watchdog.c).
THEOREM WatchdogPatientHolds == NodeSpec => []WatchdogPatient
<1>1. NodeInit => InTime
  BY NodeAssumption DEF NodeInit, InTime, Spinning
<1>2. NodeTypeOK /\ InTime /\ [NodeNext]_nodeVars => InTime'
  BY InTimeNext
<1>3. NodeTypeOK /\ InTime => WatchdogPatient
  BY NodeAssumption DEF NodeTypeOK, InTime, WatchdogPatient
<1> QED
  BY <1>1, <1>2, <1>3, TypeCorrect, PTL DEF NodeSpec
-----------------------------------------------------------------------------
(* The answer and the reset *)

AckQueued == \E k \in DOMAIN txq : txq[k] = Ack

\* While the answer to the command that began a reset is unsent, the reset is
\* further away than the answer: than its delay and the workqueue's latency, or,
\* once it is queued, than what is left of the latency.
AckAhead ==
    /\ txwork <= MaxLatency
    /\ \A b \in Delayed : delay[b] # Unscheduled /\ held[b] = Ack =>
          reset > delay[b] + MaxLatency
    /\ AckQueued => txwork # Idle /\ reset + txwork > MaxLatency
    /\ syswork # Idle => ~Unsent(Ack)

LEMMA UnsentAck ==
    Unsent(Ack) <=> \/ AckQueued
                    \/ \E b \in Delayed : delay[b] # Unscheduled /\ held[b] = Ack
BY DEF Unsent, AckQueued

LEMMA PutAck ==
    ASSUME NodeTypeOK, NEW message \in Messages, Put(message)
    PROVE  /\ AckQueued' => AckQueued \/ message = Ack
           /\ txwork \in Nat => txwork' = txwork
           /\ txwork' = txwork \/ txwork' = 0
           /\ txq' # txq => txwork' # Idle
<1>1. CASE Len(txq) < TxSize
  <2>1. txq' = Append(txq, message) /\ txwork' = Submit(txwork)
    BY <1>1 DEF Put
  <2>2. \A k \in 1..Len(txq) : txq'[k] = txq[k]
    BY <2>1, AppendProperties DEF NodeTypeOK
  <2>3. /\ txq'[Len(txq) + 1] = message
        /\ txq' \in Seq(Messages) /\ Len(txq') = Len(txq) + 1
    BY <2>1, AppendProperties DEF NodeTypeOK
  <2>4. DOMAIN txq' = 1..Len(txq) + 1 /\ DOMAIN txq = 1..Len(txq) /\ Len(txq) \in Nat
    BY <2>3, LenProperties DEF NodeTypeOK
  <2>5. AckQueued' => AckQueued \/ message = Ack
    BY <2>2, <2>3, <2>4 DEF AckQueued
  <2> QED
    BY <2>1, <2>5 DEF Submit, NodeTypeOK
<1>2. CASE ~(Len(txq) < TxSize)
  BY <1>2 DEF Put, AckQueued
<1> QED
  BY <1>1, <1>2

\* A send of another message leaves all of this as it is.
LEMMA SendAnswer ==
    ASSUME NodeTypeOK, AckAhead, NEW d \in 0..MaxDelay, Send(Answer, d),
           syswork' = syswork,
           reset' = reset \/ reset = Unscheduled
    PROVE  AckAhead'
<1> USE NodeAssumption
<1>1. Answer \in Messages /\ Answer # Ack
  BY DEF Messages, Answer, Ack
<1>2. /\ txwork' <= MaxLatency
      /\ AckQueued' => AckQueued /\ txwork' = txwork
  <2>1. CASE d = 0
    BY <2>1, <1>1, PutAck DEF Send, AckAhead, NodeTypeOK
  <2>2. CASE d # 0
    BY <2>2 DEF Send, queueVars, AckAhead, AckQueued
  <2> QED
    BY <2>1, <2>2
<1>3. \A b \in Delayed : delay'[b] # Unscheduled /\ held'[b] = Ack =>
          delay[b] = delay'[b] /\ held[b] = Ack
  <2>1. CASE d = 0 \/ free = {}
    BY <2>1 DEF Send, queueVars
  <2>2. CASE d # 0 /\ free # {}
    <3> DEFINE c == CHOOSE b \in free : TRUE
    <3>1. /\ delay' = [delay EXCEPT ![c] = Schedule(@, d)]
          /\ held' = [held EXCEPT ![c] = Answer]
      BY <2>2 DEF Send
    <3> HIDE DEF c
    <3> QED
      BY <3>1, <1>1 DEF NodeTypeOK
  <2> QED
    BY <2>1, <2>2
<1>4. AckQueued' => txwork' # Idle /\ reset' + txwork' > MaxLatency
  BY <1>2 DEF AckAhead, NodeTypeOK
<1>5. \A b \in Delayed : delay'[b] # Unscheduled /\ held'[b] = Ack =>
          reset' > delay'[b] + MaxLatency
  BY <1>3 DEF AckAhead, NodeTypeOK
<1>6. Unsent(Ack)' => Unsent(Ack)
  <2>1. Unsent(Ack)' <=> \/ AckQueued'
                         \/ \E b \in Delayed : delay'[b] # Unscheduled /\ held'[b] = Ack
    BY DEF Unsent, AckQueued
  <2> QED
    BY <2>1, <1>2, <1>3, UnsentAck
<1> QED
  BY <1>2, <1>4, <1>5, <1>6 DEF AckAhead

\* The answer itself is sent when there is no other, and the whole delay ahead.
LEMMA SendAck ==
    ASSUME NodeTypeOK, Kept, AckAhead, NEW d \in 0..MaxDelay, Send(Ack, d),
           reset = Unscheduled, syswork = Idle,
           syswork' = Idle, reset' = ResetDelay
    PROVE  AckAhead'
<1> USE NodeAssumption
<1>1. ~AckQueued
  BY DEF AckAhead, NodeTypeOK
<1>2. \A b \in Delayed : ~(delay[b] # Unscheduled /\ held[b] = Ack)
  BY DEF AckAhead, NodeTypeOK
<1>3. CASE d = 0
  <2>1. Put(Ack) /\ UNCHANGED <<delay, held>> /\ Ack \in Messages
    BY <1>3 DEF Send, Messages
  <2>2. txwork' <= MaxLatency
    BY <2>1, PutAck DEF AckAhead, NodeTypeOK
  <2>3. AckQueued' => txwork' \in Nat
    <3>1. AckQueued' => txq' # txq
      BY <1>1 DEF AckQueued
    <3> QED
      BY <2>1, <3>1, PutAck, PutSafe
  <2> QED
    BY <1>2, <2>1, <2>2, <2>3 DEF AckAhead
<1>4. CASE d # 0 /\ free = {}
  BY <1>1, <1>2, <1>4 DEF Send, queueVars, AckAhead, AckQueued
<1>5. CASE d # 0 /\ free # {}
  <2> DEFINE c == CHOOSE b \in free : TRUE
  <2>1. /\ delay' = [delay EXCEPT ![c] = Schedule(@, d)]
        /\ held' = [held EXCEPT ![c] = Ack]
        /\ UNCHANGED <<txq, txwork>>
    BY <1>5 DEF Send
  <2>2. c \in Delayed /\ delay[c] = Unscheduled
    BY <1>5 DEF NodeTypeOK, Kept
  <2> HIDE DEF c
  <2>3. delay'[c] = d
    BY <2>1, <2>2 DEF NodeTypeOK, Schedule
  <2>4. \A b \in Delayed \ {c} : delay'[b] = delay[b] /\ held'[b] = held[b]
    BY <2>1 DEF NodeTypeOK
  <2>5. ~AckQueued' /\ txwork' <= MaxLatency
    BY <1>1, <2>1 DEF AckQueued, AckAhead
  <2> QED
    BY <1>2, <2>3, <2>4, <2>5 DEF AckAhead
<1> QED
  BY <1>3, <1>4, <1>5
LEMMA AckAheadProcessFrame ==
    ASSUME NodeTypeOK, Kept, AckAhead, ProcessFrame
    PROVE  AckAhead'
<1> USE NodeAssumption
<1> DEFINE command == Head(rx)
<1>1. PICK d \in 0..MaxDelay : Send(IF BeginsReset(command) THEN Ack ELSE Answer, d)
  BY DEF ProcessFrame
<1>2. /\ reset' = IF command.reset THEN Schedule(reset, ResetDelay) ELSE reset
      /\ syswork' = syswork
  BY DEF ProcessFrame, Apply, ResetLater
<1>3. CASE BeginsReset(command)
  <2>1. command.reset /\ reset = Unscheduled /\ syswork = Idle
    BY <1>3 DEF BeginsReset
  <2>2. reset' = ResetDelay
    BY <1>2, <2>1 DEF Schedule
  <2>3. Send(Ack, d)
    BY <1>1, <1>3
  <2> HIDE DEF command
  <2> QED
    BY <1>2, <2>1, <2>2, <2>3, SendAck
<1>4. CASE ~BeginsReset(command)
  <2>1. Send(Answer, d)
    BY <1>1, <1>4
  <2> HIDE DEF command
  <2>2. reset' = reset \/ reset = Unscheduled
    BY <1>2 DEF Schedule
  <2> QED
    BY <1>2, <2>1, <2>2, SendAnswer
<1> QED
  BY <1>3, <1>4

LEMMA AckAheadSame ==
    ASSUME AckAhead, UNCHANGED <<txq, txwork, delay, held, reset, syswork>>
    PROVE  AckAhead'
BY DEF AckAhead, AckQueued, Unsent

LEMMA AckAheadTick ==
    ASSUME NodeTypeOK, AckAhead, Tick
    PROVE  AckAhead'
<1> USE NodeAssumption
<1>1. CASE Spinning
  BY <1>1, AckAheadSame DEF Tick, resetVars
<1>2. CASE ~Spinning
  <2>1. /\ txq' = txq /\ held' = held
        /\ txwork < MaxLatency
        /\ txwork' = Wait(txwork) /\ syswork' = Wait(syswork)
        /\ reset' = Elapse(reset)
        /\ delay' = [b \in Delayed |-> Elapse(delay[b])]
    BY <1>2 DEF Tick
  <2>2. \A b \in Delayed : delay[b] \in EventTime /\ delay'[b] = Elapse(delay[b])
                          /\ ~Expired(delay[b])
    BY <1>2, <2>1 DEF Tick, NodeTypeOK
  <2>3. txwork' <= MaxLatency
    BY <2>1 DEF Wait, NodeTypeOK
  <2>4. AckQueued' => AckQueued
    BY <2>1 DEF AckQueued
  <2>5. AckQueued' => txwork' # Idle /\ reset' + txwork' > MaxLatency
    BY <2>1, <2>4 DEF AckAhead, Wait, Elapse, NodeTypeOK
  <2>6. \A b \in Delayed : delay'[b] # Unscheduled /\ held'[b] = Ack =>
           reset' > delay'[b] + MaxLatency /\ delay[b] # Unscheduled /\ held[b] = Ack
    BY <2>1, <2>2, SMTT(60) DEF AckAhead, Elapse, Expired, NodeTypeOK
  <2>7. Unsent(Ack)' => Unsent(Ack)
    <3>1. Unsent(Ack)' <=> \/ AckQueued'
                           \/ \E b \in Delayed : delay'[b] # Unscheduled /\ held'[b] = Ack
      BY DEF Unsent, AckQueued
    <3> QED
      BY <3>1, <2>4, <2>6, UnsentAck
  <2>8. syswork' # Idle => syswork # Idle
    BY <2>1 DEF Wait
  <2> QED
    BY <2>3, <2>5, <2>6, <2>7, <2>8 DEF AckAhead
<1> QED
  BY <1>1, <1>2

LEMMA AckAheadDelayedSend ==
    ASSUME NodeTypeOK, AckAhead, NEW b \in Delayed, DelayedSend(b)
    PROVE  AckAhead'
<1> USE NodeAssumption
<1>1. /\ delay[b] = 0 /\ delay' = [delay EXCEPT ![b] = Unscheduled]
      /\ held' = held /\ Put(held[b]) /\ held[b] \in Messages
      /\ UNCHANGED <<reset, syswork>>
  BY DEF DelayedSend, Expired, NodeTypeOK, resetVars
<1>2. txwork' <= MaxLatency /\ txwork' \in WorkState
  BY <1>1, PutAck, PutSafe DEF AckAhead, NodeTypeOK
<1>3. CASE AckQueued
  <2>1. txwork' # Idle /\ reset' + txwork' > MaxLatency
    BY <1>1, <1>3, PutAck DEF AckAhead, NodeTypeOK
  <2>2. syswork = Idle
    BY <1>3, UnsentAck DEF AckAhead
  <2> QED
    BY <1>1, <1>2, <2>1, <2>2 DEF AckAhead, NodeTypeOK
<1>4. CASE ~AckQueued /\ held[b] = Ack
  <2>1. reset > MaxLatency /\ syswork = Idle
    BY <1>1, <1>4, UnsentAck DEF AckAhead
  <2>2. AckQueued' => txwork' \in Nat
    <3>1. AckQueued' => txq' # txq
      BY <1>4 DEF AckQueued
    <3> QED
      BY <1>1, <1>2, <3>1, PutAck
  <2>3. AckQueued' => txwork' # Idle /\ reset' + txwork' > MaxLatency
    BY <1>1, <2>1, <2>2 DEF NodeTypeOK
  <2> QED
    BY <1>1, <1>2, <2>1, <2>3 DEF AckAhead, NodeTypeOK
<1>5. CASE ~AckQueued /\ held[b] # Ack
  <2>1. ~AckQueued'
    BY <1>1, <1>5, PutAck
  <2>2. Unsent(Ack)' => Unsent(Ack)
    <3>1. Unsent(Ack)' <=> \/ AckQueued'
                           \/ \E c \in Delayed : delay'[c] # Unscheduled /\ held'[c] = Ack
      BY DEF Unsent, AckQueued
    <3> QED
      BY <1>1, <2>1, <3>1, UnsentAck DEF NodeTypeOK
  <2> QED
    BY <1>1, <1>2, <2>1, <2>2 DEF AckAhead, NodeTypeOK
<1> QED
  BY <1>3, <1>4, <1>5

LEMMA AckAheadNext ==
    ASSUME NodeTypeOK, Kept, AckAhead, [NodeNext]_nodeVars
    PROVE  AckAhead'
<1> USE NodeAssumption
<1>1. CASE ProcessFrame
  BY <1>1, AckAheadProcessFrame
<1>2. CASE ProcessTelemetry
  BY <1>2, SendAnswer DEF ProcessTelemetry, resetVars
<1>3. CASE Tick
  BY <1>3, AckAheadTick
<1>4. ASSUME NEW b \in Delayed, DelayedSend(b)
      PROVE  AckAhead'
  BY <1>4, AckAheadDelayedSend
<1>5. CASE ResetDue
  <2>1. /\ reset = 0 /\ reset' = Unscheduled
        /\ UNCHANGED <<txq, txwork, delay, held>>
    BY <1>5 DEF ResetDue, Expired, queueVars
  <2>2. ~AckQueued
    BY <2>1 DEF AckAhead, NodeTypeOK
  <2>3. \A b \in Delayed : ~(delay[b] # Unscheduled /\ held[b] = Ack)
    BY <2>1 DEF AckAhead, NodeTypeOK
  <2> QED
    BY <2>1, <2>2, <2>3 DEF AckAhead, AckQueued, Unsent
<1>6. CASE SysWork
  BY <1>6 DEF SysWork, queueVars, AckAhead, AckQueued, Unsent
<1>7. CASE TxDrain
  BY <1>7 DEF TxDrain, resetVars, AckAhead, AckQueued, Unsent
<1>8. CASE Restart
  <2>1. txq' = <<>> /\ txwork' = Idle /\ syswork' = Idle
        /\ \A b \in Delayed : delay'[b] = Unscheduled
    BY <1>8 DEF Restart
  <2> QED
    BY <2>1 DEF AckAhead, AckQueued
<1>9. CASE UNCHANGED nodeVars
  BY <1>9, AckAheadSame DEF nodeVars, queueVars, resetVars
<1>10. ASSUME NEW frame \in SysCommands \cup {Unreadable}, Arrive(frame)
       PROVE  AckAhead'
  BY <1>10, AckAheadSame DEF Arrive, queueVars, resetVars
<1>11. CASE Poll \/ PollEnds \/ CheckTelemetry \/ ClearSignal \/ Prepare
            \/ ProcessError \/ ProcessNothing \/ Resume \/ TriggerTelemetry
  BY <1>11, AckAheadSame
     DEF Poll, PollEnds, CheckTelemetry, ClearSignal, Prepare, ProcessError,
         ProcessNothing, Resume, TriggerTelemetry, queueVars, resetVars
<1> QED
  BY <1>1, <1>2, <1>3, <1>4, <1>5, <1>6, <1>7, <1>8, <1>9, <1>10, <1>11
     DEF NodeNext, Main

\* The deferred reset lets the answer out (platform.c:18): when its work runs, the
\* answer to the command that began it is neither queued nor delayed any more.
THEOREM AckBeforeResetHolds == NodeSpec => AckBeforeReset
<1>1. NodeInit => Kept /\ AckAhead
  BY NodeAssumption DEF NodeInit, Kept, AckAhead, AckQueued
<1>2. NodeTypeOK /\ Kept /\ AckAhead /\ [NodeNext]_nodeVars => Kept' /\ AckAhead'
  BY KeptNext, AckAheadNext
<1>3. AckAhead => [SysWork => ~Unsent(Ack)]_nodeVars
  BY DEF AckAhead, SysWork
<1> QED
  BY <1>1, <1>2, <1>3, TypeCorrect, PTL DEF NodeSpec, AckBeforeReset
-----------------------------------------------------------------------------
(* The time a reset takes *)

\* The delay, the workqueue's latency and the watchdog are within their bounds,
\* and reset_now waits for a watchdog that runs.
ResetBounded ==
    /\ reset <= ResetDelay
    /\ syswork <= MaxLatency
    /\ wdt <= WdtTimeout
    /\ Spinning => wdt # Unscheduled

\* A step that neither begins reset_now nor ends it, nor touches what leads to it
\* but to schedule the reset.
Quiet ==
    /\ Spinning' <=> Spinning
    /\ Spinning => reset' = reset /\ wdt' = wdt
    /\ reset' = reset \/ reset' = ResetLater
    /\ wdt' \in {wdt, WdtTimeout, Unscheduled}
    /\ syswork' = syswork

\* reset_now, from its work or from a failed frame.
ResetBegins ==
    /\ ~Spinning /\ ResetNow
    /\ reset' = reset /\ syswork' \in {syswork, Idle}

LEMMA QuietMain ==
    ASSUME NodeTypeOK, Main
    PROVE  Quiet
<1> USE DEF Quiet, Spinning
<1>1. CASE Poll
  BY <1>1 DEF Poll, Step, Block, resetVars
<1>2. CASE PollEnds \/ CheckTelemetry \/ ClearSignal
  BY <1>2 DEF PollEnds, CheckTelemetry, ClearSignal, Step, resetVars
<1>3. CASE Prepare \/ ProcessNothing \/ Resume
  <2>1. Alive /\ stage # "SPIN" /\ stage' # "SPIN" /\ UNCHANGED resetVars
    BY <1>3, Zenon DEF Prepare, ProcessNothing, Resume, Step
  <2> QED
    BY <2>1 DEF Alive, resetVars
<1>4. CASE ProcessFrame
  <2>1. /\ stage = "PROCESS" /\ syswork' = syswork
        /\ Head(rx) \in SysCommand /\ Apply(Head(rx))
    BY <1>4, NodeAssumption, HeadTailProperties DEF ProcessFrame, NodeTypeOK
  <2>2. Yield \/ Pause
    BY <1>4, Zenon DEF ProcessFrame
  <2>3. stage' # "SPIN"
    BY <2>2 DEF Yield, Pause, Block
  <2>4. wdt' \in {wdt, WdtTimeout, Unscheduled}
    BY <2>1 DEF Apply, SysCommand
  <2>5. reset' = reset \/ reset' = ResetLater
    BY <2>1 DEF Apply
  <2> QED
    BY <2>1, <2>3, <2>4, <2>5
<1>5. CASE ProcessError \/ ProcessTelemetry
  <2>1. stage = "PROCESS" /\ UNCHANGED <<resetVars, wdt>>
    BY <1>5, Zenon DEF ProcessError, ProcessTelemetry
  <2>2. Yield \/ Pause
    BY <1>5, Zenon DEF ProcessError, ProcessTelemetry
  <2> QED
    BY <2>1, <2>2 DEF Yield, Pause, Block, resetVars
<1> QED
  BY <1>1, <1>2, <1>3, <1>4, <1>5 DEF Main

LEMMA ResetSteps ==
    ASSUME NodeTypeOK, [NodeNext]_nodeVars
    PROVE  Tick \/ Restart \/ ResetDue \/ ResetBegins \/ Quiet
<1>1. ASSUME UNCHANGED <<stage, reset, syswork, wdt>>
      PROVE  Quiet
  BY <1>1 DEF Quiet, Spinning
<1>2. CASE TxDrain
  <2>1. ~Spinning /\ UNCHANGED resetVars
    BY <1>2 DEF TxDrain, Blocked, Spinning
  <2>2. ResetNow \/ UNCHANGED <<stage, wdt>>
    BY <1>2 DEF TxDrain
  <2> QED
    BY <1>1, <2>1, <2>2 DEF ResetBegins, resetVars
<1>3. CASE SysWork
  BY <1>3 DEF SysWork, Blocked, Spinning, ResetBegins
<1>4. ASSUME NEW frame \in SysCommands \cup {Unreadable}, Arrive(frame)
      PROVE  Quiet
  BY <1>1, <1>4 DEF Arrive, resetVars
<1>5. ASSUME NEW b \in Delayed, DelayedSend(b)
      PROVE  Quiet
  BY <1>1, <1>5 DEF DelayedSend, resetVars
<1>6. CASE TriggerTelemetry
  BY <1>1, <1>6 DEF TriggerTelemetry, resetVars
<1>7. CASE UNCHANGED nodeVars
  BY <1>1, <1>7 DEF nodeVars, resetVars
<1> QED
  BY <1>2, <1>3, <1>4, <1>5, <1>6, <1>7, QuietMain DEF NodeNext

LEMMA ResetBoundedNext ==
    ASSUME NodeTypeOK, ResetBounded, [NodeNext]_nodeVars
    PROVE  ResetBounded'
<1> USE NodeAssumption DEF ResetBounded
<1>1. reset \in EventTime /\ syswork \in WorkState /\ wdt \in EventTime
  BY DEF NodeTypeOK
<1>2. CASE Tick
  <2>1. wdt # 0 /\ wdt' = Elapse(wdt) /\ (Spinning' <=> Spinning)
    BY <1>2 DEF Tick, Spinning
  <2>2. \/ reset' = reset /\ syswork' = syswork
        \/ /\ syswork < MaxLatency
           /\ reset' = Elapse(reset) /\ syswork' = Wait(syswork)
    BY <1>2 DEF Tick, resetVars
  <2>3. wdt' <= WdtTimeout /\ (wdt # Unscheduled => wdt' # Unscheduled)
    BY <1>1, <2>1 DEF Elapse
  <2>4. reset' <= ResetDelay /\ syswork' <= MaxLatency
    BY <1>1, <2>2 DEF Elapse, Wait
  <2> QED
    BY <2>1, <2>3, <2>4
<1>3. CASE Restart
  BY <1>3 DEF Restart, Spinning
<1>4. CASE ResetDue
  <2>1. /\ reset' = Unscheduled /\ syswork' = Submit(syswork) /\ wdt' = wdt
        /\ Spinning' <=> Spinning
    BY <1>4 DEF ResetDue, Spinning
  <2> QED
    BY <1>1, <2>1 DEF Submit
<1>5. CASE ResetBegins
  BY <1>1, <1>5 DEF ResetBegins, ResetNow
<1>6. CASE Quiet
  BY <1>1, <1>6 DEF Quiet, ResetLater, Schedule
<1> QED
  BY <1>2, <1>3, <1>4, <1>5, <1>6, ResetSteps

LEMMA ResetFallsNext ==
    ASSUME NodeTypeOK, ResetBounded, [NodeNext]_nodeVars
    PROVE  ResetFalls
<1> SUFFICES ASSUME ResetComing, ~Restart
             PROVE  /\ ResetComing'
                    /\ ResetLeft' <= ResetLeft
                    /\ Tick => ResetLeft' < ResetLeft
  BY DEF ResetFalls
<1> USE NodeAssumption DEF ResetComing, ResetLeft
<1>1. /\ reset \in EventTime /\ syswork \in WorkState /\ wdt \in EventTime
      /\ reset <= ResetDelay /\ syswork <= MaxLatency /\ wdt <= WdtTimeout
      /\ Spinning => wdt # Unscheduled
  BY DEF NodeTypeOK, ResetBounded
<1>2. CASE Tick
  <2>1. wdt # 0 /\ wdt' = Elapse(wdt) /\ (Spinning' <=> Spinning)
    BY <1>2 DEF Tick, Spinning
  <2>2. CASE Spinning
    <3>1. wdt' = wdt - 1
      BY <1>1, <2>1, <2>2 DEF Elapse
    <3>2. ResetLeft = wdt /\ ResetLeft' = wdt'
      BY <2>1, <2>2
    <3> QED
      BY <1>1, <2>1, <2>2, <3>1, <3>2
  <2>3. CASE ~Spinning
    <3>1. /\ reset # 0
          /\ reset' = Elapse(reset) /\ syswork' = Wait(syswork)
      BY <1>2, <2>3 DEF Tick, Expired
    <3>2. CASE syswork # Idle
      <4>1. syswork' = syswork + 1 /\ syswork' # Idle
        BY <1>1, <3>1, <3>2 DEF Wait
      <4> QED
        BY <1>1, <2>1, <2>3, <3>2, <4>1
    <3>3. CASE syswork = Idle
      <4>1. syswork' = Idle /\ reset # Unscheduled
        BY <2>3, <3>1, <3>3 DEF Wait
      <4>2. reset' = reset - 1 /\ reset' # Unscheduled
        BY <1>1, <3>1, <4>1 DEF Elapse
      <4> QED
        BY <1>1, <2>1, <2>3, <3>3, <4>1, <4>2
    <3> QED
      BY <3>2, <3>3
  <2> QED
    BY <2>2, <2>3
<1>3. CASE ~Tick /\ ResetDue
  <2>1. /\ ~Spinning /\ reset = 0 /\ reset' = Unscheduled
        /\ syswork' = Submit(syswork) /\ ~Spinning'
    BY <1>3 DEF ResetDue, Spinning, Expired
  <2>2. syswork' # Idle /\ (syswork # Idle => syswork' = syswork)
        /\ (syswork = Idle => syswork' = 0)
    BY <1>1, <2>1 DEF Submit
  <2> QED
    BY <1>1, <1>3, <2>1, <2>2
<1>4. CASE ~Tick /\ ResetBegins
  <2>1. ~Spinning /\ Spinning' /\ wdt' \in Nat /\ wdt' <= WdtTimeout
    BY <1>1, <1>4 DEF ResetBegins, ResetNow, Spinning
  <2>2. ResetLeft' = wdt' /\ ResetLeft >= WdtTimeout
    BY <1>1, <2>1
  <2> QED
    BY <1>1, <1>4, <2>1, <2>2
<1>5. CASE ~Tick /\ Quiet
  <2>1. CASE Spinning
    <3>1. Spinning' /\ wdt' = wdt
      BY <1>5, <2>1 DEF Quiet
    <3> QED
      BY <1>1, <1>5, <2>1, <3>1
  <2>2. CASE ~Spinning
    <3>1. ~Spinning' /\ syswork' = syswork
      BY <1>5, <2>2 DEF Quiet
    <3>2. reset # Unscheduled => reset' = reset
      BY <1>5 DEF Quiet, ResetLater, Schedule
    <3> QED
      BY <1>1, <1>5, <2>2, <3>1, <3>2
  <2> QED
    BY <2>1, <2>2
<1> QED
  BY <1>2, <1>3, <1>4, <1>5, ResetSteps

\* A reset that was ordered is due within the delay, the workqueue's latency and
\* the watchdog's timeout, a time every tick shortens and no later command, frame
\* or error lengthens or calls off (platform.c:178, watchdog.c).
THEOREM ResetInTimeHolds == NodeSpec => ResetInTime
<1> DEFINE Due == ResetComing => ResetLeft \in 0..LongestReset
<1>1. NodeInit => ResetBounded
  BY NodeAssumption DEF NodeInit, ResetBounded, Spinning
<1>2. NodeTypeOK /\ ResetBounded /\ [NodeNext]_nodeVars => ResetBounded'
  BY ResetBoundedNext
<1>3. NodeTypeOK /\ ResetBounded => Due
  BY NodeAssumption
     DEF NodeTypeOK, ResetBounded, ResetComing, ResetLeft, LongestReset
<1>4. NodeTypeOK /\ ResetBounded /\ [NodeNext]_nodeVars => [ResetFalls]_nodeVars
  BY ResetFallsNext
<1> HIDE DEF Due
<1>5. NodeSpec => []Due /\ [][ResetFalls]_nodeVars
  BY <1>1, <1>2, <1>3, <1>4, TypeCorrect, PTL DEF NodeSpec
<1> QED
  BY <1>5 DEF ResetInTime, Due
=============================================================================

