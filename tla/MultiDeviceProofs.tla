------------------------- MODULE MultiDeviceProofs -------------------------
(***************************************************************************)
(* Theorems about the instances of a multi-instance device, for any number *)
(* of instances and of receive buffers: the slots implement a mailbox.     *)
(***************************************************************************)
EXTENDS MultiDevice, SequenceTheorems, FiniteSetTheorems, WellFoundedInduction, TLAPS

-----------------------------------------------------------------------------
(* The frames in the controller *)

\* The frames of a queue that are for an instance.
Queued(q, i) == {q[k].number : k \in {k \in DOMAIN q : q[k].sid = i}}

\* Frames are queued in the order they came, after those put aside.
Ordered ==
    /\ \A k \in DOMAIN rx : rx[k].number <= arrived
    /\ \A j, k \in DOMAIN rx : j < k => rx[j].number < rx[k].number
    /\ \A i \in Devices : slot[i] <= arrived
    /\ \A i \in Devices : \A k \in DOMAIN rx : slot[i] < rx[k].number

MultiInv == MultiTypeOK /\ Ordered

LEMMA QueuedAppend ==
    ASSUME NEW q \in Seq(Frame), NEW frame \in Frame, NEW i
    PROVE  Queued(Append(q, frame), i) =
               Queued(q, i) \cup (IF frame.sid = i THEN {frame.number} ELSE {})
<1> DEFINE all == Append(q, frame)
<1>1. /\ Len(q) \in Nat /\ DOMAIN q = 1..Len(q) /\ DOMAIN all = 1..Len(q) + 1
      /\ all[Len(q) + 1] = frame
      /\ \A k \in 1..Len(q) : all[k] = q[k]
  BY AppendProperties, LenProperties
<1> HIDE DEF all
<1>2. ASSUME NEW n \in Queued(all, i)
      PROVE  n \in Queued(q, i) \cup (IF frame.sid = i THEN {frame.number} ELSE {})
  <2>1. PICK k \in DOMAIN all : all[k].sid = i /\ n = all[k].number
    BY <1>2 DEF Queued
  <2>2. CASE k = Len(q) + 1
    BY <1>1, <2>1, <2>2
  <2>3. CASE k # Len(q) + 1
    BY <1>1, <2>1, <2>3 DEF Queued
  <2> QED
    BY <2>2, <2>3
<1>3. ASSUME NEW n \in Queued(q, i)
      PROVE  n \in Queued(all, i)
  <2>1. PICK k \in DOMAIN q : q[k].sid = i /\ n = q[k].number
    BY <1>3 DEF Queued
  <2>2. k \in DOMAIN all /\ all[k] = q[k]
    BY <1>1
  <2> QED
    BY <2>1, <2>2 DEF Queued
<1>4. frame.sid = i => frame.number \in Queued(all, i)
  <2>1. Len(q) + 1 \in DOMAIN all
    BY <1>1
  <2> QED
    BY <1>1, <2>1 DEF Queued
<1> QED
  BY <1>2, <1>3, <1>4 DEF all

LEMMA QueuedTail ==
    ASSUME NEW q \in Seq(Frame), q # <<>>, NEW i,
           \A j, k \in DOMAIN q : j < k => q[j].number < q[k].number
    PROVE  Queued(Tail(q), i) =
               Queued(q, i) \ (IF Head(q).sid = i THEN {Head(q).number} ELSE {})
<1> DEFINE rest == Tail(q)
<1>1. /\ Len(q) \in Nat /\ Len(q) > 0 /\ DOMAIN q = 1..Len(q) /\ DOMAIN rest = 1..Len(q) - 1
      /\ Head(q) = q[1]
      /\ \A k \in DOMAIN rest : rest[k] = q[k + 1]
      /\ \A k \in DOMAIN q : q[k] \in Frame
  BY HeadTailProperties, LenProperties, EmptySeq
<1> HIDE DEF rest
<1>2. ASSUME NEW n \in Queued(rest, i)
      PROVE  n \in Queued(q, i) /\ n # Head(q).number
  <2>1. PICK k \in DOMAIN rest : rest[k].sid = i /\ n = rest[k].number
    BY <1>2 DEF Queued
  <2>2. 1 \in DOMAIN q /\ k + 1 \in DOMAIN q /\ 1 < k + 1 /\ rest[k] = q[k + 1]
    BY <1>1
  <2>3. q[1].number < q[k + 1].number /\ q[1].number \in Int /\ q[k + 1].number \in Int
    <3>1. q[1] \in Frame /\ q[k + 1] \in Frame
      BY <1>1, <2>2
    <3>2. q[1].number < q[k + 1].number
      BY <2>2
    <3> QED
      BY <3>1, <3>2 DEF Frame, Numbers
  <2> QED
    BY <1>1, <2>1, <2>2, <2>3 DEF Queued
<1>3. ASSUME NEW n \in Queued(q, i), Head(q).sid = i => n # Head(q).number
      PROVE  n \in Queued(rest, i)
  <2>1. PICK k \in DOMAIN q : q[k].sid = i /\ n = q[k].number
    BY <1>3 DEF Queued
  <2>2. k # 1
    BY <1>1, <1>3, <2>1
  <2>3. k - 1 \in DOMAIN rest /\ rest[k - 1] = q[k]
    BY <1>1, <2>2
  <2> QED
    BY <2>1, <2>3 DEF Queued
<1> QED
  BY <1>2, <1>3 DEF rest

LEMMA WaitingIs ==
    ASSUME NEW i
    PROVE  /\ Waiting(i) = Queued(rx, i) \cup (IF slot[i] = NoFrame THEN {} ELSE {slot[i]})
           /\ Waiting(i)' =
                Queued(rx', i) \cup (IF slot'[i] = NoFrame THEN {} ELSE {slot'[i]})
BY DEF Waiting, Queued

LEMMA NumbersAre ==
    ASSUME MultiInv
    PROVE  /\ \A k \in DOMAIN rx : rx[k] \in Frame
           /\ \A k \in DOMAIN rx : rx[k].number \in Nat
           /\ \A i \in Devices : slot[i] \in Nat
<1>1. rx \in Seq(Frame) /\ slot \in [Devices -> Numbers \cup {NoFrame}]
  BY DEF MultiInv, MultiTypeOK
<1>2. \A k \in DOMAIN rx : rx[k] \in Frame
  BY <1>1
<1>3. \A frame \in Frame : frame.number \in Nat
  BY DEF Frame, Numbers
<1>4. \A i \in Devices : slot[i] \in Nat
  BY <1>1 DEF Numbers, NoFrame
<1> QED
  BY <1>2, <1>3, <1>4

\* A frame put aside came before those in the controller.
LEMMA SlotNotQueued ==
    ASSUME MultiInv, NEW i \in Devices, NEW j
    PROVE  slot[i] \notin Queued(rx, j)
<1> SUFFICES ASSUME NEW k \in DOMAIN rx, slot[i] = rx[k].number PROVE FALSE
  BY DEF Queued
<1>1. slot[i] \in Int /\ slot[i] < rx[k].number
  BY DEF MultiInv, Ordered, MultiTypeOK, NoFrame, Numbers
<1> QED
  BY <1>1

-----------------------------------------------------------------------------
(* The round *)

\* The natural numbers are well ordered.
LEMMA LeastElement ==
    ASSUME NEW T \in SUBSET Nat, T # {}
    PROVE  \E i \in T : \A j \in T : i <= j
<1>1. PICK i \in T : \A j \in T : <<j, i>> \notin OpToRel(<, Nat)
  BY WFMin, NatLessThanWellFounded, Zenon
<1>2. \A j \in T : ~(j < i)
  BY <1>1, Zenon DEF OpToRel
<1> QED
  BY <1>2

LEMMA NextIndexIs ==
    ASSUME NEW index \in Devices, NEW map \in SUBSET Devices
    PROVE  NextIndex(index, map) \in Devices
<1> DEFINE found == {d \in 1..Size : (index + d) % Size \in map}
           least == CHOOSE d \in found : \A e \in found : d <= e
<1>1. CASE found = {}
  BY <1>1 DEF NextIndex
<1>2. CASE found # {}
  <2>1. found \in SUBSET Nat
    BY MultiAssumption
  <2>2. least \in found
    <3> HIDE DEF found
    <3>1. \E d \in found : \A e \in found : d <= e
      BY <1>2, <2>1, LeastElement
    <3> QED
      BY <3>1
  <2>3. (index + least) % Size \in Devices
    BY <2>2
  <2> HIDE DEF least
  <2> QED
    BY <1>2, <2>3 DEF NextIndex, least
<1> QED
  BY <1>1, <1>2

-----------------------------------------------------------------------------
(* The steps *)

\* What the mailbox sees of a step.
MailStep == [Mail!MailboxNext]_(Mail!mailVars)

\* The frames that wait are what they were, and none is handled or comes.
LEMMA NothingSeen ==
    ASSUME \A i \in Devices : Waiting(i)' = Waiting(i),
           handled' = handled, arrived' = arrived
    PROVE  MailStep
BY DEF MailStep, Mail!mailVars

LEMMA MultiInitInv == MultiInit => MultiInv /\ Mail!MailboxInit
<1> SUFFICES ASSUME MultiInit PROVE MultiInv /\ Mail!MailboxInit
  OBVIOUS
<1> USE MultiAssumption DEF MultiInit
<1>1. MultiTypeOK
  BY DEF MultiTypeOK, Devices, NoFrame
<1>2. Ordered
  BY DEF Ordered, NoFrame
<1>3. \A i \in Devices : Waiting(i) = {}
  BY DEF Waiting, NoFrame
<1> QED
  BY <1>1, <1>2, <1>3 DEF MultiInv, Mail!MailboxInit

LEMMA ArriveSafe ==
    ASSUME MultiInv, NEW sid \in Sids, Arrive(sid)
    PROVE  MultiInv' /\ MailStep
<1> USE DEF Arrive
<1> DEFINE frame == [number |-> arrived + 1, sid |-> sid]
<1>1. /\ frame \in Frame /\ arrived' \in 1..MaxFrames
      /\ rx \in Seq(Frame) /\ rx' = Append(rx, frame) /\ arrived' = arrived + 1
      /\ arrived \in Nat
  <2>1. arrived \in Nat /\ arrived < MaxFrames /\ arrived' = arrived + 1
    BY MultiAssumption DEF MultiInv, MultiTypeOK
  <2>2. arrived + 1 \in Numbers
    BY <2>1, MultiAssumption DEF Numbers
  <2> QED
    BY <2>1, <2>2 DEF Frame, Numbers, MultiInv, MultiTypeOK
<1> HIDE DEF frame
<1>2. MultiTypeOK'
  <2>1. rx' \in Seq(Frame)
    BY <1>1, AppendProperties
  <2>2. signal' \in BOOLEAN /\ arrived' \in 0..MaxFrames
    BY <1>1 DEF MultiInv, MultiTypeOK
  <2> QED
    BY <2>1, <2>2 DEF MultiInv, MultiTypeOK
<1>3. /\ Len(rx) \in Nat /\ DOMAIN rx' = 1..Len(rx) + 1 /\ DOMAIN rx = 1..Len(rx)
      /\ rx'[Len(rx) + 1].number = arrived + 1
      /\ \A k \in DOMAIN rx : rx'[k] = rx[k]
  BY <1>1, AppendProperties, LenProperties DEF frame
<1>4. /\ \A k \in DOMAIN rx : rx[k].number \in Nat
      /\ \A i \in Devices : slot[i] \in Nat
  BY NumbersAre
<1>5. Ordered'
  <2>1. \A k \in DOMAIN rx' : rx'[k].number <= arrived'
    BY <1>1, <1>3, <1>4 DEF MultiInv, Ordered
  <2>2. ASSUME NEW j \in DOMAIN rx', NEW k \in DOMAIN rx', j < k
        PROVE  rx'[j].number < rx'[k].number
    BY <1>1, <1>3, <1>4, <2>2 DEF MultiInv, Ordered
  <2>3. \A i \in Devices : slot'[i] <= arrived'
    BY <1>1, <1>4 DEF MultiInv, Ordered
  <2>4. ASSUME NEW i \in Devices, NEW k \in DOMAIN rx'
        PROVE  slot'[i] < rx'[k].number
    BY <1>1, <1>3, <1>4 DEF MultiInv, Ordered
  <2> QED
    BY <2>1, <2>2, <2>3, <2>4 DEF Ordered
<1>6. \A i : Waiting(i)' = Waiting(i) \cup (IF sid = i THEN {arrived'} ELSE {})
  <2> SUFFICES ASSUME NEW i
               PROVE  Waiting(i)' = Waiting(i) \cup (IF sid = i THEN {arrived'} ELSE {})
    OBVIOUS
  <2>1. Queued(rx', i) = Queued(rx, i) \cup (IF sid = i THEN {arrived'} ELSE {})
    BY <1>1, QueuedAppend DEF frame
  <2>2. slot' = slot
    OBVIOUS
  <2> QED
    BY <2>1, <2>2, WaitingIs
<1>7. CASE sid \in Devices
  <2>1. [i \in Devices |-> Waiting(i)]' =
            [[i \in Devices |-> Waiting(i)] EXCEPT ![sid] = @ \cup {arrived'}]
    BY <1>6, <1>7
  <2> QED
    BY <1>1, <1>2, <1>5, <1>7, <2>1 DEF MultiInv, MailStep, Mail!MailboxNext, Mail!Receive
<1>8. CASE sid \notin Devices
  <2>1. [i \in Devices |-> Waiting(i)]' = [i \in Devices |-> Waiting(i)]
    BY <1>6, <1>8
  <2> QED
    BY <1>1, <1>2, <1>5, <2>1 DEF MultiInv, MailStep, Mail!MailboxNext, Mail!Receive
<1> QED
  BY <1>7, <1>8

\* Requests of telemetry, the start of a round and a failed reception touch no frame.
LEMMA RoundSafe ==
    ASSUME MultiInv,
           TriggerTelemetry \/ BeginRound \/ ReceiveFails
             \/ (\E i \in Devices : TelemetryDue(i))
    PROVE  MultiInv' /\ MailStep
<1>1. UNCHANGED <<rx, slot, arrived, handled>>
  BY DEF TriggerTelemetry, BeginRound, TelemetryDue, ReceiveFails
<1>2. MultiTypeOK'
  <2>1. CASE TriggerTelemetry
    BY <2>1, MultiAssumption DEF TriggerTelemetry, MultiInv, MultiTypeOK
  <2>2. CASE BeginRound
    BY <2>2, MultiAssumption DEF BeginRound, MultiInv, MultiTypeOK, Devices
  <2>3. CASE \E i \in Devices : TelemetryDue(i)
    BY <2>3, MultiAssumption DEF TelemetryDue, MultiInv, MultiTypeOK
  <2>4. CASE ReceiveFails
    <3>1. current' \in Devices
      BY <2>4, NextIndexIs DEF ReceiveFails, MultiInv, MultiTypeOK
    <3>2. rxErrors' \in 0..MaxRxErrors
      BY <2>4, MultiAssumption DEF ReceiveFails, MultiInv, MultiTypeOK
    <3> QED
      BY <2>4, <3>1, <3>2 DEF ReceiveFails, MultiInv, MultiTypeOK
  <2> QED
    BY <2>1, <2>2, <2>3, <2>4
<1>3. Ordered' /\ \A i \in Devices : Waiting(i)' = Waiting(i)
  BY <1>1 DEF MultiInv, Ordered, Waiting
<1> QED
  BY <1>1, <1>2, <1>3, NothingSeen DEF MultiInv

\* The frames left in the controller, and in the slots, once one is taken.
LEMMA TakenOrdered ==
    ASSUME MultiInv, rx # <<>>, rx' = Tail(rx), arrived' = arrived, slot' = slot
    PROVE  Ordered' /\ rx' \in Seq(Frame)
<1>1. /\ rx \in Seq(Frame) /\ Len(rx) \in Nat /\ DOMAIN rx = 1..Len(rx)
      /\ rx' \in Seq(Frame) /\ DOMAIN rx' = 1..Len(rx) - 1
      /\ \A k \in DOMAIN rx' : k + 1 \in DOMAIN rx /\ rx'[k] = rx[k + 1]
  BY HeadTailProperties, LenProperties DEF MultiInv, MultiTypeOK
<1>2. \A k \in DOMAIN rx' : rx'[k].number <= arrived'
  BY <1>1 DEF MultiInv, Ordered
<1>3. ASSUME NEW j \in DOMAIN rx', NEW k \in DOMAIN rx', j < k
      PROVE  rx'[j].number < rx'[k].number
  <2>1. j + 1 \in DOMAIN rx /\ k + 1 \in DOMAIN rx /\ j + 1 < k + 1
    BY <1>1, <1>3
  <2> QED
    BY <1>1, <2>1 DEF MultiInv, Ordered
<1>4. /\ \A i \in Devices : slot'[i] <= arrived'
      /\ \A i \in Devices : \A k \in DOMAIN rx' : slot'[i] < rx'[k].number
  BY <1>1 DEF MultiInv, Ordered
<1> QED
  BY <1>1, <1>2, <1>3, <1>4 DEF Ordered

\* An instance handles a frame that waited for it.
LEMMA HandleSeen ==
    ASSUME NEW i \in Devices, NEW n \in Waiting(i), arrived' = arrived,
           handled' = [handled EXCEPT ![i] = @ \cup {n}],
           Waiting(i)' = Waiting(i) \ {n},
           \A j \in Devices \ {i} : Waiting(j)' = Waiting(j)
    PROVE  MailStep
<1>1. [j \in Devices |-> Waiting(j)]' =
          [[j \in Devices |-> Waiting(j)] EXCEPT ![i] = @ \ {n}]
  OBVIOUS
<1>2. Mail!Handle(i, n)
  BY <1>1 DEF Mail!Handle
<1> QED
  BY <1>2 DEF MailStep, Mail!MailboxNext

\* An instance is given the frame of its slot, the controller being empty.
LEMMA SlotTaken ==
    ASSUME MultiInv, NEW i \in Devices, rx = <<>>, rx' = rx, arrived' = arrived,
           slot' = [slot EXCEPT ![i] = NoFrame]
    PROVE  /\ slot' \in [Devices -> Numbers \cup {NoFrame}] /\ Ordered'
           /\ Waiting(i)' = Waiting(i) \ {slot[i]}
           /\ \A j \in Devices \ {i} : Waiting(j)' = Waiting(j)
           /\ slot[i] # NoFrame => slot[i] \in Waiting(i)
<1>1. \A j : Queued(rx, j) = {}
  BY DEF Queued
<1>2. /\ slot \in [Devices -> Numbers \cup {NoFrame}]
      /\ slot' \in [Devices -> Numbers \cup {NoFrame}]
      /\ slot'[i] = NoFrame /\ \A j \in Devices \ {i} : slot'[j] = slot[j]
  BY DEF MultiInv, MultiTypeOK
<1>3. Waiting(i)' = Waiting(i) \ {slot[i]}
  BY <1>1, <1>2, WaitingIs
<1>4. \A j \in Devices \ {i} : Waiting(j)' = Waiting(j)
  BY <1>1, <1>2, WaitingIs
<1>5. slot[i] # NoFrame => slot[i] \in Waiting(i)
  BY WaitingIs
<1>6. Ordered'
  <2>1. 0 <= arrived
    BY MultiAssumption DEF MultiInv, MultiTypeOK
  <2> QED
    BY <1>2, <2>1 DEF MultiInv, Ordered, NoFrame
<1> QED
  BY <1>2, <1>3, <1>4, <1>5, <1>6

\* The first frame of the controller is for the instance at hand.
LEMMA HeadTaken ==
    ASSUME MultiInv, NEW i \in Devices, rx # <<>>, rx' = Tail(rx), Head(rx).sid = i,
           slot' = slot
    PROVE  /\ Waiting(i)' = Waiting(i) \ {Head(rx).number}
           /\ \A j \in Devices \ {i} : Waiting(j)' = Waiting(j)
           /\ Head(rx).number \in Waiting(i) /\ Head(rx).number \in Numbers
<1>1. \A j : Queued(rx', j) =
                 Queued(rx, j) \ (IF Head(rx).sid = j THEN {Head(rx).number} ELSE {})
  BY QueuedTail DEF MultiInv, MultiTypeOK, Ordered
<1>2. Head(rx) \in Frame /\ Head(rx).number \in Queued(rx, i)
  <2>1. 1 \in DOMAIN rx /\ Head(rx) = rx[1] /\ Head(rx) \in Frame
    BY HeadTailProperties, LenProperties, EmptySeq DEF MultiInv, MultiTypeOK
  <2> QED
    BY <2>1 DEF Queued
<1>3. slot[i] # Head(rx).number
  BY <1>2, SlotNotQueued
<1>4. Waiting(i)' = Waiting(i) \ {Head(rx).number}
  BY <1>1, <1>3, WaitingIs
<1>5. ASSUME NEW j \in Devices \ {i}
      PROVE  Waiting(j)' = Waiting(j)
  <2>1. Queued(rx', j) = Queued(rx, j) /\ slot'[j] = slot[j]
    BY <1>1
  <2> QED
    BY <2>1, WaitingIs
<1>6. Head(rx).number \in Waiting(i)
  BY <1>2, WaitingIs
<1>7. Head(rx).number \in Numbers
  BY <1>2 DEF Frame
<1> QED
  BY <1>4, <1>5, <1>6, <1>7

\* The first frame is for another instance, and replaces what its slot holds.
LEMMA HeadPutAside ==
    ASSUME MultiInv, rx # <<>>, rx' = Tail(rx), arrived' = arrived, handled' = handled,
           NEW to \in Devices, to = Head(rx).sid, NEW n, n = Head(rx).number,
           slot' = [slot EXCEPT ![to] = n]
    PROVE  /\ slot' \in [Devices -> Numbers \cup {NoFrame}] /\ Ordered'
           /\ MailStep
<1>1. /\ rx \in Seq(Frame) /\ Len(rx) \in Nat /\ DOMAIN rx = 1..Len(rx)
      /\ DOMAIN rx' = 1..Len(rx) - 1
      /\ \A k \in DOMAIN rx' : k + 1 \in DOMAIN rx /\ 1 < k + 1 /\ rx'[k] = rx[k + 1]
      /\ 1 \in DOMAIN rx /\ Head(rx) = rx[1] /\ Head(rx) \in Frame
  BY HeadTailProperties, LenProperties, EmptySeq DEF MultiInv, MultiTypeOK
<1>2. to \in Devices /\ n \in Numbers /\ n \in Nat /\ n # NoFrame
  BY <1>1 DEF Frame, Numbers, NoFrame
<1>3. n \in Queued(rx, to)
  BY <1>1 DEF Queued
<1>4. \A j : Queued(rx', j) = Queued(rx, j) \ (IF to = j THEN {n} ELSE {})
  BY QueuedTail DEF MultiInv, MultiTypeOK, Ordered
<1>6. n <= arrived /\ \A k \in DOMAIN rx' : n < rx'[k].number
  <2>1. n <= arrived
    BY <1>1 DEF MultiInv, Ordered
  <2>2. \A k \in DOMAIN rx' : rx[1].number < rx[k + 1].number
    BY <1>1 DEF MultiInv, Ordered
  <2> QED
    BY <1>1, <2>1, <2>2
<1>7. /\ slot' \in [Devices -> Numbers \cup {NoFrame}]
      /\ slot'[to] = n /\ \A j \in Devices \ {to} : slot'[j] = slot[j]
  BY <1>2 DEF MultiInv, MultiTypeOK
<1>8. Ordered'
  <2>1. \A k \in DOMAIN rx' : rx'[k].number <= arrived'
    BY <1>1 DEF MultiInv, Ordered
  <2>2. ASSUME NEW j \in DOMAIN rx', NEW k \in DOMAIN rx', j < k
        PROVE  rx'[j].number < rx'[k].number
    <3>1. j + 1 \in DOMAIN rx /\ k + 1 \in DOMAIN rx /\ j + 1 < k + 1
      BY <1>1, <2>2
    <3> QED
      BY <1>1, <3>1 DEF MultiInv, Ordered
  <2>3. \A i \in Devices : slot'[i] <= arrived'
    BY <1>6, <1>7 DEF MultiInv, Ordered
  <2>4. ASSUME NEW i \in Devices, NEW k \in DOMAIN rx'
        PROVE  slot'[i] < rx'[k].number
    BY <1>1, <1>6, <1>7 DEF MultiInv, Ordered
  <2> QED
    BY <2>1, <2>2, <2>3, <2>4 DEF Ordered
<1>9. ASSUME NEW j \in Devices \ {to}
      PROVE  Waiting(j)' = Waiting(j)
  <2>1. Queued(rx', j) = Queued(rx, j) /\ slot'[j] = slot[j]
    <3>1. to # j /\ slot'[j] = slot[j]
      BY <1>7
    <3>2. Queued(rx', j) = Queued(rx, j) \ {}
      BY <1>4, <3>1, Zenon
    <3>3. Queued(rx, j) \ {} = Queued(rx, j)
      OBVIOUS
    <3> QED
      BY <3>1, <3>2, <3>3, Zenon
  <2>2. Waiting(j) = Queued(rx, j) \cup (IF slot[j] = NoFrame THEN {} ELSE {slot[j]})
    BY WaitingIs
  <2>3. Waiting(j)' = Queued(rx', j) \cup (IF slot'[j] = NoFrame THEN {} ELSE {slot'[j]})
    BY WaitingIs
  <2> QED
    BY <2>1, <2>2, <2>3, Zenon
<1>10. slot[to] \notin Queued(rx, to)
  BY <1>2, SlotNotQueued
<1>11. Waiting(to)' = Queued(rx, to)
  <2>1. Waiting(to)' =
            Queued(rx', to) \cup (IF slot'[to] = NoFrame THEN {} ELSE {slot'[to]})
    BY WaitingIs
  <2>2. Queued(rx', to) = Queued(rx, to) \ {n} /\ slot'[to] = n
    BY <1>4, <1>7
  <2> QED
    BY <1>2, <1>3, <2>1, <2>2, ZenonT(60)
<1>12. CASE slot[to] = NoFrame
  <2>1. Waiting(to)' = Waiting(to)
    BY <1>11, <1>12, WaitingIs, ZenonT(60)
  <2> QED
    BY <1>2, <1>7, <1>8, <1>9, <2>1, NothingSeen
<1>13. CASE slot[to] # NoFrame
  <2>1. Waiting(to)' = Waiting(to) \ {slot[to]} /\ slot[to] \in Waiting(to)
    BY <1>10, <1>11, <1>13, WaitingIs
  <2>2. n \in Waiting(to) /\ n > slot[to]
    <3>1. slot[to] < rx[1].number /\ n = rx[1].number /\ slot[to] \in Nat
      BY <1>1, <1>2, NumbersAre DEF MultiInv, Ordered
    <3> QED
      BY <1>2, <1>3, <3>1, WaitingIs
  <2>3. [j \in Devices |-> Waiting(j)]' =
            [[j \in Devices |-> Waiting(j)] EXCEPT ![to] = @ \ {slot[to]}]
    BY <1>2, <1>9, <2>1
  <2>4. Mail!Supersede(to, slot[to])
    BY <1>2, <2>1, <2>2, <2>3 DEF Mail!Supersede
  <2> QED
    BY <1>2, <1>7, <1>8, <2>1, <2>4 DEF MailStep, Mail!MailboxNext
<1> QED
  BY <1>12, <1>13

LEMMA ProcessNextSafe ==
    ASSUME MultiInv, ProcessNext
    PROVE  MultiInv' /\ MailStep
<1>1. PICK i \in Devices : i = NextIndex(current, round)
  BY NextIndexIs DEF MultiInv, MultiTypeOK
<1>2. /\ current' = i /\ arrived' = arrived
      /\ rx' = IF rx = <<>> THEN rx ELSE Tail(rx)
      /\ slot' = Recv(i).slot
      /\ UNCHANGED <<signal, triggered, rxErrors>>
      /\ Recv(i).number # NoFrame =>
           /\ handled' = [handled EXCEPT ![i] = @ \cup {Recv(i).number}]
           /\ UNCHANGED <<round, telem>>
      /\ Recv(i).number = NoFrame =>
           /\ telem' = telem \ {i}
           /\ round' \in {round, Left(i)}
           /\ handled' = handled
  BY <1>1 DEF ProcessNext
<1>3. round' \in SUBSET Devices /\ telem' \in SUBSET Devices
  BY <1>2 DEF MultiInv, MultiTypeOK, Left
<1>4. /\ rx' \in Seq(Frame) /\ slot' \in [Devices -> Numbers \cup {NoFrame}]
      /\ handled' \in [Devices -> SUBSET Numbers]
      /\ Ordered' /\ MailStep
  <2>1. /\ slot \in [Devices -> Numbers \cup {NoFrame}] /\ rx \in Seq(Frame)
        /\ handled \in [Devices -> SUBSET Numbers]
    BY DEF MultiInv, MultiTypeOK
  <2>2. CASE rx = <<>>
    <3>1. rx' = rx /\ slot' = [slot EXCEPT ![i] = NoFrame] /\ Recv(i).number = slot[i]
      BY <1>2, <2>2 DEF Recv
    <3>2. /\ slot' \in [Devices -> Numbers \cup {NoFrame}] /\ Ordered'
          /\ Waiting(i)' = Waiting(i) \ {slot[i]}
          /\ \A j \in Devices \ {i} : Waiting(j)' = Waiting(j)
          /\ slot[i] # NoFrame => slot[i] \in Waiting(i)
      BY <1>2, <2>2, <3>1, SlotTaken
    <3>3. CASE slot[i] = NoFrame
      <4>1. handled' = handled /\ slot' = slot
        BY <1>2, <2>1, <3>1, <3>3
      <4>2. \A j \in Devices : Waiting(j)' = Waiting(j)
        BY <3>1, <4>1 DEF Waiting
      <4> QED
        BY <1>2, <2>1, <3>1, <3>2, <4>1, <4>2, NothingSeen
    <3>4. CASE slot[i] # NoFrame
      <4>1. PICK n \in Numbers : n = slot[i]
        BY <2>1, <3>4
      <4>2. handled' = [handled EXCEPT ![i] = @ \cup {n}]
        BY <1>2, <3>1, <3>4, <4>1
      <4>3. handled' \in [Devices -> SUBSET Numbers]
        BY <2>1, <4>2
      <4>4. MailStep
        BY <1>2, <3>2, <3>4, <4>1, <4>2, HandleSeen
      <4> QED
        BY <2>1, <3>1, <3>2, <4>3, <4>4
    <3> QED
      BY <3>3, <3>4
  <2>3. CASE rx # <<>> /\ Head(rx).sid = i
    <3>1. rx' = Tail(rx) /\ slot' = slot /\ Recv(i).number = Head(rx).number
      BY <1>2, <2>3 DEF Recv, Popped
    <3>2. rx' \in Seq(Frame) /\ Ordered'
      BY <1>2, <2>3, <3>1, TakenOrdered
    <3>3. /\ Waiting(i)' = Waiting(i) \ {Head(rx).number}
          /\ \A j \in Devices \ {i} : Waiting(j)' = Waiting(j)
          /\ Head(rx).number \in Waiting(i) /\ Head(rx).number \in Numbers
      BY <2>3, <3>1, HeadTaken
    <3>4. PICK n \in Numbers : n = Head(rx).number
      BY <3>3
    <3>5. n # NoFrame
      BY DEF Numbers, NoFrame
    <3>6. handled' = [handled EXCEPT ![i] = @ \cup {n}]
      BY <1>2, <3>1, <3>4, <3>5
    <3>7. handled' \in [Devices -> SUBSET Numbers]
      BY <2>1, <3>6
    <3>8. MailStep
      BY <1>2, <3>3, <3>4, <3>6, HandleSeen
    <3> QED
      BY <2>1, <3>1, <3>2, <3>7, <3>8
  <2>4. CASE rx # <<>> /\ Head(rx).sid # i /\ Head(rx).sid \in Devices
    <3>1. PICK to \in Devices : to = Head(rx).sid
      BY <2>4
    <3>2. PICK n : n = Head(rx).number
      OBVIOUS
    <3>3. rx' = Tail(rx) /\ slot' = [slot EXCEPT ![to] = n] /\ Recv(i).number = NoFrame
      BY <1>2, <2>4, <3>1, <3>2 DEF Recv, Popped
    <3>4. handled' = handled
      BY <1>2, <3>3
    <3>5. rx' \in Seq(Frame)
      BY <2>1, <2>4, <3>3, HeadTailProperties
    <3> QED
      BY <1>2, <2>1, <2>4, <3>1, <3>2, <3>3, <3>4, <3>5, HeadPutAside
  <2>5. CASE rx # <<>> /\ Head(rx).sid # i /\ Head(rx).sid \notin Devices
    <3>1. rx' = Tail(rx) /\ slot' = slot /\ Recv(i).number = NoFrame
      BY <1>2, <2>5 DEF Recv, Popped
    <3>2. handled' = handled
      BY <1>2, <3>1
    <3>3. rx' \in Seq(Frame) /\ Ordered'
      BY <1>2, <2>5, <3>1, TakenOrdered
    <3>4. ASSUME NEW j \in Devices
          PROVE  Waiting(j)' = Waiting(j)
      <4>1. Queued(rx', j) = Queued(rx, j) \ {}
        BY <2>1, <2>5, <3>1, QueuedTail DEF MultiInv, Ordered
      <4>2. Queued(rx, j) \ {} = Queued(rx, j)
        OBVIOUS
      <4> QED
        BY <3>1, <4>1, <4>2, WaitingIs, ZenonT(60)
    <3> QED
      BY <1>2, <2>1, <3>1, <3>2, <3>3, <3>4, NothingSeen
  <2> QED
    BY <2>2, <2>3, <2>4, <2>5
<1>5. MultiTypeOK'
  BY <1>2, <1>3, <1>4 DEF MultiInv, MultiTypeOK
<1> QED
  BY <1>4, <1>5 DEF MultiInv

-----------------------------------------------------------------------------
(* The theorems *)

LEMMA MultiStepSafe == MultiInv /\ [MultiNext]_multiVars => MultiInv' /\ MailStep
<1> SUFFICES ASSUME MultiInv, [MultiNext]_multiVars PROVE MultiInv' /\ MailStep
  OBVIOUS
<1>1. CASE UNCHANGED multiVars
  <2>1. MultiInv'
    BY <1>1 DEF multiVars, MultiInv, MultiTypeOK, Ordered
  <2>2. \A i \in Devices : Waiting(i)' = Waiting(i)
    BY <1>1 DEF multiVars, Waiting
  <2> QED
    BY <1>1, <2>1, <2>2, NothingSeen DEF multiVars
<1>2. CASE MultiNext
  BY <1>2, ArriveSafe, RoundSafe, ProcessNextSafe, Zenon DEF MultiNext
<1> QED
  BY <1>1, <1>2

LEMMA MultiInvariant == MultiInit /\ [][MultiNext]_multiVars => []MultiInv
<1>1. MultiInit => MultiInv
  BY MultiInitInv
<1>2. MultiInv /\ [MultiNext]_multiVars => MultiInv'
  BY MultiStepSafe
<1> QED
  BY <1>1, <1>2, PTL

\* Slots, rounds and the controller keep to their types: the next instance of a
\* round is one of the device's, whatever their number.
THEOREM MultiTypeCorrect == MultiSpec => []MultiTypeOK
<1>1. MultiInv => MultiTypeOK
  BY DEF MultiInv
<1> QED
  BY <1>1, MultiInvariant, PTL DEF MultiSpec

\* The slots and the rounds of the instances implement a mailbox, for any number of
\* instances: a frame an instance pops for another is neither handled twice nor
\* lost, unless to a later one.
THEOREM MailboxImplemented == MultiSpec => ImplementsMailbox
<1>1. MultiInit => Mail!MailboxInit
  BY MultiInitInv
<1>2. MultiInv /\ [MultiNext]_multiVars => [Mail!MailboxNext]_(Mail!mailVars)
  BY MultiStepSafe DEF MailStep
<1> QED
  BY <1>1, <1>2, MultiInvariant, PTL DEF MultiSpec, ImplementsMailbox, Mail!MailboxSpec
-----------------------------------------------------------------------------
(* A turn comes to its end *)

Occupied == {i \in Devices : slot[i] # NoFrame}

\* The passes a turn may still take: two for a frame in the controller, which may
\* have to be put aside first, one for each frame that was, for each telemetry and
\* for each instance that is to leave.
TurnLeft ==
    2 * Len(rx) + Cardinality(Occupied) + Cardinality(telem) + Cardinality(round)

\* Each pass that does not fail shortens the turn, and it grows by a frame, a
\* telemetry request or the next turn only.
TurnShortens ==
    /\ ProcessNext => TurnLeft' < TurnLeft
    /\ TurnLeft' > TurnLeft =>
          arrived' > arrived \/ triggered' > triggered \/ BeginRound

LEMMA Modulo ==
    ASSUME NEW a \in Nat, NEW n \in Nat, a < n
    PROVE  a % n = a /\ (a + n) % n = a
<1>1. a % n = a
  OBVIOUS
<1>2. (a + n) % n = a
  OBVIOUS
<1> QED
  BY <1>1, <1>2

LEMMA DistanceTo ==
    ASSUME NEW index \in Devices, NEW to \in Devices
    PROVE  \E d \in 1..Size : (index + d) % Size = to
<1>1. /\ index \in Nat /\ to \in Nat /\ Size \in Nat
      /\ index < Size /\ to < Size
  BY MultiAssumption DEF Devices
<1>2. to % Size = to /\ (to + Size) % Size = to
  BY <1>1, Modulo
<1>3. CASE index < to
  <2>1. PICK d \in 1..Size : index + d = to
    BY <1>1, <1>3
  <2> QED
    BY <1>2, <2>1
<1>4. CASE index >= to
  <2>1. PICK d \in 1..Size : index + d = to + Size
    BY <1>1, <1>4
  <2> QED
    BY <1>2, <2>1
<1> QED
  BY <1>1, <1>3, <1>4

\* The next instance is one of the round.
LEMMA NextIndexIn ==
    ASSUME NEW index \in Devices, NEW map \in SUBSET Devices, map # {}
    PROVE  NextIndex(index, map) \in map
<1> DEFINE found == {d \in 1..Size : (index + d) % Size \in map}
           least == CHOOSE d \in found : \A e \in found : d <= e
<1>1. found # {}
  <2>1. PICK to \in map : TRUE
    OBVIOUS
  <2>2. PICK d \in 1..Size : (index + d) % Size = to
    BY DistanceTo
  <2> QED
    BY <2>2
<1>2. least \in found
  <2>1. found \in SUBSET Nat
    BY MultiAssumption
  <2> HIDE DEF found
  <2>2. \E d \in found : \A e \in found : d <= e
    BY <1>1, <2>1, LeastElement
  <2> QED
    BY <2>2
<1>3. (index + least) % Size \in map
  BY <1>2
<1> HIDE DEF least
<1> QED
  BY <1>1, <1>3 DEF NextIndex, least

LEMMA Counted ==
    ASSUME NEW S \in SUBSET Devices
    PROVE  IsFiniteSet(S) /\ Cardinality(S) \in Nat
<1>1. IsFiniteSet(Devices)
  BY MultiAssumption, FS_Interval DEF Devices
<1> QED
  BY <1>1, FS_Subset, FS_CardinalityType

LEMMA TurnCounts ==
    ASSUME MultiTypeOK
    PROVE  /\ Len(rx) \in Nat
           /\ Occupied \in SUBSET Devices
           /\ Cardinality(Occupied) \in Nat
           /\ Cardinality(telem) \in Nat
           /\ Cardinality(round) \in Nat
           /\ TurnLeft \in Nat
<1>1. Len(rx) \in Nat
  BY LenProperties DEF MultiTypeOK
<1>2. Cardinality(Occupied) \in Nat /\ Cardinality(telem) \in Nat /\ Cardinality(round) \in Nat
  BY Counted DEF MultiTypeOK, Occupied
<1> QED
  BY <1>1, <1>2 DEF TurnLeft, Occupied

LEMMA TurnCountsNext ==
    ASSUME MultiTypeOK'
    PROVE  /\ Cardinality(Occupied') \in Nat
           /\ Cardinality(telem') \in Nat
           /\ Cardinality(round') \in Nat
           /\ TurnLeft' \in Nat
<1>1. Len(rx') \in Nat
  BY LenProperties DEF MultiTypeOK
<1>2. /\ Cardinality(Occupied') \in Nat /\ Cardinality(telem') \in Nat
      /\ Cardinality(round') \in Nat
  BY Counted DEF MultiTypeOK, Occupied
<1> QED
  BY <1>1, <1>2 DEF TurnLeft

LEMMA CountWithout ==
    ASSUME NEW S \in SUBSET Devices, NEW i
    PROVE  /\ Cardinality(S \ {i}) <= Cardinality(S)
           /\ i \in S => Cardinality(S \ {i}) = Cardinality(S) - 1
<1>1. IsFiniteSet(S) /\ Cardinality(S) \in Nat
  BY Counted
<1>2. Cardinality(S \ {i}) = IF i \in S THEN Cardinality(S) - 1 ELSE Cardinality(S)
  BY <1>1, FS_RemoveElement
<1> QED
  BY <1>1, <1>2

\* The sum of the four counts, where a pass pops no frame.
LEMMA SumShrinks ==
    ASSUME NEW l \in Nat, NEW o \in Nat, NEW t \in Nat, NEW r \in Nat,
           NEW o2 \in Nat, NEW t2 \in Nat, NEW r2 \in Nat,
           o2 <= o, t2 <= t, r2 <= r, o2 < o \/ t2 + r2 < t + r
    PROVE  2 * l + o2 + t2 + r2 < 2 * l + o + t + r
OBVIOUS

LEMMA PassShortens ==
    ASSUME MultiTypeOK, MultiTypeOK', ProcessNext
    PROVE  TurnLeft' < TurnLeft
<1> DEFINE i == NextIndex(current, round)
<1>0. /\ rx \in Seq(Frame) /\ slot \in [Devices -> Numbers \cup {NoFrame}]
      /\ telem \in SUBSET Devices /\ round \in SUBSET Devices
      /\ current \in Devices
  BY DEF MultiTypeOK
<1>1. i \in round /\ i \in Devices
  BY <1>0, NextIndexIn DEF ProcessNext, Asleep
<1>2. /\ rx' = IF rx = <<>> THEN rx ELSE Tail(rx)
      /\ slot' = Recv(i).slot
      /\ Recv(i).number # NoFrame => UNCHANGED <<round, telem>>
      /\ Recv(i).number = NoFrame =>
           /\ telem' = telem \ {i}
           /\ round' = IF i \in telem THEN round ELSE Left(i)
  BY DEF ProcessNext
<1> HIDE DEF i
<1>3. /\ Cardinality(round') <= Cardinality(round)
      /\ Cardinality(telem') <= Cardinality(telem)
      /\ Recv(i).number = NoFrame =>
           Cardinality(telem') + Cardinality(round')
             < Cardinality(telem) + Cardinality(round)
  <2>1. /\ Cardinality(round) \in Nat /\ Cardinality(telem) \in Nat
        /\ Cardinality(telem \ {i}) <= Cardinality(telem)
        /\ Cardinality(round \ {i}) = Cardinality(round) - 1
        /\ i \in telem => Cardinality(telem \ {i}) = Cardinality(telem) - 1
        /\ i \notin telem => telem \ {i} = telem
    BY <1>0, <1>1, Counted, CountWithout
  <2>2. CASE Recv(i).number # NoFrame
    BY <1>2, <2>1, <2>2
  <2>3. CASE Recv(i).number = NoFrame /\ i \in telem
    <3>1. telem' = telem \ {i} /\ round' = round
      BY <1>2, <2>3
    <3>2. Cardinality(telem') = Cardinality(telem) - 1 /\ Cardinality(round') = Cardinality(round)
      BY <2>1, <2>3, <3>1
    <3> QED
      BY <2>1, <3>2
  <2>4. CASE Recv(i).number = NoFrame /\ i \notin telem
    <3>1. telem' = telem /\ round' = round \ {i}
      BY <1>2, <2>1, <2>4 DEF Left
    <3>2. Cardinality(telem') = Cardinality(telem) /\ Cardinality(round') = Cardinality(round) - 1
      BY <2>1, <3>1
    <3> QED
      BY <2>1, <3>2
  <2> QED
    BY <2>2, <2>3, <2>4
<1>4. CASE rx = <<>>
  <2>1. rx' = rx /\ slot' = [slot EXCEPT ![i] = NoFrame] /\ Recv(i).number = slot[i]
    BY <1>2, <1>4 DEF Recv
  <2>2. Occupied' = Occupied \ {i}
    BY <1>0, <1>1, <2>1 DEF Occupied
  <2>3. /\ Cardinality(Occupied') <= Cardinality(Occupied)
        /\ slot[i] # NoFrame => Cardinality(Occupied') = Cardinality(Occupied) - 1
    <3>1. slot[i] # NoFrame => i \in Occupied
      BY <1>1 DEF Occupied
    <3> QED
      BY <2>2, <3>1, CountWithout, TurnCounts
  <2>4. Len(rx') = Len(rx)
    BY <2>1
  <2>5. Recv(i).number = NoFrame <=> slot[i] = NoFrame
    BY <2>1
  <2>6. /\ Len(rx) \in Nat /\ Cardinality(Occupied) \in Nat
        /\ Cardinality(telem) \in Nat /\ Cardinality(round) \in Nat
        /\ Cardinality(Occupied') \in Nat
        /\ Cardinality(telem') \in Nat /\ Cardinality(round') \in Nat
    BY <1>0, TurnCounts, TurnCountsNext
  <2>7. \/ Cardinality(Occupied') < Cardinality(Occupied)
        \/ Cardinality(telem') + Cardinality(round') < Cardinality(telem) + Cardinality(round)
    <3>1. CASE slot[i] = NoFrame
      BY <1>3, <2>5, <3>1
    <3>2. CASE slot[i] # NoFrame
      BY <2>3, <2>6, <3>2
    <3> QED
      BY <3>1, <3>2
  <2>8. 2 * Len(rx) + Cardinality(Occupied') + Cardinality(telem') + Cardinality(round')
          < 2 * Len(rx) + Cardinality(Occupied) + Cardinality(telem) + Cardinality(round)
    BY <1>3, <2>3, <2>6, <2>7, SumShrinks
  <2>9. TurnLeft' = 2 * Len(rx) + Cardinality(Occupied') + Cardinality(telem')
                    + Cardinality(round')
    BY <2>4, Zenon DEF TurnLeft
  <2> QED
    BY <2>8, <2>9 DEF TurnLeft
<1>5. CASE rx # <<>>
  <2>1. Len(rx') = Len(rx) - 1
    BY <1>0, <1>2, <1>5, HeadTailProperties
  <2>2. /\ Cardinality(Occupied') <= Cardinality(Occupied) + 1
        /\ Recv(i).number # NoFrame => Cardinality(Occupied') = Cardinality(Occupied)
    <3>1. CASE Head(rx).sid = i \/ Head(rx).sid \notin Devices
      <4>1. slot' = slot
        BY <1>2, <1>5, <3>1 DEF Recv, Popped
      <4>2. Occupied' = Occupied
        BY <4>1 DEF Occupied
      <4> QED
        BY <4>2, TurnCounts
    <3>2. CASE Head(rx).sid # i /\ Head(rx).sid \in Devices
      <4>1. PICK to \in Devices : to = Head(rx).sid
        BY <3>2
      <4>2. PICK n : n = Head(rx).number
        OBVIOUS
      <4>3. slot' = [slot EXCEPT ![to] = n] /\ Recv(i).number = NoFrame
        BY <1>2, <1>5, <3>2, <4>1, <4>2 DEF Recv, Popped
      <4>4. Occupied' \in SUBSET (Occupied \cup {to})
        BY <1>0, <4>3 DEF Occupied
      <4>5. IsFiniteSet(Occupied)
        BY Counted, TurnCounts
      <4>6. /\ IsFiniteSet(Occupied \cup {to})
            /\ Cardinality(Occupied \cup {to}) <= Cardinality(Occupied) + 1
            /\ Cardinality(Occupied \cup {to}) \in Nat
        <5>1. /\ IsFiniteSet(Occupied \cup {to})
              /\ Cardinality(Occupied \cup {to}) =
                   IF to \in Occupied THEN Cardinality(Occupied)
                   ELSE Cardinality(Occupied) + 1
          BY <4>5, FS_AddElement
        <5>2. Cardinality(Occupied) \in Nat
          BY TurnCounts
        <5> QED
          BY <5>1, <5>2
      <4>7. /\ Cardinality(Occupied') <= Cardinality(Occupied \cup {to})
            /\ Cardinality(Occupied') \in Nat
        BY <4>4, <4>6, FS_Subset, FS_CardinalityType
      <4> QED
        BY <4>3, <4>6, <4>7, TurnCounts
    <3> QED
      BY <3>1, <3>2
  <2>3. /\ Len(rx) \in Nat /\ Cardinality(Occupied) \in Nat
        /\ Cardinality(telem) \in Nat /\ Cardinality(round) \in Nat
        /\ Cardinality(Occupied') \in Nat
        /\ Cardinality(telem') \in Nat /\ Cardinality(round') \in Nat
    BY <1>0, TurnCounts, TurnCountsNext
  <2> QED
    BY <1>3, <2>1, <2>2, <2>3 DEF TurnLeft
<1> QED
  BY <1>4, <1>5

\* For any number of instances and buffers, a turn of the main loop comes to its
\* end once frames and telemetry requests cease and receptions do not fail: every
\* pass of dev_process brings it closer, frames for other instances included.
THEOREM TurnShortensHolds ==
    MultiSpec => [](TurnLeft \in Nat) /\ [][TurnShortens]_multiVars
<1>1. MultiTypeOK => TurnLeft \in Nat
  BY TurnCounts
<1>2. MultiTypeOK /\ MultiTypeOK' /\ [MultiNext]_multiVars => [TurnShortens]_multiVars
  <2> SUFFICES ASSUME MultiTypeOK, MultiTypeOK', [MultiNext]_multiVars
               PROVE  TurnShortens
    OBVIOUS
  <2>1. CASE ProcessNext
    <3>1. TurnLeft' < TurnLeft
      BY <2>1, PassShortens
    <3>2. TurnLeft \in Nat /\ TurnLeft' \in Nat
      BY TurnCounts, TurnCountsNext
    <3> QED
      BY <3>1, <3>2 DEF TurnShortens
  <2>2. CASE ~ProcessNext /\ UNCHANGED <<rx, slot, telem, round>>
    <3>1. TurnLeft' = TurnLeft
      BY <2>2 DEF TurnLeft, Occupied
    <3>2. TurnLeft \in Nat
      BY TurnCounts
    <3> QED
      BY <2>2, <3>1, <3>2 DEF TurnShortens
  <2>3. ASSUME ~ProcessNext, arrived' > arrived \/ triggered' > triggered \/ BeginRound
        PROVE  TurnShortens
    BY <2>3 DEF TurnShortens
  <2>4. ASSUME ~ProcessNext, NEW sid \in Sids, Arrive(sid)
        PROVE  TurnShortens
    BY <2>3, <2>4 DEF Arrive, MultiTypeOK
  <2>5. ASSUME ~ProcessNext, TriggerTelemetry \/ \E i \in Devices : TelemetryDue(i)
        PROVE  TurnShortens
    <3>1. triggered' = triggered + 1
      BY <2>5 DEF TriggerTelemetry, TelemetryDue
    <3> QED
      BY <2>3, <2>5, <3>1 DEF MultiTypeOK
  <2>6. ASSUME ~ProcessNext, ReceiveFails
        PROVE  TurnShortens
    BY <2>2, <2>6 DEF ReceiveFails
  <2>7. CASE UNCHANGED multiVars
    BY <2>1, <2>2, <2>7 DEF multiVars
  <2> QED
    BY <2>1, <2>3, <2>4, <2>5, <2>6, <2>7 DEF MultiNext
<1> QED
  BY <1>1, <1>2, MultiTypeCorrect, PTL DEF MultiSpec
=============================================================================
