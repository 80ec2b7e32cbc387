------------------------ MODULE BoardControlProofs ------------------------
(***************************************************************************)
(* Theorems about the pulses on output pins and the commands that drive    *)
(* them, for any number of pins and of blocks, any frames at any pace and  *)
(* any configurations.                                                     *)
(***************************************************************************)
EXTENDS BoardControl, SequenceTheorems, FiniteSetTheorems, WellFoundedInduction, TLAPS

-----------------------------------------------------------------------------
(* The slab *)

NoRepeat(s) == \A i, j \in DOMAIN s : s[i] = s[j] => i = j
Holds(s, b) == \E i \in DOMAIN s : s[i] = b

\* The blocks are accounted for, and pulses and pins belong together.
Slab(x) ==
    /\ x \in PulseIo
    /\ ~x.corrupt
    /\ NoRepeat(x.free)
    /\ \A b \in Blocks : x.event[b].scheduled <=> ~Holds(x.free, b)
    /\ \A b \in Blocks : x.event[b].scheduled => x.pev[x.event[b].pin] = b

\* The pin has a pulse, and remembers its block.
On(x, pin) ==
    /\ x.pev[pin] # NoBlock
    /\ x.event[x.pev[pin]].scheduled
    /\ x.event[x.pev[pin]].pin = pin

\* The pin remembers what it did, and a pulse it has now is one it had.
Back(x, y, pin) ==
    /\ y.pev[pin] = x.pev[pin]
    /\ On(y, pin) => On(x, pin) /\ y.event[x.pev[pin]] = x.event[x.pev[pin]]

\* A pulse the pin had, it has still.
Kept(x, y, pin) ==
    On(x, pin) => y.pev[pin] = x.pev[pin] /\ y.event[x.pev[pin]] = x.event[x.pev[pin]]

\* No pin but one is given a pulse, and none loses its own but with the block that
\* this one remembered too.
Others(x, y, pin) ==
    \A other \in Pins \ {pin} :
        /\ Back(x, y, other)
        /\ x.pev[other] # x.pev[pin] => Kept(x, y, other)

\* What the fields of the slab are.
LEMMA IoType ==
    ASSUME NEW x \in PulseIo
    PROVE  /\ x.event \in [Blocks -> PulseEvent] /\ x.free \in Seq(Blocks)
           /\ x.corrupt \in BOOLEAN /\ x.level \in [Pins -> BOOLEAN]
           /\ x.reset_state \in [Pins -> BOOLEAN]
           /\ x.pev \in [Pins -> Blocks \cup {NoBlock}]
           /\ \A b \in Blocks : /\ x.event[b] \in PulseEvent
                                /\ x.event[b].pin \in Pins
                                /\ x.event[b].left \in Nat
                                /\ x.event[b].scheduled \in BOOLEAN
                                /\ x.event[b].reset_state \in BOOLEAN
BY DEF PulseIo, PulseEvent

\* The blocks of a set that are freed: each of them, once.
LEMMA FreeSeqIs ==
    ASSUME NEW S \in SUBSET Blocks
    PROVE  /\ FreeSeq(S) \in Seq(S) /\ FreeSeq(S) \in Seq(Blocks)
           /\ \A b : Holds(FreeSeq(S), b) <=> b \in S
           /\ NoRepeat(FreeSeq(S))
<1> DEFINE n == Cardinality(S)
<1>1. IsFiniteSet(S) /\ n \in Nat /\ ExistsBijection(1..n, S)
  BY PulseAssumption, FS_Subset, FS_CardinalityType
<1> DEFINE s == FreeSeq(S)
<1>2. \E t \in [1..n -> S] : {t[i] : i \in DOMAIN t} = S
  <2>1. PICK t \in Bijection(1..n, S) : TRUE
    BY <1>1 DEF ExistsBijection
  <2>2. t \in [1..n -> S] /\ \A b \in S : \E i \in 1..n : t[i] = b
    BY <2>1 DEF Bijection, Surjection
  <2>3. {t[i] : i \in DOMAIN t} = S
    BY <2>2
  <2> QED
    BY <2>2, <2>3
<1>3. s \in [1..n -> S] /\ {s[i] : i \in DOMAIN s} = S
  BY <1>2 DEF FreeSeq
<1> HIDE DEF s, n
<1>4. s \in Seq(S) /\ s \in Seq(Blocks)
  <2>1. s \in Seq(S)
    BY <1>1, <1>3, SeqDef DEF n
  <2>2. s \in [1..n -> Blocks]
    BY <1>3
  <2> QED
    BY <1>1, <2>1, <2>2, SeqDef DEF n
<1>5. \A b : Holds(s, b) <=> b \in S
  BY <1>3 DEF Holds
<1>6. NoRepeat(s)
  <2>1. s \in Surjection(1..n, S)
    BY <1>3 DEF Surjection
  <2>2. IsFiniteSet(1..n) /\ Cardinality(1..n) = n
    BY <1>1, FS_Interval DEF n
  <2>3. s \in Injection(1..n, S)
    BY <2>1, <2>2, FS_SurjSameCardinalityImpliesInj DEF n
  <2> QED
    BY <1>3, <2>3 DEF Injection, IsInjective, NoRepeat
<1> QED
  BY <1>4, <1>5, <1>6 DEF s

\* Blocks that are put before others, and are none of them.
LEMMA PutBefore ==
    ASSUME NEW s \in Seq(Blocks), NEW t \in Seq(Blocks), NoRepeat(s), NoRepeat(t),
           \A b \in Blocks : ~(Holds(s, b) /\ Holds(t, b))
    PROVE  /\ s \o t \in Seq(Blocks) /\ NoRepeat(s \o t)
           /\ \A b \in Blocks : Holds(s \o t, b) <=> Holds(s, b) \/ Holds(t, b)
<1> DEFINE all == s \o t
<1>1. /\ all \in Seq(Blocks) /\ DOMAIN all = 1..Len(s) + Len(t)
      /\ DOMAIN s = 1..Len(s) /\ DOMAIN t = 1..Len(t)
      /\ Len(s) \in Nat /\ Len(t) \in Nat
      /\ \A i \in 1..Len(s) + Len(t) :
            all[i] = IF i <= Len(s) THEN s[i] ELSE t[i - Len(s)]
  BY ConcatProperties, LenProperties
<1> HIDE DEF all
<1>2. ASSUME NEW b \in Blocks
      PROVE  Holds(all, b) <=> Holds(s, b) \/ Holds(t, b)
  <2>1. ASSUME Holds(all, b) PROVE Holds(s, b) \/ Holds(t, b)
    <3>1. PICK i \in DOMAIN all : all[i] = b
      BY <2>1 DEF Holds
    <3>2. CASE i <= Len(s)
      <4>1. i \in DOMAIN s /\ s[i] = b
        BY <1>1, <3>1, <3>2
      <4> QED
        BY <4>1 DEF Holds
    <3>3. CASE ~(i <= Len(s))
      <4>1. i - Len(s) \in DOMAIN t /\ t[i - Len(s)] = b
        BY <1>1, <3>1, <3>3
      <4> QED
        BY <4>1 DEF Holds
    <3> QED
      BY <3>2, <3>3
  <2>2. ASSUME Holds(s, b) PROVE Holds(all, b)
    <3>1. PICK i \in DOMAIN s : s[i] = b
      BY <2>2 DEF Holds
    <3>2. i \in DOMAIN all /\ all[i] = b
      BY <1>1, <3>1
    <3> QED
      BY <3>2 DEF Holds
  <2>3. ASSUME Holds(t, b) PROVE Holds(all, b)
    <3>1. PICK i \in DOMAIN t : t[i] = b
      BY <2>3 DEF Holds
    <3>2. Len(s) + i \in DOMAIN all /\ all[Len(s) + i] = b
      BY <1>1, <3>1
    <3> QED
      BY <3>2 DEF Holds
  <2> QED
    BY <2>1, <2>2, <2>3
<1>3. ASSUME NEW i \in DOMAIN all, NEW j \in DOMAIN all, all[i] = all[j]
      PROVE  i = j
  <2>1. all[i] \in Blocks
    BY <1>1
  <2>2. CASE i <= Len(s) /\ j <= Len(s)
    BY <1>1, <1>3, <2>2 DEF NoRepeat
  <2>3. CASE ~(i <= Len(s)) /\ ~(j <= Len(s))
    <3>1. i - Len(s) \in DOMAIN t /\ j - Len(s) \in DOMAIN t
      BY <1>1, <2>3
    <3>2. i - Len(s) = j - Len(s)
      BY <1>1, <1>3, <2>3, <3>1 DEF NoRepeat
    <3> QED
      BY <1>1, <3>2
  <2>4. CASE i <= Len(s) /\ ~(j <= Len(s))
    <3>1. i \in DOMAIN s /\ s[i] = all[i] /\ j - Len(s) \in DOMAIN t /\ t[j - Len(s)] = all[i]
      BY <1>1, <1>3, <2>4
    <3> QED
      BY <2>1, <3>1 DEF Holds
  <2>5. CASE ~(i <= Len(s)) /\ j <= Len(s)
    <3>1. j \in DOMAIN s /\ s[j] = all[i] /\ i - Len(s) \in DOMAIN t /\ t[i - Len(s)] = all[i]
      BY <1>1, <1>3, <2>5
    <3> QED
      BY <2>1, <3>1 DEF Holds
  <2> QED
    BY <2>2, <2>3, <2>4, <2>5
<1> QED
  BY <1>1, <1>2, <1>3 DEF all, NoRepeat

\* The block that is handed out is not free any more, the others are.
LEMMA TakeFirst ==
    ASSUME NEW s \in Seq(Blocks), s # <<>>, NoRepeat(s)
    PROVE  /\ Head(s) \in Blocks /\ Holds(s, Head(s))
           /\ Tail(s) \in Seq(Blocks) /\ NoRepeat(Tail(s))
           /\ \A b \in Blocks : Holds(Tail(s), b) <=> Holds(s, b) /\ b # Head(s)
<1> DEFINE rest == Tail(s)
<1>1. /\ rest \in Seq(Blocks) /\ Len(s) \in Nat /\ Len(s) > 0 /\ Head(s) = s[1]
      /\ DOMAIN s = 1..Len(s) /\ DOMAIN rest = 1..Len(s) - 1 /\ Head(s) \in Blocks
      /\ \A i \in DOMAIN rest : i + 1 \in DOMAIN s /\ rest[i] = s[i + 1]
  BY HeadTailProperties, LenProperties, EmptySeq
<1> HIDE DEF rest
<1>2. 1 \in DOMAIN s /\ Holds(s, Head(s))
  BY <1>1 DEF Holds
<1>3. ASSUME NEW b \in Blocks
      PROVE  Holds(rest, b) <=> Holds(s, b) /\ b # Head(s)
  <2>1. ASSUME Holds(rest, b) PROVE Holds(s, b) /\ b # Head(s)
    <3>1. PICK i \in DOMAIN rest : rest[i] = b
      BY <2>1 DEF Holds
    <3>2. i + 1 \in DOMAIN s /\ s[i + 1] = b /\ i + 1 # 1
      BY <1>1, <3>1
    <3> QED
      BY <1>1, <1>2, <3>2 DEF Holds, NoRepeat
  <2>2. ASSUME Holds(s, b), b # Head(s) PROVE Holds(rest, b)
    <3>1. PICK i \in DOMAIN s : s[i] = b
      BY <2>2 DEF Holds
    <3>2. i - 1 \in DOMAIN rest /\ rest[i - 1] = b
      BY <1>1, <2>2, <3>1
    <3> QED
      BY <3>2 DEF Holds
  <2> QED
    BY <2>1, <2>2
<1>4. ASSUME NEW i \in DOMAIN rest, NEW j \in DOMAIN rest, rest[i] = rest[j]
      PROVE  i = j
  <2>1. i + 1 = j + 1
    BY <1>1, <1>4 DEF NoRepeat
  <2> QED
    BY <1>1, <2>1
<1> QED
  BY <1>1, <1>2, <1>3, <1>4 DEF rest, NoRepeat

-----------------------------------------------------------------------------
(* One command *)

\* What becomes of an event that is taken from the queue.
LEMMA EndedIs ==
    ASSUME NEW e \in PulseEvent
    PROVE  /\ [e EXCEPT !.scheduled = FALSE, !.left = 0] \in PulseEvent
           /\ ~[e EXCEPT !.scheduled = FALSE, !.left = 0].scheduled
<1> DEFINE f == [e EXCEPT !.scheduled = FALSE]
<1>1. f \in PulseEvent
  BY DEF PulseEvent
<1>2. ~f.scheduled
  BY DEF PulseEvent
<1> HIDE DEF f
<1>3. [f EXCEPT !.left = 0] \in PulseEvent
  BY <1>1 DEF PulseEvent
<1>4. [f EXCEPT !.left = 0].scheduled = f.scheduled
  BY <1>1 DEF PulseEvent
<1>5. [e EXCEPT !.scheduled = FALSE, !.left = 0] = [f EXCEPT !.left = 0]
  BY Zenon DEF f
<1> QED
  BY <1>2, <1>3, <1>4, <1>5, Zenon

\* What the cancel through a block changes.
LEMMA CancelIs ==
    ASSUME NEW x \in PulseIo, NEW b \in Blocks, NEW do_reset \in BOOLEAN,
           NEW y, y = PulseCancel(x, b, do_reset)
    PROVE  /\ y \in PulseIo /\ y.pev = x.pev
           /\ y.corrupt = (x.corrupt \/ IsFree(x, b))
           /\ y.free = IF IsFree(x, b) THEN x.free ELSE <<b>> \o x.free
           /\ ~y.event[b].scheduled
           /\ \A c \in Blocks \ {b} : y.event[c] = x.event[c]
<1> DEFINE event == [x.event EXCEPT ![b] = [@ EXCEPT !.scheduled = FALSE, !.left = 0]]
           pin   == x.event[b].pin
           level == [x.level EXCEPT ![pin] = IF do_reset THEN x.event[b].reset_state ELSE @]
           free  == IF IsFree(x, b) THEN x.free ELSE <<b>> \o x.free
           twice == x.corrupt \/ IsFree(x, b)
<1>1. b # NoBlock
  BY PulseAssumption
<1>2. /\ y.event = event /\ y.free = free /\ y.corrupt = twice /\ y.pev = x.pev
      /\ y = [event |-> event, free |-> free, corrupt |-> twice, level |-> level,
              reset_state |-> x.reset_state, pev |-> x.pev]
  BY <1>1 DEF PulseCancel, PulseIo
<1>3. /\ event \in [Blocks -> PulseEvent] /\ ~event[b].scheduled
      /\ \A c \in Blocks \ {b} : event[c] = x.event[c]
  <2> DEFINE ended == [x.event[b] EXCEPT !.scheduled = FALSE, !.left = 0]
  <2>1. x.event \in [Blocks -> PulseEvent] /\ x.event[b] \in PulseEvent
    BY IoType
  <2>2. ended \in PulseEvent /\ ~ended.scheduled
    BY <2>1, EndedIs
  <2>3. event = [x.event EXCEPT ![b] = ended]
    OBVIOUS
  <2> HIDE DEF ended, event
  <2> QED
    BY <2>1, <2>2, <2>3
<1>4. level \in [Pins -> BOOLEAN]
  BY IoType
<1>5. free \in Seq(Blocks)
  BY IoType
<1>6. twice \in BOOLEAN
  BY IoType, Zenon DEF IsFree
<1> HIDE DEF event, level, free, twice
<1>7. y \in PulseIo
  BY <1>2, <1>3, <1>4, <1>5, <1>6, IoType DEF PulseIo
<1> QED
  BY <1>2, <1>3, <1>7 DEF free, twice

\* What a cancel through a pin comes to, from x to y.
Cancelled(x, y, pin) ==
    /\ y \in PulseIo
    /\ (x.pev[pin] # NoBlock => On(x, pin)) => ~y.corrupt
    /\ ~y.corrupt =>
         /\ Slab(y) /\ Others(x, y, pin) /\ y.pev = x.pev
         /\ \A b \in Blocks : y.event[b].scheduled => y.event[b].pin # pin
         /\ x.pev[pin] # NoBlock => y.free # <<>>

\* A cancel through a pin ends its pulse, or the one whose block the pin remembers, and
\* gives back that block and no other, unless the block is free already.
LEMMA CancelSafe ==
    ASSUME NEW x, NEW pin \in Pins, Slab(x), NEW do_reset \in BOOLEAN,
           NEW y, y = PulseCancel(x, x.pev[pin], do_reset)
    PROVE  Cancelled(x, y, pin)
<1> DEFINE old == x.pev[pin]
<1>1. x \in PulseIo /\ old \in Blocks \cup {NoBlock} /\ ~x.corrupt
  BY IoType DEF Slab
<1>2. CASE old = NoBlock
  <2>1. y = x
    BY <1>2 DEF PulseCancel
  <2>2. \A b \in Blocks : x.event[b].scheduled => x.event[b].pin # pin
    BY <1>2, PulseAssumption DEF Slab
  <2> QED
    BY <1>1, <1>2, <2>1, <2>2 DEF Cancelled, Others, Back, Kept
<1>3. CASE old # NoBlock
  <2>1. old \in Blocks
    BY <1>1, <1>3
  <2>2. /\ y \in PulseIo /\ y.pev = x.pev
        /\ y.corrupt = (x.corrupt \/ IsFree(x, old))
        /\ y.free = IF IsFree(x, old) THEN x.free ELSE <<old>> \o x.free
        /\ ~y.event[old].scheduled
        /\ \A c \in Blocks \ {old} : y.event[c] = x.event[c]
    BY <1>1, <2>1, CancelIs
  <2>3. ASSUME On(x, pin) PROVE ~y.corrupt
    BY <1>1, <2>1, <2>2, <2>3 DEF On, Slab, IsFree, Holds
  <2>4. ASSUME ~y.corrupt
        PROVE  /\ Slab(y) /\ Others(x, y, pin)
               /\ \A b \in Blocks : y.event[b].scheduled => y.event[b].pin # pin
               /\ y.free # <<>>
    <3>1. ~IsFree(x, old) /\ ~Holds(x.free, old) /\ y.free = <<old>> \o x.free
      BY <1>1, <2>2, <2>4 DEF IsFree, Holds
    <3> DEFINE free == <<old>> \o x.free
    <3>2. /\ NoRepeat(free) /\ free # <<>>
          /\ \A b \in Blocks : Holds(free, b) <=> b = old \/ Holds(x.free, b)
      <4>1. /\ <<old>> \in Seq(Blocks) /\ NoRepeat(<<old>>) /\ x.free \in Seq(Blocks)
            /\ \A b \in Blocks : Holds(<<old>>, b) <=> b = old
        BY <1>1, <2>1, IoType DEF NoRepeat, Holds
      <4>2. \A b \in Blocks : ~(Holds(<<old>>, b) /\ Holds(x.free, b))
        BY <3>1, <4>1
      <4>3. /\ free \in Seq(Blocks) /\ NoRepeat(free)
            /\ \A b \in Blocks : Holds(free, b) <=> Holds(<<old>>, b) \/ Holds(x.free, b)
        BY <4>1, <4>2, PutBefore DEF Slab
      <4>4. free # <<>>
        <5>1. Holds(free, old)
          BY <2>1, <4>1, <4>3
        <5> HIDE DEF free
        <5> QED
          BY <5>1 DEF Holds
      <4> QED
        BY <4>1, <4>3, <4>4
    <3>3. y.free = free
      BY <3>1
    <3> HIDE DEF free
    <3>4. \A b \in Blocks : y.event[b].scheduled <=> ~Holds(free, b)
      BY <2>2, <3>2 DEF Slab
    <3>5. \A b \in Blocks : y.event[b].scheduled =>
             x.pev[y.event[b].pin] = b /\ y.event[b].pin # pin
      <4> SUFFICES ASSUME NEW b \in Blocks, y.event[b].scheduled
                   PROVE  x.pev[y.event[b].pin] = b /\ y.event[b].pin # pin
        OBVIOUS
      <4>1. b # old /\ y.event[b] = x.event[b]
        BY <2>2
      <4>2. x.pev[x.event[b].pin] = b
        BY <4>1 DEF Slab
      <4> QED
        BY <4>1, <4>2
    <3>6. Slab(y)
      BY <2>2, <2>4, <3>2, <3>3, <3>4, <3>5 DEF Slab
    <3>7. Others(x, y, pin)
      <4> SUFFICES ASSUME NEW other \in Pins \ {pin}
                   PROVE  /\ Back(x, y, other)
                          /\ x.pev[other] # old => Kept(x, y, other)
        BY DEF Others
      <4>1. x.pev[other] \in Blocks \cup {NoBlock} /\ y.pev[other] = x.pev[other]
        BY <1>1, <2>2, IoType
      <4>2. CASE x.pev[other] = old
        BY <2>2, <4>1, <4>2 DEF Back, On
      <4>3. CASE x.pev[other] = NoBlock
        BY <4>1, <4>3 DEF Back, Kept, On
      <4>4. CASE x.pev[other] \in Blocks \ {old}
        <5>1. y.event[x.pev[other]] = x.event[x.pev[other]]
          BY <2>2, <4>4
        <5> QED
          BY <4>1, <5>1 DEF Back, Kept, On
      <4> QED
        BY <4>1, <4>2, <4>3, <4>4
    <3> QED
      BY <3>2, <3>3, <3>5, <3>6, <3>7
  <2> QED
    BY <1>3, <2>2, <2>3, <2>4 DEF Cancelled
<1> QED
  BY <1>2, <1>3

\* What a pulse that begins changes.
LEMMA TriggerIs ==
    ASSUME NEW x \in PulseIo, NEW pin \in Pins, NEW state \in BOOLEAN,
           NEW duration \in Nat, NEW y, y = PulseTrigger(x, pin, state, duration)
    PROVE  /\ y \in PulseIo /\ y.corrupt = x.corrupt
           /\ \A other \in Pins \ {pin} : y.pev[other] = x.pev[other]
           /\ duration = 0 \/ x.free = <<>> =>
                y.pev[pin] = NoBlock /\ y.event = x.event /\ y.free = x.free
           /\ ~(duration = 0 \/ x.free = <<>>) =>
                LET b == Head(x.free)
                IN  /\ y.pev[pin] = b /\ b \in Blocks /\ y.free = Tail(x.free)
                    /\ y.event[b].scheduled /\ y.event[b].pin = pin
                    /\ y.event[b].left = duration
                    /\ \A c \in Blocks \ {b} : y.event[c] = x.event[c]
<1>1. CASE duration = 0 \/ x.free = <<>>
  <2> DEFINE pev == [x.pev EXCEPT ![pin] = NoBlock]
  <2>1. /\ y.event = x.event /\ y.free = x.free /\ y.corrupt = x.corrupt /\ y.pev = pev
        /\ y = [event |-> x.event, free |-> x.free, corrupt |-> x.corrupt,
                level |-> x.level, reset_state |-> x.reset_state, pev |-> pev]
    BY <1>1 DEF PulseTrigger, PulseIo
  <2>2. /\ pev \in [Pins -> Blocks \cup {NoBlock}] /\ pev[pin] = NoBlock
        /\ \A other \in Pins \ {pin} : pev[other] = x.pev[other]
    BY IoType
  <2> HIDE DEF pev
  <2>3. y \in PulseIo
    BY <2>1, <2>2, IoType DEF PulseIo
  <2> QED
    BY <1>1, <2>1, <2>2, <2>3
<1>2. CASE ~(duration = 0 \/ x.free = <<>>)
  <2> DEFINE b     == Head(x.free)
             begun == [scheduled |-> TRUE, pin |-> pin, reset_state |-> ~state,
                       left |-> duration]
             event == [x.event EXCEPT ![b] = begun]
             pev   == [x.pev EXCEPT ![pin] = b]
             level == [x.level EXCEPT ![pin] = state]
             free  == Tail(x.free)
  <2>1. /\ y.event = event /\ y.free = free /\ y.corrupt = x.corrupt /\ y.pev = pev
        /\ y = [event |-> event, free |-> free, corrupt |-> x.corrupt,
                level |-> level, reset_state |-> x.reset_state, pev |-> pev]
    BY <1>2 DEF PulseTrigger, Write, PulseIo
  <2>2. b \in Blocks /\ free \in Seq(Blocks)
    BY <1>2, IoType, HeadTailProperties
  <2>3. /\ begun \in PulseEvent /\ begun.scheduled /\ begun.pin = pin
        /\ begun.left = duration
    BY DEF PulseEvent
  <2> HIDE DEF b, begun
  <2>4. /\ event \in [Blocks -> PulseEvent] /\ event[b] = begun
        /\ \A c \in Blocks \ {b} : event[c] = x.event[c]
    BY <2>2, <2>3, IoType
  <2>5. /\ pev \in [Pins -> Blocks \cup {NoBlock}] /\ pev[pin] = b
        /\ \A other \in Pins \ {pin} : pev[other] = x.pev[other]
    BY <2>2, IoType
  <2>6. level \in [Pins -> BOOLEAN]
    BY IoType
  <2> HIDE DEF event, pev, level, free
  <2>7. y \in PulseIo
    BY <2>1, <2>2, <2>4, <2>5, <2>6, IoType DEF PulseIo
  <2> QED
    BY <1>2, <2>1, <2>2, <2>3, <2>4, <2>5, <2>7 DEF b, free
<1> QED
  BY <1>1, <1>2

\* A pulse that begins takes a free block, which the pin remembers, and leaves the
\* other pins their pulses.
LEMMA TriggerSafe ==
    ASSUME NEW x, NEW pin \in Pins, Slab(x),
           \A b \in Blocks : x.event[b].scheduled => x.event[b].pin # pin,
           NEW state \in BOOLEAN, NEW duration \in Nat,
           NEW y, y = PulseTrigger(x, pin, state, duration)
    PROVE  /\ Slab(y)
           /\ \A other \in Pins \ {pin} : Back(x, y, other) /\ Kept(x, y, other)
           /\ On(y, pin) => y.event[y.pev[pin]].left = duration
           /\ duration # 0 /\ x.free # <<>> => y.pev[pin] # NoBlock
<1>1. /\ x \in PulseIo /\ y \in PulseIo /\ y.corrupt = x.corrupt /\ ~x.corrupt
      /\ \A other \in Pins \ {pin} : y.pev[other] = x.pev[other]
  BY TriggerIs DEF Slab
<1>2. CASE duration = 0 \/ x.free = <<>>
  <2>1. y.pev[pin] = NoBlock /\ y.event = x.event /\ y.free = x.free
    BY <1>1, <1>2, TriggerIs
  <2>2. \A b \in Blocks : x.event[b].scheduled => y.pev[x.event[b].pin] = b
    BY <1>1, IoType DEF Slab
  <2>3. Slab(y)
    BY <1>1, <2>1, <2>2 DEF Slab
  <2> QED
    BY <1>1, <1>2, <2>1, <2>3 DEF Back, Kept, On
<1>3. CASE ~(duration = 0 \/ x.free = <<>>)
  <2> DEFINE b == Head(x.free)
  <2>1. /\ y.pev[pin] = b /\ b \in Blocks /\ y.free = Tail(x.free)
        /\ y.event[b].scheduled /\ y.event[b].pin = pin /\ y.event[b].left = duration
        /\ \A c \in Blocks \ {b} : y.event[c] = x.event[c]
    BY <1>1, <1>3, TriggerIs
  <2>2. /\ Holds(x.free, b) /\ NoRepeat(y.free)
        /\ \A c \in Blocks : Holds(y.free, c) <=> Holds(x.free, c) /\ c # b
    BY <1>1, <1>3, <2>1, IoType, TakeFirst DEF Slab
  <2>3. ~x.event[b].scheduled /\ b # NoBlock
    BY <2>1, <2>2, PulseAssumption DEF Slab
  <2> HIDE DEF b
  <2>4. \A c \in Blocks : y.event[c].scheduled <=> ~Holds(y.free, c)
    BY <2>1, <2>2 DEF Slab
  <2>5. \A c \in Blocks : y.event[c].scheduled => y.pev[y.event[c].pin] = c
    <3> SUFFICES ASSUME NEW c \in Blocks, y.event[c].scheduled
                 PROVE  y.pev[y.event[c].pin] = c
      OBVIOUS
    <3>1. CASE c = b
      BY <2>1, <3>1
    <3>2. CASE c # b
      <4>1. y.event[c] = x.event[c] /\ x.event[c].pin \in Pins \ {pin}
        BY <1>1, <2>1, <3>2, IoType
      <4>2. x.pev[x.event[c].pin] = c
        BY <4>1 DEF Slab
      <4> QED
        BY <1>1, <4>1, <4>2
    <3> QED
      BY <3>1, <3>2
  <2>6. Slab(y)
    BY <1>1, <2>2, <2>4, <2>5 DEF Slab
  <2>7. ASSUME NEW other \in Pins \ {pin}
        PROVE  Back(x, y, other) /\ Kept(x, y, other)
    <3>1. y.pev[other] = x.pev[other] /\ x.pev[other] \in Blocks \cup {NoBlock}
      BY <1>1, IoType
    <3>2. CASE x.pev[other] = NoBlock
      BY <3>1, <3>2 DEF Back, Kept, On
    <3>3. CASE x.pev[other] = b
      BY <2>1, <2>3, <3>1, <3>3 DEF Back, Kept, On
    <3>4. CASE x.pev[other] \in Blocks \ {b}
      <4>1. y.event[x.pev[other]] = x.event[x.pev[other]]
        BY <2>1, <3>4
      <4> QED
        BY <3>1, <4>1 DEF Back, Kept, On
    <3> QED
      BY <3>1, <3>2, <3>3, <3>4
  <2> QED
    BY <2>1, <2>3, <2>6, <2>7
<1> QED
  BY <1>2, <1>3

LEMMA BackTwice ==
    ASSUME NEW x, NEW y, NEW z, NEW pin, Back(x, y, pin), Back(y, z, pin)
    PROVE  Back(x, z, pin)
BY DEF Back, On

LEMMA KeptTwice ==
    ASSUME NEW x, NEW y, NEW z, NEW pin, Kept(x, y, pin), Kept(y, z, pin)
    PROVE  Kept(x, z, pin)
BY DEF Kept, On

\* A pin that is driven, pulse or not.
LEMMA DriveSafe ==
    ASSUME NEW x \in PulseIo, NEW pin \in Pins, NEW state \in BOOLEAN
    PROVE  /\ Write(x, pin, state) \in PulseIo
           /\ Slab(x) => Slab(Write(x, pin, state))
           /\ \A other : /\ Back(x, Write(x, pin, state), other)
                         /\ Kept(x, Write(x, pin, state), other)
           /\ Write(x, pin, state).pev = x.pev /\ Write(x, pin, state).event = x.event
           /\ Write(x, pin, state).corrupt = x.corrupt
<1> DEFINE y == Write(x, pin, state)
           level == [x.level EXCEPT ![pin] = state]
<1>1. level \in [Pins -> BOOLEAN]
  BY IoType
<1>2. /\ y.event = x.event /\ y.free = x.free /\ y.corrupt = x.corrupt /\ y.pev = x.pev
      /\ y = [event |-> x.event, free |-> x.free, corrupt |-> x.corrupt, level |-> level,
              reset_state |-> x.reset_state, pev |-> x.pev]
  BY DEF Write, PulseIo
<1> HIDE DEF y, level
<1>3. y \in PulseIo
  BY <1>1, <1>2, IoType DEF PulseIo
<1>4. Slab(x) => Slab(y)
  BY <1>2, <1>3 DEF Slab
<1>5. \A other : Back(x, y, other) /\ Kept(x, y, other)
  BY <1>2 DEF Back, Kept, On
<1> QED
  BY <1>2, <1>3, <1>4, <1>5 DEF y

\* What a command leaves behind for its pin.
Done(x, y, pin, cmd, duration) ==
    /\ cmd \in {"PULSE_ON", "PULSE_OFF"} =>
         /\ On(y, pin) => y.event[y.pev[pin]].left = duration
         /\ duration # 0 /\ x.pev[pin] # NoBlock => y.pev[pin] # NoBlock
    /\ cmd \in {"PULSE_CANCEL", "RESET"} => ~On(y, pin)
    /\ cmd \notin PulseCommands => Back(x, y, pin)

\* A pin forgets the block it remembered, from x to y.
Forgotten(x, y, pin) ==
    /\ y \in PulseIo /\ y.corrupt = x.corrupt /\ y.event = x.event /\ y.free = x.free
    /\ y.pev[pin] = NoBlock
    /\ \A other \in Pins \ {pin} : y.pev[other] = x.pev[other]

LEMMA ForgetIs ==
    ASSUME NEW x \in PulseIo, NEW pin \in Pins, NEW y, y = [x EXCEPT !.pev[pin] = NoBlock]
    PROVE  Forgotten(x, y, pin)
<1> DEFINE pev == [x.pev EXCEPT ![pin] = NoBlock]
<1>1. /\ y.event = x.event /\ y.free = x.free /\ y.corrupt = x.corrupt /\ y.pev = pev
      /\ y = [event |-> x.event, free |-> x.free, corrupt |-> x.corrupt,
              level |-> x.level, reset_state |-> x.reset_state, pev |-> pev]
  BY DEF PulseIo
<1>2. /\ pev \in [Pins -> Blocks \cup {NoBlock}] /\ pev[pin] = NoBlock
      /\ \A other \in Pins \ {pin} : pev[other] = x.pev[other]
  BY IoType
<1> HIDE DEF pev
<1>3. y \in PulseIo
  BY <1>1, <1>2, IoType DEF PulseIo
<1> QED
  BY <1>1, <1>2, <1>3 DEF Forgotten

\* A command keeps to the type of the slab, and a block freed twice stays so.
LEMMA CommandTyped ==
    ASSUME NEW x \in PulseIo, NEW pin \in Pins, NEW cmd \in XpsCommands \cup {NoCommand},
           NEW duration \in Nat, NEW y, y = CommandXps(x, pin, cmd, duration)
    PROVE  y \in PulseIo /\ (x.corrupt => y.corrupt)
<1>1. x.level[pin] \in BOOLEAN /\ x.reset_state[pin] \in BOOLEAN
  BY IoType
<1>2. ASSUME NEW do_reset \in BOOLEAN, NEW z, z = PulseCancel(x, x.pev[pin], do_reset)
      PROVE  z \in PulseIo /\ (x.corrupt => z.corrupt)
  <2>1. CASE x.pev[pin] = NoBlock
    BY <1>2, <2>1 DEF PulseCancel
  <2>2. CASE x.pev[pin] # NoBlock
    <3>1. x.pev[pin] \in Blocks
      BY <2>2, IoType
    <3>2. z \in PulseIo /\ z.corrupt = (x.corrupt \/ IsFree(x, x.pev[pin]))
      BY <1>2, <3>1, CancelIs
    <3> QED
      BY <3>2
  <2> QED
    BY <2>1, <2>2
<1>3. CASE cmd \in {"SET_ON", "SET_OFF", "TOGGLE"}
  <2>1. PICK state \in BOOLEAN : y = Write(x, pin, state)
    BY <1>1, <1>3 DEF CommandXps
  <2> QED
    BY <2>1, DriveSafe
<1>4. CASE cmd \in {"PULSE_ON", "PULSE_OFF"}
  <2>1. PICK z : z = PulseCancel(x, x.pev[pin], FALSE)
    OBVIOUS
  <2>2. z \in PulseIo /\ (x.corrupt => z.corrupt)
    BY <1>2, <2>1
  <2>3. PICK state \in BOOLEAN : y = PulseTrigger(z, pin, state, duration)
    <3>1. y = PulseTrigger(z, pin, cmd = "PULSE_ON", duration)
      BY <1>4, <2>1 DEF CommandXps
    <3> QED
      BY <3>1
  <2>4. y \in PulseIo /\ y.corrupt = z.corrupt
    BY <2>2, <2>3, TriggerIs
  <2> QED
    BY <2>2, <2>4
<1>5. CASE cmd = "PULSE_CANCEL"
  BY <1>2, <1>5 DEF CommandXps
<1>6. CASE cmd = "RESET"
  <2>1. PICK z : z = PulseCancel(x, x.pev[pin], TRUE)
    OBVIOUS
  <2>2. z \in PulseIo /\ (x.corrupt => z.corrupt)
    BY <1>2, <2>1
  <2>3. PICK w : w = Write(z, pin, x.reset_state[pin])
    OBVIOUS
  <2>4. w \in PulseIo /\ w.corrupt = z.corrupt
    BY <1>1, <2>2, <2>3, DriveSafe
  <2>5. y = [w EXCEPT !.pev[pin] = NoBlock]
    BY <1>6, <2>1, <2>3 DEF CommandXps
  <2>6. y \in PulseIo /\ y.corrupt = w.corrupt
    BY <2>4, <2>5, ForgetIs DEF Forgotten
  <2> QED
    BY <2>2, <2>4, <2>6
<1>7. CASE cmd = NoCommand
  BY <1>7 DEF CommandXps, NoCommand
<1> QED
  BY <1>3, <1>4, <1>5, <1>6, <1>7 DEF XpsCommands

\* A command leaves the slab sound and does what it should for its pin, unless it frees
\* a block twice; it does not where the pin owns the block it remembers.
LEMMA CommandSafe ==
    ASSUME NEW x, NEW pin \in Pins, Slab(x), NEW cmd \in XpsCommands \cup {NoCommand},
           NEW duration \in Nat, NEW y, y = CommandXps(x, pin, cmd, duration)
    PROVE  /\ (cmd \in PulseCommands => (x.pev[pin] # NoBlock => On(x, pin))) => ~y.corrupt
           /\ ~y.corrupt =>
                /\ Slab(y) /\ Others(x, y, pin) /\ Done(x, y, pin, cmd, duration)
                /\ cmd \notin PulseCommands => \A other \in Pins : Kept(x, y, other)
<1>1. x \in PulseIo /\ x.level[pin] \in BOOLEAN /\ x.reset_state[pin] \in BOOLEAN
  BY IoType DEF Slab
<1>2. CASE cmd \in {"SET_ON", "SET_OFF", "TOGGLE"}
  <2>1. PICK state \in BOOLEAN : y = Write(x, pin, state)
    BY <1>1, <1>2 DEF CommandXps
  <2>2. Slab(y) /\ \A other : Back(x, y, other) /\ Kept(x, y, other)
    BY <1>1, <2>1, DriveSafe
  <2>3. cmd \notin {"PULSE_ON", "PULSE_OFF"} /\ cmd \notin {"PULSE_CANCEL", "RESET"}
    BY <1>2
  <2> QED
    BY <2>2, <2>3 DEF Others, Done, Slab
<1>3. CASE cmd \in {"PULSE_ON", "PULSE_OFF"}
  <2>1. cmd \in PulseCommands /\ cmd \notin {"PULSE_CANCEL", "RESET"}
    BY <1>3 DEF PulseCommands
  <2>2. PICK z : z = PulseCancel(x, x.pev[pin], FALSE)
    OBVIOUS
  <2>3. PICK state \in BOOLEAN : y = PulseTrigger(z, pin, state, duration)
    <3>1. y = PulseTrigger(z, pin, cmd = "PULSE_ON", duration)
      BY <1>3, <2>2 DEF CommandXps
    <3> QED
      BY <3>1
  <2>4. /\ z \in PulseIo
        /\ (x.pev[pin] # NoBlock => On(x, pin)) => ~z.corrupt
        /\ ~z.corrupt =>
             /\ Slab(z) /\ Others(x, z, pin)
             /\ \A b \in Blocks : z.event[b].scheduled => z.event[b].pin # pin
             /\ x.pev[pin] # NoBlock => z.free # <<>>
    <3>1. Cancelled(x, z, pin)
      BY <2>2, CancelSafe
    <3> QED
      BY <3>1 DEF Cancelled
  <2>5. y.corrupt = z.corrupt
    BY <2>3, <2>4, TriggerIs
  <2>6. ASSUME ~z.corrupt
        PROVE  Slab(y) /\ Others(x, y, pin) /\ Done(x, y, pin, cmd, duration)
    <3>1. /\ Slab(y)
          /\ \A other \in Pins \ {pin} : Back(z, y, other) /\ Kept(z, y, other)
          /\ On(y, pin) => y.event[y.pev[pin]].left = duration
          /\ duration # 0 /\ z.free # <<>> => y.pev[pin] # NoBlock
      BY <2>3, <2>4, <2>6, TriggerSafe
    <3>2. Others(x, y, pin)
      BY <2>4, <2>6, <3>1, BackTwice, KeptTwice DEF Others
    <3> QED
      BY <2>1, <2>4, <2>6, <3>1, <3>2 DEF Done
  <2> QED
    BY <2>1, <2>4, <2>5, <2>6
<1>4. CASE cmd = "PULSE_CANCEL"
  <2>1. cmd \in PulseCommands /\ cmd \notin {"PULSE_ON", "PULSE_OFF"}
    BY <1>4 DEF PulseCommands
  <2>2. y = PulseCancel(x, x.pev[pin], TRUE)
    BY <1>4 DEF CommandXps
  <2>3. /\ y \in PulseIo
        /\ (x.pev[pin] # NoBlock => On(x, pin)) => ~y.corrupt
        /\ ~y.corrupt =>
             /\ Slab(y) /\ Others(x, y, pin)
             /\ \A b \in Blocks : y.event[b].scheduled => y.event[b].pin # pin
    <3>1. Cancelled(x, y, pin)
      BY <2>2, CancelSafe
    <3> QED
      BY <3>1 DEF Cancelled
  <2>4. ASSUME ~y.corrupt PROVE ~On(y, pin)
    BY <2>3, <2>4, IoType DEF On
  <2> QED
    BY <2>1, <2>3, <2>4 DEF Done
<1>5. CASE cmd = "RESET"
  <2>1. cmd \in PulseCommands /\ cmd \notin {"PULSE_ON", "PULSE_OFF"}
    BY <1>5 DEF PulseCommands
  <2>2. PICK z : z = PulseCancel(x, x.pev[pin], TRUE)
    OBVIOUS
  <2>3. PICK w : w = Write(z, pin, x.reset_state[pin])
    OBVIOUS
  <2>4. y = [w EXCEPT !.pev[pin] = NoBlock]
    BY <1>5, <2>2, <2>3 DEF CommandXps
  <2>5. /\ z \in PulseIo
        /\ (x.pev[pin] # NoBlock => On(x, pin)) => ~z.corrupt
        /\ ~z.corrupt =>
             /\ Slab(z) /\ Others(x, z, pin)
             /\ \A b \in Blocks : z.event[b].scheduled => z.event[b].pin # pin
    <3>1. Cancelled(x, z, pin)
      BY <2>2, CancelSafe
    <3> QED
      BY <3>1 DEF Cancelled
  <2>6. /\ w \in PulseIo /\ (Slab(z) => Slab(w)) /\ w.corrupt = z.corrupt
        /\ w.event = z.event /\ \A other : Back(z, w, other) /\ Kept(z, w, other)
    BY <1>1, <2>3, <2>5, DriveSafe
  <2>7. /\ y \in PulseIo /\ y.corrupt = w.corrupt /\ y.event = w.event /\ y.free = w.free
        /\ y.pev[pin] = NoBlock
        /\ \A other \in Pins \ {pin} : y.pev[other] = w.pev[other]
    <3>1. w \in PulseIo
      BY <2>6
    <3>2. Forgotten(w, y, pin)
      BY <2>4, <3>1, ForgetIs
    <3> QED
      BY <3>2 DEF Forgotten
  <2>8. ASSUME ~z.corrupt
         PROVE  Slab(y) /\ Others(x, y, pin) /\ ~On(y, pin)
    <3>1. \A b \in Blocks : w.event[b].scheduled => y.pev[w.event[b].pin] = b
      <4>1. \A b \in Blocks : w.event[b].scheduled =>
               /\ w.event[b].pin \in Pins /\ w.event[b].pin # pin
               /\ w.pev[w.event[b].pin] = b
        BY <2>5, <2>6, <2>8, IoType DEF Slab
      <4> QED
        BY <2>7, <4>1
    <3>2. Slab(y)
      BY <2>5, <2>6, <2>7, <2>8, <3>1 DEF Slab
    <3>3. \A other \in Pins \ {pin} : Back(w, y, other) /\ Kept(w, y, other)
      BY <2>7 DEF Back, Kept, On
    <3>4. Others(x, y, pin)
      BY <2>5, <2>6, <2>8, <3>3, BackTwice, KeptTwice DEF Others
    <3> QED
      BY <2>7, <3>2, <3>4 DEF On
  <2> QED
    BY <2>1, <2>5, <2>6, <2>7, <2>8 DEF Done
<1>6. CASE cmd = NoCommand
  <2>1. y = x
    BY <1>6 DEF CommandXps, NoCommand
  <2>2. cmd \notin {"PULSE_ON", "PULSE_OFF"} /\ cmd \notin {"PULSE_CANCEL", "RESET"}
    BY <1>6 DEF NoCommand
  <2> QED
    BY <2>1, <2>2 DEF Others, Back, Kept, Done, Slab
<1> QED
  BY <1>2, <1>3, <1>4, <1>5, <1>6 DEF XpsCommands

-----------------------------------------------------------------------------
(* One frame *)

\* The natural numbers are well ordered.
LEMMA LeastElement ==
    ASSUME NEW T \in SUBSET Nat, T # {}
    PROVE  \E i \in T : \A j \in T : i <= j
<1>1. PICK i \in T : \A j \in T : <<j, i>> \notin OpToRel(<, Nat)
  BY WFMin, NatLessThanWellFounded, Zenon
<1>2. \A j \in T : ~(j < i)
  BY <1>1, Zenon DEF OpToRel
<1> QED
  BY <1>2

Pin(i)        == PinOrder[i]
Duration(pin) == cfg.pulse_durations[pin]

AfterPin(x, i, frame) == CommandXps(x, Pin(i), frame[Pin(i)], Duration(Pin(i)))

\* The equation that defines the carrying out of a frame, up to the n-th pin.
Carrying(f, n, frame) ==
    f = [i \in 0..n |-> IF i = 0 THEN io ELSE AfterPin(f[i - 1], i, frame)]

LEMMA CarryingExtends ==
    ASSUME NEW n \in Nat, NEW frame, NEW f, Carrying(f, n, frame)
    PROVE  \E g : Carrying(g, n + 1, frame)
<1> DEFINE g == [i \in 0..n + 1 |-> IF i = n + 1 THEN AfterPin(f[n], n + 1, frame) ELSE f[i]]
<1>1. ASSUME NEW i \in 0..n + 1
      PROVE  g[i] = IF i = 0 THEN io ELSE AfterPin(g[i - 1], i, frame)
  <2>1. CASE i = n + 1
    <3>1. g[n] = f[n] /\ i - 1 = n /\ i # 0
      BY <2>1
    <3> QED
      BY <2>1, <3>1
  <2>2. CASE i # n + 1
    <3>1. i \in 0..n /\ g[i] = f[i]
      BY <2>2
    <3>2. f[i] = IF i = 0 THEN io ELSE AfterPin(f[i - 1], i, frame)
      BY <3>1 DEF Carrying
    <3>3. i # 0 => g[i - 1] = f[i - 1]
      BY <3>1
    <3> QED
      BY <3>1, <3>2, <3>3
  <2> QED
    BY <2>1, <2>2
<1>2. Carrying(g, n + 1, frame)
  BY <1>1 DEF Carrying
<1> QED
  BY <1>2

LEMMA CarryingExists ==
    ASSUME NEW n \in Nat, NEW frame
    PROVE  \E f : Carrying(f, n, frame)
<1> DEFINE T == {k \in Nat : ~\E f : Carrying(f, k, frame)}
<1> SUFFICES ASSUME T # {} PROVE FALSE
  OBVIOUS
<1>1. PICK k \in T : \A j \in T : k <= j
  <2>1. T \in SUBSET Nat
    OBVIOUS
  <2> HIDE DEF T
  <2> QED
    BY <2>1, LeastElement
<1>2. CASE k = 0
  <2> DEFINE g == [i \in 0..0 |-> io]
  <2>1. Carrying(g, 0, frame)
    BY DEF Carrying
  <2> QED
    BY <1>2, <2>1
<1>3. CASE k # 0
  <2>1. k - 1 \in Nat /\ k - 1 \notin T /\ (k - 1) + 1 = k
    BY <1>1, <1>3
  <2>2. \E f : Carrying(f, k - 1, frame)
    BY <2>1
  <2>3. \E f : Carrying(f, (k - 1) + 1, frame)
    BY <2>1, <2>2, CarryingExtends
  <2> QED
    BY <2>1, <2>3
<1> QED
  BY <1>2, <1>3

\* What a frame comes to, pin by pin.
LEMMA PinByPinIs ==
    ASSUME NEW frame
    PROVE  /\ PinByPin(frame)[0] = io
           /\ \A i \in 1..Cardinality(Pins) :
                 PinByPin(frame)[i] = AfterPin(PinByPin(frame)[i - 1], i, frame)
<1> DEFINE N == Cardinality(Pins)
<1>1. N \in Nat
  BY PulseAssumption, FS_CardinalityType
<1>2. PinByPin(frame) = CHOOSE f : Carrying(f, N, frame)
  BY Zenon DEF PinByPin, Carrying, AfterPin, Pin, Duration
<1>3. Carrying(PinByPin(frame), N, frame)
  BY <1>1, <1>2, CarryingExists
<1> QED
  BY <1>1, <1>3 DEF Carrying

\* What was done for a pin is not undone for another, but by taking its pulse.
LEMMA DoneKept ==
    ASSUME NEW x, NEW y, NEW z, NEW pin, NEW cmd, NEW duration,
           Done(x, y, pin, cmd, duration), Back(y, z, pin)
    PROVE  Done(x, z, pin, cmd, duration)
<1>1. ASSUME cmd \notin PulseCommands PROVE Back(x, z, pin)
  BY <1>1, BackTwice DEF Done
<1>2. ASSUME cmd \in {"PULSE_ON", "PULSE_OFF"}
      PROVE  /\ On(z, pin) => z.event[z.pev[pin]].left = duration
             /\ duration # 0 /\ x.pev[pin] # NoBlock => z.pev[pin] # NoBlock
  BY <1>2 DEF Done, Back
<1>3. ASSUME cmd \in {"PULSE_CANCEL", "RESET"} PROVE ~On(z, pin)
  BY <1>3 DEF Done, Back, On
<1> QED
  BY <1>1, <1>2, <1>3 DEF Done

\* What happened to a pin until its command was carried out does not matter.
LEMMA DoneFrom ==
    ASSUME NEW x, NEW y, NEW z, NEW pin, NEW cmd, NEW duration,
           Back(x, y, pin), Done(y, z, pin, cmd, duration)
    PROVE  Done(x, z, pin, cmd, duration)
<1>1. ASSUME cmd \notin PulseCommands PROVE Back(x, z, pin)
  BY <1>1, BackTwice DEF Done
<1>2. ASSUME cmd \in {"PULSE_ON", "PULSE_OFF"}
      PROVE  /\ On(z, pin) => z.event[z.pev[pin]].left = duration
             /\ duration # 0 /\ x.pev[pin] # NoBlock => z.pev[pin] # NoBlock
  BY <1>2 DEF Done, Back
<1> QED
  BY <1>1, <1>2 DEF Done

AllFrames == [Pins -> XpsCommands \cup {NoCommand}]

\* What a frame may ask of a pin, and for how long.
LEMMA FrameAt ==
    ASSUME NEW frame \in AllFrames, cfg.pulse_durations \in [Pins -> Nat], NEW pin \in Pins
    PROVE  frame[pin] \in XpsCommands \cup {NoCommand} /\ Duration(pin) \in Nat
BY DEF AllFrames, Duration

\* The frame commands the pulses of pins that own the blocks they remember.
Clean(frame) ==
    \A pin \in Pins :
        frame[pin] \in PulseCommands => (io.pev[pin] # NoBlock => On(io, pin))

\* The frame commands no pulse of the pin, nor of another one that remembers its block.
Spared(frame, pin) ==
    \A other \in Pins : io.pev[other] = io.pev[pin] => frame[other] \notin PulseCommands

\* A frame that frees no block twice leaves the slab sound, every pin as its own command
\* has it, and the pulses it does not reach to their pins; it frees none twice where
\* it commands pulses only of pins that own the blocks they remember.
LEMMA FrameSafe ==
    ASSUME Slab(io), NEW frame \in AllFrames, cfg.pulse_durations \in [Pins -> Nat]
    PROVE  /\ Applied(frame) \in PulseIo
           /\ Clean(frame) => ~Applied(frame).corrupt
           /\ ~Applied(frame).corrupt =>
                /\ Slab(Applied(frame))
                /\ \A pin \in Pins :
                     /\ Done(io, Applied(frame), pin, frame[pin], Duration(pin))
                     /\ Spared(frame, pin) => Kept(io, Applied(frame), pin)
<1> DEFINE N    == Cardinality(Pins)
           X(i) == PinByPin(frame)[i]
           Sound(i, x) ==
               /\ Slab(x)
               /\ \A j \in 1..N : IF j <= i
                                  THEN Done(io, x, Pin(j), frame[Pin(j)], Duration(Pin(j)))
                                  ELSE Back(io, x, Pin(j))
               /\ \A pin \in Pins : Spared(frame, pin) => Kept(io, x, pin)
           Progress(i) ==
               /\ X(i) \in PulseIo
               /\ ~X(i).corrupt => Sound(i, X(i))
               /\ Clean(frame) => /\ ~X(i).corrupt
                                  /\ \A j \in 1..N : j > i => Kept(io, X(i), Pin(j))
           T == {i \in 0..N : ~Progress(i)}
<1>1. /\ N \in Nat /\ \A j \in 1..N : Pin(j) \in Pins
      /\ \A i, j \in 1..N : i # j => Pin(i) # Pin(j)
      /\ \A pin \in Pins : \E j \in 1..N : Pin(j) = pin
  BY PulseAssumption, BoardAssumption, FS_CardinalityType DEF Pin
<1>2. T = {}
  <2> SUFFICES ASSUME T # {} PROVE FALSE
    OBVIOUS
  <2>1. PICK i \in T : \A j \in T : i <= j
    <3>1. T \in SUBSET Nat
      OBVIOUS
    <3> HIDE DEF T
    <3> QED
      BY <3>1, LeastElement
  <2>2. CASE i = 0
    <3>1. X(i) = io
      BY <2>2, PinByPinIs
    <3>2. /\ \A j \in 1..N : ~(j <= i) /\ Back(io, io, Pin(j))
          /\ \A pin : Kept(io, io, pin)
      BY <2>2 DEF Back, Kept
    <3>3. io \in PulseIo /\ ~io.corrupt
      BY DEF Slab
    <3> QED
      BY <2>1, <3>1, <3>2, <3>3
  <2>3. CASE i # 0
    <3>1. i \in 1..N /\ i - 1 \in 0..N /\ i - 1 \notin T
      BY <1>1, <2>1, <2>3
    <3>2. X(i) = AfterPin(X(i - 1), i, frame)
      BY <3>1, PinByPinIs
    <3>3. PICK x : x = X(i - 1)
      OBVIOUS
    <3>4. PICK y : y = X(i)
      OBVIOUS
    <3>5. PICK pin \in Pins : pin = Pin(i)
      BY <1>1, <3>1
    <3>6. /\ x \in PulseIo
          /\ ~x.corrupt => Sound(i - 1, x)
          /\ Clean(frame) => /\ ~x.corrupt
                             /\ \A j \in 1..N : j > i - 1 => Kept(io, x, Pin(j))
      <4>1. Progress(i - 1)
        BY <3>1
      <4> HIDE DEF Sound
      <4> QED
        BY <3>3, <4>1
    <3>7. y = CommandXps(x, pin, frame[pin], Duration(pin))
      BY <3>2, <3>3, <3>4, <3>5 DEF AfterPin
    <3>8. frame[pin] \in XpsCommands \cup {NoCommand} /\ Duration(pin) \in Nat
      BY FrameAt
    <3>9. y \in PulseIo /\ (x.corrupt => y.corrupt)
      BY <3>6, <3>7, <3>8, CommandTyped
    <3>10. ASSUME ~x.corrupt
           PROVE  /\ Slab(x) /\ Back(io, x, pin)
                  /\ \A j \in 1..N : j > i => Back(io, x, Pin(j))
                  /\ (frame[pin] \in PulseCommands => (x.pev[pin] # NoBlock => On(x, pin)))
                        => ~y.corrupt
                  /\ ~y.corrupt =>
                       /\ Slab(y) /\ Others(x, y, pin)
                       /\ Done(x, y, pin, frame[pin], Duration(pin))
                       /\ frame[pin] \notin PulseCommands =>
                            \A other \in Pins : Kept(x, y, other)
      <4>1. \A j \in 1..N : j > i \/ j = i => ~(j <= i - 1)
        BY <3>1
      <4>2. Slab(x) /\ Back(io, x, pin) /\ \A j \in 1..N : j > i => Back(io, x, Pin(j))
        BY <3>1, <3>5, <3>6, <3>10, <4>1
      <4> QED
        BY <3>7, <3>8, <4>2, CommandSafe
    <3>11. ASSUME ~y.corrupt PROVE Sound(i, y)
      <4>1. ~x.corrupt
        BY <3>9, <3>11
      <4>2. ASSUME NEW j \in 1..N
            PROVE  IF j <= i THEN Done(io, y, Pin(j), frame[Pin(j)], Duration(Pin(j)))
                   ELSE Back(io, y, Pin(j))
        <5>1. CASE j = i
          <6>1. Done(io, y, pin, frame[pin], Duration(pin))
            BY <3>10, <3>11, <4>1, DoneFrom
          <6> QED
            BY <3>1, <3>5, <5>1, <6>1
        <5>2. CASE j # i
          <6>1. Pin(j) \in Pins \ {pin} /\ (j <= i <=> j <= i - 1)
            BY <1>1, <3>1, <3>5, <5>2
          <6>2. Back(x, y, Pin(j))
            BY <3>10, <3>11, <4>1, <6>1 DEF Others
          <6> QED
            BY <3>6, <4>1, <6>1, <6>2, DoneKept, BackTwice
        <5> QED
          BY <5>1, <5>2
      <4>3. ASSUME NEW other \in Pins, Spared(frame, other)
            PROVE  Kept(io, y, other)
        <5>1. Kept(io, x, other)
          BY <3>6, <4>1, <4>3
        <5>2. CASE ~On(io, other)
          BY <5>2 DEF Kept
        <5>3. CASE On(io, other) /\ frame[pin] \in PulseCommands
          <6>1. other # pin /\ io.pev[other] # io.pev[pin]
            BY <4>3, <5>3 DEF Spared
          <6>2. x.pev[other] = io.pev[other] /\ x.pev[pin] = io.pev[pin]
            BY <3>10, <4>1, <5>1, <5>3 DEF Kept, Back
          <6>3. Kept(x, y, other)
            BY <3>10, <3>11, <4>1, <6>1, <6>2 DEF Others
          <6> QED
            BY <5>1, <6>3, KeptTwice
        <5>4. CASE frame[pin] \notin PulseCommands
          <6>1. Kept(x, y, other)
            BY <3>10, <3>11, <4>1, <5>4
          <6> QED
            BY <5>1, <6>1, KeptTwice
        <5> QED
          BY <5>2, <5>3, <5>4
      <4> QED
        BY <3>10, <3>11, <4>1, <4>2, <4>3
    <3>12. ASSUME Clean(frame)
           PROVE  ~y.corrupt /\ \A j \in 1..N : j > i => Kept(io, y, Pin(j))
      <4>1. ~x.corrupt /\ Kept(io, x, pin) /\ \A j \in 1..N : j > i => Kept(io, x, Pin(j))
        <5>1. i > i - 1 /\ \A j \in 1..N : j > i => j > i - 1
          BY <3>1
        <5> QED
          BY <3>1, <3>5, <3>6, <3>12, <5>1
      <4>2. frame[pin] \in PulseCommands => (x.pev[pin] # NoBlock => On(x, pin))
        <5> SUFFICES ASSUME frame[pin] \in PulseCommands, x.pev[pin] # NoBlock PROVE On(x, pin)
          OBVIOUS
        <5>1. x.pev[pin] = io.pev[pin]
          BY <3>10, <4>1 DEF Back
        <5>2. On(io, pin)
          BY <3>12, <5>1 DEF Clean
        <5> QED
          BY <4>1, <5>2 DEF Kept, On
      <4>3. ~y.corrupt
        BY <3>10, <4>1, <4>2
      <4>4. ASSUME NEW j \in 1..N, j > i
            PROVE  Kept(io, y, Pin(j))
        <5>1. Pin(j) \in Pins \ {pin} /\ Kept(io, x, Pin(j))
          BY <1>1, <3>1, <3>5, <4>1, <4>4
        <5>2. CASE ~On(io, Pin(j))
          BY <5>2 DEF Kept
        <5>3. CASE On(io, Pin(j)) /\ frame[pin] \in PulseCommands
          <6>1. On(x, Pin(j))
            BY <5>1, <5>3 DEF Kept, On
          <6>2. x.pev[pin] # x.pev[Pin(j)]
            BY <4>2, <5>1, <5>3, <6>1 DEF On
          <6>3. Kept(x, y, Pin(j))
            BY <3>10, <4>1, <4>3, <5>1, <6>2 DEF Others
          <6> QED
            BY <5>1, <6>3, KeptTwice
        <5>4. CASE frame[pin] \notin PulseCommands
          <6>1. Kept(x, y, Pin(j))
            BY <3>10, <4>1, <4>3, <5>1, <5>4
          <6> QED
            BY <5>1, <6>1, KeptTwice
        <5> QED
          BY <5>2, <5>3, <5>4
      <4> QED
        BY <4>3, <4>4
    <3>13. Progress(i)
      <4> HIDE DEF Sound
      <4> QED
        BY <3>4, <3>9, <3>11, <3>12
    <3> QED
      BY <2>1, <3>13
  <2> QED
    BY <2>2, <2>3
<1>3. Progress(N)
  <2>1. N \in 0..N
    BY <1>1
  <2> QED
    BY <1>2, <2>1
<1>4. /\ X(N) \in PulseIo
      /\ Clean(frame) => ~X(N).corrupt
      /\ ~X(N).corrupt =>
           /\ Slab(X(N))
           /\ \A j \in 1..N : Done(io, X(N), Pin(j), frame[Pin(j)], Duration(Pin(j)))
           /\ \A pin \in Pins : Spared(frame, pin) => Kept(io, X(N), pin)
  <2>1. \A j \in 1..N : j <= N
    BY <1>1
  <2> QED
    BY <1>3, <2>1
<1>5. X(N) = Applied(frame)
  BY DEF Applied
<1> HIDE DEF X
<1>6. ASSUME ~Applied(frame).corrupt, NEW pin \in Pins
      PROVE  /\ Done(io, Applied(frame), pin, frame[pin], Duration(pin))
             /\ Spared(frame, pin) => Kept(io, Applied(frame), pin)
  <2>1. PICK j \in 1..N : Pin(j) = pin
    BY <1>1
  <2> QED
    BY <1>4, <1>5, <1>6, <2>1
<1>7. /\ Applied(frame) \in PulseIo
      /\ Clean(frame) => ~Applied(frame).corrupt
      /\ ~Applied(frame).corrupt => Slab(Applied(frame))
  BY <1>4, <1>5
<1> QED
  BY <1>6, <1>7

-----------------------------------------------------------------------------
(* The end of pulses *)

\* Pulses whose time is over give their blocks back; the others go on.
LEMMA ProcessSafe ==
    ASSUME NEW x, Slab(x), NEW elapsed \in Nat, NEW y, y = PulseProcess(x, elapsed)
    PROVE  /\ Slab(y) /\ y.pev = x.pev
           /\ \A b \in Blocks :
                 /\ y.event[b].scheduled =>
                      /\ x.event[b].scheduled /\ x.event[b].left > elapsed
                      /\ y.event[b].left = x.event[b].left - elapsed
                 /\ x.event[b].scheduled /\ x.event[b].left > elapsed =>
                      y.event[b].scheduled
                 /\ y.event[b].pin = x.event[b].pin
<1> DEFINE expired == Expiring(x, elapsed)
           event == [b \in Blocks |->
                       IF b \in expired
                       THEN [x.event[b] EXCEPT !.scheduled = FALSE, !.left = 0]
                       ELSE IF x.event[b].scheduled
                       THEN [x.event[b] EXCEPT !.left = @ - elapsed]
                       ELSE x.event[b]]
           level == [pin \in Pins |->
                       IF pin \in EndingPins(x, elapsed)
                       THEN \E b \in expired : x.event[b].pin = pin /\ x.event[b].reset_state
                       ELSE x.level[pin]]
           free == FreeSeq(expired) \o x.free
<1>1. x \in PulseIo
  BY DEF Slab
<1>2. /\ y.event = event /\ y.free = free /\ y.corrupt = x.corrupt /\ y.pev = x.pev
      /\ y = [event |-> event, free |-> free, corrupt |-> x.corrupt, level |-> level,
              reset_state |-> x.reset_state, pev |-> x.pev]
  BY <1>1 DEF PulseProcess, PulseIo
<1>3. \A b \in Blocks : b \in expired <=> x.event[b].scheduled /\ ~(x.event[b].left > elapsed)
  BY <1>1, IoType DEF Expiring, Pending
<1>4. expired \in SUBSET Blocks
  BY DEF Expiring, Pending
<1> HIDE DEF expired
<1>5. ASSUME NEW b \in Blocks
      PROVE  /\ event[b] \in PulseEvent /\ event[b].pin = x.event[b].pin
             /\ event[b].scheduled <=> x.event[b].scheduled /\ b \notin expired
             /\ event[b].scheduled => event[b].left = x.event[b].left - elapsed
  <2>1. x.event[b] \in PulseEvent
    BY <1>1, IoType
  <2>2. CASE b \in expired
    BY <2>1, <2>2 DEF PulseEvent
  <2>3. CASE b \notin expired /\ x.event[b].scheduled
    <3>1. x.event[b].left - elapsed \in Nat
      BY <1>3, <2>1, <2>3 DEF PulseEvent
    <3>2. event[b] = [x.event[b] EXCEPT !.left = @ - elapsed]
      BY <2>3
    <3> QED
      BY <2>1, <2>3, <3>1, <3>2 DEF PulseEvent
  <2>4. CASE b \notin expired /\ ~x.event[b].scheduled
    BY <2>1, <2>4, SMTT(60) DEF PulseEvent
  <2> QED
    BY <2>2, <2>3, <2>4
<1>6. event \in [Blocks -> PulseEvent]
  BY <1>5, ZenonT(60)
<1>7. level \in [Pins -> BOOLEAN]
  <2>1. \A pin \in Pins : level[pin] \in BOOLEAN
    BY <1>1, IoType
  <2> QED
    BY <2>1
<1>8. /\ free \in Seq(Blocks) /\ NoRepeat(free)
      /\ \A b \in Blocks : Holds(free, b) <=> b \in expired \/ Holds(x.free, b)
  <2>1. /\ FreeSeq(expired) \in Seq(Blocks) /\ NoRepeat(FreeSeq(expired))
        /\ \A b : Holds(FreeSeq(expired), b) <=> b \in expired
    BY <1>4, FreeSeqIs
  <2>2. x.free \in Seq(Blocks) /\ NoRepeat(x.free)
    BY <1>1, IoType DEF Slab
  <2>3. \A b \in Blocks : ~(Holds(FreeSeq(expired), b) /\ Holds(x.free, b))
    BY <1>3, <2>1 DEF Slab
  <2> QED
    BY <2>1, <2>2, <2>3, PutBefore
<1> HIDE DEF event, level, free
<1>9. y \in PulseIo
  BY <1>1, <1>2, <1>6, <1>7, <1>8 DEF PulseIo
<1>10. \A b \in Blocks : event[b].scheduled <=> ~Holds(free, b)
  BY <1>3, <1>5, <1>8 DEF Slab
<1>11. \A b \in Blocks : event[b].scheduled => x.pev[event[b].pin] = b
  BY <1>5 DEF Slab
<1>12. Slab(y)
  BY <1>2, <1>8, <1>9, <1>10, <1>11 DEF Slab
<1> QED
  BY <1>2, <1>3, <1>5, <1>12

\* What is left until the first pulse ends is no more than what any pulse has left.
LEMMA RemainingIs ==
    ASSUME NEW x \in PulseIo, NEW limit \in Nat
    PROVE  /\ PulseRemaining(x, limit) \in Nat
           /\ \A b \in Pending(x) : PulseRemaining(x, limit) <= x.event[b].left
<1> DEFINE times == {x.event[b].left : b \in Pending(x)} \cup {limit}
           least == CHOOSE t \in times : \A u \in times : t <= u
<1>1. times \in SUBSET Nat /\ times # {}
  BY IoType DEF Pending
<1>2. \A b \in Pending(x) : x.event[b].left \in times
  OBVIOUS
<1>3. PulseRemaining(x, limit) = least
  BY DEF PulseRemaining
<1> HIDE DEF times
<1>4. \E t \in times : \A u \in times : t <= u
  BY <1>1, LeastElement
<1>5. least \in times /\ \A u \in times : least <= u
  BY <1>4
<1> HIDE DEF least
<1> QED
  BY <1>1, <1>2, <1>3, <1>5

-----------------------------------------------------------------------------
(* The steps *)

\* The age of the pulse a pin has and what it has left, less the time that is not yet
\* taken off, are its duration, less the time of the turn that began it.
Owes(pin) ==
    LET left == io.event[io.pev[pin]].left
    IN  /\ age[pin] + left <= due[pin] + since
        /\ due[pin] + since <= age[pin] + left + MaxBusy

\* The sleep does not outlast a pulse by more than the turn took before it.
InTime ==
    IF awake THEN since <= MaxBusy
    ELSE /\ -MaxLate <= wait
         /\ \A b \in Pending(io) : since + wait <= io.event[b].left + MaxBusy

\* What holds until a block is freed twice.
InOrder ==
    /\ Slab(io) /\ InTime /\ refused = {}
    /\ \A pin \in Pins : On(io, pin) => Owes(pin)

BoardInv == BoardTypeOK /\ (~io.corrupt => InOrder)

LEMMA ConfigType ==
    ASSUME NEW config \in Config
    PROVE  config.pulse_durations \in [Pins -> Nat]
BY DEF Config

LEMMA ResetStatesType ==
    ASSUME NEW config, NEW states \in [Pins -> BOOLEAN]
    PROVE  Class1ResetStates(config, states) \in [Pins -> BOOLEAN]
<1>1. \A pin \in Pins : (IF pin \in config.self_managed THEN states[pin]
                        ELSE pin \in config.outputs_default) \in BOOLEAN
  <2> SUFFICES ASSUME NEW pin \in Pins
               PROVE  (IF pin \in config.self_managed THEN states[pin]
                       ELSE pin \in config.outputs_default) \in BOOLEAN
    OBVIOUS
  <2>1. states[pin] \in BOOLEAN
    OBVIOUS
  <2>2. CASE pin \in config.self_managed
    BY <2>1, <2>2
  <2>3. CASE pin \notin config.self_managed
    BY <2>3
  <2> QED
    BY <2>2, <2>3
<1> QED
  BY <1>1, Zenon DEF Class1ResetStates

LEMMA BoardInitInv == BoardInit => BoardInv
<1> SUFFICES ASSUME BoardInit PROVE BoardInv
  OBVIOUS
<1>1. /\ class \in Classes /\ cfg \in Configs /\ cfg \in Config
      /\ awake = TRUE /\ since = 0 /\ wait = 0 /\ refused = {}
      /\ due = [pin \in Pins |-> 0] /\ age = [pin \in Pins |-> 0]
  BY BoardAssumption DEF BoardInit
<1>2. PICK level \in [Pins -> BOOLEAN], states \in [Pins -> BOOLEAN] :
         io = InitialPulseIo(level, states)
  <2>1. /\ Class0Driven(cfg) \in [Pins -> BOOLEAN] /\ Class1Driven(cfg) \in [Pins -> BOOLEAN]
        /\ Low \in [Pins -> BOOLEAN]
    BY DEF Class0Driven, Class1Driven, Low
  <2>2. Class1ResetStates(cfg, Low) \in [Pins -> BOOLEAN]
    BY <2>1, ResetStatesType
  <2> QED
    BY <2>1, <2>2 DEF BoardInit
<1>3. /\ io.corrupt = FALSE /\ io.free = FreeSeq(Blocks)
      /\ \A b \in Blocks : ~io.event[b].scheduled
      /\ io \in PulseIo
  <2> DEFINE none  == [scheduled |-> FALSE, pin |-> CHOOSE p \in Pins : TRUE,
                       reset_state |-> FALSE, left |-> 0]
             event == [b \in Blocks |-> none]
             pev   == [pin \in Pins |-> NoBlock]
  <2>1. io = [event |-> event, free |-> FreeSeq(Blocks), corrupt |-> FALSE,
              level |-> level, reset_state |-> states, pev |-> pev]
    BY <1>2 DEF InitialPulseIo
  <2>2. none \in PulseEvent /\ ~none.scheduled
    <3>1. (CHOOSE p \in Pins : TRUE) \in Pins
      BY PulseAssumption
    <3> QED
      BY <3>1 DEF PulseEvent
  <2> HIDE DEF none
  <2>3. event \in [Blocks -> PulseEvent] /\ \A b \in Blocks : ~event[b].scheduled
    BY <2>2
  <2>4. pev \in [Pins -> Blocks \cup {NoBlock}] /\ FreeSeq(Blocks) \in Seq(Blocks)
    BY FreeSeqIs
  <2> HIDE DEF event, pev
  <2>5. /\ io.corrupt = FALSE /\ io.free = FreeSeq(Blocks) /\ io.event = event
        /\ level \in [Pins -> BOOLEAN] /\ states \in [Pins -> BOOLEAN]
    BY <2>1
  <2>6. io \in PulseIo
    BY <2>1, <2>3, <2>4, <2>5 DEF PulseIo
  <2> QED
    BY <2>3, <2>5, <2>6
<1>4. Slab(io)
  BY <1>3, FreeSeqIs DEF Slab
<1>5. BoardTypeOK
  BY <1>1, <1>3 DEF BoardTypeOK
<1>6. InTime
  BY <1>1, BoardAssumption DEF InTime
<1>7. \A pin \in Pins : ~On(io, pin)
  BY <1>3, IoType DEF On
<1> QED
  BY <1>1, <1>4, <1>5, <1>6, <1>7 DEF BoardInv, InOrder

\* What the invariant gives of the pulses and the time.
LEMMA BoardFacts ==
    ASSUME BoardTypeOK
    PROVE  /\ io \in PulseIo /\ since \in Nat /\ wait \in Int
           /\ due \in [Pins -> Nat] /\ age \in [Pins -> Nat]
           /\ cfg.pulse_durations \in [Pins -> Nat]
           /\ \A pin \in Pins : io.pev[pin] \in Blocks \cup {NoBlock}
           /\ \A pin \in Pins : On(io, pin) =>
                 io.pev[pin] \in Blocks /\ io.event[io.pev[pin]].left \in Nat
BY ConfigType, IoType DEF BoardTypeOK, On

\* In a sound slab, a pin has a pulse only in the block that it remembers.
LEMMA PulseIsOn ==
    ASSUME Slab(io), NEW pin \in Pins
    PROVE  HasPulse(pin) <=> On(io, pin)
<1>1. ASSUME HasPulse(pin) PROVE On(io, pin)
  <2>1. PICK b \in Blocks : io.event[b].scheduled /\ io.event[b].pin = pin
    BY <1>1 DEF HasPulse, Pending
  <2>2. io.pev[pin] = b /\ b # NoBlock
    BY <2>1, PulseAssumption DEF Slab
  <2> QED
    BY <2>1, <2>2 DEF On
<1>2. ASSUME On(io, pin) PROVE HasPulse(pin)
  <2>1. io.pev[pin] \in Blocks
    BY <1>2, IoType DEF On, Slab
  <2> QED
    BY <1>2, <2>1 DEF On, HasPulse, Pending
<1> QED
  BY <1>1, <1>2

\* The commands of a frame that are carried out make a frame.
LEMMA CarriedType ==
    ASSUME NEW sent \in Frames
    PROVE  Carried(sent) \in AllFrames
<1>1. sent \in AllFrames
  BY BoardAssumption DEF AllFrames
<1>2. CASE class = 0
  BY <1>1, <1>2 DEF Carried
<1>3. CASE class # 0
  <2> DEFINE kept == [pin \in Pins |-> IF pin \in cfg.directions \ cfg.self_managed
                                       THEN sent[pin] ELSE NoCommand]
  <2>1. Carried(sent) = kept
    BY <1>3 DEF Carried
  <2>2. \A pin \in Pins : kept[pin] \in XpsCommands \cup {NoCommand}
    BY <1>1 DEF AllFrames
  <2>3. kept \in AllFrames
    BY <2>2 DEF AllFrames
  <2> QED
    BY <2>1, <2>3
<1> QED
  BY <1>2, <1>3

\* What a frame does to the pulses.
LEMMA CommandDoes ==
    ASSUME BoardInv, NEW sent \in Frames, Command(sent), NEW frame, frame = Carried(sent)
    PROVE  /\ frame \in AllFrames /\ ~io.corrupt /\ InOrder /\ io' \in PulseIo
           /\ Clean(frame) => ~io'.corrupt
           /\ ~io'.corrupt => Slab(io')
           /\ \A pin \in Pins : ~io'.corrupt =>
                /\ Done(io, io', pin, frame[pin], Duration(pin))
                /\ Spared(frame, pin) => Kept(io, io', pin)
<1>1. frame \in AllFrames
  BY CarriedType
<1>2. ~io.corrupt /\ io' = Applied(frame)
  BY DEF Command
<1>3. InOrder /\ Slab(io) /\ cfg.pulse_durations \in [Pins -> Nat]
  BY <1>2, BoardFacts DEF BoardInv, InOrder
<1>4. /\ Applied(frame) \in PulseIo
      /\ Clean(frame) => ~Applied(frame).corrupt
      /\ ~Applied(frame).corrupt =>
           /\ Slab(Applied(frame))
           /\ \A pin \in Pins :
                /\ Done(io, Applied(frame), pin, frame[pin], Duration(pin))
                /\ Spared(frame, pin) => Kept(io, Applied(frame), pin)
  BY <1>1, <1>3, FrameSafe
<1> QED
  BY <1>1, <1>2, <1>3, <1>4

LEMMA CommandInv ==
    ASSUME BoardInv, NEW sent \in Frames, Command(sent)
    PROVE  BoardInv'
<1>1. PICK frame : frame = Carried(sent)
  OBVIOUS
<1>2. /\ frame \in AllFrames /\ ~io.corrupt /\ InOrder /\ io' \in PulseIo
      /\ ~io'.corrupt => Slab(io')
      /\ \A pin \in Pins : ~io'.corrupt => Done(io, io', pin, frame[pin], Duration(pin))
  BY <1>1, CommandDoes
<1>3. /\ awake
      /\ due' = [pin \in Pins |-> Promised(frame, pin)]
      /\ age' = [pin \in Pins |-> IF frame[pin] \in PulseCommands THEN 0 ELSE age[pin]]
      /\ refused' = {pin \in Pins : /\ Triggers(frame, pin)
                                    /\ cfg.pulse_durations[pin] # 0
                                    /\ HasPulse(pin) /\ io'.pev[pin] = NoBlock}
      /\ class' = class /\ cfg' = cfg /\ awake' = awake /\ since' = since /\ wait' = wait
  BY <1>1 DEF Command, loop
<1>4. /\ Slab(io) /\ since \in Nat /\ since <= MaxBusy
      /\ \A pin \in Pins : Duration(pin) \in Nat /\ age[pin] \in Nat /\ due[pin] \in Nat
  BY <1>2, <1>3, BoardFacts DEF BoardInv, InOrder, InTime, Duration
<1>5. ASSUME ~io'.corrupt PROVE refused' = {}
  <2> SUFFICES ASSUME NEW pin \in Pins, frame[pin] \in {"PULSE_ON", "PULSE_OFF"},
                      Duration(pin) # 0, HasPulse(pin)
               PROVE  io'.pev[pin] # NoBlock
    BY <1>3 DEF Triggers, Duration
  <2>1. io.pev[pin] # NoBlock
    BY <1>4, PulseIsOn DEF On
  <2> QED
    BY <1>2, <1>5, <2>1 DEF Done
<1>6. ASSUME NEW pin \in Pins
      PROVE  /\ due'[pin] \in Nat /\ age'[pin] \in Nat
             /\ ~io'.corrupt /\ On(io', pin) => Owes(pin)'
  <2>1. /\ age'[pin] = IF frame[pin] \in PulseCommands THEN 0 ELSE age[pin]
        /\ due'[pin] = Promised(frame, pin)
    BY <1>3
  <2>2. CASE Triggers(frame, pin)
    <3>1. frame[pin] \in {"PULSE_ON", "PULSE_OFF"} /\ frame[pin] \in PulseCommands
      BY <2>2 DEF Triggers, PulseCommands
    <3>2. due'[pin] = IF io'.pev[pin] = NoBlock THEN 0 ELSE Duration(pin)
      <4>1. Promised(frame, pin) =
               IF io'.pev[pin] = NoBlock THEN 0 ELSE cfg.pulse_durations[pin]
        BY <2>2, <3>1 DEF Promised, Triggers
      <4> QED
        BY <2>1, <4>1 DEF Duration
    <3>3. age'[pin] = 0
      BY <2>1, <3>1
    <3>4. ASSUME ~io'.corrupt, On(io', pin) PROVE Owes(pin)'
      <4>1. io'.event[io'.pev[pin]].left = Duration(pin)
        BY <1>2, <3>1, <3>4 DEF Done
      <4>2. due'[pin] = Duration(pin)
        BY <3>2, <3>4 DEF On
      <4>3. /\ age'[pin] + Duration(pin) <= due'[pin] + since'
            /\ due'[pin] + since' <= age'[pin] + Duration(pin) + MaxBusy
        BY <1>3, <1>4, <3>3, <4>2, BoardAssumption
      <4> QED
        BY <4>1, <4>3 DEF Owes
    <3> QED
      BY <1>4, <3>2, <3>3, <3>4
  <2>3. CASE frame[pin] \in {"PULSE_CANCEL", "RESET"}
    <3>1. due'[pin] = 0
      BY <2>1, <2>3 DEF Promised, Triggers
    <3>2. ~io'.corrupt => ~On(io', pin)
      BY <1>2, <2>3 DEF Done
    <3> QED
      BY <1>4, <2>1, <3>1, <3>2
  <2>4. CASE frame[pin] \notin PulseCommands
    <3>1. ~Triggers(frame, pin) /\ frame[pin] \notin {"PULSE_CANCEL", "RESET"}
      BY <2>4 DEF PulseCommands, Triggers
    <3>2. due'[pin] = due[pin] /\ age'[pin] = age[pin]
      BY <2>1, <2>4, <3>1 DEF Promised
    <3>3. ASSUME ~io'.corrupt, On(io', pin) PROVE Owes(pin)'
      <4>1. Back(io, io', pin)
        BY <1>2, <2>4, <3>3 DEF Done
      <4>2. On(io, pin) /\ io'.pev[pin] = io.pev[pin]
            /\ io'.event[io.pev[pin]] = io.event[io.pev[pin]]
        BY <3>3, <4>1 DEF Back
      <4>3. Owes(pin)
        BY <1>2, <4>2 DEF InOrder
      <4> QED
        BY <1>3, <3>2, <4>2, <4>3 DEF Owes
    <3> QED
      BY <1>4, <3>2, <3>3
  <2> QED
    BY <2>2, <2>3, <2>4 DEF PulseCommands, Triggers
<1>7. BoardTypeOK'
  <2>1. due' \in [Pins -> Nat] /\ age' \in [Pins -> Nat]
    BY <1>3, <1>6
  <2>2. refused' \in SUBSET Pins
    BY <1>3
  <2> QED
    BY <1>2, <1>3, <2>1, <2>2 DEF BoardInv, BoardTypeOK
<1>8. InTime'
  BY <1>3, <1>4 DEF InTime
<1> QED
  BY <1>2, <1>5, <1>6, <1>7, <1>8 DEF BoardInv, InOrder

LEMMA WriteConfigInv ==
    ASSUME BoardInv, NEW config \in Configs, WriteConfig(config)
    PROVE  BoardInv'
<1>1. /\ config \in Config /\ cfg' = config /\ class' = class /\ awake' = awake
      /\ since' = since /\ wait' = wait /\ due' = due /\ age' = age /\ refused' = refused
      /\ ~io.corrupt
  BY BoardAssumption DEF WriteConfig, loop
<1>2. BoardTypeOK /\ InOrder /\ io \in PulseIo
  BY <1>1, BoardFacts DEF BoardInv
<1>3. /\ io' \in PulseIo /\ io'.event = io.event /\ io'.free = io.free
      /\ io'.corrupt = io.corrupt /\ io'.pev = io.pev
  <2>1. CASE class = 0
    BY <1>2, <2>1 DEF WriteConfig
  <2>2. CASE class # 0
    <3> DEFINE states == Class1ResetStates(config, io.reset_state)
    <3>1. states \in [Pins -> BOOLEAN]
      BY <1>2, IoType, ResetStatesType
    <3>2. io' = [io EXCEPT !.reset_state = states]
      BY <2>2 DEF WriteConfig
    <3> HIDE DEF states
    <3> QED
      BY <1>2, <3>1, <3>2 DEF PulseIo
  <2> QED
    BY <2>1, <2>2
<1>4. Slab(io')
  BY <1>2, <1>3 DEF InOrder, Slab
<1>5. \A pin \in Pins : On(io', pin) => Owes(pin)'
  BY <1>1, <1>2, <1>3 DEF InOrder, Owes, On
<1>6. InTime'
  BY <1>1, <1>2, <1>3 DEF InOrder, InTime, Pending
<1>7. BoardTypeOK'
  BY <1>1, <1>2, <1>3 DEF BoardTypeOK
<1> QED
  BY <1>1, <1>2, <1>4, <1>5, <1>6, <1>7 DEF BoardInv, InOrder

LEMMA SleepInv ==
    ASSUME BoardInv, Sleep
    PROVE  BoardInv'
<1>1. /\ awake /\ awake' = FALSE /\ wait' = PulseRemaining(io, MaxInterval)
      /\ UNCHANGED <<io, class, cfg, since, due, age, refused>>
  BY DEF Sleep
<1>2. BoardTypeOK /\ InOrder
  BY DEF BoardInv, Sleep
<1>3. wait' \in Nat /\ \A b \in Pending(io) : wait' <= io.event[b].left
  BY <1>1, <1>2, BoardFacts, BoardAssumption, RemainingIs
<1>4. InTime'
  <2>1. \A b \in Pending(io) : io.event[b].left \in Nat
    BY <1>2, BoardFacts, IoType DEF Pending
  <2>2. since \in Nat /\ since <= MaxBusy
    BY <1>1, <1>2, BoardFacts DEF InOrder, InTime
  <2>3. -MaxLate <= wait'
    BY <1>3, BoardAssumption
  <2>4. \A b \in Pending(io) : since + wait' <= io.event[b].left + MaxBusy
    BY <1>3, <2>1, <2>2, BoardAssumption
  <2> QED
    BY <1>1, <2>3, <2>4 DEF InTime, Pending
<1>5. BoardTypeOK'
  <2>1. awake' \in BOOLEAN
    BY <1>1, Zenon
  <2>2. wait' \in Int
    BY <1>3
  <2> QED
    BY <1>1, <1>2, <2>1, <2>2 DEF BoardTypeOK
<1> QED
  BY <1>1, <1>2, <1>4, <1>5 DEF BoardInv, InOrder, Owes, On

\* What pulse_process does at the beginning of a turn.
LEMMA WakeDoes ==
    ASSUME BoardInv, Wake
    PROVE  /\ InOrder /\ Slab(io') /\ io'.pev = io.pev
           /\ \A b \in Blocks :
                 /\ io'.event[b].scheduled =>
                      /\ io.event[b].scheduled /\ io.event[b].left > since
                      /\ io'.event[b].left = io.event[b].left - since
                 /\ io.event[b].scheduled /\ io.event[b].left > since =>
                      io'.event[b].scheduled
                 /\ io'.event[b].pin = io.event[b].pin
<1>1. io' = PulseProcess(io, since) /\ InOrder /\ Slab(io) /\ since \in Nat
  BY BoardFacts DEF Wake, BoardInv, InOrder
<1> QED
  BY <1>1, ProcessSafe

LEMMA WakeInv ==
    ASSUME BoardInv, Wake
    PROVE  BoardInv'
<1>1. /\ awake' = TRUE /\ since' = 0 /\ wait' = 0
      /\ due' = [pin \in Pins |-> IF pin \in EndingPins(io, since) THEN 0 ELSE due[pin]]
      /\ age' = [pin \in Pins |-> IF pin \in EndingPins(io, since) THEN 0 ELSE age[pin]]
      /\ class' = class /\ cfg' = cfg /\ refused' = refused
  BY DEF Wake
<1>2. /\ InOrder /\ Slab(io') /\ io'.pev = io.pev
      /\ \A b \in Blocks :
            /\ io'.event[b].scheduled =>
                 /\ io.event[b].scheduled /\ io.event[b].left > since
                 /\ io'.event[b].left = io.event[b].left - since
            /\ io.event[b].scheduled /\ io.event[b].left > since =>
                 io'.event[b].scheduled
            /\ io'.event[b].pin = io.event[b].pin
  BY WakeDoes
<1>3. BoardTypeOK /\ Slab(io)
  BY <1>2 DEF BoardInv, InOrder
<1>4. due' \in [Pins -> Nat] /\ age' \in [Pins -> Nat]
  BY <1>1, <1>3, BoardFacts
<1>5. ASSUME NEW pin \in Pins, On(io', pin)
      PROVE  Owes(pin)'
  <2>1. PICK b \in Blocks : b = io'.pev[pin] /\ io'.event[b].scheduled /\ io'.event[b].pin = pin
    BY <1>2, <1>5, IoType DEF On, Slab
  <2>2. /\ io.pev[pin] = b /\ b # NoBlock
        /\ io.event[b].scheduled /\ io.event[b].pin = pin /\ io.event[b].left > since
        /\ io'.event[b].left = io.event[b].left - since
    BY <1>2, <2>1, PulseAssumption
  <2>3. Owes(pin) /\ io.event[b].left \in Nat
    BY <1>2, <1>3, <2>2, BoardFacts DEF InOrder, On
  <2>4. pin \notin EndingPins(io, since)
    <3> SUFFICES ASSUME NEW c \in Expiring(io, since), io.event[c].pin = pin PROVE FALSE
      BY DEF EndingPins
    <3>1. c \in Blocks /\ io.event[c].scheduled /\ io.event[c].left <= since
      BY DEF Expiring, Pending
    <3>2. c = b
      BY <1>3, <2>2, <3>1 DEF Slab
    <3>3. since \in Nat
      BY <1>3, BoardFacts
    <3> QED
      BY <2>2, <2>3, <3>1, <3>2, <3>3
  <2>5. due'[pin] = due[pin] /\ age'[pin] = age[pin]
    BY <1>1, <2>4
  <2>6. /\ age[pin] + io.event[b].left <= due[pin] + since
        /\ due[pin] + since <= age[pin] + io.event[b].left + MaxBusy
    BY <2>2, <2>3 DEF Owes
  <2>7. /\ age'[pin] + io'.event[b].left <= due'[pin] + since'
        /\ due'[pin] + since' <= age'[pin] + io'.event[b].left + MaxBusy
    <3>1. age[pin] \in Nat /\ due[pin] \in Nat /\ since \in Nat /\ MaxBusy \in Nat
      BY <1>3, BoardFacts, BoardAssumption
    <3> QED
      BY <1>1, <2>2, <2>3, <2>5, <2>6, <3>1
  <2> QED
    BY <2>1, <2>7 DEF Owes
<1>6. InTime'
  BY <1>1, BoardAssumption DEF InTime
<1>7. BoardTypeOK'
  BY <1>1, <1>2, <1>3, <1>4 DEF BoardTypeOK, Slab
<1> QED
  BY <1>1, <1>2, <1>5, <1>6, <1>7 DEF BoardInv, InOrder

LEMMA TickInv ==
    ASSUME BoardInv, BoardTick
    PROVE  BoardInv'
<1>1. /\ IF awake THEN since < MaxBusy ELSE wait > -MaxLate
      /\ since' = since + 1
      /\ wait' = IF awake THEN wait ELSE wait - 1
      /\ age' = [pin \in Pins |-> IF HasPulse(pin) THEN age[pin] + 1 ELSE 0]
      /\ UNCHANGED <<io, class, cfg, awake, due, refused>>
  BY DEF BoardTick
<1>2. BoardTypeOK /\ InOrder /\ Slab(io)
  BY DEF BoardInv, InOrder, BoardTick
<1>3. /\ since \in Nat /\ wait \in Int /\ MaxBusy \in Nat /\ MaxLate \in Nat
      /\ \A pin \in Pins : age[pin] \in Nat /\ due[pin] \in Nat
      /\ \A b \in Pending(io) : io.event[b].left \in Nat
  BY <1>2, BoardFacts, BoardAssumption, IoType DEF Pending
<1>4. age' \in [Pins -> Nat] /\ since' \in Nat /\ wait' \in Int
  BY <1>1, <1>3
<1>5. InTime'
  <2>1. CASE awake
    BY <1>1, <1>3, <2>1 DEF InTime
  <2>2. CASE ~awake
    <3>1. -MaxLate <= wait' /\ since' + wait' = since + wait
      BY <1>1, <1>3, <2>2
    <3> QED
      BY <1>1, <1>2, <2>2, <3>1 DEF InOrder, InTime, Pending
  <2> QED
    BY <2>1, <2>2
<1>6. ASSUME NEW pin \in Pins, On(io, pin)
      PROVE  Owes(pin)'
  <2>1. due'[pin] = due[pin] /\ age'[pin] = age[pin] + 1 /\ io' = io
    BY <1>1, <1>2, <1>6, PulseIsOn
  <2>2. Owes(pin)
    BY <1>2, <1>6 DEF InOrder
  <2>3. PICK left \in Nat : left = io.event[io.pev[pin]].left
    BY <1>2, <1>6, BoardFacts
  <2>4. age[pin] + left <= due[pin] + since /\ due[pin] + since <= age[pin] + left + MaxBusy
    BY <2>2, <2>3 DEF Owes
  <2>5. /\ age'[pin] + left <= due'[pin] + since'
        /\ due'[pin] + since' <= age'[pin] + left + MaxBusy
    BY <1>1, <1>3, <2>1, <2>4
  <2> QED
    BY <2>1, <2>3, <2>5 DEF Owes
<1>7. BoardTypeOK'
  BY <1>1, <1>2, <1>4 DEF BoardTypeOK
<1> QED
  BY <1>1, <1>2, <1>5, <1>6, <1>7 DEF BoardInv, InOrder

LEMMA BoardInductive == BoardInv /\ [BoardNext]_boardVars => BoardInv'
<1> SUFFICES ASSUME BoardInv, [BoardNext]_boardVars PROVE BoardInv'
  OBVIOUS
<1>1. CASE UNCHANGED boardVars
  BY <1>1 DEF boardVars, loop, BoardInv, BoardTypeOK, InOrder, InTime, Owes
<1>2. CASE BoardNext
  BY <1>2, CommandInv, WriteConfigInv, SleepInv, WakeInv, TickInv, Zenon DEF BoardNext
<1> QED
  BY <1>1, <1>2

LEMMA BoardInvariant == BoardSpec => []BoardInv
<1>1. BoardInit => BoardInv
  BY BoardInitInv
<1>2. BoardInv /\ [BoardNext]_boardVars => BoardInv'
  BY BoardInductive
<1> QED
  BY <1>1, <1>2, PTL DEF BoardSpec

\* The blocks that are not free are those of pending pulses, and the slab counts them.
LEMMA FreeCounts ==
    ASSUME Slab(io)
    PROVE  Len(io.free) = Cardinality(Blocks \ Pending(io))
<1> DEFINE S == Blocks \ Pending(io)
           n == Len(io.free)
<1>1. io.free \in Seq(Blocks) /\ n \in Nat /\ DOMAIN io.free = 1..n
  BY IoType, LenProperties DEF Slab
<1>2. \A i \in 1..n : io.free[i] \in S
  <2> SUFFICES ASSUME NEW i \in 1..n PROVE io.free[i] \in S
    OBVIOUS
  <2>1. io.free[i] \in Blocks
    BY <1>1, ElementOfSeq
  <2>2. Holds(io.free, io.free[i])
    BY <1>1 DEF Holds
  <2> QED
    BY <2>1, <2>2 DEF Slab, Pending
<1>3. \A b \in S : \E i \in 1..n : io.free[i] = b
  BY <1>1 DEF Slab, Pending, Holds
<1>4. \A i, j \in 1..n : io.free[i] = io.free[j] => i = j
  BY <1>1 DEF Slab, NoRepeat
<1>5. io.free \in [1..n -> S]
  <2>1. io.free = [i \in 1..n |-> io.free[i]]
    BY <1>1, SeqDef
  <2> QED
    BY <1>2, <2>1
<1> HIDE DEF S, n
<1>6. io.free \in Bijection(1..n, S)
  BY <1>3, <1>4, <1>5 DEF Bijection, Injection, Surjection, IsInjective
<1>7. ExistsBijection(1..n, S)
  BY <1>6 DEF ExistsBijection
<1>8. Cardinality(S) = n
  BY <1>1, <1>7, FS_CountingElements
<1> QED
  BY <1>8 DEF S, n

-----------------------------------------------------------------------------
(* The theorems *)

\* The slab, the queue and the ghosts keep their types, under any sequence of
\* frames, configurations, turns and waits of the loop.
THEOREM TypeCorrect == BoardSpec => []BoardTypeOK
<1>1. BoardInv => BoardTypeOK
  BY DEF BoardInv
<1> QED
  BY <1>1, BoardInvariant, PTL

\* As long as no block was freed twice, pulse_trigger, pulse_cancel and pulse_process
\* lost none of the slab, and a pin has at most the one pulse it remembers.
THEOREM PulsesOwnedHolds == BoardSpec => []PulsesOwned
<1>1. BoardInv => PulsesOwned
  <2> SUFFICES ASSUME Slab(io) PROVE BlocksAccounted /\ OnePulsePerPin
    BY DEF BoardInv, InOrder, PulsesOwned
  <2>1. BlocksAccounted
    BY FreeCounts DEF Slab, BlocksAccounted, Holds, IsFree
  <2>2. OnePulsePerPin
    BY DEF Slab, OnePulsePerPin, Pending
  <2> QED
    BY <2>1, <2>2
<1> QED
  BY <1>1, BoardInvariant, PTL

\* A pending pulse goes only by its time, by a command to a pin that remembers its
\* block, or with a block freed twice: pulse_trigger takes no pulse's block, even
\* from an exhausted slab.
THEOREM PulseStaysHolds == BoardSpec => PulseStays
<1> DEFINE Stays(b) ==
             \/ io'.event[b].scheduled /\ io'.event[b].pin = io.event[b].pin
             \/ Wake /\ io.event[b].left <= since
             \/ io'.corrupt
             \/ \E frame \in Frames :
                   /\ Command(frame)
                   /\ \E pin \in Pins :
                         io.pev[pin] = b /\ Carried(frame)[pin] \in PulseCommands
<1>1. ASSUME BoardInv, [BoardNext]_boardVars, NEW b \in Pending(io)
      PROVE  Stays(b)
  <2> DEFINE pin == io.event[b].pin
  <2>1. /\ io \in PulseIo /\ b \in Blocks /\ io.event[b].scheduled
        /\ pin \in Pins /\ io.event[b].left \in Nat /\ since \in Nat
    BY <1>1, BoardFacts, IoType DEF BoardInv, Pending
  <2>2. CASE io'.event = io.event
    BY <2>1, <2>2
  <2>3. ASSUME NEW sent \in Frames, Command(sent)
        PROVE  Stays(b)
    <3> SUFFICES ASSUME ~io'.corrupt,
                        \A other \in Pins : io.pev[other] = b =>
                           Carried(sent)[other] \notin PulseCommands
                 PROVE  io'.event[b].scheduled /\ io'.event[b].pin = pin
      BY <2>3
    <3>1. InOrder /\ Slab(io) /\ (Spared(Carried(sent), pin) => Kept(io, io', pin))
      BY <1>1, <2>1, <2>3, CommandDoes DEF InOrder
    <3>2. io.pev[pin] = b /\ On(io, pin)
      BY <2>1, <3>1, PulseAssumption DEF Slab, On
    <3>3. io'.event[b] = io.event[b]
      BY <3>1, <3>2 DEF Spared, Kept
    <3> QED
      BY <2>1, <3>3
  <2>4. CASE Wake
    BY <1>1, <2>1, <2>4, WakeDoes
  <2>5. ASSUME NEW config \in Configs, WriteConfig(config)
        PROVE  io'.event = io.event
    BY <2>1, <2>5 DEF WriteConfig, PulseIo
  <2>6. CASE Sleep \/ BoardTick \/ UNCHANGED boardVars
    BY <2>2, <2>6 DEF Sleep, BoardTick, boardVars
  <2> QED
    BY <1>1, <2>2, <2>3, <2>4, <2>5, <2>6 DEF BoardNext
<1>2. BoardInv /\ [BoardNext]_boardVars => [\A b \in Pending(io) : Stays(b)]_boardVars
  BY <1>1
<1> HIDE DEF Stays
<1>3. BoardSpec => [][\A b \in Pending(io) : Stays(b)]_boardVars
  BY <1>2, BoardInvariant, PTL DEF BoardSpec
<1> QED
  BY <1>3 DEF PulseStays, Stays

\* No frame frees a block twice but one that commands the pulse of a pin that remembers
\* a block and has no pulse in it: the pulse ended by itself, or was taken from it.
THEOREM FreedTwiceAfterEndHolds == BoardSpec => FreedTwiceAfterEnd
<1> DEFINE AfterEnd ==
             io'.corrupt =>
                \E frame \in Frames :
                   /\ Command(frame)
                   /\ \E pin \in Pins :
                         Carried(frame)[pin] \in PulseCommands /\ ~Owned(pin)
<1>1. ASSUME BoardInv, BoardNext
      PROVE  AfterEnd
  <2>1. ASSUME NEW sent \in Frames, Command(sent), io'.corrupt
        PROVE  \E pin \in Pins : Carried(sent)[pin] \in PulseCommands /\ ~Owned(pin)
    <3>1. ~Clean(Carried(sent))
      BY <1>1, <2>1, CommandDoes
    <3> QED
      BY <3>1 DEF Clean, On, Owned
  <2>2. ~io.corrupt
    BY <1>1 DEF BoardNext, Command, WriteConfig, Sleep, Wake, BoardTick
  <2>3. ASSUME NEW config \in Configs, WriteConfig(config)
        PROVE  ~io'.corrupt
    BY <1>1, <2>2, <2>3, BoardFacts DEF BoardInv, WriteConfig, PulseIo
  <2>4. CASE Sleep \/ BoardTick
    BY <2>2, <2>4 DEF Sleep, BoardTick
  <2>5. CASE Wake
    BY <1>1, <2>5, WakeDoes DEF Slab
  <2> QED
    BY <1>1, <2>1, <2>3, <2>4, <2>5 DEF BoardNext
<1>2. BoardInv /\ [BoardNext]_boardVars => [AfterEnd]_boardVars
  BY <1>1
<1> HIDE DEF AfterEnd
<1>3. BoardSpec => [][AfterEnd]_boardVars
  BY <1>2, BoardInvariant, PTL DEF BoardSpec
<1> QED
  BY <1>3 DEF FreedTwiceAfterEnd, AfterEnd

\* A pulse outlasts its duration by no more than a turn of the main loop and the
\* lateness of its wake-up, as long as no block was freed twice.
THEOREM PulseNotLateHolds == BoardSpec => []PulseNotLate
<1>1. BoardInv => PulseNotLate
  <2> SUFFICES ASSUME BoardInv, NEW pin \in Pins, ~io.corrupt, HasPulse(pin)
               PROVE  age[pin] <= due[pin] + MaxBusy + MaxLate
    BY DEF PulseNotLate
  <2>1. BoardTypeOK /\ InOrder /\ On(io, pin) /\ Owes(pin)
    BY PulseIsOn DEF BoardInv, InOrder
  <2>2. PICK b \in Blocks : b = io.pev[pin] /\ b \in Pending(io) /\ io.event[b].left \in Nat
    BY <2>1, BoardFacts DEF On, Pending
  <2>3. PICK left \in Nat : left = io.event[b].left
    BY <2>2
  <2>4. /\ age[pin] + left <= due[pin] + since
        /\ age[pin] \in Nat /\ due[pin] \in Nat /\ since \in Nat /\ wait \in Int
        /\ MaxBusy \in Nat /\ MaxLate \in Nat
    BY <2>1, <2>2, <2>3, BoardFacts, BoardAssumption DEF Owes
  <2>5. CASE awake
    BY <2>1, <2>4, <2>5 DEF InOrder, InTime
  <2>6. CASE ~awake
    <3>1. -MaxLate <= wait /\ since + wait <= left + MaxBusy
      BY <2>1, <2>2, <2>3, <2>6 DEF InOrder, InTime
    <3> QED
      BY <2>4, <3>1
  <2> QED
    BY <2>5, <2>6
<1> QED
  BY <1>1, BoardInvariant, PTL

\* A pulse that pulse_process ends lasted its duration, less at most the turn that
\* began it.
THEOREM PulseNotShortHolds == BoardSpec => PulseNotShort
<1> DEFINE Long == Wake => \A pin \in EndingPins(io, since) : age[pin] + MaxBusy >= due[pin]
<1>1. BoardInv => Long
  <2> SUFFICES ASSUME BoardInv, Wake, NEW b \in Expiring(io, since)
               PROVE  age[io.event[b].pin] + MaxBusy >= due[io.event[b].pin]
    BY DEF EndingPins
  <2>1. BoardTypeOK /\ InOrder /\ Slab(io)
    BY DEF BoardInv, InOrder, Wake
  <2> DEFINE pin == io.event[b].pin
  <2>2. /\ b \in Blocks /\ io.event[b].scheduled /\ io.event[b].left <= since
        /\ io.event[b].left \in Nat /\ pin \in Pins
    BY <2>1, BoardFacts, IoType DEF Expiring, Pending
  <2>3. io.pev[pin] = b /\ On(io, pin)
    BY <2>1, <2>2, PulseAssumption DEF Slab, On
  <2> HIDE DEF pin
  <2>4. PICK left \in Nat : left = io.event[b].left /\ left <= since
    BY <2>2
  <2>5. /\ age[pin] \in Nat /\ due[pin] \in Nat /\ since \in Nat /\ MaxBusy \in Nat
    BY <2>1, <2>2, BoardFacts, BoardAssumption
  <2>6. due[pin] + since <= age[pin] + left + MaxBusy
    BY <2>1, <2>2, <2>3, <2>4 DEF InOrder, Owes
  <2> QED
    BY <2>4, <2>5, <2>6 DEF pin
<1>2. BoardSpec => [][Long]_boardVars
  BY <1>1, BoardInvariant, PTL
<1> QED
  BY <1>2 DEF PulseNotShort

\* A pulse commanded on a pin whose pulse is pending takes place: pulse_cancel gives
\* back the block that pulse_trigger takes, though other pins of the frame may come
\* first and the slab be exhausted.
THEOREM RetriggerSucceedsHolds == BoardSpec => []RetriggerSucceeds
<1>1. BoardInv => RetriggerSucceeds
  BY DEF BoardInv, InOrder, RetriggerSucceeds
<1> QED
  BY <1>1, BoardInvariant, PTL
=============================================================================
