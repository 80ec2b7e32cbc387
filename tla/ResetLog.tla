------------------------------ MODULE ResetLog ------------------------------
(***************************************************************************)
(* What the persistent reset statistics (diag.c) promise: a counter per    *)
(* reset reason, and the contexts of the last resets, most recent first.   *)
(* A reset is recorded once and whole; nothing but a loss of everything,   *)
(* or a clear that was asked for, takes anything away, and what is read    *)
(* back is never made up or out of order.                                  *)
(***************************************************************************)
EXTENDS Integers, Sequences

CONSTANTS
    Reasons,    \* the reset reasons
    Unknown,    \* the one that is counted but not logged
    Depth,      \* contexts kept
    Modulus     \* counters are counted modulo this

VARIABLES log, count

logVars == <<log, count>>

Kept(s) == SubSeq(s, 1, IF Len(s) < Depth THEN Len(s) ELSE Depth)

ResetLogInit ==
    /\ log = <<>>
    /\ count = [r \in Reasons |-> 0]

\* Whatever the context is, it is put before the others.
Record(reason) ==
    /\ count' = [count EXCEPT ![reason] = (@ + 1) % Modulus]
    /\ IF reason = Unknown THEN UNCHANGED log
       ELSE /\ log' # <<>>
            /\ Head(log').reason = reason
            /\ log' = Kept(<<Head(log')>> \o log)

ClearCounts(S) ==
    /\ count' = [r \in Reasons |-> IF r \in S THEN 0 ELSE count[r]]
    /\ UNCHANGED log

Lose ==
    /\ log' = <<>>
    /\ count' = [r \in Reasons |-> 0]

ResetLogNext ==
    \/ \E reason \in Reasons : Record(reason)
    \/ \E S \in SUBSET Reasons : ClearCounts(S)
    \/ Lose

ResetLogSpec == ResetLogInit /\ [][ResetLogNext]_logVars
=============================================================================
