------------------------------ MODULE Mailbox ------------------------------
(***************************************************************************)
(* What a multi-instance device (dev.c) promises of the frames it is sent: *)
(* each is handled once at most, by the instance it is for, or gives way   *)
(* to a later one for the same instance.  Nothing is said of their order.  *)
(***************************************************************************)
EXTENDS Naturals

CONSTANT Instances

VARIABLES
    last,      \* frames are numbered as they arrive
    waiting,   \* per instance: the frames that wait for it
    handled    \* per instance: the frames it handled

mailVars == <<last, waiting, handled>>

MailboxInit ==
    /\ last = 0
    /\ waiting = [i \in Instances |-> {}]
    /\ handled = [i \in Instances |-> {}]

\* A frame for one of the instances, or for none of them.
Receive ==
    /\ last' = last + 1
    /\ \/ UNCHANGED waiting
       \/ \E i \in Instances : waiting' = [waiting EXCEPT ![i] = @ \cup {last'}]
    /\ UNCHANGED handled

Handle(i, n) ==
    /\ n \in waiting[i]
    /\ waiting' = [waiting EXCEPT ![i] = @ \ {n}]
    /\ handled' = [handled EXCEPT ![i] = @ \cup {n}]
    /\ UNCHANGED last

Supersede(i, n) ==
    /\ n \in waiting[i]
    /\ \E later \in waiting[i] : later > n
    /\ waiting' = [waiting EXCEPT ![i] = @ \ {n}]
    /\ UNCHANGED <<last, handled>>

MailboxNext ==
    \/ Receive
    \/ \E i \in Instances : \E n \in waiting[i] : Handle(i, n) \/ Supersede(i, n)

MailboxSpec == MailboxInit /\ [][MailboxNext]_mailVars
=============================================================================
