---------------------------- MODULE KernelEvents ----------------------------
(***************************************************************************)
(* The two kernel objects every actuator driver of the firmware is built   *)
(* from: the one-shot timer event (k_event) and the work item (k_work) run *)
(* by the system workqueue.  The kernel, AVRTOS, is a library outside this *)
(* repository: these operators say what the drivers rely on.               *)
(*                                                                         *)
(*   - an event is unscheduled, or has a number of ticks left to run;      *)
(*     scheduling one that is scheduled already changes nothing; when it   *)
(*     expires the timer interrupt unschedules it and calls its handler;   *)
(*   - a work item is idle, or queued since a number of ticks; submitting  *)
(*     one that is queued already changes nothing.                         *)
(*                                                                         *)
(* The kernel is cooperative: a work item, or the main thread, runs to its *)
(* next blocking call without being preempted by another thread, but the   *)
(* timer interrupt may come between any two of them.  Order between two    *)
(* queued items is left open, so that nothing depends on it.               *)
(***************************************************************************)
EXTENDS Integers

Unscheduled == -1
EventTime   == Nat \cup {Unscheduled}

\* k_event_schedule: no effect when the event is scheduled already.
Schedule(ev, delay) == IF ev = Unscheduled THEN delay ELSE ev

\* k_event_cancel: a work item the event already submitted stays queued.
Cancel(ev) == Unscheduled

Expired(ev) == ev = 0

\* One tick of kernel time for an event that has not expired.
Elapse(ev) == IF ev = Unscheduled THEN ev ELSE ev - 1

Idle      == -1
WorkState == Nat \cup {Idle}

\* k_work_submit: no effect when the item is queued already.
Submit(work) == IF work = Idle THEN 0 ELSE work

\* One tick of waiting in the workqueue.
Wait(work) == IF work = Idle THEN work ELSE work + 1
=============================================================================
