-------------------------------- MODULE Shell --------------------------------
(***************************************************************************)
(* The developers' shell (shell.c): the interrupt of the serial line puts  *)
(* each character in a queue, and shell_process carries them out one by    *)
(* one, either in every turn of the main loop or, offloaded, as a work     *)
(* item.  A semaphore keeps the interrupt from submitting that item when   *)
(* it has been already; it is given back after every character.            *)
(***************************************************************************)
EXTENDS Naturals, Sequences

CONSTANTS
    Offloaded,   \* CONFIG_SHELL_WORKQ_OFFLOADED
    Capacity     \* size of shell_msgq

ASSUME ShellAssumption ==
    /\ Offloaded \in BOOLEAN
    /\ Capacity \in Nat \ {0}

VARIABLES
    chars,      \* shell_msgq
    submitted,  \* shell_work is queued
    idle,       \* shell_sem can be taken
    doing       \* where shell_process is

shellVars == <<chars, submitted, idle, doing>>

\* A character that resets the board, and all others.
Keys   == {"RESET", "OTHER"}
Places == {"AWAY", "GET", "DO", "RESET"}

-----------------------------------------------------------------------------
ShellInit ==
    /\ chars = <<>>
    /\ submitted = FALSE /\ idle = TRUE
    /\ doing = "AWAY"

\* SHELL_USART_RX_vect: a full queue drops the character.
Type(key) ==
    /\ doing # "RESET"
    /\ IF Len(chars) = Capacity THEN UNCHANGED <<chars, submitted, idle>>
       ELSE /\ chars' = Append(chars, key)
            /\ submitted' = (submitted \/ (Offloaded /\ idle))
            /\ idle' = (idle /\ ~Offloaded)
    /\ UNCHANGED doing

\* shell_handler is run by the workqueue, or shell_process by the main loop.
ShellBegin ==
    /\ doing = "AWAY"
    /\ Offloaded => submitted
    /\ submitted' = FALSE
    /\ doing' = "GET"
    /\ UNCHANGED <<chars, idle>>

\* The next character; platform_reset(false) does not return.
ShellGet ==
    /\ doing = "GET"
    /\ IF chars = <<>> THEN doing' = "AWAY" /\ UNCHANGED chars
       ELSE /\ chars' = Tail(chars)
            /\ doing' = IF Head(chars) = "RESET" THEN "RESET" ELSE "DO"
    /\ UNCHANGED <<submitted, idle>>

\* Bug: with one for every character, the loop is left after the first.
ShellDoneLeaves ==
    /\ doing = "DO"
    /\ doing' = "AWAY"
    /\ idle' = TRUE
    /\ UNCHANGED <<chars, submitted>>

\* It is carried out, the semaphore is given back, and others run (k_yield).
ShellDone ==
    /\ doing = "DO"
    /\ doing' = "GET"
    /\ idle' = TRUE
    /\ UNCHANGED <<chars, submitted>>

\* The board restarts.
ShellRestart ==
    /\ doing = "RESET"
    /\ chars' = <<>>
    /\ submitted' = FALSE /\ idle' = TRUE
    /\ doing' = "AWAY"

ShellNext ==
    \/ \E key \in Keys : Type(key)
    \/ ShellBegin \/ ShellGet \/ ShellDone \/ ShellRestart

ShellSpec == ShellInit /\ [][ShellNext]_shellVars

-----------------------------------------------------------------------------
(* Properties *)

ShellTypeOK ==
    /\ chars \in Seq(Keys)
    /\ {submitted, idle} \subseteq BOOLEAN
    /\ doing \in Places

\* Offloaded, no character waits for the next one to be typed: either the item is
\* queued or it is on its way through the characters.  And when it is neither the
\* interrupt can take the semaphore, whatever came while it ran.
ShellWakes ==
    Offloaded /\ doing = "AWAY" /\ ~submitted => chars = <<>> /\ idle
=============================================================================
