----------------------------- MODULE MCShutter -----------------------------
(* Instances of Shutter for TLC. *)
EXTENDS Shutter

\* With Full = 4 and MinDiff = 2: closed, open, a value that is too close to
\* closed but far enough from open, and one past open.
AnyOpenness == {0, 1, 4, 5}

=============================================================================
