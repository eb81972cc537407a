------------------------------- MODULE Bounded -------------------------------
(***************************************************************************)
(* The work the outside world does in a behaviour: requests, failures,     *)
(* restarts and changes elsewhere.  The modules that count it extend this  *)
(* one; what the program does by itself is not counted and may go on for   *)
(* ever.                                                                   *)
(***************************************************************************)
EXTENDS Naturals

VARIABLE work

\* One more piece of work, of at most max.
Budget(max) == work < max /\ work' = work + 1
=============================================================================
