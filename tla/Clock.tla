------------------------------- MODULE Clock -------------------------------
(***************************************************************************)
(* The clock of the event loop: a timer runs when it is due, before time   *)
(* goes on, and an answer from outside may come at any time.               *)
(***************************************************************************)
EXTENDS Integers

VARIABLE clock

\* Time passes unless something has to happen first: a timer that is due, or
\* what runs without leaving the event loop.  limit is a bound.
Advance(limit, busy, dues) ==
  /\ clock < limit
  /\ ~busy
  /\ \A due \in dues : due > clock
  /\ clock' = clock + 1
=============================================================================
