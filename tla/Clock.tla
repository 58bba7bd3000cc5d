------------------------------- MODULE Clock -------------------------------
(* time.Now as the trackers read it: a counter that other parties advance,   *)
(* at any moment between two of their steps.                                 *)
EXTENDS Integers

CONSTANT MaxTime            \* bound of the model: the last instant explored

ASSUME MaxTimeAssumption == MaxTime \in Nat

VARIABLE now

Time == 0 .. MaxTime

ClockInit == now = 0

Tick == /\ now < MaxTime
        /\ now' = now + 1
=============================================================================
