----------------------------- MODULE WallClock -----------------------------
(* The clock where its seconds show: in a Retry-After and in a stored time.  *)
EXTENDS Clock

CONSTANT TicksPerSecond

ASSUME WallClockAssumption == TicksPerSecond \in Nat \ {0}

\* int(d.Seconds()), of a duration that is not negative; and what it cuts off.
WholeSeconds(d) == d \div TicksPerSecond
Fraction(t) == t % TicksPerSecond
=============================================================================
