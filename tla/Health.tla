------------------------------- MODULE Health -------------------------------
(* health/health.go, Tracker: the failures of each model since its last      *)
(* success, and when the last one happened. Every method holds the mutex for *)
(* its whole body, so each is one operator. A model without a record behaves *)
(* exactly like one whose count is 0, so the map's domain is not kept.       *)
EXTENDS Clock, Upstream, Sequences, FiniteSets

CONSTANTS Cooldown,         \* Tracker.cooldown, in ticks
          MaxFailures       \* Tracker.maxFailures

ASSUME HealthAssumption == /\ Cooldown \in Nat
                           /\ MaxFailures \in Nat \ {0}

VARIABLES failures,         \* record.failures
          lastFailureAt     \* record.lastFailureAt

healthVars == <<failures, lastFailureAt>>

HealthTypeOK == /\ failures \in [Models -> Nat]
                /\ lastFailureAt \in [Models -> Nat]

HealthInit == /\ failures = [m \in Models |-> 0]
              /\ lastFailureAt = [m \in Models |-> 0]

CooledDown(m) == now - lastFailureAt[m] > Cooldown

\* Mutant: the last failure allowed already quarantines.
Available_OneEarly(m) == failures[m] < MaxFailures - 1 \/ CooledDown(m)

Available(m) == failures[m] < MaxFailures \/ CooledDown(m)

Score(m) == IF CooledDown(m) THEN 0 ELSE failures[m]

\* Mutant: the candidates that fail most come first.
Precedes_WorstFirst(candidates, a, b) ==
    LET x == Score(candidates[a])  y == Score(candidates[b])
    IN  x > y \/ (x = y /\ a < b)

\* Candidate a comes before candidate b: by score, ties as they were given.
Precedes(candidates, a, b) ==
    LET x == Score(candidates[a])  y == Score(candidates[b])
    IN  x < y \/ (x = y /\ a < b)

Place(candidates, a) ==
    1 + Cardinality({b \in DOMAIN candidates : Precedes(candidates, b, a)})

\* Order, a stable sort. The code reads the clock at each comparison; the model
\* once, so a cooldown that ends in the middle of a sort ends before or after it.
Order(candidates) ==
    [k \in DOMAIN candidates |->
        candidates[CHOOSE a \in DOMAIN candidates : Place(candidates, a) = k]]

RecordSuccess(m) == /\ failures' = [failures EXCEPT ![m] = 0]
                    /\ UNCHANGED lastFailureAt

RecordFailure(m) == /\ failures' = [failures EXCEPT ![m] = @ + 1]
                    /\ lastFailureAt' = [lastFailureAt EXCEPT ![m] = now]
=============================================================================
