----------------------------- MODULE RequestLog -----------------------------
(* internal/store/sqlite: one table of requests, and the reports drawn from  *)
(* it (internal/report, internal/savings). The database orders times as the  *)
(* texts they are stored as. A row is [id, ts, model, prompt, completion,    *)
(* cost]; the columns that no sum is about are left out.                     *)
EXTENDS WallClock, Prices

CONSTANTS TicksPerDay,
          QueryLimit        \* the Limit that savings.Compute asks for

ASSUME RequestLogAssumption ==
    /\ TicksPerDay \in Nat \ {0} /\ TicksPerDay % TicksPerSecond = 0
    /\ QueryLimit \in Nat \ {0}

VARIABLE rows

\* RFC3339Nano leaves trailing zeros out, and "." comes before "Z": in the
\* order of texts a whole second comes after all the fractions of it. A tick is
\* one unit of the only digit shown.
Text(t) == LET fraction == Fraction(t)
           IN  t - fraction + (IF fraction = 0 THEN TicksPerSecond ELSE fraction) - 1

\* INSERT fails on an id the table holds: id is the primary key.
IsStored(e) == \E r \in rows : r.id = e.id
Insert(e) == rows' = IF IsStored(e) THEN rows ELSE rows \cup {e}

\* WHERE ts >= since
Since(since) == {r \in rows : Text(r.ts) >= Text(since)}

CostOf(entries) == SumFunction([r \in entries |-> r.cost])

\* ORDER BY ts DESC LIMIT: any choice of rows such that none left out is newer.
Query(since, limit) ==
    LET found == Since(since)
    IN  IF Cardinality(found) <= limit THEN {found}
        ELSE {some \in kSubset(limit, found) :
                \A r \in some, s \in found \ some : Text(r.ts) >= Text(s.ts)}

Group(entries) == [count |-> Cardinality(entries), cost |-> CostOf(entries),
                   prompt |-> SumFunction([r \in entries |-> r.prompt]),
                   completion |-> SumFunction([r \in entries |-> r.completion])]

AggregateByModel(since) ==
    [m \in {r.model : r \in Since(since)} |-> Group({r \in Since(since) : r.model = m})]

Day(r) == r.ts \div TicksPerDay
AggregateByDay(since) ==
    [d \in {Day(r) : r \in Since(since)} |-> Group({r \in Since(since) : Day(r) = d})]

\* The line TOTAL of a report by model, and the sum of its lines by day.
Total(groups) == [count |-> SumFunction([g \in DOMAIN groups |-> groups[g].count]),
                  cost |-> SumFunction([g \in DOMAIN groups |-> groups[g].cost])]

\* Mutant: All is taken to be sorted with the dearest first.
mostExpensive_First == IF All = <<>> THEN "" ELSE Head(All)

mostExpensive == IF All = <<>> THEN "" ELSE Last(All)

\* savings.Compute: what the rows cost, and what they would have cost at the
\* price of one table entry, by default that of mostExpensive.
Compute(since, baseline) ==
    {[count |-> Cardinality(found), actual |-> CostOf(found),
      baseline |-> SumFunction([r \in found |-> Price(baseline, r.prompt, r.completion)])] :
        found \in Query(since, QueryLimit)}
=============================================================================
