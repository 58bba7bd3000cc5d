------------------------------- MODULE Budget -------------------------------
(* internal/budget/budget.go, Tracker, under the handlers that use it: each  *)
(* asks Allowed before it routes and calls Record, once its answer is known, *)
(* with what the answer cost. Every method of Tracker runs under its mutex.  *)
(* A crash loses the memory; a restart reads the file SaveTo wrote, if any.  *)
EXTENDS Integers, FiniteSets

CONSTANTS Handlers,         \* the handler goroutines
          DailyLimit,       \* Config.DailyLimitUSD, in units of cost; 0: none
          MonthlyLimit,     \* Config.MonthlyLimitUSD; 0: none
          Thresholds,       \* Config.AlertThresholds, in percent of a limit
          MaxCost,          \* the most one answer can cost
          DaysPerMonth,
          MaxDay,           \* bound of the model: the last day explored
          MaxCrashes        \* bound of the model

ASSUME BudgetAssumption ==
    /\ IsFiniteSet(Handlers)
    /\ DailyLimit \in Nat /\ MonthlyLimit \in Nat
    /\ MaxCost \in Nat /\ Thresholds \subseteq Nat \ {0}
    /\ DaysPerMonth \in Nat \ {0} /\ MaxDay \in Nat /\ MaxCrashes \in Nat

VARIABLES today,            \* NowFunc(), to the day
          state,            \* Tracker.state
          fired,            \* Tracker.fired: <<period, threshold>>
          inFlight,         \* the handlers past Allowed and before Record
          saving,           \* the snapshot SaveTo has taken and not yet written
          file,             \* the file SaveTo writes
          ledger,           \* history: really spent, by day, by month, in all
          alerts,           \* history: alerts sent, per key and period number
          crashes           \* history

vars == <<today, state, fired, inFlight, saving, file, ledger, alerts, crashes>>

Day == 0 .. MaxDay
never == -1                 \* the Day "" and Month "" of a new tracker
Month(d) == d \div DaysPerMonth
AlertKeys == {"daily", "monthly"} \X Thresholds
Fresh == [day |-> never, month |-> never, daily |-> 0, monthly |-> 0, total |-> 0]
NoneYet == [p \in Day |-> 0]
absent == [kind |-> "absent", state |-> Fresh]
torn == [kind |-> "torn", state |-> Fresh]
Saved(s) == [kind |-> "saved", state |-> s]
-----------------------------------------------------------------------------
\* Mutant: a new day leaves the daily figure as it is.
RolledState_Sticky ==
    [state EXCEPT !.day = today, !.month = Month(today),
                  !.monthly = IF state.month = Month(today) THEN @ ELSE 0]

\* rollIfStaleLocked: a new day clears the daily figure, a new month the
\* monthly one, each with the alerts of its period.
RolledState ==
    [state EXCEPT !.day = today, !.month = Month(today),
                  !.daily = IF state.day = today THEN @ ELSE 0,
                  !.monthly = IF state.month = Month(today) THEN @ ELSE 0]

\* Mutant: a new day forgets every alert.
RolledFired_All == IF state.day # today THEN {} ELSE fired

RolledFired == {k \in fired : \/ k[1] = "daily" /\ state.day = today
                              \/ k[1] = "monthly" /\ state.month = Month(today)}

\* Mutant: a budget spent to the last unit still admits.
Within_Inclusive(limit, spent) == limit > 0 => spent <= limit

Within(limit, spent) == limit > 0 => spent < limit
MaySpend(s) == Within(DailyLimit, s.daily) /\ Within(MonthlyLimit, s.monthly)

PeriodLimit(period) == IF period = "daily" THEN DailyLimit ELSE MonthlyLimit
Spent(s, period) == IF period = "daily" THEN s.daily ELSE s.monthly
PeriodOf(s, period) == IF period = "daily" THEN s.day ELSE s.month

\* The test of maybeAlertLocked, less its look at fired.
Crossed(s, k) == /\ PeriodLimit(k[1]) > 0
                 /\ Spent(s, k[1]) * 100 >= PeriodLimit(k[1]) * k[2]
-----------------------------------------------------------------------------
Init == /\ today = 0
        /\ state = Fresh /\ fired = {}
        /\ inFlight = {}
        /\ saving = absent /\ file = absent
        /\ ledger = [daily |-> NoneYet, monthly |-> NoneYet, total |-> 0]
        /\ alerts = [k \in AlertKeys |-> NoneYet]
        /\ crashes = 0

\* Allowed answers yes: the handler goes on to route and call.
Admit(h) ==
    /\ h \notin inFlight
    /\ state' = RolledState /\ fired' = RolledFired
    /\ MaySpend(RolledState)
    /\ inFlight' = inFlight \cup {h}
    /\ UNCHANGED <<today, saving, file, ledger, alerts, crashes>>

\* Allowed answers no: 402. The tracker has rolled all the same.
Refuse(h) ==
    /\ h \notin inFlight
    /\ state' = RolledState /\ fired' = RolledFired
    /\ ~MaySpend(RolledState)
    /\ UNCHANGED <<today, inFlight, saving, file, ledger, alerts, crashes>>

\* recordRequest with no cost to record: a stream, an error, a cached answer,
\* a model without a price.
FinishFree(h) ==
    /\ h \in inFlight
    /\ inFlight' = inFlight \ {h}
    /\ UNCHANGED <<today, state, fired, saving, file, ledger, alerts, crashes>>

Charged(s, cost) == [day |-> s.day, month |-> s.month, daily |-> s.daily + cost,
                     monthly |-> s.monthly + cost, total |-> s.total + cost]

\* Record: roll, add, and send each alert that has become due.
Record(h, cost) ==
    LET new == Charged(RolledState, cost)
        due == {k \in AlertKeys \ RolledFired : Crossed(new, k)}
    IN  /\ h \in inFlight /\ cost > 0
        /\ inFlight' = inFlight \ {h}
        /\ state' = new
        /\ fired' = RolledFired \cup due
        /\ alerts' = [k \in AlertKeys |->
                         IF k \in due
                         THEN [alerts[k] EXCEPT ![PeriodOf(new, k[1])] = @ + 1]
                         ELSE alerts[k]]
        /\ ledger' = [ledger EXCEPT !.daily[today] = @ + cost,
                                    !.monthly[Month(today)] = @ + cost,
                                    !.total = @ + cost]
        /\ UNCHANGED <<today, saving, file, crashes>>

\* SaveTo: the snapshot, then WriteFile, which truncates before it writes.
BeginSave ==
    /\ saving = absent
    /\ state' = RolledState /\ fired' = RolledFired
    /\ saving' = Saved(RolledState)
    /\ file' = torn
    /\ UNCHANGED <<today, inFlight, ledger, alerts, crashes>>

EndSave ==
    /\ saving # absent
    /\ file' = saving
    /\ saving' = absent
    /\ UNCHANGED <<today, state, fired, inFlight, ledger, alerts, crashes>>

\* Mutant: what the file holds is counted to today.
Loaded_AsToday ==
    IF file.kind = "saved" THEN [file.state EXCEPT !.day = today] ELSE Fresh

\* LoadFrom: a missing or unreadable file leaves the new tracker as it is.
Loaded == IF file.kind = "saved" THEN file.state ELSE Fresh

\* The process dies and serve starts again.
Crash ==
    /\ crashes < MaxCrashes
    /\ crashes' = crashes + 1
    /\ state' = Loaded /\ fired' = {}
    /\ inFlight' = {} /\ saving' = absent
    /\ UNCHANGED <<today, file, ledger, alerts>>

NewDay == /\ today < MaxDay
          /\ today' = today + 1
          /\ UNCHANGED <<state, fired, inFlight, saving, file, ledger, alerts, crashes>>

Next == \/ \E h \in Handlers : \/ Admit(h) \/ Refuse(h) \/ FinishFree(h)
                               \/ \E cost \in 1 .. MaxCost : Record(h, cost)
        \/ BeginSave \/ EndSave \/ Crash \/ NewDay

Spec == Init /\ [][Next]_vars
-----------------------------------------------------------------------------
Period == Day \cup {never}
States == [day : Period, month : Period, daily : Nat, monthly : Nat, total : Nat]
Ledgers == [daily : [Day -> Nat], monthly : [Day -> Nat], total : Nat]
Files == [kind : {"absent", "torn", "saved"}, state : States]

TypeOK ==
    /\ today \in Day
    /\ state \in States
    /\ fired \subseteq AlertKeys
    /\ inFlight \subseteq Handlers
    /\ saving \in Files /\ file \in Files
    /\ ledger \in Ledgers
    /\ alerts \in [AlertKeys -> [Day -> Nat]]
    /\ crashes \in Nat

\* Allowed and Record are two critical sections with the whole upstream call
\* between them, so a limit is overrun, but never by more than what the other
\* handlers in flight can still cost: MaxCost for each of them.
OverspendBounded ==
    (DailyLimit > 0 /\ crashes = 0) =>
        \A d \in Day : ledger.daily[d] < DailyLimit + MaxCost * Cardinality(Handlers)

\* The tracker's figures are those of the ledger: today's or an earlier day's,
\* that day's month, and the whole. No charge is lost, counted twice or kept
\* past the end of its period, whichever handler sees the new day first.
BooksBalance ==
    (crashes = 0 /\ state.day # never) =>
        /\ state.daily = ledger.daily[state.day]
        /\ state.month = Month(state.day) /\ state.monthly = ledger.monthly[state.month]
        /\ state.total = ledger.total

\* After a restart, from a snapshot of any age or from none, the tracker never
\* holds more against a period than was really spent in it.
NeverOvercharges ==
    state.day # never =>
        /\ state.daily <= ledger.daily[state.day]
        /\ state.monthly <= ledger.monthly[state.month]

\* Until a restart each threshold is reported once in every day, or month, whose
\* spending has reached it, and in no other, however charges, rollovers and
\* snapshots fall: rolling a period forgets its own marks and nothing else.
SpentIn(period, p) == IF period = "daily" THEN ledger.daily[p] ELSE ledger.monthly[p]
AlertsMatch ==
    crashes = 0 => \A k \in AlertKeys, p \in Day :
        alerts[k][p] = IF PeriodLimit(k[1]) > 0 /\ SpentIn(k[1], p) * 100 >= PeriodLimit(k[1]) * k[2]
                       THEN 1 ELSE 0
=============================================================================
