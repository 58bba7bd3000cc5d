---------------------------- MODULE BudgetProofs ----------------------------
(* The budget tracker for any number of handlers, any limits, costs and days.*)
(* BooksInv says what the figures are worth: never more than was spent, and  *)
(* until a restart exactly that, with the alerts that go with it. On it rests*)
(* the bound of what a day can cost.                                         *)
EXTENDS Budget, FiniteSetTheorems, TLAPS

\* The number of a day's month is a number of a day.
LEMMA MonthType == \A d \in Day : Month(d) \in Day
<1> SUFFICES ASSUME NEW d \in Nat, d <= MaxDay PROVE d \div DaysPerMonth \in 0 .. MaxDay
  BY BudgetAssumption DEF Month, Day
<1>1. \A a \in Nat, b \in Nat \ {0} : a \div b \in Nat /\ a \div b <= a
  BY SMTT(60)
<1> QED
  BY <1>1, BudgetAssumption

\* A quotient grows with what is divided.
LEMMA QuotientGrows ==
    ASSUME NEW n \in Nat \ {0}, NEW a \in Nat, NEW b \in Nat, a <= b
    PROVE  a \div n <= b \div n
<1> DEFINE p == a \div n
           q == b \div n
<1>1. /\ p \in Int /\ q \in Int
      /\ n * p <= a /\ a < n * p + n
      /\ n * q <= b /\ b < n * q + n
  BY SMTT(60)
<1> HIDE DEF p, q
<1>2. ASSUME q < p PROVE FALSE
  <2>1. q + 1 <= p
    BY <1>1, <1>2
  <2>2. \A x, y \in Int : x <= y => n * x <= n * y
    BY SMTT(60)
  <2>3. n * (q + 1) <= n * p
    BY <1>1, <2>1, <2>2
  <2>4. n * (q + 1) = n * q + n
    BY <1>1, SMTT(60)
  <2>5. n * p \in Int /\ n * q \in Int
    BY <1>1
  <2> QED
    BY <1>1, <2>3, <2>4, <2>5
<1> QED
  BY <1>1, <1>2 DEF p, q

\* Months follow each other as their days do.
LEMMA MonthGrows == \A a, b \in Day : a <= b => Month(a) <= Month(b)
BY QuotientGrows, BudgetAssumption DEF Month, Day

\* Rolling yields a tracker state, and one that stands at today.
LEMMA RolledType ==
    ASSUME TypeOK
    PROVE  /\ RolledState \in States
           /\ RolledState.day = today /\ RolledState.month = Month(today)
           /\ RolledState.month \in Day
           /\ RolledState.daily = IF state.day = today THEN state.daily ELSE 0
           /\ RolledState.monthly = IF state.month = Month(today) THEN state.monthly ELSE 0
           /\ RolledState.total = state.total
           /\ RolledFired \subseteq AlertKeys
BY MonthType DEF TypeOK, RolledState, RolledFired, States, Period

\* A file's contents, or a new tracker.
LEMMA LoadedType ==
    ASSUME TypeOK PROVE Loaded \in States
BY DEF TypeOK, Loaded, Files, States, Fresh, Period, never

\* Adding a cost to a tracker state gives a tracker state.
LEMMA ChargedType ==
    ASSUME NEW s \in States, NEW cost \in Nat
    PROVE  /\ Charged(s, cost) \in States
           /\ Charged(s, cost).day = s.day /\ Charged(s, cost).month = s.month
           /\ Charged(s, cost).daily = s.daily + cost
           /\ Charged(s, cost).monthly = s.monthly + cost
           /\ Charged(s, cost).total = s.total + cost
BY DEF States, Charged

\* Record adds the cost to the rolled figures.
LEMMA RecordType ==
    ASSUME TypeOK, NEW h \in Handlers, NEW cost \in 1 .. MaxCost, Record(h, cost)
    PROVE  /\ state' \in States
           /\ state'.day = today /\ state'.month = Month(today)
           /\ state'.daily = RolledState.daily + cost
           /\ state'.monthly = RolledState.monthly + cost
           /\ state'.total = RolledState.total + cost
           /\ fired' \subseteq AlertKeys
           /\ ledger' \in Ledgers /\ alerts' \in [AlertKeys -> [Day -> Nat]]
           /\ ledger'.total = ledger.total + cost
           /\ \A d \in Day : ledger'.daily[d] =
                                ledger.daily[d] + IF d = today THEN cost ELSE 0
           /\ \A p \in Day : ledger'.monthly[p] =
                                ledger.monthly[p] + IF p = Month(today) THEN cost ELSE 0
<1> DEFINE s == RolledState
           new == Charged(s, cost)
           due == {k \in AlertKeys \ RolledFired : Crossed(new, k)}
<1>1. /\ s \in States /\ s.day = today /\ s.month = Month(today)
      /\ RolledFired \subseteq AlertKeys /\ cost \in Nat
  BY RolledType, BudgetAssumption
<1>2. /\ state' = new /\ fired' = RolledFired \cup due
      /\ alerts' = [k \in AlertKeys |->
                        IF k \in due THEN [alerts[k] EXCEPT ![PeriodOf(new, k[1])] = @ + 1]
                        ELSE alerts[k]]
      /\ ledger' = [ledger EXCEPT !.daily[today] = @ + cost,
                                  !.monthly[Month(today)] = @ + cost,
                                  !.total = @ + cost]
  BY DEF Record
<1> HIDE DEF s, due
<1>3. /\ state' \in States /\ state'.day = today /\ state'.month = Month(today)
      /\ state'.daily = s.daily + cost /\ state'.monthly = s.monthly + cost
      /\ state'.total = s.total + cost
  BY <1>1, <1>2, ChargedType
<1>4. /\ ledger' \in Ledgers
      /\ ledger'.daily = [ledger.daily EXCEPT ![today] = @ + cost]
      /\ ledger'.monthly = [ledger.monthly EXCEPT ![Month(today)] = @ + cost]
      /\ ledger'.total = ledger.total + cost
  <2>1. /\ ledger \in Ledgers /\ ledger.daily \in [Day -> Nat]
        /\ ledger.monthly \in [Day -> Nat] /\ ledger.total \in Nat
        /\ today \in Day /\ Month(today) \in Day
    BY MonthType DEF TypeOK, Ledgers
  <2>2. /\ [ledger.daily EXCEPT ![today] = @ + cost] \in [Day -> Nat]
        /\ [ledger.monthly EXCEPT ![Month(today)] = @ + cost] \in [Day -> Nat]
        /\ ledger.total + cost \in Nat
    BY <1>1, <2>1
  <2> QED
    BY <1>2, <2>1, <2>2 DEF Ledgers
<1>5. alerts' \in [AlertKeys -> [Day -> Nat]]
  <2> SUFFICES ASSUME NEW k \in AlertKeys, NEW d
               PROVE  [alerts[k] EXCEPT ![d] = @ + 1] \in [Day -> Nat]
    BY <1>2 DEF TypeOK
  <2>1. alerts[k] \in [Day -> Nat]
    BY DEF TypeOK
  <2>2. CASE d \in Day
    BY <2>1, <2>2
  <2>3. CASE d \notin Day
    BY <2>1, <2>3
  <2> QED
    BY <2>2, <2>3
<1>6. fired' \subseteq AlertKeys
  BY <1>1, <1>2 DEF due
<1>7. /\ ledger.daily \in [Day -> Nat] /\ ledger.monthly \in [Day -> Nat]
      /\ today \in Day /\ Month(today) \in Day
  BY MonthType DEF TypeOK, Ledgers
<1>8. /\ \A d \in Day : ledger'.daily[d] = ledger.daily[d] + IF d = today THEN cost ELSE 0
      /\ \A p \in Day : ledger'.monthly[p] =
                           ledger.monthly[p] + IF p = Month(today) THEN cost ELSE 0
  BY <1>1, <1>4, <1>7
<1> QED
  BY <1>3, <1>4, <1>5, <1>6, <1>8 DEF s

LEMMA InitTypes == Init => TypeOK
<1> SUFFICES ASSUME Init PROVE TypeOK
  OBVIOUS
<1>1. /\ NoneYet \in [Day -> Nat] /\ 0 \in Day
      /\ Fresh \in States /\ absent \in Files
  BY BudgetAssumption DEF NoneYet, Day, Fresh, States, Files, Period, never, absent
<1> QED
  BY <1>1, BudgetAssumption DEF Init, TypeOK, Ledgers

\* The tracker's figures, the alert marks, the file, whatever was on it, and the
\* histories keep their types across days, snapshots and restarts.
THEOREM TypeCorrect == Spec => []TypeOK
<1>1. Init => TypeOK
  BY InitTypes
<1>2. TypeOK /\ [Next]_vars => TypeOK'
  <2> SUFFICES ASSUME TypeOK, [Next]_vars PROVE TypeOK'
    OBVIOUS
  <2>1. ASSUME NEW h \in Handlers, Admit(h) PROVE TypeOK'
    BY <2>1, RolledType DEF Admit, TypeOK
  <2>2. ASSUME NEW h \in Handlers, Refuse(h) PROVE TypeOK'
    BY <2>2, RolledType DEF Refuse, TypeOK
  <2>3. ASSUME NEW h \in Handlers, FinishFree(h) PROVE TypeOK'
    BY <2>3 DEF FinishFree, TypeOK
  <2>4. ASSUME NEW h \in Handlers, NEW cost \in 1 .. MaxCost, Record(h, cost) PROVE TypeOK'
    BY <2>4, RecordType DEF Record, TypeOK
  <2>5. CASE BeginSave
    BY <2>5, RolledType DEF BeginSave, TypeOK, Saved, Files, torn, Fresh, States, Period, never
  <2>6. CASE EndSave
    BY <2>6 DEF EndSave, TypeOK, absent, Files, Fresh, States, Period, never
  <2>7. CASE Crash
    BY <2>7, LoadedType DEF Crash, TypeOK, absent, Files, Fresh, States, Period, never
  <2>8. CASE NewDay
    BY <2>8, BudgetAssumption DEF NewDay, TypeOK, Day
  <2>9. CASE UNCHANGED vars
    BY <2>9 DEF TypeOK, vars
  <2> QED
    BY <2>1, <2>2, <2>3, <2>4, <2>5, <2>6, <2>7, <2>8, <2>9 DEF Next
<1> QED
  BY <1>1, <1>2, PTL DEF Spec
-----------------------------------------------------------------------------
MonthOf(day) == IF day = never THEN never ELSE Month(day)

\* Figures that claim no more than was spent in their day and month: the
\* tracker's, and those of every snapshot of it that a restart may read.
Honest(s) ==
    /\ s.month = MonthOf(s.day)
    /\ s.day # never => /\ s.daily <= ledger.daily[s.day]
                        /\ s.monthly <= ledger.monthly[s.month]

\* Until a restart the figures are exact, nothing has been spent since they
\* were last rolled, and the marks are those of the thresholds reached.
Exact ==
    /\ state.day <= today
    /\ IF state.day = never
       THEN state.daily = 0 /\ state.monthly = 0
       ELSE state.daily = ledger.daily[state.day] /\ state.monthly = ledger.monthly[state.month]
    /\ state.total = ledger.total
    /\ \A d \in Day : d > state.day => ledger.daily[d] = 0
    /\ \A p \in Day : p > state.month => ledger.monthly[p] = 0
    /\ fired = {k \in AlertKeys : Crossed(state, k)}

BooksInv ==
    /\ TypeOK
    /\ Honest(state) /\ Honest(saving.state) /\ Honest(file.state)
    /\ crashes = 0 => Exact /\ AlertsMatch

\* The types of the parts.
LEMMA Types ==
    ASSUME TypeOK
    PROVE  /\ today \in Day /\ Month(today) \in Day
           /\ state.day \in Period /\ state.month \in Period
           /\ state.daily \in Nat /\ state.monthly \in Nat /\ state.total \in Nat
           /\ ledger.daily \in [Day -> Nat] /\ ledger.monthly \in [Day -> Nat]
           /\ ledger.total \in Nat
BY MonthType DEF TypeOK, States, Ledgers

\* A threshold is not reached before anything is spent.
LEMMA NothingCrosses ==
    ASSUME NEW k \in AlertKeys, NEW spent, spent = 0
    PROVE  ~(PeriodLimit(k[1]) > 0 /\ spent * 100 >= PeriodLimit(k[1]) * k[2])
<1>1. PeriodLimit(k[1]) \in Nat /\ k[2] \in Nat \ {0}
  BY BudgetAssumption DEF AlertKeys, PeriodLimit
<1>2. \A a \in Nat \ {0}, b \in Nat \ {0} : a * b > 0
  BY SMTT(60)
<1>3. PeriodLimit(k[1]) * k[2] \in Nat
  BY <1>1
<1> QED
  BY <1>1, <1>2, <1>3

\* Once reached a threshold stays reached while its period lasts.
LEMMA CrossedStays ==
    ASSUME NEW s \in States, NEW cost \in Nat, NEW k \in AlertKeys, Crossed(s, k)
    PROVE  Crossed(Charged(s, cost), k)
<1> DEFINE need == PeriodLimit(k[1]) * k[2]
           a == Spent(s, k[1])
           b == Spent(Charged(s, cost), k[1])
<1>1. PeriodLimit(k[1]) \in Nat /\ k[2] \in Nat
  BY BudgetAssumption DEF AlertKeys, PeriodLimit
<1>2. need \in Nat
  BY <1>1
<1>3. a \in Nat /\ b = a + cost
  BY ChargedType DEF Spent, States
<1>4. a * 100 >= need
  BY DEF Crossed
<1> HIDE DEF need, a, b
<1>5. b * 100 >= need
  BY <1>2, <1>3, <1>4
<1> QED
  BY <1>5 DEF Crossed, need, b

\* Rolling keeps the figures exact: what a new day or month clears is that of
\* another, in which nothing has been spent yet.
LEMMA RollsExactly ==
    ASSUME TypeOK, Honest(state), Exact
    PROVE  /\ RolledState.daily = ledger.daily[today]
           /\ RolledState.monthly = ledger.monthly[Month(today)]
           /\ RolledState.total = ledger.total
           /\ \A d \in Day : d > today => ledger.daily[d] = 0
           /\ \A p \in Day : p > Month(today) => ledger.monthly[p] = 0
           /\ RolledFired = {k \in AlertKeys : Crossed(RolledState, k)}
<1>1. state.day \in Day => Month(state.day) <= Month(today) /\ Month(state.day) \in Day
  BY Types, MonthType, MonthGrows DEF Exact
<1>2. /\ state.day < today \/ state.day = today
      /\ state.month < Month(today) \/ state.month = Month(today)
  BY <1>1, Types DEF Exact, Honest, MonthOf, Period, Day, never
<1>3. /\ RolledState.daily = ledger.daily[today]
      /\ \A d \in Day : d > today => ledger.daily[d] = 0
  BY <1>2, Types, RolledType DEF Exact, Period, Day, never
<1>4. /\ RolledState.monthly = ledger.monthly[Month(today)]
      /\ \A p \in Day : p > Month(today) => ledger.monthly[p] = 0
  <2>1. CASE state.month = Month(today)
    <3>1. state.day # never
      BY <2>1, Types DEF Honest, MonthOf, Day, never
    <3> QED
      BY <2>1, <3>1, Types, RolledType DEF Exact
  <2>2. CASE state.month < Month(today)
    <3>1. \A p \in Day : p >= Month(today) => ledger.monthly[p] = 0
      BY <2>2, Types DEF Exact, Period, Day, never
    <3>2. RolledState.monthly = 0
      BY <2>2, Types, RolledType DEF Period, Day, never
    <3> QED
      BY <3>1, <3>2, Types DEF Day
  <2> QED
    BY <1>2, <2>1, <2>2
<1>5. ASSUME NEW k \in AlertKeys PROVE k \in RolledFired <=> Crossed(RolledState, k)
  <2>1. k[1] = "daily" \/ k[1] = "monthly"
    BY DEF AlertKeys
  <2>2. k \in fired <=> Crossed(state, k)
    BY DEF Exact
  <2>3. CASE PeriodOf(state, k[1]) = IF k[1] = "daily" THEN today ELSE Month(today)
    <3>1. Spent(RolledState, k[1]) = Spent(state, k[1])
      BY <2>1, <2>3, RolledType DEF Spent, PeriodOf
    <3>2. k \in RolledFired <=> k \in fired
      BY <2>1, <2>3 DEF RolledFired, PeriodOf
    <3> QED
      BY <2>2, <3>1, <3>2 DEF Crossed
  <2>4. CASE PeriodOf(state, k[1]) # IF k[1] = "daily" THEN today ELSE Month(today)
    <3>1. Spent(RolledState, k[1]) = 0
      BY <2>1, <2>4, RolledType DEF Spent, PeriodOf
    <3>2. k \notin RolledFired
      BY <2>1, <2>4 DEF RolledFired, PeriodOf
    <3> QED
      BY <3>1, <3>2, NothingCrosses DEF Crossed
  <2> QED
    BY <2>3, <2>4
<1>6. RolledFired \subseteq AlertKeys
  BY RolledType
<1> QED
  BY <1>3, <1>4, <1>5, <1>6, RolledType DEF Exact

LEMMA RollsHonestly ==
    ASSUME TypeOK, Honest(state)
    PROVE  Honest(RolledState)
<1>1. /\ state.day # never => /\ state.daily <= ledger.daily[state.day]
                              /\ state.monthly <= ledger.monthly[state.month]
      /\ state.month = Month(today) => state.day # never
  BY Types DEF Honest, MonthOf, Day, never
<1>2. RolledState.daily <= ledger.daily[today]
  <2>1. CASE state.day = today
    BY <1>1, <2>1, Types, RolledType DEF Day, never
  <2>2. CASE state.day # today
    BY <2>2, Types, RolledType
  <2> QED
    BY <2>1, <2>2
<1>3. RolledState.monthly <= ledger.monthly[Month(today)]
  <2>1. CASE state.month = Month(today)
    BY <1>1, <2>1, Types, RolledType
  <2>2. CASE state.month # Month(today)
    BY <2>2, Types, RolledType
  <2> QED
    BY <2>1, <2>2
<1> QED
  BY <1>2, <1>3, Types, RolledType DEF Honest, MonthOf, Day, never

\* A step that only rolls the tracker keeps the books.
LEMMA RollKeepsBooks ==
    ASSUME BooksInv, state' = RolledState, fired' = RolledFired,
           UNCHANGED <<today, ledger, alerts, crashes>>
    PROVE  Honest(state)' /\ (crashes' = 0 => Exact' /\ AlertsMatch')
<1>1. TypeOK /\ Honest(state) /\ (crashes = 0 => Exact /\ AlertsMatch)
  BY DEF BooksInv
<1>2. Honest(state)'
  BY <1>1, RollsHonestly DEF Honest
<1>3. ASSUME crashes = 0 PROVE Exact'
  <2>1. /\ RolledState.daily = ledger.daily[today]
        /\ RolledState.monthly = ledger.monthly[Month(today)]
        /\ RolledState.total = ledger.total
        /\ \A d \in Day : d > today => ledger.daily[d] = 0
        /\ \A p \in Day : p > Month(today) => ledger.monthly[p] = 0
        /\ RolledFired = {k \in AlertKeys : Crossed(RolledState, k)}
    BY <1>1, <1>3, RollsExactly
  <2>2. RolledState.day = today /\ RolledState.month = Month(today)
        /\ today \in Int /\ today # never
    BY <1>1, Types, RolledType DEF Day, never
  <2> HIDE DEF RolledState
  <2> QED
    BY <2>1, <2>2 DEF Exact, Crossed, Spent
<1>4. AlertsMatch' <=> AlertsMatch
  BY DEF AlertsMatch, SpentIn
<1> QED
  BY <1>1, <1>2, <1>3, <1>4

\* A charge keeps honest what was.
LEMMA ChargeKeepsHonest ==
    ASSUME TypeOK, NEW s \in States, Honest(s),
           NEW h \in Handlers, NEW cost \in 1 .. MaxCost, Record(h, cost)
    PROVE  s.day # never => /\ s.daily <= ledger'.daily[s.day]
                            /\ s.monthly <= ledger'.monthly[s.month]
<1>1. cost \in Nat /\ s.daily \in Nat /\ s.monthly \in Nat
  BY BudgetAssumption DEF States
<1> SUFFICES ASSUME s.day # never
             PROVE  /\ s.daily <= ledger'.daily[s.day]
                    /\ s.monthly <= ledger'.monthly[s.month]
  OBVIOUS
<1>2. s.day \in Day /\ s.month \in Day
  BY MonthType DEF Honest, MonthOf, States, Period
<1>3. /\ ledger.daily[s.day] \in Nat /\ ledger.monthly[s.month] \in Nat
      /\ s.daily <= ledger.daily[s.day] /\ s.monthly <= ledger.monthly[s.month]
  BY <1>2, Types DEF Honest
<1>4. /\ ledger'.daily[s.day] \in {ledger.daily[s.day], ledger.daily[s.day] + cost}
      /\ ledger'.monthly[s.month] \in {ledger.monthly[s.month], ledger.monthly[s.month] + cost}
  BY <1>1, <1>2, <1>3, RecordType
<1> QED
  BY <1>1, <1>3, <1>4

\* A charge raises the figures and the ledger alike.
LEMMA RecordKeepsExact ==
    ASSUME TypeOK, Honest(state), Exact,
           NEW h \in Handlers, NEW cost \in 1 .. MaxCost, Record(h, cost)
    PROVE  Exact'
<1>1. /\ RolledState.daily = ledger.daily[today]
      /\ RolledState.monthly = ledger.monthly[Month(today)]
      /\ RolledState.total = ledger.total
      /\ \A d \in Day : d > today => ledger.daily[d] = 0
      /\ \A p \in Day : p > Month(today) => ledger.monthly[p] = 0
      /\ RolledFired = {k \in AlertKeys : Crossed(RolledState, k)}
  BY RollsExactly
<1>2. /\ state'.day = today /\ state'.month = Month(today)
      /\ state'.daily = RolledState.daily + cost
      /\ state'.monthly = RolledState.monthly + cost
      /\ state'.total = RolledState.total + cost
      /\ ledger'.total = ledger.total + cost
      /\ \A d \in Day : ledger'.daily[d] = ledger.daily[d] + IF d = today THEN cost ELSE 0
      /\ \A p \in Day : ledger'.monthly[p] =
                           ledger.monthly[p] + IF p = Month(today) THEN cost ELSE 0
  BY RecordType
<1>3. /\ state'.daily = ledger'.daily[today] /\ state'.monthly = ledger'.monthly[Month(today)]
      /\ \A d \in Day : d > today => ledger'.daily[d] = 0
      /\ \A p \in Day : p > Month(today) => ledger'.monthly[p] = 0
  <2>1. /\ today \in Day /\ Month(today) \in Day
        /\ \A d \in Day : ledger.daily[d] \in Nat /\ ledger.monthly[d] \in Nat
    BY Types
  <2>2. \A d \in Day : d \in Int
    BY DEF Day
  <2> QED
    BY <1>1, <1>2, <2>1, <2>2
<1>4. fired' = {k \in AlertKeys : Crossed(state', k)}
  <2>1. /\ state' = Charged(RolledState, cost)
        /\ fired' = RolledFired \cup {k \in AlertKeys \ RolledFired : Crossed(state', k)}
    BY DEF Record
  <2>2. RolledState \in States /\ cost \in Nat
    BY RolledType, BudgetAssumption
  <2>3. \A k \in RolledFired : k \in AlertKeys /\ Crossed(state', k)
    BY <1>1, <2>1, <2>2, CrossedStays
  <2> QED
    BY <2>1, <2>3
<1>5. today' = today /\ today \in Int /\ today # never
  BY Types DEF Record, Day, never
<1> QED
  BY <1>1, <1>2, <1>3, <1>4, <1>5 DEF Exact, Crossed, Spent

\* A charge reports each threshold it reaches, once, in the period it reaches
\* it in.
LEMMA RecordKeepsAlerts ==
    ASSUME TypeOK, Honest(state), Exact, AlertsMatch, crashes = 0,
           NEW h \in Handlers, NEW cost \in 1 .. MaxCost, Record(h, cost)
    PROVE  AlertsMatch'
<1> DEFINE new == Charged(RolledState, cost)
           due == {k \in AlertKeys \ RolledFired : Crossed(new, k)}
           at(k) == IF k[1] = "daily" THEN today ELSE Month(today)
           before(k, p) == SpentIn(k[1], p) * 100 >= PeriodLimit(k[1]) * k[2]
<1> SUFFICES ASSUME NEW k \in AlertKeys, NEW p \in Day
             PROVE  alerts'[k][p] =
                      IF PeriodLimit(k[1]) > 0
                           /\ SpentIn(k[1], p)' * 100 >= PeriodLimit(k[1]) * k[2]
                      THEN 1 ELSE 0
  BY DEF AlertsMatch
<1>1. /\ state' = new /\ new \in States /\ RolledState \in States /\ cost \in Nat
      /\ new.day = today /\ new.month = Month(today)
      /\ new.daily = RolledState.daily + cost /\ new.monthly = RolledState.monthly + cost
  <2>1. /\ RolledState \in States /\ cost \in Nat
        /\ RolledState.day = today /\ RolledState.month = Month(today)
    BY RolledType, BudgetAssumption
  <2>2. state' = new
    BY DEF Record
  <2> QED
    BY <2>1, <2>2, ChargedType
<1>2. /\ alerts \in [AlertKeys -> [Day -> Nat]]
      /\ alerts' = [j \in AlertKeys |->
                        IF j \in due THEN [alerts[j] EXCEPT ![PeriodOf(new, j[1])] = @ + 1]
                        ELSE alerts[j]]
  BY DEF Record, TypeOK
<1>3. PeriodOf(new, k[1]) = at(k) /\ (k[1] = "daily" \/ k[1] = "monthly")
  BY <1>1 DEF PeriodOf, AlertKeys
<1>4. alerts[k] \in [Day -> Nat] /\ at(k) \in Day
  BY <1>2, Types
<1>5. /\ RolledState.daily = ledger.daily[today]
      /\ RolledState.monthly = ledger.monthly[Month(today)]
      /\ RolledFired = {j \in AlertKeys : Crossed(RolledState, j)}
  BY RollsExactly
<1>6. alerts[k][p] = IF PeriodLimit(k[1]) > 0
                          /\ SpentIn(k[1], p) * 100 >= PeriodLimit(k[1]) * k[2]
                     THEN 1 ELSE 0
  BY DEF AlertsMatch
<1>7. /\ \A d \in Day : ledger'.daily[d] = ledger.daily[d] + IF d = today THEN cost ELSE 0
      /\ \A d \in Day : ledger'.monthly[d] =
                           ledger.monthly[d] + IF d = Month(today) THEN cost ELSE 0
      /\ \A d \in Day : ledger.daily[d] \in Nat /\ ledger.monthly[d] \in Nat
  BY RecordType, Types
<1>8. /\ k \in due <=> k \notin RolledFired /\ Crossed(new, k)
      /\ k \in RolledFired <=> Crossed(RolledState, k)
      /\ Crossed(RolledState, k) => Crossed(new, k)
  BY <1>1, <1>5, CrossedStays
<1> HIDE DEF due, new
<1>9. CASE p = at(k)
  <2>1. alerts'[k][p] = IF k \in due THEN alerts[k][p] + 1 ELSE alerts[k][p]
    BY <1>2, <1>3, <1>4, <1>9
  <2>2. /\ SpentIn(k[1], p) = Spent(RolledState, k[1])
        /\ SpentIn(k[1], p)' = Spent(new, k[1])
    BY <1>1, <1>3, <1>4, <1>5, <1>7, <1>9 DEF SpentIn, Spent
  <2>3. alerts[k][p] = IF Crossed(RolledState, k) THEN 1 ELSE 0
    BY <1>6, <2>2 DEF Crossed
  <2>4. alerts'[k][p] = IF Crossed(new, k) THEN 1 ELSE 0
    BY <1>8, <2>1, <2>3
  <2> QED
    BY <2>2, <2>4 DEF Crossed
<1>10. CASE p # at(k)
  <2>1. alerts'[k][p] = alerts[k][p]
    BY <1>2, <1>3, <1>4, <1>10
  <2>2. SpentIn(k[1], p)' = SpentIn(k[1], p)
    BY <1>3, <1>7, <1>10 DEF SpentIn
  <2> QED
    BY <1>6, <2>1, <2>2
<1> QED
  BY <1>9, <1>10

LEMMA InitBooks == Init => BooksInv
<1> SUFFICES ASSUME Init PROVE BooksInv
  OBVIOUS
<1>1. TypeOK /\ crashes = 0 /\ today \in Day
  BY InitTypes DEF Init, TypeOK
<1>2. /\ state = Fresh /\ saving.state = Fresh /\ file.state = Fresh /\ fired = {}
      /\ ledger = [daily |-> NoneYet, monthly |-> NoneYet, total |-> 0]
      /\ alerts = [k \in AlertKeys |-> NoneYet] /\ today = 0
  BY DEF Init, absent
<1>3. Honest(state) /\ Honest(saving.state) /\ Honest(file.state)
  BY <1>2 DEF Honest, Fresh, MonthOf
<1>4. Exact
  <2>1. \A k \in AlertKeys : ~Crossed(state, k)
    BY <1>2, NothingCrosses DEF Crossed, Spent, Fresh
  <2> QED
    BY <1>2, <2>1 DEF Exact, Fresh, NoneYet, never
<1>5. AlertsMatch
  <2> SUFFICES ASSUME NEW k \in AlertKeys, NEW p \in Day
               PROVE  alerts[k][p] = 0
                      /\ ~(PeriodLimit(k[1]) > 0 /\ SpentIn(k[1], p) * 100 >= PeriodLimit(k[1]) * k[2])
    BY DEF AlertsMatch
  <2>1. SpentIn(k[1], p) = 0 /\ alerts[k][p] = 0
    BY <1>2 DEF SpentIn, NoneYet
  <2> QED
    BY <2>1, NothingCrosses
<1> QED
  BY <1>1, <1>3, <1>4, <1>5 DEF BooksInv

\* A day that begins with nothing spent.
LEMMA NewDayKeepsBooks ==
    ASSUME BooksInv, NewDay
    PROVE  Honest(state)' /\ (crashes' = 0 => Exact' /\ AlertsMatch')
<1>1. /\ TypeOK /\ Honest(state) /\ (crashes = 0 => Exact /\ AlertsMatch)
      /\ UNCHANGED <<state, fired, ledger, alerts, crashes>> /\ today' = today + 1
  BY DEF BooksInv, NewDay
<1>2. state.day <= today => state.day <= today + 1
  BY <1>1, Types DEF Period, Day, never
<1> QED
  BY <1>1, <1>2 DEF Honest, Exact, Crossed, AlertsMatch, SpentIn

\* Every charge, rollover, snapshot, restart and new day keeps the books.
LEMMA StepBooks == BooksInv /\ TypeOK' /\ [Next]_vars => BooksInv'
<1> SUFFICES ASSUME BooksInv, TypeOK', [Next]_vars PROVE BooksInv'
  OBVIOUS
<1>1. /\ TypeOK /\ Honest(state) /\ Honest(saving.state) /\ Honest(file.state)
      /\ (crashes = 0 => Exact /\ AlertsMatch)
  BY DEF BooksInv
<1>2. Honest(Fresh)' /\ absent.state = Fresh /\ torn.state = Fresh
  BY DEF Honest, Fresh, MonthOf, absent, torn
<1>3. ASSUME ledger' = ledger, NEW s, Honest(s) PROVE Honest(s)'
  BY <1>3 DEF Honest
<1>4. ASSUME NEW h \in Handlers, Admit(h) \/ Refuse(h) PROVE BooksInv'
  <2>1. /\ state' = RolledState /\ fired' = RolledFired
        /\ UNCHANGED <<today, ledger, alerts, crashes, saving, file>>
    BY <1>4 DEF Admit, Refuse
  <2>2. Honest(saving.state)' /\ Honest(file.state)'
    BY <1>1, <2>1 DEF Honest
  <2> QED
    BY <2>1, <2>2, RollKeepsBooks DEF BooksInv
<1>5. CASE BeginSave
  <2>1. /\ state' = RolledState /\ fired' = RolledFired
        /\ saving'.state = RolledState /\ file'.state = Fresh
        /\ UNCHANGED <<today, ledger, alerts, crashes>>
    BY <1>5 DEF BeginSave, Saved, torn
  <2>2. Honest(state)' /\ (crashes' = 0 => Exact' /\ AlertsMatch')
    BY <2>1, RollKeepsBooks
  <2>3. Honest(saving.state)'
    BY <2>1, <2>2 DEF Honest
  <2>4. Honest(file.state)'
    BY <1>2, <2>1 DEF Honest
  <2> QED
    BY <2>2, <2>3, <2>4 DEF BooksInv
<1>6. ASSUME NEW h \in Handlers, NEW cost \in 1 .. MaxCost, Record(h, cost) PROVE BooksInv'
  <2>1. UNCHANGED <<saving, file, crashes>>
    BY <1>6 DEF Record
  <2>2. saving.state \in States /\ file.state \in States
    BY <1>1 DEF TypeOK, Files
  <2>3. Honest(saving.state)' /\ Honest(file.state)'
    BY <1>1, <1>6, <2>1, <2>2, ChargeKeepsHonest DEF Honest
  <2>4. Honest(state)'
    <3>1. /\ RolledState \in States /\ RolledState.day = today /\ RolledState.month = Month(today)
          /\ RolledState.daily <= ledger.daily[today]
          /\ RolledState.monthly <= ledger.monthly[Month(today)]
          /\ RolledState.daily \in Nat /\ RolledState.monthly \in Nat
          /\ today \in Day /\ Month(today) \in Day /\ today # never
      BY <1>1, Types, RolledType, RollsHonestly DEF Honest, Day, never, States
    <3>2. /\ ledger.daily[today] \in Nat /\ ledger.monthly[Month(today)] \in Nat /\ cost \in Nat
      BY <1>1, Types, BudgetAssumption
    <3>3. /\ state'.day = today /\ state'.month = Month(today)
          /\ state'.daily = RolledState.daily + cost
          /\ state'.monthly = RolledState.monthly + cost
          /\ ledger'.daily[today] = ledger.daily[today] + cost
          /\ ledger'.monthly[Month(today)] = ledger.monthly[Month(today)] + cost
      BY <1>1, <1>6, <3>1, RecordType
    <3> HIDE DEF RolledState
    <3> QED
      BY <3>1, <3>2, <3>3 DEF Honest, MonthOf
  <2>5. crashes' = 0 => Exact' /\ AlertsMatch'
    BY <1>1, <1>6, <2>1, RecordKeepsExact, RecordKeepsAlerts
  <2> QED
    BY <2>3, <2>4, <2>5 DEF BooksInv
<1>7. CASE Crash
  <2>1. /\ state' = Loaded /\ saving' = absent /\ UNCHANGED <<file, ledger>>
        /\ crashes' = crashes + 1 /\ crashes \in Nat
    BY <1>1, <1>7 DEF Crash, TypeOK
  <2>2. Honest(file.state)' /\ Honest(saving.state)'
    BY <1>1, <1>2, <2>1 DEF Honest
  <2>3. Honest(state)'
    BY <1>2, <2>1, <2>2 DEF Honest, Loaded
  <2> QED
    BY <2>1, <2>2, <2>3 DEF BooksInv
<1>8. CASE NewDay
  <2>1. UNCHANGED <<saving, file, ledger>>
    BY <1>8 DEF NewDay
  <2>2. Honest(saving.state)' /\ Honest(file.state)'
    BY <1>1, <2>1 DEF Honest
  <2> QED
    BY <1>8, <2>2, NewDayKeepsBooks DEF BooksInv
<1>9. CASE EndSave \/ (\E h \in Handlers : FinishFree(h)) \/ UNCHANGED vars
  <2>1. /\ UNCHANGED <<today, state, fired, ledger, alerts, crashes>>
        /\ \/ saving' = saving /\ file' = file
           \/ saving' = absent /\ file' = saving
    BY <1>9 DEF EndSave, FinishFree, vars
  <2>2. Honest(state)' /\ (crashes' = 0 => Exact' /\ AlertsMatch')
    BY <1>1, <2>1 DEF Honest, Exact, Crossed, AlertsMatch, SpentIn
  <2>3. Honest(saving.state)' /\ Honest(file.state)'
    BY <1>1, <1>2, <2>1 DEF Honest
  <2> QED
    BY <2>2, <2>3 DEF BooksInv
<1> QED
  BY <1>4, <1>5, <1>6, <1>7, <1>8, <1>9 DEF Next

\* The books hold in every state, snapshots and restarts included.
THEOREM BooksHold == Spec => []BooksInv
BY InitBooks, StepBooks, TypeCorrect, PTL DEF Spec

\* The figures are those of the ledger until a restart: no charge is lost,
\* counted twice or kept past its period, whoever sees the new day first.
THEOREM BooksBalanceHolds == Spec => []BooksBalance
<1>1. BooksInv => BooksBalance
  BY DEF BooksInv, BooksBalance, Exact, Honest, MonthOf
<1> QED
  BY <1>1, BooksHold, PTL

\* A tracker restarted from any snapshot, or from none, never holds more against
\* a period than was spent in it.
THEOREM NeverOverchargesHolds == Spec => []NeverOvercharges
<1>1. BooksInv => NeverOvercharges
  BY DEF BooksInv, NeverOvercharges, Honest
<1> QED
  BY <1>1, BooksHold, PTL

\* Each threshold reached is reported once in its period, and no other is.
THEOREM AlertsMatchHolds == Spec => []AlertsMatch
<1>1. BooksInv => AlertsMatch
  BY DEF BooksInv, AlertsMatch
<1> QED
  BY <1>1, BooksHold, PTL
-----------------------------------------------------------------------------
\* What the handlers in flight may still cost.
Exposure(handlers) == MaxCost * Cardinality(handlers)

\* OverspendBounded is not inductive: it says nothing of what is yet to come.
\* What is spent today and what is in flight are bounded together.
IInv ==
    BooksInv /\ ((DailyLimit > 0 /\ crashes = 0) =>
        /\ \A d \in Day : ledger.daily[d] < DailyLimit + Exposure(Handlers)
        /\ state.daily + Exposure(inFlight) < DailyLimit + Exposure(Handlers))

\* What the handlers in flight can still cost is at most MaxCost for each handler.
LEMMA ExposureBounds ==
    ASSUME NEW hs \in SUBSET Handlers
    PROVE  /\ Exposure(hs) \in Nat /\ Exposure(Handlers) \in Nat
           /\ Exposure(hs) <= Exposure(Handlers)
           /\ \A h \in hs : Exposure(hs \ {h}) = Exposure(hs) - MaxCost
<1>1. /\ IsFiniteSet(hs) /\ Cardinality(hs) \in Nat /\ Cardinality(Handlers) \in Nat
      /\ Cardinality(hs) <= Cardinality(Handlers)
  BY BudgetAssumption, FS_Subset, FS_CardinalityType
<1>2. \A h \in hs : Cardinality(hs \ {h}) = Cardinality(hs) - 1
  BY <1>1, FS_RemoveElement
<1>3. /\ \A a, b \in Nat : a <= b => MaxCost * a <= MaxCost * b
      /\ \A a \in Nat : MaxCost * a \in Nat /\ MaxCost * (a - 1) = MaxCost * a - MaxCost
  BY BudgetAssumption
<1> QED
  BY <1>1, <1>2, <1>3 DEF Exposure

\* A new tracker has spent nothing, and nobody is in flight.
LEMMA InitIInv == Init => IInv
<1> SUFFICES ASSUME Init PROVE IInv
  OBVIOUS
<1>1. BooksInv
  BY InitBooks
<1>2. Exposure({}) = 0 /\ Exposure(Handlers) \in Nat
  BY FS_EmptySet, ExposureBounds, BudgetAssumption DEF Exposure
<1> QED
  BY <1>1, <1>2, BudgetAssumption DEF Init, IInv, Fresh, NoneYet

\* A step that only rolls the tracker.
LEMMA RollKeepsIInv ==
    ASSUME IInv, BooksInv', state' = RolledState, UNCHANGED <<ledger, crashes>>,
           inFlight' \subseteq Handlers,
           \/ inFlight' = inFlight
           \/ Within(DailyLimit, RolledState.daily)
    PROVE  IInv'
<1> SUFFICES ASSUME DailyLimit > 0, crashes = 0
             PROVE  RolledState.daily + Exposure(inFlight') < DailyLimit + Exposure(Handlers)
  BY DEF IInv, Exposure
<1>1. /\ RolledState.daily = (IF state.day = today THEN state.daily ELSE 0)
      /\ state.daily \in Nat
  BY RolledType, Types DEF IInv, BooksInv
<1>2. /\ Exposure(inFlight) \in Nat /\ Exposure(inFlight') \in Nat
      /\ Exposure(Handlers) \in Nat /\ Exposure(inFlight') <= Exposure(Handlers)
  BY ExposureBounds DEF IInv, BooksInv, TypeOK
<1>3. CASE inFlight' = inFlight
  BY <1>1, <1>2, <1>3, BudgetAssumption DEF IInv
<1>4. CASE Within(DailyLimit, RolledState.daily)
  BY <1>1, <1>2, <1>4, BudgetAssumption DEF Within
<1> QED
  BY <1>3, <1>4

\* Record: what was in flight becomes what is spent.
LEMMA RecordKeepsIInv ==
    ASSUME IInv, BooksInv', NEW h \in Handlers, NEW cost \in 1 .. MaxCost, Record(h, cost)
    PROVE  IInv'
<1> SUFFICES ASSUME DailyLimit > 0, crashes = 0
             PROVE  /\ \A d \in Day : ledger'.daily[d] < DailyLimit + Exposure(Handlers)
                    /\ state'.daily + Exposure(inFlight') < DailyLimit + Exposure(Handlers)
  BY DEF IInv, Exposure, Record
<1>1. /\ TypeOK /\ Honest(state) /\ Exact /\ inFlight \subseteq Handlers /\ h \in inFlight
      /\ inFlight' = inFlight \ {h}
  BY DEF IInv, BooksInv, Record, TypeOK
<1>2. /\ cost \in Nat /\ cost <= MaxCost /\ MaxCost \in Nat /\ DailyLimit \in Nat
      /\ state.daily \in Nat /\ today \in Day /\ ledger.daily[today] \in Nat
  BY <1>1, BudgetAssumption, Types
<1>3. /\ RolledState.daily = (IF state.day = today THEN state.daily ELSE 0)
      /\ RolledState.daily = ledger.daily[today]
  BY <1>1, RolledType, RollsExactly
<1>4. /\ state'.daily = RolledState.daily + cost
      /\ \A d \in Day : ledger'.daily[d] = ledger.daily[d] + IF d = today THEN cost ELSE 0
  BY <1>1, RecordType
<1>5. /\ Exposure(inFlight) \in Nat /\ Exposure(inFlight') = Exposure(inFlight) - MaxCost
      /\ Exposure(inFlight') \in Nat /\ Exposure(Handlers) \in Nat
  BY <1>1, ExposureBounds
<1>6. state'.daily + Exposure(inFlight') < DailyLimit + Exposure(Handlers)
  BY <1>2, <1>3, <1>4, <1>5 DEF IInv
<1>7. ledger'.daily[today] < DailyLimit + Exposure(Handlers)
  BY <1>2, <1>3, <1>4, <1>5, <1>6
<1>8. ASSUME NEW d \in Day, d # today
      PROVE  ledger'.daily[d] < DailyLimit + Exposure(Handlers)
  <2>1. ledger.daily[d] \in Nat
    BY <1>1, Types
  <2>2. ledger'.daily[d] = ledger.daily[d]
    BY <1>4, <1>8, <2>1
  <2> QED
    BY <2>2 DEF IInv
<1> QED
  BY <1>6, <1>7, <1>8

\* Every step of a handler, of SaveTo, of the calendar and every crash keeps IInv.
LEMMA StepIInv == IInv /\ BooksInv' /\ [Next]_vars => IInv'
<1> SUFFICES ASSUME IInv, BooksInv', [Next]_vars PROVE IInv'
  OBVIOUS
<1>1. ASSUME NEW h \in Handlers, Admit(h) PROVE IInv'
  BY <1>1, RollKeepsIInv DEF Admit, MaySpend, IInv, BooksInv, TypeOK
<1>2. ASSUME NEW h \in Handlers, Refuse(h) PROVE IInv'
  BY <1>2, RollKeepsIInv DEF Refuse, IInv, BooksInv, TypeOK
<1>3. ASSUME NEW h \in Handlers, FinishFree(h) PROVE IInv'
  <2>1. inFlight \subseteq Handlers /\ state.daily \in Nat
    BY Types DEF IInv, BooksInv, TypeOK
  <2>2. /\ Exposure(inFlight') = Exposure(inFlight) - MaxCost
        /\ Exposure(inFlight) \in Nat /\ Exposure(Handlers) \in Nat
    BY <1>3, <2>1, ExposureBounds DEF FinishFree
  <2>3. ASSUME DailyLimit > 0, crashes = 0
        PROVE  state.daily + Exposure(inFlight') < DailyLimit + Exposure(Handlers)
    BY <2>1, <2>2, <2>3, BudgetAssumption DEF IInv
  <2>4. UNCHANGED <<state, ledger, crashes>>
    BY <1>3 DEF FinishFree
  <2> QED
    BY <2>3, <2>4 DEF IInv, Exposure
<1>4. ASSUME NEW h \in Handlers, NEW cost \in 1 .. MaxCost, Record(h, cost) PROVE IInv'
  BY <1>4, RecordKeepsIInv
<1>5. CASE BeginSave
  BY <1>5, RollKeepsIInv DEF BeginSave, IInv, BooksInv, TypeOK
<1>6. CASE EndSave \/ NewDay \/ UNCHANGED vars
  BY <1>6 DEF EndSave, NewDay, vars, IInv, Exposure
<1>7. CASE Crash
  BY <1>7 DEF Crash, IInv, BooksInv, TypeOK
<1> QED
  BY <1>1, <1>2, <1>3, <1>4, <1>5, <1>6, <1>7 DEF Next

\* The gate checks and the charge comes later, yet no day costs more than its
\* limit and what every handler at once can add, until a restart.
THEOREM OverspendIsBounded == Spec => []OverspendBounded
<1>1. IInv => OverspendBounded
  BY DEF IInv, OverspendBounded, Exposure
<1> QED
  BY <1>1, InitIInv, StepIInv, BooksHold, PTL DEF Spec
=============================================================================
