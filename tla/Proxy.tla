-------------------------------- MODULE Proxy --------------------------------
(* internal/proxy/server.go: a request from the middleware to its last       *)
(* record, and what the components it passes then say of it. Each component  *)
(* is its own module's: UserLimit, the Tracker of Budget, RequestLog; of the *)
(* prompt cache and the fallback loops only what they promise (ResponseStore,*)
(* Dispatch). A handler is a goroutine, and so is a worker of the loggerPool  *)
(* (worker.go); the steps of all of them interleave. How the pool is closed  *)
(* is LoggerPool's.                                                          *)
EXTENDS UserLimit, RequestLog

CONSTANTS Handlers,
          Workers,          \* loggerPool.worker: 4 goroutines
          Requests,         \* the requests clients send, see Request
          Keys,             \* cache.PromptKey of a request
          Routed,           \* the models the router may decide on
          Usages,           \* resp.Usage: [prompt, completion]
          Guarded,          \* Deps.AuthToken # ""
          MaxCost,          \* the most one answer can cost
          DailyLimit,       \* budget.Config.DailyLimitUSD; 0: none
          QueueSize,        \* the loggerPool's channel
          MaxArrivals,      \* bounds of the model
          MaxChats,
          Nothing

Paths == {"/health", "/v1/chat/completions", "/v1/models"}
chat == "/v1/chat/completions"

\* bearer: Authorization is "Bearer " and the right token; basic: it holds a
\* user name instead. The body is garbage, has no messages or has some.
Request == [path : Paths, bearer : BOOLEAN, basic : STRING, header : STRING, addr : STRING,
            body : {"garbage", "empty", "messages"}, stream : BOOLEAN, key : Keys]

userIDFromRequest(r) == IF r.basic # "" THEN r.basic
                        ELSE IF r.header # "" THEN r.header ELSE r.addr

noUsage == [prompt |-> 0, completion |-> 0]

ASSUME ProxyAssumption ==
    /\ \A r \in Requests : r \in Request /\ (r.bearer => r.basic = "")
    /\ \A r \in Requests : userIDFromRequest(r) \in Users
    /\ Usages \subseteq [prompt : Nat, completion : Nat]
    /\ MaxCost \in Nat
    /\ \A m \in Routed, u \in Usages \cup {noUsage} :
         Costs(m, u.prompt, u.completion) \subseteq 0 .. MaxCost
    /\ Guarded \in BOOLEAN /\ IsFiniteSet(Handlers) /\ IsFiniteSet(Workers)
    /\ DailyLimit \in Nat /\ QueueSize \in Nat /\ MaxArrivals \in Nat /\ MaxChats \in Nat

VARIABLES pc, req,          \* per handler: where it is, and its request
          bill,             \* per handler: what recordRequest writes down
          tracker,          \* budget.Tracker.state
          store,            \* the prompt cache, see ResponseStore
          metrics,          \* metrics.Collectors: requests by status and, of tier
                            \* "cached", apart; cost; cache hits and misses
          queue,            \* loggerPool.ch
          step, hand,       \* per worker: where it is, and its entry
          journal,          \* the JSONL file
          lost,             \* history: the entries the full queue refused
          failed,           \* history: the entries each store refused
          passed,           \* history: requests past the gate, by req.Stream
          unrouted,         \* history: requests that ended in a route error
          arrivals          \* history

handlerVars == <<pc, req, bill>>
workerVars == <<step, hand, journal, failed, rows>>
sinkVars == <<metrics, queue, lost, workerVars>>
countVars == <<passed, unrouted, arrivals>>
vars == <<limitVars, handlerVars, tracker, store, sinkVars, countVars>>
-----------------------------------------------------------------------------
PC == {"idle", "gate", "lookup", "hit", "cached", "miss", "route", "call",
       "charge", "observe", "meter", "submit"}
noBill == [model |-> "", status |-> "", prompt |-> 0, completion |-> 0, cost |-> 0]

zeroMetrics == [requests |-> [s \in {"ok", "error", "cached"} |-> 0],
                cost |-> 0, hits |-> 0, misses |-> 0]

\* The tracker under its handlers, in one day without a restart.
InFlight == {h \in Handlers :
                pc[h] \in {"lookup", "hit", "cached", "miss", "route", "call", "charge"}}
Books == INSTANCE Budget WITH
    MonthlyLimit <- 0, Thresholds <- {}, DaysPerMonth <- 1, MaxDay <- 0, MaxCrashes <- 0,
    today <- 0, state <- tracker, fired <- {}, inFlight <- InFlight,
    saving <- [kind |-> "absent", state |-> [day |-> -1, month |-> -1, daily |-> 0, monthly |-> 0, total |-> 0]],
    file <- [kind |-> "absent", state |-> [day |-> -1, month |-> -1, daily |-> 0, monthly |-> 0, total |-> 0]],
    ledger <- [daily |-> [d \in {0} |-> tracker.total], monthly |-> [d \in {0} |-> tracker.total],
               total |-> tracker.total],
    alerts <- [k \in {} |-> 0], crashes <- 0

Init == /\ LimitInit
        /\ pc = [h \in Handlers |-> "idle"]
        /\ req = [h \in Handlers |-> Nothing]
        /\ bill = [h \in Handlers |-> noBill]
        /\ tracker = Books!Fresh
        /\ store = [k \in Keys |-> Nothing]
        /\ metrics = zeroMetrics
        /\ queue = <<>> /\ journal = <<>> /\ lost = <<>> /\ rows = {}
        /\ step = [w \in Workers |-> "select"] /\ hand = [w \in Workers |-> Nothing]
        /\ failed = [sqlite |-> <<>>, jsonl |-> <<>>]
        /\ passed = [s \in BOOLEAN |-> 0] /\ unrouted = 0 /\ arrivals = 0

GoTo(h, l) == pc' = [pc EXCEPT ![h] = l]
Done(h) == GoTo(h, "idle") /\ req' = [req EXCEPT ![h] = Nothing] /\ bill' = [bill EXCEPT ![h] = noBill]
-----------------------------------------------------------------------------
Arrives(h) == /\ pc[h] = "idle" /\ arrivals < MaxArrivals
              /\ arrivals' = arrivals + 1
              /\ UNCHANGED <<tracker, store, sinkVars, passed, unrouted>>
Trusted(r) == ~Guarded \/ r.path = "/health" \/ r.bearer

\* authMiddleware comes before the limiter: a 401 uses up no admission.
TurnAway(h, r) == /\ Arrives(h) /\ ~Trusted(r)
                  /\ UNCHANGED <<limitVars, handlerVars>>

Throttle(h, r) == /\ Arrives(h) /\ Trusted(r)
                  /\ Refuse(userIDFromRequest(r))
                  /\ UNCHANGED handlerVars

\* The other endpoints, and a body that is refused with 400, end here: admitted,
\* counted by the limiter, and leaving nothing else behind.
IsChat(r) == r.path = chat /\ r.body = "messages"
Serve(h, r) == /\ Arrives(h) /\ Trusted(r) /\ ~IsChat(r)
               /\ Admit(userIDFromRequest(r))
               /\ UNCHANGED handlerVars

Begin(h, r) == /\ passed[TRUE] + passed[FALSE] < MaxChats
               /\ Arrives(h) /\ Trusted(r) /\ IsChat(r)
               /\ Admit(userIDFromRequest(r))
               /\ GoTo(h, "gate") /\ req' = [req EXCEPT ![h] = r]
               /\ UNCHANGED bill

\* Mutant: the gate is asked for batch requests only.
Gate_BatchOnly(h) ==
    /\ pc[h] = "gate"
    /\ tracker' = Books!RolledState
    /\ Books!MaySpend(Books!RolledState) \/ req[h].stream
    /\ passed' = [passed EXCEPT ![req[h].stream] = @ + 1]
    /\ GoTo(h, IF req[h].stream THEN "route" ELSE "lookup")
    /\ UNCHANGED <<limitVars, req, bill, store, sinkVars, unrouted, arrivals>>

\* Budget.Allowed; the prompt cache is for batch requests.
Gate(h) ==
    /\ pc[h] = "gate"
    /\ tracker' = Books!RolledState
    /\ Books!MaySpend(Books!RolledState)
    /\ passed' = [passed EXCEPT ![req[h].stream] = @ + 1]
    /\ GoTo(h, IF req[h].stream THEN "route" ELSE "lookup")
    /\ UNCHANGED <<limitVars, req, bill, store, sinkVars, unrouted, arrivals>>

\* 402
OverBudget(h) ==
    /\ pc[h] = "gate"
    /\ tracker' = Books!RolledState
    /\ ~Books!MaySpend(Books!RolledState)
    /\ Done(h)
    /\ UNCHANGED <<limitVars, store, sinkVars, countVars>>

\* A hit answers at once; two counters follow, and no recordRequest.
Hit(h) ==
    /\ pc[h] = "lookup"
    /\ store[req[h].key] # Nothing
    /\ GoTo(h, "hit")
    /\ UNCHANGED <<limitVars, req, bill, tracker, store, sinkVars, countVars>>

\* CacheHits.Inc
CountHit(h) ==
    /\ pc[h] = "hit"
    /\ metrics' = [metrics EXCEPT !.hits = @ + 1]
    /\ GoTo(h, "cached")
    /\ UNCHANGED <<limitVars, req, bill, tracker, store, queue, lost, workerVars, countVars>>

\* Metrics.Observe of tier "cached", at no cost.
ObserveHit(h) ==
    /\ pc[h] = "cached"
    /\ metrics' = [metrics EXCEPT !.requests["cached"] = @ + 1]
    /\ Done(h)
    /\ UNCHANGED <<limitVars, tracker, store, queue, lost, workerVars, countVars>>

\* The cache may have dropped the entry, or do so now.
Miss(h) ==
    /\ pc[h] = "lookup"
    /\ store' = [store EXCEPT ![req[h].key] = Nothing]
    /\ GoTo(h, "miss")
    /\ UNCHANGED <<limitVars, req, bill, tracker, sinkVars, countVars>>

\* CacheMisses.Inc
CountMiss(h) ==
    /\ pc[h] = "miss"
    /\ metrics' = [metrics EXCEPT !.misses = @ + 1]
    /\ GoTo(h, "route")
    /\ UNCHANGED <<limitVars, req, bill, tracker, store, queue, lost, workerVars, countVars>>

Route(h, m) ==
    /\ pc[h] = "route"
    /\ GoTo(h, "call") /\ bill' = [bill EXCEPT ![h].model = m]
    /\ UNCHANGED <<limitVars, req, tracker, store, sinkVars, countVars>>

\* Mutant: a request that the router fails on is logged as an error.
RouteFails_Recorded(h) ==
    /\ pc[h] = "route"
    /\ unrouted' = unrouted + 1
    /\ bill' = [bill EXCEPT ![h].status = "error"]
    /\ GoTo(h, "observe")
    /\ UNCHANGED <<limitVars, req, tracker, store, sinkVars, passed, arrivals>>

\* 500: the classifier failed. Nothing is recorded.
RouteFails(h) ==
    /\ pc[h] = "route"
    /\ unrouted' = unrouted + 1
    /\ Done(h)
    /\ UNCHANGED <<limitVars, tracker, store, sinkVars, passed, arrivals>>

\* The chain has been walked, and recordRequest is called with what it yields.
Ends(h, streamed, status, usage) ==
    /\ pc[h] = "call" /\ req[h].stream = streamed
    /\ bill' = [bill EXCEPT ![h].status = status, ![h].prompt = usage.prompt,
                            ![h].completion = usage.completion]
    /\ GoTo(h, "charge")
    /\ UNCHANGED <<limitVars, req, tracker, sinkVars, countVars>>

\* completeWithFallback has the reply of some model of the chain: it is put into
\* the cache and sent.
Complete(h, usage) == /\ Ends(h, FALSE, "ok", usage)
                      /\ store' = [store EXCEPT ![req[h].key] = "reply"]

Fail(h) == Ends(h, FALSE, "error", noUsage) /\ UNCHANGED store

\* streamWithFallback reports neither how it ended nor what was used.
StreamEnds(h) == Ends(h, TRUE, "ok", noUsage) /\ UNCHANGED store
-----------------------------------------------------------------------------
\* Budget.Estimate, of what is in the bill.
Estimate(h) == Costs(bill[h].model, bill[h].prompt, bill[h].completion)

\* recordRequest: Estimate with the model routed to, and Record.
Charge(h, cost) ==
    /\ pc[h] = "charge"
    /\ cost \in Estimate(h)
    /\ tracker' = IF cost > 0 THEN Books!Charged(Books!RolledState, cost) ELSE tracker
    /\ bill' = [bill EXCEPT ![h].cost = cost]
    /\ GoTo(h, "observe")
    /\ UNCHANGED <<limitVars, req, store, sinkVars, countVars>>

\* Metrics.Observe: each counter of it is a step of its own.
Observe(h) ==
    /\ pc[h] = "observe"
    /\ metrics' = [metrics EXCEPT !.requests[bill[h].status] = @ + 1]
    /\ GoTo(h, "meter")
    /\ UNCHANGED <<limitVars, req, bill, tracker, store, queue, lost, workerVars, countVars>>

\* Its CostUSD.Add; a cost of 0 is not added, and nothing is what it would add.
Meter(h) ==
    /\ pc[h] = "meter"
    /\ metrics' = [metrics EXCEPT !.cost = @ + bill[h].cost]
    /\ GoTo(h, "submit")
    /\ UNCHANGED <<limitVars, req, bill, tracker, store, queue, lost, workerVars, countVars>>

\* The id is the clock's nanosecond: two entries of one tick may share it. As
\* only that matters, one that is shared with nothing is the first not taken.
Busy(places) == {w \in Workers : step[w] \in places}
Logged == ToSet(journal \o failed.jsonl \o queue \o lost)
            \cup {hand[w] : w \in Busy({"sqlite", "jsonl"})}
Nanos == {n \in 0 .. MaxChats : \A m \in 0 .. n - 1 : \E e \in Logged : e.id = <<now, m>>}
Entry(h, nano) == [id |-> <<now, nano>>, ts |-> now, model |-> bill[h].model,
                   prompt |-> bill[h].prompt, completion |-> bill[h].completion,
                   cost |-> bill[h].cost]

Submit(h, nano) ==
    /\ pc[h] = "submit"
    /\ IF Len(queue) < QueueSize
       THEN queue' = Append(queue, Entry(h, nano)) /\ UNCHANGED lost
       ELSE lost' = Append(lost, Entry(h, nano)) /\ UNCHANGED queue
    /\ Done(h)
    /\ UNCHANGED <<limitVars, tracker, store, metrics, workerVars, countVars>>
-----------------------------------------------------------------------------
\* The stores in the order serve lists them. A worker takes its entry to one
\* after the other, and what one of them answers is of no account to the next.
Advance(w, from, to) == step[w] = from /\ step' = [step EXCEPT ![w] = to]

Take(w) ==
    /\ Advance(w, "select", "sqlite")
    /\ queue # <<>>
    /\ queue' = Tail(queue) /\ hand' = [hand EXCEPT ![w] = Head(queue)]
    /\ UNCHANGED <<limitVars, handlerVars, tracker, store, metrics, journal, lost, failed, rows, countVars>>

\* Mutant: a worker gives an entry up at the first store that refuses it.
InsertRow_GivesUp(w) ==
    /\ step[w] = "sqlite"
    /\ \/ /\ ~IsStored(hand[w]) /\ Insert(hand[w])
          /\ step' = [step EXCEPT ![w] = "jsonl"] /\ UNCHANGED <<failed, hand>>
       \/ /\ failed' = [failed EXCEPT !.sqlite = Append(@, hand[w])] /\ UNCHANGED rows
          /\ step' = [step EXCEPT ![w] = "select"] /\ hand' = [hand EXCEPT ![w] = Nothing]
    /\ UNCHANGED <<limitVars, handlerVars, tracker, store, metrics, queue, journal, lost, countVars>>

\* sqlite.Store.Log. It fails on an id the table holds, and may fail on any
\* entry; then the table has no row of it.
InsertRow(w) ==
    /\ Advance(w, "sqlite", "jsonl")
    /\ \/ ~IsStored(hand[w]) /\ Insert(hand[w]) /\ UNCHANGED failed
       \/ failed' = [failed EXCEPT !.sqlite = Append(@, hand[w])] /\ UNCHANGED rows
    /\ UNCHANGED <<limitVars, handlerVars, tracker, store, metrics, queue, hand, journal, lost, countVars>>

\* jsonl.Writer.Log: one Write under the mutex, or an error and no whole line.
AppendLine(w) ==
    /\ Advance(w, "jsonl", "select")
    /\ hand' = [hand EXCEPT ![w] = Nothing]
    /\ \/ journal' = Append(journal, hand[w]) /\ UNCHANGED failed
       \/ failed' = [failed EXCEPT !.jsonl = Append(@, hand[w])] /\ UNCHANGED journal
    /\ UNCHANGED <<limitVars, handlerVars, tracker, store, metrics, queue, lost, rows, countVars>>
-----------------------------------------------------------------------------

PassTime == /\ Tick
            /\ UNCHANGED <<buckets, admitted, due, handlerVars, tracker, store, sinkVars, countVars>>

Handle(h) ==
    \/ \E r \in Requests : TurnAway(h, r) \/ Throttle(h, r) \/ Serve(h, r) \/ Begin(h, r)
    \/ Gate(h) \/ OverBudget(h)
    \/ Hit(h) \/ CountHit(h) \/ ObserveHit(h) \/ Miss(h) \/ CountMiss(h)
    \/ RouteFails(h) \/ \E m \in Routed : Route(h, m)
    \/ Fail(h) \/ StreamEnds(h) \/ \E usage \in Usages : Complete(h, usage)
    \/ \E cost \in Estimate(h) : Charge(h, cost)
    \/ Observe(h) \/ Meter(h) \/ \E nano \in Nanos : Submit(h, nano)

Work(w) == Take(w) \/ InsertRow(w) \/ AppendLine(w)

Next == PassTime \/ (\E w \in Workers : Work(w)) \/ \E h \in Handlers : Handle(h)

Spec == Init /\ [][Next]_vars
-----------------------------------------------------------------------------
EntryType == [id : Time \X (0 .. MaxChats), ts : Time, model : Routed, prompt : Nat, completion : Nat, cost : Nat]

TypeOK ==
    /\ LimitTypeOK
    /\ pc \in [Handlers -> PC]
    /\ req \in [Handlers -> Requests \cup {Nothing}]
    /\ tracker \in Books!States
    /\ store \in [Keys -> {"reply", Nothing}]
    /\ queue \in Seq(EntryType) /\ journal \in Seq(EntryType) /\ lost \in Seq(EntryType)
    /\ failed \in [sqlite : Seq(EntryType), jsonl : Seq(EntryType)]
    /\ step \in [Workers -> {"select", "sqlite", "jsonl"}] /\ hand \in [Workers -> EntryType \cup {Nothing}]
    /\ \A w \in Workers : step[w] # "select" => hand[w] \in EntryType
    /\ rows \subseteq EntryType

\* The handlers are what the Budget module assumes of its handlers: each passes
\* the gate before it costs anything and settles once, whatever becomes of its
\* request; so what is shown of Budget is true of the proxy.
KeepsBooks == Books!Spec

Sum(entries) == SumFunction([n \in DOMAIN entries |-> entries[n].cost])
Held(places) == SumFunction([h \in {g \in Handlers : pc[g] \in places} |-> bill[h].cost])
At(places) == Cardinality({h \in Handlers : pc[h] \in places})
Carried(places) == SumFunction([w \in Busy(places) |-> hand[w].cost])

\* Budget, metrics, journal and report tell one story of the money, in every
\* state: the figures differ by what handlers hold between two records, what
\* waits in the queue or is in the hands of a worker on its way to the store in
\* question, what the full queue refused and what that store did, and by
\* nothing else. An entry that one store refuses is still due to the other.
MoneyReconciles ==
    LET submitted == Sum(queue) + Sum(lost) + Held({"observe", "meter", "submit"}) IN
    /\ tracker.total = metrics.cost + Held({"observe", "meter"})
    /\ tracker.total = Sum(journal) + Sum(failed.jsonl) + Carried({"sqlite", "jsonl"}) + submitted
    /\ tracker.total = Total(AggregateByModel(-TicksPerSecond)).cost
                         + Sum(failed.sqlite) + Carried({"sqlite"}) + submitted

\* Every request past the gate is a hit, a miss or a stream, and every one of
\* them but those the router failed on is counted once in the metrics, and once
\* in the log unless it was a hit, or the queue or the file refused it: whatever
\* order the separate counters and the workers come in.
CountsReconcile ==
    LET n == metrics.requests IN
    /\ passed[FALSE] = metrics.hits + metrics.misses + At({"lookup", "hit", "miss"})
    /\ passed[TRUE] + passed[FALSE] =
         n["ok"] + n["error"] + n["cached"] + unrouted
           + At({"lookup", "hit", "cached", "miss", "route", "call", "charge", "observe"})
    /\ n["ok"] + n["error"] = Len(journal) + Len(failed.jsonl) + Cardinality(Busy({"sqlite", "jsonl"}))
                                + Len(queue) + Len(lost) + At({"meter", "submit"})
    /\ metrics.hits = n["cached"] + At({"cached"})

\* Reports by model and by day agree with each other for every moment they may
\* start from, and with the times of the rows to less than a second: the texts
\* that times are compared as can disorder them within one. The savings agree
\* with them up to as many rows as they ask for, and past that fall short. No
\* saving against the dearest entry for input is negative, as long as that is
\* the dearest for output too, as it is in the embedded table.
DearestForBoth == \A k \in DOMAIN table : table[k].output <= table[mostExpensive].output
ReportsAgree ==
    \A since \in Time :
        LET model == Total(AggregateByModel(since))
            later(t) == CostOf({r \in rows : r.ts >= t})
        IN  /\ Total(AggregateByDay(since)) = model
            /\ later(since + TicksPerSecond) <= model.cost
            /\ model.cost <= later(since - TicksPerSecond + 1)
            /\ \A sums \in Compute(since, table[mostExpensive]) :
                 /\ model.count <= QueryLimit => sums.count = model.count /\ sums.actual = model.cost
                 /\ model.count > QueryLimit => sums.count = QueryLimit /\ sums.actual <= model.cost
                 /\ DearestForBoth => sums.actual <= sums.baseline
=============================================================================
