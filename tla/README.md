# nadir in TLA+

nadir is a proxy between clients that speak the OpenAI chat protocol and a set
of model providers. It classifies each prompt, picks a model by tier, calls it,
falls back to other models when a call fails, and keeps budgets, caches, health
records and a request log on the side. This directory specifies the parts of it
that are hard to test: what concurrent requests do to each other's state, and
what is left when calls, stores and processes fail in the middle.

Paths below are relative to `src/`.

## Inventory

| Component | State | Operations | Talks to | What is hard |
|---|---|---|---|---|
| error kinds (`types/errors.go`) | none | `IsTransient` | everything that calls a provider | which failures go on to another model |
| health (`health/health.go`) | failures and time of the last one, per model | `RecordSuccess`, `RecordFailure`, `Order`, `Available` | router, fallback loops | shared by all requests, read and acted on at different times |
| model cooldown (`ratelimit/model.go`) | time until which a model rests | `Check`, `Record` | fallback loops | same |
| user limiter (`ratelimit/user.go`) | admission times per user | `Check` | middleware | closed windows, rounding of Retry-After |
| fallback loops (`internal/proxy/fallback.go`, `stream.go`) | per request: index, last error, open iterator | complete, stream | health, cooldown, providers | commitment to one model, a dozen exits, hanging upstreams |
| budget (`internal/budget`) | spent per day, month and in all; alerts sent | `Allowed`, `Record`, `SaveTo`, `LoadFrom` | handlers, alert hooks, a file | gate and charge are far apart, two periods, restarts |
| session cache (`cache/session.go`) | pinned model and tier per conversation | `Get`, `UpgradeIfHigher` | router | `Get` unlocks between its read and its delete |
| router (`router`) | configuration; session cache | `Route` | classifier, health, session cache | order of the modifiers, pins, empty tiers |
| prompt cache (`cache/prompt.go`) | map and recency list | `Get`, `Put` | handlers | expiry, recency, eviction, double fetches |
| logger pool (`internal/proxy/worker.go`) | channel, workers, counter | `Submit`, `Close` | handlers, stores, `cmd/nadir/serve.go` | shutdown against late handlers; hanging stores |
| request log (`internal/store/jsonl`, `internal/logmaint`) | an open file; a directory | `Log`, `Rotate`, `MaybeRotate` | workers, file system | rename under an open file, failures and crashes at each call |
| SQLite store (`internal/store/sqlite`) | a table | `Log`, queries | workers, reports | primary key from the clock, times in the order of texts |
| classifiers (`classifier`) | none but the ONNX session | `Classify` | router | escalation by confidence |
| skill router (`skillrouter`) | embedded skills | `Rank`, `Route` | `skill-route` command | ties, margins, fusion of ranks |
| provider (`provider/openai`) | a connection and its reader, per call | `Complete`, `Stream`, `Next`, `Close` | upstream | what a broken, slow or abandoned response is taken for |
| serve (`cmd/nadir/serve.go`) | the wiring | start, shutdown | all | order of the closes |
| model metadata (`modelmeta`) | a table of prices | `Lookup`, `Cost`, `All` | budget, savings, router | a lookup that takes parts of names, in the order of a map |
| configuration (`internal/config`) | none | `Load` | start-up | defaults, parsing that fails silently |
| metrics (`internal/metrics`) | counters | `Observe` | handlers | agreement with budget and log |
| reports and savings (`internal/report`, `internal/savings`) | none | sums over the table | SQLite store, model metadata | agreement with each other |
| credentials, setup, discovery | files | load, save | commands only | the request path reads none of them |
| dashboard, optimize, compress | none | read-only, text | stores | none here |

Some of it is not wired into the running proxy: no command starts the log
maintainer, `serve` loads the budget's file but no command saves it, and
configures no limits, nothing calls `Session.Get`, `compress` and `optimize` are
on no request path, and the skill router serves the `skill-route` command only.
Their modules model the package as its interface offers it, and the sections
below say where that matters.

## Modules

| Module | Models | State and actions |
|---|---|---|
| `Clock`, `WallClock` | `time.Now`; its seconds | `now`, counted to `MaxTime`, moved by `Tick`; `TicksPerSecond` |
| `UserLimit` | `ratelimit.User` | `buckets`; `Check` is `Admit` or `Refuse` |
| `Proxy` | `internal/proxy/server.go`, from the bearer token to the last record | per handler a program counter and what it will bill, per worker its place and its entry; one action per call to a shared component, the counters of the metrics and the stores each on their own |
| `Prices` | `modelmeta` | no state; `Lookup` is the set of answers the map's order allows |
| `RequestLog` | the SQLite table, `report` and `savings` | `rows`; `Insert`, and the queries as functions of the table |
| `Config` | `config.Load`, `buildProviders` | no state; from an environment to the router's configuration |
| `Provider` | `provider/openai` in the loop that calls it | one call at a time: the server's unread lines, the timer, the client; one action per wait of `Do`, `Decode`, `Next` |
| `StreamIter` | the contract of `types.StreamIter` (abstract) | `Open`, `Send`, `Yield`, `Exhaust`, `Break` |
| `Upstream` | `types/errors.go` | `ErrorKind`, `IsTransient` |
| `Health` | `health/health.go` | `failures`, `lastFailureAt`; `Order` places each model by score, then position |
| `ModelCooldown` | `ratelimit/model.go` | `coolUntil` |
| `Dispatch` | both fallback loops, `recordFailure`, `pickProvider` and the answers of `handleChatCompletions` | per request a program counter, the chain, `lastErr`, open iterators and what the client was sent; a step is the code between two calls to a shared tracker or an upstream |
| `Budget` | `budget.Tracker` under its handlers | `Admit`, `Refuse`, `Record`, `FinishFree`, `BeginSave`, `EndSave`, `Crash`, `NewDay` |
| `SessionCache`, `SessionCallers` | `cache.Session`; goroutines that call it | `Upgrade` is one step; `Get` is `Read`, then `Hit` or `FindExpired` and `DeleteExpired` |
| `Routing` | `router.Route` | the stages as functions `Requested`, `Agentic`, `Reasoning`, `VisionSwap`, `Chain`; one step per turn, beside the steps of `Get` of `SessionCallers` |
| `Classifier` | heuristic, cascading and LLM classifiers | no state; scores are whole multiples of 1/300 |
| `SkillRouter` | `skillrouter` and the `skill-route` command's choice of it | `score`, the prompt as the embedders see it, `matcher` and `decision`; one action per matcher's `Route`, and `EmbedFails` |
| `PromptCache` | `cache.Prompt` with handlers that get, call and put | the list of entries; the map of the code is its index |
| `ResponseStore` | what a caller may rely on of a cache (abstract) | `Put`, `Hit`, `Miss`, each of which may forget entries |
| `LoggerPool` | pool, submitters, workers, shutdown | one action per channel operation, `store.Log` call and step of `Close` |
| `LogFiles` | `jsonl.Writer` with `logmaint.Maintainer` | one action per file system call, each of which may fail or be the last before a crash |
| `MC*` | instances | sets of model values and definitions for the `.cfg` files |
| `DispatchProofs`, `BudgetProofs`, `RoutingProofs`, `LoggingProofs`, `ProxyProofs`, `ProviderProofs`, `PromptCacheProofs` | theorems about the modules they extend; `LoggingProofs` is about `LoggerPool` and `LogFiles` | see *Proofs* |
| `SumTheorems` | lemmas about finite sets, orders and sums | see *Proofs* |

`Dispatch` extends `Health`, `ModelCooldown` and, through them, `Upstream` and
`Clock`: the trackers are state of the same behaviour. `Routing` extends `SessionCallers`,
whose actions are the turns' and the lookups' share of the session cache. A
module whose state machine another extends, or that shares a module of theorems
with another, prefixes its definitions (`CallersInit`, `PoolInit`, `LimitInit`).
`Routing` extends `Classifier` too:
a turn carries the counts of its texts and what the second classifier would
reply, and the tier is computed as in the code. `PromptCache` refines
`ResponseStore`. The chain that `Routing` yields is the one `Dispatch` sorts and
walks; the two share no variable but the pin and are composed by that constant.
`Config` makes `Routing`'s configurations out of environments.

`Proxy` composes. It extends `UserLimit` and `RequestLog` (which extends
`Prices`), so limiter and table are state of the same behaviour, and it takes the
tracker's operators from an instance of `Budget`, under its own handlers:
`KeepsBooks` is that instance's `Spec`, so `Proxy` refines `Budget`. The prompt
cache is the abstract store, which may forget at any lookup; the fallback loops
are their outcome, a reply with a usage, a failure or an ended stream; the logger
pool is its channel and its workers, each of which takes an entry to one store
after the other, where a store may refuse it. What is below those is shown by the runs of
their own modules. `Proxy` has no crash: after one, figures kept in memory
(metrics, tracker) and on disk (journal, rows) part company by design, so nothing
relates them; what a crash does to a file is in `Budget` and `LogFiles`.

`Provider` refines `StreamIter`, which says of an iterator no more than what the
loops of `Dispatch` rely on. Of the loop around it `Provider` repeats what decides
whether there is a further call.

In `Dispatch`, a skip, a call, a failure and its record are separate steps, since
another goroutine can run between any two calls to a tracker. `recordFailure`
calls two trackers and is two steps (`Fail`, `CoolDown`). The loop's bookkeeping
after the last of them belongs to it. The upstream chooses freely among its
outcomes, and an empty stream is one of them.

In `Classifier` and `SkillRouter` floating-point numbers are replaced by whole
ones on a scale on which the code's arithmetic is exact: averages of three
hundredths in 1/300, cosines as integers, sums of `1/(k + rank)` over a common
`Denominator` of all ranks. Rounding, which could decide an exact tie the other
way, is left out. `SkillRouter` takes every vector of similarities between the
prompt and the catalog's texts, whether or not a prompt with it exists, and a
reply of the language model is the names it equals or contains.
`FusedSemantic` sorts entries that come out of a Go map, so `Fused` is the set of
the decisions it can make.

In `LoggerPool`, `p.dropped++` is not atomic in the code: `Overflow` loads the
counter and `Drop` stores it, and increments can be lost in between. A `select`
with two ready cases takes either.

In `LogFiles`, a file is the set of the entries in it. A `Rename` takes the name
of the open file along, which is why a `Log` between `Rename` and `Rotate` goes
to the archive. A copy cut short leaves a `torn` archive.

Mutants (definitions commented `Mutant:`) are plausible mistakes in the
operation they stand before. They are used by no specification; each shows
that a property can fail.

## Runs

| Run | Question | Bounds |
|---|---|---|
| `dispatch` | do two requests, batch or stream, always get one well formed answer from one model, for the reasons the code promises | a chain of three models of which one has no client and a chain of two that can be used up, 3 kinds of failure and the empty stream, quarantine after one failure, 2 chunks |
| `budget` | are the books right and overruns bounded | 2 handlers, limits 2 a day and 3 a month, costs up to 2, 4 days in 2 months, 1 crash |
| `routing` | do all sequences of turns keep pick, tier, chain and client consistent, under every configuration that can be loaded, while another goroutine looks the conversation up | 1 conversation, 1 caller of `Get`, TTL 1 in 3 instants, 108 turns from 9 kinds of message alone and in pairs and 4 replies of the second classifier, 4 environments and 1 configuration of a library user |
| `proxy` | do limiter, budget, metrics, log and reports agree, whatever becomes of the requests, and do the handlers keep the books as `Budget` assumes | 2 handlers, 2 workers, 2 stores that refuse what they like, 2 arrivals, 2 users, 1 admission a window, 2 ticks a second and a day, a queue of 1, savings that ask for 1 row, prices that a lookup finds unambiguously, ambiguously or not at all |
| `provider` | does the iterator keep its contract and every call end, whatever servers, timers and clients do | a chain of 3, 3 lines of 4 kinds a response, 5 statuses |
| `skill_router` | do the matchers agree with each other and with the rankings they merge | 3 skills with 4 texts from a catalog of 4 entries, 4 similarities, 2 embedders, a shortlist of 2, 6 replies |
| `prompt_cache` | do map and list agree, and does the cache refine the store | 2 handlers, 3 keys in room for 2, 6 uses |
| `logger_pool` | is an accepted entry kept, do the stores get the same entries, is nobody held up, does `Close` return | 4 handlers, 2 workers, channel of 1, 2 stores |
| `log_files` | is an entry lost or misplaced by rotation, failures or a crash | 4 entries, a rotation each, 1 archive kept, 1 failure, 1 crash, 4 seconds |
| `dispatch_unhealthy_skipped` | finding 1 | as `dispatch`, chain of two |
| `logger_pool_lost` | finding 2 | as `logger_pool` |
| `session_pin_lost` | finding 3 | as `routing`, 2 kinds of turn |

What the properties of some of them say:

- `NeverBounces`, `PinsStick`: from one turn of a conversation to the next the model
  stays or the tier rises, as long as the pin has not outlived its TTL. The comments
  promise `PinsStick`, all of it, and the code does not keep it (finding 3).
  `NeverBounces` is what it keeps: a pin that is there is never taken back, and a pin
  that is not there has outlived its TTL, or was set while a `Get` of its
  conversation was under way, which may have read an older one.
- `StoresAgree`: when `runServe` has returned, an entry has been offered to every
  store or to none, at whatever moment of a worker's round the context was canceled.
  A store may still refuse what it is offered: the database's `Log` gives up when
  its context is canceled, and the journal's does not look at it.
- `SkipsAreEarned`: a skip rests on a failure that some request has met at that
  model, or on its 429. That the failures came in a row, or that the cooldown is not
  yet over, it does not say.
- `RoutedByHealth`: about the moment of routing. By the time the loop reaches a model
  the trackers may have moved on; what is promised of that is `SkipsAreEarned`.
- `NoBurst`, `PatienceRewarded`: any `Limit + 1` admissions of a user in a row span
  more than the window, and who waits as long as Retry-After says is let in.
- `MoneyReconciles`: tracker, metrics, journal and table hold the same money but
  for what a handler is between two records with, what waits in the queue or is in
  a worker's hands on its way to the store in question, what the full queue refused,
  and what that store refused, for an id it already held or for any other error. So
  an entry that the table refuses is still due to the journal.
- `CountsReconcile`: each request past the gate is counted once as hit, miss or
  stream, once in the metrics, and once in the log unless it was a hit or queue or
  journal refused it; those the router fails on are counted nowhere, and are the
  only ones. In between, a handler or a worker is at one of a few places, which
  the property lists: the cache's counters, the requests and the costs are
  separate counters of the metrics and separate steps.
- `ReportsAgree`: reports by model and by day have one total, and one that differs
  from the rows by less than a second of them. The savings have it too up to
  `QueryLimit` rows, and count that many of more. If the entry of the table that is
  dearest for input is dearest for output, no saving is negative.
- `ImplementsIter`: the client's iterator yields every chunk once and in order,
  and says `io.EOF` only after the last of what the upstream sent.
- `HangUpBlamesAtMostTwo`: a client that leaves makes the loop go on to at most
  one more call, and the health tracker blame at most two models.
- `CallsEnd`: whatever the servers do or leave undone, the handler is done in the
  end.

Why the bounds are enough to meet the cases. In `proxy` two chats can overflow a
queue of one, be in the hands of both workers, share an id, and reach a limit of
two at a cost of two; the second arrival is what a limit of one refuses. In
`routing` three instants are what a pin takes to be set, to outlive its TTL and
to be renewed before a `Get` deletes it. In `provider` three lines are two
chunks and an end, with room for a line to be skipped between them, and three
models are what it takes for a client that leaves to be blamed on two of them
and not on the third. In the others, two requests are what it takes for
one to move a tracker between two steps of the other; three models give a chain
two fallbacks to reorder, and the chain of two is one that can fail to its end. The kinds of
failure are one that is transient and cools a model, one that is transient and
does not, and one that is fatal; missing credentials are the fourth. Two months of
two days each roll over at different times. One key more than the cache holds
forces evictions, and four handlers more entries than channel and workers hold
together. The bounds named `Max...` cap time and counters only; they are guards
of the environment's steps.

Deadlock is not checked in `Dispatch*`, `Proxy`, `Provider`, `PromptCache`, `LoggerPool*` and
`LogFiles`: their goroutines serve one request, or a bounded number, and stop,
and the process of `LoggerPool` ends. That each request ends is a property
instead (`BatchAnswered`, `CallsEnd`, `SubmitReturns`, `CloseReturns`). The other runs check
it.

No run spends its time on a type invariant. Those of `Dispatch`, `Budget`,
`SessionCallers`, `SkillRouter`, `LoggerPool`, `UserLimit`, `Proxy`, `Provider`,
`LogFiles` and `PromptCache` are proved for every instance, and what the proofs
need of the types of `Routing` with them (*Proofs*).

In `skill_router` the shortlist is
shorter than the catalog, so the model can name a skill it was not shown; four
similarities give scores below the minimum, margins on both sides of the
threshold, and ties.

`budget` and `proxy` use symmetry in the handlers, `proxy` in the workers too, which
the specifications treat alike; neither checks liveness.

### Fairness

`Dispatch` assumes that the scheduler lets a handler run (`WF` of `Loop`) and
that a batch call returns, which the code gets from `PerCallTimeout`
(`fallback.go`). Nothing is assumed of streams, since `stream.go` sets no timeout
of its own: a request is answered even while another's stream is silent.

That a stream ends is the provider's doing, and is shown there. `Provider` assumes
that the loop and the reader run (`WF` of `Loop` and of `Read`), that the timer
runs out (`WF` of `Expire`: five minutes of `http.Client.Timeout`, which covers
the body, on top of a batch call's `PerCallTimeout`), and that a call whose time
is up returns, which `net/http` promises (`WF` of `TimerEnds`). Nothing is
assumed of servers and clients.

`LoggerPool` assumes that handlers run. It assumes nothing of the workers, since
a store may hang. `CloseReturns` has the premise `StoresAnswer`: `Close` waits for
workers, which wait for stores, so it returns only if they do.

### Findings

1. *Unhealthy models are skipped.* The package comment of `health` says that the
   loop "still tries them, just last". Both loops pass over them, so a chain whose
   models are all quarantined is refused without a call.
2. *Entries are thrown away on shutdown.* `Close` cancels the workers before they
   have drained the channel.
3. *A renewed pin can be deleted.* `Get` judges the entry it has read and, if that
   was expired, deletes whatever the key holds by then, so a conversation upgraded
   in between is pinned anew, to a lower tier, well within the TTL. The comments on
   `Session` and `types.SessionCache` say that it never downgrades. The proxy does
   not call `Get`, which is there for users of the library.

Behaviours that are modelled, or stand at the edge of a model, and are worth
knowing:

- *Fallback.* An empty stream leaves `lastErr` as it was, so a chain of nothing
  else reads as "no models in fallback chain". After a cooldown a single failure
  quarantines a model again, as the count is kept. A read that fails because the
  client left is a network error to the iterator and a server error to
  `Complete`, so models that are well are blamed. A server that closes without
  `[DONE]`, and one that closes in the middle of a line, look like a finished
  stream, and the part of the line is dropped.
- *Routing.* `ComplexModel` is returned whether set or not, though `router.Config`
  says that empty tiers fall back to `SimpleModel`; `config.Load` has a default for
  it, so it takes a user of the library to route a complex prompt to the empty
  name (`Dispatchable` speaks of loaded configurations). A conversation pinned to
  a model without vision keeps it when an image arrives (`ModifiersHold` excepts
  that case).
- *Start.* `buildProviders` cannot fail: `OllamaBaseURL` has a default, though
  `config.go:76` calls the missing provider the one hard requirement at start.
  Without keys the proxy starts, sends the default models to a provider that has
  no client, and answers 401. No client is ever built for `anthropic` or `gemini`,
  whose names `inferProviderMap` yields.
- *Money.* The cost is that of the model routed to, not of the one that answered,
  and a stream costs nothing; the limit, the metrics, the log and the savings'
  "actual" all rest on that figure. A price is looked up by parts of names in the
  order of a map, so one name can have two prices. `serve` configures no limits.
- *Records.* Two requests that end in the same nanosecond share an id, and the
  table keeps one of them; a comment calls the id unique since each row has one
  writer (`server.go:368`). Requests refused with 400, 401, 402 or 429, and those
  the router fails on, are in no metric and no log; `Fallbacks` is registered and
  listed in `README.md:320`, and nothing increments it. A report from a whole
  second on leaves out that second's fractions.
- *Users.* Without a name a user is the remote address, with the port unless a
  proxy's header has replaced it, so each connection is a user of its own.
- *Session.* `UpgradeIfHigher` does not look at an entry's age: an expired pin binds
  as long as nobody calls `Get`.
- *Log files.* A rotation within the second of the last one overwrites its archive
  (`NothingLost` excepts that case); after a failed `Rotate` the log refuses every
  entry until a restart.
- *Skills.* A tie in `FusedSemantic` is settled by the order of a map, so one
  prompt can get either skill, and its constructor ignores its options; a
  shortlist of one leaves `Cascade` without a margin, so it always asks the model
  (`CascadeAgrees` and `OverruledInDoubt` except that case). The comments of
  `Cascade` (`cascade.go:18-27`) and `NewHybrid` (`factory.go:40-44`) say that the
  model is also asked when the best score is below the minimum, "embeddings can't
  decide at all". `Cascade.Route` falls through there without a call
  (`cascade.go:127-133`), which `TestCascade_BelowMinScore_NoLLMCall`
  (`cascade_test.go:96-114`) wants of it; the model follows the code, and
  `OverruledInDoubt` counts such a prompt as one in doubt, so it holds of either.

## Proofs

Checked by TLAPS for every value of the constants that satisfies the
assumptions named in the modules. Time is bounded by `MaxTime \in Nat` and days
by `MaxDay \in Nat`, so "every value" includes every bound. Almost none of the
properties is inductive; what follows names the invariant that carries each and
says why it is needed. Every invariant that a run checks, and every refinement, is
proved.

**Finite sets and sums** (`SumTheorems`). Money, rows and weights are added up over
sets and sequences of any size, by `SumFunction`, whose definition is a choice of a
recursive function. An induction theorem takes a predicate as its parameter;
here a set of subsets stands for the predicate (`Descent`: if each subset is
good whose proper subsets are, all are), and it comes from the least element of a
set of sizes (`LeastOf`). So the recursion has a solution (`SolutionExists`), any
two agree (`SolutionsAgree`), and a sum unfolds by its definition (`SumUnfolds`).
The rest are its laws: splitting, renaming, comparing term by term, and that the
sums of the groups that entries fall into add up to the whole (`SumGrouped`).
The module also numbers a finite set by an order on it (`Placed`), of which
rankings, chains and price lists are instances.

**`Dispatch`** (`DispatchProofs`), for any set of requests, any chains, any
`Served`.

- `TypeOK`, `OneVoice`, `WellFramed`, `ItersClosed`, `OnlyTransientCascades`,
  `RoutedByHealth`. The invariant `IInv` says, for each request and each place it
  can be at, what its wire, iterator count and visits look like: an uncommitted
  request has sent nothing, a relaying one only chunks of the model it stands at,
  and all visits but the last were skips or transient failures. It concerns one
  request at a time, so a step of one disturbs no other (`LocalStep`), and there is
  a lemma for each action.
- `ChainExhausted`, `LastErrorReported`, `SkipsAreEarned`. These relate what a
  client is told to the whole walk along the chain, and to failures that other
  requests have met. A second invariant on top of the first, `WalksInv`, says where
  in the chain a request stands, which models it has visited and which error of
  theirs `lastErr` is (`Walk`); and that no tracker holds more against a model than
  requests have met there (`TallyInv`). A failure is known to the request before it
  is known to the trackers, and `TallyInv` makes room for those on the way.
- `OrderIsStableSort`. `Order` is written as "each model's place is the number of
  those that precede it"; the proof shows that this is a bijection, and so a
  permutation sorted by score that keeps equal models in order, which is what
  `sort.SliceStable` promises. `RoutedByHealth` cites it.

**`Budget`** (`BudgetProofs`), for any finite set of handlers.

- `BooksBalance`, `NeverOvercharges`, `AlertsMatch`. `BooksInv` compares the
  tracker, the snapshot that is being written and the one in the file with the
  ledger of what was spent, by day, by month and in all. Each of the three is honest:
  never above the ledger in a period it names (`Honest`); until a crash the tracker
  is exact. Honesty of all three is what a restart needs, since it replaces the
  tracker by a snapshot of any age.
- `TypeOK`, `OverspendBounded`. `Admit` looks at the day's figure and `Record` adds
  to it after any number of others, so the invariant counts exposure: while the
  limit is not reached the spending is below it, and once it is, spending plus
  `MaxCost` for each handler still in flight stays below the bound. The figure
  compared is tied to the ledger of the tracker's day.

**Routing** (`RoutingProofs`).

- Classifiers: `MoreIsNotSimpler` and `SureIsFinal`, for any thresholds, crossed
  ones included: each signal grows with the text, and buckets rise with the score.
- Session cache, for any number of goroutines that call `Get` beside the turns
  (`CallersInvariance`). `CallersInv` says that a pin that is there was stamped when
  it was last set (`PinsDated`); that a `Get` under way holds a copy of the pin that is
  there, unless that one was set meanwhile (`CopiesHold`); and that the copy of who is
  about to delete has expired (`DeletesExpired`).
- Router, for every configuration: `NeverBounces`, `Dispatchable`, `ModifiersHold`.
  A pin is set in one turn and read in another, and `NeverBounces` is about two
  turns with any steps of `Get` and the clock between them, so `IInv` ties the cache
  to the history: the pin of a conversation is what its last decision chose
  (`PinOfTurn`), a pin that is gone has outlived its TTL or was contested, under a
  loaded configuration no pin has the empty name (`PinsNamed`), and each decision was
  right when it was made (`TurnHolds`). The proof rests on three
  assumptions: a requested name, resolved or not, is not empty (a blank one is
  taken for "auto"); the empty name has no mark of vision, since the marks are
  sought in the name; and a loaded configuration has a `ComplexModel`, for which
  `config.Load` has a default.
- `ChainSound`, for any configured fallbacks, repeated names and the primary's among
  them. `Chain` takes a list at the first mentions in it (`Added`), and `At` puts any
  set of places in their order: a finite set in an order is numbered by how many
  elements precede each (`Placed`), so each place is met once. Distinct first mentions
  have distinct names, a name that is mentioned has a first one (`FirstOf`), and what
  stands earlier in the chain is mentioned earlier (`AddedSound`).
- Skill router, for any catalog, prompt, threshold and length of the shortlist:
  `CascadeAgrees` and `OverruledInDoubt`. `CascadeInv` adds what a decision is made
  of: it is what `Cascade` makes of the reply that was heard, and one is heard in
  doubt only. The rest is about the ranking. It is a bijection between skills and
  ranks, ties included (`RankingFacts`, by `Placed` again), so a ranking that is cut
  short has the top of the whole one, its runner-up too unless there is room for one
  (`TopFacts`), and the p-th name on the shortlist has fewer than p skills before it
  (`ShortlistFacts`). And whichever way a reply is read, what is chosen is on the
  list and was named (`ParseNames`), the longest of several names included
  (`LongestFound`).
- `FusedIsPareto`, for any number of embedders, any damping and any catalog.
  `FusedInv` says that what was decided has the greatest sum. Of two skills, one that
  every embedder puts behind the other has the smaller weight under each
  (`WeightsFall`: ranks differ, and an exact quotient falls with its divisor), so the
  smaller sum (`FusionFollows`). The assumption is that `Denominator` is a multiple of
  every `RRFK + rank`, which makes the scale exact.
- `MatcherTypeOK`: a decision names a skill of the catalog or none, and its margin,
  the lead of the first of a ranking or of a fusion, is not negative.

**`LoggerPool`** (`LoggingProofs`), for any capacity, handlers, workers and
stores: `PoolTypeOK`, `AcceptedIsKept`, `StoresAgree`. The strengthening is that a
worker that holds an entry has offered it to all stores before its next one
(`HeldInv`), that an entry some store has been asked for is with a worker until all
have been (`RoundsAreFinished`), and that no worker is at work once `runServe` has
returned (`AllHaveLeft`).

**`Proxy`** (`ProxyProofs`), for any handlers, requests and prices.

- The limiter alone: `LimitTypeOK`, `NoBurst`, `PatienceRewarded`, for any limit,
  window, users and length of a second. Both speak of what the code has thrown away.
  The invariant says that a bucket is the end of the user's admissions and that
  what has left it is older than the window (`IsEnd`); so an admission into a bucket
  with room has the one `Limit` before it outside the window (`AdmissionShifts`). A
  refusal implies that nothing in the bucket is stale, so what the user was told to
  wait for is its first entry (`Told`). `Stop` is a `CHOOSE` whose existence rests
  on a least natural number (`LeastOf`).
- `ImplementsLimiter`, that `Spec` implies `LimitSpec`: whatever handlers do, the
  limiter sees its own steps only. `NoBurst` and `PatienceRewarded` follow for the
  whole proxy.
- `CountsReconcile`, for any finite set of handlers. `ProxyInv` says what a handler
  holds at each place, and that each count of requests is the sum of the others and
  of the handlers and workers on the way between two of them; a step moves one
  handler or one worker from one of those sets to the next, or out.
- `KeepsBooks`, that `Spec` implies the specification of `Budget`'s handlers. The
  gate maps to `Admit`, a refusal to `Refuse`, the charge to `Record` or, when it is
  nothing, to `FinishFree`; a hit and a failed route map to `FinishFree`, and every
  other step leaves the books alone.
- `MoneyReconciles`, for any handlers, queue and prices. `MoneyInv` has two parts:
  what is paid is what is metered or still unmetered with a handler, and, for each of
  the two stores, what it holds, what it refused, what workers carry to it, and what
  waits, is forgone or is not yet logged (`Balanced`); and each cost that is under way
  or stored is one the table gives for its tokens (`PricedInv`). There is a lemma for
  each action that touches money; a step moves one handler's cost, or one worker's,
  from one sum to the next (`HeldMoves`, `HeldLeaves`, `HeldEnters`, `CarriedMoves`).
- `ReportsAgree`, from the same invariant and from the queries. A text puts two times
  in the wrong order only within one second (`TextOrder`); however rows are grouped,
  the groups' totals are the rows' (`TotalOf`); the last of `All` is dearest for input
  (`DearestForInput`), so with `DearestForBoth` no row costs more than at its prices.

**`Provider`** (`ProviderProofs`), for any chain, statuses and streams.

- `TypeOK`, `HangUpBlamesAtMostTwo`: the invariant says that a call in progress has
  been blamed for nothing yet, and that between the client's leaving and its own end
  the loop goes round at most once (`BlameInv`).
- `ImplementsIter`, that the provider implements `StreamIter`. The lines that wait
  to be read are numbered without a gap from the one last yielded (`Waiting`), so
  what `Next` yields is the chunk the contract has next.

**`LogFiles`** (`LoggingProofs`), for any size, number of archives kept, and
length of a run: `TypeOK`, `NothingLost`, `InOrder`, `PrunesOnlyOld`, through
failures and crashes at any file system call. The invariant says what each step of
`MaybeRotate` implies of the directory (`StepInv`), which file the writer may have
open (`HandleInv`: the log, or, between a rename and the rotation, the archive),
and that an archive is torn only as long as the file it is made from is there
(`TornInv`).

**`PromptCache`** (`PromptCacheProofs`), for any number of handlers and keys, any
size and TTL.

- `TypeOK`, `EntriesConserved`, from lemmas on the list's three operations
  (`MovedFacts`, `AddedFacts`, `DroppedFacts`).
- `WorkingSetCached`. That a key is missing only if `MaxSize` others were used since
  follows when it is evicted from what the rest of the list is; so `RecencyInv` adds
  that the list is in the order of the last uses (`Ordered`). All that stand before
  the last entry were then used after it.
- `ImplementsStore`, that `PromptCache` implements `ResponseStore` under the mapping
  that forgets the order of the list. `MappedFacts` says which entry stands for a
  key; moving entries leaves the store as it was (`SameStore`), and an eviction is a
  step in which the store forgets.

Only model-checked: liveness, and whatever else rests on fairness or `ENABLED`,
which is out of the prover's reach: `BatchAnswered`, `CallsEnd`, `SubmitReturns`,
`CloseReturns`.

## Not modelled, and why

Text and numbers no property is about: parsing, embeddings and tokenizers, trained
classifiers, prompts, layout of reports, the dashboard, `optimize` and `compress`.
Of SQL there are the statements' meanings, of HTTP the outcomes of `Do` and of the
reads; connection reuse and headers are left out. A write of part of a
line by `jsonl.Writer`, and a crash of the machine rather than the process, are
left out of `LogFiles`; so are `Writer.Close` and a maintainer without a
rotator. `Budget` has one save at a time. `Proxy` lets its sums run over one day
and one process. A Go data race is given its interleaving semantics. `credentials`
is a file that `setup` writes and nothing reads: no property of the system depends
on it. The fake provider is a test double.

## Plan

Order: first the path of a request, then the pure parts, then their composition.

1. Done: `Dispatch` with its trackers, `Budget`, `SessionCallers`, `Routing`,
   `Classifier`, `SkillRouter`, `PromptCache`, `LoggerPool`, `LogFiles`; proofs as
   above.
2. Done: `UserLimit`, `Provider` with `StreamIter`, `Prices`, `RequestLog`,
   `Config`, and in `SkillRouter` the plain `Router` and the command's choice of a
   matcher.
3. Done: `Proxy`, in which one request passes `UserLimit`, the tracker of `Budget`,
   the abstract cache and the records, with the refinements of `Budget`
   and of `UserLimit`.
4. Done: the safety properties and the refinements of all of these, proved, those
   that add up money, rows and weights included.
5. Left to model, if they are ever wired in: the log maintainer under `serve`, and
   a `SaveTo` at shutdown.
