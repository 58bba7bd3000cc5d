----------------------------- MODULE LoggerPool -----------------------------
(* internal/proxy/worker.go, loggerPool, between the handlers that submit to *)
(* it and the shutdown of cmd/nadir/serve.go: a bounded channel, workers     *)
(* that write each entry to every store, and a Close that closes the channel *)
(* and cancels the workers while handlers may still be running.              *)
EXTENDS Naturals, Sequences, FiniteSets, SequencesExt

CONSTANTS Handlers,         \* the handler goroutines; each logs one entry
          Workers,          \* the worker goroutines
          Capacity,         \* cap(ch)
          Stores            \* Deps.Loggers, in their order

ASSUME PoolAssumption == /\ Capacity \in Nat \ {0}
                         /\ IsFiniteSet(Workers) /\ Workers # {}
                         /\ Stores \in Seq(ToSet(Stores)) \ {<<>>}
                         /\ IsInjective(Stores)

VARIABLES handler,          \* where each handler is
          read,             \* the value of dropped that a handler has loaded
          ch,               \* the channel's buffer: entries, named by handler
          closed,           \* close(ch) has happened
          canceled,         \* the context has been canceled
          worker,           \* "select", "exited", or [entry, next store]
          dropped,          \* the counter
          main,             \* where runServe is
          tried             \* history: the <<entry, store>> a Log was called for

poolVars == <<handler, read, ch, closed, canceled, worker, dropped, main, tried>>

idle == [at |-> "select", entry |-> "none", store |-> 0]
exited == [at |-> "exited", entry |-> "none", store |-> 0]
Holding(e, s) == [at |-> "log", entry |-> e, store |-> s]

MoveHandler(h, to) == handler' = [handler EXCEPT ![h] = to]
MoveWorker(w, to) == worker' = [worker EXCEPT ![w] = to]

Running == main # "gone"
-----------------------------------------------------------------------------
PoolInit ==
    /\ handler = [h \in Handlers |-> "none"]
    /\ read = [h \in Handlers |-> 0]
    /\ ch = <<>> /\ closed = FALSE /\ canceled = FALSE
    /\ worker = [w \in Workers |-> idle]
    /\ dropped = 0
    /\ main = "serving"
    /\ tried = {}

\* A connection is accepted: not once the listener has been closed.
Accept(h) ==
    /\ main = "serving" /\ handler[h] = "none"
    /\ MoveHandler(h, "handling")
    /\ UNCHANGED <<read, ch, closed, canceled, worker, dropped, main, tried>>

\* Submit, with room in the buffer.
Enqueue(h) ==
    /\ Running /\ handler[h] = "handling" /\ ~closed
    /\ Len(ch) < Capacity
    /\ ch' = Append(ch, h)
    /\ MoveHandler(h, "queued")
    /\ UNCHANGED <<read, closed, canceled, worker, dropped, main, tried>>

\* Mutant: the send has no default and waits for room.
Overflow_Waits(h) ==
    /\ Running /\ handler[h] = "handling" /\ ~closed
    /\ Len(ch) > Capacity
    /\ read' = [read EXCEPT ![h] = dropped]
    /\ MoveHandler(h, "dropping")
    /\ UNCHANGED <<ch, closed, canceled, worker, dropped, main, tried>>

\* Submit, with the buffer full: dropped++ loads and stores the counter with
\* nothing to keep other handlers from doing so in between.
Overflow(h) ==
    /\ Running /\ handler[h] = "handling" /\ ~closed
    /\ Len(ch) = Capacity
    /\ read' = [read EXCEPT ![h] = dropped]
    /\ MoveHandler(h, "dropping")
    /\ UNCHANGED <<ch, closed, canceled, worker, dropped, main, tried>>

Drop(h) ==
    /\ Running /\ handler[h] = "dropping"
    /\ dropped' = read[h] + 1
    /\ MoveHandler(h, "dropped")
    /\ UNCHANGED <<read, ch, closed, canceled, worker, main, tried>>

\* Submit to the closed channel panics; the Recoverer ends the handler.
Panic(h) ==
    /\ Running /\ handler[h] = "handling" /\ closed
    /\ MoveHandler(h, "panicked")
    /\ UNCHANGED <<read, ch, closed, canceled, worker, dropped, main, tried>>
-----------------------------------------------------------------------------
\* The select receives; with the context canceled it may do so or not.
Take(w) ==
    /\ Running /\ worker[w] = idle /\ ch # <<>>
    /\ ch' = Tail(ch)
    /\ MoveWorker(w, Holding(Head(ch), 1))
    /\ UNCHANGED <<handler, read, closed, canceled, dropped, main, tried>>

\* Mutant: an entry that one store rejects is given up.
LogTo_StopsAtError(w) ==
    LET e == worker[w].entry  s == worker[w].store IN
    /\ Running /\ worker[w].at = "log"
    /\ tried' = tried \cup {<<e, Stores[s]>>}
    /\ \/ MoveWorker(w, IF s < Len(Stores) THEN Holding(e, s + 1) ELSE idle)
       \/ MoveWorker(w, idle)
    /\ UNCHANGED <<handler, read, ch, closed, canceled, dropped, main>>

\* Mutant: a store that fails is asked again, for ever.
LogTo_Retries(w) ==
    LET e == worker[w].entry  s == worker[w].store IN
    /\ Running /\ worker[w].at = "log"
    /\ tried' = tried \cup {<<e, Stores[s]>>}
    /\ UNCHANGED <<handler, read, ch, closed, canceled, worker, dropped, main>>

\* Mutant: a worker looks at its context between two stores as well.
LogTo_StopsWhenCanceled(w) ==
    LET e == worker[w].entry  s == worker[w].store IN
    /\ Running /\ worker[w].at = "log"
    /\ tried' = tried \cup {<<e, Stores[s]>>}
    /\ MoveWorker(w, IF s < Len(Stores) /\ ~canceled THEN Holding(e, s + 1) ELSE idle)
    /\ UNCHANGED <<handler, read, ch, closed, canceled, dropped, main>>

\* One store.Log returns, with or without an error, which a canceled context
\* may be the cause of: the next store follows.
LogTo(w) ==
    LET e == worker[w].entry  s == worker[w].store IN
    /\ Running /\ worker[w].at = "log"
    /\ tried' = tried \cup {<<e, Stores[s]>>}
    /\ MoveWorker(w, IF s < Len(Stores) THEN Holding(e, s + 1) ELSE idle)
    /\ UNCHANGED <<handler, read, ch, closed, canceled, dropped, main>>

\* The select finds the context canceled, or the channel closed and drained.
Exit(w) ==
    /\ Running /\ worker[w] = idle
    /\ canceled \/ (closed /\ ch = <<>>)
    /\ MoveWorker(w, exited)
    /\ UNCHANGED <<handler, read, ch, closed, canceled, dropped, main, tried>>
-----------------------------------------------------------------------------
\* The signal: Shutdown closes the listener, ListenAndServe returns at once,
\* and the deferred srv.Close runs while handlers are still at work.
Shutdown ==
    /\ main = "serving"
    /\ main' = "closing"
    /\ UNCHANGED <<handler, read, ch, closed, canceled, worker, dropped, tried>>

CloseChannel ==
    /\ main = "closing" /\ ~closed
    /\ closed' = TRUE
    /\ UNCHANGED <<handler, read, ch, canceled, worker, dropped, main, tried>>

Cancel ==
    /\ main = "closing" /\ closed
    /\ canceled' = TRUE
    /\ main' = "waiting"
    /\ UNCHANGED <<handler, read, ch, closed, worker, dropped, tried>>

\* wg.Wait returns, runServe returns, and the process ends.
Leave ==
    /\ main = "waiting" /\ \A w \in Workers : worker[w] = exited
    /\ main' = "gone"
    /\ UNCHANGED <<handler, read, ch, closed, canceled, worker, dropped, tried>>

Submit(h) == Enqueue(h) \/ Overflow(h) \/ Drop(h) \/ Panic(h)
Work(w) == Take(w) \/ LogTo(w) \/ Exit(w)
Close == CloseChannel \/ Cancel \/ Leave

PoolNext ==
    \/ \E h \in Handlers : Accept(h) \/ Submit(h)
    \/ \E w \in Workers : Work(w)
    \/ Shutdown \/ Close

PoolSpec == PoolInit /\ [][PoolNext]_poolVars

\* The handlers are scheduled. What the workers do is up to the stores, which
\* may hang; nothing is assumed of them here.
PoolFairSpec == PoolSpec /\ \A h \in Handlers : WF_poolVars(Submit(h))

\* The stores answer, so that the workers run, and so does main.
StoresAnswer == (\A w \in Workers : WF_poolVars(Work(w))) /\ WF_poolVars(Close)
-----------------------------------------------------------------------------
Places == {"none", "handling", "queued", "dropping", "dropped", "panicked"}

PoolTypeOK ==
    /\ handler \in [Handlers -> Places]
    /\ read \in [Handlers -> Nat]
    /\ ch \in Seq(Handlers) /\ Len(ch) <= Capacity
    /\ closed \in BOOLEAN /\ canceled \in BOOLEAN
    /\ worker \in [Workers -> {idle, exited} \cup
                      {Holding(e, s) : e \in Handlers, s \in 1 .. Len(Stores)}]
    /\ dropped \in Nat
    /\ main \in {"serving", "closing", "waiting", "gone"}
    /\ tried \subseteq Handlers \X ToSet(Stores)

\* An entry that was accepted is in the channel, with a worker, or has been
\* offered to every store: a store that fails costs the others nothing, and
\* nothing is lost in silence, until the pool is closed with entries in it.
Held(e) == {w \in Workers : worker[w].at = "log" /\ worker[w].entry = e}
InBuffer(e) == {n \in DOMAIN ch : ch[n] = e}
Offered(e) == \A s \in ToSet(Stores) : <<e, s>> \in tried
AcceptedIsKept ==
    \A e \in Handlers : handler[e] = "queued" =>
        InBuffer(e) # {} \/ Held(e) # {} \/ Offered(e)

\* A worker that is canceled in the middle of its round still finishes it, and
\* Close waits for it: when runServe has returned, an entry has been offered to
\* every store or to none, so that the database and the log name the same
\* requests as far as their own errors let them.
StoresAgree ==
    main = "gone" => \A e \in Handlers, s, t \in ToSet(Stores) :
                         <<e, s>> \in tried => <<e, t>> \in tried

\* Logging never holds up a response: even with every store hanging, a handler
\* that submits is done, by enqueueing, dropping or, at shutdown, panicking.
SubmitReturns ==
    \A h \in Handlers : (handler[h] \in {"handling", "dropping"} /\ Running) ~>
        (handler[h] \notin {"handling", "dropping"} \/ ~Running)

\* Close returns as long as the stores answer: each worker reaches its select
\* again and leaves, whatever is still in the channel.
CloseReturns == StoresAnswer => (main = "closing" ~> main = "gone")

\* recordRequest hands the entry to the pool, which persists it: what was
\* accepted has been offered to every store by the time the process ends.
AcceptedIsPersisted ==
    main = "gone" => \A e \in Handlers : handler[e] = "queued" => Offered(e)
=============================================================================
