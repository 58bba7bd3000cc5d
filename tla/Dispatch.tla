------------------------------ MODULE Dispatch ------------------------------
(* The fallback loops of internal/proxy: completeWithFallback (batch) and    *)
(* streamWithFallback. Each request is a goroutine that walks its own chain  *)
(* of models; the health tracker and the model limiter are shared, and other *)
(* requests, the clock and the upstreams move between any two of its steps.  *)
(* A step is a stretch of code between two of: a method of a shared tracker, *)
(* an answer of the upstream.                                                *)
EXTENDS Health, ModelCooldown, SequencesExt

CONSTANTS Requests,         \* the handler goroutines
          Plans,            \* the route decisions: [primary, fallbacks]
          Served,           \* the models whose provider has a client
          UpstreamErrors,   \* the error kinds the upstreams answer with
          MaxChunks         \* bound of the model: chunks in one stream

ASSUME DispatchAssumption ==
    /\ Plans \subseteq [primary : Models, fallbacks : Seq(Models)]
    /\ Served \subseteq Models
    /\ UpstreamErrors \subseteq ErrorKind
    /\ MaxChunks \in Nat \ {0}

VARIABLES pc,
          stream,           \* req.Stream
          chain,            \* decision.Model, then decision.FallbackChain
          i,                \* the loop index
          callErr,          \* the error of the call that just failed
          lastErr,          \* lastErr, "None" for nil
          openIters,        \* stream iterators opened and not yet closed
          wire,             \* what the client has been sent
          visits            \* history: what became of each model, in turn

reqVars == <<pc, stream, chain, i, callErr, lastErr, openIters, wire, visits>>
vars == <<now, failures, lastFailureAt, coolUntil, reqVars>>
-----------------------------------------------------------------------------
\* errEmpty is the failure of a stream that ends before its first chunk: a
\* ServerError to the tracker, and never lastErr.
errEmpty == "EmptyStream"
errNoModels == "NoModelsInChain"

FailureKind == UpstreamErrors \cup {errEmpty}
AnswerError == ErrorKind \cup {errNoModels}

Chunk(m)   == [event |-> "chunk", of |-> m]
Reply(m)   == [event |-> "reply", of |-> m]
Problem(e) == [event |-> "error", of |-> e]
DONE       == [event |-> "DONE", of |-> "end"]

Outcome == FailureKind \cup {"Auth", "ok", "unhealthy", "cooling"}

Events == [event : {"chunk", "reply"}, of : Models]
            \cup [event : {"error"}, of : AnswerError] \cup {DONE}

PC == {"idle", "gate", "limiter", "call", "probe", "relay",
       "succeeded", "failed", "limited", "answered"}

model(r) == chain[r][i[r]]

\* Mutant: the loop forgets that it has committed.
Committed_Never(r) == FALSE

\* The first chunk has been written: no fallback any more.
Committed(r) == wire[r] # <<>>

Goto(r, label) == pc' = [pc EXCEPT ![r] = label]
Send(r, events) == wire' = [wire EXCEPT ![r] = @ \o events]
Visit(r, outcome) ==
    visits' = [visits EXCEPT ![r] = Append(@, [model |-> model(r), outcome |-> outcome])]

\* Mutant: the error event is not followed by [DONE].
SendError_NoDone(r, e) == Send(r, <<Problem(e)>>)

\* writeError of the handler, or writeStreamError.
SendError(r, e) ==
    Send(r, IF stream[r] THEN <<Problem(e), DONE>> ELSE <<Problem(e)>>)

NextModel(r, e) == /\ i' = [i EXCEPT ![r] = @ + 1]
                   /\ lastErr' = [lastErr EXCEPT ![r] = e]
                   /\ Goto(r, "gate")
-----------------------------------------------------------------------------
Init == /\ ClockInit /\ HealthInit /\ CooldownInit
        /\ pc = [r \in Requests |-> "idle"]
        /\ stream = [r \in Requests |-> FALSE]
        /\ chain = [r \in Requests |-> <<>>]
        /\ i = [r \in Requests |-> 1]
        /\ callErr = [r \in Requests |-> "None"]
        /\ lastErr = [r \in Requests |-> "None"]
        /\ openIters = [r \in Requests |-> 0]
        /\ wire = [r \in Requests |-> <<>>]
        /\ visits = [r \in Requests |-> <<>>]

\* The router's decision; its last act is to order the fallbacks by health.
Route(r) ==
    /\ pc[r] = "idle"
    /\ \E p \in Plans, s \in BOOLEAN :
         /\ chain' = [chain EXCEPT ![r] = <<p.primary>> \o Order(p.fallbacks)]
         /\ stream' = [stream EXCEPT ![r] = s]
    /\ Goto(r, "gate")
    /\ UNCHANGED <<now, healthVars, coolUntil, i, callErr, lastErr, openIters,
                   wire, visits>>

\* Health.Available says yes: on to the limiter.
PassHealth(r) ==
    /\ pc[r] = "gate" /\ i[r] <= Len(chain[r])
    /\ Available(model(r))
    /\ Goto(r, "limiter")
    /\ UNCHANGED <<now, healthVars, coolUntil, stream, chain, i, callErr,
                   lastErr, openIters, wire, visits>>

\* Mutant: continue without moving on to the next entry.
SkipUnhealthy_Spins(r) ==
    /\ pc[r] = "gate" /\ i[r] <= Len(chain[r])
    /\ ~Available(model(r))
    /\ lastErr' = [lastErr EXCEPT ![r] = "RateLimit"]
    /\ UNCHANGED <<now, healthVars, coolUntil, pc, stream, chain, i, callErr,
                   openIters, wire, visits>>

\* Mutant: the model is passed over without setting lastErr.
SkipUnhealthy_Silent(r) ==
    /\ pc[r] = "gate" /\ i[r] <= Len(chain[r])
    /\ ~Available(model(r))
    /\ NextModel(r, lastErr[r])
    /\ Visit(r, "unhealthy")
    /\ UNCHANGED <<now, healthVars, coolUntil, stream, chain, callErr,
                   openIters, wire>>

\* Health.Available says no: the model is passed over.
SkipUnhealthy(r) ==
    /\ pc[r] = "gate" /\ i[r] <= Len(chain[r])
    /\ ~Available(model(r))
    /\ NextModel(r, "RateLimit")
    /\ Visit(r, "unhealthy")
    /\ UNCHANGED <<now, healthVars, coolUntil, stream, chain, callErr,
                   openIters, wire>>

SkipLimited(r) ==
    /\ pc[r] = "limiter"
    /\ CheckRefuses(model(r))
    /\ NextModel(r, "RateLimit")
    /\ Visit(r, "cooling")
    /\ UNCHANGED <<now, healthVars, stream, chain, callErr, openIters, wire>>

\* The limiter agrees and pickProvider finds a client: the call goes out.
CallUpstream(r) ==
    /\ pc[r] = "limiter"
    /\ CheckAllows(model(r))
    /\ model(r) \in Served
    /\ Goto(r, "call")
    /\ UNCHANGED <<now, healthVars, stream, chain, i, callErr, lastErr,
                   openIters, wire, visits>>

\* The limiter agrees but no client serves the model, which is fatal and
\* counts against nobody's health.
NoClient(r) ==
    /\ pc[r] = "limiter"
    /\ CheckAllows(model(r))
    /\ model(r) \notin Served
    /\ lastErr' = [lastErr EXCEPT ![r] = "Auth"]
    /\ SendError(r, "Auth")
    /\ Visit(r, "Auth")
    /\ Goto(r, "answered")
    /\ UNCHANGED <<now, healthVars, stream, chain, i, callErr, openIters>>

\* Complete returns a response, or Stream an iterator to probe.
CallReturns(r) ==
    /\ pc[r] = "call"
    /\ IF stream[r]
       THEN /\ openIters' = [openIters EXCEPT ![r] = @ + 1]
            /\ Goto(r, "probe")
            /\ UNCHANGED visits
       ELSE /\ Goto(r, "succeeded")
            /\ Visit(r, "ok")
            /\ UNCHANGED openIters
    /\ UNCHANGED <<now, healthVars, coolUntil, stream, chain, i, callErr,
                   lastErr, wire>>

\* Complete or Stream returns an error.
CallFails(r) ==
    /\ pc[r] = "call"
    /\ \E e \in UpstreamErrors : /\ callErr' = [callErr EXCEPT ![r] = e]
                                 /\ Visit(r, e)
    /\ Goto(r, "failed")
    /\ UNCHANGED <<now, healthVars, coolUntil, stream, chain, i, lastErr,
                   openIters, wire>>

\* The first Next brings a chunk, and the request commits to this model.
ProbeCommits(r) ==
    /\ pc[r] = "probe"
    /\ Send(r, <<Chunk(model(r))>>)
    /\ Goto(r, "relay")
    /\ UNCHANGED <<now, healthVars, coolUntil, stream, chain, i, callErr,
                   lastErr, openIters, visits>>

\* Mutant: the iterator of a failed probe is left open.
ProbeFails_Leaks(r) ==
    /\ pc[r] = "probe"
    /\ \E e \in FailureKind : /\ callErr' = [callErr EXCEPT ![r] = e]
                              /\ Visit(r, e)
    /\ Goto(r, "failed")
    /\ UNCHANGED <<now, healthVars, coolUntil, stream, chain, i, lastErr,
                   openIters, wire>>

\* The first Next brings an error or the end of the stream.
ProbeFails(r) ==
    /\ pc[r] = "probe"
    /\ openIters' = [openIters EXCEPT ![r] = @ - 1]
    /\ \E e \in FailureKind : /\ callErr' = [callErr EXCEPT ![r] = e]
                              /\ Visit(r, e)
    /\ Goto(r, "failed")
    /\ UNCHANGED <<now, healthVars, coolUntil, stream, chain, i, lastErr, wire>>

RelayChunk(r) ==
    /\ pc[r] = "relay"
    /\ Len(wire[r]) < MaxChunks
    /\ Send(r, <<Chunk(model(r))>>)
    /\ UNCHANGED <<now, healthVars, coolUntil, pc, stream, chain, i, callErr,
                   lastErr, openIters, visits>>

RelayEnds(r) ==
    /\ pc[r] = "relay"
    /\ Send(r, <<DONE>>)
    /\ openIters' = [openIters EXCEPT ![r] = @ - 1]
    /\ Visit(r, "ok")
    /\ Goto(r, "succeeded")
    /\ UNCHANGED <<now, healthVars, coolUntil, stream, chain, i, callErr, lastErr>>

RelayFails(r) ==
    /\ pc[r] = "relay"
    /\ \E e \in UpstreamErrors : /\ SendError(r, e)
                                 /\ callErr' = [callErr EXCEPT ![r] = e]
                                 /\ Visit(r, e)
    /\ openIters' = [openIters EXCEPT ![r] = @ - 1]
    /\ Goto(r, "failed")
    /\ UNCHANGED <<now, healthVars, coolUntil, stream, chain, i, lastErr>>

\* Health.RecordSuccess; a batch response goes out after it.
Succeed(r) ==
    /\ pc[r] = "succeeded"
    /\ RecordSuccess(model(r))
    /\ IF stream[r] THEN UNCHANGED wire ELSE Send(r, <<Reply(model(r))>>)
    /\ Goto(r, "answered")
    /\ UNCHANGED <<now, coolUntil, stream, chain, i, callErr, lastErr,
                   openIters, visits>>

\* Mutant: every failure before the first chunk moves on to the next model.
Resume_AlwaysCascades(r) ==
    \/ /\ Committed(r)
       /\ Goto(r, "answered")
       /\ UNCHANGED <<i, lastErr, wire>>
    \/ /\ ~Committed(r)
       /\ NextModel(r, IF callErr[r] = errEmpty THEN lastErr[r] ELSE callErr[r])
       /\ UNCHANGED wire

\* What the loop does with a failure once it has been recorded: a committed
\* stream is over, an empty one or a transient error moves on to the next
\* model, and a fatal error goes to the client.
Resume(r) ==
    \/ /\ Committed(r)
       /\ Goto(r, "answered")
       /\ UNCHANGED <<i, lastErr, wire>>
    \/ /\ ~Committed(r)
       /\ callErr[r] = errEmpty
       /\ NextModel(r, lastErr[r])
       /\ UNCHANGED wire
    \/ /\ ~Committed(r)
       /\ IsTransient(callErr[r])
       /\ NextModel(r, callErr[r])
       /\ UNCHANGED wire
    \/ /\ ~Committed(r)
       /\ callErr[r] # errEmpty /\ ~IsTransient(callErr[r])
       /\ lastErr' = [lastErr EXCEPT ![r] = callErr[r]]
       /\ SendError(r, callErr[r])
       /\ Goto(r, "answered")
       /\ UNCHANGED i

\* recordFailure: the tracker first; a 429 goes on to the limiter.
Fail(r) ==
    /\ pc[r] = "failed"
    /\ RecordFailure(model(r))
    /\ IF callErr[r] = "RateLimit"
       THEN /\ Goto(r, "limited")
            /\ UNCHANGED <<i, lastErr, wire>>
       ELSE Resume(r)
    /\ UNCHANGED <<now, coolUntil, stream, chain, callErr, openIters, visits>>

CoolDown(r) ==
    /\ pc[r] = "limited"
    /\ RecordLimit(model(r))
    /\ Resume(r)
    /\ UNCHANGED <<now, healthVars, stream, chain, callErr, openIters, visits>>

\* Mutant: the last entry of the chain is not tried.
GiveUp_OneEarly(r) ==
    /\ pc[r] = "gate" /\ i[r] >= Len(chain[r])
    /\ SendError(r, IF lastErr[r] = "None" THEN errNoModels ELSE lastErr[r])
    /\ Goto(r, "answered")
    /\ UNCHANGED <<now, healthVars, coolUntil, stream, chain, i, callErr,
                   lastErr, openIters, visits>>

\* The chain is used up.
GiveUp(r) ==
    /\ pc[r] = "gate" /\ i[r] > Len(chain[r])
    /\ SendError(r, IF lastErr[r] = "None" THEN errNoModels ELSE lastErr[r])
    /\ Goto(r, "answered")
    /\ UNCHANGED <<now, healthVars, coolUntil, stream, chain, i, callErr,
                   lastErr, openIters, visits>>
-----------------------------------------------------------------------------
PassTime == Tick /\ UNCHANGED <<healthVars, coolUntil, reqVars>>

\* The loop's own steps, which only the scheduler can hold up.
Loop(r) == \/ PassHealth(r) \/ SkipUnhealthy(r)
           \/ SkipLimited(r) \/ CallUpstream(r) \/ NoClient(r)
           \/ Succeed(r) \/ Fail(r) \/ CoolDown(r) \/ GiveUp(r)

\* The upstream's answers to Complete and Stream, and to Next.
Answer(r) == CallReturns(r) \/ CallFails(r)
Feed(r) == \/ ProbeCommits(r) \/ ProbeFails(r)
           \/ RelayChunk(r) \/ RelayEnds(r) \/ RelayFails(r)

Next == \/ PassTime
        \/ \E r \in Requests : Route(r) \/ Loop(r) \/ Answer(r) \/ Feed(r)

Spec == Init /\ [][Next]_vars

\* A batch call carries PerCallTimeout, so it always returns; nothing bounds a
\* stream, which may stay silent for ever.
Fairness == \A r \in Requests :
              /\ WF_vars(Loop(r))
              /\ WF_vars(~stream[r] /\ Answer(r))

FairSpec == Spec /\ Fairness
-----------------------------------------------------------------------------
TypeOK ==
    /\ now \in Time /\ HealthTypeOK /\ CooldownTypeOK
    /\ pc \in [Requests -> PC]
    /\ stream \in [Requests -> BOOLEAN]
    /\ chain \in [Requests -> Seq(Models)]
    /\ i \in [Requests -> Nat \ {0}]
    /\ callErr \in [Requests -> FailureKind \cup {"None"}]
    /\ lastErr \in [Requests -> ErrorKind \cup {"None"}]
    /\ openIters \in [Requests -> Int]
    /\ wire \in [Requests -> Seq(Events)]
    /\ visits \in [Requests -> Seq([model : Models, outcome : Outcome])]

\* Everything the client is sent comes from one model, the one the loop stands
\* at: a stream that has begun is never continued by a fallback, however it
\* ends (streamWithFallback commits at its first chunk).
OneVoice ==
    \A r \in Requests : \A k \in DOMAIN wire[r] :
        wire[r][k].event \in {"chunk", "reply"} =>
            /\ i[r] \in DOMAIN chain[r]
            /\ wire[r][k].of = model(r)

\* On every exit path a streaming client gets exactly one [DONE], at the very
\* end, and an error event, if any, right before it; a batch client gets one
\* response or one error.
WellFramed ==
    \A r \in Requests : pc[r] = "answered" =>
        IF stream[r]
        THEN /\ wire[r] # <<>>
             /\ \A k \in DOMAIN wire[r] :
                  /\ wire[r][k] = DONE <=> k = Len(wire[r])
                  /\ wire[r][k].event = "error" => k = Len(wire[r]) - 1
        ELSE /\ Len(wire[r]) = 1
             /\ wire[r][1].event \in {"reply", "error"}

\* An upstream stream is open exactly while the loop reads from it: each of the
\* five ways out of the probe and the relay closes it, once.
ItersClosed ==
    \A r \in Requests :
        openIters[r] = IF pc[r] \in {"probe", "relay"} THEN 1 ELSE 0

\* Only a model passed over, an empty stream or a transient error is followed
\* by another model: after a success or a fatal error the upstreams hear no
\* more of the request, so the client is never billed twice for an answer.
OnlyTransientCascades ==
    \A r \in Requests : \A k \in 1 .. Len(visits[r]) - 1 :
        \/ visits[r][k].outcome \in {"unhealthy", "cooling", errEmpty}
        \/ IsTransient(visits[r][k].outcome)

\* Cascading stops at the first answer and not before the chain's end: a
\* request refused for a transient reason has visited each model of its chain
\* once, in chain order.
ChainExhausted ==
    \A r \in Requests :
        (/\ pc[r] = "answered"
         /\ \E e \in AnswerError : /\ e = errNoModels \/ IsTransient(e)
                                   /\ wire[r][1] = Problem(e)) =>
            [k \in DOMAIN visits[r] |-> visits[r][k].model] = chain[r]

\* The error a refused client reads is that of the last model that gave one:
\* 429 for a model passed over, never the error of an earlier model that a
\* later one superseded. An empty stream gives none: a chain of them is refused
\* as one that holds no models.
Blame(outcome) == IF outcome \in {"unhealthy", "cooling"} THEN "RateLimit" ELSE outcome
Said(r) == {k \in DOMAIN visits[r] : visits[r][k].outcome # errEmpty}
Blames(r) == IF Said(r) = {} THEN errNoModels ELSE Blame(visits[r][Max(Said(r))].outcome)
LastErrorReported ==
    \A r \in Requests : \A e \in AnswerError :
        (pc[r] = "answered" /\ wire[r] # <<>> /\ wire[r][1] = Problem(e)) =>
            e = Blames(r)

\* A model is passed over only for what it did itself: MaxFailures failures,
\* or a 429, of that very model in some request. A storm against one provider
\* never makes another unreachable.
FailuresOf(m, kinds) ==
    UNION {{<<q, k>> : k \in {j \in DOMAIN visits[q] :
                               /\ visits[q][j].model = m
                               /\ visits[q][j].outcome \in kinds}} : q \in Requests}
SkipsAreEarned ==
    \A r \in Requests : \A k \in DOMAIN visits[r] :
        LET v == visits[r][k] IN
        /\ v.outcome = "unhealthy" =>
               Cardinality(FailuresOf(v.model, FailureKind)) >= MaxFailures
        /\ v.outcome = "cooling" => FailuresOf(v.model, {"RateLimit"}) # {}

\* The fallbacks leave the router as a permutation of the configured ones in
\* which a model with fewer recent failures precedes one with more, and models
\* failing alike keep their places (Tracker.Order, at the moment of routing).
RoutedByHealth ==
    [][\A r \in Requests : (pc[r] = "idle" /\ pc'[r] = "gate") =>
        \E p \in Plans : \E place \in Bijection(DOMAIN p.fallbacks, DOMAIN p.fallbacks) :
            /\ Head(chain'[r]) = p.primary
            /\ Len(chain'[r]) = 1 + Len(p.fallbacks)
            /\ \A a \in DOMAIN p.fallbacks : chain'[r][1 + place[a]] = p.fallbacks[a]
            /\ \A a, b \in DOMAIN p.fallbacks :
                 LET x == Score(p.fallbacks[a])  y == Score(p.fallbacks[b])
                 IN  (x < y \/ (x = y /\ a < b)) => place[a] < place[b]]_vars

\* The package comment of health: unhealthy models are tried last, but tried.
\* A request whose chain is used up has passed over no model for its health.
UnhealthyTriedLast ==
    \A r \in Requests : (pc[r] = "answered" /\ i[r] > Len(chain[r])) =>
        \A k \in DOMAIN visits[r] : visits[r][k].outcome # "unhealthy"

\* Every batch request is answered, whatever the upstreams do and however many
\* streams of other requests hang.
BatchAnswered ==
    \A r \in Requests : (pc[r] = "gate" /\ ~stream[r]) ~> pc[r] = "answered"
=============================================================================
