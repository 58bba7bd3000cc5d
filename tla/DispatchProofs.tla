--------------------------- MODULE DispatchProofs ---------------------------
(* The fallback loops for any number of requests, any models, chains, error  *)
(* kinds, clock and tracker settings. The invariant IInv says of each request*)
(* what its place in the loop implies; a step of one request touches no      *)
(* other, so it is proved action by action for the request that moves.       *)
(* First, what Tracker.Order returns, for every record the tracker may hold  *)
(* and every list of candidates: a stable sort of them by recent failures.   *)
(* Last, the walks: a second invariant, WalksInv, on top of the first, says  *)
(* which models a request has visited and what the trackers may hold of them.*)
EXTENDS Dispatch, FiniteSetTheorems, FunctionTheorems, SequenceTheorems, TLAPS

\* A score is a number of failures, whatever the clock says.
LEMMA ScoreType ==
    ASSUME HealthTypeOK, NEW m \in Models
    PROVE  Score(m) \in Nat
BY DEF HealthTypeOK, Score

\* Of two different candidates one precedes the other, and never both; what
\* precedes a candidate precedes all that it precedes.
LEMMA PrecedesIsTotalOrder ==
    ASSUME HealthTypeOK, NEW c \in Seq(Models),
           NEW a \in DOMAIN c, NEW b \in DOMAIN c
    PROVE  /\ ~Precedes(c, a, a)
           /\ a # b => (Precedes(c, a, b) \/ Precedes(c, b, a))
           /\ \A d \in DOMAIN c :
                 (Precedes(c, d, a) /\ Precedes(c, a, b)) => Precedes(c, d, b)
<1>1. DOMAIN c = 1 .. Len(c) /\ Len(c) \in Nat
  BY LenProperties
<1>2. \A d \in DOMAIN c : c[d] \in Models /\ Score(c[d]) \in Nat /\ d \in Int
  BY <1>1, ScoreType, ElementOfSeq
<1> QED
  BY <1>2 DEF Precedes

\* The places of the candidates are a permutation that respects the order.
LEMMA PlaceIsBijection ==
    ASSUME HealthTypeOK, NEW c \in Seq(Models)
    PROVE  LET place == [a \in DOMAIN c |-> Place(c, a)]
           IN  /\ place \in Bijection(DOMAIN c, DOMAIN c)
               /\ \A a, b \in DOMAIN c : Precedes(c, a, b) => place[a] < place[b]
<1> DEFINE D == DOMAIN c
           before(a) == {b \in D : Precedes(c, b, a)}
           place == [a \in D |-> Place(c, a)]
<1>1. D = 1 .. Len(c) /\ Len(c) \in Nat
  BY LenProperties
<1>2. IsFiniteSet(D) /\ Cardinality(D) = Len(c)
  BY <1>1, FS_Interval
<1>3. ASSUME NEW a \in D
      PROVE  /\ IsFiniteSet(before(a))
             /\ Cardinality(before(a)) \in Nat
             /\ place[a] = 1 + Cardinality(before(a))
             /\ place[a] \in D
  <2>1. before(a) \in SUBSET (D \ {a})
    BY PrecedesIsTotalOrder
  <2>2. IsFiniteSet(D \ {a}) /\ Cardinality(D \ {a}) = Len(c) - 1
    BY <1>2, FS_RemoveElement
  <2>3. /\ IsFiniteSet(before(a))
        /\ Cardinality(before(a)) <= Len(c) - 1
    BY <2>1, <2>2, FS_Subset
  <2>4. Cardinality(before(a)) \in Nat
    BY <2>3, FS_CardinalityType
  <2> QED
    BY <1>1, <2>3, <2>4 DEF Place
<1>4. ASSUME NEW a \in D, NEW b \in D, Precedes(c, a, b)
      PROVE  place[a] < place[b]
  <2>1. before(a) \in SUBSET before(b)
    BY <1>4, PrecedesIsTotalOrder
  <2>2. a \in before(b) /\ a \notin before(a)
    BY <1>4, PrecedesIsTotalOrder
  <2>3. Cardinality(before(a)) < Cardinality(before(b))
    <3>1. /\ Cardinality(before(a)) <= Cardinality(before(b))
          /\ Cardinality(before(b)) = Cardinality(before(a)) => before(b) = before(a)
      BY <1>3, <2>1, FS_Subset
    <3>2. Cardinality(before(a)) \in Nat /\ Cardinality(before(b)) \in Nat
      BY <1>3, Zenon
    <3> QED
      BY <3>1, <3>2, <2>2
  <2>4. /\ place[a] = 1 + Cardinality(before(a))
        /\ place[b] = 1 + Cardinality(before(b))
    BY <1>3
  <2>5. Cardinality(before(a)) \in Nat /\ Cardinality(before(b)) \in Nat
    BY <1>3, Zenon
  <2> HIDE DEF place, before
  <2> QED
    BY <2>3, <2>4, <2>5
<1>5. place \in Injection(D, D)
  <2>1. place \in [D -> D]
    BY <1>3
  <2>2. ASSUME NEW a \in D, NEW b \in D, a # b PROVE place[a] # place[b]
    <3>1. place[a] \in D /\ place[b] \in D
      BY <1>3
    <3>2. place[a] < place[b] \/ place[b] < place[a]
      BY <2>2, <1>4, PrecedesIsTotalOrder
    <3> HIDE DEF place
    <3> QED
      BY <1>1, <3>1, <3>2
  <2> QED
    BY <2>1, <2>2 DEF Injection, IsInjective
<1>6. place \in Surjection(D, D)
  BY <1>2, <1>5, FS_Injection
<1> QED
  BY <1>4, <1>5, <1>6 DEF Bijection

\* Order: the candidates it is given, permuted so that a model with fewer recent
\* failures precedes one with more and models failing alike keep their places.
\* The router's fallbacks are reordered by it and never lost or repeated.
THEOREM OrderIsStableSort ==
    ASSUME HealthTypeOK, NEW c \in Seq(Models)
    PROVE  /\ Order(c) \in Seq(Models)
           /\ Len(Order(c)) = Len(c)
           /\ \E place \in Bijection(DOMAIN c, DOMAIN c) :
                /\ \A a \in DOMAIN c : Order(c)[place[a]] = c[a]
                /\ \A a, b \in DOMAIN c : Precedes(c, a, b) => place[a] < place[b]
<1> DEFINE D == DOMAIN c
           place == [a \in D |-> Place(c, a)]
           pick(k) == CHOOSE a \in D : Place(c, a) = k
<1>1. D = 1 .. Len(c) /\ Len(c) \in Nat
  BY LenProperties
<1>2. /\ place \in Bijection(D, D)
      /\ \A a, b \in D : Precedes(c, a, b) => place[a] < place[b]
  BY PlaceIsBijection
<1>3. ASSUME NEW k \in D PROVE pick(k) \in D /\ Place(c, pick(k)) = k
  <2>1. \E a \in D : Place(c, a) = k
    BY <1>2 DEF Bijection, Surjection
  <2> QED
    BY <2>1
<1>4. Order(c) \in [1 .. Len(c) -> Models]
  <2>1. \A k \in D : c[pick(k)] \in Models
    BY <1>1, <1>3, ElementOfSeq
  <2> QED
    BY <1>1, <2>1 DEF Order
<1>5. Order(c) \in Seq(Models) /\ Len(Order(c)) = Len(c)
  BY <1>1, <1>4
<1>6. ASSUME NEW a \in D PROVE Order(c)[place[a]] = c[a]
  <2>1. place[a] \in D
    BY <1>2 DEF Bijection, Injection
  <2>2. pick(place[a]) \in D /\ place[pick(place[a])] = place[a]
    BY <1>3, <2>1
  <2>3. pick(place[a]) = a
    BY <1>2, <2>2 DEF Bijection, Injection, IsInjective
  <2> QED
    BY <2>1, <2>3 DEF Order
<1> QED
  BY <1>2, <1>5, <1>6
-----------------------------------------------------------------------------

Cascades(outcome) ==
    outcome \in {"unhealthy", "cooling", errEmpty} \/ IsTransient(outcome)

\* Where the loop stands at a model of the chain.
Located(r) ==
    pc[r] \in {"limiter", "call", "probe", "relay", "succeeded", "failed", "limited"} =>
        i[r] \in DOMAIN chain[r]

\* The client has read the chunks of this model and no others.
Voice(r, k) == i[r] \in DOMAIN chain[r] /\ wire[r][k] = Chunk(model(r))

StreamOver(r) ==
    /\ wire[r] # <<>> /\ wire[r][Len(wire[r])] = DONE
    /\ \A k \in 1 .. Len(wire[r]) - 1 :
         Voice(r, k) \/ (k = Len(wire[r]) - 1 /\ wire[r][k].event = "error")

BatchOver(r) ==
    /\ Len(wire[r]) = 1
    /\ \/ i[r] \in DOMAIN chain[r] /\ wire[r][1] = Reply(model(r))
       \/ wire[r][1].event = "error"

WireInv(r) ==
    /\ pc[r] \in {"idle", "gate", "limiter", "call", "probe"} => wire[r] = <<>>
    /\ pc[r] = "probe" => stream[r]
    /\ pc[r] = "relay" => /\ stream[r] /\ wire[r] # <<>>
                          /\ \A k \in DOMAIN wire[r] : Voice(r, k)
    /\ pc[r] = "succeeded" => IF stream[r] THEN StreamOver(r) ELSE wire[r] = <<>>
    /\ pc[r] \in {"failed", "limited"} =>
           wire[r] = <<>> \/ (stream[r] /\ StreamOver(r))
    /\ pc[r] = "answered" => IF stream[r] THEN StreamOver(r) ELSE BatchOver(r)

\* Only the last visit can be one that ends the loop.
VisitInv(r) ==
    /\ \A k \in 1 .. Len(visits[r]) - 1 : Cascades(visits[r][k].outcome)
    /\ pc[r] \in {"idle", "gate", "limiter", "call", "probe", "relay"} =>
           \A k \in DOMAIN visits[r] : Cascades(visits[r][k].outcome)
    /\ pc[r] \in {"failed", "limited"} =>
           /\ callErr[r] # "None" /\ visits[r] # <<>>
           /\ visits[r][Len(visits[r])].outcome = callErr[r]

IterInv(r) == openIters[r] = IF pc[r] \in {"probe", "relay"} THEN 1 ELSE 0

ReqInv(r) == Located(r) /\ WireInv(r) /\ VisitInv(r) /\ IterInv(r)

IInv == TypeOK /\ \A r \in Requests : ReqInv(r)

\* A step of r leaves every other request as it was.
Local(r) == \A q \in Requests \ {r} :
    /\ pc'[q] = pc[q] /\ stream'[q] = stream[q] /\ chain'[q] = chain[q]
    /\ i'[q] = i[q] /\ callErr'[q] = callErr[q] /\ lastErr'[q] = lastErr[q]
    /\ openIters'[q] = openIters[q] /\ wire'[q] = wire[q] /\ visits'[q] = visits[q]
-----------------------------------------------------------------------------
\* A request none of whose variables change keeps its part of the invariant.
LEMMA FrameLemma ==
    ASSUME NEW r \in Requests, NEW q \in Requests \ {r}, ReqInv(q), Local(r)
    PROVE  ReqInv(q)'
<1>1. /\ pc'[q] = pc[q] /\ stream'[q] = stream[q] /\ chain'[q] = chain[q]
      /\ i'[q] = i[q] /\ callErr'[q] = callErr[q]
      /\ openIters'[q] = openIters[q] /\ wire'[q] = wire[q] /\ visits'[q] = visits[q]
  BY DEF Local
<1>2. Located(q)'
  BY <1>1 DEF ReqInv, Located
<1>3. WireInv(q)'
  BY <1>1 DEF ReqInv, WireInv, Voice, StreamOver, BatchOver, model
<1>4. VisitInv(q)'
  BY <1>1 DEF ReqInv, VisitInv
<1>5. IterInv(q)'
  BY <1>1 DEF ReqInv, IterInv
<1> QED
  BY <1>2, <1>3, <1>4, <1>5 DEF ReqInv

\* One more event on the wire of r.
LEMMA SendOne ==
    ASSUME TypeOK, NEW r \in Requests, NEW e \in Events, Send(r, <<e>>)
    PROVE  /\ wire' \in [Requests -> Seq(Events)]
           /\ \A q \in Requests \ {r} : wire'[q] = wire[q]
           /\ Len(wire'[r]) = Len(wire[r]) + 1 /\ wire'[r] # <<>>
           /\ wire'[r][Len(wire[r]) + 1] = e
           /\ \A k \in DOMAIN wire[r] : wire'[r][k] = wire[r][k]
<1>1. wire \in [Requests -> Seq(Events)]
  BY DEF TypeOK
<1>2. <<e>> \in Seq(Events) /\ Len(<<e>>) = 1 /\ <<e>>[1] = e
  OBVIOUS
<1>3. wire' = [wire EXCEPT ![r] = wire[r] \o <<e>>]
  BY DEF Send
<1>4. /\ wire[r] \o <<e>> \in Seq(Events)
      /\ Len(wire[r] \o <<e>>) = Len(wire[r]) + 1
      /\ \A k \in 1 .. Len(wire[r]) + 1 :
            (wire[r] \o <<e>>)[k] =
                IF k <= Len(wire[r]) THEN wire[r][k] ELSE <<e>>[k - Len(wire[r])]
  BY <1>1, <1>2, ConcatProperties
<1>5. wire'[r] = wire[r] \o <<e>> /\ \A q \in Requests \ {r} : wire'[q] = wire[q]
  BY <1>1, <1>3
<1>6. wire' \in [Requests -> Seq(Events)]
  BY <1>1, <1>3, <1>4
<1>7. Len(wire[r]) \in Nat /\ DOMAIN wire[r] = 1 .. Len(wire[r])
  BY <1>1, LenProperties
<1>8. wire'[r] # <<>>
  BY <1>1, <1>4, <1>5, <1>7, EmptySeq
<1>9. wire'[r][Len(wire[r]) + 1] = e
  BY <1>2, <1>4, <1>5, <1>7
<1> QED
  BY <1>4, <1>5, <1>6, <1>7, <1>8, <1>9

\* Two more events on the wire of r.
LEMMA SendTwo ==
    ASSUME TypeOK, NEW r \in Requests, NEW e \in Events, NEW d \in Events,
           Send(r, <<e, d>>)
    PROVE  /\ wire' \in [Requests -> Seq(Events)]
           /\ \A q \in Requests \ {r} : wire'[q] = wire[q]
           /\ Len(wire'[r]) = Len(wire[r]) + 2 /\ wire'[r] # <<>>
           /\ wire'[r][Len(wire[r]) + 1] = e /\ wire'[r][Len(wire[r]) + 2] = d
           /\ \A k \in DOMAIN wire[r] : wire'[r][k] = wire[r][k]
<1>1. wire \in [Requests -> Seq(Events)]
  BY DEF TypeOK
<1>2. <<e, d>> \in Seq(Events) /\ Len(<<e, d>>) = 2 /\ <<e, d>>[1] = e /\ <<e, d>>[2] = d
  OBVIOUS
<1>3. wire' = [wire EXCEPT ![r] = wire[r] \o <<e, d>>]
  BY DEF Send
<1>4. /\ wire[r] \o <<e, d>> \in Seq(Events)
      /\ Len(wire[r] \o <<e, d>>) = Len(wire[r]) + 2
      /\ \A k \in 1 .. Len(wire[r]) + 2 :
            (wire[r] \o <<e, d>>)[k] =
                IF k <= Len(wire[r]) THEN wire[r][k] ELSE <<e, d>>[k - Len(wire[r])]
  BY <1>1, <1>2, ConcatProperties
<1>5. wire'[r] = wire[r] \o <<e, d>> /\ \A q \in Requests \ {r} : wire'[q] = wire[q]
  BY <1>1, <1>3
<1>6. wire' \in [Requests -> Seq(Events)]
  BY <1>1, <1>3, <1>4
<1>7. Len(wire[r]) \in Nat /\ DOMAIN wire[r] = 1 .. Len(wire[r])
  BY <1>1, LenProperties
<1>8. wire'[r] # <<>>
  BY <1>1, <1>4, <1>5, <1>7, EmptySeq
<1>9. wire'[r][Len(wire[r]) + 1] = e /\ wire'[r][Len(wire[r]) + 2] = d
  BY <1>2, <1>4, <1>5, <1>7
<1> QED
  BY <1>4, <1>5, <1>6, <1>7, <1>8, <1>9

\* One more visit of r, to the model it stands at, after visits that cascade.
LEMMA VisitOne ==
    ASSUME TypeOK, NEW r \in Requests, NEW o \in Outcome,
           i[r] \in DOMAIN chain[r], Visit(r, o),
           \A k \in DOMAIN visits[r] : Cascades(visits[r][k].outcome)
    PROVE  /\ visits' \in [Requests -> Seq([model : Models, outcome : Outcome])]
           /\ \A q \in Requests \ {r} : visits'[q] = visits[q]
           /\ \A k \in 1 .. Len(visits'[r]) - 1 : Cascades(visits'[r][k].outcome)
           /\ Cascades(o) => \A k \in DOMAIN visits'[r] : Cascades(visits'[r][k].outcome)
           /\ visits'[r] # <<>> /\ visits'[r][Len(visits'[r])].outcome = o
<1> DEFINE Visited == [model : Models, outcome : Outcome]
           v == [model |-> model(r), outcome |-> o]
<1>1. visits \in [Requests -> Seq(Visited)]
  BY DEF TypeOK
<1>2. model(r) \in Models
  BY ElementOfSeq, LenProperties DEF TypeOK, model
<1>3. v \in Visited /\ v.outcome = o
  BY <1>2
<1>4. visits' = [visits EXCEPT ![r] = Append(visits[r], v)]
  BY DEF Visit
<1>5. visits'[r] = Append(visits[r], v) /\ \A q \in Requests \ {r} : visits'[q] = visits[q]
  BY <1>1, <1>4
<1> HIDE DEF v, Visited
<1>6. /\ Append(visits[r], v) \in Seq(Visited)
      /\ Append(visits[r], v) # <<>>
      /\ Len(Append(visits[r], v)) = Len(visits[r]) + 1
      /\ \A k \in 1 .. Len(visits[r]) : Append(visits[r], v)[k] = visits[r][k]
      /\ Append(visits[r], v)[Len(visits[r]) + 1] = v
  BY <1>1, <1>3, AppendProperties
<1>7. visits' \in [Requests -> Seq(Visited)]
  BY <1>1, <1>4, <1>6
<1>8. /\ DOMAIN visits[r] = 1 .. Len(visits[r]) /\ Len(visits[r]) \in Nat
      /\ DOMAIN visits'[r] = 1 .. Len(visits'[r])
  BY <1>1, <1>7, LenProperties
<1>9. \A k \in 1 .. Len(visits'[r]) - 1 : Cascades(visits'[r][k].outcome)
  BY <1>5, <1>6, <1>8
<1>10. visits'[r][Len(visits'[r])].outcome = o
  BY <1>3, <1>5, <1>6
<1>11. \A k \in DOMAIN visits'[r] : k \in 1 .. Len(visits'[r]) - 1 \/ k = Len(visits'[r])
  BY <1>5, <1>6, <1>8
<1> QED
  BY <1>5, <1>6, <1>7, <1>9, <1>10, <1>11 DEF Visited

\* The loop goes round once more.
LEMMA NextModelType ==
    ASSUME TypeOK, NEW r \in Requests, NEW e \in ErrorKind \cup {"None"}, NextModel(r, e)
    PROVE  /\ pc' \in [Requests -> PC] /\ pc'[r] = "gate"
           /\ i' \in [Requests -> Nat \ {0}]
           /\ lastErr' \in [Requests -> ErrorKind \cup {"None"}]
           /\ \A q \in Requests \ {r} :
                 pc'[q] = pc[q] /\ i'[q] = i[q] /\ lastErr'[q] = lastErr[q]
<1>1. pc' \in [Requests -> PC] /\ pc'[r] = "gate"
  BY DEF TypeOK, NextModel, Goto, PC
<1>2. i' \in [Requests -> Nat \ {0}]
  BY DEF TypeOK, NextModel
<1>3. lastErr' \in [Requests -> ErrorKind \cup {"None"}]
  BY DEF TypeOK, NextModel
<1>4. \A q \in Requests \ {r} : pc'[q] = pc[q] /\ i'[q] = i[q] /\ lastErr'[q] = lastErr[q]
  BY DEF TypeOK, NextModel, Goto
<1> QED
  BY <1>1, <1>2, <1>3, <1>4

-----------------------------------------------------------------------------
\* The router's decision: Order permutes the fallbacks, so the chain is one.
LEMMA RouteStep ==
    ASSUME TypeOK, NEW r \in Requests, ReqInv(r), Route(r)
    PROVE  TypeOK' /\ ReqInv(r)' /\ Local(r)
<1>1. chain' \in [Requests -> Seq(Models)] /\ stream' \in [Requests -> BOOLEAN]
  <2>1. PICK p \in Plans, s \in BOOLEAN :
          /\ chain' = [chain EXCEPT ![r] = <<p.primary>> \o Order(p.fallbacks)]
          /\ stream' = [stream EXCEPT ![r] = s]
    BY DEF Route
  <2>2. p.primary \in Models /\ p.fallbacks \in Seq(Models)
    BY DispatchAssumption
  <2>3. Order(p.fallbacks) \in Seq(Models) /\ <<p.primary>> \in Seq(Models)
    BY <2>2, OrderIsStableSort DEF TypeOK
  <2>4. <<p.primary>> \o Order(p.fallbacks) \in Seq(Models)
    BY <2>3, ConcatProperties
  <2> QED
    BY <2>1, <2>4 DEF TypeOK
<1>2. TypeOK'
  BY <1>1 DEF TypeOK, HealthTypeOK, CooldownTypeOK, Route, Goto, PC, healthVars
<1>3. Local(r)
  BY DEF Local, Route, Goto, TypeOK
<1>4. pc'[r] = "gate" /\ wire'[r] = wire[r] /\ visits'[r] = visits[r]
      /\ openIters'[r] = openIters[r]
  BY DEF Route, Goto, TypeOK
<1>5. ReqInv(r)'
  BY <1>4 DEF Route, ReqInv, Located, WireInv, VisitInv, IterInv
<1> QED
  BY <1>2, <1>3, <1>5

\* Passing the health gate changes the label alone.
LEMMA PassHealthStep ==
    ASSUME TypeOK, NEW r \in Requests, ReqInv(r), PassHealth(r)
    PROVE  TypeOK' /\ ReqInv(r)' /\ Local(r)
<1>1. TypeOK'
  BY DEF TypeOK, HealthTypeOK, CooldownTypeOK, PassHealth, Goto, PC, healthVars
<1>2. Local(r)
  BY DEF Local, PassHealth, Goto, TypeOK
<1>3. /\ pc[r] = "gate" /\ pc'[r] = "limiter" /\ i'[r] = i[r] /\ chain'[r] = chain[r]
      /\ wire'[r] = wire[r] /\ visits'[r] = visits[r] /\ openIters'[r] = openIters[r]
  BY DEF PassHealth, Goto, TypeOK
<1>4. i[r] \in DOMAIN chain[r]
  BY LenProperties DEF PassHealth, TypeOK
<1>5. ReqInv(r)'
  BY <1>3, <1>4 DEF ReqInv, Located, WireInv, VisitInv, IterInv
<1> QED
  BY <1>1, <1>2, <1>5

\* A model passed over for its health adds a visit that may be followed.
LEMMA SkipUnhealthyStep ==
    ASSUME TypeOK, NEW r \in Requests, ReqInv(r), SkipUnhealthy(r)
    PROVE  TypeOK' /\ ReqInv(r)' /\ Local(r)
<1>1. /\ pc[r] = "gate" /\ Visit(r, "unhealthy") /\ NextModel(r, "RateLimit")
      /\ i[r] \in DOMAIN chain[r]
  BY LenProperties DEF SkipUnhealthy, TypeOK
<1>2. "unhealthy" \in Outcome /\ "RateLimit" \in ErrorKind /\ Cascades("unhealthy")
  BY DEF Outcome, ErrorKind, Cascades
<1>3. /\ visits' \in [Requests -> Seq([model : Models, outcome : Outcome])]
      /\ \A q \in Requests \ {r} : visits'[q] = visits[q]
      /\ \A k \in 1 .. Len(visits'[r]) - 1 : Cascades(visits'[r][k].outcome)
      /\ \A k \in DOMAIN visits'[r] : Cascades(visits'[r][k].outcome)
  BY <1>1, <1>2, VisitOne DEF ReqInv, VisitInv
<1>4. /\ pc' \in [Requests -> PC] /\ pc'[r] = "gate"
      /\ i' \in [Requests -> Nat \ {0}]
      /\ lastErr' \in [Requests -> ErrorKind \cup {"None"}]
      /\ \A q \in Requests \ {r} : pc'[q] = pc[q] /\ i'[q] = i[q] /\ lastErr'[q] = lastErr[q]
  BY <1>1, <1>2, NextModelType
<1>5. TypeOK'
  BY <1>3, <1>4 DEF TypeOK, HealthTypeOK, CooldownTypeOK, SkipUnhealthy, healthVars
<1>6. Local(r)
  BY <1>3, <1>4 DEF Local, SkipUnhealthy
<1>7. wire'[r] = wire[r] /\ openIters'[r] = openIters[r]
  BY DEF SkipUnhealthy
<1>8. ReqInv(r)'
  BY <1>1, <1>3, <1>4, <1>7 DEF ReqInv, Located, WireInv, VisitInv, IterInv
<1> QED
  BY <1>5, <1>6, <1>8

\* A model passed over by the limiter adds a visit that may be followed.
LEMMA SkipLimitedStep ==
    ASSUME TypeOK, NEW r \in Requests, ReqInv(r), SkipLimited(r)
    PROVE  TypeOK' /\ ReqInv(r)' /\ Local(r)
<1>1. /\ pc[r] = "limiter" /\ Visit(r, "cooling") /\ NextModel(r, "RateLimit")
      /\ i[r] \in DOMAIN chain[r]
  BY DEF SkipLimited, ReqInv, Located
<1>2. "cooling" \in Outcome /\ "RateLimit" \in ErrorKind /\ Cascades("cooling")
  BY DEF Outcome, ErrorKind, Cascades
<1>3. /\ visits' \in [Requests -> Seq([model : Models, outcome : Outcome])]
      /\ \A q \in Requests \ {r} : visits'[q] = visits[q]
      /\ \A k \in 1 .. Len(visits'[r]) - 1 : Cascades(visits'[r][k].outcome)
      /\ \A k \in DOMAIN visits'[r] : Cascades(visits'[r][k].outcome)
  BY <1>1, <1>2, VisitOne DEF ReqInv, VisitInv
<1>4. /\ pc' \in [Requests -> PC] /\ pc'[r] = "gate"
      /\ i' \in [Requests -> Nat \ {0}]
      /\ lastErr' \in [Requests -> ErrorKind \cup {"None"}]
      /\ \A q \in Requests \ {r} : pc'[q] = pc[q] /\ i'[q] = i[q] /\ lastErr'[q] = lastErr[q]
  BY <1>1, <1>2, NextModelType
<1>5. TypeOK'
  BY <1>3, <1>4 DEF TypeOK, HealthTypeOK, CooldownTypeOK, CheckRefuses, SkipLimited, healthVars
<1>6. Local(r)
  BY <1>3, <1>4 DEF Local, SkipLimited
<1>7. wire'[r] = wire[r] /\ openIters'[r] = openIters[r]
  BY DEF SkipLimited
<1>8. ReqInv(r)'
  BY <1>1, <1>3, <1>4, <1>7 DEF ReqInv, Located, WireInv, VisitInv, IterInv
<1> QED
  BY <1>5, <1>6, <1>8

\* Sending a call changes the label and the limiter's map.
LEMMA CallUpstreamStep ==
    ASSUME TypeOK, NEW r \in Requests, ReqInv(r), CallUpstream(r)
    PROVE  TypeOK' /\ ReqInv(r)' /\ Local(r)
<1>1. TypeOK'
  BY DEF TypeOK, HealthTypeOK, CooldownTypeOK, CheckAllows, CallUpstream, Goto, PC, healthVars
<1>2. Local(r)
  BY DEF Local, CallUpstream, Goto, TypeOK
<1>3. /\ pc[r] = "limiter" /\ pc'[r] = "call" /\ i'[r] = i[r] /\ chain'[r] = chain[r]
      /\ wire'[r] = wire[r] /\ visits'[r] = visits[r] /\ openIters'[r] = openIters[r]
  BY DEF CallUpstream, Goto, TypeOK
<1>4. ReqInv(r)'
  BY <1>3 DEF ReqInv, Located, WireInv, VisitInv, IterInv
<1> QED
  BY <1>1, <1>2, <1>4

\* An error event on a silent wire, with its [DONE] for a stream.
LEMMA SendErrorFrames ==
    ASSUME TypeOK, NEW r \in Requests, NEW e \in AnswerError, SendError(r, e), wire[r] = <<>>
    PROVE  /\ wire' \in [Requests -> Seq(Events)]
           /\ \A q \in Requests \ {r} : wire'[q] = wire[q]
           /\ IF stream[r] THEN StreamOver(r)' ELSE BatchOver(r)'
<1>1. Problem(e) \in Events /\ DONE \in Events /\ Problem(e).event = "error"
  BY DEF Events, Problem, DONE
<1>2. Len(wire[r]) = 0
  OBVIOUS
<1>3. CASE stream[r]
  <2>1. Send(r, <<Problem(e), DONE>>)
    BY <1>3 DEF SendError
  <2>2. /\ wire' \in [Requests -> Seq(Events)]
        /\ \A q \in Requests \ {r} : wire'[q] = wire[q]
        /\ Len(wire'[r]) = 2 /\ wire'[r] # <<>>
        /\ wire'[r][1].event = "error" /\ wire'[r][2] = DONE
    BY <1>1, <1>2, <2>1, SendTwo
  <2>3. StreamOver(r)'
    BY <2>2 DEF StreamOver
  <2> QED
    BY <1>3, <2>2, <2>3
<1>4. CASE ~stream[r]
  <2>1. Send(r, <<Problem(e)>>)
    BY <1>4 DEF SendError
  <2>2. /\ wire' \in [Requests -> Seq(Events)]
        /\ \A q \in Requests \ {r} : wire'[q] = wire[q]
        /\ Len(wire'[r]) = 1 /\ wire'[r][1].event = "error"
    BY <1>1, <1>2, <2>1, SendOne
  <2> QED
    BY <1>4, <2>2 DEF BatchOver
<1> QED
  BY <1>3, <1>4

\* A model without a client ends the request with an error, on a silent wire.
LEMMA NoClientStep ==
    ASSUME TypeOK, NEW r \in Requests, ReqInv(r), NoClient(r)
    PROVE  TypeOK' /\ ReqInv(r)' /\ Local(r)
<1>1. /\ pc[r] = "limiter" /\ Visit(r, "Auth") /\ SendError(r, "Auth")
      /\ i[r] \in DOMAIN chain[r] /\ wire[r] = <<>>
      /\ \A k \in DOMAIN visits[r] : Cascades(visits[r][k].outcome)
  BY DEF NoClient, ReqInv, Located, WireInv, VisitInv
<1>2. "Auth" \in Outcome /\ "Auth" \in ErrorKind /\ "Auth" \in AnswerError
  BY DEF Outcome, ErrorKind, AnswerError
<1>3. /\ visits' \in [Requests -> Seq([model : Models, outcome : Outcome])]
      /\ \A q \in Requests \ {r} : visits'[q] = visits[q]
      /\ \A k \in 1 .. Len(visits'[r]) - 1 : Cascades(visits'[r][k].outcome)
  BY <1>1, <1>2, VisitOne
<1>4. /\ wire' \in [Requests -> Seq(Events)]
      /\ \A q \in Requests \ {r} : wire'[q] = wire[q]
      /\ IF stream[r] THEN StreamOver(r)' ELSE BatchOver(r)'
  BY <1>1, <1>2, SendErrorFrames
<1>5. /\ pc' \in [Requests -> PC] /\ pc'[r] = "answered"
      /\ \A q \in Requests \ {r} : pc'[q] = pc[q]
      /\ lastErr' \in [Requests -> ErrorKind \cup {"None"}]
      /\ \A q \in Requests \ {r} : lastErr'[q] = lastErr[q]
  BY <1>2 DEF NoClient, Goto, TypeOK, PC
<1>6. TypeOK'
  BY <1>3, <1>4, <1>5 DEF TypeOK, HealthTypeOK, CooldownTypeOK, CheckAllows, NoClient, healthVars
<1>7. Local(r)
  BY <1>3, <1>4, <1>5 DEF Local, NoClient
<1>8. stream'[r] = stream[r] /\ openIters'[r] = openIters[r]
  BY DEF NoClient
<1>9. WireInv(r)'
  BY <1>4, <1>5, <1>8 DEF WireInv
<1>10. ReqInv(r)'
  BY <1>1, <1>3, <1>5, <1>8, <1>9 DEF ReqInv, Located, VisitInv, IterInv
<1> QED
  BY <1>6, <1>7, <1>10

\* Complete ends the walk with a success; Stream opens the one iterator.
LEMMA CallReturnsStep ==
    ASSUME TypeOK, NEW r \in Requests, ReqInv(r), CallReturns(r)
    PROVE  TypeOK' /\ ReqInv(r)' /\ Local(r)
<1>1. /\ pc[r] = "call" /\ wire[r] = <<>> /\ openIters[r] = 0
      /\ i[r] \in DOMAIN chain[r]
      /\ \A k \in DOMAIN visits[r] : Cascades(visits[r][k].outcome)
  BY DEF CallReturns, ReqInv, Located, WireInv, VisitInv, IterInv
<1>2. CASE stream[r]
  <2>1. TypeOK'
    <3>1. openIters \in [Requests -> Int] /\ openIters[r] + 1 \in Int
      BY <1>1 DEF TypeOK
    <3>2. openIters' = [openIters EXCEPT ![r] = openIters[r] + 1]
      BY <1>2 DEF CallReturns
    <3>3. openIters' \in [Requests -> Int]
      BY <3>1, <3>2
    <3>4. pc' \in [Requests -> PC]
      <4>1. pc \in [Requests -> PC] /\ "probe" \in PC
        BY DEF TypeOK, PC
      <4>2. pc' = [pc EXCEPT ![r] = "probe"]
        BY <1>2 DEF CallReturns, Goto
      <4> QED
        BY <4>1, <4>2
    <3>5. UNCHANGED <<now, failures, lastFailureAt, coolUntil, stream, chain, i, callErr,
                      lastErr, wire, visits>>
      BY <1>2 DEF CallReturns, healthVars
    <3> QED
      BY <3>3, <3>4, <3>5 DEF TypeOK, HealthTypeOK, CooldownTypeOK
  <2>2. Local(r)
    BY <1>2 DEF Local, CallReturns, Goto, TypeOK
  <2>3. /\ pc'[r] = "probe" /\ openIters'[r] = 1 /\ stream'[r] = stream[r]
        /\ i'[r] = i[r] /\ chain'[r] = chain[r]
        /\ wire'[r] = wire[r] /\ visits'[r] = visits[r]
    BY <1>1, <1>2 DEF CallReturns, Goto, TypeOK
  <2>4. ReqInv(r)'
    BY <1>1, <1>2, <2>3 DEF ReqInv, Located, WireInv, VisitInv, IterInv
  <2> QED
    BY <2>1, <2>2, <2>4
<1>3. CASE ~stream[r]
  <2>1. Visit(r, "ok") /\ "ok" \in Outcome
    BY <1>3 DEF CallReturns, Outcome
  <2>2. /\ visits' \in [Requests -> Seq([model : Models, outcome : Outcome])]
        /\ \A q \in Requests \ {r} : visits'[q] = visits[q]
        /\ \A k \in 1 .. Len(visits'[r]) - 1 : Cascades(visits'[r][k].outcome)
    BY <1>1, <2>1, VisitOne
  <2>3. TypeOK'
    BY <1>3, <2>2 DEF TypeOK, HealthTypeOK, CooldownTypeOK, CallReturns, Goto, PC, healthVars
  <2>4. Local(r)
    BY <1>3, <2>2 DEF Local, CallReturns, Goto, TypeOK
  <2>5. /\ pc'[r] = "succeeded" /\ openIters'[r] = 0 /\ stream'[r] = stream[r]
        /\ i'[r] = i[r] /\ chain'[r] = chain[r] /\ wire'[r] = wire[r]
    BY <1>1, <1>3 DEF CallReturns, Goto, TypeOK
  <2>6. ReqInv(r)'
    BY <1>1, <1>3, <2>2, <2>5 DEF ReqInv, Located, WireInv, VisitInv, IterInv
  <2> QED
    BY <2>3, <2>4, <2>6
<1> QED
  BY <1>2, <1>3

\* A failed call is a visit, and the wire is still silent.
LEMMA CallFailsStep ==
    ASSUME TypeOK, NEW r \in Requests, ReqInv(r), CallFails(r)
    PROVE  TypeOK' /\ ReqInv(r)' /\ Local(r)
<1>1. PICK e \in UpstreamErrors : callErr' = [callErr EXCEPT ![r] = e] /\ Visit(r, e)
  BY DEF CallFails
<1>2. e \in Outcome /\ e \in FailureKind /\ e # "None"
  BY DispatchAssumption DEF Outcome, FailureKind, ErrorKind
<1>3. /\ pc[r] = "call" /\ wire[r] = <<>> /\ openIters[r] = 0
      /\ i[r] \in DOMAIN chain[r]
      /\ \A k \in DOMAIN visits[r] : Cascades(visits[r][k].outcome)
  BY DEF CallFails, ReqInv, Located, WireInv, VisitInv, IterInv
<1>4. /\ visits' \in [Requests -> Seq([model : Models, outcome : Outcome])]
      /\ \A q \in Requests \ {r} : visits'[q] = visits[q]
      /\ \A k \in 1 .. Len(visits'[r]) - 1 : Cascades(visits'[r][k].outcome)
      /\ visits'[r] # <<>> /\ visits'[r][Len(visits'[r])].outcome = e
  BY <1>1, <1>2, <1>3, VisitOne
<1>5. TypeOK'
  BY <1>1, <1>2, <1>4 DEF TypeOK, HealthTypeOK, CooldownTypeOK, CallFails, Goto, PC, healthVars
<1>6. Local(r)
  BY <1>1, <1>4 DEF Local, CallFails, Goto, TypeOK
<1>7. /\ pc'[r] = "failed" /\ callErr'[r] = e /\ openIters'[r] = openIters[r]
      /\ i'[r] = i[r] /\ chain'[r] = chain[r] /\ wire'[r] = wire[r]
  BY <1>1 DEF CallFails, Goto, TypeOK
<1>8. ReqInv(r)'
  BY <1>2, <1>3, <1>4, <1>7 DEF ReqInv, Located, WireInv, VisitInv, IterInv
<1> QED
  BY <1>5, <1>6, <1>8

\* The first chunk comes from the model the loop stands at.
LEMMA ProbeCommitsStep ==
    ASSUME TypeOK, NEW r \in Requests, ReqInv(r), ProbeCommits(r)
    PROVE  TypeOK' /\ ReqInv(r)' /\ Local(r)
<1>1. /\ pc[r] = "probe" /\ stream[r] /\ wire[r] = <<>> /\ Len(wire[r]) = 0
      /\ openIters[r] = 1 /\ i[r] \in DOMAIN chain[r]
  BY DEF ProbeCommits, ReqInv, Located, WireInv, IterInv
<1>2. Send(r, <<Chunk(model(r))>>) /\ Chunk(model(r)) \in Events
  BY <1>1, ElementOfSeq, LenProperties DEF ProbeCommits, TypeOK, model, Events, Chunk
<1>3. /\ wire' \in [Requests -> Seq(Events)]
      /\ \A q \in Requests \ {r} : wire'[q] = wire[q]
      /\ Len(wire'[r]) = 1 /\ wire'[r] # <<>> /\ wire'[r][1] = Chunk(model(r))
  BY <1>1, <1>2, SendOne
<1>4. TypeOK'
  BY <1>3 DEF TypeOK, HealthTypeOK, CooldownTypeOK, ProbeCommits, Goto, PC, healthVars
<1>5. Local(r)
  BY <1>3 DEF Local, ProbeCommits, Goto, TypeOK
<1>6. /\ pc'[r] = "relay" /\ stream'[r] = stream[r] /\ openIters'[r] = openIters[r]
      /\ i'[r] = i[r] /\ chain'[r] = chain[r] /\ visits'[r] = visits[r]
  BY DEF ProbeCommits, Goto, TypeOK
<1>7. \A k \in DOMAIN wire'[r] : k = 1
  BY <1>3, LenProperties
<1>8. WireInv(r)'
  BY <1>1, <1>3, <1>6, <1>7 DEF WireInv, Voice, model
<1>9. ReqInv(r)'
  BY <1>1, <1>6, <1>8 DEF ReqInv, Located, VisitInv, IterInv
<1> QED
  BY <1>4, <1>5, <1>9

\* A failed probe closes the iterator, and the wire is still silent.
LEMMA ProbeFailsStep ==
    ASSUME TypeOK, NEW r \in Requests, ReqInv(r), ProbeFails(r)
    PROVE  TypeOK' /\ ReqInv(r)' /\ Local(r)
<1>1. PICK e \in FailureKind : callErr' = [callErr EXCEPT ![r] = e] /\ Visit(r, e)
  BY DEF ProbeFails
<1>2. e \in Outcome /\ e # "None"
  BY DispatchAssumption DEF Outcome, FailureKind, ErrorKind, errEmpty
<1>3. /\ pc[r] = "probe" /\ wire[r] = <<>> /\ openIters[r] = 1
      /\ i[r] \in DOMAIN chain[r]
      /\ \A k \in DOMAIN visits[r] : Cascades(visits[r][k].outcome)
  BY DEF ProbeFails, ReqInv, Located, WireInv, VisitInv, IterInv
<1>4. /\ visits' \in [Requests -> Seq([model : Models, outcome : Outcome])]
      /\ \A q \in Requests \ {r} : visits'[q] = visits[q]
      /\ \A k \in 1 .. Len(visits'[r]) - 1 : Cascades(visits'[r][k].outcome)
      /\ visits'[r] # <<>> /\ visits'[r][Len(visits'[r])].outcome = e
  BY <1>1, <1>2, <1>3, VisitOne
<1>5. openIters' \in [Requests -> Int] /\ openIters'[r] = 0
  BY <1>3 DEF TypeOK, ProbeFails
<1>6. TypeOK'
  BY <1>1, <1>4, <1>5 DEF TypeOK, HealthTypeOK, CooldownTypeOK, ProbeFails, Goto, PC, healthVars
<1>7. Local(r)
  BY <1>1, <1>4 DEF Local, ProbeFails, Goto, TypeOK
<1>8. /\ pc'[r] = "failed" /\ callErr'[r] = e
      /\ i'[r] = i[r] /\ chain'[r] = chain[r] /\ wire'[r] = wire[r]
  BY <1>1 DEF ProbeFails, Goto, TypeOK
<1>9. ReqInv(r)'
  BY <1>2, <1>3, <1>4, <1>5, <1>8 DEF ReqInv, Located, WireInv, VisitInv, IterInv
<1> QED
  BY <1>6, <1>7, <1>9

\* A further chunk comes from the model that sent the first one.
LEMMA RelayChunkStep ==
    ASSUME TypeOK, NEW r \in Requests, ReqInv(r), RelayChunk(r)
    PROVE  TypeOK' /\ ReqInv(r)' /\ Local(r)
<1>1. /\ pc[r] = "relay" /\ stream[r] /\ openIters[r] = 1 /\ i[r] \in DOMAIN chain[r]
      /\ \A k \in DOMAIN wire[r] : Voice(r, k)
  BY DEF RelayChunk, ReqInv, Located, WireInv, IterInv
<1>2. Send(r, <<Chunk(model(r))>>) /\ Chunk(model(r)) \in Events
  BY <1>1, ElementOfSeq, LenProperties DEF RelayChunk, TypeOK, model, Events, Chunk
<1>3. /\ wire' \in [Requests -> Seq(Events)]
      /\ \A q \in Requests \ {r} : wire'[q] = wire[q]
      /\ Len(wire'[r]) = Len(wire[r]) + 1 /\ wire'[r] # <<>>
      /\ wire'[r][Len(wire[r]) + 1] = Chunk(model(r))
      /\ \A k \in DOMAIN wire[r] : wire'[r][k] = wire[r][k]
  BY <1>2, SendOne
<1>4. TypeOK'
  BY <1>3 DEF TypeOK, HealthTypeOK, CooldownTypeOK, RelayChunk, healthVars
<1>5. Local(r)
  BY <1>3 DEF Local, RelayChunk
<1>6. /\ pc'[r] = pc[r] /\ stream'[r] = stream[r] /\ openIters'[r] = openIters[r]
      /\ i'[r] = i[r] /\ chain'[r] = chain[r] /\ visits'[r] = visits[r]
  BY DEF RelayChunk
<1>7. wire[r] \in Seq(Events) /\ wire'[r] \in Seq(Events)
  BY <1>3 DEF TypeOK
<1>8. \A k \in DOMAIN wire'[r] : k \in DOMAIN wire[r] \/ k = Len(wire[r]) + 1
  BY <1>3, <1>7, LenProperties
<1>9. \A k \in DOMAIN wire'[r] : Voice(r, k)'
  BY <1>1, <1>3, <1>6, <1>8 DEF Voice, model
<1>10. ReqInv(r)'
  BY <1>1, <1>3, <1>6, <1>9 DEF ReqInv, Located, WireInv, VisitInv, IterInv
<1> QED
  BY <1>4, <1>5, <1>10

\* The end of a stream closes the iterator and puts [DONE] last.
LEMMA RelayEndsStep ==
    ASSUME TypeOK, NEW r \in Requests, ReqInv(r), RelayEnds(r)
    PROVE  TypeOK' /\ ReqInv(r)' /\ Local(r)
<1>1. /\ pc[r] = "relay" /\ stream[r] /\ openIters[r] = 1 /\ i[r] \in DOMAIN chain[r]
      /\ \A k \in DOMAIN wire[r] : Voice(r, k)
      /\ \A k \in DOMAIN visits[r] : Cascades(visits[r][k].outcome)
  BY DEF RelayEnds, ReqInv, Located, WireInv, VisitInv, IterInv
<1>2. /\ Send(r, <<DONE>>) /\ DONE \in Events
      /\ Visit(r, "ok") /\ "ok" \in Outcome
  BY DEF RelayEnds, Events, Outcome
<1>3. /\ wire' \in [Requests -> Seq(Events)]
      /\ \A q \in Requests \ {r} : wire'[q] = wire[q]
      /\ Len(wire'[r]) = Len(wire[r]) + 1 /\ wire'[r] # <<>>
      /\ wire'[r][Len(wire[r]) + 1] = DONE
      /\ \A k \in DOMAIN wire[r] : wire'[r][k] = wire[r][k]
  BY <1>2, SendOne
<1>4. /\ visits' \in [Requests -> Seq([model : Models, outcome : Outcome])]
      /\ \A q \in Requests \ {r} : visits'[q] = visits[q]
      /\ \A k \in 1 .. Len(visits'[r]) - 1 : Cascades(visits'[r][k].outcome)
  BY <1>1, <1>2, VisitOne
<1>5. openIters' \in [Requests -> Int] /\ openIters'[r] = 0
  BY <1>1 DEF TypeOK, RelayEnds
<1>6. TypeOK'
  BY <1>3, <1>4, <1>5 DEF TypeOK, HealthTypeOK, CooldownTypeOK, RelayEnds, Goto, PC, healthVars
<1>7. Local(r)
  BY <1>3, <1>4 DEF Local, RelayEnds, Goto, TypeOK
<1>8. /\ pc'[r] = "succeeded" /\ stream'[r] = stream[r]
      /\ i'[r] = i[r] /\ chain'[r] = chain[r]
  BY DEF RelayEnds, Goto, TypeOK
<1>9. wire[r] \in Seq(Events) /\ DOMAIN wire[r] = 1 .. Len(wire[r]) /\ Len(wire[r]) \in Nat
  BY LenProperties DEF TypeOK
<1>10. \A k \in 1 .. Len(wire'[r]) - 1 : Voice(r, k)'
  BY <1>1, <1>3, <1>8, <1>9 DEF Voice, model
<1>11. StreamOver(r)'
  BY <1>3, <1>10 DEF StreamOver
<1>12. ReqInv(r)'
  BY <1>1, <1>4, <1>5, <1>8, <1>11 DEF ReqInv, Located, WireInv, VisitInv, IterInv
<1> QED
  BY <1>6, <1>7, <1>12

\* A stream that breaks closes the iterator and ends with an error and [DONE].
LEMMA RelayFailsStep ==
    ASSUME TypeOK, NEW r \in Requests, ReqInv(r), RelayFails(r)
    PROVE  TypeOK' /\ ReqInv(r)' /\ Local(r)
<1>1. /\ pc[r] = "relay" /\ stream[r] /\ openIters[r] = 1 /\ i[r] \in DOMAIN chain[r]
      /\ \A k \in DOMAIN wire[r] : Voice(r, k)
      /\ \A k \in DOMAIN visits[r] : Cascades(visits[r][k].outcome)
  BY DEF RelayFails, ReqInv, Located, WireInv, VisitInv, IterInv
<1>2. PICK e \in UpstreamErrors : /\ SendError(r, e)
                                  /\ callErr' = [callErr EXCEPT ![r] = e]
                                  /\ Visit(r, e)
  BY DEF RelayFails
<1>3. /\ e \in Outcome /\ e \in FailureKind /\ e # "None"
      /\ Problem(e) \in Events /\ DONE \in Events /\ Problem(e).event = "error"
  BY DispatchAssumption DEF Outcome, FailureKind, ErrorKind, Events, AnswerError, Problem, DONE
<1>4. Send(r, <<Problem(e), DONE>>)
  BY <1>1, <1>2 DEF SendError
<1>5. /\ wire' \in [Requests -> Seq(Events)]
      /\ \A q \in Requests \ {r} : wire'[q] = wire[q]
      /\ Len(wire'[r]) = Len(wire[r]) + 2 /\ wire'[r] # <<>>
      /\ wire'[r][Len(wire[r]) + 1].event = "error" /\ wire'[r][Len(wire[r]) + 2] = DONE
      /\ \A k \in DOMAIN wire[r] : wire'[r][k] = wire[r][k]
  BY <1>3, <1>4, SendTwo
<1>6. /\ visits' \in [Requests -> Seq([model : Models, outcome : Outcome])]
      /\ \A q \in Requests \ {r} : visits'[q] = visits[q]
      /\ \A k \in 1 .. Len(visits'[r]) - 1 : Cascades(visits'[r][k].outcome)
      /\ visits'[r] # <<>> /\ visits'[r][Len(visits'[r])].outcome = e
  BY <1>1, <1>2, <1>3, VisitOne
<1>7. openIters' \in [Requests -> Int] /\ openIters'[r] = 0
  BY <1>1 DEF TypeOK, RelayFails
<1>8. TypeOK'
  BY <1>2, <1>3, <1>5, <1>6, <1>7
  DEF TypeOK, HealthTypeOK, CooldownTypeOK, RelayFails, Goto, PC, healthVars
<1>9. Local(r)
  BY <1>2, <1>5, <1>6 DEF Local, RelayFails, Goto, TypeOK
<1>10. /\ pc'[r] = "failed" /\ callErr'[r] = e /\ stream'[r] = stream[r]
       /\ i'[r] = i[r] /\ chain'[r] = chain[r]
  BY <1>2 DEF RelayFails, Goto, TypeOK
<1>11. wire[r] \in Seq(Events) /\ DOMAIN wire[r] = 1 .. Len(wire[r]) /\ Len(wire[r]) \in Nat
  BY LenProperties DEF TypeOK
<1>12. \A k \in 1 .. Len(wire[r]) : Voice(r, k)'
  BY <1>1, <1>5, <1>10, <1>11 DEF Voice, model
<1>13. StreamOver(r)'
  BY <1>5, <1>11, <1>12 DEF StreamOver
<1>14. ReqInv(r)'
  BY <1>1, <1>3, <1>6, <1>7, <1>10, <1>13 DEF ReqInv, Located, WireInv, VisitInv, IterInv
<1> QED
  BY <1>8, <1>9, <1>14

\* A success sends a batch client the one reply and nothing to a stream.
LEMMA SucceedStep ==
    ASSUME TypeOK, NEW r \in Requests, ReqInv(r), Succeed(r)
    PROVE  TypeOK' /\ ReqInv(r)' /\ Local(r)
<1>1. /\ pc[r] = "succeeded" /\ openIters[r] = 0 /\ i[r] \in DOMAIN chain[r]
      /\ IF stream[r] THEN StreamOver(r) ELSE wire[r] = <<>>
      /\ \A k \in 1 .. Len(visits[r]) - 1 : Cascades(visits[r][k].outcome)
  BY DEF Succeed, ReqInv, Located, WireInv, VisitInv, IterInv
<1>2. /\ pc'[r] = "answered" /\ stream'[r] = stream[r] /\ openIters'[r] = openIters[r]
      /\ i'[r] = i[r] /\ chain'[r] = chain[r] /\ visits'[r] = visits[r]
  BY DEF Succeed, Goto, TypeOK
<1>3. model(r) \in Models
  BY <1>1, ElementOfSeq, LenProperties DEF TypeOK, model
<1>4. HealthTypeOK'
  BY DEF TypeOK, HealthTypeOK, Succeed, RecordSuccess
<1>5. /\ wire' \in [Requests -> Seq(Events)]
      /\ \A q \in Requests \ {r} : wire'[q] = wire[q]
      /\ IF stream[r] THEN StreamOver(r)' ELSE BatchOver(r)'
  <2>1. CASE stream[r]
    <3>1. wire' = wire
      BY <2>1 DEF Succeed
    <3> QED
      BY <1>1, <1>2, <2>1, <3>1 DEF TypeOK, StreamOver, Voice, model
  <2>2. CASE ~stream[r]
    <3>1. Send(r, <<Reply(model(r))>>) /\ Reply(model(r)) \in Events
      BY <1>3, <2>2 DEF Succeed, Reply, Events
    <3>2. Len(wire[r]) = 0
      BY <1>1, <2>2
    <3>3. /\ wire' \in [Requests -> Seq(Events)]
          /\ \A q \in Requests \ {r} : wire'[q] = wire[q]
          /\ Len(wire'[r]) = 1 /\ wire'[r][1] = Reply(model(r))
      BY <3>1, <3>2, SendOne
    <3> QED
      BY <1>1, <1>2, <2>2, <3>3 DEF BatchOver, model
  <2> QED
    BY <2>1, <2>2
<1>6. TypeOK'
  BY <1>4, <1>5 DEF TypeOK, CooldownTypeOK, Succeed, Goto, PC
<1>7. Local(r)
  BY <1>5 DEF Local, Succeed, Goto, TypeOK
<1>8. ReqInv(r)'
  BY <1>1, <1>2, <1>5 DEF ReqInv, Located, WireInv, VisitInv, IterInv
<1> QED
  BY <1>6, <1>7, <1>8

\* What the loop does with a recorded failure.
LEMMA ResumeStep ==
    ASSUME TypeOK, NEW r \in Requests, ReqInv(r), Resume(r),
           pc[r] \in {"failed", "limited"},
           UNCHANGED <<stream, chain, callErr, openIters, visits>>
    PROVE  /\ pc' \in [Requests -> PC] /\ i' \in [Requests -> Nat \ {0}]
           /\ lastErr' \in [Requests -> ErrorKind \cup {"None"}]
           /\ wire' \in [Requests -> Seq(Events)]
           /\ Local(r) /\ ReqInv(r)'
<1>1. /\ openIters[r] = 0 /\ i[r] \in DOMAIN chain[r]
      /\ wire[r] = <<>> \/ (stream[r] /\ StreamOver(r))
      /\ \A k \in 1 .. Len(visits[r]) - 1 : Cascades(visits[r][k].outcome)
      /\ visits[r] # <<>> /\ visits[r][Len(visits[r])].outcome = callErr[r]
      /\ callErr[r] \in FailureKind
  BY DEF ReqInv, Located, WireInv, VisitInv, IterInv, TypeOK
<1>2. CASE Committed(r) /\ Goto(r, "answered") /\ UNCHANGED <<i, lastErr, wire>>
  <2>1. pc'[r] = "answered" /\ stream[r] /\ StreamOver(r)'
    BY <1>1, <1>2 DEF Committed, Goto, TypeOK, StreamOver, Voice, model
  <2>2. ReqInv(r)'
    BY <1>1, <1>2, <2>1 DEF ReqInv, Located, WireInv, VisitInv, IterInv
  <2> QED
    BY <1>2, <2>2 DEF Local, Goto, TypeOK, PC
<1>3. ASSUME NEW e \in ErrorKind \cup {"None"}, Cascades(callErr[r]),
             wire[r] = <<>>, NextModel(r, e), UNCHANGED wire
      PROVE  /\ pc' \in [Requests -> PC] /\ i' \in [Requests -> Nat \ {0}]
             /\ lastErr' \in [Requests -> ErrorKind \cup {"None"}]
             /\ wire' \in [Requests -> Seq(Events)]
             /\ Local(r) /\ ReqInv(r)'
  <2>1. /\ pc' \in [Requests -> PC] /\ pc'[r] = "gate"
        /\ i' \in [Requests -> Nat \ {0}]
        /\ lastErr' \in [Requests -> ErrorKind \cup {"None"}]
        /\ \A q \in Requests \ {r} : pc'[q] = pc[q] /\ i'[q] = i[q] /\ lastErr'[q] = lastErr[q]
    BY <1>3, NextModelType
  <2>2. \A k \in DOMAIN visits[r] : k \in 1 .. Len(visits[r]) - 1 \/ k = Len(visits[r])
    BY LenProperties DEF TypeOK
  <2>3. \A k \in DOMAIN visits[r] : Cascades(visits[r][k].outcome)
    BY <1>1, <1>3, <2>2
  <2>4. ReqInv(r)'
    BY <1>1, <1>3, <2>1, <2>3 DEF ReqInv, Located, WireInv, VisitInv, IterInv
  <2>5. Local(r)
    BY <1>3, <2>1 DEF Local
  <2> QED
    BY <1>3, <2>1, <2>4, <2>5 DEF TypeOK
<1>4. CASE ~Committed(r) /\ callErr[r] = errEmpty /\ NextModel(r, lastErr[r]) /\ UNCHANGED wire
  BY <1>3, <1>4 DEF Committed, Cascades, TypeOK
<1>5. CASE ~Committed(r) /\ IsTransient(callErr[r]) /\ NextModel(r, callErr[r]) /\ UNCHANGED wire
  BY <1>3, <1>5 DEF Committed, Cascades, IsTransient, ErrorKind
<1>6. CASE /\ ~Committed(r) /\ callErr[r] # errEmpty /\ ~IsTransient(callErr[r])
           /\ lastErr' = [lastErr EXCEPT ![r] = callErr[r]]
           /\ SendError(r, callErr[r]) /\ Goto(r, "answered") /\ UNCHANGED i
  <2>1. callErr[r] \in ErrorKind /\ callErr[r] \in AnswerError
    BY <1>1, <1>6, DispatchAssumption DEF FailureKind, AnswerError
  <2>2. /\ wire' \in [Requests -> Seq(Events)]
        /\ \A q \in Requests \ {r} : wire'[q] = wire[q]
        /\ IF stream[r] THEN StreamOver(r)' ELSE BatchOver(r)'
    BY <1>6, <2>1, SendErrorFrames DEF Committed
  <2>3. /\ pc' \in [Requests -> PC] /\ pc'[r] = "answered"
        /\ \A q \in Requests \ {r} : pc'[q] = pc[q]
        /\ lastErr' \in [Requests -> ErrorKind \cup {"None"}]
        /\ \A q \in Requests \ {r} : lastErr'[q] = lastErr[q]
    BY <1>6, <2>1 DEF Goto, TypeOK, PC
  <2>4. ReqInv(r)'
    BY <1>1, <2>2, <2>3 DEF ReqInv, Located, WireInv, VisitInv, IterInv
  <2>5. Local(r)
    BY <1>6, <2>2, <2>3 DEF Local
  <2> QED
    BY <1>6, <2>2, <2>3, <2>4, <2>5 DEF TypeOK
<1> QED
  BY <1>2, <1>4, <1>5, <1>6 DEF Resume

\* Recording a failure leaves the request where Resume takes it.
LEMMA FailStep ==
    ASSUME TypeOK, NEW r \in Requests, ReqInv(r), Fail(r)
    PROVE  TypeOK' /\ ReqInv(r)' /\ Local(r)
<1>1. pc[r] = "failed" /\ i[r] \in DOMAIN chain[r]
  BY DEF Fail, ReqInv, Located
<1>2. model(r) \in Models
  BY <1>1, ElementOfSeq, LenProperties DEF TypeOK, model
<1>3. HealthTypeOK'
  BY <1>2, MaxTimeAssumption DEF TypeOK, HealthTypeOK, Time, Fail, RecordFailure
<1>4. CASE callErr[r] = "RateLimit"
  <2>1. TypeOK'
    BY <1>3, <1>4 DEF TypeOK, CooldownTypeOK, Fail, Goto, PC
  <2>2. Local(r)
    BY <1>4 DEF Local, Fail, Goto, TypeOK
  <2>3. /\ pc'[r] = "limited" /\ callErr'[r] = callErr[r] /\ stream'[r] = stream[r]
        /\ openIters'[r] = openIters[r] /\ i'[r] = i[r] /\ chain'[r] = chain[r]
        /\ visits'[r] = visits[r] /\ wire'[r] = wire[r]
    BY <1>4 DEF Fail, Goto, TypeOK
  <2>4. ReqInv(r)'
    BY <1>1, <2>3 DEF ReqInv, Located, WireInv, StreamOver, Voice, model, VisitInv, IterInv
  <2> QED
    BY <2>1, <2>2, <2>4
<1>5. CASE callErr[r] # "RateLimit"
  <2>1. Resume(r) /\ UNCHANGED <<stream, chain, callErr, openIters, visits>>
    BY <1>5 DEF Fail
  <2>2. /\ pc' \in [Requests -> PC] /\ i' \in [Requests -> Nat \ {0}]
        /\ lastErr' \in [Requests -> ErrorKind \cup {"None"}]
        /\ wire' \in [Requests -> Seq(Events)]
        /\ Local(r) /\ ReqInv(r)'
    BY <1>1, <2>1, ResumeStep
  <2>3. TypeOK'
    BY <1>3, <2>2 DEF TypeOK, CooldownTypeOK, Fail
  <2> QED
    BY <2>2, <2>3
<1> QED
  BY <1>4, <1>5

\* Recording a 429 leaves the request where Resume takes it.
LEMMA CoolDownStep ==
    ASSUME TypeOK, NEW r \in Requests, ReqInv(r), CoolDown(r)
    PROVE  TypeOK' /\ ReqInv(r)' /\ Local(r)
<1>1. CooldownTypeOK'
  <2>1. now + RetryAfter \in Nat
    BY MaxTimeAssumption, RetryAfterAssumption DEF TypeOK, Time
  <2>2. coolUntil' = [coolUntil EXCEPT ![model(r)] = now + RetryAfter]
    BY DEF CoolDown, RecordLimit
  <2> QED
    BY <2>1, <2>2 DEF TypeOK, CooldownTypeOK
<1>2. /\ pc' \in [Requests -> PC] /\ i' \in [Requests -> Nat \ {0}]
      /\ lastErr' \in [Requests -> ErrorKind \cup {"None"}]
      /\ wire' \in [Requests -> Seq(Events)]
      /\ Local(r) /\ ReqInv(r)'
  BY ResumeStep DEF CoolDown
<1>3. TypeOK'
  BY <1>1, <1>2 DEF TypeOK, HealthTypeOK, CoolDown, healthVars
<1> QED
  BY <1>2, <1>3

\* A chain used up ends the request with an error, on a silent wire.
LEMMA GiveUpStep ==
    ASSUME TypeOK, NEW r \in Requests, ReqInv(r), GiveUp(r)
    PROVE  TypeOK' /\ ReqInv(r)' /\ Local(r)
<1> DEFINE e == IF lastErr[r] = "None" THEN errNoModels ELSE lastErr[r]
<1>1. /\ pc[r] = "gate" /\ wire[r] = <<>> /\ openIters[r] = 0
      /\ \A k \in DOMAIN visits[r] : Cascades(visits[r][k].outcome)
  BY DEF GiveUp, ReqInv, WireInv, VisitInv, IterInv
<1>2. e \in AnswerError /\ SendError(r, e)
  BY DEF GiveUp, TypeOK, AnswerError
<1>3. /\ wire' \in [Requests -> Seq(Events)]
      /\ \A q \in Requests \ {r} : wire'[q] = wire[q]
      /\ IF stream[r] THEN StreamOver(r)' ELSE BatchOver(r)'
  BY <1>1, <1>2, SendErrorFrames
<1>4. TypeOK'
  BY <1>3 DEF TypeOK, HealthTypeOK, CooldownTypeOK, GiveUp, Goto, PC, healthVars
<1>5. Local(r)
  BY <1>3 DEF Local, GiveUp, Goto, TypeOK
<1>6. /\ pc'[r] = "answered" /\ stream'[r] = stream[r] /\ openIters'[r] = openIters[r]
      /\ visits'[r] = visits[r]
  BY DEF GiveUp, Goto, TypeOK
<1>7. DOMAIN visits[r] = 1 .. Len(visits[r]) /\ Len(visits[r]) \in Nat
  BY LenProperties DEF TypeOK
<1>8. ReqInv(r)'
  BY <1>1, <1>3, <1>6, <1>7 DEF ReqInv, Located, WireInv, VisitInv, IterInv
<1> QED
  BY <1>4, <1>5, <1>8
-----------------------------------------------------------------------------
\* No request has begun: every part of the invariant holds.
LEMMA InitIInv == Init => IInv
<1> SUFFICES ASSUME Init PROVE IInv
  OBVIOUS
<1>1. TypeOK
  BY MaxTimeAssumption DEF Init, ClockInit, HealthInit, CooldownInit, TypeOK, Time, HealthTypeOK,
                           CooldownTypeOK, PC
<1>2. ASSUME NEW r \in Requests PROVE ReqInv(r)
  BY DEF Init, ReqInv, Located, WireInv, VisitInv, IterInv
<1> QED
  BY <1>1, <1>2 DEF IInv

\* Whatever step r takes, it keeps the types, its own part of the invariant and
\* all that belongs to the others.
LEMMA LocalStep ==
    ASSUME IInv, NEW r \in Requests, Route(r) \/ Loop(r) \/ Answer(r) \/ Feed(r)
    PROVE  TypeOK' /\ ReqInv(r)' /\ Local(r)
<1>1. TypeOK /\ ReqInv(r)
  BY DEF IInv
<1> QED
  BY <1>1, RouteStep, PassHealthStep, SkipUnhealthyStep, SkipLimitedStep,
     CallUpstreamStep, NoClientStep, SucceedStep, FailStep, CoolDownStep, GiveUpStep,
     CallReturnsStep, CallFailsStep, ProbeCommitsStep, ProbeFailsStep,
     RelayChunkStep, RelayEndsStep, RelayFailsStep
  DEF Loop, Answer, Feed

\* Every step of every request, and of the clock, keeps the invariant.
LEMMA StepIInv == IInv /\ [Next]_vars => IInv'
<1> SUFFICES ASSUME IInv, [Next]_vars PROVE IInv'
  OBVIOUS
<1>1. ASSUME NEW r \in Requests, Route(r) \/ Loop(r) \/ Answer(r) \/ Feed(r)
      PROVE  IInv'
  <2>2. TypeOK' /\ ReqInv(r)' /\ Local(r)
    BY <1>1, LocalStep
  <2>3. ASSUME NEW q \in Requests \ {r} PROVE ReqInv(q)'
    BY <2>2, FrameLemma DEF IInv
  <2> QED
    BY <2>2, <2>3 DEF IInv
<1>2. ASSUME \/ PassTime
             \/ UNCHANGED vars
      PROVE  IInv'
  <2>1. UNCHANGED reqVars /\ UNCHANGED healthVars /\ UNCHANGED coolUntil /\ now' \in Time
    BY <1>2, MaxTimeAssumption DEF PassTime, Tick, Time, vars, healthVars, IInv, TypeOK
  <2>2. TypeOK'
    BY <2>1 DEF IInv, TypeOK, HealthTypeOK, CooldownTypeOK, reqVars, healthVars
  <2>3. ASSUME NEW r \in Requests PROVE ReqInv(r)'
    BY <2>1 DEF IInv, ReqInv, Located, WireInv, StreamOver, BatchOver, Voice, model,
                VisitInv, IterInv, reqVars
  <2> QED
    BY <2>2, <2>3 DEF IInv
<1> QED
  BY <1>1, <1>2 DEF Next

\* The invariant that carries all the others.
THEOREM Invariance == Spec => []IInv
BY InitIInv, StepIInv, PTL DEF Spec

\* The variables keep their types: in particular every chain is a sequence of
\* models, whatever Order does to the fallbacks, and no index, count or error
\* leaves its range.
THEOREM TypeCorrect == Spec => []TypeOK
<1>1. IInv => TypeOK
  BY DEF IInv
<1> QED
  BY <1>1, Invariance, PTL

\* A client hears one model only, however the loops of all requests interleave:
\* a stream that has begun is never continued by a fallback.
THEOREM OneVoiceHolds == Spec => []OneVoice
<1>1. IInv => OneVoice
  <2> SUFFICES ASSUME IInv, NEW r \in Requests, NEW k \in DOMAIN wire[r],
                      wire[r][k].event \in {"chunk", "reply"}
               PROVE  i[r] \in DOMAIN chain[r] /\ wire[r][k].of = model(r)
    BY DEF OneVoice
  <2>1. /\ DOMAIN wire[r] = 1 .. Len(wire[r]) /\ Len(wire[r]) \in Nat
        /\ pc[r] \in PC /\ wire[r] # <<>> /\ WireInv(r)
    BY LenProperties DEF IInv, ReqInv, TypeOK
  <2>2. Voice(r, k) => i[r] \in DOMAIN chain[r] /\ wire[r][k].of = model(r)
    BY DEF Voice, Chunk
  <2>3. StreamOver(r) => Voice(r, k)
    BY <2>1 DEF StreamOver, DONE
  <2>4. BatchOver(r) => i[r] \in DOMAIN chain[r] /\ wire[r][k].of = model(r)
    BY <2>1 DEF BatchOver, Reply
  <2> QED
    BY <2>1, <2>2, <2>3, <2>4 DEF WireInv, PC
<1> QED
  BY <1>1, Invariance, PTL

\* Every answer is framed as its client expects, on every path out of the loop:
\* one [DONE], last, after at most one error event, or one response or error.
THEOREM WellFramedHolds == Spec => []WellFramed
<1>1. IInv => WellFramed
  <2> SUFFICES ASSUME IInv, NEW r \in Requests, pc[r] = "answered"
               PROVE  IF stream[r]
                      THEN /\ wire[r] # <<>>
                           /\ \A k \in DOMAIN wire[r] :
                                /\ wire[r][k] = DONE <=> k = Len(wire[r])
                                /\ wire[r][k].event = "error" => k = Len(wire[r]) - 1
                      ELSE /\ Len(wire[r]) = 1
                           /\ wire[r][1].event \in {"reply", "error"}
    BY DEF WellFramed
  <2>1. /\ DOMAIN wire[r] = 1 .. Len(wire[r]) /\ Len(wire[r]) \in Nat
        /\ IF stream[r] THEN StreamOver(r) ELSE BatchOver(r)
    BY LenProperties DEF IInv, ReqInv, WireInv, TypeOK
  <2>2. CASE stream[r]
    BY <2>1, <2>2 DEF StreamOver, Voice, Chunk, DONE
  <2>3. CASE ~stream[r]
    BY <2>1, <2>3 DEF BatchOver, Reply
  <2> QED
    BY <2>2, <2>3
<1> QED
  BY <1>1, Invariance, PTL

\* No upstream stream is leaked or closed twice, on any path.
THEOREM ItersClosedHolds == Spec => []ItersClosed
<1>1. IInv => ItersClosed
  BY DEF IInv, ReqInv, IterInv, ItersClosed
<1> QED
  BY <1>1, Invariance, PTL

\* After a success or a fatal error no upstream hears of the request again.
THEOREM OnlyTransientCascadesHolds == Spec => []OnlyTransientCascades
<1>1. IInv => OnlyTransientCascades
  BY DEF IInv, ReqInv, VisitInv, Cascades, OnlyTransientCascades
<1> QED
  BY <1>1, Invariance, PTL

\* Every chain leaves the router as its primary followed by a stable sort of the
\* configured fallbacks by their recent failures.
THEOREM RoutedByHealthHolds == Spec => RoutedByHealth
<1> DEFINE Sorted(r) ==
        \E p \in Plans : \E place \in Bijection(DOMAIN p.fallbacks, DOMAIN p.fallbacks) :
            /\ Head(chain'[r]) = p.primary
            /\ Len(chain'[r]) = 1 + Len(p.fallbacks)
            /\ \A a \in DOMAIN p.fallbacks : chain'[r][1 + place[a]] = p.fallbacks[a]
            /\ \A a, b \in DOMAIN p.fallbacks :
                 LET x == Score(p.fallbacks[a])  y == Score(p.fallbacks[b])
                 IN  (x < y \/ (x = y /\ a < b)) => place[a] < place[b]
<1>1. ASSUME IInv, NEW r \in Requests, Route(r) PROVE Sorted(r)
  <2>1. PICK p \in Plans :
          chain' = [chain EXCEPT ![r] = <<p.primary>> \o Order(p.fallbacks)]
    BY <1>1 DEF Route
  <2> DEFINE f == p.fallbacks
             D == DOMAIN f
  <2>2. p.primary \in Models /\ f \in Seq(Models) /\ HealthTypeOK
    BY <1>1, DispatchAssumption DEF IInv, TypeOK
  <2>3. PICK place \in Bijection(D, D) :
          /\ \A a \in D : Order(f)[place[a]] = f[a]
          /\ \A a, b \in D : Precedes(f, a, b) => place[a] < place[b]
    BY <2>2, OrderIsStableSort
  <2>4. Order(f) \in Seq(Models) /\ Len(Order(f)) = Len(f) /\ Len(f) \in Nat
        /\ D = 1 .. Len(f)
    BY <2>2, OrderIsStableSort, LenProperties
  <2> HIDE DEF f, D
  <2>5. chain'[r] = <<p.primary>> \o Order(f)
    BY <1>1, <2>1 DEF IInv, TypeOK, f
  <2>6. <<p.primary>> \in Seq(Models) /\ Len(<<p.primary>>) = 1 /\ <<p.primary>>[1] = p.primary
    BY <2>2
  <2>7. /\ Len(chain'[r]) = 1 + Len(f)
        /\ \A k \in 1 .. 1 + Len(f) :
              chain'[r][k] = IF k <= 1 THEN <<p.primary>>[k] ELSE Order(f)[k - 1]
    BY <2>4, <2>5, <2>6, ConcatProperties
  <2>8. chain'[r][1] = p.primary /\ Head(chain'[r]) = chain'[r][1]
    BY <2>4, <2>5, <2>6, <2>7
  <2>9. ASSUME NEW a \in D PROVE chain'[r][1 + place[a]] = f[a]
    <3>1. place[a] \in D
      BY <2>3 DEF Bijection, Injection
    <3>2. /\ 1 + place[a] \in 1 .. 1 + Len(f) /\ ~(1 + place[a] <= 1)
          /\ (1 + place[a]) - 1 = place[a]
      BY <2>4, <3>1
    <3>3. chain'[r][1 + place[a]] = Order(f)[(1 + place[a]) - 1]
      BY <2>7, <3>2
    <3> QED
      BY <2>3, <3>2, <3>3
  <2> QED
    BY <2>3, <2>7, <2>8, <2>9 DEF f, D, Precedes
<1>2. ASSUME IInv, [Next]_vars, NEW r \in Requests, pc[r] = "idle", pc'[r] = "gate"
      PROVE  Route(r)
  <2>1. ASSUME NEW q \in Requests, Route(q) \/ Loop(q) \/ Answer(q) \/ Feed(q)
        PROVE  Route(r)
    <3>1. CASE q = r
      BY <1>2, <2>1, <3>1 DEF Loop, Answer, Feed, PassHealth, SkipUnhealthy, SkipLimited,
         CallUpstream, NoClient, Succeed, Fail, CoolDown, GiveUp, CallReturns, CallFails,
         ProbeCommits, ProbeFails, RelayChunk, RelayEnds, RelayFails
    <3>2. CASE q # r
      <4>1. pc'[r] = pc[r]
        BY <1>2, <2>1, <3>2, LocalStep DEF Local
      <4> QED
        BY <1>2, <4>1
    <3> QED
      BY <3>1, <3>2
  <2>2. CASE PassTime \/ UNCHANGED vars
    BY <1>2, <2>2 DEF PassTime, reqVars, vars
  <2> QED
    BY <1>2, <2>1, <2>2 DEF Next
<1>3. IInv /\ [Next]_vars =>
        [\A r \in Requests : (pc[r] = "idle" /\ pc'[r] = "gate") => Sorted(r)]_vars
  BY <1>1, <1>2
<1> QED
  BY <1>3, Invariance, PTL DEF Spec, RoutedByHealth
-----------------------------------------------------------------------------
(* The walk: which models a request has visited, what its last error is, and *)
(* what it is answered when it has not been served. Walk says it of one      *)
(* request: its label, chain, index, callErr, lastErr, wire and visits.      *)

Walking == {"idle", "gate", "limiter", "call", "probe", "relay"}
Visited == [model : Models, outcome : Outcome]

\* The last of the first n visits that gave an error gave err; None gave one.
Tracks(vs, n, err) ==
    IF err = "None"
    THEN \A k \in 1 .. n : vs[k].outcome = errEmpty
    ELSE \E k \in 1 .. n : /\ vs[k].outcome # errEmpty /\ Blame(vs[k].outcome) = err
                           /\ \A j \in k + 1 .. n : vs[j].outcome = errEmpty

\* The visits are to the first models of the chain, in turn.
Prefix(vs, ch) == /\ Len(vs) <= Len(ch)
                  /\ \A k \in 1 .. Len(vs) : vs[k].model = ch[k]

\* A request refused with e has been told of its last error, and a transient
\* one ends only a walk to the end of the chain.
Refused(ch, e, vs) ==
    /\ Tracks(vs, Len(vs), IF e = errNoModels THEN "None" ELSE e)
    /\ e = errNoModels \/ IsTransient(e) => Len(vs) = Len(ch)

Walk(at, ch, n, err, last, w, vs) ==
    /\ Prefix(vs, ch)
    /\ at = "idle" => vs = <<>>
    /\ at \in Walking => Len(vs) = n - 1 /\ Tracks(vs, Len(vs), last)
    /\ at \in {"succeeded", "failed", "limited"} => Len(vs) = n
    /\ at \in {"failed", "limited"} => Tracks(vs, Len(vs) - 1, last)
    /\ at = "limited" => err = "RateLimit"
    /\ at \in {"relay", "succeeded", "failed", "limited"} =>
           w = <<>> \/ w[1].event # "error"
    /\ at = "answered" => w = <<>> \/ w[1].event # "error" \/ Refused(ch, w[1].of, vs)

WalkInv(r) == Walk(pc[r], chain[r], i[r], callErr[r], lastErr[r], wire[r], visits[r])

\* The failures of a model that its tracker has been told of: all but those of
\* the requests that are about to tell.
Untold == {<<q, Len(visits[q])>> : q \in {p \in Requests : pc[p] = "failed"}}
Told(m) == FailuresOf(m, FailureKind) \ Untold

TallyInv ==
    \A m \in Models :
        /\ IsFiniteSet(FailuresOf(m, FailureKind))
        /\ failures[m] <= Cardinality(Told(m))
        /\ coolUntil[m] > 0 => FailuresOf(m, {"RateLimit"}) # {}

WalksInv == /\ IInv /\ (\A r \in Requests : WalkInv(r))
            /\ TallyInv /\ SkipsAreEarned
-----------------------------------------------------------------------------
\* A visit that gives an error becomes the last error; an empty one does not.
LEMMA TracksNext ==
    ASSUME NEW vs, NEW n \in Nat \ {0}, NEW e, NEW last,
           Tracks(vs, n - 1, last), e # "None",
           IF vs[n].outcome = errEmpty THEN e = last ELSE e = Blame(vs[n].outcome)
    PROVE  Tracks(vs, n, e)
<1>1. CASE vs[n].outcome = errEmpty
  <2>1. PICK k \in 1 .. n - 1 : /\ vs[k].outcome # errEmpty /\ Blame(vs[k].outcome) = e
                                /\ \A j \in k + 1 .. n - 1 : vs[j].outcome = errEmpty
    BY <1>1 DEF Tracks
  <2>2. k \in 1 .. n /\ \A j \in k + 1 .. n : j \in k + 1 .. n - 1 \/ j = n
    OBVIOUS
  <2>3. \A j \in k + 1 .. n : vs[j].outcome = errEmpty
    BY <1>1, <2>1, <2>2
  <2> QED
    BY <2>1, <2>2, <2>3 DEF Tracks
<1>2. CASE vs[n].outcome # errEmpty
  <2>1. n \in 1 .. n /\ \A j \in n + 1 .. n : FALSE
    OBVIOUS
  <2> QED
    BY <1>2, <2>1 DEF Tracks
<1> QED
  BY <1>1, <1>2

LEMMA TracksNone ==
    ASSUME NEW vs, NEW n \in Nat \ {0}, Tracks(vs, n - 1, "None"), vs[n].outcome = errEmpty
    PROVE  Tracks(vs, n, "None")
<1>1. \A k \in 1 .. n : k \in 1 .. n - 1 \/ k = n
  OBVIOUS
<1> QED
  BY <1>1 DEF Tracks

\* One more visit, to the next model of the chain.
LEMMA Grown ==
    ASSUME NEW vs \in Seq(Visited), NEW v \in Visited, NEW ch, NEW n \in Nat, NEW last,
           Prefix(vs, ch), Len(vs) = n - 1, n <= Len(ch), Len(ch) \in Nat, v.model = ch[n],
           Tracks(vs, Len(vs), last)
    PROVE  LET new == Append(vs, v)
           IN  /\ Prefix(new, ch) /\ Len(new) = n /\ new[n] = v
               /\ Tracks(new, n - 1, last)
<1> DEFINE new == Append(vs, v)
<1>1. /\ Len(new) = n /\ new[n] = v
      /\ \A k \in 1 .. n - 1 : new[k] = vs[k]
  BY AppendProperties
<1> HIDE DEF new
<1>2. \A k \in 1 .. n : k \in 1 .. n - 1 \/ k = n
  OBVIOUS
<1>3. Prefix(new, ch)
  BY <1>1, <1>2 DEF Prefix
<1>4. Tracks(new, n - 1, last)
  <2>1. CASE last = "None"
    BY <1>1, <2>1 DEF Tracks
  <2>2. CASE last # "None"
    <3>1. PICK k \in 1 .. n - 1 : /\ vs[k].outcome # errEmpty /\ Blame(vs[k].outcome) = last
                                  /\ \A j \in k + 1 .. n - 1 : vs[j].outcome = errEmpty
      BY <2>2 DEF Tracks
    <3>2. \A j \in k + 1 .. n - 1 : j \in 1 .. n - 1
      OBVIOUS
    <3> QED
      BY <1>1, <2>2, <3>1, <3>2 DEF Tracks
  <2> QED
    BY <2>1, <2>2
<1> QED
  BY <1>1, <1>3, <1>4 DEF new

\* Past a model without calling it.
LEMMA WalkSkips ==
    ASSUME NEW at \in {"gate", "limiter"}, NEW ch, NEW n \in Nat, NEW err, NEW last, NEW w,
           NEW vs \in Seq(Visited), NEW v \in Visited, Walk(at, ch, n, err, last, w, vs),
           n <= Len(ch), Len(ch) \in Nat,
           v.model = ch[n], v.outcome \in {"unhealthy", "cooling"}
    PROVE  Walk("gate", ch, n + 1, err, "RateLimit", w, Append(vs, v))
<1> DEFINE new == Append(vs, v)
<1>1. Prefix(vs, ch) /\ Len(vs) = n - 1 /\ Tracks(vs, Len(vs), last)
  BY DEF Walk, Walking
<1>2. /\ Prefix(new, ch) /\ Len(new) = n /\ new[n] = v
      /\ Tracks(new, n - 1, last)
  BY <1>1, Grown
<1> HIDE DEF new
<1>3. n # 0
  BY <1>1, LenProperties
<1>4. Tracks(new, n, "RateLimit")
  BY <1>2, <1>3, TracksNext DEF Blame, errEmpty
<1>5. (n + 1) - 1 = n
  OBVIOUS
<1>6. Walk("gate", ch, n + 1, err, "RateLimit", w, new)
  BY <1>2, <1>4, <1>5 DEF Walk, Walking
<1> QED
  BY <1>6 DEF new

\* A call ends, in a failure that has still to be recorded or in a success.
LEMMA WalkEndsCall ==
    ASSUME NEW at \in {"call", "probe", "relay"}, NEW to \in {"failed", "succeeded"},
           NEW ch, NEW n \in Nat, NEW err, NEW e, NEW last, NEW w, NEW x,
           NEW vs \in Seq(Visited), NEW v \in Visited, Walk(at, ch, n, err, last, w, vs),
           n <= Len(ch), Len(ch) \in Nat, v.model = ch[n],
           x = <<>> \/ x[1].event # "error"
    PROVE  Walk(to, ch, n, e, last, x, Append(vs, v))
<1> DEFINE new == Append(vs, v)
<1>1. Prefix(vs, ch) /\ Len(vs) = n - 1 /\ Tracks(vs, Len(vs), last)
  BY DEF Walk, Walking
<1>2. /\ Prefix(new, ch) /\ Len(new) = n
      /\ Tracks(new, n - 1, last)
  BY <1>1, Grown
<1> HIDE DEF new
<1>3. Walk(to, ch, n, e, last, x, new)
  BY <1>2 DEF Walk, Walking
<1> QED
  BY <1>3 DEF new

\* A recorded failure that cascades.
LEMMA WalkResumes ==
    ASSUME NEW at \in {"failed", "limited"}, NEW ch, NEW n \in Nat \ {0}, NEW err, NEW last,
           NEW e, NEW w, NEW vs, Walk(at, ch, n, err, last, w, vs),
           vs[Len(vs)].outcome = err,
           IF err = errEmpty THEN e = last ELSE e = Blame(err) /\ e # "None"
    PROVE  Walk("gate", ch, n + 1, err, e, w, vs)
<1>1. Prefix(vs, ch) /\ Len(vs) = n /\ Tracks(vs, n - 1, last)
  BY DEF Walk
<1>2. Tracks(vs, n, e)
  BY <1>1, TracksNext, TracksNone
<1> QED
  BY <1>1, <1>2 DEF Walk, Walking

\* A fatal failure is reported as it is.
LEMMA WalkRefuses ==
    ASSUME NEW at \in {"failed", "limited"}, NEW ch, NEW n \in Nat \ {0}, NEW err, NEW last,
           NEW w, NEW vs, Walk(at, ch, n, err, last, w, vs),
           vs[Len(vs)].outcome = err, err \in FailureKind \ {errEmpty}, ~IsTransient(err)
    PROVE  Refused(ch, err, vs)
<1>1. Len(vs) = n /\ Tracks(vs, n - 1, last)
  BY DEF Walk
<1>2. err \in ErrorKind /\ Blame(err) = err /\ err # "None" /\ err # errNoModels
  BY DispatchAssumption DEF FailureKind, ErrorKind, Blame, errNoModels
<1>3. Tracks(vs, n, err)
  BY <1>1, <1>2, TracksNext
<1> QED
  BY <1>1, <1>2, <1>3 DEF Refused

\* A walk that has run out of models is reported with its last error.
LEMMA WalkEnds ==
    ASSUME NEW ch, NEW n \in Nat, NEW err, NEW last \in ErrorKind \cup {"None"}, NEW w,
           NEW vs \in Seq(Visited), Len(ch) \in Nat,
           Walk("gate", ch, n, err, last, w, vs), n > Len(ch)
    PROVE  Refused(ch, IF last = "None" THEN errNoModels ELSE last, vs)
<1>1. Len(vs) = n - 1 /\ Tracks(vs, Len(vs), last) /\ Len(vs) <= Len(ch) /\ Len(vs) \in Nat
  BY LenProperties DEF Walk, Walking, Prefix
<1>2. Len(vs) = Len(ch)
  BY <1>1
<1>3. last # errNoModels
  BY DEF ErrorKind, errNoModels
<1> QED
  BY <1>1, <1>2, <1>3 DEF Refused

\* What the invariant already says of the visits and the chain of a request.
LEMMA WalkTypes ==
    ASSUME IInv, NEW r \in Requests
    PROVE  /\ visits[r] \in Seq(Visited) /\ chain[r] \in Seq(Models) /\ wire[r] \in Seq(Events)
           /\ Len(chain[r]) \in Nat /\ DOMAIN chain[r] = 1 .. Len(chain[r])
           /\ i[r] \in Nat \ {0} /\ lastErr[r] \in ErrorKind \cup {"None"}
           /\ i[r] \in DOMAIN chain[r] => model(r) \in Models /\ i[r] <= Len(chain[r])
<1>1. chain[r] \in Seq(Models)
  BY DEF IInv, TypeOK
<1>2. Len(chain[r]) \in Nat /\ DOMAIN chain[r] = 1 .. Len(chain[r])
  BY <1>1, LenProperties
<1>3. i[r] \in DOMAIN chain[r] => model(r) \in Models /\ i[r] <= Len(chain[r])
  BY <1>1, <1>2, ElementOfSeq DEF model
<1> QED
  BY <1>1, <1>2, <1>3 DEF IInv, TypeOK, Visited

\* What a visit adds.
LEMMA VisitAdds ==
    ASSUME IInv, NEW r \in Requests, NEW o \in Outcome, Visit(r, o), i[r] \in DOMAIN chain[r]
    PROVE  \E v \in Visited : /\ v.model = chain[r][i[r]] /\ v.outcome = o
                              /\ visits'[r] = Append(visits[r], v)
<1> DEFINE v == [model |-> model(r), outcome |-> o]
<1>1. v \in Visited /\ v.model = chain[r][i[r]] /\ v.outcome = o
  BY WalkTypes DEF Visited, model
<1>2. visits' = [visits EXCEPT ![r] = Append(visits[r], v)]
  BY DEF Visit
<1>3. visits'[r] = Append(visits[r], v)
  BY <1>2 DEF IInv, TypeOK
<1> QED
  BY <1>1, <1>3

\* The first event on a wire stays the first.
LEMMA FirstStays ==
    ASSUME IInv, NEW r \in Requests, NEW s \in Seq(Events), Send(r, s), wire[r] # <<>>
    PROVE  wire'[r][1] = wire[r][1]
<1>1. wire'[r] = wire[r] \o s /\ wire[r] \in Seq(Events)
  BY DEF IInv, TypeOK, Send
<1>2. Len(wire[r]) \in Nat \ {0} /\ Len(s) \in Nat
  BY <1>1, EmptySeq, LenProperties
<1>3. 1 \in 1 .. Len(wire[r]) + Len(s) /\ 1 <= Len(wire[r])
  BY <1>2
<1> QED
  BY <1>1, <1>3, ConcatProperties

LEMMA FirstIsProblem ==
    ASSUME IInv, NEW r \in Requests, NEW e \in AnswerError, SendError(r, e), wire[r] = <<>>
    PROVE  wire'[r][1] = Problem(e)
<1>1. Problem(e) \in Events /\ DONE \in Events /\ Len(wire[r]) + 1 = 1 /\ TypeOK
  BY DEF Events, Problem, DONE, IInv
<1>2. CASE stream[r]
  BY <1>1, <1>2, SendTwo DEF SendError
<1>3. CASE ~stream[r]
  BY <1>1, <1>3, SendOne DEF SendError
<1> QED
  BY <1>2, <1>3
-----------------------------------------------------------------------------
\* The steps that visit no model.
LEMMA QuietWalk ==
    ASSUME IInv, NEW r \in Requests, WalkInv(r),
           \/ Route(r) \/ PassHealth(r) \/ CallUpstream(r) \/ ProbeCommits(r) \/ RelayChunk(r)
           \/ CallReturns(r) /\ stream[r]
    PROVE  WalkInv(r)'
<1>1. CASE Route(r)
  <2>1. /\ pc[r] = "idle" /\ pc'[r] = "gate"
        /\ UNCHANGED <<i, callErr, lastErr, wire, visits>>
    BY <1>1 DEF Route, Goto, IInv, TypeOK
  <2>2. chain'[r] \in Seq(Models)
    BY <1>1, LocalStep DEF TypeOK
  <2>3. Len(chain'[r]) \in Nat /\ visits[r] = <<>> /\ Len(visits[r]) = 0
    BY <2>1, <2>2, LenProperties DEF WalkInv, Walk
  <2>4. Prefix(visits[r], chain'[r])
    BY <2>3 DEF Prefix
  <2> QED
    BY <2>1, <2>4 DEF WalkInv, Walk, Walking
<1>2. CASE PassHealth(r) \/ CallUpstream(r) \/ (CallReturns(r) /\ stream[r])
  <2>1. /\ pc[r] \in Walking \ {"idle"} /\ pc'[r] \in {"limiter", "call", "probe"}
        /\ UNCHANGED <<chain, i, callErr, lastErr, wire, visits>>
    BY <1>2 DEF PassHealth, CallUpstream, CallReturns, Goto, IInv, TypeOK, Walking
  <2> QED
    BY <2>1 DEF WalkInv, Walk, Walking
<1>3. CASE ProbeCommits(r) \/ RelayChunk(r)
  <2>1. /\ pc[r] \in {"probe", "relay"} /\ pc'[r] = "relay"
        /\ Send(r, <<Chunk(model(r))>>)
        /\ UNCHANGED <<chain, i, callErr, lastErr, visits>>
    BY <1>3 DEF ProbeCommits, RelayChunk, Goto, IInv, TypeOK
  <2>2. model(r) \in Models
    BY <2>1, WalkTypes DEF IInv, ReqInv, Located
  <2>3. Chunk(model(r)) \in Events /\ Chunk(model(r)).event # "error"
    BY <2>2 DEF Chunk, Events
  <2>4. pc[r] = "relay" => wire[r] # <<>> /\ wire[r][1].event # "error"
    BY DEF IInv, ReqInv, WireInv, WalkInv, Walk
  <2>5. pc[r] = "probe" => wire[r] = <<>>
    BY DEF IInv, ReqInv, WireInv
  <2>6. wire'[r][1].event # "error"
    <3>1. CASE pc[r] = "relay"
      <4>1. <<Chunk(model(r))>> \in Seq(Events)
        BY <2>3
      <4> QED
        BY <2>1, <2>4, <3>1, <4>1, FirstStays
    <3>2. CASE pc[r] = "probe"
      <4>1. Len(wire[r]) + 1 = 1
        BY <2>5, <3>2
      <4> QED
        BY <2>1, <2>3, <4>1, SendOne DEF IInv
    <3> QED
      BY <2>1, <3>1, <3>2
  <2> QED
    BY <2>1, <2>6 DEF WalkInv, Walk, Walking
<1> QED
  BY <1>1, <1>2, <1>3

LEMMA SkipWalk ==
    ASSUME IInv, NEW r \in Requests, WalkInv(r), SkipUnhealthy(r) \/ SkipLimited(r)
    PROVE  WalkInv(r)'
<1>1. PICK o \in {"unhealthy", "cooling"} : Visit(r, o)
  BY DEF SkipUnhealthy, SkipLimited
<1>2. /\ pc[r] \in {"gate", "limiter"} /\ pc'[r] = "gate"
      /\ i'[r] = i[r] + 1 /\ lastErr'[r] = "RateLimit"
      /\ UNCHANGED <<chain, callErr, wire>>
  BY DEF SkipUnhealthy, SkipLimited, NextModel, Goto, IInv, TypeOK
<1>3. i[r] \in DOMAIN chain[r]
  BY <1>2, WalkTypes DEF SkipUnhealthy, SkipLimited, IInv, ReqInv, Located
<1>4. o \in Outcome
  BY DEF Outcome
<1>5. PICK v \in Visited : /\ v.model = chain[r][i[r]] /\ v.outcome = o
                           /\ visits'[r] = Append(visits[r], v)
  BY <1>1, <1>3, <1>4, VisitAdds
<1>6. Walk("gate", chain[r], i[r] + 1, callErr[r], "RateLimit", wire[r], Append(visits[r], v))
  BY <1>2, <1>3, <1>5, WalkTypes, WalkSkips DEF WalkInv
<1> QED
  BY <1>2, <1>5, <1>6 DEF WalkInv

\* The steps with which a call ends.
LEMMA EndWalk ==
    ASSUME IInv, NEW r \in Requests, WalkInv(r),
           \/ CallFails(r) \/ ProbeFails(r) \/ RelayFails(r) \/ RelayEnds(r)
           \/ CallReturns(r) /\ ~stream[r]
    PROVE  WalkInv(r)'
<1>1. PICK o \in Outcome : Visit(r, o)
  BY DispatchAssumption DEF CallFails, ProbeFails, RelayFails, RelayEnds, CallReturns,
                            Outcome, FailureKind
<1>2. /\ pc[r] \in {"call", "probe", "relay"} /\ pc'[r] \in {"failed", "succeeded"}
      /\ UNCHANGED <<chain, i, lastErr>>
  BY DEF CallFails, ProbeFails, RelayFails, RelayEnds, CallReturns, Goto, IInv, TypeOK
<1>3. i[r] \in DOMAIN chain[r]
  BY <1>2 DEF IInv, ReqInv, Located
<1>4. PICK v \in Visited : /\ v.model = chain[r][i[r]] /\ v.outcome = o
                           /\ visits'[r] = Append(visits[r], v)
  BY <1>1, <1>3, VisitAdds
<1>5. wire'[r] = <<>> \/ wire'[r][1].event # "error"
  <2>1. CASE pc[r] = "relay"
    <3>1. wire[r] # <<>> /\ wire[r][1].event # "error"
      BY <2>1 DEF IInv, ReqInv, WireInv, WalkInv, Walk
    <3>2. PICK s \in Seq(Events) : Send(r, s)
      <4>1. CASE RelayEnds(r)
        <5>1. DONE \in Events /\ <<DONE>> \in Seq(Events) /\ Send(r, <<DONE>>)
          BY <4>1 DEF RelayEnds, Events
        <5> QED
          BY <5>1
      <4>2. CASE RelayFails(r)
        <5>1. PICK e \in UpstreamErrors : SendError(r, e)
          BY <4>2 DEF RelayFails
        <5>2. Problem(e) \in Events /\ DONE \in Events
          BY DispatchAssumption DEF Events, AnswerError, Problem, DONE
        <5>3. <<Problem(e), DONE>> \in Seq(Events) /\ <<Problem(e)>> \in Seq(Events)
          BY <5>2
        <5>4. Send(r, <<Problem(e), DONE>>) \/ Send(r, <<Problem(e)>>)
          BY <5>1 DEF SendError
        <5> QED
          BY <5>3, <5>4
      <4> QED
        BY <2>1, <4>1, <4>2 DEF CallFails, ProbeFails, CallReturns
    <3> QED
      BY <3>1, <3>2, FirstStays
  <2>2. CASE pc[r] # "relay"
    <3>1. wire' = wire /\ wire[r] = <<>>
      BY <1>2, <2>2 DEF CallFails, ProbeFails, RelayFails, RelayEnds, CallReturns,
                        IInv, ReqInv, WireInv
    <3> QED
      BY <3>1
  <2> QED
    BY <2>1, <2>2
<1>6. Walk(pc'[r], chain[r], i[r], callErr'[r], lastErr[r], wire'[r], Append(visits[r], v))
  BY <1>2, <1>3, <1>4, <1>5, WalkTypes, WalkEndsCall DEF WalkInv
<1> QED
  BY <1>2, <1>4, <1>6 DEF WalkInv

LEMMA SucceedWalk ==
    ASSUME IInv, NEW r \in Requests, WalkInv(r), Succeed(r)
    PROVE  WalkInv(r)'
<1>1. /\ pc[r] = "succeeded" /\ pc'[r] = "answered"
      /\ UNCHANGED <<chain, i, callErr, lastErr, visits>>
  BY DEF Succeed, Goto, IInv, TypeOK
<1>2. wire'[r] = <<>> \/ wire'[r][1].event # "error"
  <2>1. CASE stream[r]
    BY <1>1, <2>1 DEF Succeed, WalkInv, Walk
  <2>2. CASE ~stream[r]
    <3>1. model(r) \in Models /\ wire[r] = <<>>
      BY <1>1, <2>2, WalkTypes DEF IInv, ReqInv, Located, WireInv
    <3>2. /\ Send(r, <<Reply(model(r))>>) /\ Reply(model(r)) \in Events
          /\ Reply(model(r)).event = "reply" /\ Len(wire[r]) + 1 = 1
      BY <2>2, <3>1 DEF Succeed, Reply, Events
    <3>3. wire'[r][1] = Reply(model(r))
      BY <3>2, SendOne DEF IInv
    <3> QED
      BY <3>2, <3>3
  <2> QED
    BY <2>1, <2>2
<1>3. Prefix(visits[r], chain[r])
  BY DEF WalkInv, Walk
<1> QED
  BY <1>1, <1>2, <1>3 DEF WalkInv, Walk, Walking

\* A request that is refused at once.
LEMMA RefuseWalk ==
    ASSUME IInv, NEW r \in Requests, WalkInv(r), NoClient(r) \/ GiveUp(r)
    PROVE  WalkInv(r)'
<1>1. CASE NoClient(r)
  <2>1. /\ pc[r] = "limiter" /\ pc'[r] = "answered" /\ Visit(r, "Auth") /\ SendError(r, "Auth")
        /\ wire[r] = <<>> /\ i[r] \in DOMAIN chain[r]
        /\ UNCHANGED <<chain, i, callErr>>
    BY <1>1 DEF NoClient, Goto, IInv, TypeOK, ReqInv, WireInv, Located
  <2>2. "Auth" \in Outcome /\ "Auth" \in AnswerError /\ "Auth" \notin {errEmpty, errNoModels, "None"}
    BY DEF Outcome, AnswerError, ErrorKind, errEmpty, errNoModels
  <2>3. PICK v \in Visited : /\ v.model = chain[r][i[r]] /\ v.outcome = "Auth"
                             /\ visits'[r] = Append(visits[r], v)
    BY <2>1, <2>2, VisitAdds
  <2>4. wire'[r][1] = Problem("Auth")
    BY <2>1, <2>2, FirstIsProblem
  <2>5. Prefix(visits[r], chain[r]) /\ Len(visits[r]) = i[r] - 1
        /\ Tracks(visits[r], Len(visits[r]), lastErr[r])
    BY <2>1 DEF WalkInv, Walk, Walking
  <2>6. /\ Prefix(visits'[r], chain[r]) /\ Len(visits'[r]) = i[r]
        /\ visits'[r][i[r]] = v /\ Tracks(visits'[r], i[r] - 1, lastErr[r])
    <3>1. i[r] \in Nat /\ Len(chain[r]) \in Nat /\ i[r] <= Len(chain[r])
          /\ visits[r] \in Seq(Visited)
      BY <2>1, WalkTypes
    <3>2. /\ Prefix(Append(visits[r], v), chain[r]) /\ Len(Append(visits[r], v)) = i[r]
          /\ Append(visits[r], v)[i[r]] = v /\ Tracks(Append(visits[r], v), i[r] - 1, lastErr[r])
      BY <2>3, <2>5, <3>1, Grown
    <3> QED
      BY <2>3, <3>2
  <2>7. Blame("Auth") = "Auth" /\ ~IsTransient("Auth")
    BY DEF Blame, IsTransient
  <2>8. Tracks(visits'[r], i[r], "Auth")
    BY <2>2, <2>3, <2>6, <2>7, WalkTypes, TracksNext
  <2>9. Refused(chain[r], "Auth", visits'[r])
    BY <2>2, <2>6, <2>7, <2>8 DEF Refused
  <2> QED
    BY <2>1, <2>4, <2>6, <2>9 DEF WalkInv, Walk, Walking, Problem
<1>2. CASE GiveUp(r)
  <2> DEFINE e == IF lastErr[r] = "None" THEN errNoModels ELSE lastErr[r]
  <2>1. /\ pc[r] = "gate" /\ pc'[r] = "answered" /\ i[r] > Len(chain[r])
        /\ SendError(r, e) /\ wire[r] = <<>>
        /\ UNCHANGED <<chain, i, callErr, lastErr, visits>>
    BY <1>2 DEF GiveUp, Goto, IInv, TypeOK, ReqInv, WireInv
  <2>2. e \in AnswerError
    BY WalkTypes DEF AnswerError
  <2>3. wire'[r][1] = Problem(e)
    BY <2>1, <2>2, FirstIsProblem
  <2>4. Refused(chain[r], e, visits[r]) /\ Prefix(visits[r], chain[r])
    BY <2>1, WalkTypes, WalkEnds DEF WalkInv, Walk
  <2> HIDE DEF e
  <2> QED
    BY <2>1, <2>3, <2>4 DEF WalkInv, Walk, Walking, Problem
<1> QED
  BY <1>1, <1>2

\* A recorded failure: the limiter is told, or the loop goes on or ends.
LEMMA RecordWalk ==
    ASSUME IInv, NEW r \in Requests, WalkInv(r), Fail(r) \/ CoolDown(r)
    PROVE  WalkInv(r)'
<1>1. /\ pc[r] \in {"failed", "limited"} /\ UNCHANGED <<chain, callErr, visits>>
      /\ callErr[r] \in FailureKind
      /\ visits[r][Len(visits[r])].outcome = callErr[r]
      /\ Prefix(visits[r], chain[r])
  BY DEF Fail, CoolDown, IInv, TypeOK, ReqInv, VisitInv, WalkInv, Walk
<1>2. CASE pc[r] = "failed" /\ callErr[r] = "RateLimit" /\ Fail(r)
  <2>1. pc'[r] = "limited" /\ UNCHANGED <<i, lastErr, wire>>
    BY <1>2 DEF Fail, Goto, IInv, TypeOK
  <2> QED
    BY <1>1, <1>2, <2>1 DEF WalkInv, Walk, Walking
<1>3. CASE Resume(r)
  <2>1. ASSUME NEW e, NextModel(r, e), UNCHANGED wire,
               IF callErr[r] = errEmpty THEN e = lastErr[r] ELSE e = Blame(callErr[r]) /\ e # "None"
        PROVE  WalkInv(r)'
    <3>1. pc'[r] = "gate" /\ i'[r] = i[r] + 1 /\ lastErr'[r] = e
      BY <2>1 DEF NextModel, Goto, IInv, TypeOK
    <3>2. Walk("gate", chain[r], i[r] + 1, callErr[r], e, wire[r], visits[r])
      BY <1>1, <2>1, WalkTypes, WalkResumes DEF WalkInv
    <3> QED
      BY <1>1, <2>1, <3>1, <3>2 DEF WalkInv
  <2>2. CASE Committed(r) /\ Goto(r, "answered") /\ UNCHANGED <<i, lastErr, wire>>
    <3>1. wire[r] = <<>> \/ wire[r][1].event # "error"
      BY <1>1 DEF WalkInv, Walk
    <3>2. pc'[r] = "answered"
      BY <2>2 DEF Goto, IInv, TypeOK
    <3> QED
      BY <1>1, <2>2, <3>1, <3>2 DEF WalkInv, Walk, Walking
  <2>3. CASE callErr[r] = errEmpty /\ NextModel(r, lastErr[r]) /\ UNCHANGED wire
    BY <2>1, <2>3
  <2>4. CASE IsTransient(callErr[r]) /\ NextModel(r, callErr[r]) /\ UNCHANGED wire
    <3>1. callErr[r] # errEmpty /\ Blame(callErr[r]) = callErr[r] /\ callErr[r] # "None"
      BY <2>4 DEF IsTransient, errEmpty, Blame
    <3> QED
      BY <2>1, <2>4, <3>1
  <2>5. CASE /\ ~Committed(r) /\ callErr[r] # errEmpty /\ ~IsTransient(callErr[r])
             /\ SendError(r, callErr[r]) /\ Goto(r, "answered")
    <3>1. Refused(chain[r], callErr[r], visits[r])
      BY <1>1, <2>5, WalkTypes, WalkRefuses DEF WalkInv
    <3>2. callErr[r] \in AnswerError /\ wire[r] = <<>>
      BY <1>1, <2>5, DispatchAssumption DEF AnswerError, FailureKind, Committed
    <3>3. wire'[r][1] = Problem(callErr[r])
      BY <2>5, <3>2, FirstIsProblem
    <3>4. pc'[r] = "answered"
      BY <2>5 DEF Goto, IInv, TypeOK
    <3> QED
      BY <1>1, <3>1, <3>3, <3>4 DEF WalkInv, Walk, Walking, Problem
  <2> QED
    BY <1>3, <2>2, <2>3, <2>4, <2>5 DEF Resume
<1> QED
  BY <1>2, <1>3 DEF Fail, CoolDown

\* Whatever step r takes.
LEMMA WalkStep ==
    ASSUME IInv, NEW r \in Requests, WalkInv(r), Route(r) \/ Loop(r) \/ Answer(r) \/ Feed(r)
    PROVE  WalkInv(r)'
BY QuietWalk, SkipWalk, EndWalk, SucceedWalk, RefuseWalk, RecordWalk DEF Loop, Answer, Feed
-----------------------------------------------------------------------------
(* The tally: what the trackers hold of a model never outweighs what the     *)
(* requests have seen it do.                                                 *)

LEMMA FailuresAre ==
    ASSUME NEW m, NEW kinds, NEW x
    PROVE  /\ x \in FailuresOf(m, kinds) <=>
                \E q \in Requests : \E k \in DOMAIN visits[q] :
                    /\ x = <<q, k>>
                    /\ visits[q][k].model = m /\ visits[q][k].outcome \in kinds
           /\ x \in FailuresOf(m, kinds)' <=>
                \E q \in Requests : \E k \in DOMAIN visits'[q] :
                    /\ x = <<q, k>>
                    /\ visits'[q][k].model = m /\ visits'[q][k].outcome \in kinds
BY DEF FailuresOf

\* A step of r adds at most one visit, its last; a failure always is one more,
\* and a model is passed over on its trackers' word.
Kept == \A q \in Requests : \A k \in DOMAIN visits[q] :
            k \in DOMAIN visits'[q] /\ visits'[q][k] = visits[q][k]
Fresh(q, k) == k \in DOMAIN visits'[q] /\ k \notin DOMAIN visits[q]

LEMMA VisitKeeps ==
    ASSUME IInv, NEW r \in Requests, NEW o \in Outcome, Visit(r, o), i[r] \in DOMAIN chain[r]
    PROVE  /\ Kept
           /\ \A q \in Requests : \A k : Fresh(q, k) =>
                /\ q = r /\ k = Len(visits'[r])
                /\ visits'[q][k].model = model(r) /\ visits'[q][k].outcome = o
           /\ Len(visits'[r]) \notin DOMAIN visits[r]
<1>1. PICK v \in Visited : /\ v.model = chain[r][i[r]] /\ v.outcome = o
                           /\ visits'[r] = Append(visits[r], v)
  BY VisitAdds
<1>2. visits[r] \in Seq(Visited)
  BY WalkTypes
<1>3. /\ Len(visits[r]) \in Nat /\ DOMAIN visits[r] = 1 .. Len(visits[r])
      /\ Append(visits[r], v) \in Seq(Visited)
  BY <1>2, LenProperties, AppendProperties
<1>4. /\ Len(visits'[r]) = Len(visits[r]) + 1
      /\ DOMAIN visits'[r] = 1 .. Len(visits[r]) + 1
      /\ \A k \in 1 .. Len(visits[r]) : visits'[r][k] = visits[r][k]
      /\ visits'[r][Len(visits[r]) + 1] = v
  BY <1>1, <1>2, <1>3, AppendProperties, LenProperties
<1>5. \A q \in Requests \ {r} : visits'[q] = visits[q]
  BY DEF Visit, IInv, TypeOK
<1>6. /\ \A k \in DOMAIN visits[r] : k \in DOMAIN visits'[r] /\ visits'[r][k] = visits[r][k]
      /\ \A k : Fresh(r, k) => k = Len(visits[r]) + 1
      /\ Len(visits[r]) + 1 \notin DOMAIN visits[r]
  BY <1>3, <1>4 DEF Fresh
<1>7. Kept
  BY <1>5, <1>6 DEF Kept
<1>8. ASSUME NEW q \in Requests, NEW k, Fresh(q, k)
      PROVE  /\ q = r /\ k = Len(visits'[r])
             /\ visits'[q][k].model = model(r) /\ visits'[q][k].outcome = o
  <2>1. q = r
    BY <1>5, <1>8 DEF Fresh
  <2> QED
    BY <1>1, <1>4, <1>6, <1>8, <2>1 DEF model
<1> QED
  BY <1>4, <1>6, <1>7, <1>8

LEMMA StepVisits ==
    ASSUME IInv, NEW r \in Requests, Route(r) \/ Loop(r) \/ Answer(r) \/ Feed(r)
    PROVE  /\ Kept
           /\ \A q \in Requests : \A k : Fresh(q, k) =>
                /\ q = r /\ k = Len(visits'[r])
                /\ visits'[q][k].model = model(r) /\ model(r) \in Models
                /\ visits'[q][k].outcome = "unhealthy" => ~Available(model(r))
                /\ visits'[q][k].outcome = "cooling" => Limited(model(r))
           /\ pc'[r] = "failed" => Len(visits'[r]) \notin DOMAIN visits[r]
<1>1. ASSUME NEW o \in Outcome, Visit(r, o), i[r] \in DOMAIN chain[r],
             o = "unhealthy" => ~Available(model(r)), o = "cooling" => Limited(model(r))
      PROVE  /\ Kept
             /\ \A q \in Requests : \A k : Fresh(q, k) =>
                  /\ q = r /\ k = Len(visits'[r])
                  /\ visits'[q][k].model = model(r) /\ model(r) \in Models
                  /\ visits'[q][k].outcome = "unhealthy" => ~Available(model(r))
                  /\ visits'[q][k].outcome = "cooling" => Limited(model(r))
             /\ pc'[r] = "failed" => Len(visits'[r]) \notin DOMAIN visits[r]
  BY <1>1, VisitKeeps, WalkTypes
<1>2. ASSUME UNCHANGED visits, pc'[r] # "failed"
      PROVE  Kept /\ \A q \in Requests : \A k : ~Fresh(q, k)
  BY <1>2 DEF Kept, Fresh
<1>3. CASE SkipUnhealthy(r) \/ SkipLimited(r)
  <2>1. i[r] \in DOMAIN chain[r]
    BY <1>3, WalkTypes DEF SkipUnhealthy, SkipLimited, IInv, ReqInv, Located
  <2>2. PICK o \in {"unhealthy", "cooling"} :
          /\ Visit(r, o)
          /\ o = "unhealthy" => ~Available(model(r))
          /\ o = "cooling" => Limited(model(r))
    BY <1>3 DEF SkipUnhealthy, SkipLimited, CheckRefuses
  <2>3. o \in Outcome
    BY DEF Outcome
  <2> QED
    BY <1>1, <2>1, <2>2, <2>3
<1>4. CASE \/ CallFails(r) \/ ProbeFails(r) \/ RelayFails(r) \/ RelayEnds(r)
           \/ (CallReturns(r) /\ ~stream[r]) \/ NoClient(r)
  <2>1. i[r] \in DOMAIN chain[r]
    BY <1>4 DEF CallFails, ProbeFails, RelayFails, RelayEnds, CallReturns, NoClient,
                IInv, ReqInv, Located
  <2>2. PICK o \in FailureKind \cup {"ok", "Auth"} : Visit(r, o)
    BY <1>4 DEF CallFails, ProbeFails, RelayFails, RelayEnds, CallReturns, NoClient, FailureKind
  <2>3. o \in Outcome /\ o \notin {"unhealthy", "cooling"}
    BY DispatchAssumption DEF Outcome, FailureKind, ErrorKind, errEmpty
  <2> QED
    BY <1>1, <2>1, <2>2, <2>3
<1>5. CASE \/ Route(r) \/ PassHealth(r) \/ CallUpstream(r) \/ ProbeCommits(r) \/ RelayChunk(r)
           \/ (CallReturns(r) /\ stream[r]) \/ Succeed(r) \/ GiveUp(r)
  <2>1. UNCHANGED visits
    BY <1>5 DEF Route, PassHealth, CallUpstream, ProbeCommits, RelayChunk, CallReturns,
                Succeed, GiveUp
  <2>2. pc'[r] # "failed"
    BY <1>5 DEF Route, PassHealth, CallUpstream, ProbeCommits, RelayChunk, CallReturns,
                Succeed, GiveUp, Goto, IInv, TypeOK
  <2> QED
    BY <1>2, <2>1, <2>2
<1>6. CASE Fail(r) \/ CoolDown(r)
  <2>1. UNCHANGED visits
    BY <1>6 DEF Fail, CoolDown
  <2>2. pc'[r] # "failed"
    BY <1>6 DEF Fail, CoolDown, Resume, NextModel, Goto, IInv, TypeOK
  <2> QED
    BY <1>2, <2>1, <2>2
<1> QED
  BY <1>3, <1>4, <1>5, <1>6 DEF Loop, Answer, Feed

\* So the failures of a model are never forgotten, and what its tracker has
\* been told of stays told.
LEMMA FailuresGrow ==
    ASSUME IInv, NEW r \in Requests, Route(r) \/ Loop(r) \/ Answer(r) \/ Feed(r),
           NEW m, NEW kinds
    PROVE  /\ FailuresOf(m, kinds) \subseteq FailuresOf(m, kinds)'
           /\ FailuresOf(m, kinds)' \subseteq
                FailuresOf(m, kinds) \cup {<<r, Len(visits'[r])>>}
<1>1. ASSUME NEW x \in FailuresOf(m, kinds) PROVE x \in FailuresOf(m, kinds)'
  <2>1. PICK q \in Requests : \E k \in DOMAIN visits[q] :
          x = <<q, k>> /\ visits[q][k].model = m /\ visits[q][k].outcome \in kinds
    BY FailuresAre
  <2>1b. PICK k \in DOMAIN visits[q] :
          x = <<q, k>> /\ visits[q][k].model = m /\ visits[q][k].outcome \in kinds
    BY <2>1
  <2>2. k \in DOMAIN visits'[q] /\ visits'[q][k] = visits[q][k]
    BY StepVisits DEF Kept
  <2> QED
    BY <2>1b, <2>2, FailuresAre
<1>2. ASSUME NEW x \in FailuresOf(m, kinds)'
      PROVE  x \in FailuresOf(m, kinds) \cup {<<r, Len(visits'[r])>>}
  <2>1. PICK q \in Requests : \E k \in DOMAIN visits'[q] :
          x = <<q, k>> /\ visits'[q][k].model = m /\ visits'[q][k].outcome \in kinds
    BY FailuresAre
  <2>1b. PICK k \in DOMAIN visits'[q] :
          x = <<q, k>> /\ visits'[q][k].model = m /\ visits'[q][k].outcome \in kinds
    BY <2>1
  <2>2. CASE k \in DOMAIN visits[q]
    <3>1. visits'[q][k] = visits[q][k]
      BY <2>2, StepVisits DEF Kept
    <3> QED
      BY <2>1b, <2>2, <3>1, FailuresAre
  <2>3. CASE k \notin DOMAIN visits[q]
    <3>1. Fresh(q, k)
      BY <2>1b, <2>3 DEF Fresh
    <3>2. q = r /\ k = Len(visits'[r])
      BY <3>1, StepVisits
    <3> QED
      BY <2>1b, <3>2
  <2> QED
    BY <2>2, <2>3
<1> QED
  BY <1>1, <1>2

LEMMA ToldGrows ==
    ASSUME IInv, NEW r \in Requests, Route(r) \/ Loop(r) \/ Answer(r) \/ Feed(r), NEW m
    PROVE  Told(m) \subseteq Told(m)'
<1> SUFFICES ASSUME NEW x \in Told(m), x \in Untold' PROVE FALSE
  BY FailuresGrow DEF Told
<1>1. PICK q \in Requests : pc'[q] = "failed" /\ x = <<q, Len(visits'[q])>>
  BY DEF Untold
<1>2. PICK p \in Requests : \E k \in DOMAIN visits[p] : x = <<p, k>>
  BY FailuresAre DEF Told
<1>2b. PICK k \in DOMAIN visits[p] : x = <<p, k>>
  BY <1>2
<1>3. p = q /\ k = Len(visits'[q])
  BY <1>1, <1>2b
<1>4. CASE q = r
  BY <1>1, <1>2b, <1>3, <1>4, StepVisits
<1>5. CASE q # r
  <2>1. pc'[q] = pc[q] /\ visits'[q] = visits[q]
    BY <1>5, LocalStep DEF Local
  <2> QED
    BY <1>1, <2>1 DEF Told, Untold
<1> QED
  BY <1>4, <1>5

\* Only the record of a failure raises a count, by one and for a failure that
\* the tracker had not been told of.
LEMMA TellsOne ==
    ASSUME IInv, NEW r \in Requests, WalkInv(r), Fail(r), NEW m, m = model(r)
    PROVE  \E x : x \notin Told(m) /\ x \in Told(m)'
<1> DEFINE x == <<r, Len(visits[r])>>
<1>1. /\ pc[r] = "failed" /\ i[r] \in DOMAIN chain[r] /\ i[r] = Len(visits[r])
      /\ callErr[r] \in FailureKind
      /\ visits[r][Len(visits[r])].outcome = callErr[r] /\ Prefix(visits[r], chain[r])
  BY DEF Fail, IInv, TypeOK, ReqInv, Located, VisitInv, WalkInv, Walk
<1>2. visits[r] \in Seq(Visited) /\ i[r] \in Nat \ {0}
  BY WalkTypes
<1>3. Len(visits[r]) \in DOMAIN visits[r] /\ Len(visits[r]) \in 1 .. Len(visits[r])
  BY <1>1, <1>2, LenProperties
<1>4. visits[r][Len(visits[r])].model = m
  BY <1>1, <1>3 DEF Prefix, model
<1>5. x \in FailuresOf(m, FailureKind)
  BY <1>1, <1>3, <1>4, FailuresAre
<1>6. x \in Untold
  BY <1>1 DEF Untold
<1>7. pc'[r] # "failed"
  BY DEF Fail, Resume, NextModel, Goto, IInv, TypeOK
<1>8. FailuresOf(m, FailureKind) \subseteq FailuresOf(m, FailureKind)'
  BY FailuresGrow DEF Loop
<1>9. \A q \in Requests : pc'[q] = "failed" => x # <<q, Len(visits'[q])>>
  BY <1>7
<1>10. x \notin Untold'
  BY <1>9 DEF Untold
<1> QED
  BY <1>5, <1>6, <1>8, <1>10 DEF Told

\* A model that is left to cool has answered 429 to this very request.
LEMMA LimitIsEarned ==
    ASSUME IInv, NEW r \in Requests, WalkInv(r), CoolDown(r), NEW m, m = model(r)
    PROVE  FailuresOf(m, {"RateLimit"}) # {}
<1>1. /\ i[r] = Len(visits[r]) /\ callErr[r] = "RateLimit"
      /\ visits[r][Len(visits[r])].outcome = callErr[r] /\ Prefix(visits[r], chain[r])
  BY DEF CoolDown, IInv, ReqInv, VisitInv, WalkInv, Walk
<1>2. visits[r] \in Seq(Visited) /\ i[r] \in Nat \ {0}
  BY WalkTypes
<1>3. Len(visits[r]) \in DOMAIN visits[r] /\ Len(visits[r]) \in 1 .. Len(visits[r])
  BY <1>1, <1>2, LenProperties
<1>4. visits[r][Len(visits[r])].model = m
  BY <1>1, <1>3 DEF Prefix, model
<1>5. <<r, Len(visits[r])>> \in FailuresOf(m, {"RateLimit"})
  BY <1>1, <1>3, <1>4, FailuresAre
<1> QED
  BY <1>5

\* What a step does to the trackers.
LEMMA TrackersMove ==
    ASSUME IInv, NEW r \in Requests, Route(r) \/ Loop(r) \/ Answer(r) \/ Feed(r),
           NEW m \in Models
    PROVE  /\ failures[m] \in Nat /\ failures'[m] \in Nat /\ coolUntil[m] \in Nat
           /\ \/ failures'[m] <= failures[m]
              \/ Fail(r) /\ m = model(r) /\ failures'[m] = failures[m] + 1
           /\ coolUntil'[m] > 0 => coolUntil[m] > 0 \/ (CoolDown(r) /\ m = model(r))
<1>1. /\ failures \in [Models -> Nat] /\ failures' \in [Models -> Nat]
      /\ coolUntil \in [Models -> Nat]
  BY LocalStep DEF IInv, TypeOK, HealthTypeOK, CooldownTypeOK
<1>2. \/ failures' = failures
      \/ failures' = [failures EXCEPT ![model(r)] = 0]
      \/ Fail(r) /\ failures' = [failures EXCEPT ![model(r)] = @ + 1]
  BY DEF Loop, Answer, Feed, Route, PassHealth, SkipUnhealthy, SkipLimited, CallUpstream,
         NoClient, CallReturns, CallFails, ProbeCommits, ProbeFails, RelayChunk, RelayEnds,
         RelayFails, Succeed, Fail, CoolDown, GiveUp, RecordSuccess, RecordFailure, healthVars
<1>3. \/ failures'[m] <= failures[m]
      \/ Fail(r) /\ m = model(r) /\ failures'[m] = failures[m] + 1
  <2>1. failures[m] \in Nat
    BY <1>1
  <2>2. CASE failures' = failures
    BY <2>1, <2>2
  <2>3. CASE failures' = [failures EXCEPT ![model(r)] = 0]
    <3>1. failures'[m] = IF m = model(r) THEN 0 ELSE failures[m]
      BY <1>1, <2>3
    <3> QED
      BY <2>1, <3>1
  <2>4. CASE Fail(r) /\ failures' = [failures EXCEPT ![model(r)] = @ + 1]
    <3>1. failures'[m] = IF m = model(r) THEN failures[m] + 1 ELSE failures[m]
      BY <1>1, <2>4
    <3> QED
      BY <2>1, <2>4, <3>1
  <2> QED
    BY <1>2, <2>2, <2>3, <2>4
<1>4. \/ coolUntil' = coolUntil
      \/ coolUntil' = [coolUntil EXCEPT ![model(r)] = 0]
      \/ CoolDown(r) /\ coolUntil' = [coolUntil EXCEPT ![model(r)] = now + RetryAfter]
  BY DEF Loop, Answer, Feed, Route, PassHealth, SkipUnhealthy, SkipLimited, CallUpstream,
         NoClient, CallReturns, CallFails, ProbeCommits, ProbeFails, RelayChunk, RelayEnds,
         RelayFails, Succeed, Fail, CoolDown, GiveUp, CheckAllows, CheckRefuses, RecordLimit
<1>5. coolUntil'[m] > 0 => coolUntil[m] > 0 \/ (CoolDown(r) /\ m = model(r))
  BY <1>1, <1>4
<1> QED
  BY <1>1, <1>3, <1>5

LEMMA TallyStep ==
    ASSUME IInv, TallyInv, NEW r \in Requests, WalkInv(r),
           Route(r) \/ Loop(r) \/ Answer(r) \/ Feed(r)
    PROVE  TallyInv'
<1> SUFFICES ASSUME NEW m \in Models
             PROVE  /\ IsFiniteSet(FailuresOf(m, FailureKind)')
                    /\ failures'[m] <= Cardinality(Told(m)')
                    /\ coolUntil'[m] > 0 => FailuresOf(m, {"RateLimit"})' # {}
  BY DEF TallyInv
<1> DEFINE F == FailuresOf(m, FailureKind)
           T == Told(m)
<1>1. /\ IsFiniteSet(F) /\ failures[m] <= Cardinality(T)
      /\ coolUntil[m] > 0 => FailuresOf(m, {"RateLimit"}) # {}
  BY DEF TallyInv
<1>2. IsFiniteSet(F')
  <2>1. IsFiniteSet(F \cup {<<r, Len(visits'[r])>>})
    BY <1>1, FS_AddElement
  <2>2. F' \in SUBSET (F \cup {<<r, Len(visits'[r])>>})
    BY FailuresGrow
  <2> QED
    BY <2>1, <2>2, FS_Subset
<1>3. T \subseteq F /\ T' \subseteq F' /\ T \subseteq T'
  BY ToldGrows DEF Told
<1>4. IsFiniteSet(T) /\ IsFiniteSet(T')
  BY <1>1, <1>2, <1>3, FS_Subset
<1>5. /\ Cardinality(T) \in Nat /\ Cardinality(T') \in Nat
      /\ Cardinality(T) <= Cardinality(T')
  BY <1>3, <1>4, FS_CardinalityType, FS_Subset
<1>6. failures'[m] <= Cardinality(T')
  <2>1. CASE failures'[m] <= failures[m]
    BY <1>1, <1>5, <2>1, TrackersMove
  <2>2. CASE Fail(r) /\ m = model(r) /\ failures'[m] = failures[m] + 1
    <3>1. PICK x : x \notin T /\ x \in T'
      BY <2>2, TellsOne
    <3>2. Cardinality(T) # Cardinality(T')
      BY <1>3, <1>4, <3>1, FS_Subset
    <3> QED
      BY <1>1, <1>5, <2>2, <3>2, TrackersMove
  <2> QED
    BY <2>1, <2>2, TrackersMove
<1>7. ASSUME coolUntil'[m] > 0 PROVE FailuresOf(m, {"RateLimit"})' # {}
  <2>1. FailuresOf(m, {"RateLimit"}) \subseteq FailuresOf(m, {"RateLimit"})'
    BY FailuresGrow
  <2>2. CASE coolUntil[m] > 0
    BY <1>1, <2>1, <2>2
  <2>3. CASE CoolDown(r) /\ m = model(r)
    BY <2>1, <2>3, LimitIsEarned
  <2> QED
    BY <1>7, <2>2, <2>3, TrackersMove
<1> QED
  BY <1>2, <1>6, <1>7

\* A model passed over has earned it when it happens, and for good.
LEMMA EarnedStep ==
    ASSUME IInv, TallyInv, SkipsAreEarned, TallyInv', NEW r \in Requests,
           Route(r) \/ Loop(r) \/ Answer(r) \/ Feed(r)
    PROVE  SkipsAreEarned'
<1> SUFFICES ASSUME NEW q \in Requests, NEW k \in DOMAIN visits'[q],
                    NEW m, m = visits'[q][k].model, NEW o, o = visits'[q][k].outcome
             PROVE  /\ o = "unhealthy" => Cardinality(FailuresOf(m, FailureKind)') >= MaxFailures
                    /\ o = "cooling" => FailuresOf(m, {"RateLimit"})' # {}
  BY DEF SkipsAreEarned, FailuresOf
<1> DEFINE F == FailuresOf(m, FailureKind)
           T == Told(m)
<1>1. m \in Models
  <2>1. visits'[q] \in Seq(Visited)
    BY LocalStep DEF TypeOK, Visited
  <2>2. visits'[q][k] \in Visited
    BY <2>1, ElementOfSeq, LenProperties
  <2> QED
    BY <2>2 DEF Visited
<1>2. /\ F \subseteq F' /\ FailuresOf(m, {"RateLimit"}) \subseteq FailuresOf(m, {"RateLimit"})'
      /\ IsFiniteSet(F) /\ IsFiniteSet(F') /\ T \subseteq F
  BY <1>1, FailuresGrow DEF TallyInv, Told
<1>3. /\ Cardinality(F) \in Nat /\ Cardinality(F') \in Nat /\ Cardinality(T) \in Nat
      /\ Cardinality(F) <= Cardinality(F') /\ Cardinality(T) <= Cardinality(F)
  BY <1>2, FS_CardinalityType, FS_Subset
<1>4. MaxFailures \in Nat /\ failures[m] \in Nat /\ coolUntil[m] \in Nat /\ now \in Nat
  BY <1>1, HealthAssumption, MaxTimeAssumption
  DEF IInv, TypeOK, HealthTypeOK, CooldownTypeOK, Time
<1>5. CASE k \in DOMAIN visits[q]
  <2>1. visits'[q][k] = visits[q][k]
    BY <1>5, StepVisits DEF Kept
  <2>2. /\ o = "unhealthy" => Cardinality(F) >= MaxFailures
        /\ o = "cooling" => FailuresOf(m, {"RateLimit"}) # {}
    BY <1>5, <2>1 DEF SkipsAreEarned
  <2> QED
    BY <1>2, <1>3, <1>4, <2>2
<1>6. CASE k \notin DOMAIN visits[q]
  <2>1. Fresh(q, k)
    BY <1>6 DEF Fresh
  <2>2. /\ o = "unhealthy" => ~Available(m)
        /\ o = "cooling" => Limited(m)
    BY <2>1, StepVisits
  <2>3. /\ o = "unhealthy" => failures[m] >= MaxFailures
        /\ o = "cooling" => coolUntil[m] > 0
    BY <1>4, <2>2 DEF Available, Limited
  <2>4. /\ failures[m] <= Cardinality(T)
        /\ coolUntil[m] > 0 => FailuresOf(m, {"RateLimit"}) # {}
    BY <1>1 DEF TallyInv
  <2> QED
    BY <1>2, <1>3, <1>4, <2>3, <2>4
<1> QED
  BY <1>5, <1>6
-----------------------------------------------------------------------------
LEMMA InitWalks == Init => WalksInv
<1> SUFFICES ASSUME Init PROVE WalksInv
  OBVIOUS
<1>1. IInv
  BY InitIInv
<1>2. ASSUME NEW r \in Requests PROVE WalkInv(r)
  <2>1. pc[r] = "idle" /\ i[r] = 1 /\ lastErr[r] = "None" /\ visits[r] = <<>> /\ chain[r] = <<>>
    BY DEF Init
  <2>2. Len(visits[r]) = 0 /\ Len(chain[r]) = 0
    BY <2>1
  <2>3. Prefix(visits[r], chain[r]) /\ Tracks(visits[r], 0, "None")
    BY <2>2 DEF Prefix, Tracks
  <2> QED
    BY <2>1, <2>2, <2>3 DEF WalkInv, Walk, Walking
<1>3. \A q \in Requests : DOMAIN visits[q] = {}
  BY DEF Init
<1>4. \A m, kinds : FailuresOf(m, kinds) = {}
  BY <1>3 DEF FailuresOf
<1>5. TallyInv
  <2> SUFFICES ASSUME NEW m \in Models
               PROVE  /\ IsFiniteSet(FailuresOf(m, FailureKind))
                      /\ failures[m] <= Cardinality(Told(m))
                      /\ coolUntil[m] > 0 => FailuresOf(m, {"RateLimit"}) # {}
    BY DEF TallyInv
  <2>1. FailuresOf(m, FailureKind) = {} /\ Told(m) = {}
    BY <1>4 DEF Told
  <2>2. failures[m] = 0 /\ coolUntil[m] = 0
    BY DEF Init, HealthInit, CooldownInit
  <2> QED
    BY <2>1, <2>2, FS_EmptySet
<1>6. SkipsAreEarned
  BY <1>3 DEF SkipsAreEarned
<1> QED
  BY <1>1, <1>2, <1>5, <1>6 DEF WalksInv

LEMMA StepWalks == WalksInv /\ [Next]_vars => WalksInv'
<1> SUFFICES ASSUME WalksInv, [Next]_vars PROVE WalksInv'
  OBVIOUS
<1>1. IInv /\ IInv' /\ (\A r \in Requests : WalkInv(r)) /\ TallyInv /\ SkipsAreEarned
  BY StepIInv DEF WalksInv
<1>2. ASSUME NEW r \in Requests, Route(r) \/ Loop(r) \/ Answer(r) \/ Feed(r)
      PROVE  WalksInv'
  <2>1. WalkInv(r)'
    BY <1>1, <1>2, WalkStep
  <2>2. ASSUME NEW q \in Requests \ {r} PROVE WalkInv(q)'
    <3>1. /\ pc'[q] = pc[q] /\ chain'[q] = chain[q] /\ i'[q] = i[q] /\ callErr'[q] = callErr[q]
          /\ lastErr'[q] = lastErr[q] /\ wire'[q] = wire[q] /\ visits'[q] = visits[q]
      BY <1>1, <1>2, LocalStep DEF Local
    <3> QED
      BY <1>1, <3>1 DEF WalkInv
  <2>3. TallyInv'
    BY <1>1, <1>2, TallyStep
  <2>4. SkipsAreEarned'
    BY <1>1, <1>2, <2>3, EarnedStep
  <2> QED
    BY <1>1, <2>1, <2>2, <2>3, <2>4 DEF WalksInv
<1>3. CASE PassTime \/ UNCHANGED vars
  <2>1. UNCHANGED <<pc, chain, i, callErr, lastErr, wire, visits, failures, coolUntil>>
    BY <1>3 DEF PassTime, vars, reqVars, healthVars
  <2>2. \A r \in Requests : WalkInv(r)'
    BY <1>1, <2>1 DEF WalkInv
  <2>3. \A m, kinds : FailuresOf(m, kinds)' = FailuresOf(m, kinds)
    BY <2>1 DEF FailuresOf
  <2>4. Untold' = Untold
    BY <2>1 DEF Untold
  <2>5. \A m : Told(m)' = Told(m)
    BY <2>3, <2>4 DEF Told
  <2>6. TallyInv'
    BY <1>1, <2>1, <2>3, <2>5 DEF TallyInv
  <2>7. SkipsAreEarned'
    BY <1>1, <2>1 DEF SkipsAreEarned, FailuresOf
  <2> QED
    BY <1>1, <2>2, <2>6, <2>7 DEF WalksInv
<1> QED
  BY <1>2, <1>3 DEF Next

\* The second invariant, of walks and tallies.
THEOREM WalksHold == Spec => []WalksInv
BY InitWalks, StepWalks, PTL DEF Spec

\* Cascading stops at the first answer and not before the end of the chain: a
\* request refused for a transient reason has visited each model of its chain
\* once, in chain order (both fallback loops).
THEOREM ChainExhaustedHolds == Spec => []ChainExhausted
<1>1. WalksInv => ChainExhausted
  <2> SUFFICES ASSUME WalksInv, NEW r \in Requests, pc[r] = "answered", NEW e \in AnswerError,
                      e = errNoModels \/ IsTransient(e), wire[r][1] = Problem(e)
               PROVE  [k \in DOMAIN visits[r] |-> visits[r][k].model] = chain[r]
    BY DEF ChainExhausted
  <2>1. IInv /\ WalkInv(r)
    BY DEF WalksInv
  <2>2. wire[r] # <<>> /\ wire[r][1].event = "error" /\ wire[r][1].of = e
    <3>1. stream[r] => wire[r] # <<>>
      BY <2>1 DEF IInv, ReqInv, WireInv, StreamOver
    <3>2. ~stream[r] => Len(wire[r]) = 1
      BY <2>1 DEF IInv, ReqInv, WireInv, BatchOver
    <3>3. Len(<<>>) = 0
      OBVIOUS
    <3> QED
      BY <3>1, <3>2, <3>3 DEF Problem
  <2>3. Prefix(visits[r], chain[r]) /\ Len(visits[r]) = Len(chain[r])
    BY <2>1, <2>2 DEF WalkInv, Walk, Refused
  <2>4. /\ DOMAIN visits[r] = 1 .. Len(visits[r])
        /\ chain[r] = [k \in 1 .. Len(chain[r]) |-> chain[r][k]]
    BY <2>1, WalkTypes, LenProperties
  <2> QED
    BY <2>3, <2>4 DEF Prefix
<1> QED
  BY <1>1, WalksHold, PTL

\* The error a refused client reads is that of the last model that gave one,
\* never one that a later model has superseded.
THEOREM LastErrorReportedHolds == Spec => []LastErrorReported
<1>1. WalksInv => LastErrorReported
  <2> SUFFICES ASSUME WalksInv, NEW r \in Requests, NEW e \in AnswerError,
                      pc[r] = "answered", wire[r] # <<>>, wire[r][1] = Problem(e)
               PROVE  e = Blames(r)
    BY DEF LastErrorReported
  <2> DEFINE n == Len(visits[r])
  <2>1. IInv /\ WalkInv(r) /\ wire[r][1].event = "error" /\ wire[r][1].of = e
    BY DEF WalksInv, Problem
  <2>2. Tracks(visits[r], n, IF e = errNoModels THEN "None" ELSE e)
    BY <2>1 DEF WalkInv, Walk, Refused
  <2>3. DOMAIN visits[r] = 1 .. n /\ n \in Nat
    BY <2>1, WalkTypes, LenProperties
  <2>4. e # "None"
    BY DEF AnswerError, ErrorKind, errNoModels
  <2>5. CASE e = errNoModels
    <3>1. Said(r) = {}
      BY <2>2, <2>3, <2>5 DEF Tracks, Said
    <3> QED
      BY <2>5, <3>1 DEF Blames
  <2>6. CASE e # errNoModels
    <3>1. PICK k \in 1 .. n : /\ visits[r][k].outcome # errEmpty
                              /\ Blame(visits[r][k].outcome) = e
                              /\ \A j \in k + 1 .. n : visits[r][j].outcome = errEmpty
      BY <2>2, <2>4, <2>6 DEF Tracks
    <3>2. k \in Said(r) /\ \A j \in Said(r) : j \in 1 .. n /\ ~(j \in k + 1 .. n)
      BY <2>3, <3>1 DEF Said
    <3>3. \A j \in Said(r) : j \in Nat /\ j <= k
      BY <2>3, <3>2
    <3>4. Max(Said(r)) = k
      BY <3>1, <3>2, <3>3 DEF Max
    <3> QED
      BY <3>1, <3>2, <3>4 DEF Blames
  <2> QED
    BY <2>5, <2>6
<1> QED
  BY <1>1, WalksHold, PTL

\* A model is passed over only for what it did itself: MaxFailures failures, or
\* a 429, of that very model in some request. No storm against one provider
\* makes another unreachable.
THEOREM SkipsAreEarnedHolds == Spec => []SkipsAreEarned
<1>1. WalksInv => SkipsAreEarned
  BY DEF WalksInv
<1> QED
  BY <1>1, WalksHold, PTL
=============================================================================
