---------------------------- MODULE PromptCache ----------------------------
(* cache/prompt.go, Prompt: responses by (model, messages), bounded by a     *)
(* least-recently-used list and by age; and the batch handlers that look a   *)
(* request up, call an upstream on a miss, and put what it answers. Get and  *)
(* Put each run under the mutex; everything may happen between them.         *)
EXTENDS Clock, Sequences, SequencesExt

CONSTANTS Handlers,         \* the handler goroutines
          Keys,             \* hashKey(model, messages)
          MaxSize,          \* Prompt.maxSize
          TTL,              \* Prompt.ttl, in ticks; 0: entries do not expire
          Nothing,
          MaxUses           \* bound of the model: lookups and puts explored

ASSUME PromptAssumption == MaxSize \in Nat \ {0} /\ TTL \in Nat /\ MaxUses \in Nat

VARIABLES order,            \* Prompt.order, front first; entries is its index
          hits, misses, evictions,
          asked,            \* the key a handler has missed and is fetching
          answer,           \* what the last Get brought back
          uses,             \* history: the keys of the hits and puts, in turn
          inserted,         \* history: how many times Put has added an entry
          aged,             \* history: how many entries Get has dropped for age
          lapsed            \* history: the keys so dropped and not put since

stats == <<hits, misses, evictions>>
vars == <<now, order, stats, asked, answer, uses, inserted, aged, lapsed>>

\* A response is known by the key it answers and the time it was made.
Response == [for : Keys, made : Time]
Entry == [key : Keys, resp : Response, expires : 0 .. MaxTime + TTL]

ASSUME NothingAssumption ==
    Nothing \notin Keys \cup Entry \cup [resp : Response, expires : 0 .. MaxTime + TTL]

Cached == {order[n].key : n \in DOMAIN order}
At(k) == CHOOSE n \in DOMAIN order : order[n].key = k
-----------------------------------------------------------------------------
\* Mutant: an entry is live a tick too long.
Outlived_Late(e) == TTL > 0 /\ now > e.expires + 1

Outlived(e) == TTL > 0 /\ now > e.expires

\* Mutant: a hit leaves the list as it is (first in, first out).
Touched_Not(k) == order

\* MoveToFront.
Touched(k) == <<order[At(k)]>> \o RemoveAt(order, At(k))

Fresh(k) == [key |-> k, resp |-> [for |-> k, made |-> now], expires |-> now + TTL]

\* The eviction loop of Put, which never has more than one entry to drop.
Trimmed(list) == IF Len(list) > MaxSize THEN Front(list) ELSE list

Init == /\ ClockInit
        /\ order = <<>>
        /\ hits = 0 /\ misses = 0 /\ evictions = 0
        /\ asked = [h \in Handlers |-> Nothing]
        /\ answer = Nothing
        /\ uses = <<>> /\ inserted = 0 /\ aged = 0 /\ lapsed = {}

Idle(h) == asked[h] = Nothing /\ Len(uses) + misses < MaxUses

\* Get finds a live entry: the handler answers with it and is done.
GetHit(h, k) ==
    /\ Idle(h)
    /\ k \in Cached /\ ~Outlived(order[At(k)])
    /\ order' = Touched(k)
    /\ hits' = hits + 1
    /\ answer' = order[At(k)]
    /\ uses' = Append(uses, k)
    /\ UNCHANGED <<now, misses, evictions, asked, inserted, aged, lapsed>>

GetMiss(h, k) ==
    /\ Idle(h)
    /\ k \notin Cached
    /\ misses' = misses + 1
    /\ answer' = Nothing
    /\ asked' = [asked EXCEPT ![h] = k]
    /\ UNCHANGED <<now, order, hits, evictions, uses, inserted, aged, lapsed>>

\* Mutant: the entry that is too old stays where it is.
GetExpired_Keeps(h, k) ==
    /\ Idle(h)
    /\ k \in Cached /\ Outlived(order[At(k)])
    /\ misses' = misses + 1
    /\ answer' = Nothing
    /\ asked' = [asked EXCEPT ![h] = k]
    /\ aged' = aged + 1 /\ lapsed' = lapsed \cup {k}
    /\ UNCHANGED <<now, order, hits, evictions, uses, inserted>>

\* Get finds an entry that is too old: dropped, and a miss.
GetExpired(h, k) ==
    /\ Idle(h)
    /\ k \in Cached /\ Outlived(order[At(k)])
    /\ order' = RemoveAt(order, At(k))
    /\ misses' = misses + 1
    /\ answer' = Nothing
    /\ asked' = [asked EXCEPT ![h] = k]
    /\ aged' = aged + 1 /\ lapsed' = lapsed \cup {k}
    /\ UNCHANGED <<now, hits, evictions, uses, inserted>>

\* Put: an entry that is there is renewed, wherever it came from; a new one
\* goes to the front and the last one makes room.
Put(h) ==
    LET k == asked[h] IN
    /\ k # Nothing
    /\ IF k \in Cached
       THEN /\ order' = <<Fresh(k)>> \o RemoveAt(order, At(k))
            /\ UNCHANGED <<inserted, evictions>>
       ELSE /\ order' = Trimmed(<<Fresh(k)>> \o order)
            /\ inserted' = inserted + 1
            /\ evictions' = evictions + (Len(order) + 1 - Len(order'))
    /\ asked' = [asked EXCEPT ![h] = Nothing]
    /\ uses' = Append(uses, k)
    /\ lapsed' = lapsed \ {k}
    /\ UNCHANGED <<now, hits, misses, answer, aged>>

\* The upstream fails: the handler ends without a Put.
Fail(h) ==
    /\ asked[h] # Nothing
    /\ asked' = [asked EXCEPT ![h] = Nothing]
    /\ UNCHANGED <<now, order, stats, answer, uses, inserted, aged, lapsed>>

PassTime == Tick /\ UNCHANGED <<order, stats, asked, answer, uses, inserted, aged, lapsed>>

Next == \/ PassTime
        \/ \E h \in Handlers : \/ Put(h) \/ Fail(h)
                               \/ \E k \in Keys : GetHit(h, k) \/ GetMiss(h, k) \/ GetExpired(h, k)

Spec == Init /\ [][Next]_vars
-----------------------------------------------------------------------------
TypeOK ==
    /\ now \in Time
    /\ order \in Seq(Entry)
    /\ hits \in Nat /\ misses \in Nat /\ evictions \in Nat
    /\ asked \in [Handlers -> Keys \cup {Nothing}]
    /\ answer \in Entry \cup {Nothing}
    /\ uses \in Seq(Keys) /\ inserted \in Nat /\ aged \in Nat /\ lapsed \subseteq Keys

\* However lookups, fetches and puts interleave, the map is an index of the list:
\* a key is there once, though two handlers that missed it both put it; there
\* are no more than MaxSize; and every entry ever added is there, was counted as
\* evicted or has expired, so /v1/cache shows what became of them.
EntriesConserved ==
    /\ Len(order) <= MaxSize
    /\ \A a, b \in DOMAIN order : order[a].key = order[b].key => a = b
    /\ inserted = Len(order) + evictions + aged

\* The list is the working set: a key is missing only if MaxSize others have
\* been used since it was, or if Get has dropped it for its age since.
LastUse(k) == CHOOSE n \in DOMAIN uses :
                 uses[n] = k /\ \A m \in DOMAIN uses : uses[m] = k => m <= n
UsedSince(k) == {uses[n] : n \in {m \in DOMAIN uses : m > LastUse(k)}}
WorkingSetCached ==
    \A k \in {uses[n] : n \in DOMAIN uses} :
        \/ k \in Cached
        \/ Cardinality(UsedSince(k)) >= MaxSize
        \/ k \in lapsed

\* A lookup answers as the abstract store allows: the last response put under
\* the key it asked for, no older than the TTL. Eviction, renewal and expiry
\* are steps that only forget.
StoreOf == [k \in Keys |-> IF k \in Cached
                           THEN [resp |-> order[At(k)].resp, expires |-> order[At(k)].expires]
                           ELSE Nothing]
AnswerOf == IF answer = Nothing THEN Nothing
            ELSE [resp |-> answer.resp, expires |-> answer.expires]
Store == INSTANCE ResponseStore WITH store <- StoreOf, answer <- AnswerOf, Responses <- Response
ImplementsStore == Store!Spec
=============================================================================
