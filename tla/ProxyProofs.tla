----------------------------- MODULE ProxyProofs -----------------------------
(* The sliding window for any limit, window, set of users and length of a    *)
(* second, of the limiter alone and of the proxy, which implements it; the   *)
(* counts of the proxy for any number of handlers; that the proxy keeps the  *)
(* books as the handlers of Budget do; and the money, from the tracker to    *)
(* the rows and the reports made of them, for any prices.                    *)
EXTENDS Proxy, SumTheorems, SequenceTheorems

\* At time t the bucket is the end of the user's admissions, is not longer than
\* Limit, and what has left it is older than the window.
IsEnd(bucket, all, t) ==
    /\ Len(bucket) <= Len(all) /\ Len(bucket) <= Limit
    /\ \A n \in 1 .. Len(bucket) : bucket[n] = all[Len(all) - Len(bucket) + n]
    /\ \A n \in 1 .. Len(all) - Len(bucket) : all[n] < t - Window

Spans(all) == \A n \in 1 .. Len(all) :
                  n + Limit <= Len(all) => all[n + Limit] > all[n] + Window

\* A refused user was told a time at which the oldest admission is stale.
Told(bucket, d) == d # notRefused => bucket # <<>> /\ d > bucket[1] + Window

UserInv(u) == /\ IsEnd(buckets[u], admitted[u], now)
              /\ Spans(admitted[u])
              /\ Told(buckets[u], due[u])

LimitInv == LimitTypeOK /\ \A u \in Users : UserInv(u)
-----------------------------------------------------------------------------
\* The loop of Check stops at the first admission that is not stale, or past
\* the last; what it keeps are the others, in their order.
LEMMA StopFacts ==
    ASSUME now \in Int, NEW hits \in Seq(Time)
    PROVE  /\ Stop(hits) \in 1 .. Len(hits) + 1
           /\ \A n \in 1 .. Stop(hits) - 1 : Stale(hits[n])
           /\ Stop(hits) \in DOMAIN hits => ~Stale(hits[Stop(hits)])
<1> DEFINE Fresh == {n \in 1 .. Len(hits) : ~Stale(hits[n])}
           Is(i) == /\ \A n \in 1 .. i - 1 : Stale(hits[n])
                    /\ i \in DOMAIN hits => ~Stale(hits[i])
<1>1. Len(hits) \in Nat /\ DOMAIN hits = 1 .. Len(hits)
  BY LenProperties
<1>2. \E i \in 1 .. Len(hits) + 1 : Is(i)
  <2>1. CASE Fresh = {}
    <3>1. \A n \in 1 .. Len(hits) : Stale(hits[n])
      BY <2>1
    <3>2. Len(hits) + 1 \in 1 .. Len(hits) + 1 /\ Len(hits) + 1 \notin DOMAIN hits
      BY <1>1
    <3> QED
      BY <1>1, <3>1, <3>2
  <2>2. CASE Fresh # {}
    <3>1. Fresh \subseteq Nat
      BY <1>1
    <3>2. PICK i \in Fresh : \A n \in Fresh : i <= n
      BY <2>2, <3>1, LeastOf
    <3>3. \A n \in 1 .. i - 1 : n \in 1 .. Len(hits) /\ n \notin Fresh
      BY <1>1, <3>2
    <3> QED
      BY <1>1, <3>2, <3>3
  <2> QED
    BY <2>1, <2>2
<1> QED
  BY <1>2 DEF Stop

LEMMA KeptFacts ==
    ASSUME now \in Int, NEW hits \in Seq(Time)
    PROVE  /\ Kept(hits) \in Seq(Time)
           /\ Len(Kept(hits)) = Len(hits) + 1 - Stop(hits)
           /\ \A n \in 1 .. Len(Kept(hits)) : Kept(hits)[n] = hits[Stop(hits) + n - 1]
<1>1. Len(hits) \in Nat /\ \A n \in 1 .. Len(hits) : hits[n] \in Time
  BY LenProperties
<1>2. Stop(hits) \in 1 .. Len(hits) + 1
  BY StopFacts
<1>3. \A n \in Stop(hits) .. Len(hits) : hits[n] \in Time
  BY <1>1, <1>2
<1>4. /\ Kept(hits) \in Seq(Time)
      /\ Len(Kept(hits)) = IF Stop(hits) <= Len(hits) THEN Len(hits) - Stop(hits) + 1 ELSE 0
      /\ \A n \in 1 .. Len(hits) - Stop(hits) + 1 : Kept(hits)[n] = hits[Stop(hits) + n - 1]
  BY <1>1, <1>2, <1>3, SubSeqProperties DEF Kept
<1> QED
  BY <1>1, <1>2, <1>4

\* Retry-After, rounded up, is later than the wait.
LEMMA RetryIsLater ==
    ASSUME NEW wait \in Int
    PROVE  RetryAfter(wait) * TicksPerSecond > wait
BY WallClockAssumption DEF RetryAfter, WholeSeconds

\* An admission keeps all that: what is dropped is stale, so what has left the
\* bucket is; and as the bucket has room for one more, the admission Limit
\* before it has left the bucket and is older than the window.
LEMMA AdmissionShifts ==
    ASSUME now \in Time, NEW hits \in Seq(Time), NEW all \in Seq(Time),
           IsEnd(hits, all, now), Spans(all), Len(Kept(hits)) < Limit
    PROVE  /\ IsEnd(Append(Kept(hits), now), Append(all, now), now)
           /\ Spans(Append(all, now))
<1> DEFINE stop == Stop(hits)
           bucket == Append(Kept(hits), now)
           all2 == Append(all, now)
           gone == Len(all) - Len(hits)
           left == gone + stop - 1
<1>1. /\ stop \in 1 .. Len(hits) + 1
      /\ \A n \in 1 .. stop - 1 : hits[n] < now - Window
      /\ Kept(hits) \in Seq(Time) /\ Len(Kept(hits)) = Len(hits) + 1 - stop
      /\ \A n \in 1 .. Len(Kept(hits)) : Kept(hits)[n] = hits[stop + n - 1]
  <2>1. now \in Int
    BY DEF Time
  <2>2. \A n \in 1 .. stop - 1 : Stale(hits[n])
    BY <2>1, StopFacts
  <2> QED
    BY <2>1, <2>2, StopFacts, KeptFacts DEF Stale
<1>2. /\ Len(all) \in Nat /\ Len(hits) \in Nat
      /\ \A n \in 1 .. Len(all) : all[n] \in Int
      /\ now \in Int /\ Window \in Int /\ Limit \in Nat \ {0}
  <2>1. Len(all) \in Nat /\ \A n \in 1 .. Len(all) : all[n] \in Time
    BY LenProperties
  <2>2. Len(hits) \in Nat
    BY LenProperties
  <2>3. Time \subseteq Int
    BY DEF Time
  <2>4. \A n \in 1 .. Len(all) : all[n] \in Int
    BY <2>1, <2>3
  <2>5. now \in Int /\ Window \in Int /\ Limit \in Nat \ {0}
    BY <2>3, UserLimitAssumption
  <2> QED
    BY <2>1, <2>2, <2>4, <2>5
<1>3. /\ Len(bucket) = Len(hits) + 2 - stop
      /\ \A n \in 1 .. Len(hits) + 1 - stop : bucket[n] = hits[stop + n - 1]
      /\ bucket[Len(hits) + 2 - stop] = now
  <2>1. /\ Len(bucket) = Len(Kept(hits)) + 1
        /\ \A n \in 1 .. Len(Kept(hits)) : bucket[n] = Kept(hits)[n]
        /\ bucket[Len(Kept(hits)) + 1] = now
    BY <1>1, AppendProperties
  <2>2. Len(Kept(hits)) + 1 = Len(hits) + 2 - stop
    BY <1>1, <1>2
  <2> HIDE DEF stop, bucket
  <2> QED
    BY <1>1, <2>1, <2>2
<1>4. /\ Len(all2) = Len(all) + 1
      /\ \A n \in 1 .. Len(all) : all2[n] = all[n]
      /\ all2[Len(all) + 1] = now
  BY AppendProperties
<1> HIDE DEF stop, bucket, all2
<1>5. gone \in Nat /\ stop \in Nat \ {0} /\ stop <= Len(hits) + 1 /\ left \in Nat
  BY <1>1, <1>2 DEF IsEnd
<1>6. /\ \A n \in 1 .. Len(hits) : hits[n] = all[gone + n]
      /\ \A n \in 1 .. gone : all[n] < now - Window
  BY DEF IsEnd
<1>7. ASSUME NEW n \in 1 .. left PROVE n \in 1 .. Len(all) /\ all[n] < now - Window
  <2>1. n \in 1 .. Len(all)
    BY <1>2, <1>5
  <2>2. CASE n <= gone
    BY <1>2, <1>5, <1>6, <2>1, <2>2
  <2>3. CASE n > gone
    <3>1. n - gone \in 1 .. stop - 1 /\ n - gone \in 1 .. Len(hits)
      BY <1>2, <1>5, <2>3
    <3>2. hits[n - gone] = all[gone + (n - gone)] /\ gone + (n - gone) = n
      BY <1>2, <1>5, <1>6, <3>1
    <3> QED
      BY <1>1, <2>1, <3>1, <3>2
  <2> QED
    BY <1>2, <1>5, <2>1, <2>2, <2>3
<1>8. IsEnd(bucket, all2, now)
  <2>1. Len(all2) - Len(bucket) = left /\ Len(bucket) <= Len(all2) /\ Len(bucket) <= Limit
    BY <1>1, <1>2, <1>3, <1>4, <1>5
  <2>2. \A n \in 1 .. left : all2[n] < now - Window
    BY <1>4, <1>7
  <2>3. ASSUME NEW n \in 1 .. Len(bucket) PROVE bucket[n] = all2[left + n]
    <3>1. CASE n = Len(hits) + 2 - stop
      <4>1. left + n = Len(all) + 1
        BY <1>2, <1>5, <3>1
      <4> QED
        BY <1>3, <1>4, <3>1, <4>1
    <3>2. CASE n # Len(hits) + 2 - stop
      <4>0. n \in Nat \ {0} /\ n <= Len(hits) + 1 - stop
        <5>1. n \in 1 .. Len(hits) + 2 - stop
          BY <1>3
        <5> QED
          BY <1>2, <1>5, <3>2, <5>1
      <4>1. /\ n \in 1 .. Len(hits) + 1 - stop /\ stop + n - 1 \in 1 .. Len(hits)
            /\ gone + (stop + n - 1) = left + n /\ left + n \in 1 .. Len(all)
        BY <1>2, <1>5, <4>0
      <4>2. bucket[n] = hits[stop + n - 1] /\ hits[stop + n - 1] = all[gone + (stop + n - 1)]
        BY <1>3, <1>6, <4>1
      <4> QED
        BY <1>4, <4>1, <4>2
    <3> QED
      BY <3>1, <3>2
  <2> HIDE DEF left
  <2> QED
    BY <2>1, <2>2, <2>3 DEF IsEnd
<1>9. Spans(all2)
  <2> SUFFICES ASSUME NEW n \in 1 .. Len(all2), n + Limit <= Len(all2)
               PROVE  all2[n + Limit] > all2[n] + Window
    BY DEF Spans
  <2>1. n \in 1 .. Len(all) /\ all2[n] = all[n] /\ all[n] \in Int
    BY <1>2, <1>4
  <2>2. CASE n + Limit <= Len(all)
    <3>1. n + Limit \in 1 .. Len(all) /\ all2[n + Limit] = all[n + Limit]
      BY <1>2, <1>4, <2>1, <2>2
    <3> QED
      BY <1>2, <2>1, <2>2, <3>1 DEF Spans
  <2>3. CASE n + Limit = Len(all) + 1
    <3>1. n \in 1 .. left
      BY <1>1, <1>2, <1>5, <2>1, <2>3
    <3>2. all[n] < now - Window
      BY <1>7, <3>1
    <3> QED
      BY <1>2, <1>4, <2>1, <2>3, <3>2
  <2>4. Len(all2) = Len(all) + 1
    BY <1>4
  <2>5. n + Limit <= Len(all) \/ n + Limit = Len(all) + 1
    <3>1. n \in Int /\ Limit \in Int /\ Len(all) \in Int
      BY <1>2, <2>1
    <3> QED
      BY <2>4, <3>1
  <2> QED
    BY <2>2, <2>3, <2>5
<1> QED
  BY <1>8, <1>9 DEF bucket, all2
-----------------------------------------------------------------------------
LEMMA InitIInv == LimitInit => LimitInv
<1> SUFFICES ASSUME LimitInit PROVE LimitInv
  OBVIOUS
<1>1. LimitTypeOK
  BY MaxTimeAssumption, EmptySeq DEF LimitInit, LimitTypeOK, ClockInit, Time, notRefused
<1>2. \A u \in Users : UserInv(u)
  BY UserLimitAssumption, EmptySeq DEF LimitInit, UserInv, IsEnd, Spans, Told
<1> QED
  BY <1>1, <1>2 DEF LimitInv

\* What the invariant says of the types of one user's records.
LEMMA Types ==
    ASSUME LimitTypeOK, NEW u \in Users
    PROVE  /\ now \in Time /\ now \in Int /\ due[u] \in Int
           /\ buckets[u] \in Seq(Time) /\ admitted[u] \in Seq(Time)
           /\ Len(buckets[u]) \in Nat /\ DOMAIN buckets[u] = 1 .. Len(buckets[u])
           /\ Len(admitted[u]) \in Nat /\ DOMAIN admitted[u] = 1 .. Len(admitted[u])
           /\ \A n \in 1 .. Len(buckets[u]) : buckets[u][n] \in Int
           /\ \A n \in 1 .. Len(admitted[u]) : admitted[u][n] \in Int
           /\ Limit \in Nat \ {0} /\ Window \in Nat \ {0}
<1>1. buckets[u] \in Seq(Time) /\ admitted[u] \in Seq(Time) /\ due[u] \in Int /\ now \in Time
  BY DEF LimitTypeOK
<1>2. Time \subseteq Int
  BY DEF Time
<1>3. /\ Len(buckets[u]) \in Nat /\ DOMAIN buckets[u] = 1 .. Len(buckets[u])
      /\ \A n \in 1 .. Len(buckets[u]) : buckets[u][n] \in Time
  BY <1>1, LenProperties
<1>4. /\ Len(admitted[u]) \in Nat /\ DOMAIN admitted[u] = 1 .. Len(admitted[u])
      /\ \A n \in 1 .. Len(admitted[u]) : admitted[u][n] \in Time
  BY <1>1, LenProperties
<1> QED
  BY <1>1, <1>2, <1>3, <1>4, UserLimitAssumption

\* Time makes more admissions stale and fewer, if any, fresh.
LEMMA TickIInv == LimitInv /\ Tick /\ UNCHANGED <<buckets, admitted, due>> => LimitInv'
<1> SUFFICES ASSUME LimitInv, Tick, UNCHANGED <<buckets, admitted, due>> PROVE LimitInv'
  OBVIOUS
<1>1. LimitTypeOK'
  BY MaxTimeAssumption DEF LimitInv, LimitTypeOK, Tick, Time
<1>2. ASSUME NEW u \in Users PROVE UserInv(u)'
  <2>1. LimitTypeOK /\ UserInv(u)
    BY DEF LimitInv
  <2>2. /\ now \in Int /\ Window \in Int /\ Len(admitted[u]) \in Nat /\ Len(buckets[u]) \in Nat
        /\ \A n \in 1 .. Len(admitted[u]) : admitted[u][n] \in Int
    BY <2>1, Types
  <2>3. IsEnd(buckets[u], admitted[u], now + 1)
    <3>1. IsEnd(buckets[u], admitted[u], now)
      BY <2>1 DEF UserInv
    <3>2. ASSUME NEW n \in 1 .. Len(admitted[u]) - Len(buckets[u])
          PROVE  admitted[u][n] < (now + 1) - Window
      <4>1. admitted[u][n] < now - Window /\ n \in 1 .. Len(admitted[u])
        BY <2>2, <3>1 DEF IsEnd
      <4> QED
        BY <2>2, <4>1
    <3> QED
      BY <3>1, <3>2 DEF IsEnd
  <2> QED
    BY <2>1, <2>3 DEF UserInv, Tick
<1> QED
  BY <1>1, <1>2 DEF LimitInv

\* A refusal leaves the records alone; as there is no room, and never more than
\* Limit in a bucket, none of it is stale, and its first is what is waited for.
LEMMA RefuseIInv == ASSUME NEW u \in Users PROVE LimitInv /\ Refuse(u) => LimitInv'
<1> SUFFICES ASSUME LimitInv, Refuse(u) PROVE LimitInv'
  OBVIOUS
<1> DEFINE hits == buckets[u]
           wait == Kept(hits)[1] + Window - now
<1>0. LimitTypeOK /\ IsEnd(hits, admitted[u], now)
  BY DEF LimitInv, UserInv
<1>1. /\ Stop(hits) \in 1 .. Len(hits) + 1 /\ Len(Kept(hits)) = Len(hits) + 1 - Stop(hits)
      /\ \A n \in 1 .. Len(Kept(hits)) : Kept(hits)[n] = hits[Stop(hits) + n - 1]
  BY <1>0, Types, StopFacts, KeptFacts
<1>2. Stop(hits) = 1 /\ Len(hits) = Limit /\ Len(Kept(hits)) = Limit
  BY <1>0, <1>1, Types DEF IsEnd, Refuse, HasRoom
<1>3. Kept(hits)[1] = hits[1] /\ hits # <<>> /\ hits[1] \in Int /\ wait \in Int
  BY <1>0, <1>1, <1>2, Types
<1>4. RetryAfter(wait) * TicksPerSecond \in Int /\ RetryAfter(wait) * TicksPerSecond > wait
  BY <1>3, RetryIsLater, WallClockAssumption DEF RetryAfter, WholeSeconds
<1>5. due' = [due EXCEPT ![u] = now + RetryAfter(wait) * TicksPerSecond]
  BY DEF Refuse
<1>6. LimitTypeOK'
  BY <1>0, <1>4, <1>5, Types DEF LimitTypeOK, Refuse
<1>7. UserInv(u)'
  <2>1. due'[u] = now + RetryAfter(wait) * TicksPerSecond
    BY <1>0, <1>5 DEF LimitTypeOK
  <2>2. due'[u] > hits[1] + Window
    <3> HIDE DEF wait
    <3>1. now \in Int /\ Window \in Int
      BY <1>0, Types
    <3>2. wait = hits[1] + Window - now
      BY <1>3 DEF wait
    <3> QED
      BY <1>3, <1>4, <2>1, <3>1, <3>2
  <2> QED
    BY <1>3, <2>2 DEF LimitInv, UserInv, Told, Refuse
<1>8. ASSUME NEW v \in Users, v # u PROVE UserInv(v)'
  <2>1. due'[v] = due[v]
    BY <1>0, <1>5, <1>8 DEF LimitTypeOK
  <2> QED
    BY <2>1 DEF LimitInv, UserInv, Refuse
<1> QED
  BY <1>6, <1>7, <1>8 DEF LimitInv

LEMMA AdmitIInv == ASSUME NEW u \in Users PROVE LimitInv /\ Admit(u) => LimitInv'
<1> SUFFICES ASSUME LimitInv, Admit(u) PROVE LimitInv'
  OBVIOUS
<1> DEFINE hits == buckets[u]
           all == admitted[u]
<1>1. LimitTypeOK /\ IsEnd(hits, all, now) /\ Spans(all)
  BY DEF LimitInv, UserInv
<1>2. /\ now \in Time /\ hits \in Seq(Time) /\ all \in Seq(Time) /\ now \in Int
      /\ Kept(hits) \in Seq(Time)
  BY <1>1, Types, KeptFacts
<1>3. /\ buckets' = [buckets EXCEPT ![u] = Append(Kept(hits), now)]
      /\ admitted' = [admitted EXCEPT ![u] = Append(all, now)]
      /\ due' = [due EXCEPT ![u] = notRefused] /\ now' = now
      /\ Len(Kept(hits)) < Limit
  BY DEF Admit, HasRoom
<1>4. /\ buckets'[u] = Append(Kept(hits), now) /\ admitted'[u] = Append(all, now)
      /\ due'[u] = notRefused
      /\ \A v \in Users : v # u => /\ buckets'[v] = buckets[v] /\ admitted'[v] = admitted[v]
                                   /\ due'[v] = due[v]
  BY <1>1, <1>3 DEF LimitTypeOK
<1>5. LimitTypeOK'
  <2>1. Append(Kept(hits), now) \in Seq(Time) /\ Append(all, now) \in Seq(Time)
    BY <1>2, AppendProperties
  <2> QED
    BY <1>1, <1>3, <2>1 DEF LimitTypeOK, notRefused
<1>6. UserInv(u)'
  <2>1. /\ IsEnd(Append(Kept(hits), now), Append(all, now), now)
        /\ Spans(Append(all, now))
    BY <1>1, <1>2, <1>3, AdmissionShifts
  <2> QED
    BY <1>3, <1>4, <2>1 DEF UserInv, Told
<1>7. ASSUME NEW v \in Users, v # u PROVE UserInv(v)'
  <2>1. /\ buckets'[v] = buckets[v] /\ admitted'[v] = admitted[v] /\ due'[v] = due[v]
        /\ now' = now
    BY <1>3, <1>4, <1>7
  <2> QED
    BY <2>1 DEF LimitInv, UserInv
<1> QED
  BY <1>5, <1>6, <1>7 DEF LimitInv
-----------------------------------------------------------------------------
\* Every step of the limiter and of the clock keeps the invariant.
LEMMA NextIInv == LimitInv /\ [LimitNext]_limitVars => LimitInv'
<1> SUFFICES ASSUME LimitInv, [LimitNext]_limitVars PROVE LimitInv'
  OBVIOUS
<1>1. CASE Tick /\ UNCHANGED <<buckets, admitted, due>>
  BY <1>1, TickIInv
<1>2. ASSUME NEW u \in Users, Admit(u) PROVE LimitInv'
  BY <1>2, AdmitIInv
<1>3. ASSUME NEW u \in Users, Refuse(u) PROVE LimitInv'
  BY <1>3, RefuseIInv
<1>4. CASE UNCHANGED limitVars
  BY <1>4 DEF limitVars, LimitInv, LimitTypeOK, UserInv
<1> QED
  BY <1>1, <1>2, <1>3, <1>4 DEF LimitNext

\* The inductive invariant holds in every state of the limiter.
THEOREM Invariance == LimitSpec => []LimitInv
BY InitIInv, NextIInv, PTL DEF LimitSpec

\* Type correctness of the limiter.
THEOREM TypeCorrect == LimitSpec => []LimitTypeOK
<1>1. LimitInv => LimitTypeOK
  BY DEF LimitInv
<1> QED
  BY <1>1, Invariance, PTL

\* Any Limit + 1 admissions of a user in a row span more than the window, for
\* every limit and window and however the requests arrive.
THEOREM NoBurstHolds == LimitSpec => []NoBurst
<1>1. ASSUME LimitInv, NEW u \in Users, NEW n \in DOMAIN admitted[u], n + Limit \in DOMAIN admitted[u]
      PROVE  admitted[u][n + Limit] > admitted[u][n] + Window
  <2>1. Spans(admitted[u]) /\ LimitTypeOK
    BY <1>1 DEF LimitInv, UserInv
  <2>2. /\ DOMAIN admitted[u] = 1 .. Len(admitted[u])
        /\ Len(admitted[u]) \in Nat /\ Limit \in Nat
    BY <2>1, Types
  <2>3. n \in 1 .. Len(admitted[u]) /\ n + Limit <= Len(admitted[u])
    BY <1>1, <2>2
  <2> QED
    BY <2>1, <2>3 DEF Spans
<1>2. LimitInv => NoBurst
  BY <1>1 DEF NoBurst
<1> QED
  BY <1>2, Invariance, PTL

\* A refused user who returns when Retry-After says is admitted, for every
\* limit, window and length of a second.
THEOREM PatienceRewardedHolds == LimitSpec => []PatienceRewarded
<1>1. ASSUME LimitInv, NEW u \in Users, due[u] # notRefused, now >= due[u] PROVE HasRoom(u)
  <2> DEFINE hits == buckets[u]
  <2>1. LimitTypeOK /\ IsEnd(hits, admitted[u], now) /\ Told(hits, due[u])
    BY <1>1 DEF LimitInv, UserInv
  <2>2. /\ hits # <<>> /\ due[u] > hits[1] + Window /\ Len(hits) <= Limit
    BY <1>1, <2>1 DEF Told, IsEnd
  <2>3. /\ Len(hits) \in Nat \ {0} /\ hits[1] \in Int /\ now \in Int /\ Window \in Int
        /\ due[u] \in Int /\ Limit \in Int /\ DOMAIN hits = 1 .. Len(hits)
    BY <2>1, <2>2, Types, EmptySeq
  <2>4. Stale(hits[1])
    BY <1>1, <2>2, <2>3 DEF Stale
  <2>5. /\ Stop(hits) \in 1 .. Len(hits) + 1 /\ Len(Kept(hits)) = Len(hits) + 1 - Stop(hits)
        /\ Stop(hits) \in DOMAIN hits => ~Stale(hits[Stop(hits)])
    BY <2>1, Types, StopFacts, KeptFacts
  <2>6. Stop(hits) # 1
    BY <2>3, <2>4, <2>5
  <2> QED
    BY <2>2, <2>3, <2>5, <2>6 DEF HasRoom
<1>2. LimitInv => PatienceRewarded
  BY <1>1 DEF PatienceRewarded
<1> QED
  BY <1>2, Invariance, PTL
-----------------------------------------------------------------------------

\* A request's user is one the limiter knows, so admitting or refusing it is
\* a step of the limiter.
LEMMA UserKnown ==
    ASSUME NEW r \in Requests
    PROVE  /\ Admit(userIDFromRequest(r)) => LimitNext
           /\ Refuse(userIDFromRequest(r)) => LimitNext
BY ProxyAssumption DEF LimitNext

\* Before the gate a request is a step of the limiter or, turned away, none.
LEMMA ArrivalSteps ==
    ASSUME NEW h \in Handlers, NEW r \in Requests,
           TurnAway(h, r) \/ Throttle(h, r) \/ Serve(h, r) \/ Begin(h, r)
    PROVE  [LimitNext]_limitVars
<1>1. CASE TurnAway(h, r)
  BY <1>1 DEF TurnAway
<1>2. CASE Throttle(h, r)
  BY <1>2, UserKnown DEF Throttle
<1>3. CASE Serve(h, r)
  BY <1>3, UserKnown DEF Serve
<1>4. CASE Begin(h, r)
  BY <1>4, UserKnown DEF Begin
<1> QED
  BY <1>1, <1>2, <1>3, <1>4

\* From the gate on a handler leaves the limiter alone.
LEMMA HandlerSteps ==
    ASSUME NEW h \in Handlers, Handle(h)
    PROVE  [LimitNext]_limitVars
<1>1. ASSUME NEW r \in Requests,
             TurnAway(h, r) \/ Throttle(h, r) \/ Serve(h, r) \/ Begin(h, r)
      PROVE  [LimitNext]_limitVars
  BY <1>1, ArrivalSteps
<1>2. CASE Gate(h) \/ OverBudget(h) \/ Hit(h) \/ CountHit(h) \/ ObserveHit(h) \/ Miss(h) \/ CountMiss(h)
  BY <1>2 DEF Gate, OverBudget, Hit, CountHit, ObserveHit, Miss, CountMiss
<1>3. CASE RouteFails(h) \/ \E m \in Routed : Route(h, m)
  BY <1>3 DEF RouteFails, Route
<1>4. CASE Fail(h) \/ StreamEnds(h) \/ \E usage \in Usages : Complete(h, usage)
  BY <1>4 DEF Fail, StreamEnds, Complete, Ends
<1>5. CASE \E cost \in Estimate(h) : Charge(h, cost)
  BY <1>5 DEF Charge
<1>6. CASE Observe(h) \/ Meter(h) \/ \E nano \in Nanos : Submit(h, nano)
  BY <1>6 DEF Observe, Meter, Submit
<1> QED
  BY <1>1, <1>2, <1>3, <1>4, <1>5, <1>6 DEF Handle

\* The proxy implements the limiter's specification: each of its steps is one
\* of the limiter's, or the clock's, or leaves both as they are.
THEOREM ImplementsLimiter == Spec => LimitSpec
<1>1. Init => LimitInit
  BY DEF Init
<1>2. [Next]_vars => [LimitNext]_limitVars
  <2> SUFFICES ASSUME [Next]_vars PROVE [LimitNext]_limitVars
    OBVIOUS
  <2>1. CASE PassTime
    BY <2>1 DEF PassTime, LimitNext
  <2>2. ASSUME NEW w \in Workers, Work(w) PROVE [LimitNext]_limitVars
    BY <2>2 DEF Work, Take, InsertRow, AppendLine
  <2>3. ASSUME NEW h \in Handlers, Handle(h) PROVE [LimitNext]_limitVars
    BY <2>3, HandlerSteps
  <2>4. CASE UNCHANGED vars
    BY <2>4 DEF vars
  <2> QED
    BY <2>1, <2>2, <2>3, <2>4 DEF Next
<1> QED
  BY <1>1, <1>2, PTL DEF Spec, LimitSpec

\* However many handlers there are and whatever becomes of their requests, no
\* user gets more than Limit requests through in a window, and none who waits
\* as told is refused.
THEOREM ProxyNoBurst == Spec => []NoBurst
BY ImplementsLimiter, NoBurstHolds, PTL

THEOREM ProxyPatienceRewarded == Spec => []PatienceRewarded
BY ImplementsLimiter, PatienceRewardedHolds, PTL
-----------------------------------------------------------------------------
(* The handlers and what is counted of them, for any number of handlers. The *)
(* invariant says what a handler holds at each of its labels, and that every *)
(* request counted in is counted out or held by a handler on its way.        *)

Charging == {"charge", "observe", "meter", "submit"}
Bills == [model : Routed \cup {""}, status : {"", "ok", "error"},
          prompt : Nat, completion : Nat, cost : Nat]
Metrics == [requests : [{"ok", "error", "cached"} -> Nat], cost : Nat, hits : Nat, misses : Nat]

\* The types that TypeOK leaves out.
CountTypes == /\ bill \in [Handlers -> Bills] /\ metrics \in Metrics
              /\ passed \in [BOOLEAN -> Nat] /\ unrouted \in Nat

\* What a handler holds.
HolderInv(h) ==
    /\ pc[h] # "idle" => req[h] \in Requests
    /\ pc[h] \in {"call"} \cup Charging => bill[h].model \in Routed
    /\ pc[h] \in Charging =>
         /\ bill[h].status \in {"ok", "error"}
         /\ [prompt |-> bill[h].prompt, completion |-> bill[h].completion] \in Usages \cup {noUsage}

ProxyInv == /\ TypeOK /\ CountTypes
            /\ \A h \in Handlers : HolderInv(h)
            /\ CountsReconcile

\* The counts of handlers in it: at the prompt cache, between its two counters,
\* between the gate and the metrics, and between the metrics and the log.
unsettled == {"lookup", "hit", "cached", "miss", "route", "call", "charge", "observe"}
Looking == At({"lookup", "hit", "miss"})
Counting == At({"cached"})
Unsettled == At(unsettled)
Logging == At({"meter", "submit"})

\* And a name for each other count, so that the sums are sums of numbers.
Streams == passed[TRUE]
Batches == passed[FALSE]
Hits == metrics.hits
Misses == metrics.misses
Oks == metrics.requests["ok"]
Errors == metrics.requests["error"]
Cached == metrics.requests["cached"]
Filed == Len(journal) + Len(failed.jsonl)
InHands == Cardinality(Busy({"sqlite", "jsonl"}))
InQueue == Len(queue)
Dropped == Len(lost)

\* CountsReconcile by those names.
Sums == /\ Batches = Hits + Misses + Looking
        /\ Streams + Batches = Oks + Errors + Cached + unrouted + Unsettled
        /\ Oks + Errors = Filed + InHands + InQueue + Dropped + Logging
        /\ Hits = Cached + Counting

Numbers ==
    /\ Hits \in Nat /\ Misses \in Nat /\ Oks \in Nat /\ Errors \in Nat /\ Cached \in Nat
    /\ Streams \in Nat /\ Batches \in Nat /\ unrouted \in Nat
    /\ Filed \in Nat /\ InHands \in Nat /\ InQueue \in Nat /\ Dropped \in Nat
    /\ Looking \in Nat /\ Counting \in Nat /\ Unsettled \in Nat /\ Logging \in Nat

LEMMA Counted == (CountsReconcile <=> Sums) /\ (CountsReconcile' <=> Sums')
BY DEF CountsReconcile, At, unsettled, Sums, Looking, Counting, Unsettled, Logging, Streams, Batches,
       Hits, Misses, Oks, Errors, Cached, Filed, InHands, InQueue, Dropped

\* What leaves the metrics alone, or the log, or the gate's count.
LEMMA SumsFrame ==
    /\ UNCHANGED metrics => /\ Hits' = Hits /\ Misses' = Misses
                            /\ Oks' = Oks /\ Errors' = Errors /\ Cached' = Cached
    /\ UNCHANGED <<queue, lost, workerVars>> =>
         Filed' = Filed /\ InHands' = InHands /\ InQueue' = InQueue /\ Dropped' = Dropped
    /\ UNCHANGED passed => Streams' = Streams /\ Batches' = Batches
BY DEF Hits, Misses, Oks, Errors, Cached, Filed, InHands, InQueue, Dropped, Streams, Batches,
       workerVars, Busy

LEMMA SumsNow == ProxyInv => Sums
BY Counted DEF ProxyInv

LEMMA CountsAreNumbers == ProxyInv => Numbers
<1> SUFFICES ASSUME ProxyInv PROVE Numbers
  OBVIOUS
<1>1. Filed \in Nat /\ InHands \in Nat /\ InQueue \in Nat /\ Dropped \in Nat
  <2>1. Len(journal) \in Nat /\ Len(failed.jsonl) \in Nat
    BY LenProperties DEF ProxyInv, TypeOK
  <2>2. Busy({"sqlite", "jsonl"}) \subseteq Workers /\ IsFiniteSet(Workers)
    BY ProxyAssumption DEF Busy
  <2>3. InHands \in Nat
    BY <2>2, FS_Subset, FS_CardinalityType DEF InHands
  <2> QED
    BY <2>1, <2>3, LenProperties DEF ProxyInv, TypeOK, Filed, InQueue, Dropped
<1>2. Hits \in Nat /\ Misses \in Nat /\ Oks \in Nat /\ Errors \in Nat /\ Cached \in Nat
  <2>1. /\ metrics.hits \in Nat /\ metrics.misses \in Nat
        /\ metrics.requests \in [{"ok", "error", "cached"} -> Nat]
    BY DEF ProxyInv, CountTypes, Metrics
  <2> QED
    BY <2>1 DEF Hits, Misses, Oks, Errors, Cached
<1>3. Streams \in Nat /\ Batches \in Nat /\ unrouted \in Nat
  BY DEF ProxyInv, CountTypes, Streams, Batches
<1>4. \A places : At(places) \in Nat
  BY ProxyAssumption, FS_Subset, FS_CardinalityType DEF At
<1>5. Looking \in Nat /\ Counting \in Nat /\ Unsettled \in Nat /\ Logging \in Nat
  BY <1>4 DEF Looking, Counting, Unsettled, Logging
<1> QED
  BY <1>1, <1>2, <1>3, <1>5 DEF Numbers

\* One handler's move from label to label.
LEMMA Moves ==
    ASSUME pc \in [Handlers -> PC], NEW h \in Handlers, NEW l \in PC, GoTo(h, l), NEW places
    PROVE  /\ At(places) \in Nat /\ At(places)' \in Nat
           /\ At(places)' + (IF pc[h] \in places THEN 1 ELSE 0)
                = At(places) + (IF l \in places THEN 1 ELSE 0)
<1> DEFINE S == {g \in Handlers : pc[g] \in places}
           T == {g \in Handlers : pc'[g] \in places}
           R == S \ {h}
<1>1. pc'[h] = l /\ \A g \in Handlers \ {h} : pc'[g] = pc[g]
  BY DEF GoTo
<1>2. /\ S = IF pc[h] \in places THEN R \cup {h} ELSE R
      /\ T = IF l \in places THEN R \cup {h} ELSE R
      /\ h \notin R
  BY <1>1
<1>3. IsFiniteSet(R) /\ Cardinality(R) \in Nat
  BY ProxyAssumption, FS_Subset, FS_CardinalityType
<1>4. Cardinality(R \cup {h}) = Cardinality(R) + 1
  BY <1>2, <1>3, FS_AddElement
<1> HIDE DEF S, T, R
<1>5. /\ Cardinality(S) = Cardinality(R) + (IF pc[h] \in places THEN 1 ELSE 0)
      /\ Cardinality(T) = Cardinality(R) + (IF l \in places THEN 1 ELSE 0)
  <2>1. Cardinality(S) = Cardinality(R) + (IF pc[h] \in places THEN 1 ELSE 0)
    BY <1>2, <1>3, <1>4
  <2>2. Cardinality(T) = Cardinality(R) + (IF l \in places THEN 1 ELSE 0)
    BY <1>2, <1>3, <1>4
  <2> QED
    BY <2>1, <2>2
<1>6. At(places) = Cardinality(S) /\ At(places)' = Cardinality(T)
  BY DEF At, S, T
<1> QED
  BY <1>3, <1>5, <1>6

LEMMA Stands ==
    ASSUME NEW places, UNCHANGED pc
    PROVE  /\ At(places)' = At(places)
           /\ At(places) \in Nat
<1>1. IsFiniteSet({g \in Handlers : pc[g] \in places})
  BY ProxyAssumption, FS_Subset
<1> QED
  BY <1>1, FS_CardinalityType DEF At

\* A count of handlers after a move out of its labels, into them, or neither.
LEMMA Leaves ==
    ASSUME pc \in [Handlers -> PC], NEW h \in Handlers, NEW l \in PC, GoTo(h, l), NEW places,
           pc[h] \in places, l \notin places
    PROVE  At(places) \in Nat /\ At(places)' = At(places) - 1
BY Moves

LEMMA Enters ==
    ASSUME pc \in [Handlers -> PC], NEW h \in Handlers, NEW l \in PC, GoTo(h, l), NEW places,
           pc[h] \notin places, l \in places
    PROVE  At(places) \in Nat /\ At(places)' = At(places) + 1
BY Moves

LEMMA Stays ==
    ASSUME pc \in [Handlers -> PC], NEW h \in Handlers, NEW l \in PC, GoTo(h, l), NEW places,
           pc[h] \in places <=> l \in places
    PROVE  At(places) \in Nat /\ At(places)' = At(places)
BY Moves

\* A move that comes near neither the prompt cache nor the log.
LEMMA Elsewhere ==
    ASSUME pc \in [Handlers -> PC], NEW h \in Handlers, NEW l \in PC, GoTo(h, l),
           pc[h] \notin {"lookup", "hit", "cached", "miss", "meter", "submit"},
           l \notin {"lookup", "hit", "cached", "miss", "meter", "submit"}
    PROVE  Looking' = Looking /\ Counting' = Counting /\ Logging' = Logging
<1>1. Looking' = Looking
  BY Stays DEF Looking
<1>2. Counting' = Counting
  BY Stays DEF Counting
<1>3. Logging' = Logging
  BY Stays DEF Logging
<1> QED
  BY <1>1, <1>2, <1>3

\* A handler that does not move holds what it held.
LEMMA HolderFrame ==
    ASSUME NEW g \in Handlers, HolderInv(g),
           pc'[g] = pc[g], req'[g] = req[g], bill'[g] = bill[g]
    PROVE  HolderInv(g)'
BY DEF HolderInv

\* Rolled figures, and charged ones, are figures of a tracker of one day.
LEMMA BooksTypes ==
    ASSUME tracker \in Books!States
    PROVE  /\ Books!RolledState \in Books!States
           /\ Books!RolledState.total = tracker.total
           /\ \A cost \in Nat :
                /\ Books!Charged(Books!RolledState, cost) \in Books!States
                /\ Books!Charged(Books!RolledState, cost).total = tracker.total + cost
<1>1. /\ 0 \in Books!Period /\ Books!Month(0) = 0
      /\ tracker.day \in Books!Period /\ tracker.month \in Books!Period
      /\ tracker.daily \in Nat /\ tracker.monthly \in Nat /\ tracker.total \in Nat
  BY DEF Books!States, Books!Period, Books!Day, Books!Month
<1>2. Books!RolledState =
        [tracker EXCEPT !.day = 0, !.month = 0,
                        !.daily = IF tracker.day = 0 THEN tracker.daily ELSE 0,
                        !.monthly = IF tracker.month = 0 THEN tracker.monthly ELSE 0]
  BY <1>1 DEF Books!RolledState
<1>3. Books!RolledState \in Books!States /\ Books!RolledState.total = tracker.total
  BY <1>1, <1>2 DEF Books!States
<1> QED
  BY <1>3 DEF Books!States, Books!Charged

\* What is left to show of a step of h.
LEMMA StepOf ==
    ASSUME ProxyInv, LimitTypeOK', NEW h \in Handlers, NEW l \in PC, GoTo(h, l),
           \/ UNCHANGED req
           \/ \E r \in Requests \cup {Nothing} : req' = [req EXCEPT ![h] = r],
           \/ UNCHANGED bill
           \/ \E b \in Bills : bill' = [bill EXCEPT ![h] = b],
           tracker' \in Books!States,
           \/ UNCHANGED store
           \/ \E s \in {"reply", Nothing} : store' = [store EXCEPT ![req[h].key] = s],
           queue' \in Seq(EntryType), lost' \in Seq(EntryType), UNCHANGED workerVars,
           metrics' \in Metrics, passed' \in [BOOLEAN -> Nat], unrouted' \in Nat,
           HolderInv(h)', Sums'
    PROVE  ProxyInv'
<1>1. TypeOK'
  <2>1. pc' \in [Handlers -> PC]
    BY DEF ProxyInv, TypeOK, GoTo
  <2>2. req' \in [Handlers -> Requests \cup {Nothing}]
    BY DEF ProxyInv, TypeOK
  <2>3. store' \in [Keys -> {"reply", Nothing}]
    BY DEF ProxyInv, TypeOK
  <2>4. UNCHANGED <<journal, failed, step, hand, rows>>
    BY DEF workerVars
  <2> QED
    BY <2>1, <2>2, <2>3, <2>4 DEF ProxyInv, TypeOK
<1>2. CountTypes'
  BY DEF ProxyInv, CountTypes
<1>3. ASSUME NEW g \in Handlers, g # h PROVE HolderInv(g)'
  <2>1. pc'[g] = pc[g] /\ req'[g] = req[g] /\ bill'[g] = bill[g]
    BY <1>3 DEF ProxyInv, TypeOK, CountTypes, GoTo
  <2> QED
    BY <2>1, HolderFrame DEF ProxyInv
<1> QED
  BY <1>1, <1>2, <1>3, Counted DEF ProxyInv

LEMMA Facts ==
    ASSUME ProxyInv
    PROVE  /\ pc \in [Handlers -> PC] /\ req \in [Handlers -> Requests \cup {Nothing}]
           /\ bill \in [Handlers -> Bills] /\ metrics \in Metrics
           /\ tracker \in Books!States /\ queue \in Seq(EntryType) /\ lost \in Seq(EntryType)
           /\ passed \in [BOOLEAN -> Nat] /\ unrouted \in Nat
           /\ noBill \in Bills
BY DEF ProxyInv, TypeOK, CountTypes, noBill, Bills

\* A request past the gate: counted in.
LEMMA GateKeeps ==
    ASSUME ProxyInv, LimitTypeOK', NEW h \in Handlers, Gate(h) \/ OverBudget(h)
    PROVE  ProxyInv'
<1>a. Numbers /\ Sums
  BY CountsAreNumbers, SumsNow
<1>0. {"idle", "route", "lookup"} \subseteq PC
  BY DEF PC
<1>1. CASE Gate(h)
  <2> DEFINE l == IF req[h].stream THEN "route" ELSE "lookup"
  <2>1. /\ pc[h] = "gate" /\ GoTo(h, l) /\ tracker' = Books!RolledState
        /\ passed' = [passed EXCEPT ![req[h].stream] = @ + 1]
        /\ UNCHANGED <<req, bill, store, metrics, queue, lost, workerVars, unrouted>>
    BY <1>1 DEF Gate, sinkVars
  <2>8. /\ Hits' = Hits /\ Misses' = Misses /\ Oks' = Oks /\ Errors' = Errors /\ Cached' = Cached
        /\ Filed' = Filed /\ InHands' = InHands /\ InQueue' = InQueue /\ Dropped' = Dropped
        /\ unrouted' = unrouted
    BY <2>1, SumsFrame
  <2>2. req[h] \in Requests /\ req[h].stream \in BOOLEAN
    BY <2>1, ProxyAssumption DEF ProxyInv, HolderInv, Request
  <2>3. passed' \in [BOOLEAN -> Nat]
    BY <2>1, <2>2, Facts
  <2>4. l \in PC
    BY <1>0
  <2>5. HolderInv(h)'
    BY <2>1, <2>2, <2>4, Facts DEF HolderInv, GoTo, Charging
  <2>6. Sums'
    <3>1. Unsettled \in Nat /\ Unsettled' = Unsettled + 1
      <4>1. "gate" \notin unsettled /\ l \in unsettled
        BY DEF unsettled
      <4> QED
        BY <2>1, <2>4, <4>1, Facts, Enters DEF Unsettled
    <3>2. Logging' = Logging /\ Counting' = Counting
      <4>1. /\ "gate" \notin {"meter", "submit"} /\ l \notin {"meter", "submit"}
            /\ "gate" \notin {"cached"} /\ l \notin {"cached"}
        OBVIOUS
      <4> QED
        BY <2>1, <2>4, <4>1, Facts, Stays DEF Logging, Counting
    <3>3. CASE req[h].stream
      <4>1. Streams' = Streams + 1 /\ Batches' = Batches
        BY <2>1, <2>2, <3>3, Facts DEF Streams, Batches
      <4>2. Looking \in Nat /\ Looking' = Looking
        <5>1. l = "route"
          BY <3>3
        <5> QED
          BY <2>1, <2>4, <5>1, Facts, Stays DEF Looking
      <4> QED
        BY <1>a, <2>8, <3>1, <3>2, <4>1, <4>2 DEF Numbers, Sums
    <3>4. CASE ~req[h].stream
      <4>1. Streams' = Streams /\ Batches' = Batches + 1
        <5>1. req[h].stream = FALSE
          BY <2>2, <3>4
        <5> QED
          BY <2>1, <5>1, Facts DEF Streams, Batches
      <4>2. Looking \in Nat /\ Looking' = Looking + 1
        BY <2>1, <2>4, <3>4, Facts, Enters DEF Looking
      <4> QED
        BY <1>a, <2>8, <3>1, <3>2, <4>1, <4>2 DEF Numbers, Sums
    <3> QED
      BY <3>3, <3>4
  <2>7. tracker' \in Books!States
    BY <2>1, Facts, BooksTypes
  <2> QED
    BY <2>1, <2>3, <2>4, <2>5, <2>6, <2>7, Facts, StepOf
<1>2. CASE OverBudget(h)
  <2>1. /\ pc[h] = "gate" /\ GoTo(h, "idle") /\ tracker' = Books!RolledState
        /\ req' = [req EXCEPT ![h] = Nothing] /\ bill' = [bill EXCEPT ![h] = noBill]
        /\ UNCHANGED <<store, metrics, queue, lost, workerVars, passed, unrouted>>
    BY <1>2 DEF OverBudget, Done, sinkVars, countVars
  <2>2. HolderInv(h)'
    BY <2>1, Facts DEF HolderInv, GoTo, Charging
  <2>3. Sums'
    <3>1. Looking' = Looking /\ Counting' = Counting /\ Logging' = Logging
      BY <1>0, <2>1, Facts, Elsewhere
    <3>2. Unsettled' = Unsettled
      BY <1>0, <2>1, Facts, Stays DEF Unsettled, unsettled
    <3> QED
      BY <2>1, <3>1, <3>2, <1>a, SumsFrame DEF Sums
  <2>4. tracker' \in Books!States
    BY <2>1, Facts, BooksTypes
  <2> QED
    BY <1>0, <2>1, <2>2, <2>3, <2>4, Facts, StepOf
<1> QED
  BY <1>1, <1>2

\* One more hit, or miss, or request of a status.
LEMMA Ticked ==
    ASSUME metrics \in Metrics
    PROVE  /\ [metrics EXCEPT !.misses = @ + 1] \in Metrics
           /\ [metrics EXCEPT !.hits = @ + 1] \in Metrics
           /\ \A s \in {"ok", "error", "cached"} :
                [metrics.requests EXCEPT ![s] = @ + 1] \in [{"ok", "error", "cached"} -> Nat]
BY DEF Metrics

\* The prompt cache: neither its hit nor its miss is counted yet.
LEMMA LookupKeeps ==
    ASSUME ProxyInv, LimitTypeOK', NEW h \in Handlers, Hit(h) \/ Miss(h)
    PROVE  ProxyInv'
<1>a. Numbers /\ Sums
  BY CountsAreNumbers, SumsNow
<1>1. PICK l \in {"hit", "miss"} :
        /\ pc[h] = "lookup" /\ GoTo(h, l)
        /\ store' = store \/ store' = [store EXCEPT ![req[h].key] = Nothing]
        /\ UNCHANGED <<req, bill, tracker, metrics, queue, lost, workerVars, passed, unrouted>>
  BY DEF Hit, Miss, sinkVars, countVars
<1>2. l \in PC
  BY DEF PC
<1>3. HolderInv(h)'
  BY <1>1, <1>2, Facts DEF HolderInv, GoTo, Charging, ProxyInv
<1>4. Sums'
  <2>1. Looking' = Looking
    BY <1>1, <1>2, Facts, Stays DEF Looking
  <2>2. Unsettled' = Unsettled
    BY <1>1, <1>2, Facts, Stays DEF Unsettled, unsettled
  <2>3. Logging' = Logging /\ Counting' = Counting
    BY <1>1, <1>2, Facts, Stays DEF Logging, Counting
  <2> QED
    BY <1>a, <1>1, <2>1, <2>2, <2>3, SumsFrame DEF Sums
<1> QED
  BY <1>1, <1>2, <1>3, <1>4, Facts, StepOf

\* Between the two counters of a hit, the handler makes up for the difference.
LEMMA CountHitKeeps ==
    ASSUME ProxyInv, LimitTypeOK', NEW h \in Handlers, CountHit(h)
    PROVE  ProxyInv'
<1>a. Numbers /\ Sums
  BY CountsAreNumbers, SumsNow
<1>0. "cached" \in PC
  BY DEF PC
<1>1. /\ pc[h] = "hit" /\ GoTo(h, "cached")
      /\ metrics' = [metrics EXCEPT !.hits = @ + 1]
      /\ UNCHANGED <<req, bill, tracker, store, queue, lost, workerVars, passed, unrouted>>
  BY DEF CountHit, countVars
<1>2. HolderInv(h)'
  BY <1>0, <1>1, Facts DEF HolderInv, GoTo, Charging, ProxyInv
<1>3. /\ metrics'.hits = metrics.hits + 1 /\ metrics'.misses = metrics.misses
      /\ metrics'.requests = metrics.requests
  BY <1>1, Facts DEF Metrics
<1>4. metrics' \in Metrics
  BY <1>1, Ticked, Facts
<1>5. Sums'
  <2>1. Looking' = Looking - 1
    BY <1>0, <1>1, Facts, Leaves DEF Looking
  <2>2. Unsettled' = Unsettled
    BY <1>0, <1>1, Facts, Stays DEF Unsettled, unsettled
  <2>3. Logging' = Logging
    BY <1>0, <1>1, Facts, Stays DEF Logging
  <2>4. Counting' = Counting + 1
    BY <1>0, <1>1, Facts, Enters DEF Counting
  <2>5. /\ Hits' = Hits + 1 /\ Misses' = Misses
        /\ Oks' = Oks /\ Errors' = Errors /\ Cached' = Cached
    BY <1>3 DEF Hits, Misses, Oks, Errors, Cached
  <2>6. /\ Filed' = Filed /\ InHands' = InHands /\ InQueue' = InQueue /\ Dropped' = Dropped
        /\ Streams' = Streams /\ Batches' = Batches /\ unrouted' = unrouted
    BY <1>1, SumsFrame
  <2> QED
    BY <1>a, <2>1, <2>2, <2>3, <2>4, <2>5, <2>6 DEF Numbers, Sums
<1> QED
  BY <1>0, <1>1, <1>2, <1>4, <1>5, Facts, StepOf

LEMMA ObserveHitKeeps ==
    ASSUME ProxyInv, LimitTypeOK', NEW h \in Handlers, ObserveHit(h)
    PROVE  ProxyInv'
<1> DEFINE n == metrics.requests
<1>a. Numbers /\ Sums
  BY CountsAreNumbers, SumsNow
<1>0. "idle" \in PC
  BY DEF PC
<1>1. /\ pc[h] = "cached" /\ GoTo(h, "idle")
      /\ req' = [req EXCEPT ![h] = Nothing] /\ bill' = [bill EXCEPT ![h] = noBill]
      /\ UNCHANGED <<tracker, store, queue, lost, workerVars, passed, unrouted>>
  BY DEF ObserveHit, Done, countVars
<1>2. HolderInv(h)'
  BY <1>1, Facts DEF HolderInv, GoTo, Charging
<1>3. metrics' = [requests |-> [n EXCEPT !["cached"] = @ + 1], cost |-> metrics.cost,
                  hits |-> metrics.hits, misses |-> metrics.misses]
  BY Facts DEF ObserveHit, Metrics
<1>4. metrics' \in Metrics
  <2>1. [n EXCEPT !["cached"] = @ + 1] \in [{"ok", "error", "cached"} -> Nat]
    BY Ticked, Facts
  <2> QED
    BY <1>3, <2>1, Facts DEF Metrics
<1>5. Sums'
  <2>1. Looking' = Looking /\ Logging' = Logging
    BY <1>0, <1>1, Facts, Stays DEF Looking, Logging
  <2>2. Unsettled' = Unsettled - 1
    BY <1>0, <1>1, Facts, Leaves DEF Unsettled, unsettled
  <2>3. Counting' = Counting - 1
    BY <1>0, <1>1, Facts, Leaves DEF Counting
  <2>4. /\ Hits' = Hits /\ Misses' = Misses
        /\ Cached' = Cached + 1 /\ Oks' = Oks /\ Errors' = Errors
    BY <1>3, Facts DEF Metrics, Hits, Misses, Oks, Errors, Cached
  <2>5. /\ Filed' = Filed /\ InHands' = InHands /\ InQueue' = InQueue /\ Dropped' = Dropped
        /\ Streams' = Streams /\ Batches' = Batches /\ unrouted' = unrouted
    BY <1>1, SumsFrame
  <2> QED
    BY <1>a, <2>1, <2>2, <2>3, <2>4, <2>5 DEF Numbers, Sums
<1> QED
  BY <1>0, <1>1, <1>2, <1>4, <1>5, Facts, StepOf

LEMMA CountMissKeeps ==
    ASSUME ProxyInv, LimitTypeOK', NEW h \in Handlers, CountMiss(h)
    PROVE  ProxyInv'
<1>a. Numbers /\ Sums
  BY CountsAreNumbers, SumsNow
<1>0. "route" \in PC
  BY DEF PC
<1>1. /\ pc[h] = "miss" /\ GoTo(h, "route")
      /\ metrics' = [metrics EXCEPT !.misses = @ + 1]
      /\ UNCHANGED <<req, bill, tracker, store, queue, lost, workerVars, passed, unrouted>>
  BY DEF CountMiss, countVars
<1>2. HolderInv(h)'
  BY <1>0, <1>1, Facts DEF HolderInv, GoTo, Charging, ProxyInv
<1>3. /\ metrics'.hits = metrics.hits /\ metrics'.misses = metrics.misses + 1
      /\ metrics'.requests = metrics.requests
  BY <1>1, Facts DEF Metrics
<1>4. metrics' \in Metrics
  BY <1>1, Ticked, Facts
<1>5. Sums'
  <2>1. Looking' = Looking - 1
    BY <1>0, <1>1, Facts, Leaves DEF Looking
  <2>2. Unsettled' = Unsettled
    BY <1>0, <1>1, Facts, Stays DEF Unsettled, unsettled
  <2>3. Logging' = Logging /\ Counting' = Counting
    BY <1>0, <1>1, Facts, Stays DEF Logging, Counting
  <2>4. /\ Hits' = Hits /\ Misses' = Misses + 1
        /\ Oks' = Oks /\ Errors' = Errors /\ Cached' = Cached
    BY <1>3 DEF Hits, Misses, Oks, Errors, Cached
  <2>5. /\ Filed' = Filed /\ InHands' = InHands /\ InQueue' = InQueue /\ Dropped' = Dropped
        /\ Streams' = Streams /\ Batches' = Batches /\ unrouted' = unrouted
    BY <1>1, SumsFrame
  <2> QED
    BY <1>a, <2>1, <2>2, <2>3, <2>4, <2>5 DEF Numbers, Sums
<1> QED
  BY <1>0, <1>1, <1>2, <1>4, <1>5, Facts, StepOf

\* The classifier decides, or fails and the request is over.
LEMMA RouteKeeps ==
    ASSUME ProxyInv, LimitTypeOK', NEW h \in Handlers,
           RouteFails(h) \/ \E m \in Routed : Route(h, m)
    PROVE  ProxyInv'
<1>a. Numbers /\ Sums
  BY CountsAreNumbers, SumsNow
<1>0. {"idle", "call"} \subseteq PC
  BY DEF PC
<1>1. CASE RouteFails(h)
  <2>1. /\ pc[h] = "route" /\ GoTo(h, "idle") /\ unrouted' = unrouted + 1
        /\ req' = [req EXCEPT ![h] = Nothing] /\ bill' = [bill EXCEPT ![h] = noBill]
        /\ UNCHANGED <<tracker, store, metrics, queue, lost, workerVars, passed>>
    BY <1>1 DEF RouteFails, Done, sinkVars
  <2>2. HolderInv(h)'
    BY <2>1, Facts DEF HolderInv, GoTo, Charging
  <2>3. unrouted' \in Nat
    BY <2>1, Facts
  <2>4. Sums'
    <3>1. Looking' = Looking /\ Counting' = Counting /\ Logging' = Logging
      BY <1>0, <2>1, Facts, Elsewhere
    <3>2. Unsettled' = Unsettled - 1
      BY <1>0, <2>1, Facts, Leaves DEF Unsettled, unsettled
    <3>3. /\ Hits' = Hits /\ Misses' = Misses /\ Oks' = Oks /\ Errors' = Errors /\ Cached' = Cached
          /\ Filed' = Filed /\ InHands' = InHands /\ InQueue' = InQueue /\ Dropped' = Dropped
          /\ Streams' = Streams /\ Batches' = Batches /\ unrouted' = unrouted + 1
      BY <2>1, SumsFrame
    <3> QED
      BY <1>a, <3>1, <3>2, <3>3 DEF Numbers, Sums
  <2> QED
    BY <1>0, <2>1, <2>2, <2>3, <2>4, Facts, StepOf
<1>2. ASSUME NEW m \in Routed, Route(h, m) PROVE ProxyInv'
  <2> DEFINE b == [bill[h] EXCEPT !.model = m]
  <2>1. /\ pc[h] = "route" /\ GoTo(h, "call") /\ bill' = [bill EXCEPT ![h] = b]
        /\ UNCHANGED <<req, tracker, store, metrics, queue, lost, workerVars, passed, unrouted>>
    BY <1>2 DEF Route, sinkVars, countVars
  <2>2. b \in Bills /\ b.model = m
    BY Facts DEF Bills
  <2> HIDE DEF b
  <2>3. HolderInv(h)'
    <3>1. req'[h] \in Requests /\ bill'[h] = b /\ pc'[h] = "call"
      BY <2>1, Facts DEF ProxyInv, HolderInv, GoTo
    <3> QED
      BY <2>2, <3>1 DEF HolderInv, Charging
  <2>4. Sums'
    <3>1. Looking' = Looking /\ Counting' = Counting /\ Logging' = Logging
      BY <1>0, <2>1, Facts, Elsewhere
    <3>2. Unsettled' = Unsettled
      BY <1>0, <2>1, Facts, Stays DEF Unsettled, unsettled
    <3> QED
      BY <1>a, <2>1, <3>1, <3>2, SumsFrame DEF Sums
  <2> QED
    BY <1>0, <2>1, <2>2, <2>3, <2>4, Facts, StepOf
<1> QED
  BY <1>1, <1>2

\* The answer is known: the bill says what it was and what it used.
LEMMA EndsKeeps ==
    ASSUME ProxyInv, LimitTypeOK', NEW h \in Handlers, NEW streamed,
           NEW status \in {"ok", "error"}, NEW usage \in Usages \cup {noUsage},
           Ends(h, streamed, status, usage),
           UNCHANGED store \/ store' = [store EXCEPT ![req[h].key] = "reply"]
    PROVE  ProxyInv'
<1> DEFINE b == [bill[h] EXCEPT !.status = status, !.prompt = usage.prompt,
                                !.completion = usage.completion]
<1>a. Numbers /\ Sums
  BY CountsAreNumbers, SumsNow
<1>0. "charge" \in PC
  BY DEF PC
<1>1. /\ pc[h] = "call" /\ GoTo(h, "charge") /\ bill' = [bill EXCEPT ![h] = b]
      /\ UNCHANGED <<req, tracker, metrics, queue, lost, workerVars, passed, unrouted>>
  BY DEF Ends, sinkVars, countVars
<1>2. usage \in [prompt : Nat, completion : Nat]
  <2>1. Usages \subseteq [prompt : Nat, completion : Nat]
    BY ProxyAssumption
  <2>2. noUsage \in [prompt : Nat, completion : Nat]
    BY DEF noUsage
  <2> QED
    BY <2>1, <2>2
<1>3. /\ b \in Bills /\ b.model = bill[h].model /\ b.status = status
      /\ [prompt |-> b.prompt, completion |-> b.completion] = usage
  BY <1>2, Facts DEF Bills
<1> HIDE DEF b
<1>4. HolderInv(h)'
  <2>1. req'[h] \in Requests /\ bill'[h] = b /\ pc'[h] = "charge" /\ bill[h].model \in Routed
    BY <1>1, Facts DEF ProxyInv, HolderInv, GoTo
  <2> QED
    BY <1>3, <2>1 DEF HolderInv
<1>5. Sums'
  <2>1. Looking' = Looking /\ Counting' = Counting /\ Logging' = Logging
    BY <1>0, <1>1, Facts, Elsewhere
  <2>2. Unsettled' = Unsettled
    BY <1>0, <1>1, Facts, Stays DEF Unsettled, unsettled
  <2> QED
    BY <1>a, <1>1, <2>1, <2>2, SumsFrame DEF Sums
<1> QED
  BY <1>0, <1>1, <1>3, <1>4, <1>5, Facts, StepOf

LEMMA AnswerKeeps ==
    ASSUME ProxyInv, LimitTypeOK', NEW h \in Handlers,
           Fail(h) \/ StreamEnds(h) \/ \E usage \in Usages : Complete(h, usage)
    PROVE  ProxyInv'
<1>1. CASE Fail(h)
  BY <1>1, EndsKeeps DEF Fail
<1>2. CASE StreamEnds(h)
  BY <1>2, EndsKeeps DEF StreamEnds
<1>3. ASSUME NEW usage \in Usages, Complete(h, usage) PROVE ProxyInv'
  BY <1>3, EndsKeeps DEF Complete
<1> QED
  BY <1>1, <1>2, <1>3

\* What an answer is charged with.
LEMMA EstimateIsBounded ==
    ASSUME NEW h \in Handlers, HolderInv(h), pc[h] = "charge"
    PROVE  Estimate(h) \subseteq 0 .. MaxCost
<1> DEFINE u == [prompt |-> bill[h].prompt, completion |-> bill[h].completion]
<1>1. bill[h].model \in Routed /\ u \in Usages \cup {noUsage}
  BY DEF HolderInv, Charging
<1>2. u.prompt = bill[h].prompt /\ u.completion = bill[h].completion
  OBVIOUS
<1>3. Costs(bill[h].model, u.prompt, u.completion) \subseteq 0 .. MaxCost
  BY <1>1, ProxyAssumption
<1> QED
  BY <1>2, <1>3 DEF Estimate

\* The tracker is charged, and the charge is noted in the bill.
LEMMA ChargeKeeps ==
    ASSUME ProxyInv, LimitTypeOK', NEW h \in Handlers, NEW cost \in Estimate(h), Charge(h, cost)
    PROVE  ProxyInv'
<1> DEFINE b == [bill[h] EXCEPT !.cost = cost]
<1>a. Numbers /\ Sums
  BY CountsAreNumbers, SumsNow
<1>0. "observe" \in PC
  BY DEF PC
<1>1. /\ pc[h] = "charge" /\ GoTo(h, "observe") /\ bill' = [bill EXCEPT ![h] = b]
      /\ tracker' = IF cost > 0 THEN Books!Charged(Books!RolledState, cost) ELSE tracker
      /\ UNCHANGED <<req, store, metrics, queue, lost, workerVars, passed, unrouted>>
  BY DEF Charge, sinkVars, countVars
<1>2. cost \in Nat
  <2>1. cost \in 0 .. MaxCost
    BY <1>1, EstimateIsBounded DEF ProxyInv
  <2>2. MaxCost \in Nat
    BY ProxyAssumption
  <2> QED
    BY <2>1, <2>2
<1>3. tracker' \in Books!States
  <2>1. /\ Books!Charged(Books!RolledState, cost) \in Books!States /\ tracker \in Books!States
    BY <1>2, Facts, BooksTypes
  <2> QED
    BY <1>1, <2>1
<1>4. /\ b \in Bills /\ b.model = bill[h].model /\ b.status = bill[h].status
      /\ b.prompt = bill[h].prompt /\ b.completion = bill[h].completion
  BY <1>2, Facts DEF Bills
<1> HIDE DEF b
<1>5. HolderInv(h)'
  <2>1. HolderInv(h) /\ bill'[h] = b /\ pc'[h] = "observe" /\ req'[h] = req[h]
    BY <1>1, Facts DEF ProxyInv, GoTo
  <2> QED
    BY <1>1, <1>4, <2>1 DEF HolderInv, Charging
<1>6. Sums'
  <2>1. Looking' = Looking /\ Counting' = Counting /\ Logging' = Logging
    BY <1>0, <1>1, Facts, Elsewhere
  <2>2. Unsettled' = Unsettled
    BY <1>0, <1>1, Facts, Stays DEF Unsettled, unsettled
  <2> QED
    BY <1>a, <1>1, <2>1, <2>2, SumsFrame DEF Sums
<1> QED
  BY <1>0, <1>1, <1>3, <1>4, <1>5, <1>6, Facts, StepOf

\* The last records: the metrics, counter by counter, and the log or, if its
\* queue is full, nothing.
LEMMA ObserveKeeps ==
    ASSUME ProxyInv, LimitTypeOK', NEW h \in Handlers, Observe(h)
    PROVE  ProxyInv'
<1> DEFINE n == metrics.requests
           s == bill[h].status
<1>a. Numbers /\ Sums
  BY CountsAreNumbers, SumsNow
<1>0. "meter" \in PC
  BY DEF PC
<1>1. /\ pc[h] = "observe" /\ GoTo(h, "meter")
      /\ metrics' = [metrics EXCEPT !.requests[s] = @ + 1]
      /\ UNCHANGED <<req, bill, tracker, store, queue, lost, workerVars, passed, unrouted>>
  BY DEF Observe, countVars
<1>2. s \in {"ok", "error"}
  BY <1>1, Facts DEF ProxyInv, HolderInv, Charging
<1>3. metrics' = [requests |-> [n EXCEPT ![s] = @ + 1], cost |-> metrics.cost,
                  hits |-> metrics.hits, misses |-> metrics.misses]
  BY <1>1, Facts DEF Metrics
<1>4. metrics' \in Metrics
  <2>1. [n EXCEPT ![s] = @ + 1] \in [{"ok", "error", "cached"} -> Nat]
    BY <1>2, Ticked, Facts
  <2> QED
    BY <1>3, <2>1, Facts DEF Metrics
<1>5. HolderInv(h)'
  <2>1. HolderInv(h) /\ pc'[h] = "meter" /\ req'[h] = req[h] /\ bill'[h] = bill[h]
    BY <1>1, Facts DEF ProxyInv, GoTo
  <2> QED
    BY <1>1, <2>1 DEF HolderInv, Charging
<1>6. Sums'
  <2>1. Looking' = Looking /\ Counting' = Counting
    BY <1>0, <1>1, Facts, Stays DEF Looking, Counting
  <2>2. Unsettled' = Unsettled - 1
    BY <1>0, <1>1, Facts, Leaves DEF Unsettled, unsettled
  <2>3. Logging' = Logging + 1
    BY <1>0, <1>1, Facts, Enters DEF Logging
  <2>4. /\ Filed' = Filed /\ InHands' = InHands /\ InQueue' = InQueue /\ Dropped' = Dropped
        /\ Streams' = Streams /\ Batches' = Batches /\ unrouted' = unrouted
    BY <1>1, SumsFrame
  <2>5. Hits' = Hits /\ Misses' = Misses
    BY <1>3 DEF Hits, Misses
  <2>6. n \in [{"ok", "error", "cached"} -> Nat] /\ metrics'.requests = [n EXCEPT ![s] = @ + 1]
    BY <1>3, Facts DEF Metrics
  <2>7. CASE s = "ok"
    <3>1. Oks' = Oks + 1 /\ Errors' = Errors /\ Cached' = Cached
      BY <2>6, <2>7 DEF Oks, Errors, Cached
    <3> QED
      BY <1>a, <2>1, <2>2, <2>3, <2>4, <2>5, <3>1 DEF Numbers, Sums
  <2>8. CASE s = "error"
    <3>1. Oks' = Oks /\ Errors' = Errors + 1 /\ Cached' = Cached
      BY <2>6, <2>8 DEF Oks, Errors, Cached
    <3> QED
      BY <1>a, <2>1, <2>2, <2>3, <2>4, <2>5, <3>1 DEF Numbers, Sums
  <2> QED
    BY <1>2, <2>7, <2>8
<1> QED
  BY <1>0, <1>1, <1>4, <1>5, <1>6, Facts, StepOf

LEMMA MeterKeeps ==
    ASSUME ProxyInv, LimitTypeOK', NEW h \in Handlers, Meter(h)
    PROVE  ProxyInv'
<1>a. Numbers /\ Sums
  BY CountsAreNumbers, SumsNow
<1>0. "submit" \in PC
  BY DEF PC
<1>1. /\ pc[h] = "meter" /\ GoTo(h, "submit")
      /\ metrics' = [metrics EXCEPT !.cost = @ + bill[h].cost]
      /\ UNCHANGED <<req, bill, tracker, store, queue, lost, workerVars, passed, unrouted>>
  BY DEF Meter, countVars
<1>2. bill[h].cost \in Nat /\ metrics.cost \in Nat
  BY Facts DEF Bills, Metrics
<1>6. metrics' = [requests |-> metrics.requests, cost |-> metrics.cost + bill[h].cost,
                  hits |-> metrics.hits, misses |-> metrics.misses]
  BY <1>1, Facts DEF Metrics
<1>3. /\ metrics'.hits = metrics.hits /\ metrics'.misses = metrics.misses
      /\ metrics'.requests = metrics.requests /\ metrics' \in Metrics
  <2>1. metrics.cost + bill[h].cost \in Nat
    BY <1>2
  <2> QED
    BY <1>6, <2>1, Facts DEF Metrics
<1>4. HolderInv(h)'
  <2>1. HolderInv(h) /\ pc'[h] = "submit" /\ req'[h] = req[h] /\ bill'[h] = bill[h]
    BY <1>1, Facts DEF ProxyInv, GoTo
  <2> QED
    BY <1>1, <2>1 DEF HolderInv, Charging
<1>5. Sums'
  <2>1. Looking' = Looking /\ Counting' = Counting
    BY <1>0, <1>1, Facts, Stays DEF Looking, Counting
  <2>2. Unsettled' = Unsettled
    BY <1>0, <1>1, Facts, Stays DEF Unsettled, unsettled
  <2>3. Logging' = Logging
    BY <1>0, <1>1, Facts, Stays DEF Logging
  <2>4. /\ Filed' = Filed /\ InHands' = InHands /\ InQueue' = InQueue /\ Dropped' = Dropped
        /\ Streams' = Streams /\ Batches' = Batches /\ unrouted' = unrouted
    BY <1>1, SumsFrame
  <2>5. /\ Hits' = Hits /\ Misses' = Misses
        /\ Oks' = Oks /\ Errors' = Errors /\ Cached' = Cached
    BY <1>3 DEF Hits, Misses, Oks, Errors, Cached
  <2> QED
    BY <1>a, <2>1, <2>2, <2>3, <2>4, <2>5 DEF Sums
<1> QED
  BY <1>0, <1>1, <1>3, <1>4, <1>5, Facts, StepOf

LEMMA EntryTyped ==
    ASSUME ProxyInv, NEW h \in Handlers, pc[h] = "submit", NEW nano \in Nanos
    PROVE  Entry(h, nano) \in EntryType
<1>1. nano \in 0 .. MaxChats
  BY DEF Nanos
<1>2. now \in Time
  BY DEF ProxyInv, TypeOK, LimitTypeOK
<1>3. bill[h].model \in Routed
  BY DEF ProxyInv, HolderInv, Charging
<1>4. bill[h].prompt \in Nat /\ bill[h].completion \in Nat /\ bill[h].cost \in Nat
  BY Facts DEF Bills
<1> QED
  BY <1>1, <1>2, <1>3, <1>4 DEF Entry, EntryType

LEMMA SubmitKeeps ==
    ASSUME ProxyInv, LimitTypeOK', NEW h \in Handlers, NEW nano \in Nanos, Submit(h, nano)
    PROVE  ProxyInv'
<1> DEFINE e == Entry(h, nano)
<1>a. Numbers /\ Sums
  BY CountsAreNumbers, SumsNow
<1>0. "idle" \in PC
  BY DEF PC
<1>1. /\ pc[h] = "submit" /\ GoTo(h, "idle")
      /\ req' = [req EXCEPT ![h] = Nothing] /\ bill' = [bill EXCEPT ![h] = noBill]
      /\ UNCHANGED <<tracker, store, metrics, workerVars, passed, unrouted>>
      /\ \/ queue' = Append(queue, e) /\ lost' = lost
         \/ lost' = Append(lost, e) /\ queue' = queue
  BY DEF Submit, Done, countVars
<1>2. e \in EntryType
  BY <1>1, EntryTyped
<1> HIDE DEF e
<1>3. queue \in Seq(EntryType) /\ lost \in Seq(EntryType)
  BY Facts
<1>4. /\ Append(queue, e) \in Seq(EntryType) /\ Len(Append(queue, e)) = Len(queue) + 1
      /\ Append(lost, e) \in Seq(EntryType) /\ Len(Append(lost, e)) = Len(lost) + 1
  BY <1>2, <1>3, AppendProperties
<1>5. queue' \in Seq(EntryType) /\ lost' \in Seq(EntryType)
  BY <1>1, <1>3, <1>4
<1>6. HolderInv(h)'
  BY <1>1, Facts DEF HolderInv, GoTo, Charging
<1>7. Sums'
  <2>1. Looking' = Looking /\ Counting' = Counting
    BY <1>0, <1>1, Facts, Stays DEF Looking, Counting
  <2>2. Unsettled' = Unsettled
    BY <1>0, <1>1, Facts, Stays DEF Unsettled, unsettled
  <2>3. Logging' = Logging - 1
    BY <1>0, <1>1, Facts, Leaves DEF Logging
  <2>4. /\ Hits' = Hits /\ Misses' = Misses /\ Oks' = Oks /\ Errors' = Errors /\ Cached' = Cached
        /\ Streams' = Streams /\ Batches' = Batches /\ unrouted' = unrouted
    BY <1>1, SumsFrame
  <2>5. Filed' = Filed /\ InHands' = InHands
    BY <1>1 DEF Filed, InHands, Busy, workerVars
  <2>6. \/ InQueue' = InQueue + 1 /\ Dropped' = Dropped
        \/ InQueue' = InQueue /\ Dropped' = Dropped + 1
    BY <1>1, <1>4 DEF InQueue, Dropped
  <2> QED
    BY <1>a, <2>1, <2>2, <2>3, <2>4, <2>5, <2>6 DEF Numbers, Sums
<1> QED
  BY <1>0, <1>1, <1>5, <1>6, <1>7, Facts, StepOf

\* What a worker holds is an entry.
LEMMA WorkerFacts ==
    ASSUME ProxyInv, NEW w \in Workers
    PROVE  /\ step \in [Workers -> {"select", "sqlite", "jsonl"}]
           /\ hand \in [Workers -> EntryType \cup {Nothing}] /\ rows \subseteq EntryType
           /\ step[w] \in {"sqlite", "jsonl"} => hand[w] \in EntryType
           /\ queue \in Seq(EntryType) /\ journal \in Seq(EntryType)
           /\ failed \in [sqlite : Seq(EntryType), jsonl : Seq(EntryType)]
           /\ failed.sqlite \in Seq(EntryType) /\ failed.jsonl \in Seq(EntryType)
BY DEF ProxyInv, TypeOK

\* The workers with an entry, as one of them takes or is done with one.
LEMMA BusyMoves ==
    ASSUME step \in [Workers -> {"select", "sqlite", "jsonl"}], NEW w \in Workers,
           NEW from, NEW to, Advance(w, from, to)
    PROVE  /\ step'[w] = to /\ \A v \in Workers \ {w} : step'[v] = step[v]
           /\ from = "select" /\ to = "sqlite" => InHands' = InHands + 1
           /\ from = "sqlite" /\ to = "jsonl" => InHands' = InHands
           /\ from = "jsonl" /\ to = "select" => InHands' = InHands - 1
<1> DEFINE R == Busy({"sqlite", "jsonl"}) \ {w}
           B == Busy({"sqlite", "jsonl"})
           C == Busy({"sqlite", "jsonl"})'
<1>1. step[w] = from /\ step'[w] = to /\ \A v \in Workers \ {w} : step'[v] = step[v]
  BY DEF Advance
<1>2. /\ B = IF from \in {"sqlite", "jsonl"} THEN R \cup {w} ELSE R
      /\ C = IF to \in {"sqlite", "jsonl"} THEN R \cup {w} ELSE R
      /\ w \notin R
  BY <1>1 DEF Busy
<1>3. IsFiniteSet(R) /\ Cardinality(R) \in Nat
  BY ProxyAssumption, FS_Subset, FS_CardinalityType DEF Busy
<1>4. Cardinality(R \cup {w}) = Cardinality(R) + 1
  BY <1>2, <1>3, FS_AddElement
<1>5. InHands = Cardinality(B) /\ InHands' = Cardinality(C)
  BY DEF InHands
<1> HIDE DEF B, C, R
<1>6. from = "select" /\ to = "sqlite" => B = R /\ C = R \cup {w}
  BY <1>2
<1>7. from = "sqlite" /\ to = "jsonl" => B = R \cup {w} /\ C = R \cup {w}
  BY <1>2
<1>8. from = "jsonl" /\ to = "select" => B = R \cup {w} /\ C = R
  BY <1>2
<1>9. from = "select" /\ to = "sqlite" => InHands' = InHands + 1
  BY <1>3, <1>4, <1>5, <1>6
<1>10. from = "sqlite" /\ to = "jsonl" => InHands' = InHands
  BY <1>5, <1>7
<1>11. from = "jsonl" /\ to = "select" => InHands' = InHands - 1
  <2>1. Cardinality(R) = Cardinality(R \cup {w}) - 1
    BY <1>3, <1>4
  <2> QED
    BY <1>5, <1>8, <2>1
<1> QED
  BY <1>1, <1>9, <1>10, <1>11

\* What is left to show of a step of a worker.
LEMMA WorkOf ==
    ASSUME ProxyInv, TypeOK', UNCHANGED <<pc, req, bill, metrics, lost, passed, unrouted>>,
           Filed' + InHands' + InQueue' = Filed + InHands + InQueue,
           Filed' \in Nat, InHands' \in Nat, InQueue' \in Nat
    PROVE  ProxyInv'
<1>a. Numbers /\ Sums
  BY CountsAreNumbers, SumsNow
<1>1. CountTypes' /\ \A h \in Handlers : HolderInv(h)'
  BY DEF ProxyInv, CountTypes, HolderInv
<1>2. Sums'
  <2>1. /\ Looking' = Looking /\ Counting' = Counting
        /\ Unsettled' = Unsettled /\ Logging' = Logging
    BY DEF Looking, Counting, Unsettled, Logging, At
  <2>2. /\ Hits' = Hits /\ Misses' = Misses /\ Oks' = Oks /\ Errors' = Errors /\ Cached' = Cached
        /\ Streams' = Streams /\ Batches' = Batches /\ unrouted' = unrouted
    BY SumsFrame
  <2>3. Dropped' = Dropped
    BY DEF Dropped
  <2> QED
    BY <1>a, <2>1, <2>2, <2>3 DEF Numbers, Sums
<1> QED
  BY <1>1, <1>2, Counted DEF ProxyInv

\* A worker of the pool: an entry leaves the queue for its hands, and them for
\* the stores.
LEMMA TakeKeeps ==
    ASSUME ProxyInv, LimitTypeOK', NEW w \in Workers, Take(w)
    PROVE  ProxyInv'
<1> DEFINE e == Head(queue)
<1>1. /\ Advance(w, "select", "sqlite") /\ step' = [step EXCEPT ![w] = "sqlite"]
      /\ queue # <<>> /\ queue' = Tail(queue) /\ hand' = [hand EXCEPT ![w] = e]
      /\ UNCHANGED <<pc, req, bill, tracker, store, metrics, journal, lost, failed, rows,
                     passed, unrouted>>
  BY DEF Take, Advance, handlerVars, countVars
<1>2. /\ e \in EntryType /\ Tail(queue) \in Seq(EntryType) /\ Len(Tail(queue)) = Len(queue) - 1
  BY <1>1, WorkerFacts, HeadTailProperties
<1> HIDE DEF e
<1>3. TypeOK'
  <2>1. step' \in [Workers -> {"select", "sqlite", "jsonl"}]
    BY <1>1, WorkerFacts
  <2>2. hand' \in [Workers -> EntryType \cup {Nothing}]
    BY <1>1, <1>2, WorkerFacts
  <2>3. \A v \in Workers : step'[v] # "select" => hand'[v] \in EntryType
    BY <1>1, <1>2, WorkerFacts
  <2> QED
    BY <1>1, <1>2, <2>1, <2>2, <2>3 DEF ProxyInv, TypeOK
<1>4. /\ Filed' + InHands' + InQueue' = Filed + InHands + InQueue
      /\ Filed' \in Nat /\ InHands' \in Nat /\ InQueue' \in Nat
  <2>1. Numbers
    BY CountsAreNumbers
  <2>2. InHands' = InHands + 1
    BY <1>1, WorkerFacts, BusyMoves
  <2>3. Filed' = Filed
    BY <1>1 DEF Filed
  <2>4. InQueue' = InQueue - 1 /\ InQueue' \in Nat
    BY <1>1, <1>2, LenProperties DEF InQueue
  <2> QED
    BY <2>1, <2>2, <2>3, <2>4 DEF Numbers
<1> QED
  BY <1>1, <1>3, <1>4, WorkOf

LEMMA InsertKeeps ==
    ASSUME ProxyInv, LimitTypeOK', NEW w \in Workers, InsertRow(w)
    PROVE  ProxyInv'
<1> DEFINE e == hand[w]
<1>1. /\ Advance(w, "sqlite", "jsonl") /\ step' = [step EXCEPT ![w] = "jsonl"]
      /\ \/ rows' = rows \cup {e} /\ UNCHANGED failed
         \/ failed' = [failed EXCEPT !.sqlite = Append(@, e)] /\ UNCHANGED rows
      /\ UNCHANGED <<pc, req, bill, tracker, store, metrics, queue, hand, journal, lost,
                     passed, unrouted>>
  BY DEF InsertRow, Insert, Advance, handlerVars, countVars
<1>2. step[w] = "sqlite" /\ e \in EntryType
  BY <1>1, WorkerFacts DEF Advance
<1> HIDE DEF e
<1>3. /\ failed' \in [sqlite : Seq(EntryType), jsonl : Seq(EntryType)]
      /\ failed'.jsonl = failed.jsonl
  <2>1. Append(failed.sqlite, e) \in Seq(EntryType)
    BY <1>2, WorkerFacts, AppendProperties
  <2> QED
    BY <1>1, <2>1, WorkerFacts
<1>4. TypeOK'
  <2>1. step' \in [Workers -> {"select", "sqlite", "jsonl"}]
    BY <1>1, WorkerFacts
  <2>2. \A v \in Workers : step'[v] # "select" => hand'[v] \in EntryType
    BY <1>1, <1>2, WorkerFacts DEF e
  <2>3. rows' \subseteq EntryType
    BY <1>1, <1>2, WorkerFacts
  <2> QED
    BY <1>1, <1>3, <2>1, <2>2, <2>3 DEF ProxyInv, TypeOK
<1>5. /\ Filed' + InHands' + InQueue' = Filed + InHands + InQueue
      /\ Filed' \in Nat /\ InHands' \in Nat /\ InQueue' \in Nat
  <2>1. Numbers
    BY CountsAreNumbers
  <2>2. InHands' = InHands
    BY <1>1, WorkerFacts, BusyMoves
  <2>3. Filed' = Filed /\ InQueue' = InQueue
    BY <1>1, <1>3 DEF Filed, InQueue
  <2> QED
    BY <2>1, <2>2, <2>3 DEF Numbers
<1> QED
  BY <1>1, <1>4, <1>5, WorkOf

LEMMA AppendKeeps ==
    ASSUME ProxyInv, LimitTypeOK', NEW w \in Workers, AppendLine(w)
    PROVE  ProxyInv'
<1> DEFINE e == hand[w]
<1>1. /\ Advance(w, "jsonl", "select") /\ step' = [step EXCEPT ![w] = "select"]
      /\ hand' = [hand EXCEPT ![w] = Nothing]
      /\ \/ journal' = Append(journal, e) /\ UNCHANGED failed
         \/ failed' = [failed EXCEPT !.jsonl = Append(@, e)] /\ UNCHANGED journal
      /\ UNCHANGED <<pc, req, bill, tracker, store, metrics, queue, lost, rows, passed, unrouted>>
  BY DEF AppendLine, Advance, handlerVars, countVars
<1>2. step[w] = "jsonl" /\ e \in EntryType
  BY <1>1, WorkerFacts DEF Advance
<1> HIDE DEF e
<1>3. /\ Append(journal, e) \in Seq(EntryType) /\ Len(Append(journal, e)) = Len(journal) + 1
      /\ Append(failed.jsonl, e) \in Seq(EntryType)
      /\ Len(Append(failed.jsonl, e)) = Len(failed.jsonl) + 1
  BY <1>2, WorkerFacts, AppendProperties
<1>4. TypeOK'
  <2>1. step' \in [Workers -> {"select", "sqlite", "jsonl"}]
    BY <1>1, WorkerFacts
  <2>2. hand' \in [Workers -> EntryType \cup {Nothing}]
    BY <1>1, WorkerFacts
  <2>3. \A v \in Workers : step'[v] # "select" => hand'[v] \in EntryType
    BY <1>1, WorkerFacts
  <2>4. failed' \in [sqlite : Seq(EntryType), jsonl : Seq(EntryType)]
    BY <1>1, <1>3, WorkerFacts
  <2>5. journal' \in Seq(EntryType)
    BY <1>1, <1>3, WorkerFacts
  <2> QED
    BY <1>1, <2>1, <2>2, <2>3, <2>4, <2>5 DEF ProxyInv, TypeOK
<1>5. /\ Filed' + InHands' + InQueue' = Filed + InHands + InQueue
      /\ Filed' \in Nat /\ InHands' \in Nat /\ InQueue' \in Nat
  <2>1. Numbers
    BY CountsAreNumbers
  <2>2. InHands' = InHands - 1 /\ InHands' \in Nat
    <3>1. InHands' = InHands - 1
      BY <1>1, WorkerFacts, BusyMoves
    <3>2. IsFiniteSet(Busy({"sqlite", "jsonl"})')
      BY ProxyAssumption, FS_Subset DEF Busy
    <3> QED
      BY <3>1, <3>2, FS_CardinalityType DEF InHands
  <2>3. InQueue' = InQueue
    BY <1>1 DEF InQueue
  <2>4. Filed' = Filed + 1
    <3> DEFINE inFile == Len(journal)
               refused == Len(failed.jsonl)
    <3>1. inFile \in Nat /\ refused \in Nat
      BY WorkerFacts, LenProperties
    <3>2. Filed = inFile + refused /\ Filed' = inFile' + refused'
      BY DEF Filed
    <3>3. CASE journal' = Append(journal, e) /\ UNCHANGED failed
      <4>1. inFile' = inFile + 1 /\ refused' = refused
        BY <1>3, <3>3
      <4> HIDE DEF inFile, refused
      <4> QED
        BY <3>1, <3>2, <4>1
    <3>4. CASE failed' = [failed EXCEPT !.jsonl = Append(@, e)] /\ UNCHANGED journal
      <4>1. failed'.jsonl = Append(failed.jsonl, e)
        BY <3>4, WorkerFacts
      <4>2. inFile' = inFile /\ refused' = refused + 1
        BY <1>3, <3>4, <4>1
      <4> HIDE DEF inFile, refused
      <4> QED
        BY <3>1, <3>2, <4>2
    <3> QED
      BY <1>1, <3>3, <3>4
  <2> QED
    BY <2>1, <2>2, <2>3, <2>4 DEF Numbers
<1> QED
  BY <1>1, <1>4, <1>5, WorkOf

\* What only the limiter, the clock and the count of arrivals take note of.
LEMMA Quiet ==
    ASSUME ProxyInv, LimitTypeOK',
           UNCHANGED <<pc, req, bill, tracker, store, metrics, queue, lost, workerVars,
                       passed, unrouted>>
    PROVE  ProxyInv'
<1>0. UNCHANGED <<step, hand, journal, failed, rows>>
  BY DEF workerVars
<1>1. TypeOK' /\ CountTypes' /\ \A h \in Handlers : HolderInv(h)'
  BY <1>0 DEF ProxyInv, TypeOK, CountTypes, HolderInv
<1>2. CountsReconcile'
  BY <1>0 DEF ProxyInv, CountsReconcile, At, Busy
<1> QED
  BY <1>1, <1>2 DEF ProxyInv

LEMMA ArrivalKeeps ==
    ASSUME ProxyInv, LimitTypeOK', NEW h \in Handlers, NEW r \in Requests,
           TurnAway(h, r) \/ Throttle(h, r) \/ Serve(h, r) \/ Begin(h, r)
    PROVE  ProxyInv'
<1>1. CASE TurnAway(h, r) \/ Throttle(h, r) \/ Serve(h, r)
  <2>1. UNCHANGED <<pc, req, bill, tracker, store, metrics, queue, lost, workerVars,
                    passed, unrouted>>
    BY <1>1 DEF TurnAway, Throttle, Serve, Arrives, handlerVars, sinkVars
  <2> QED
    BY <2>1, Quiet
<1>2. CASE Begin(h, r)
  <2>0. "gate" \in PC
    BY DEF PC
  <2>a. Numbers /\ Sums
    BY CountsAreNumbers, SumsNow
  <2>1. /\ pc[h] = "idle" /\ GoTo(h, "gate") /\ req' = [req EXCEPT ![h] = r]
        /\ UNCHANGED <<bill, tracker, store, metrics, queue, lost, workerVars, passed, unrouted>>
    BY <1>2 DEF Begin, Arrives, sinkVars
  <2>2. HolderInv(h)'
    BY <2>1, Facts DEF HolderInv, GoTo, Charging
  <2>3. Sums'
    <3>1. Looking' = Looking /\ Counting' = Counting /\ Logging' = Logging
      BY <2>0, <2>1, Facts, Elsewhere
    <3>2. Unsettled' = Unsettled
      BY <2>0, <2>1, Facts, Stays DEF Unsettled, unsettled
    <3> QED
      BY <2>a, <2>1, <3>1, <3>2, SumsFrame DEF Sums
  <2> QED
    BY <2>0, <2>1, <2>2, <2>3, Facts, StepOf
<1> QED
  BY <1>1, <1>2
-----------------------------------------------------------------------------
LEMMA InitProxy == Init => ProxyInv
<1> SUFFICES ASSUME Init PROVE ProxyInv
  OBVIOUS
<1>1. TypeOK
  <2>1. LimitTypeOK
    BY InitIInv DEF Init, LimitInv
  <2>2. tracker \in Books!States
    BY DEF Init, Books!Fresh, Books!never, Books!States, Books!Period
  <2>3. pc \in [Handlers -> PC]
    BY DEF Init, PC
  <2>4. /\ queue \in Seq(EntryType) /\ journal \in Seq(EntryType) /\ lost \in Seq(EntryType)
        /\ failed \in [sqlite : Seq(EntryType), jsonl : Seq(EntryType)]
    BY EmptySeq DEF Init
  <2> QED
    BY <2>1, <2>2, <2>3, <2>4 DEF Init, TypeOK
<1>2. CountTypes
  BY Facts DEF Init, CountTypes, Bills, noBill, Metrics, zeroMetrics
<1>3. \A h \in Handlers : HolderInv(h)
  BY DEF Init, HolderInv, Charging
<1>4. CountsReconcile
  <2>1. \A places : "idle" \notin places => At(places) = 0
    <3> SUFFICES ASSUME NEW places, "idle" \notin places PROVE At(places) = 0
      OBVIOUS
    <3>1. {h \in Handlers : pc[h] \in places} = {}
      BY DEF Init
    <3> QED
      BY <3>1, FS_EmptySet DEF At
  <2>2. Looking = 0 /\ Counting = 0 /\ Unsettled = 0 /\ Logging = 0
    BY <2>1 DEF Looking, Counting, Unsettled, unsettled, Logging
  <2>3. /\ Hits = 0 /\ Misses = 0 /\ Oks = 0 /\ Errors = 0 /\ Cached = 0
        /\ InQueue = 0 /\ Dropped = 0 /\ unrouted = 0
    BY EmptySeq DEF Init, zeroMetrics, Hits, Misses, Oks, Errors, Cached, InQueue, Dropped
  <2>6. Filed = 0
    BY EmptySeq DEF Init, Filed
  <2>7. InHands = 0
    <3>1. Busy({"sqlite", "jsonl"}) = {}
      BY DEF Init, Busy
    <3> QED
      BY <3>1, FS_EmptySet DEF InHands
  <2>4. Streams = 0 /\ Batches = 0
    BY DEF Init, Streams, Batches
  <2>5. Sums
    BY <2>2, <2>3, <2>4, <2>6, <2>7 DEF Sums
  <2> QED
    BY <2>5, Counted
<1> QED
  BY <1>1, <1>2, <1>3, <1>4 DEF ProxyInv

\* Every step of every handler, of the pool and of the clock keeps the invariant.
LEMMA NextProxy == ProxyInv /\ LimitTypeOK' /\ [Next]_vars => ProxyInv'
<1> SUFFICES ASSUME ProxyInv, LimitTypeOK', [Next]_vars PROVE ProxyInv'
  OBVIOUS
<1>1. CASE PassTime
  BY <1>1, Quiet DEF PassTime, handlerVars, sinkVars, countVars
<1>2. ASSUME NEW w \in Workers, Work(w) PROVE ProxyInv'
  BY <1>2, TakeKeeps, InsertKeeps, AppendKeeps DEF Work
<1>3. ASSUME NEW h \in Handlers, Handle(h) PROVE ProxyInv'
  <2>1. ASSUME NEW r \in Requests,
               TurnAway(h, r) \/ Throttle(h, r) \/ Serve(h, r) \/ Begin(h, r)
        PROVE  ProxyInv'
    BY <2>1, ArrivalKeeps
  <2>2. CASE Gate(h) \/ OverBudget(h)
    BY <2>2, GateKeeps
  <2>3. CASE Hit(h) \/ Miss(h)
    BY <2>3, LookupKeeps
  <2>9. CASE CountHit(h) \/ ObserveHit(h) \/ CountMiss(h)
    BY <2>9, CountHitKeeps, ObserveHitKeeps, CountMissKeeps
  <2>4. CASE RouteFails(h) \/ \E m \in Routed : Route(h, m)
    BY <2>4, RouteKeeps
  <2>5. CASE Fail(h) \/ StreamEnds(h) \/ \E usage \in Usages : Complete(h, usage)
    BY <2>5, AnswerKeeps
  <2>6. ASSUME NEW cost \in Estimate(h), Charge(h, cost) PROVE ProxyInv'
    BY <2>6, ChargeKeeps
  <2>7. CASE Observe(h) \/ Meter(h)
    BY <2>7, ObserveKeeps, MeterKeeps
  <2>8. ASSUME NEW nano \in Nanos, Submit(h, nano) PROVE ProxyInv'
    BY <2>8, SubmitKeeps
  <2> QED
    BY <1>3, <2>1, <2>2, <2>3, <2>4, <2>5, <2>6, <2>7, <2>8, <2>9 DEF Handle
<1>4. CASE UNCHANGED vars
  <2>1. UNCHANGED <<pc, req, bill, tracker, store, metrics, queue, lost, workerVars,
                    passed, unrouted>>
    BY <1>4 DEF vars, handlerVars, sinkVars, countVars
  <2> QED
    BY <2>1, Quiet
<1> QED
  BY <1>1, <1>2, <1>3, <1>4 DEF Next

\* The inductive invariant holds in every state of the proxy.
THEOREM ProxyInvariance == Spec => []ProxyInv
<1>1. Spec => []LimitTypeOK
  BY ImplementsLimiter, TypeCorrect, PTL
<1> QED
  BY <1>1, InitProxy, NextProxy, PTL DEF Spec

\* Type correctness of the proxy.
THEOREM ProxyTypeCorrect == Spec => []TypeOK
<1>1. ProxyInv => TypeOK
  BY DEF ProxyInv
<1> QED
  BY <1>1, ProxyInvariance, PTL

\* However many handlers run and wherever each of them is, the gate's count, the
\* metrics and the log differ by the handlers on their way and nothing else.
THEOREM CountsReconcileHolds == Spec => []CountsReconcile
<1>1. ProxyInv => CountsReconcile
  BY DEF ProxyInv
<1> QED
  BY <1>1, ProxyInvariance, PTL
-----------------------------------------------------------------------------
(* The proxy implements the specification of the tracker's handlers: a pass  *)
(* of the gate is its Admit, a 402 its Refuse, a charge its Record and every *)
(* other way out its FinishFree; the rest leaves tracker and handlers alone. *)

flying == {"lookup", "hit", "cached", "miss", "route", "call", "charge"}

\* Who is in flight after a move.
LEMMA FlightMoves ==
    ASSUME pc \in [Handlers -> PC], NEW h \in Handlers, NEW l, GoTo(h, l)
    PROVE  /\ pc[h] \in flying => h \in InFlight
           /\ pc[h] \notin flying => h \notin InFlight
           /\ pc[h] \notin flying /\ l \in flying => InFlight' = InFlight \cup {h}
           /\ pc[h] \in flying /\ l \notin flying => InFlight' = InFlight \ {h}
           /\ (pc[h] \in flying <=> l \in flying) => InFlight' = InFlight
<1>1. pc'[h] = l /\ \A g \in Handlers \ {h} : pc'[g] = pc[g]
  BY DEF GoTo
<1>2. InFlight = {g \in Handlers : pc[g] \in flying} /\ InFlight' = {g \in Handlers : pc'[g] \in flying}
  BY DEF InFlight, flying
<1> HIDE DEF flying
<1> QED
  BY <1>1, <1>2

\* Neither the tracker nor the handlers in flight: a stutter of the books.
LEMMA BooksFrame ==
    ASSUME UNCHANGED tracker, UNCHANGED InFlight
    PROVE  UNCHANGED Books!vars
BY DEF Books!vars

\* There are no thresholds here, hence no alerts, and one day and month.
LEMMA OneDay ==
    /\ Books!AlertKeys = {} /\ Books!RolledFired = {}
    /\ Books!Day = {0} /\ Books!Month(0) = 0
BY DEF Books!AlertKeys, Books!RolledFired, Books!Day, Books!Month

LEMMA BooksInit == Init => Books!Init
<1> SUFFICES ASSUME Init PROVE Books!Init
  OBVIOUS
<1>1. InFlight = {}
  BY DEF Init, InFlight
<1>2. tracker = Books!Fresh /\ tracker.total = 0
  BY DEF Init, Books!Fresh
<1>3. Books!NoneYet = [d \in {0} |-> 0]
  BY OneDay DEF Books!NoneYet
<1>4. [k \in {} |-> 0] = [k \in Books!AlertKeys |-> Books!NoneYet]
  BY OneDay
<1>5. Books!absent = [kind |-> "absent", state |->
                        [day |-> -1, month |-> -1, daily |-> 0, monthly |-> 0, total |-> 0]]
  BY DEF Books!absent, Books!Fresh, Books!never
<1> QED
  BY <1>1, <1>2, <1>3, <1>4, <1>5 DEF Books!Init

\* The gate's answers.
LEMMA GateAdmits ==
    ASSUME ProxyInv, NEW h \in Handlers, Gate(h)
    PROVE  Books!Admit(h)
<1>1. /\ pc[h] = "gate" /\ GoTo(h, IF req[h].stream THEN "route" ELSE "lookup")
      /\ tracker' = Books!RolledState /\ Books!MaySpend(Books!RolledState)
  BY DEF Gate
<1>2. h \notin InFlight /\ InFlight' = InFlight \cup {h}
  BY <1>1, Facts, FlightMoves DEF flying
<1>3. tracker'.total = tracker.total
  BY <1>1, Facts, BooksTypes
<1> QED
  BY <1>1, <1>2, <1>3, OneDay DEF Books!Admit

LEMMA GateRefuses ==
    ASSUME ProxyInv, NEW h \in Handlers, OverBudget(h)
    PROVE  Books!Refuse(h)
<1>1. /\ pc[h] = "gate" /\ GoTo(h, "idle")
      /\ tracker' = Books!RolledState /\ ~Books!MaySpend(Books!RolledState)
  BY DEF OverBudget, Done
<1>2. h \notin InFlight /\ InFlight' = InFlight
  <2>1. pc[h] \notin flying /\ "idle" \notin flying
    BY <1>1 DEF flying
  <2> QED
    BY <1>1, <2>1, Facts, FlightMoves
<1>3. tracker'.total = tracker.total
  BY <1>1, Facts, BooksTypes
<1> QED
  BY <1>1, <1>2, <1>3, OneDay DEF Books!Refuse

\* A way out that costs nothing.
LEMMA LeavesFree ==
    ASSUME ProxyInv, NEW h \in Handlers, NEW l, pc[h] \in flying, l \notin flying, GoTo(h, l),
           UNCHANGED tracker
    PROVE  Books!FinishFree(h)
<1>1. h \in InFlight /\ InFlight' = InFlight \ {h}
  BY Facts, FlightMoves
<1> QED
  BY <1>1 DEF Books!FinishFree

LEMMA ChargeRecords ==
    ASSUME ProxyInv, NEW h \in Handlers, NEW cost \in Estimate(h), Charge(h, cost)
    PROVE  Books!FinishFree(h) \/ \E c \in 1 .. MaxCost : Books!Record(h, c)
<1> DEFINE new == Books!Charged(Books!RolledState, cost)
           Ledger(s) == [daily |-> [d \in {0} |-> s.total], monthly |-> [d \in {0} |-> s.total],
                         total |-> s.total]
<1>1. /\ pc[h] = "charge" /\ GoTo(h, "observe")
      /\ tracker' = IF cost > 0 THEN new ELSE tracker
  BY DEF Charge
<1>2. MaxCost \in Nat /\ cost \in 0 .. MaxCost
  <2>1. MaxCost \in Nat
    BY ProxyAssumption
  <2> QED
    BY <1>1, <2>1, EstimateIsBounded DEF ProxyInv
<1>3. pc[h] \in flying /\ "observe" \notin flying
  BY <1>1 DEF flying
<1>4. CASE cost > 0
  <2>1. cost \in 1 .. MaxCost /\ cost \in Nat
    BY <1>2, <1>4
  <2>2. h \in InFlight /\ InFlight' = InFlight \ {h}
    BY <1>1, <1>3, Facts, FlightMoves
  <2>3. tracker' = new /\ new.total = tracker.total + cost /\ tracker.total \in Nat
    BY <1>1, <1>4, <2>1, Facts, BooksTypes DEF Books!States
  <2> HIDE DEF new
  <2>4. Ledger(new) = [Ledger(tracker) EXCEPT !.daily[0] = @ + cost, !.monthly[0] = @ + cost,
                                              !.total = @ + cost]
    <3>1. [d \in {0} |-> new.total] = [[d \in {0} |-> tracker.total] EXCEPT ![0] = @ + cost]
      BY <2>3
    <3> DEFINE R == Ledger(tracker)
               N == [R EXCEPT !.daily[0] = @ + cost, !.monthly[0] = @ + cost, !.total = @ + cost]
    <3>2. /\ R \in [daily : [{0} -> Nat], monthly : [{0} -> Nat], total : Nat]
          /\ R.daily = [d \in {0} |-> tracker.total] /\ R.monthly = R.daily /\ R.total = tracker.total
      BY <2>3
    <3> HIDE DEF R
    <3>3. /\ N.daily = [R.daily EXCEPT ![0] = @ + cost]
          /\ N.monthly = [R.monthly EXCEPT ![0] = @ + cost]
          /\ N.total = R.total + cost
      BY <3>2
    <3>3a. N \in [daily : [{0} -> Nat], monthly : [{0} -> Nat], total : Nat]
      <4>1. [R.daily EXCEPT ![0] = @ + cost] \in [{0} -> Nat] /\ R.total + cost \in Nat
        BY <2>1, <3>2
      <4> QED
        BY <3>2, <3>3, <4>1
    <3> HIDE DEF N
    <3>4. N = [daily |-> N.daily, monthly |-> N.monthly, total |-> N.total]
      BY <3>3a
    <3> QED
      BY <2>3, <3>1, <3>2, <3>3, <3>4 DEF N, R
  <2>5. {k \in Books!AlertKeys \ Books!RolledFired : Books!Crossed(new, k)} = {}
    BY OneDay
  <2>6. Books!Record(h, cost)
    BY <1>4, <2>2, <2>3, <2>4, <2>5, OneDay DEF Books!Record, new
  <2> QED
    BY <2>1, <2>6
<1>5. CASE ~(cost > 0)
  BY <1>1, <1>3, <1>5, LeavesFree
<1> QED
  BY <1>4, <1>5

\* A step of a handler, seen from the books.
LEMMA BooksStep ==
    ASSUME ProxyInv, NEW h \in Handlers, Handle(h)
    PROVE  [Books!Next]_(Books!vars)
<1> DEFINE Silent == UNCHANGED tracker /\ UNCHANGED InFlight
<1>0. Silent => [Books!Next]_(Books!vars)
  BY BooksFrame
<1>1. ASSUME NEW r \in Requests,
             TurnAway(h, r) \/ Throttle(h, r) \/ Serve(h, r) \/ Begin(h, r)
      PROVE  Silent
  <2>1. CASE TurnAway(h, r) \/ Throttle(h, r) \/ Serve(h, r)
    BY <2>1 DEF TurnAway, Throttle, Serve, Arrives, handlerVars, InFlight
  <2>2. CASE Begin(h, r)
    <3>1. pc[h] = "idle" /\ GoTo(h, "gate") /\ UNCHANGED tracker
      BY <2>2 DEF Begin, Arrives
    <3>2. pc[h] \notin flying /\ "gate" \notin flying
      BY <3>1 DEF flying
    <3> QED
      BY <3>1, <3>2, Facts, FlightMoves
  <2> QED
    BY <1>1, <2>1, <2>2
<1>2. Gate(h) => Books!Admit(h)
  BY GateAdmits
<1>3. OverBudget(h) => Books!Refuse(h)
  BY GateRefuses
<1>4. Hit(h) \/ CountHit(h) \/ Miss(h) \/ CountMiss(h) => Silent
  <2> SUFFICES ASSUME Hit(h) \/ CountHit(h) \/ Miss(h) \/ CountMiss(h) PROVE Silent
    OBVIOUS
  <2>1. /\ pc[h] \in {"lookup", "hit", "miss"} /\ UNCHANGED tracker
        /\ \E l \in {"hit", "cached", "miss", "route"} : GoTo(h, l)
    BY DEF Hit, CountHit, Miss, CountMiss
  <2>2. pc[h] \in flying /\ {"hit", "cached", "miss", "route"} \subseteq flying
    BY <2>1 DEF flying
  <2> QED
    BY <2>1, <2>2, Facts, FlightMoves
<1>5. ObserveHit(h) \/ RouteFails(h) => Books!FinishFree(h)
  <2> SUFFICES ASSUME ObserveHit(h) \/ RouteFails(h) PROVE Books!FinishFree(h)
    OBVIOUS
  <2>1. pc[h] \in {"cached", "route"} /\ GoTo(h, "idle") /\ UNCHANGED tracker
    BY DEF ObserveHit, RouteFails, Done
  <2>2. pc[h] \in flying /\ "idle" \notin flying
    BY <2>1 DEF flying
  <2> QED
    BY <2>1, <2>2, LeavesFree
<1>6. ASSUME NEW m \in Routed, Route(h, m) PROVE Silent
  <2>1. pc[h] = "route" /\ GoTo(h, "call") /\ UNCHANGED tracker
    BY <1>6 DEF Route
  <2>2. pc[h] \in flying /\ "call" \in flying
    BY <2>1 DEF flying
  <2> QED
    BY <2>1, <2>2, Facts, FlightMoves
<1>7. Fail(h) \/ StreamEnds(h) \/ (\E usage \in Usages : Complete(h, usage)) => Silent
  <2> SUFFICES ASSUME Fail(h) \/ StreamEnds(h) \/ (\E usage \in Usages : Complete(h, usage))
               PROVE  Silent
    OBVIOUS
  <2>1. pc[h] = "call" /\ GoTo(h, "charge") /\ UNCHANGED tracker
    BY DEF Fail, StreamEnds, Complete, Ends
  <2>2. pc[h] \in flying /\ "charge" \in flying
    BY <2>1 DEF flying
  <2> QED
    BY <2>1, <2>2, Facts, FlightMoves
<1>8. ASSUME NEW cost \in Estimate(h), Charge(h, cost)
      PROVE  Books!FinishFree(h) \/ \E c \in 1 .. MaxCost : Books!Record(h, c)
  BY <1>8, ChargeRecords
<1>9. Observe(h) \/ Meter(h) \/ (\E nano \in Nanos : Submit(h, nano)) => Silent
  <2> SUFFICES ASSUME Observe(h) \/ Meter(h) \/ \E nano \in Nanos : Submit(h, nano)
               PROVE  Silent
    OBVIOUS
  <2>1. /\ pc[h] \in {"observe", "meter", "submit"} /\ UNCHANGED tracker
        /\ \E l \in {"meter", "submit", "idle"} : GoTo(h, l)
    BY DEF Observe, Meter, Submit, Done
  <2>2. pc[h] \notin flying /\ \A l \in {"meter", "submit", "idle"} : l \notin flying
    BY <2>1 DEF flying
  <2> QED
    BY <2>1, <2>2, Facts, FlightMoves
<1>10. Books!Admit(h) \/ Books!Refuse(h) \/ Books!FinishFree(h)
         \/ (\E c \in 1 .. MaxCost : Books!Record(h, c)) => Books!Next
  BY DEF Books!Next
<1> HIDE DEF Silent
<1> QED
  BY <1>0, <1>1, <1>2, <1>3, <1>4, <1>5, <1>6, <1>7, <1>8, <1>9, <1>10 DEF Handle

\* The proxy keeps the books as the module Budget says its handlers do: no
\* request is routed that the gate did not admit, and none settles twice.
THEOREM KeepsBooksHolds == Spec => KeepsBooks
<1>1. ProxyInv /\ [Next]_vars => [Books!Next]_(Books!vars)
  <2> SUFFICES ASSUME ProxyInv, [Next]_vars PROVE [Books!Next]_(Books!vars)
    OBVIOUS
  <2>1. CASE PassTime \/ (\E w \in Workers : Work(w)) \/ UNCHANGED vars
    <3>1. UNCHANGED tracker /\ UNCHANGED InFlight
      BY <2>1 DEF PassTime, Work, Take, InsertRow, AppendLine, handlerVars, vars, InFlight
    <3> QED
      BY <3>1, BooksFrame
  <2>2. ASSUME NEW h \in Handlers, Handle(h) PROVE [Books!Next]_(Books!vars)
    BY <2>2, BooksStep
  <2> QED
    BY <2>1, <2>2 DEF Next
<1> QED
  BY <1>1, ProxyInvariance, BooksInit, PTL DEF Spec, KeepsBooks, Books!Spec
-----------------------------------------------------------------------------
(* The money. What a list of entries costs, and what handlers hold.          *)

LEMMA SumOfList ==
    ASSUME NEW s \in Seq(EntryType)
    PROVE  /\ Sum(s) \in Nat
           /\ \A e \in EntryType : Sum(Append(s, e)) = Sum(s) + e.cost
           /\ s # <<>> => Sum(s) = Head(s).cost + Sum(Tail(s))
<1> DEFINE l == Len(s)
           D == 1 .. l
           f == [n \in D |-> s[n].cost]
<1>1. l \in Nat /\ DOMAIN s = D /\ \A n \in D : s[n] \in EntryType
  BY LenProperties
<1>2. \A e \in EntryType : e.cost \in Nat
  BY DEF EntryType
<1>3. \A n \in D : f[n] \in Nat
  BY <1>1, <1>2
<1>4. Sum(s) = SumFunctionOnSet(f, D)
  BY <1>1 DEF Sum, SumFunction
<1>5. \A k \in Nat : IsFiniteSet(1 .. k)
  BY FS_Interval
<1>6. IsFiniteSet(D)
  BY <1>1, <1>5
<1> HIDE DEF f
<1>7. Sum(s) \in Nat
  BY <1>3, <1>4, <1>6, SumTyped
<1>8. ASSUME NEW e \in EntryType PROVE Sum(Append(s, e)) = Sum(s) + e.cost
  <2> DEFINE t == Append(s, e)
             E == 1 .. l + 1
             g == [n \in E |-> t[n].cost]
  <2>1. /\ DOMAIN t = E /\ t[l + 1] = e /\ \A n \in D : t[n] = s[n]
    BY <1>1, AppendProperties
  <2>2. Sum(t) = SumFunctionOnSet(g, E)
    BY <2>1 DEF Sum, SumFunction
  <2>3. /\ IsFiniteSet(E) /\ l + 1 \in E /\ E \ {l + 1} = D
    <3>1. l + 1 \in Nat
      BY <1>1
    <3> QED BY <1>1, <1>5, <3>1
  <2>4. g[l + 1] = e.cost /\ \A n \in D : g[n] = f[n]
    BY <1>1, <2>1, <2>3 DEF f
  <2>5. \A n \in E : g[n] \in Int
    BY <1>2, <1>3, <2>3, <2>4
  <2> HIDE DEF g, E, t, D
  <2>6. SumFunctionOnSet(g, E) = g[l + 1] + SumFunctionOnSet(g, D)
    BY <2>3, <2>5, SumSplits
  <2>7. SumFunctionOnSet(g, D) = SumFunctionOnSet(f, D)
    BY <1>6, <2>4, SumSame
  <2>8. Sum(t) = e.cost + Sum(s) /\ e.cost \in Nat
    BY <1>2, <1>4, <2>2, <2>4, <2>6, <2>7
  <2>9. Sum(t) = Sum(s) + e.cost
    BY <1>7, <2>8
  <2> QED BY <2>9 DEF t
<1>9. ASSUME s # <<>> PROVE Sum(s) = Head(s).cost + Sum(Tail(s))
  <2> DEFINE t == Tail(s)
             E == 1 .. l - 1
             R == D \ {1}
             g == [n \in E |-> t[n].cost]
             b == [n \in E |-> n + 1]
  <2>1. /\ l \in Nat \ {0} /\ Len(t) = l - 1 /\ t \in Seq(EntryType)
        /\ \A n \in E : t[n] = s[n + 1]
    BY <1>1, <1>9, HeadTailProperties
  <2>2. DOMAIN t = E /\ IsFiniteSet(E)
    <3>1. l - 1 \in Nat /\ DOMAIN t = 1 .. Len(t)
      BY <2>1, LenProperties
    <3> QED BY <1>5, <2>1, <3>1
  <2>3. Sum(t) = SumFunctionOnSet(g, E)
    BY <2>2 DEF Sum, SumFunction
  <2>4. b \in Bijection(E, R)
    <3>1. b \in [E -> R] /\ \A m, n \in E : b[m] = b[n] => m = n
      BY <1>1, <2>1
    <3>2. \A n \in R : n - 1 \in E /\ b[n - 1] = n
      BY <1>1, <2>1
    <3> HIDE DEF b, E, R
    <3> QED BY <3>1, <3>2 DEF Bijection, Injection, Surjection, IsInjective
  <2>5. \A n \in E : g[n] = f[b[n]]
    <3>1. \A n \in E : n + 1 \in D
      BY <1>1, <2>1
    <3> QED BY <2>1, <3>1 DEF f
  <2>6. (\A n \in R : f[n] \in Int) /\ (\A n \in D : f[n] \in Int) /\ 1 \in D
    BY <1>1, <1>3, <2>1
  <2> HIDE DEF b, g, E, D
  <2>7. SumFunctionOnSet(g, E) = SumFunctionOnSet(f, R)
    <3> HIDE DEF R
    <3> QED BY <2>2, <2>4, <2>5, <2>6, SumRenamed
  <2>8. SumFunctionOnSet(f, D) = f[1] + SumFunctionOnSet(f, R)
    BY <1>6, <2>6, SumSplits
  <2>9. f[1] = Head(s).cost
    BY <1>9, <2>6 DEF f
  <2> QED BY <1>4, <2>3, <2>7, <2>8, <2>9
<1> QED BY <1>7, <1>8, <1>9

\* One handler moves, and its bill may change: what is held at some labels
\* changes by what the handler takes away from them and what it brings.
LEMMA HeldMoves ==
    ASSUME pc \in [Handlers -> PC], bill \in [Handlers -> Bills], bill' \in [Handlers -> Bills],
           NEW h \in Handlers, NEW l \in PC, GoTo(h, l),
           \A g \in Handlers \ {h} : bill'[g] = bill[g], NEW places
    PROVE  /\ Held(places) \in Nat /\ Held(places)' \in Nat
           /\ bill[h].cost \in Nat /\ bill'[h].cost \in Nat
           /\ Held(places)' + (IF pc[h] \in places THEN bill[h].cost ELSE 0)
                = Held(places) + (IF l \in places THEN bill'[h].cost ELSE 0)
<1> DEFINE S == {g \in Handlers : pc[g] \in places}
           T == {g \in Handlers : pc'[g] \in places}
           R == S \ {h}
           c == [g \in Handlers |-> bill[g].cost]
           d == [g \in Handlers |-> bill'[g].cost]
           f == [g \in S |-> bill[g].cost]
           e == [g \in T |-> bill'[g].cost]
           rest == SumFunctionOnSet(c, R)
<1>1. pc'[h] = l /\ \A g \in Handlers \ {h} : pc'[g] = pc[g]
  BY DEF GoTo
<1>2. /\ S = IF pc[h] \in places THEN R \cup {h} ELSE R
      /\ T = IF l \in places THEN R \cup {h} ELSE R
      /\ h \notin R /\ S \in SUBSET Handlers /\ T \in SUBSET Handlers /\ R \in SUBSET Handlers
  BY <1>1
<1>3. \A U \in SUBSET Handlers : IsFiniteSet(U)
  BY ProxyAssumption, FS_Subset
<1>4. \A b \in Bills : b.cost \in Nat
  BY DEF Bills
<1>5. (\A g \in Handlers : c[g] \in Nat /\ d[g] \in Nat) /\ \A g \in R : c[g] = d[g]
  BY <1>2, <1>4
<1>6. Held(places) = SumFunctionOnSet(f, S) /\ Held(places)' = SumFunctionOnSet(e, T)
  BY DEF Held, SumFunction
<1>7. (\A g \in S : f[g] = c[g]) /\ \A g \in T : e[g] = d[g]
  OBVIOUS
<1>8. c[h] = bill[h].cost /\ d[h] = bill'[h].cost
  OBVIOUS
<1> HIDE DEF S, T, R, c, d, f, e
<1>9. Held(places) = SumFunctionOnSet(c, S)
  BY <1>2, <1>3, <1>6, <1>7, SumSame
<1>10. Held(places)' = SumFunctionOnSet(d, T)
  BY <1>2, <1>3, <1>6, <1>7, SumSame
<1>11. SumFunctionOnSet(d, R) = rest
  BY <1>2, <1>3, <1>5, SumSame
<1>12. rest \in Nat
  <2>1. \A g \in R : c[g] \in Nat
    BY <1>2, <1>5
  <2> QED BY <1>2, <1>3, <2>1, SumTyped
<1> DEFINE H == R \cup {h}
<1>13. h \in H /\ H \ {h} = R /\ H \in SUBSET Handlers
  BY <1>2
<1>14. (\A g \in H : c[g] \in Int) /\ \A g \in H : d[g] \in Int
  BY <1>5, <1>13
<1> HIDE DEF H
<1>15. SumFunctionOnSet(c, H) = c[h] + rest
  BY <1>3, <1>13, <1>14, SumSplits
<1>16. SumFunctionOnSet(d, H) = d[h] + rest
  BY <1>3, <1>11, <1>13, <1>14, SumSplits
<1> HIDE DEF rest
<1>17. Held(places) = (IF pc[h] \in places THEN c[h] ELSE 0) + rest
  BY <1>2, <1>9, <1>12, <1>15 DEF H, rest
<1>18. Held(places)' = (IF l \in places THEN d[h] ELSE 0) + rest
  BY <1>2, <1>10, <1>11, <1>12, <1>16 DEF H
<1>19. c[h] \in Nat /\ d[h] \in Nat
  BY <1>5
<1> QED BY <1>8, <1>12, <1>17, <1>18, <1>19

\* The move of a handler that holds nothing before and after, of one that lets go
\* of what it holds, and of one that takes hold of something.
LEMMA HeldElsewhere ==
    ASSUME pc \in [Handlers -> PC], bill \in [Handlers -> Bills], bill' \in [Handlers -> Bills],
           NEW h \in Handlers, NEW l \in PC, GoTo(h, l),
           \A g \in Handlers \ {h} : bill'[g] = bill[g], NEW places,
           pc[h] \notin places, l \notin places
    PROVE  Held(places)' = Held(places)
BY HeldMoves

LEMMA HeldLeaves ==
    ASSUME pc \in [Handlers -> PC], bill \in [Handlers -> Bills], bill' \in [Handlers -> Bills],
           NEW h \in Handlers, NEW l \in PC, GoTo(h, l),
           \A g \in Handlers \ {h} : bill'[g] = bill[g], NEW places,
           pc[h] \in places, l \notin places
    PROVE  /\ bill[h].cost \in Nat /\ Held(places)' \in Nat
           /\ Held(places)' + bill[h].cost = Held(places)
BY HeldMoves

LEMMA HeldEnters ==
    ASSUME pc \in [Handlers -> PC], bill \in [Handlers -> Bills], bill' \in [Handlers -> Bills],
           NEW h \in Handlers, NEW l \in PC, GoTo(h, l),
           \A g \in Handlers \ {h} : bill'[g] = bill[g], NEW places,
           pc[h] \notin places, l \in places
    PROVE  Held(places)' = Held(places) + bill'[h].cost
BY HeldMoves

LEMMA HeldStands ==
    ASSUME UNCHANGED <<pc, bill>>, NEW places
    PROVE  Held(places)' = Held(places)
  BY DEF Held

LEMMA HeldTyped ==
    ASSUME bill \in [Handlers -> Bills], NEW places
    PROVE  Held(places) \in Nat
<1> DEFINE S == {g \in Handlers : pc[g] \in places}
           f == [g \in S |-> bill[g].cost]
<1>1. IsFiniteSet(S)
  BY ProxyAssumption, FS_Subset
<1>2. \A g \in S : f[g] \in Nat
  BY DEF Bills
<1>3. Held(places) = SumFunctionOnSet(f, S)
  BY DEF Held, SumFunction
<1> HIDE DEF f, S
<1> QED BY <1>1, <1>2, <1>3, SumTyped

\* What entries cost, and that part of them costs no more.
LEMMA CostTyped ==
    ASSUME NEW S \in SUBSET EntryType, IsFiniteSet(S), NEW T \in SUBSET S
    PROVE  CostOf(S) \in Nat /\ CostOf(T) \in Nat /\ CostOf(T) <= CostOf(S)
<1> DEFINE c == [r \in S |-> r.cost]
           d == [r \in T |-> r.cost]
<1>1. IsFiniteSet(T)
  BY FS_Subset
<1>2. (\A r \in S : c[r] \in Nat) /\ (\A r \in T : c[r] \in Nat) /\ \A r \in T : d[r] = c[r]
  BY DEF EntryType
<1>3. CostOf(S) = SumFunctionOnSet(c, S) /\ CostOf(T) = SumFunctionOnSet(d, T)
  BY DEF CostOf, SumFunction
<1> HIDE DEF c, d
<1>4. SumFunctionOnSet(c, S) \in Nat
  BY <1>2, SumTyped
<1>5. SumFunctionOnSet(c, T) \in Nat
  BY <1>1, <1>2, SumTyped
<1>6. SumFunctionOnSet(d, T) = SumFunctionOnSet(c, T)
  BY <1>1, <1>2, SumSame
<1>7. SumFunctionOnSet(c, T) <= SumFunctionOnSet(c, S)
  BY <1>2, SumOfPart
<1> QED BY <1>3, <1>4, <1>5, <1>6, <1>7

\* A worker moves, and what it holds may change: the same of what is carried.
LEMMA CarriedMoves ==
    ASSUME step \in [Workers -> {"select", "sqlite", "jsonl"}],
           \A v \in Workers : step[v] # "select" => hand[v].cost \in Nat,
           \A v \in Workers : step'[v] # "select" => hand'[v].cost \in Nat,
           NEW w \in Workers, NEW from, NEW to, Advance(w, from, to),
           \A v \in Workers \ {w} : hand'[v] = hand[v],
           NEW places, "select" \notin places
    PROVE  /\ Carried(places) \in Nat /\ Carried(places)' \in Nat
           /\ Carried(places)' + (IF from \in places THEN hand[w].cost ELSE 0)
                = Carried(places) + (IF to \in places THEN hand'[w].cost ELSE 0)
<1> DEFINE S == Busy(places)
           T == Busy(places)'
           R == S \ {w}
           c == [v \in Workers |-> IF step[v] = "select" THEN 0 ELSE hand[v].cost]
           d == [v \in Workers |-> IF step'[v] = "select" THEN 0 ELSE hand'[v].cost]
           f == [v \in S |-> hand[v].cost]
           e == [v \in T |-> hand'[v].cost]
           rest == SumFunctionOnSet(c, R)
<1>1. step[w] = from /\ step'[w] = to /\ \A v \in Workers \ {w} : step'[v] = step[v]
  BY DEF Advance
<1>2. /\ S = IF from \in places THEN R \cup {w} ELSE R
      /\ T = IF to \in places THEN R \cup {w} ELSE R
      /\ w \notin R /\ S \in SUBSET Workers /\ T \in SUBSET Workers /\ R \in SUBSET Workers
  BY <1>1 DEF Busy
<1>3. \A U \in SUBSET Workers : IsFiniteSet(U)
  BY ProxyAssumption, FS_Subset
<1>4. (\A v \in Workers : c[v] \in Nat /\ d[v] \in Nat) /\ \A v \in R : c[v] = d[v]
  <2>1. \A v \in Workers : c[v] \in Nat /\ d[v] \in Nat
    OBVIOUS
  <2>2. \A v \in R : v \in Workers \ {w}
    BY <1>2
  <2> QED BY <1>1, <2>1, <2>2
<1>5. Carried(places) = SumFunctionOnSet(f, S) /\ Carried(places)' = SumFunctionOnSet(e, T)
  BY DEF Carried, SumFunction
<1>6. (\A v \in S : f[v] = c[v]) /\ \A v \in T : e[v] = d[v]
  <2>1. (\A v \in S : v \in Workers /\ step[v] # "select") /\ \A v \in T : v \in Workers /\ step'[v] # "select"
    BY DEF Busy
  <2> QED BY <2>1
<1>7. /\ from \in places => c[w] = hand[w].cost
      /\ to \in places => d[w] = hand'[w].cost
  BY <1>1
<1> HIDE DEF S, T, R, c, d, f, e
<1>8. Carried(places) = SumFunctionOnSet(c, S)
  BY <1>2, <1>3, <1>5, <1>6, SumSame
<1>9. Carried(places)' = SumFunctionOnSet(d, T)
  BY <1>2, <1>3, <1>5, <1>6, SumSame
<1>10. SumFunctionOnSet(d, R) = rest
  BY <1>2, <1>3, <1>4, SumSame
<1>11. rest \in Nat
  <2>1. \A v \in R : c[v] \in Nat
    BY <1>2, <1>4
  <2> QED BY <1>2, <1>3, <2>1, SumTyped
<1> DEFINE H == R \cup {w}
<1>12. w \in H /\ H \ {w} = R /\ H \in SUBSET Workers
  BY <1>2
<1>13. (\A v \in H : c[v] \in Int) /\ \A v \in H : d[v] \in Int
  BY <1>4, <1>12
<1> HIDE DEF H
<1>14. SumFunctionOnSet(c, H) = c[w] + rest
  BY <1>3, <1>12, <1>13, SumSplits
<1>15. SumFunctionOnSet(d, H) = d[w] + rest
  BY <1>3, <1>10, <1>12, <1>13, SumSplits
<1> HIDE DEF rest
<1>16. Carried(places) = (IF from \in places THEN c[w] ELSE 0) + rest
  BY <1>2, <1>8, <1>11, <1>14 DEF H, rest
<1>17. Carried(places)' = (IF to \in places THEN d[w] ELSE 0) + rest
  BY <1>2, <1>9, <1>10, <1>11, <1>15 DEF H
<1>18. c[w] \in Nat /\ d[w] \in Nat
  BY <1>4
<1> QED BY <1>7, <1>11, <1>16, <1>17, <1>18

LEMMA CarriedTyped ==
    ASSUME NEW places, \A w \in Busy(places) : hand[w].cost \in Nat
    PROVE  Carried(places) \in Nat
<1> DEFINE S == Busy(places)
           f == [w \in S |-> hand[w].cost]
<1>1. IsFiniteSet(S)
  BY ProxyAssumption, FS_Subset DEF Busy
<1>2. \A w \in S : f[w] \in Nat
  OBVIOUS
<1>3. Carried(places) = SumFunctionOnSet(f, S)
  BY DEF Carried, SumFunction
<1> HIDE DEF f, S
<1> QED BY <1>1, <1>2, <1>3, SumTyped

\* A row more.
LEMMA CostOfOneMore ==
    ASSUME NEW S \in SUBSET EntryType, IsFiniteSet(S), NEW e \in EntryType, e \notin S
    PROVE  /\ IsFiniteSet(S \cup {e}) /\ CostOf(S) \in Nat /\ e.cost \in Nat
           /\ CostOf(S \cup {e}) = CostOf(S) + e.cost
<1> DEFINE T == S \cup {e}
           c == [r \in T |-> r.cost]
           d == [r \in S |-> r.cost]
<1>1. IsFiniteSet(T)
  BY FS_AddElement
<1>2. /\ \A r \in T : c[r] \in Nat
      /\ \A r \in S : d[r] = c[r] /\ d[r] \in Nat
      /\ \A r \in T : c[r] \in Int
      /\ c[e] = e.cost /\ e.cost \in Nat
  BY DEF EntryType
<1>3. CostOf(T) = SumFunctionOnSet(c, T) /\ CostOf(S) = SumFunctionOnSet(d, S)
  BY DEF CostOf, SumFunction
<1>4. e \in T /\ T \ {e} = S
  OBVIOUS
<1> HIDE DEF c, d, T
<1>5. SumFunctionOnSet(c, T) = c[e] + SumFunctionOnSet(c, S)
  BY <1>1, <1>2, <1>4, SumSplits
<1>6. SumFunctionOnSet(d, S) = SumFunctionOnSet(c, S)
  BY <1>2, SumSame
<1>7. SumFunctionOnSet(d, S) \in Nat
  BY <1>2, SumTyped
<1>8. CostOf(T) = CostOf(S) + e.cost
  BY <1>2, <1>3, <1>5, <1>6, <1>7
<1> QED BY <1>1, <1>2, <1>3, <1>7, <1>8 DEF T

\* Names for the sums of money: what the tracker was charged, what the metrics
\* show, what file and table have, refused or are still due from the workers,
\* what waits, what the full queue refused, and what handlers hold that the
\* metrics or the log have not seen.
Paid == tracker.total
Metered == metrics.cost
InFile == Sum(journal)
NotFiled == Sum(failed.jsonl)
ToFile == Carried({"sqlite", "jsonl"})
InTable == CostOf(rows)
NotStored == Sum(failed.sqlite)
ToTable == Carried({"sqlite"})
Waiting == Sum(queue)
Forgone == Sum(lost)
Unmetered == Held({"observe", "meter"})
Unlogged == Held({"observe", "meter", "submit"})

\* The table is finite, so that what it costs is a sum.
Balanced == /\ IsFiniteSet(rows)
            /\ Paid = Metered + Unmetered
            /\ Paid = InFile + NotFiled + ToFile + Waiting + Forgone + Unlogged
            /\ Paid = InTable + NotStored + ToTable + Waiting + Forgone + Unlogged

LEMMA Amounts ==
    ASSUME ProxyInv, IsFiniteSet(rows)
    PROVE  /\ Paid \in Nat /\ Metered \in Nat /\ Waiting \in Nat
           /\ InFile \in Nat /\ NotFiled \in Nat /\ ToFile \in Nat
           /\ InTable \in Nat /\ NotStored \in Nat /\ ToTable \in Nat
           /\ Forgone \in Nat /\ Unmetered \in Nat /\ Unlogged \in Nat
<1>1. /\ journal \in Seq(EntryType) /\ queue \in Seq(EntryType) /\ lost \in Seq(EntryType)
      /\ failed.jsonl \in Seq(EntryType) /\ failed.sqlite \in Seq(EntryType)
  BY DEF ProxyInv, TypeOK
<1>2. /\ InFile \in Nat /\ Waiting \in Nat /\ Forgone \in Nat
      /\ NotFiled \in Nat /\ NotStored \in Nat
  BY <1>1, SumOfList DEF InFile, Waiting, Forgone, NotFiled, NotStored
<1>3. Paid \in Nat /\ Metered \in Nat
  BY Facts DEF Paid, Metered, Books!States, Metrics
<1>4. Unmetered \in Nat /\ Unlogged \in Nat
  BY Facts, HeldTyped DEF Unmetered, Unlogged
<1>5. ToFile \in Nat /\ ToTable \in Nat
  <2>1. \A w \in Workers : step[w] # "select" => hand[w].cost \in Nat
    BY DEF ProxyInv, TypeOK, EntryType
  <2>2. /\ \A w \in Busy({"sqlite", "jsonl"}) : hand[w].cost \in Nat
        /\ \A w \in Busy({"sqlite"}) : hand[w].cost \in Nat
    BY <2>1 DEF Busy
  <2> QED BY <2>2, CarriedTyped DEF ToFile, ToTable
<1>6. InTable \in Nat
  <2>1. rows \in SUBSET EntryType
    BY DEF ProxyInv, TypeOK
  <2> QED BY <2>1, CostTyped DEF InTable
<1> QED BY <1>2, <1>3, <1>4, <1>5, <1>6

\* What no worker does anything about.
LEMMA LogFrame ==
    ASSUME UNCHANGED workerVars
    PROVE  /\ InFile' = InFile /\ NotFiled' = NotFiled /\ ToFile' = ToFile
           /\ InTable' = InTable /\ NotStored' = NotStored /\ ToTable' = ToTable
           /\ rows' = rows
BY DEF workerVars, InFile, NotFiled, ToFile, InTable, NotStored, ToTable, Sum, Carried, Busy, CostOf

\* A move between labels at which nothing is held, while no money changes hands.
LEMMA MoneyFrame ==
    ASSUME ProxyInv, ProxyInv', Balanced, NEW h \in Handlers, NEW l \in PC, GoTo(h, l),
           pc[h] \notin {"observe", "meter", "submit"}, l \notin {"observe", "meter", "submit"},
           \A g \in Handlers \ {h} : bill'[g] = bill[g],
           tracker'.total = tracker.total, metrics'.cost = metrics.cost,
           UNCHANGED <<queue, lost, workerVars>>
    PROVE  Balanced'
<1>1. /\ pc \in [Handlers -> PC] /\ bill \in [Handlers -> Bills] /\ bill' \in [Handlers -> Bills]
  BY DEF ProxyInv, TypeOK, CountTypes
<1>2. Unmetered' = Unmetered
  BY <1>1, HeldElsewhere DEF Unmetered
<1>3. Unlogged' = Unlogged
  BY <1>1, HeldElsewhere DEF Unlogged
<1>4. Paid' = Paid /\ Metered' = Metered /\ Waiting' = Waiting /\ Forgone' = Forgone
  BY DEF Paid, Metered, Waiting, Forgone, Sum
<1> QED BY <1>2, <1>3, <1>4, LogFrame DEF Balanced

\* What is charged is held by the handler until it has been seen.
LEMMA ChargeBalances ==
    ASSUME ProxyInv, ProxyInv', Balanced, NEW h \in Handlers, NEW cost \in Estimate(h),
           Charge(h, cost)
    PROVE  Balanced'
<1>1. /\ pc[h] = "charge" /\ GoTo(h, "observe") /\ bill' = [bill EXCEPT ![h].cost = cost]
      /\ tracker' = IF cost > 0 THEN Books!Charged(Books!RolledState, cost) ELSE tracker
      /\ UNCHANGED <<metrics, queue, lost, workerVars>>
  BY DEF Charge, sinkVars
<1>2. cost \in Nat
  <2>1. cost \in 0 .. MaxCost
    BY <1>1, EstimateIsBounded DEF ProxyInv
  <2>2. MaxCost \in Nat
    BY ProxyAssumption
  <2> QED BY <2>1, <2>2
<1>3. /\ pc \in [Handlers -> PC] /\ bill \in [Handlers -> Bills] /\ bill' \in [Handlers -> Bills]
  BY DEF ProxyInv, TypeOK, CountTypes
<1>4. bill'[h].cost = cost /\ \A g \in Handlers \ {h} : bill'[g] = bill[g]
  BY <1>1, <1>3 DEF Bills
<1>a. IsFiniteSet(rows)
  BY DEF Balanced
<1>5. Paid' = Paid + cost
  <2>1. Books!Charged(Books!RolledState, cost).total = tracker.total + cost
    BY <1>2, Facts, BooksTypes
  <2>2. tracker.total \in Nat
    BY <1>a, Amounts DEF Paid
  <2> QED BY <1>1, <1>2, <2>1, <2>2 DEF Paid
<1>6. "observe" \in PC
  BY DEF PC
<1>7. Unmetered' = Unmetered + cost
  BY <1>1, <1>3, <1>4, <1>6, HeldEnters DEF Unmetered
<1>8. Unlogged' = Unlogged + cost
  BY <1>1, <1>3, <1>4, <1>6, HeldEnters DEF Unlogged
<1>9. Metered' = Metered /\ Waiting' = Waiting /\ Forgone' = Forgone
  BY <1>1 DEF Metered, Waiting, Forgone, Sum
<1>10. UNCHANGED workerVars
  BY <1>1
<1> QED BY <1>2, <1>5, <1>7, <1>8, <1>9, <1>10, <1>a, Amounts, LogFrame DEF Balanced

\* The metrics take note of it, and still the handler holds it for the log.
LEMMA MeterBalances ==
    ASSUME ProxyInv, ProxyInv', Balanced, NEW h \in Handlers, Observe(h) \/ Meter(h)
    PROVE  Balanced'
<1> DEFINE cost == bill[h].cost
<1>1. UNCHANGED <<bill, tracker, queue, lost, workerVars>>
  BY DEF Observe, Meter
<1>2. /\ pc \in [Handlers -> PC] /\ bill \in [Handlers -> Bills] /\ metrics \in Metrics
      /\ bill' \in [Handlers -> Bills] /\ bill' = bill
  BY <1>1, Facts
<1>3. {"meter", "submit"} \subseteq PC
  BY DEF PC
<1>a. IsFiniteSet(rows)
  BY DEF Balanced
<1>4. Paid' = Paid /\ Waiting' = Waiting /\ Forgone' = Forgone /\ UNCHANGED workerVars
  BY <1>1 DEF Paid, Waiting, Forgone, Sum
<1>5. CASE Observe(h)
  <2>1. /\ pc[h] = "observe" /\ GoTo(h, "meter")
        /\ metrics' = [metrics EXCEPT !.requests[bill[h].status] = @ + 1]
    BY <1>5 DEF Observe
  <2>2. Metered' = Metered
    BY <1>2, <2>1 DEF Metered, Metrics
  <2>3. Unmetered' = Unmetered
    BY <1>2, <1>3, <2>1, HeldMoves, Amounts, <1>a DEF Unmetered
  <2>4. Unlogged' = Unlogged
    BY <1>2, <1>3, <2>1, HeldMoves, Amounts, <1>a DEF Unlogged
  <2> QED BY <1>4, <2>2, <2>3, <2>4, LogFrame DEF Balanced
<1>6. CASE Meter(h)
  <2>1. /\ pc[h] = "meter" /\ GoTo(h, "submit")
        /\ metrics' = [metrics EXCEPT !.cost = @ + cost]
    BY <1>6 DEF Meter
  <2>2. Metered' = Metered + cost
    BY <1>2, <2>1 DEF Metered, Metrics
  <2>3. cost \in Nat /\ Unmetered' \in Nat /\ Unmetered' + cost = Unmetered
    BY <1>2, <1>3, <2>1, HeldLeaves DEF Unmetered
  <2>4. Unlogged' = Unlogged
    BY <1>2, <1>3, <2>1, HeldMoves, Amounts, <1>a DEF Unlogged
  <2> HIDE DEF cost
  <2> QED BY <1>4, <1>a, <2>2, <2>3, <2>4, Amounts, LogFrame DEF Balanced
<1> QED BY <1>5, <1>6

LEMMA SubmitBalances ==
    ASSUME ProxyInv, ProxyInv', Balanced, NEW h \in Handlers, NEW nano \in Nanos, Submit(h, nano)
    PROVE  Balanced'
<1> DEFINE e == Entry(h, nano)
           cost == bill[h].cost
<1>1. /\ pc[h] = "submit" /\ GoTo(h, "idle") /\ bill' = [bill EXCEPT ![h] = noBill]
      /\ UNCHANGED <<tracker, metrics, workerVars>>
      /\ \/ queue' = Append(queue, e) /\ lost' = lost
         \/ lost' = Append(lost, e) /\ queue' = queue
  BY DEF Submit, Done
<1>2. e \in EntryType /\ e.cost = cost
  <2>1. e.cost = cost
    BY DEF Entry
  <2> QED BY <1>1, <2>1, EntryTyped
<1>3. /\ pc \in [Handlers -> PC] /\ bill \in [Handlers -> Bills] /\ bill' \in [Handlers -> Bills]
      /\ queue \in Seq(EntryType) /\ lost \in Seq(EntryType)
  BY DEF ProxyInv, TypeOK, CountTypes
<1>4. "idle" \in PC /\ \A g \in Handlers \ {h} : bill'[g] = bill[g]
  BY <1>1, <1>3 DEF PC
<1>5. Unmetered' = Unmetered
  BY <1>1, <1>3, <1>4, HeldElsewhere DEF Unmetered
<1>6. cost \in Nat /\ Unlogged' \in Nat /\ Unlogged' + cost = Unlogged
  BY <1>1, <1>3, <1>4, HeldLeaves DEF Unlogged
<1> HIDE DEF e
<1>7. \/ Waiting' = Waiting + cost /\ Forgone' = Forgone
      \/ Waiting' = Waiting /\ Forgone' = Forgone + cost
  <2>1. Sum(Append(queue, e)) = Sum(queue) + e.cost /\ Sum(Append(lost, e)) = Sum(lost) + e.cost
    BY <1>2, <1>3, SumOfList
  <2>2. CASE queue' = Append(queue, e) /\ lost' = lost
    <3>1. Sum(queue)' = Sum(Append(queue, e)) /\ Sum(lost)' = Sum(lost)
      BY <2>2 DEF Sum
    <3> QED BY <1>2, <2>1, <3>1 DEF Waiting, Forgone
  <2>3. CASE lost' = Append(lost, e) /\ queue' = queue
    <3>1. Sum(lost)' = Sum(Append(lost, e)) /\ Sum(queue)' = Sum(queue)
      BY <2>3 DEF Sum
    <3> QED BY <1>2, <2>1, <3>1 DEF Waiting, Forgone
  <2> QED BY <1>1, <2>2, <2>3
<1>8. Paid' = Paid /\ Metered' = Metered /\ UNCHANGED workerVars
  BY <1>1 DEF Paid, Metered
<1>a. IsFiniteSet(rows)
  BY DEF Balanced
<1> HIDE DEF cost
<1> QED BY <1>5, <1>6, <1>7, <1>8, <1>a, Amounts, LogFrame DEF Balanced

\* What a step of a worker moves, for the file and for the table.
LEMMA WorkerCarries ==
    ASSUME ProxyInv, ProxyInv', NEW w \in Workers, NEW from, NEW to, Advance(w, from, to),
           \A v \in Workers \ {w} : hand'[v] = hand[v]
    PROVE  /\ ToFile' \in Nat /\ ToTable' \in Nat
           /\ from = "select" /\ to = "sqlite" =>
                /\ ToFile' = ToFile + hand'[w].cost /\ ToTable' = ToTable + hand'[w].cost
           /\ from = "sqlite" /\ to = "jsonl" /\ hand'[w] = hand[w] =>
                /\ ToFile' = ToFile /\ ToTable' + hand[w].cost = ToTable
           /\ from = "jsonl" /\ to = "select" =>
                /\ ToFile' + hand[w].cost = ToFile /\ ToTable' = ToTable
<1> DEFINE c == hand[w].cost
           d == hand'[w].cost
           In(l, places, x) == IF l \in places THEN x ELSE 0
<1>1. /\ step \in [Workers -> {"select", "sqlite", "jsonl"}]
      /\ \A v \in Workers : step[v] # "select" => hand[v].cost \in Nat
      /\ \A v \in Workers : step'[v] # "select" => hand'[v].cost \in Nat
  BY DEF ProxyInv, TypeOK, EntryType
<1>2. step[w] = from /\ step'[w] = to
  BY <1>1 DEF Advance
<1>3. (from # "select" => c \in Nat) /\ (to # "select" => d \in Nat)
  BY <1>1, <1>2
<1>4. /\ ToFile \in Nat /\ ToFile' \in Nat
      /\ ToFile' + In(from, {"sqlite", "jsonl"}, c) = ToFile + In(to, {"sqlite", "jsonl"}, d)
  BY <1>1, CarriedMoves DEF ToFile
<1>5. /\ ToTable \in Nat /\ ToTable' \in Nat
      /\ ToTable' + In(from, {"sqlite"}, c) = ToTable + In(to, {"sqlite"}, d)
  BY <1>1, CarriedMoves DEF ToTable
<1>6. hand'[w] = hand[w] => d = c
  OBVIOUS
<1>7. ASSUME from = "select", to = "sqlite"
      PROVE  ToFile' = ToFile + d /\ ToTable' = ToTable + d
  <2> HIDE DEF c, d
  <2> QED BY <1>3, <1>4, <1>5, <1>7
<1>8. ASSUME from = "sqlite", to = "jsonl", d = c
      PROVE  ToFile' = ToFile /\ ToTable' + c = ToTable
  <2> HIDE DEF c, d
  <2> QED BY <1>3, <1>4, <1>5, <1>8
<1>9. ASSUME from = "jsonl", to = "select"
      PROVE  ToFile' + c = ToFile /\ ToTable' = ToTable
  <2>1. /\ In(from, {"sqlite", "jsonl"}, c) = c /\ In(to, {"sqlite", "jsonl"}, d) = 0
        /\ In(from, {"sqlite"}, c) = 0 /\ In(to, {"sqlite"}, d) = 0
    BY <1>9
  <2> HIDE DEF c, d, In
  <2> QED BY <1>3, <1>4, <1>5, <1>9, <2>1
<1> QED BY <1>4, <1>5, <1>6, <1>7, <1>8, <1>9

\* What handlers, tracker and metrics have to do with a worker's step: nothing.
LEMMA WorkerFrame ==
    ASSUME UNCHANGED <<pc, bill, tracker, metrics, lost>>
    PROVE  /\ Paid' = Paid /\ Metered' = Metered /\ Forgone' = Forgone
           /\ Unmetered' = Unmetered /\ Unlogged' = Unlogged
BY HeldStands DEF Paid, Metered, Forgone, Unmetered, Unlogged, Sum

LEMMA TakeBalances ==
    ASSUME ProxyInv, ProxyInv', Balanced, NEW w \in Workers, Take(w)
    PROVE  Balanced'
<1> DEFINE e == Head(queue)
           c == e.cost
<1>1. /\ Advance(w, "select", "sqlite") /\ queue # <<>> /\ queue' = Tail(queue)
      /\ hand' = [hand EXCEPT ![w] = e]
      /\ UNCHANGED <<pc, bill, tracker, metrics, journal, lost, failed, rows>>
  BY DEF Take, handlerVars
<1>2. queue \in Seq(EntryType) /\ hand \in [Workers -> EntryType \cup {Nothing}]
  BY DEF ProxyInv, TypeOK
<1>3. e \in EntryType /\ c \in Nat /\ Tail(queue) \in Seq(EntryType)
  <2>1. e \in EntryType /\ Tail(queue) \in Seq(EntryType)
    BY <1>1, <1>2, HeadTailProperties
  <2> QED BY <2>1 DEF EntryType
<1>4. Waiting = c + Waiting' /\ Waiting' \in Nat
  <2>1. Waiting = c + Sum(Tail(queue)) /\ Sum(Tail(queue)) \in Nat
    BY <1>1, <1>2, <1>3, SumOfList DEF Waiting
  <2>2. Waiting' = Sum(Tail(queue))
    BY <1>1 DEF Waiting, Sum
  <2> QED BY <2>1, <2>2
<1>5. hand'[w] = e /\ \A v \in Workers \ {w} : hand'[v] = hand[v]
  BY <1>1, <1>2
<1>6. ToFile' = ToFile + c /\ ToTable' = ToTable + c
  BY <1>1, <1>5, WorkerCarries
<1>7. InFile' = InFile /\ NotFiled' = NotFiled /\ InTable' = InTable /\ NotStored' = NotStored
  BY <1>1 DEF InFile, NotFiled, InTable, NotStored, Sum, CostOf
<1>8. IsFiniteSet(rows) /\ rows' = rows
  BY <1>1 DEF Balanced
<1>9. UNCHANGED <<pc, bill, tracker, metrics, lost>>
  BY <1>1
<1>10. /\ Paid' = Paid /\ Metered' = Metered /\ Forgone' = Forgone
       /\ Unmetered' = Unmetered /\ Unlogged' = Unlogged
  BY <1>9, WorkerFrame
<1>11. c \in Nat
  BY <1>3
<1> HIDE DEF c
<1>12. Paid' = Metered' + Unmetered'
  BY <1>10 DEF Balanced
<1>13. Paid' = InFile' + NotFiled' + ToFile' + Waiting' + Forgone' + Unlogged'
  BY <1>4, <1>6, <1>7, <1>8, <1>10, <1>11, Amounts DEF Balanced
<1>14. Paid' = InTable' + NotStored' + ToTable' + Waiting' + Forgone' + Unlogged'
  BY <1>4, <1>6, <1>7, <1>8, <1>10, <1>11, Amounts DEF Balanced
<1> QED BY <1>8, <1>12, <1>13, <1>14 DEF Balanced

\* The table has it, or will never have it.
LEMMA InsertBalances ==
    ASSUME ProxyInv, ProxyInv', Balanced, NEW w \in Workers, InsertRow(w)
    PROVE  Balanced'
<1> DEFINE e == hand[w]
           c == e.cost
<1>1. /\ Advance(w, "sqlite", "jsonl")
      /\ \/ ~IsStored(e) /\ rows' = rows \cup {e} /\ UNCHANGED failed
         \/ failed' = [failed EXCEPT !.sqlite = Append(@, e)] /\ UNCHANGED rows
      /\ UNCHANGED <<pc, bill, tracker, metrics, queue, hand, journal, lost>>
  BY DEF InsertRow, Insert, handlerVars
<1>2. e \in EntryType /\ c \in Nat /\ rows \in SUBSET EntryType /\ IsFiniteSet(rows)
  <2>1. e \in EntryType
    BY <1>1, WorkerFacts DEF Advance
  <2> QED BY <2>1 DEF EntryType, ProxyInv, TypeOK, Balanced
<1>3. ToFile' = ToFile /\ ToTable' \in Nat /\ ToTable' + c = ToTable
  BY <1>1, WorkerCarries
<1>4. InFile' = InFile /\ Waiting' = Waiting
  BY <1>1 DEF InFile, Waiting, Sum
<1>a. UNCHANGED <<pc, bill, tracker, metrics, lost>>
  BY <1>1
<1> HIDE DEF c
<1>5. CASE ~IsStored(e) /\ rows' = rows \cup {e} /\ UNCHANGED failed
  <2>1. e \notin rows
    BY <1>5 DEF IsStored
  <2>2. IsFiniteSet(rows') /\ InTable' = InTable + c
    BY <1>2, <1>5, <2>1, CostOfOneMore DEF InTable, CostOf, c
  <2>3. NotFiled' = NotFiled /\ NotStored' = NotStored
    BY <1>5 DEF NotFiled, NotStored, Sum
  <2> QED BY <1>2, <1>3, <1>4, <1>a, <2>2, <2>3, Amounts, WorkerFrame DEF Balanced
<1>6. CASE failed' = [failed EXCEPT !.sqlite = Append(@, e)] /\ UNCHANGED rows
  <2>1. failed'.sqlite = Append(failed.sqlite, e) /\ failed'.jsonl = failed.jsonl
    BY <1>6, WorkerFacts
  <2>2. Sum(Append(failed.sqlite, e)) = NotStored + c
    BY <1>2, WorkerFacts, SumOfList DEF NotStored, c
  <2>3. NotFiled' = NotFiled
    BY <2>1 DEF NotFiled, Sum
  <2>4. NotStored' = Sum(Append(failed.sqlite, e))
    BY <2>1 DEF NotStored, Sum
  <2>5. InTable' = InTable /\ rows' = rows
    BY <1>6 DEF InTable, CostOf
  <2>6. NotStored' = NotStored + c
    BY <2>2, <2>4
  <2> QED BY <1>2, <1>3, <1>4, <1>a, <2>3, <2>5, <2>6, Amounts, WorkerFrame DEF Balanced
<1> QED BY <1>1, <1>5, <1>6

\* And so of the file.
LEMMA AppendBalances ==
    ASSUME ProxyInv, ProxyInv', Balanced, NEW w \in Workers, AppendLine(w)
    PROVE  Balanced'
<1> DEFINE e == hand[w]
           c == e.cost
<1>1. /\ Advance(w, "jsonl", "select") /\ hand' = [hand EXCEPT ![w] = Nothing]
      /\ \/ journal' = Append(journal, e) /\ UNCHANGED failed
         \/ failed' = [failed EXCEPT !.jsonl = Append(@, e)] /\ UNCHANGED journal
      /\ UNCHANGED <<pc, bill, tracker, metrics, queue, lost, rows>>
  BY DEF AppendLine, handlerVars
<1>2. /\ e \in EntryType /\ c \in Nat /\ hand \in [Workers -> EntryType \cup {Nothing}]
      /\ journal \in Seq(EntryType) /\ IsFiniteSet(rows)
  <2>1. e \in EntryType
    BY <1>1, WorkerFacts DEF Advance
  <2> QED BY <2>1 DEF EntryType, ProxyInv, TypeOK, Balanced
<1>3. ToFile' \in Nat /\ ToFile' + c = ToFile /\ ToTable' = ToTable
  <2>1. \A v \in Workers \ {w} : hand'[v] = hand[v]
    BY <1>1, <1>2
  <2> QED BY <1>1, <2>1, WorkerCarries
<1>4. InTable' = InTable /\ Waiting' = Waiting /\ rows' = rows
  BY <1>1 DEF InTable, Waiting, Sum, CostOf
<1>a. /\ Paid' = Paid /\ Metered' = Metered /\ Forgone' = Forgone
      /\ Unmetered' = Unmetered /\ Unlogged' = Unlogged
  BY <1>1, WorkerFrame
<1>b. c \in Nat /\ IsFiniteSet(rows)
  BY <1>2
<1>5. CASE journal' = Append(journal, e) /\ UNCHANGED failed
  <2>1. Sum(Append(journal, e)) = InFile + c
    BY <1>2, SumOfList DEF InFile
  <2>2. InFile' = Sum(Append(journal, e)) /\ NotFiled' = NotFiled /\ NotStored' = NotStored
    BY <1>5 DEF InFile, NotFiled, NotStored, Sum
  <2>3. InFile' = InFile + c
    BY <2>1, <2>2
  <2> HIDE DEF c
  <2>4. Paid' = Metered' + Unmetered'
    BY <1>a DEF Balanced
  <2>5. Paid' = InFile' + NotFiled' + ToFile' + Waiting' + Forgone' + Unlogged'
    BY <1>3, <1>4, <1>a, <1>b, <2>2, <2>3, Amounts DEF Balanced
  <2>6. Paid' = InTable' + NotStored' + ToTable' + Waiting' + Forgone' + Unlogged'
    BY <1>3, <1>4, <1>a, <1>b, <2>2, <2>3, Amounts DEF Balanced
  <2> QED BY <1>4, <1>b, <2>4, <2>5, <2>6 DEF Balanced
<1>6. CASE failed' = [failed EXCEPT !.jsonl = Append(@, e)] /\ UNCHANGED journal
  <2>1. failed'.jsonl = Append(failed.jsonl, e) /\ failed'.sqlite = failed.sqlite
    BY <1>6, WorkerFacts
  <2>2. Sum(Append(failed.jsonl, e)) = NotFiled + c
    BY <1>2, WorkerFacts, SumOfList DEF NotFiled
  <2>3. NotStored' = NotStored
    BY <2>1 DEF NotStored, Sum
  <2>4. NotFiled' = Sum(Append(failed.jsonl, e))
    BY <2>1 DEF NotFiled, Sum
  <2>5. InFile' = InFile
    BY <1>6 DEF InFile, Sum
  <2>6. NotFiled' = NotFiled + c
    BY <2>2, <2>4
  <2> HIDE DEF c
  <2>7. Paid' = Metered' + Unmetered'
    BY <1>a DEF Balanced
  <2>8. Paid' = InFile' + NotFiled' + ToFile' + Waiting' + Forgone' + Unlogged'
    BY <1>3, <1>4, <1>a, <1>b, <2>3, <2>5, <2>6, Amounts DEF Balanced
  <2>9. Paid' = InTable' + NotStored' + ToTable' + Waiting' + Forgone' + Unlogged'
    BY <1>3, <1>4, <1>a, <1>b, <2>3, <2>5, <2>6, Amounts DEF Balanced
  <2> QED BY <1>4, <1>b, <2>7, <2>8, <2>9 DEF Balanced
<1> QED BY <1>1, <1>5, <1>6
-----------------------------------------------------------------------------
(* The reports. A text disorders times within one second, and no others.     *)

LEMMA TextOrder ==
    ASSUME NEW t \in Int, NEW u \in Int
    PROVE  /\ Text(t) \in Int
           /\ u >= t + TicksPerSecond => Text(u) >= Text(t)
           /\ Text(u) >= Text(t) => u >= t - TicksPerSecond + 1
<1> DEFINE p == TicksPerSecond
           q(x) == x \div p
           f(x) == x % p
<1>1. p \in Nat \ {0}
  BY WallClockAssumption
<1>2. \A x \in Int : /\ q(x) \in Int /\ f(x) \in 0 .. p - 1 /\ x = q(x) * p + f(x)
                     /\ x - f(x) = q(x) * p
  BY <1>1
<1>3. \A x \in Int : Text(x) \in Int /\ q(x) * p <= Text(x) /\ Text(x) <= q(x) * p + p - 1
  <2> SUFFICES ASSUME NEW x \in Int
               PROVE  Text(x) \in Int /\ q(x) * p <= Text(x) /\ Text(x) <= q(x) * p + p - 1
    OBVIOUS
  <2>1. Text(x) = x - f(x) + (IF f(x) = 0 THEN p ELSE f(x)) - 1
    BY DEF Text, Fraction
  <2>2. q(x) \in Int /\ f(x) \in 0 .. p - 1 /\ x - f(x) = q(x) * p
    BY <1>2
  <2> DEFINE m == q(x) * p
             g == f(x)
  <2>3. m \in Int /\ g \in Int /\ 0 <= g /\ g <= p - 1 /\ x - g = m
    BY <1>1, <2>2
  <2> HIDE DEF m, g, p
  <2>4. Text(x) = m + (IF g = 0 THEN p ELSE g) - 1
    BY <2>1, <2>3 DEF g
  <2>5. Text(x) \in Int /\ m <= Text(x) /\ Text(x) <= m + p - 1
    BY <1>1, <2>3, <2>4
  <2> QED BY <2>5 DEF m
<1> HIDE DEF p, q, f
<1>4. \A a, b \in Int : a < b => a * p + p <= b * p
  BY <1>1
<1> DEFINE T == q(t) * p
           U == q(u) * p
<1>5. /\ T \in Int /\ U \in Int /\ T <= t /\ t <= T + p - 1 /\ U <= u /\ u <= U + p - 1
      /\ T <= Text(t) /\ Text(t) <= T + p - 1 /\ U <= Text(u) /\ Text(u) <= U + p - 1
      /\ Text(t) \in Int /\ Text(u) \in Int
  <2>1. q(t) \in Int /\ q(u) \in Int /\ f(t) \in 0 .. p - 1 /\ f(u) \in 0 .. p - 1
        /\ t = T + f(t) /\ u = U + f(u)
    BY <1>2
  <2>2. T \in Int /\ U \in Int
    BY <1>1, <2>1
  <2> HIDE DEF T, U
  <2>3. T <= t /\ t <= T + p - 1 /\ U <= u /\ u <= U + p - 1
    BY <1>1, <2>1, <2>2
  <2> QED BY <1>3, <2>2, <2>3 DEF T, U
<1>6. q(t) = q(u) \/ T + p <= U \/ U + p <= T
  <2>1. q(t) \in Int /\ q(u) \in Int
    BY <1>2
  <2>2. q(t) = q(u) \/ q(t) < q(u) \/ q(u) < q(t)
    BY <2>1
  <2> QED BY <1>4, <2>1, <2>2
<1>7. T = U \/ T + p <= U \/ U + p <= T
  BY <1>6
<1> HIDE DEF T, U
<1>8. u >= t + p => Text(u) >= Text(t)
  BY <1>1, <1>5, <1>7
<1>9. Text(u) >= Text(t) => u >= t - p + 1
  BY <1>1, <1>5, <1>7
<1> QED BY <1>5, <1>8, <1>9 DEF p

\* However entries are grouped, the lines of a report add up to all of them.
LEMMA TotalOf ==
    ASSUME NEW S \in SUBSET EntryType, IsFiniteSet(S), NEW key, NEW groups,
           DOMAIN groups = {key[r] : r \in S},
           \A k \in DOMAIN groups : groups[k] = Group(Keyed(S, key, k))
    PROVE  Total(groups) = [count |-> Cardinality(S), cost |-> CostOf(S)]
<1> DEFINE K == {key[r] : r \in S}
           c == [r \in S |-> r.cost]
           one == [r \in S |-> 1]
           costs == [k \in K |-> groups[k].cost]
           counts == [k \in K |-> groups[k].count]
<1>1. IsFiniteSet(K)
  BY ImageFinite
<1>2. /\ Total(groups).cost = SumFunctionOnSet(costs, K)
      /\ Total(groups).count = SumFunctionOnSet(counts, K)
      /\ Total(groups) = [count |-> Total(groups).count, cost |-> Total(groups).cost]
  BY DEF Total, SumFunction
<1>3. \A k : Keyed(S, key, k) \in SUBSET S /\ IsFiniteSet(Keyed(S, key, k))
  BY FS_Subset DEF Keyed
<1>4. \A k \in K : /\ groups[k].cost = CostOf(Keyed(S, key, k))
                   /\ groups[k].count = Cardinality(Keyed(S, key, k))
  <2>1. \A s : Group(s).cost = CostOf(s) /\ Group(s).count = Cardinality(s)
    BY DEF Group
  <2> QED BY <2>1
<1>5. (\A r \in S : c[r] \in Int) /\ (\A r \in S : one[r] = 1)
      /\ (\A r \in S : one[r] \in Int) /\ \A r \in S : key[r] \in K
  BY DEF EntryType
<1>6. ASSUME NEW k \in K PROVE costs[k] = SumFunctionOnSet(c, Keyed(S, key, k))
  <2> DEFINE U == Keyed(S, key, k)
             d == [r \in U |-> r.cost]
  <2>1. \A r \in U : d[r] = c[r]
    BY <1>3
  <2>2. CostOf(U) = SumFunctionOnSet(d, U)
    BY DEF CostOf, SumFunction
  <2>3. SumFunctionOnSet(d, U) = SumFunctionOnSet(c, U)
    <3>1. IsFiniteSet(U)
      BY <1>3
    <3> HIDE DEF d, c, U
    <3> QED BY <2>1, <3>1, SumSame
  <2> QED BY <1>4, <2>2, <2>3
<1>7. ASSUME NEW k \in K PROVE counts[k] = SumFunctionOnSet(one, Keyed(S, key, k))
  <2> DEFINE U == Keyed(S, key, k)
  <2>1. IsFiniteSet(U) /\ \A r \in U : one[r] = 1
    BY <1>3
  <2>2. SumFunctionOnSet(one, U) = Cardinality(U)
    <3> HIDE DEF one, U
    <3> QED BY <2>1, SumOfOnes
  <2> QED BY <1>4, <2>2
<1> HIDE DEF K, c, one, costs, counts
<1>8. SumFunctionOnSet(c, S) = SumFunctionOnSet(costs, K)
  BY <1>1, <1>5, <1>6, SumGrouped
<1>9. SumFunctionOnSet(one, S) = SumFunctionOnSet(counts, K)
  BY <1>1, <1>5, <1>7, SumGrouped
<1>10. SumFunctionOnSet(one, S) = Cardinality(S)
  BY <1>5, SumOfOnes
<1>11. SumFunctionOnSet(c, S) = CostOf(S)
  BY DEF CostOf, SumFunction, c
<1> QED BY <1>2, <1>8, <1>9, <1>10, <1>11

\* So the report by model and the report by day have one total.
LEMMA OneTotal ==
    ASSUME rows \subseteq EntryType, IsFiniteSet(rows), NEW since
    PROVE  /\ Total(AggregateByModel(since)) =
                [count |-> Cardinality(Since(since)), cost |-> CostOf(Since(since))]
           /\ Total(AggregateByDay(since)) = Total(AggregateByModel(since))
<1> DEFINE S == Since(since)
           models == [r \in S |-> r.model]
           days == [r \in S |-> Day(r)]
<1>1. S \in SUBSET EntryType /\ IsFiniteSet(S)
  BY FS_Subset DEF Since
<1>2. /\ DOMAIN AggregateByModel(since) = {models[r] : r \in S}
      /\ \A m \in DOMAIN AggregateByModel(since) :
            AggregateByModel(since)[m] = Group(Keyed(S, models, m))
  <2>1. {models[r] : r \in S} = {r.model : r \in S}
    OBVIOUS
  <2>2. \A m : Keyed(S, models, m) = {r \in S : r.model = m}
    BY DEF Keyed
  <2> HIDE DEF models
  <2> QED BY <2>1, <2>2 DEF AggregateByModel
<1>3. /\ DOMAIN AggregateByDay(since) = {days[r] : r \in S}
      /\ \A d \in DOMAIN AggregateByDay(since) :
            AggregateByDay(since)[d] = Group(Keyed(S, days, d))
  <2>1. {days[r] : r \in S} = {Day(r) : r \in S}
    OBVIOUS
  <2>2. \A d : Keyed(S, days, d) = {r \in S : Day(r) = d}
    BY DEF Keyed
  <2> HIDE DEF days
  <2> QED BY <2>1, <2>2 DEF AggregateByDay
<1> HIDE DEF S, models, days
<1>5. Total(AggregateByModel(since)) = [count |-> Cardinality(S), cost |-> CostOf(S)]
  BY <1>1, <1>2, TotalOf
<1>6. Total(AggregateByDay(since)) = [count |-> Cardinality(S), cost |-> CostOf(S)]
  BY <1>1, <1>3, TotalOf
<1> QED BY <1>5, <1>6 DEF S
-----------------------------------------------------------------------------
(* The inductive invariant of the money: it balances, and each cost is that  *)
(* of its tokens.                                                            *)

Priced(e) == e.cost \in Costs(e.model, e.prompt, e.completion)

PricedInv == /\ \A h \in Handlers : pc[h] \in {"observe", "meter", "submit"} => Priced(bill[h])
             /\ \A n \in DOMAIN queue : Priced(queue[n])
             /\ \A w \in Workers : step[w] = "sqlite" => Priced(hand[w])
             /\ \A r \in rows : Priced(r)

MoneyInv == Balanced /\ PricedInv

\* What touches neither the log nor a handler with a charge on it.
LEMMA PriceFrame ==
    ASSUME ProxyInv, PricedInv, NEW h \in Handlers, NEW l, GoTo(h, l),
           l \notin {"observe", "meter", "submit"},
           \A g \in Handlers \ {h} : bill'[g] = bill[g], UNCHANGED <<queue, workerVars>>
    PROVE  PricedInv'
<1>1. pc'[h] = l /\ \A g \in Handlers \ {h} : pc'[g] = pc[g]
  BY Facts DEF GoTo
<1> QED BY <1>1 DEF PricedInv, Priced, workerVars

LEMMA MoneyQuiet ==
    ASSUME MoneyInv, UNCHANGED <<pc, bill, tracker, metrics, queue, lost, workerVars>>
    PROVE  MoneyInv'
<1>1. Balanced'
  <2>1. Waiting' = Waiting
    BY DEF Waiting, Sum
  <2> QED BY <2>1, LogFrame, WorkerFrame DEF MoneyInv, Balanced
<1>2. PricedInv'
  BY DEF MoneyInv, PricedInv, Priced, workerVars
<1> QED BY <1>1, <1>2 DEF MoneyInv

\* A step of h that no money is in.
LEMMA MoneyStays ==
    ASSUME ProxyInv, ProxyInv', MoneyInv, NEW h \in Handlers, NEW l \in PC, GoTo(h, l),
           pc[h] \notin {"observe", "meter", "submit"}, l \notin {"observe", "meter", "submit"},
           \A g \in Handlers \ {h} : bill'[g] = bill[g],
           tracker'.total = tracker.total, metrics'.cost = metrics.cost,
           UNCHANGED <<queue, lost, workerVars>>
    PROVE  MoneyInv'
<1>1. Balanced'
  BY MoneyFrame DEF MoneyInv
<1>2. PricedInv'
  BY PriceFrame DEF MoneyInv
<1> QED BY <1>1, <1>2 DEF MoneyInv

\* Up to the charge.
LEMMA MoneyBefore ==
    ASSUME ProxyInv, ProxyInv', MoneyInv, NEW h \in Handlers,
           \/ \E r \in Requests : Begin(h, r)
           \/ Gate(h) \/ OverBudget(h) \/ Hit(h) \/ CountHit(h) \/ ObserveHit(h)
           \/ Miss(h) \/ CountMiss(h) \/ RouteFails(h)
           \/ \E m \in Routed : Route(h, m)
           \/ \E streamed, status, usage : Ends(h, streamed, status, usage)
    PROVE  MoneyInv'
<1>0. {"idle", "gate", "lookup", "hit", "cached", "miss", "route", "call", "charge"} \subseteq PC
  BY DEF PC
<1>a. pc \in [Handlers -> PC] /\ bill \in [Handlers -> Bills] /\ metrics \in Metrics
      /\ tracker \in Books!States
  BY Facts
<1>1. CASE \E r \in Requests : Begin(h, r)
  <2>1. /\ pc[h] = "idle" /\ GoTo(h, "gate")
        /\ UNCHANGED <<bill, tracker, metrics, queue, lost, workerVars>>
    BY <1>1 DEF Begin, Arrives, sinkVars
  <2> QED BY <1>0, <2>1, MoneyStays
<1>2. CASE Gate(h)
  <2>1. /\ pc[h] = "gate" /\ tracker' = Books!RolledState
        /\ GoTo(h, "route") \/ GoTo(h, "lookup")
        /\ UNCHANGED <<bill, metrics, queue, lost, workerVars>>
    BY <1>2 DEF Gate, sinkVars
  <2>2. tracker'.total = tracker.total
    BY <1>a, <2>1, BooksTypes
  <2>3. CASE GoTo(h, "route")
    BY <1>0, <2>1, <2>2, <2>3, MoneyStays
  <2>4. CASE GoTo(h, "lookup")
    BY <1>0, <2>1, <2>2, <2>4, MoneyStays
  <2> QED BY <2>1, <2>3, <2>4
<1>3. CASE OverBudget(h)
  <2>1. /\ pc[h] = "gate" /\ tracker' = Books!RolledState /\ GoTo(h, "idle")
        /\ bill' = [bill EXCEPT ![h] = noBill]
        /\ UNCHANGED <<metrics, queue, lost, workerVars>>
    BY <1>3 DEF OverBudget, Done, sinkVars
  <2>2. tracker'.total = tracker.total
    BY <1>a, <2>1, BooksTypes
  <2>3. \A g \in Handlers \ {h} : bill'[g] = bill[g]
    BY <1>a, <2>1
  <2> QED BY <1>0, <2>1, <2>2, <2>3, MoneyStays
<1>4. CASE Hit(h)
  <2>1. /\ pc[h] = "lookup" /\ GoTo(h, "hit")
        /\ UNCHANGED <<bill, tracker, metrics, queue, lost, workerVars>>
    BY <1>4 DEF Hit, sinkVars
  <2> QED BY <1>0, <2>1, MoneyStays
<1>5. CASE CountHit(h)
  <2>1. /\ pc[h] = "hit" /\ GoTo(h, "cached") /\ metrics' = [metrics EXCEPT !.hits = @ + 1]
        /\ UNCHANGED <<bill, tracker, queue, lost, workerVars>>
    BY <1>5 DEF CountHit
  <2>2. metrics'.cost = metrics.cost
    BY <1>a, <2>1 DEF Metrics
  <2> QED BY <1>0, <2>1, <2>2, MoneyStays
<1>10. CASE ObserveHit(h)
  <2>1. /\ pc[h] = "cached" /\ GoTo(h, "idle") /\ bill' = [bill EXCEPT ![h] = noBill]
        /\ metrics' = [metrics EXCEPT !.requests["cached"] = @ + 1]
        /\ UNCHANGED <<tracker, queue, lost, workerVars>>
    BY <1>10 DEF ObserveHit, Done
  <2>2. metrics'.cost = metrics.cost
    BY <1>a, <2>1 DEF Metrics
  <2>3. \A g \in Handlers \ {h} : bill'[g] = bill[g]
    BY <1>a, <2>1
  <2> QED BY <1>0, <2>1, <2>2, <2>3, MoneyStays
<1>6. CASE Miss(h)
  <2>1. /\ pc[h] = "lookup" /\ GoTo(h, "miss")
        /\ UNCHANGED <<bill, tracker, metrics, queue, lost, workerVars>>
    BY <1>6 DEF Miss, sinkVars
  <2> QED BY <1>0, <2>1, MoneyStays
<1>11. CASE CountMiss(h)
  <2>1. /\ pc[h] = "miss" /\ GoTo(h, "route") /\ metrics' = [metrics EXCEPT !.misses = @ + 1]
        /\ UNCHANGED <<bill, tracker, queue, lost, workerVars>>
    BY <1>11 DEF CountMiss
  <2>2. metrics'.cost = metrics.cost
    BY <1>a, <2>1 DEF Metrics
  <2> QED BY <1>0, <2>1, <2>2, MoneyStays
<1>7. CASE RouteFails(h)
  <2>1. /\ pc[h] = "route" /\ GoTo(h, "idle") /\ bill' = [bill EXCEPT ![h] = noBill]
        /\ UNCHANGED <<tracker, metrics, queue, lost, workerVars>>
    BY <1>7 DEF RouteFails, Done, sinkVars
  <2>2. \A g \in Handlers \ {h} : bill'[g] = bill[g]
    BY <1>a, <2>1
  <2> QED BY <1>0, <2>1, <2>2, MoneyStays
<1>8. ASSUME NEW m \in Routed, Route(h, m) PROVE MoneyInv'
  <2>1. /\ pc[h] = "route" /\ GoTo(h, "call") /\ bill' = [bill EXCEPT ![h].model = m]
        /\ UNCHANGED <<tracker, metrics, queue, lost, workerVars>>
    BY <1>8 DEF Route, sinkVars
  <2>2. \A g \in Handlers \ {h} : bill'[g] = bill[g]
    BY <1>a, <2>1
  <2> QED BY <1>0, <2>1, <2>2, MoneyStays
<1>9. ASSUME NEW streamed, NEW status, NEW usage, Ends(h, streamed, status, usage) PROVE MoneyInv'
  <2>1. /\ pc[h] = "call" /\ GoTo(h, "charge")
        /\ bill' = [bill EXCEPT ![h].status = status, ![h].prompt = usage.prompt,
                                ![h].completion = usage.completion]
        /\ UNCHANGED <<tracker, metrics, queue, lost, workerVars>>
    BY <1>9 DEF Ends, sinkVars
  <2>2. \A g \in Handlers \ {h} : bill'[g] = bill[g]
    BY <1>a, <2>1
  <2> QED BY <1>0, <2>1, <2>2, MoneyStays
<1> QED
  BY <1>1, <1>2, <1>3, <1>4, <1>5, <1>6, <1>7, <1>8, <1>9, <1>10, <1>11

\* The charge: it is what the tokens cost.
LEMMA MoneyCharged ==
    ASSUME ProxyInv, ProxyInv', MoneyInv, NEW h \in Handlers, NEW cost \in Estimate(h),
           Charge(h, cost)
    PROVE  MoneyInv'
<1>1. /\ GoTo(h, "observe") /\ bill' = [bill EXCEPT ![h].cost = cost]
      /\ UNCHANGED <<queue, step, hand, rows>>
  BY DEF Charge, sinkVars, workerVars
<1>2. pc \in [Handlers -> PC] /\ bill \in [Handlers -> Bills]
  BY Facts
<1>3. Priced(bill'[h])
  <2>1. /\ bill'[h].cost = cost /\ bill'[h].model = bill[h].model
        /\ bill'[h].prompt = bill[h].prompt /\ bill'[h].completion = bill[h].completion
    BY <1>1, <1>2 DEF Bills
  <2> QED BY <2>1 DEF Priced, Estimate
<1>4. \A g \in Handlers \ {h} : bill'[g] = bill[g] /\ pc'[g] = pc[g]
  BY <1>1, <1>2 DEF GoTo
<1>5. PricedInv'
  BY <1>1, <1>3, <1>4 DEF MoneyInv, PricedInv, Priced
<1>6. Balanced'
  BY ChargeBalances DEF MoneyInv
<1> QED BY <1>5, <1>6 DEF MoneyInv

\* The records of it.
LEMMA MoneyMetered ==
    ASSUME ProxyInv, ProxyInv', MoneyInv, NEW h \in Handlers, Observe(h) \/ Meter(h)
    PROVE  MoneyInv'
<1>1. /\ pc[h] \in {"observe", "meter"} /\ (GoTo(h, "meter") \/ GoTo(h, "submit"))
      /\ UNCHANGED <<bill, queue, step, hand, rows>>
  BY DEF Observe, Meter, workerVars
<1>2. \A g \in Handlers \ {h} : pc'[g] = pc[g]
  BY <1>1, Facts DEF GoTo
<1>3. PricedInv'
  BY <1>1, <1>2 DEF MoneyInv, PricedInv, Priced
<1>4. Balanced'
  BY MeterBalances DEF MoneyInv
<1> QED BY <1>3, <1>4 DEF MoneyInv

LEMMA MoneySubmitted ==
    ASSUME ProxyInv, ProxyInv', MoneyInv, NEW h \in Handlers, NEW nano \in Nanos, Submit(h, nano)
    PROVE  MoneyInv'
<1> DEFINE e == Entry(h, nano)
<1>1. /\ pc[h] = "submit" /\ GoTo(h, "idle") /\ bill' = [bill EXCEPT ![h] = noBill]
      /\ UNCHANGED workerVars /\ (queue' = Append(queue, e) \/ queue' = queue)
  BY DEF Submit, Done
<1>2. /\ pc \in [Handlers -> PC] /\ bill \in [Handlers -> Bills] /\ queue \in Seq(EntryType)
  BY Facts
<1>3. Priced(e)
  <2>1. Priced(bill[h])
    BY <1>1 DEF MoneyInv, PricedInv
  <2> QED BY <2>1 DEF Priced, Entry
<1>4. pc'[h] = "idle" /\ \A g \in Handlers \ {h} : pc'[g] = pc[g] /\ bill'[g] = bill[g]
  BY <1>1, <1>2 DEF GoTo
<1> HIDE DEF e
<1>5. \A n \in DOMAIN queue' : Priced(queue'[n])
  <2>1. CASE queue' = Append(queue, e)
    <3>1. /\ DOMAIN queue' = 1 .. Len(queue) + 1 /\ Len(queue) \in Nat
          /\ DOMAIN queue = 1 .. Len(queue)
          /\ queue'[Len(queue) + 1] = e /\ \A n \in 1 .. Len(queue) : queue'[n] = queue[n]
      BY <1>2, <2>1, AppendProperties, LenProperties
    <3> QED BY <1>3, <3>1 DEF MoneyInv, PricedInv
  <2>2. CASE queue' = queue
    BY <2>2 DEF MoneyInv, PricedInv
  <2> QED BY <1>1, <2>1, <2>2
<1>6. PricedInv'
  <2>1. \A g \in Handlers : pc'[g] \in {"observe", "meter", "submit"} => Priced(bill'[g])
    BY <1>4 DEF MoneyInv, PricedInv
  <2>2. /\ \A r \in rows' : Priced(r)
        /\ \A w \in Workers : step'[w] = "sqlite" => Priced(hand'[w])
    BY <1>1 DEF MoneyInv, PricedInv, workerVars
  <2> QED BY <1>5, <2>1, <2>2 DEF PricedInv, Priced
<1>7. Balanced'
  BY SubmitBalances DEF MoneyInv
<1> QED BY <1>6, <1>7 DEF MoneyInv

\* The worker that takes an entry on, and the stores it brings it to.
LEMMA MoneyTaken ==
    ASSUME ProxyInv, ProxyInv', MoneyInv, NEW w \in Workers, Take(w)
    PROVE  MoneyInv'
<1>1. /\ queue # <<>> /\ queue' = Tail(queue) /\ UNCHANGED <<pc, bill, rows>>
      /\ step' = [step EXCEPT ![w] = "sqlite"] /\ hand' = [hand EXCEPT ![w] = Head(queue)]
  BY DEF Take, Advance, handlerVars
<1>2. /\ queue \in Seq(EntryType) /\ hand \in [Workers -> EntryType \cup {Nothing}]
      /\ step \in [Workers -> {"select", "sqlite", "jsonl"}]
  BY WorkerFacts
<1>3. /\ 1 \in DOMAIN queue /\ Head(queue) = queue[1]
      /\ \A n \in DOMAIN Tail(queue) : n + 1 \in DOMAIN queue /\ Tail(queue)[n] = queue[n + 1]
  <2>1. /\ Len(queue) \in Nat \ {0} /\ DOMAIN queue = 1 .. Len(queue)
        /\ Len(Tail(queue)) = Len(queue) - 1 /\ DOMAIN Tail(queue) = 1 .. Len(Tail(queue))
        /\ \A n \in 1 .. Len(queue) - 1 : Tail(queue)[n] = queue[n + 1]
    BY <1>1, <1>2, HeadTailProperties, LenProperties
  <2>2. 1 \in DOMAIN queue
    BY <2>1
  <2> QED BY <1>1, <2>1, <2>2
<1>4. PricedInv'
  <2>1. Priced(Head(queue))
    BY <1>3 DEF MoneyInv, PricedInv
  <2>2. \A v \in Workers : step'[v] = "sqlite" => Priced(hand'[v])
    BY <1>1, <1>2, <2>1 DEF MoneyInv, PricedInv
  <2>3. \A n \in DOMAIN queue' : Priced(queue'[n])
    BY <1>1, <1>3 DEF MoneyInv, PricedInv
  <2>4. (\A h \in Handlers : pc'[h] \in {"observe", "meter", "submit"} => Priced(bill'[h]))
        /\ \A r \in rows' : Priced(r)
    BY <1>1 DEF MoneyInv, PricedInv
  <2> QED BY <2>2, <2>3, <2>4 DEF PricedInv, Priced
<1>5. Balanced'
  BY TakeBalances DEF MoneyInv
<1> QED BY <1>4, <1>5 DEF MoneyInv

LEMMA MoneyWritten ==
    ASSUME ProxyInv, ProxyInv', MoneyInv, NEW w \in Workers, InsertRow(w) \/ AppendLine(w)
    PROVE  MoneyInv'
<1>1. /\ UNCHANGED <<pc, bill, queue>> /\ step[w] \in {"sqlite", "jsonl"}
      /\ step' = [step EXCEPT ![w] = "jsonl"] \/ step' = [step EXCEPT ![w] = "select"]
      /\ hand' = hand \/ hand' = [hand EXCEPT ![w] = Nothing]
      /\ rows' = rows \/ (step[w] = "sqlite" /\ rows' = rows \cup {hand[w]})
  BY DEF InsertRow, AppendLine, Insert, Advance, handlerVars
<1>2. /\ hand \in [Workers -> EntryType \cup {Nothing}]
      /\ step \in [Workers -> {"select", "sqlite", "jsonl"}]
  BY WorkerFacts
<1>3. PricedInv'
  <2>1. \A v \in Workers : step'[v] = "sqlite" => Priced(hand'[v])
    BY <1>1, <1>2 DEF MoneyInv, PricedInv
  <2>2. \A r \in rows' : Priced(r)
    BY <1>1 DEF MoneyInv, PricedInv
  <2>3. (\A h \in Handlers : pc'[h] \in {"observe", "meter", "submit"} => Priced(bill'[h]))
        /\ \A n \in DOMAIN queue' : Priced(queue'[n])
    BY <1>1 DEF MoneyInv, PricedInv
  <2> QED BY <2>1, <2>2, <2>3 DEF PricedInv, Priced
<1>4. Balanced'
  BY InsertBalances, AppendBalances DEF MoneyInv
<1> QED BY <1>3, <1>4 DEF MoneyInv

LEMMA InitMoney == Init => MoneyInv
<1> SUFFICES ASSUME Init PROVE MoneyInv
  OBVIOUS
<1>1. \A places : "idle" \notin places => Held(places) = 0
  <2> SUFFICES ASSUME NEW places, "idle" \notin places PROVE Held(places) = 0
    OBVIOUS
  <2> DEFINE S == {h \in Handlers : pc[h] \in places}
             f == [h \in S |-> bill[h].cost]
  <2>1. S = {}
    BY DEF Init
  <2>2. Held(places) = SumFunctionOnSet(f, S)
    BY DEF Held, SumFunction
  <2> HIDE DEF f
  <2> QED BY <2>1, <2>2, SumEmpty
<1>2. Unmetered = 0 /\ Unlogged = 0
  BY <1>1 DEF Unmetered, Unlogged
<1>3. Sum(<<>>) = 0
  <2> DEFINE f == [n \in DOMAIN <<>> |-> <<>>[n].cost]
  <2>1. DOMAIN <<>> = {}
    OBVIOUS
  <2>2. Sum(<<>>) = SumFunctionOnSet(f, {})
    BY <2>1 DEF Sum, SumFunction
  <2> HIDE DEF f
  <2> QED BY <2>2, SumEmpty
<1>4. InFile = 0 /\ NotFiled = 0 /\ NotStored = 0 /\ Waiting = 0 /\ Forgone = 0
  BY <1>3 DEF Init, InFile, NotFiled, NotStored, Waiting, Forgone
<1>7. ToFile = 0 /\ ToTable = 0
  <2> SUFFICES ASSUME NEW places, "select" \notin places PROVE Carried(places) = 0
    BY DEF ToFile, ToTable
  <2> DEFINE S == Busy(places)
             f == [w \in S |-> hand[w].cost]
  <2>1. S = {}
    BY DEF Init, Busy
  <2>2. Carried(places) = SumFunctionOnSet(f, S)
    BY DEF Carried, SumFunction
  <2> HIDE DEF f
  <2> QED BY <2>1, <2>2, SumEmpty
<1>9. InTable = 0 /\ IsFiniteSet(rows)
  <2> DEFINE f == [r \in rows |-> r.cost]
  <2>1. rows = {}
    BY DEF Init
  <2>2. InTable = SumFunctionOnSet(f, {})
    BY <2>1 DEF InTable, CostOf, SumFunction
  <2> HIDE DEF f
  <2> QED BY <2>1, <2>2, SumEmpty, FS_EmptySet
<1>5. Paid = 0 /\ Metered = 0
  BY DEF Init, Paid, Metered, zeroMetrics, Books!Fresh
<1>6. Balanced
  BY <1>2, <1>4, <1>5, <1>7, <1>9 DEF Balanced
<1>8. PricedInv
  BY DEF Init, PricedInv
<1> QED BY <1>6, <1>8 DEF MoneyInv

LEMMA NextMoney ==
    ASSUME ProxyInv, ProxyInv', MoneyInv, [Next]_vars
    PROVE  MoneyInv'
<1>1. CASE PassTime
  BY <1>1, MoneyQuiet DEF PassTime, handlerVars, sinkVars
<1>2. ASSUME NEW w \in Workers, Work(w) PROVE MoneyInv'
  BY <1>2, MoneyTaken, MoneyWritten DEF Work
<1>3. ASSUME NEW h \in Handlers, Handle(h) PROVE MoneyInv'
  <2>1. ASSUME NEW r \in Requests, TurnAway(h, r) \/ Throttle(h, r) \/ Serve(h, r)
        PROVE  MoneyInv'
    BY <2>1, MoneyQuiet DEF TurnAway, Throttle, Serve, Arrives, handlerVars, sinkVars
  <2>2. CASE \/ \E r \in Requests : Begin(h, r)
             \/ Gate(h) \/ OverBudget(h) \/ Hit(h) \/ CountHit(h) \/ ObserveHit(h)
             \/ Miss(h) \/ CountMiss(h) \/ RouteFails(h)
             \/ \E m \in Routed : Route(h, m)
    BY <2>2, MoneyBefore
  <2>3. CASE Fail(h) \/ StreamEnds(h) \/ \E usage \in Usages : Complete(h, usage)
    <3>1. \E streamed, status, usage : Ends(h, streamed, status, usage)
      BY <2>3 DEF Fail, StreamEnds, Complete
    <3> QED BY <3>1, MoneyBefore
  <2>4. ASSUME NEW cost \in Estimate(h), Charge(h, cost) PROVE MoneyInv'
    BY <2>4, MoneyCharged
  <2>5. CASE Observe(h) \/ Meter(h)
    BY <2>5, MoneyMetered
  <2>6. ASSUME NEW nano \in Nanos, Submit(h, nano) PROVE MoneyInv'
    BY <2>6, MoneySubmitted
  <2> QED BY <1>3, <2>1, <2>2, <2>3, <2>4, <2>5, <2>6 DEF Handle
<1>4. CASE UNCHANGED vars
  BY <1>4, MoneyQuiet DEF vars, handlerVars, sinkVars
<1> QED BY <1>1, <1>2, <1>3, <1>4 DEF Next

LEMMA MoneyInvariance == Spec => []MoneyInv
BY ProxyInvariance, InitMoney, NextMoney, PTL DEF Spec

\* Whatever handlers are doing and however many there are, the tracker, the
\* metrics, the file and the table tell one story of the money.
THEOREM MoneyReconcilesHolds == Spec => []MoneyReconciles
<1>1. ProxyInv /\ MoneyInv => MoneyReconciles
  <2> SUFFICES ASSUME ProxyInv, MoneyInv PROVE MoneyReconciles
    OBVIOUS
  <2> DEFINE start == -TicksPerSecond
  <2>1. rows \subseteq EntryType /\ IsFiniteSet(rows)
    BY DEF MoneyInv, Balanced, ProxyInv, TypeOK
  <2>2. Since(start) = rows
    <3>1. start \in Int /\ start + TicksPerSecond = 0
      BY WallClockAssumption
    <3>2. \A r \in rows : r.ts \in Int /\ r.ts >= 0
      BY <2>1 DEF EntryType, Time
    <3> HIDE DEF start
    <3>3. \A r \in rows : Text(r.ts) >= Text(start)
      BY <3>1, <3>2, TextOrder
    <3> QED BY <3>3 DEF Since
  <2>3. Total(AggregateByModel(start)).cost = CostOf(rows)
    BY <2>1, <2>2, OneTotal
  <2>4. /\ tracker.total = Metered + Unmetered
        /\ tracker.total = InFile + NotFiled + ToFile + (Waiting + Forgone + Unlogged)
        /\ tracker.total = InTable + NotStored + ToTable + (Waiting + Forgone + Unlogged)
    BY <2>1, Amounts DEF MoneyInv, Balanced, Paid
  <2> QED
    BY <2>3, <2>4 DEF MoneyReconciles, Metered, Unmetered, InFile, NotFiled, ToFile, InTable,
                      NotStored, ToTable, Waiting, Forgone, Unlogged
<1> QED BY <1>1, ProxyInvariance, MoneyInvariance, PTL
-----------------------------------------------------------------------------
(* What the reports and the savings say, for any table of prices.            *)

LEMMA TableTyped ==
    /\ DOMAIN table = names /\ names # {} /\ IsFiniteSet(names)
    /\ \A k \in names : table[k].input \in Nat /\ table[k].output \in Nat
<1> DEFINE Meta == [name : STRING, input : Nat, output : Nat, vision : BOOLEAN]
           l == Len(data)
<1>1. data \in Seq(Meta) /\ data # <<>>
  BY PricesAssumption
<1> HIDE DEF Meta
<1>2. l \in Nat /\ DOMAIN data = 1 .. l /\ \A n \in 1 .. l : data[n] \in Meta
  BY <1>1, LenProperties
<1>3. l # 0
  BY <1>1, EmptySeq
<1>4. IsFiniteSet(DOMAIN data)
  <2>1. \A k \in Nat : IsFiniteSet(1 .. k)
    BY FS_Interval
  <2> QED BY <1>2, <2>1
<1>5. DOMAIN table = names
  BY DEF table, Load, names
<1>6. names # {}
  <2>1. 1 \in DOMAIN data
    BY <1>2, <1>3
  <2> QED BY <2>1 DEF names
<1>7. IsFiniteSet(names)
  <2> DEFINE name == [n \in DOMAIN data |-> data[n].name]
  <2>1. names = {name[n] : n \in DOMAIN data}
    BY DEF names
  <2> HIDE DEF name
  <2> QED BY <1>4, <2>1, ImageFinite
<1>8. ASSUME NEW k \in names PROVE table[k].input \in Nat /\ table[k].output \in Nat
  <2> DEFINE those == {n \in DOMAIN data : data[n].name = k}
  <2>1. those \subseteq Int /\ those # {} /\ those \subseteq DOMAIN data
    BY <1>2 DEF names
  <2>2. IsFiniteSet(those)
    BY <1>4, FS_Subset
  <2>3. table[k] = data[Max(those)]
    BY DEF table, Load, names
  <2> HIDE DEF those
  <2>4. Max(those) \in those
    BY <2>1, <2>2, MaxIn
  <2>5. data[Max(those)] \in Meta
    BY <1>2, <2>1, <2>4
  <2> QED BY <2>3, <2>5 DEF Meta
<1> QED BY <1>5, <1>6, <1>7, <1>8

\* The last of All is dearest for input.
LEMMA DearestForInput ==
    mostExpensive \in names /\ \A k \in names : table[k].input <= table[mostExpensive].input
<1> DEFINE R == {p \in names \X names : Cheaper(p[1], p[2])}
           place == [a \in names |-> 1 + Cardinality(Preceding(R, names, a))]
           c == Cardinality(names)
<1>1. \A a, b \in names : <<a, b>> \in R <=> Cheaper(a, b)
  OBVIOUS
<1>2. \A a \in names : Letter(a) \in Int /\ Alphabet[Letter(a)] = a
  <2>1. Alphabet \in Seq(names) /\ ToSet(Alphabet) = names
    BY PricesAssumption
  <2>2. DOMAIN Alphabet = 1 .. Len(Alphabet) /\ Len(Alphabet) \in Nat
    BY <2>1, LenProperties
  <2>3. \A a \in names : \E n \in DOMAIN Alphabet : Alphabet[n] = a
    BY <2>1 DEF ToSet
  <2>4. \A a \in names : Letter(a) \in DOMAIN Alphabet /\ Alphabet[Letter(a)] = a
    BY <2>3 DEF Letter
  <2> QED BY <2>2, <2>4
<1>3. \A a \in names : table[a].input \in Int
  BY TableTyped
<1> HIDE DEF R
<1>4. Orders(R, names)
  <2>1. \A a \in names : ~Cheaper(a, a)
    BY <1>2, <1>3 DEF Cheaper
  <2>2. \A a, b \in names : a # b => Cheaper(a, b) \/ Cheaper(b, a)
    <3> SUFFICES ASSUME NEW a \in names, NEW b \in names, a # b
                 PROVE  Cheaper(a, b) \/ Cheaper(b, a)
      OBVIOUS
    <3>1. Letter(a) # Letter(b)
      BY <1>2
    <3> QED BY <1>2, <1>3, <3>1 DEF Cheaper
  <2>3. \A a, b, d \in names : Cheaper(a, b) /\ Cheaper(b, d) => Cheaper(a, d)
    BY <1>2, <1>3 DEF Cheaper
  <2> QED BY <1>1, <2>1, <2>2, <2>3 DEF Orders
<1>5. IsFiniteSet(names) /\ names # {} /\ DOMAIN table = names
  BY TableTyped
<1>6. /\ place \in Bijection(names, 1 .. c) /\ c \in Nat
      /\ \A a, b \in names : <<a, b>> \in R => place[a] < place[b]
  BY <1>4, <1>5, Placed
<1>7. \A a \in names : Place(a) = place[a]
  <2>1. \A a \in names : {b \in names : Cheaper(b, a)} = Preceding(R, names, a)
    BY <1>1 DEF Preceding
  <2> QED BY <1>5, <2>1 DEF Place
<1>8. c # 0
  BY <1>5, FS_EmptySet
<1> HIDE DEF place, c
<1>9. c \in 1 .. c
  BY <1>6, <1>8
<1> DEFINE last == CHOOSE a \in names : Place(a) = c
<1>10. last \in names /\ place[last] = c
  <2>1. \E a \in names : Place(a) = c
    BY <1>6, <1>7, <1>9 DEF Bijection, Surjection
  <2> QED BY <1>7, <2>1
<1>11. mostExpensive = last
  <2>1. All = [p \in 1 .. c |-> CHOOSE a \in names : Place(a) = p]
    BY <1>5 DEF All, c
  <2>2. DOMAIN All = 1 .. c /\ All[c] = last
    BY <1>9, <2>1
  <2>3. All \in Seq(names)
    <3>1. \A p \in 1 .. c : (CHOOSE a \in names : Place(a) = p) \in names
      <4> SUFFICES ASSUME NEW p \in 1 .. c PROVE (CHOOSE a \in names : Place(a) = p) \in names
        OBVIOUS
      <4>1. \E a \in names : Place(a) = p
        BY <1>6, <1>7 DEF Bijection, Surjection
      <4> QED BY <4>1
    <3>2. All \in [1 .. c -> names]
      BY <2>1, <3>1
    <3> QED BY <1>6, <3>2, SeqDef
  <2>4. Len(All) = c
    <3> DEFINE n == Len(All)
    <3>1. n \in Nat /\ DOMAIN All = 1 .. n
      BY <2>3, LenProperties
    <3> HIDE DEF n
    <3>2. 1 .. n = 1 .. c
      BY <2>2, <3>1
    <3>3. c \in 1 .. n /\ (n # 0 => n \in 1 .. c)
      BY <1>9, <3>1, <3>2
    <3>4. n = c
      BY <1>6, <1>8, <3>1, <3>3
    <3> QED BY <3>4 DEF n
  <2>5. All # <<>>
    BY <1>8, <2>4
  <2> HIDE DEF last
  <2> QED BY <2>2, <2>4, <2>5 DEF mostExpensive, Last
<1> HIDE DEF last
<1>12. ASSUME NEW k \in names PROVE table[k].input <= table[last].input
  <2>1. CASE k = last
    BY <1>3, <1>10, <2>1
  <2>2. CASE k # last
    <3>1. <<last, k>> \notin R
      <4>1. place[k] \in 1 .. c
        BY <1>6 DEF Bijection, Surjection
      <4> QED BY <1>6, <1>10, <4>1
    <3>2. Cheaper(k, last)
      BY <1>1, <1>4, <1>10, <2>2, <3>1 DEF Orders
    <3> QED BY <1>3, <1>10, <3>2 DEF Cheaper
  <2> QED BY <2>1, <2>2
<1> QED BY <1>10, <1>11, <1>12

\* So what a row costs is no more than at the prices of that entry, if it is
\* dearest for output too.
LEMMA DearestCosts ==
    ASSUME DearestForBoth, NEW r \in EntryType, Priced(r)
    PROVE  /\ Price(table[mostExpensive], r.prompt, r.completion) \in Nat
           /\ r.cost <= Price(table[mostExpensive], r.prompt, r.completion)
<1> DEFINE top == table[mostExpensive]
           p == r.prompt
           q == r.completion
<1>1. p \in Nat /\ q \in Nat
  BY DEF EntryType
<1>2. mostExpensive \in names /\ top.input \in Nat /\ top.output \in Nat
  BY TableTyped, DearestForInput
<1>3. Price(top, p, q) \in Nat
  <2> DEFINE a == top.input
             b == top.output
  <2>1. a \in Nat /\ b \in Nat /\ Price(top, p, q) = a * p + b * q
    BY <1>2 DEF Price
  <2> HIDE DEF a, b, p, q, top
  <2>2. a * p \in Nat /\ b * q \in Nat
    BY <1>1, <2>1
  <2> QED BY <2>1, <2>2
<1>4. ASSUME NEW k \in names PROVE Price(table[k], p, q) <= Price(top, p, q)
  <2> DEFINE a == top.input
             b == top.output
             d == table[k].input
             e == table[k].output
  <2>1. /\ a \in Nat /\ b \in Nat /\ d \in Nat /\ e \in Nat /\ d <= a /\ e <= b
        /\ Price(top, p, q) = a * p + b * q /\ Price(table[k], p, q) = d * p + e * q
    BY <1>2, TableTyped, DearestForInput DEF Price, DearestForBoth
  <2> HIDE DEF a, b, d, e, p, q, top
  <2>2. \A x, y, z \in Nat : x <= y => x * z \in Nat /\ y * z \in Nat /\ x * z <= y * z
    OBVIOUS
  <2>3. d * p \in Nat /\ a * p \in Nat /\ d * p <= a * p
    BY <1>1, <2>1, <2>2
  <2>4. e * q \in Nat /\ b * q \in Nat /\ e * q <= b * q
    BY <1>1, <2>1, <2>2
  <2> QED BY <2>1, <2>3, <2>4
<1>5. r.cost = 0 \/ \E k \in names : r.cost = Price(table[k], p, q)
  <2>1. \A m \in Lookup(r.model) : \E k \in names : m = table[k]
    BY TableTyped DEF Lookup
  <2> QED BY <2>1 DEF Priced, Costs
<1> QED BY <1>3, <1>4, <1>5

\* What Compute makes of rows that it found.
LEMMA SavingsOf ==
    ASSUME NEW found \in SUBSET EntryType, IsFiniteSet(found), \A r \in found : Priced(r),
           DearestForBoth
    PROVE  CostOf(found) <=
             SumFunction([r \in found |-> Price(table[mostExpensive], r.prompt, r.completion)])
<1> DEFINE c == [r \in found |-> r.cost]
           b == [r \in found |-> Price(table[mostExpensive], r.prompt, r.completion)]
<1>1. \A r \in found : c[r] \in Int /\ b[r] \in Int /\ c[r] <= b[r]
  BY DearestCosts DEF EntryType
<1>2. CostOf(found) = SumFunctionOnSet(c, found) /\ SumFunction(b) = SumFunctionOnSet(b, found)
  BY DEF CostOf, SumFunction
<1> HIDE DEF c, b
<1>3. SumFunctionOnSet(c, found) <= SumFunctionOnSet(b, found)
  BY <1>1, SumGrows
<1> QED BY <1>2, <1>3 DEF b

\* For any table of prices, any rows that handlers can have written and any
\* moment to start from.
THEOREM ReportsAgreeHolds == Spec => []ReportsAgree
<1>1. ProxyInv /\ MoneyInv => ReportsAgree
  <2> SUFFICES ASSUME ProxyInv, MoneyInv, NEW since \in Time
               PROVE  LET model == Total(AggregateByModel(since))
                          later(t) == CostOf({r \in rows : r.ts >= t})
                      IN  /\ Total(AggregateByDay(since)) = model
                          /\ later(since + TicksPerSecond) <= model.cost
                          /\ model.cost <= later(since - TicksPerSecond + 1)
                          /\ \A sums \in Compute(since, table[mostExpensive]) :
                               /\ model.count <= QueryLimit =>
                                    sums.count = model.count /\ sums.actual = model.cost
                               /\ model.count > QueryLimit =>
                                    sums.count = QueryLimit /\ sums.actual <= model.cost
                               /\ DearestForBoth => sums.actual <= sums.baseline
    BY DEF ReportsAgree
  <2> DEFINE S == Since(since)
             early == since - TicksPerSecond + 1
             late == since + TicksPerSecond
             from(t) == {r \in rows : r.ts >= t}
             model == Total(AggregateByModel(since))
  <2>1. rows \subseteq EntryType /\ IsFiniteSet(rows) /\ S \in SUBSET rows
    BY DEF MoneyInv, Balanced, ProxyInv, TypeOK, Since
  <2>2. model.count = Cardinality(S) /\ model.cost = CostOf(S)
    BY <2>1, OneTotal
  <2>3. Total(AggregateByDay(since)) = model
    BY <2>1, OneTotal
  <2>4. \A r \in rows : r.ts \in Int
    BY <2>1 DEF EntryType, Time
  <2>5. since \in Int
    BY DEF Time
  <2>6. from(late) \in SUBSET S
    BY <2>4, <2>5, TextOrder DEF Since
  <2>7. S \in SUBSET from(early)
    BY <2>1, <2>4, <2>5, TextOrder DEF Since
  <2>8. /\ IsFiniteSet(S) /\ S \in SUBSET EntryType
        /\ IsFiniteSet(from(early)) /\ from(early) \in SUBSET EntryType
    BY <2>1, FS_Subset
  <2>9. CostOf(from(late)) <= model.cost
    <3> HIDE DEF from, S
    <3> QED BY <2>2, <2>6, <2>8, CostTyped
  <2>10. model.cost <= CostOf(from(early))
    <3> HIDE DEF from, S
    <3> QED BY <2>2, <2>7, <2>8, CostTyped
  <2>11. ASSUME NEW sums \in Compute(since, table[mostExpensive])
         PROVE  /\ model.count <= QueryLimit =>
                     sums.count = model.count /\ sums.actual = model.cost
                /\ model.count > QueryLimit =>
                     sums.count = QueryLimit /\ sums.actual <= model.cost
                /\ DearestForBoth => sums.actual <= sums.baseline
    <3>1. PICK found \in Query(since, QueryLimit) :
             sums = [count |-> Cardinality(found), actual |-> CostOf(found),
                     baseline |-> SumFunction([r \in found |->
                                      Price(table[mostExpensive], r.prompt, r.completion)])]
      BY DEF Compute
    <3> DEFINE dear == SumFunction([r \in found |->
                                      Price(table[mostExpensive], r.prompt, r.completion)])
    <3>2. sums.count = Cardinality(found) /\ sums.actual = CostOf(found) /\ sums.baseline = dear
      BY <3>1
    <3>3. Cardinality(S) \in Nat /\ QueryLimit \in Nat
      BY <2>8, FS_CardinalityType, RequestLogAssumption
    <3>4. /\ found \in SUBSET S
          /\ Cardinality(S) <= QueryLimit => found = S
          /\ Cardinality(S) > QueryLimit => Cardinality(found) = QueryLimit
      BY <3>3 DEF Query, kSubset
    <3>5. CostOf(found) <= CostOf(S)
      <4> HIDE DEF S
      <4> QED BY <2>8, <3>4, CostTyped
    <3>6. DearestForBoth => CostOf(found) <= dear
      <4>1. found \in SUBSET EntryType /\ IsFiniteSet(found)
        BY <2>8, <3>4, FS_Subset
      <4>2. \A r \in found : Priced(r)
        BY <2>1, <3>4 DEF MoneyInv, PricedInv
      <4> QED BY <4>1, <4>2, SavingsOf
    <3> HIDE DEF dear, S, model
    <3> QED BY <2>2, <3>2, <3>4, <3>5, <3>6
  <2> HIDE DEF S, model
  <2> QED BY <2>3, <2>9, <2>10, <2>11 DEF model
<1> QED BY <1>1, ProxyInvariance, MoneyInvariance, PTL
=============================================================================
