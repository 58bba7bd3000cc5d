------------------------- MODULE PromptCacheProofs -------------------------
(* The prompt cache for any number of handlers and keys, any size and TTL:   *)
(* what becomes of entries, which of them stay, and what a lookup brings.    *)
EXTENDS PromptCache, FiniteSetTheorems, SequenceTheorems, TLAPS

(* The list operations that the code's list.List offers, position by position. *)
LEMMA RemoveFacts ==
    ASSUME NEW L \in Seq(Entry), NEW i \in 1 .. Len(L)
    PROVE  /\ RemoveAt(L, i) \in Seq(Entry)
           /\ Len(RemoveAt(L, i)) = Len(L) - 1
           /\ \A n \in 1 .. Len(L) - 1 : RemoveAt(L, i)[n] = IF n < i THEN L[n] ELSE L[n + 1]
<1> DEFINE A == SubSeq(L, 1, i - 1)
           B == SubSeq(L, i + 1, Len(L))
<1>1. Len(L) \in Nat /\ \A n \in 1 .. Len(L) : L[n] \in Entry
  BY LenProperties
<1>2. /\ A \in Seq(Entry) /\ Len(A) = i - 1
      /\ \A n \in 1 .. i - 1 : A[n] = L[n]
  <2>1. \A n \in 1 .. i - 1 : L[n] \in Entry
    BY <1>1
  <2>2. /\ A \in Seq(Entry) /\ Len(A) = (IF 1 <= i - 1 THEN i - 1 - 1 + 1 ELSE 0)
        /\ \A n \in 1 .. i - 1 - 1 + 1 : A[n] = L[1 + n - 1]
    BY <2>1, SubSeqProperties
  <2> HIDE DEF A
  <2> QED BY <2>2
<1>3. /\ B \in Seq(Entry) /\ Len(B) = Len(L) - i
      /\ \A n \in 1 .. Len(L) - i : B[n] = L[i + n]
  <2>1. \A n \in i + 1 .. Len(L) : L[n] \in Entry
    BY <1>1
  <2>2. /\ B \in Seq(Entry)
        /\ Len(B) = (IF i + 1 <= Len(L) THEN Len(L) - (i + 1) + 1 ELSE 0)
        /\ \A n \in 1 .. Len(L) - (i + 1) + 1 : B[n] = L[(i + 1) + n - 1]
    BY <1>1, <2>1, SubSeqProperties
  <2> HIDE DEF B
  <2>3. Len(B) = Len(L) - i
    BY <1>1, <2>2
  <2>4. \A n \in 1 .. Len(L) - i : n \in 1 .. Len(L) - (i + 1) + 1 /\ (i + 1) + n - 1 = i + n
    BY <1>1
  <2> QED BY <2>2, <2>3, <2>4
<1>4. RemoveAt(L, i) = A \o B
  BY DEF RemoveAt
<1> HIDE DEF A, B
<1>5. /\ A \o B \in Seq(Entry) /\ Len(A \o B) = Len(A) + Len(B)
      /\ \A n \in 1 .. Len(A) + Len(B) :
            (A \o B)[n] = IF n <= Len(A) THEN A[n] ELSE B[n - Len(A)]
  BY <1>2, <1>3, ConcatProperties
<1>6. Len(A) + Len(B) = Len(L) - 1
  BY <1>1, <1>2, <1>3
<1>7. ASSUME NEW n \in 1 .. Len(L) - 1
      PROVE  (A \o B)[n] = IF n < i THEN L[n] ELSE L[n + 1]
  <2>1. CASE n < i
    <3>1. n \in 1 .. i - 1 /\ n <= Len(A) /\ n \in 1 .. Len(A) + Len(B)
      BY <1>1, <1>2, <1>6, <2>1
    <3> QED BY <1>2, <1>5, <2>1, <3>1
  <2>2. CASE ~(n < i)
    <3>1. /\ n - (i - 1) \in 1 .. Len(L) - i /\ ~(n <= Len(A)) /\ n \in 1 .. Len(A) + Len(B)
          /\ i + (n - (i - 1)) = n + 1
      BY <1>1, <1>2, <1>6, <2>2
    <3>2. (A \o B)[n] = B[n - (i - 1)]
      BY <1>2, <1>5, <3>1
    <3>3. B[n - (i - 1)] = L[i + (n - (i - 1))]
      BY <1>3, <3>1
    <3> QED BY <2>2, <3>1, <3>2, <3>3
  <2> QED BY <2>1, <2>2
<1> QED BY <1>4, <1>5, <1>6, <1>7

\* PushFront.
LEMMA PrependFacts ==
    ASSUME NEW L \in Seq(Entry), NEW e \in Entry
    PROVE  /\ <<e>> \o L \in Seq(Entry)
           /\ Len(<<e>> \o L) = Len(L) + 1
           /\ (<<e>> \o L)[1] = e
           /\ \A n \in 2 .. Len(L) + 1 : (<<e>> \o L)[n] = L[n - 1]
<1>1. <<e>> \in Seq(Entry) /\ Len(<<e>>) = 1 /\ <<e>>[1] = e
  OBVIOUS
<1>2. Len(L) \in Nat
  BY LenProperties
<1>3. /\ <<e>> \o L \in Seq(Entry) /\ Len(<<e>> \o L) = 1 + Len(L)
      /\ \A n \in 1 .. 1 + Len(L) : (<<e>> \o L)[n] = IF n <= 1 THEN <<e>>[n] ELSE L[n - 1]
  <2>1. /\ <<e>> \o L \in Seq(Entry) /\ Len(<<e>> \o L) = Len(<<e>>) + Len(L)
        /\ \A n \in 1 .. Len(<<e>>) + Len(L) :
              (<<e>> \o L)[n] = IF n <= Len(<<e>>) THEN <<e>>[n] ELSE L[n - Len(<<e>>)]
    BY <1>1, ConcatProperties
  <2> QED BY <1>1, <2>1
<1> DEFINE M == <<e>> \o L
<1> HIDE DEF M
<1>4. /\ M \in Seq(Entry) /\ Len(M) = 1 + Len(L)
      /\ \A n \in 1 .. 1 + Len(L) : M[n] = IF n <= 1 THEN <<e>>[n] ELSE L[n - 1]
  BY <1>3 DEF M
<1>5. M[1] = e
  BY <1>1, <1>2, <1>4
<1>6. \A n \in 2 .. Len(L) + 1 : M[n] = L[n - 1]
  BY <1>2, <1>4
<1>7. Len(M) = Len(L) + 1
  BY <1>2, <1>4
<1> QED BY <1>4, <1>5, <1>6, <1>7 DEF M

\* Removing the back element.
LEMMA FrontFacts ==
    ASSUME NEW L \in Seq(Entry), Len(L) >= 1
    PROVE  /\ Front(L) \in Seq(Entry)
           /\ Len(Front(L)) = Len(L) - 1
           /\ \A n \in 1 .. Len(L) - 1 : Front(L)[n] = L[n]
<1>1. Len(L) \in Nat /\ \A n \in 1 .. Len(L) - 1 : L[n] \in Entry
  BY LenProperties
<1> DEFINE F == SubSeq(L, 1, Len(L) - 1)
<1>2. /\ F \in Seq(Entry)
      /\ Len(F) = (IF 1 <= Len(L) - 1 THEN (Len(L) - 1) - 1 + 1 ELSE 0)
      /\ \A n \in 1 .. (Len(L) - 1) - 1 + 1 : F[n] = L[1 + n - 1]
  BY <1>1, SubSeqProperties
<1>3. Front(L) = F
  BY DEF Front
<1> HIDE DEF F
<1>4. Len(F) = Len(L) - 1
  <2>1. Len(F) = (IF 1 <= Len(L) - 1 THEN (Len(L) - 1) - 1 + 1 ELSE 0)
    BY <1>2
  <2>2. \A l \in Nat : l >= 1 => (IF 1 <= l - 1 THEN (l - 1) - 1 + 1 ELSE 0) = l - 1
    OBVIOUS
  <2> QED BY <1>1, <2>1, <2>2
<1>5. \A n \in 1 .. Len(L) - 1 : F[n] = L[n]
  <2>1. \A n \in 1 .. Len(L) - 1 : n \in 1 .. (Len(L) - 1) - 1 + 1 /\ 1 + n - 1 = n
    BY <1>1
  <2> QED BY <1>2, <2>1
<1> QED BY <1>2, <1>3, <1>4, <1>5
-----------------------------------------------------------------------------
(* What the three changes of the list do to the keys in it.                  *)
Keyed(L) == \A a, b \in DOMAIN L : L[a].key = L[b].key => a = b
KeysOf(L) == {L[n].key : n \in DOMAIN L}

\* An entry is dropped.
LEMMA DroppedFacts ==
    ASSUME NEW L \in Seq(Entry), Keyed(L), NEW i \in 1 .. Len(L)
    PROVE  LET M == RemoveAt(L, i)
           IN  /\ M \in Seq(Entry) /\ Len(M) = Len(L) - 1
               /\ \A n \in 1 .. Len(M) : M[n] = L[IF n < i THEN n ELSE n + 1]
               /\ Keyed(M) /\ KeysOf(M) = KeysOf(L) \ {L[i].key}
<1> DEFINE M == RemoveAt(L, i)
           from(n) == IF n < i THEN n ELSE n + 1
<1>1. Len(L) \in Nat /\ DOMAIN L = 1 .. Len(L)
  BY LenProperties
<1>2. /\ M \in Seq(Entry) /\ Len(M) = Len(L) - 1
      /\ \A n \in 1 .. Len(L) - 1 : M[n] = IF n < i THEN L[n] ELSE L[n + 1]
  BY RemoveFacts
<1> HIDE DEF M
<1>3. DOMAIN M = 1 .. Len(M)
  BY <1>2, LenProperties
<1>4. \A n \in 1 .. Len(M) : M[n] = L[from(n)]
  BY <1>2
<1>5. /\ \A n \in 1 .. Len(M) : from(n) \in 1 .. Len(L) /\ from(n) # i
      /\ \A a, b \in 1 .. Len(M) : from(a) = from(b) => a = b
      /\ \A m \in 1 .. Len(L) : m # i => \E n \in 1 .. Len(M) : from(n) = m
  <2>1. \A n \in 1 .. Len(M) : from(n) \in 1 .. Len(L) /\ from(n) # i
    BY <1>1, <1>2
  <2>2. \A a, b \in 1 .. Len(M) : from(a) = from(b) => a = b
    BY <1>1, <1>2
  <2>3. ASSUME NEW m \in 1 .. Len(L), m # i PROVE \E n \in 1 .. Len(M) : from(n) = m
    <3>1. CASE m < i
      <4>1. m \in 1 .. Len(M) /\ from(m) = m
        BY <1>1, <1>2, <2>3, <3>1
      <4> QED BY <4>1
    <3>2. CASE m > i
      <4>1. m - 1 \in 1 .. Len(M) /\ from(m - 1) = m
        BY <1>1, <1>2, <2>3, <3>2
      <4> QED BY <4>1
    <3> QED BY <1>1, <2>3, <3>1, <3>2
  <2> QED BY <2>1, <2>2, <2>3
<1> HIDE DEF from
<1>6. Keyed(M)
  BY <1>1, <1>3, <1>4, <1>5 DEF Keyed
<1>7. KeysOf(M) = KeysOf(L) \ {L[i].key}
  <2>1. ASSUME NEW k \in KeysOf(M) PROVE k \in KeysOf(L) /\ k # L[i].key
    <3>1. PICK n \in 1 .. Len(M) : k = M[n].key
      BY <1>3 DEF KeysOf
    <3>2. k = L[from(n)].key /\ from(n) \in DOMAIN L /\ from(n) # i
      BY <1>1, <1>4, <1>5, <3>1
    <3> QED BY <1>1, <3>2 DEF Keyed, KeysOf
  <2>2. ASSUME NEW k \in KeysOf(L), k # L[i].key PROVE k \in KeysOf(M)
    <3>1. PICK m \in 1 .. Len(L) : k = L[m].key
      BY <1>1 DEF KeysOf
    <3>2. PICK n \in 1 .. Len(M) : from(n) = m
      BY <1>5, <2>2, <3>1
    <3> QED BY <1>3, <1>4, <3>1, <3>2 DEF KeysOf
  <2> QED BY <2>1, <2>2
<1> QED BY <1>2, <1>4, <1>6, <1>7 DEF M, from

\* An entry comes to the front, as it was or renewed.
LEMMA MovedFacts ==
    ASSUME NEW L \in Seq(Entry), Keyed(L), NEW i \in 1 .. Len(L),
           NEW e \in Entry, e.key = L[i].key
    PROVE  LET M == <<e>> \o RemoveAt(L, i)
           IN  /\ M \in Seq(Entry) /\ Len(M) = Len(L) /\ M[1] = e
               /\ \A n \in 2 .. Len(M) : M[n] = L[IF n - 1 < i THEN n - 1 ELSE n]
               /\ Keyed(M) /\ KeysOf(M) = KeysOf(L)
<1> DEFINE R == RemoveAt(L, i)
           M == <<e>> \o R
<1>1. Len(L) \in Nat /\ DOMAIN L = 1 .. Len(L)
  BY LenProperties
<1>2. /\ R \in Seq(Entry) /\ Len(R) = Len(L) - 1
      /\ \A n \in 1 .. Len(R) : R[n] = L[IF n < i THEN n ELSE n + 1]
      /\ Keyed(R) /\ KeysOf(R) = KeysOf(L) \ {L[i].key}
  BY DroppedFacts
<1> HIDE DEF R
<1>3. /\ M \in Seq(Entry) /\ Len(M) = Len(R) + 1 /\ M[1] = e
      /\ \A n \in 2 .. Len(R) + 1 : M[n] = R[n - 1]
  BY <1>2, PrependFacts
<1> HIDE DEF M
<1>4. /\ DOMAIN M = 1 .. Len(M) /\ DOMAIN R = 1 .. Len(R)
      /\ Len(R) \in Nat /\ Len(M) \in Nat
  BY <1>2, <1>3, LenProperties
<1>5. Len(M) = Len(L)
  BY <1>1, <1>2, <1>3
<1>6. ASSUME NEW n \in 2 .. Len(M) PROVE M[n] = L[IF n - 1 < i THEN n - 1 ELSE n]
  <2>1. n \in 2 .. Len(R) + 1 /\ n - 1 \in 1 .. Len(R) /\ n - 1 + 1 = n
    BY <1>3, <1>4
  <2> QED BY <1>2, <1>3, <2>1
<1>7. \A n \in 2 .. Len(M) : n - 1 \in DOMAIN R /\ M[n].key = R[n - 1].key
  BY <1>3, <1>4
<1>8. e.key \notin KeysOf(R)
  BY <1>2
<1>9. ASSUME NEW a \in DOMAIN M, NEW b \in DOMAIN M, M[a].key = M[b].key PROVE a = b
  <2>1. a = 1 \/ a \in 2 .. Len(M)
    BY <1>4
  <2>2. b = 1 \/ b \in 2 .. Len(M)
    BY <1>4
  <2>3. CASE a = 1 /\ b \in 2 .. Len(M)
    BY <1>3, <1>7, <1>8, <1>9, <2>3 DEF KeysOf
  <2>4. CASE b = 1 /\ a \in 2 .. Len(M)
    BY <1>3, <1>7, <1>8, <1>9, <2>4 DEF KeysOf
  <2>5. CASE a \in 2 .. Len(M) /\ b \in 2 .. Len(M)
    <3>1. a - 1 = b - 1
      BY <1>2, <1>7, <1>9, <2>5 DEF Keyed
    <3> QED BY <2>5, <3>1
  <2> QED BY <2>1, <2>2, <2>3, <2>4, <2>5
<1>10. KeysOf(M) = KeysOf(R) \cup {e.key}
  <2>1. ASSUME NEW k \in KeysOf(M) PROVE k \in KeysOf(R) \cup {e.key}
    <3>1. PICK n \in DOMAIN M : k = M[n].key
      BY DEF KeysOf
    <3>2. n = 1 \/ n \in 2 .. Len(M)
      BY <1>4
    <3> QED BY <1>3, <1>7, <3>1, <3>2 DEF KeysOf
  <2>2. ASSUME NEW k \in KeysOf(R) PROVE k \in KeysOf(M)
    <3>1. PICK n \in 1 .. Len(R) : k = R[n].key
      BY <1>4 DEF KeysOf
    <3>2. n + 1 \in 2 .. Len(M) /\ n + 1 \in DOMAIN M /\ n + 1 - 1 = n
      BY <1>3, <1>4
    <3> QED BY <1>7, <3>1, <3>2 DEF KeysOf
  <2>3. e.key \in KeysOf(M)
    <3>1. 1 \in DOMAIN M
      BY <1>3, <1>4
    <3> QED BY <1>3, <3>1 DEF KeysOf
  <2> QED BY <2>1, <2>2, <2>3
<1>11. L[i].key \in KeysOf(L)
  BY <1>1 DEF KeysOf
<1>12. KeysOf(M) = KeysOf(L)
  BY <1>2, <1>10, <1>11
<1> QED BY <1>3, <1>5, <1>6, <1>9, <1>12 DEF M, R, Keyed

\* A new entry comes to the front, and the last one makes room if there is none.
LEMMA AddedFacts ==
    ASSUME NEW L \in Seq(Entry), Keyed(L), Len(L) <= MaxSize,
           NEW e \in Entry, e.key \notin KeysOf(L)
    PROVE  LET M == Trimmed(<<e>> \o L)
           IN  /\ M \in Seq(Entry) /\ M[1] = e
               /\ Len(M) = (IF Len(L) = MaxSize THEN MaxSize ELSE Len(L) + 1)
               /\ \A n \in 2 .. Len(M) : M[n] = L[n - 1]
               /\ Keyed(M) /\ KeysOf(M) \subseteq KeysOf(L) \cup {e.key}
               /\ e.key \in KeysOf(M)
               /\ \A n \in 1 .. Len(L) : n < Len(M) => L[n].key \in KeysOf(M)
<1> DEFINE P == <<e>> \o L
           M == Trimmed(P)
<1>1. Len(L) \in Nat /\ DOMAIN L = 1 .. Len(L) /\ MaxSize \in Nat \ {0}
  BY LenProperties, PromptAssumption
<1>2. /\ P \in Seq(Entry) /\ Len(P) = Len(L) + 1 /\ P[1] = e
      /\ \A n \in 2 .. Len(L) + 1 : P[n] = L[n - 1]
  BY PrependFacts
<1> HIDE DEF P
<1> DEFINE l == Len(L)
           p == Len(P)
<1>0. l \in Nat /\ MaxSize \in Nat \ {0} /\ l <= MaxSize /\ p = l + 1
  BY <1>1, <1>2
<1>3. /\ M \in Seq(Entry)
      /\ Len(M) = (IF l = MaxSize THEN MaxSize ELSE l + 1)
      /\ \A n \in 1 .. Len(M) : M[n] = P[n]
  <2>1. CASE p > MaxSize
    <3>1. M = Front(P)
      BY <2>1 DEF Trimmed
    <3> HIDE DEF M, l, p
    <3>2. l = MaxSize /\ p >= 1 /\ p - 1 = MaxSize
      BY <1>0, <2>1
    <3>3. /\ Front(P) \in Seq(Entry) /\ Len(Front(P)) = p - 1
          /\ \A n \in 1 .. p - 1 : Front(P)[n] = P[n]
      BY <1>2, <3>2, FrontFacts DEF p
    <3> QED BY <3>1, <3>2, <3>3
  <2>2. CASE ~(p > MaxSize)
    <3>1. M = P
      BY <2>2 DEF Trimmed
    <3> HIDE DEF M, l, p
    <3>2. l # MaxSize
      BY <1>0, <2>2
    <3>3. Len(P) = l + 1
      BY <1>0 DEF p
    <3> QED BY <1>2, <3>1, <3>2, <3>3
  <2> QED BY <2>1, <2>2
<1> HIDE DEF M
<1>4. DOMAIN M = 1 .. Len(M) /\ Len(M) \in 1 .. Len(L) + 1
  <2>1. DOMAIN M = 1 .. Len(M)
    BY <1>3, LenProperties
  <2> HIDE DEF l
  <2>2. (IF l = MaxSize THEN MaxSize ELSE l + 1) \in 1 .. l + 1
    BY <1>0
  <2>3. Len(M) \in 1 .. l + 1
    BY <1>3, <2>2
  <2> QED BY <2>1, <2>3 DEF l
<1>5. M[1] = e /\ 1 \in DOMAIN M
  <2>1. 1 \in 1 .. Len(M)
    BY <1>1, <1>4
  <2> QED BY <1>2, <1>3, <1>4, <2>1
<1>6. \A n \in 2 .. Len(M) : M[n] = L[n - 1] /\ n - 1 \in DOMAIN L
  <2>1. \A n \in 2 .. Len(M) : n \in 1 .. Len(M) /\ n \in 2 .. Len(L) + 1 /\ n - 1 \in 1 .. Len(L)
    BY <1>1, <1>4
  <2> QED BY <1>1, <1>2, <1>3, <2>1
<1>7. ASSUME NEW a \in DOMAIN M, NEW b \in DOMAIN M, M[a].key = M[b].key PROVE a = b
  <2>1. (a = 1 \/ a \in 2 .. Len(M)) /\ (b = 1 \/ b \in 2 .. Len(M))
    BY <1>4
  <2>2. CASE a = 1 /\ b \in 2 .. Len(M)
    BY <1>5, <1>6, <1>7, <2>2 DEF KeysOf
  <2>3. CASE b = 1 /\ a \in 2 .. Len(M)
    BY <1>5, <1>6, <1>7, <2>3 DEF KeysOf
  <2>4. CASE a \in 2 .. Len(M) /\ b \in 2 .. Len(M)
    <3>1. a - 1 = b - 1
      BY <1>6, <1>7, <2>4 DEF Keyed
    <3> QED BY <2>4, <3>1
  <2> QED BY <2>1, <2>2, <2>3, <2>4
<1>8. KeysOf(M) \subseteq KeysOf(L) \cup {e.key}
  <2> SUFFICES ASSUME NEW k \in KeysOf(M) PROVE k \in KeysOf(L) \cup {e.key}
    OBVIOUS
  <2>1. PICK n \in DOMAIN M : k = M[n].key
    BY DEF KeysOf
  <2>2. n = 1 \/ n \in 2 .. Len(M)
    BY <1>4
  <2> QED BY <1>5, <1>6, <2>1, <2>2 DEF KeysOf
<1>9. e.key \in KeysOf(M)
  BY <1>5 DEF KeysOf
<1>10. ASSUME NEW n \in 1 .. Len(L), n < Len(M) PROVE L[n].key \in KeysOf(M)
  <2>1. n + 1 \in 2 .. Len(M) /\ n + 1 \in DOMAIN M /\ n + 1 - 1 = n
    BY <1>4, <1>10
  <2>2. M[n + 1] = L[n]
    BY <1>6, <2>1
  <2> QED BY <2>1, <2>2 DEF KeysOf
<1> QED BY <1>3, <1>5, <1>6, <1>7, <1>8, <1>9, <1>10 DEF M, P, Keyed
-----------------------------------------------------------------------------
(* The invariant: what the list holds, and how its entries are accounted for. *)
CacheInv == TypeOK /\ EntriesConserved

\* The list as CacheInv has it, and where a cached key is in it.
LEMMA ListNow ==
    ASSUME CacheInv
    PROVE  /\ order \in Seq(Entry) /\ Keyed(order) /\ Len(order) <= MaxSize
           /\ DOMAIN order = 1 .. Len(order) /\ Len(order) \in Nat
           /\ Cached = KeysOf(order)
           /\ \A k \in Cached : At(k) \in 1 .. Len(order) /\ order[At(k)].key = k
                                /\ order[At(k)] \in Entry
<1>1. /\ order \in Seq(Entry) /\ Keyed(order) /\ Len(order) <= MaxSize
  BY DEF CacheInv, TypeOK, EntriesConserved, Keyed
<1>2. DOMAIN order = 1 .. Len(order) /\ Len(order) \in Nat
      /\ \A n \in 1 .. Len(order) : order[n] \in Entry
  BY <1>1, LenProperties
<1>3. \A k \in Cached : \E n \in DOMAIN order : order[n].key = k
  BY DEF Cached
<1>4. \A k \in Cached : At(k) \in DOMAIN order /\ order[At(k)].key = k
  BY <1>3 DEF At
<1> QED BY <1>1, <1>2, <1>4 DEF Cached, KeysOf

\* What Put makes is an entry.
LEMMA FreshFacts ==
    ASSUME now \in Time, NEW k \in Keys
    PROVE  /\ Fresh(k) \in Entry /\ Fresh(k).key = k
           /\ Fresh(k).resp = [for |-> k, made |-> now] /\ Fresh(k).expires = now + TTL
           /\ [for |-> k, made |-> now] \in Response /\ now + TTL \in 0 .. MaxTime + TTL
<1>1. now + TTL \in 0 .. MaxTime + TTL
  BY PromptAssumption, MaxTimeAssumption DEF Time
<1>2. [for |-> k, made |-> now] \in Response
  BY DEF Response
<1> QED BY <1>1, <1>2 DEF Fresh, Entry

\* What each step does to the list.
LEMMA HitList ==
    ASSUME CacheInv, NEW h \in Handlers, NEW k \in Keys, GetHit(h, k)
    PROVE  /\ k \in Cached /\ order' \in Seq(Entry) /\ Len(order') = Len(order)
           /\ order'[1] = order[At(k)]
           /\ \A n \in 2 .. Len(order') : order'[n] = order[IF n - 1 < At(k) THEN n - 1 ELSE n]
           /\ Keyed(order') /\ KeysOf(order') = KeysOf(order)
<1>1. k \in Cached /\ order' = <<order[At(k)]>> \o RemoveAt(order, At(k))
  BY DEF GetHit, Touched
<1>2. /\ order \in Seq(Entry) /\ Keyed(order) /\ At(k) \in 1 .. Len(order)
      /\ order[At(k)] \in Entry
  BY <1>1, ListNow
<1> QED BY <1>1, <1>2, MovedFacts

LEMMA ExpiredList ==
    ASSUME CacheInv, NEW h \in Handlers, NEW k \in Keys, GetExpired(h, k)
    PROVE  /\ k \in Cached /\ order' \in Seq(Entry) /\ Len(order') = Len(order) - 1
           /\ \A n \in 1 .. Len(order') : order'[n] = order[IF n < At(k) THEN n ELSE n + 1]
           /\ Keyed(order') /\ KeysOf(order') = KeysOf(order) \ {k}
<1>1. k \in Cached /\ order' = RemoveAt(order, At(k))
  BY DEF GetExpired
<1>2. /\ order \in Seq(Entry) /\ Keyed(order) /\ At(k) \in 1 .. Len(order)
      /\ order[At(k)].key = k
  BY <1>1, ListNow
<1> QED BY <1>1, <1>2, DroppedFacts

LEMMA RenewedList ==
    ASSUME CacheInv, NEW h \in Handlers, Put(h), asked[h] \in Cached
    PROVE  LET k == asked[h]
           IN  /\ k \in Keys /\ order' \in Seq(Entry) /\ Len(order') = Len(order)
               /\ order'[1] = Fresh(k) /\ UNCHANGED <<inserted, evictions>>
               /\ \A n \in 2 .. Len(order') :
                     order'[n] = order[IF n - 1 < At(k) THEN n - 1 ELSE n]
               /\ Keyed(order') /\ KeysOf(order') = KeysOf(order)
<1> DEFINE k == asked[h]
<1>1. k \in Keys /\ now \in Time
  BY DEF Put, CacheInv, TypeOK
<1>2. order' = <<Fresh(k)>> \o RemoveAt(order, At(k)) /\ UNCHANGED <<inserted, evictions>>
  BY DEF Put
<1>3. /\ order \in Seq(Entry) /\ Keyed(order) /\ At(k) \in 1 .. Len(order)
      /\ order[At(k)].key = k
  BY ListNow
<1>4. Fresh(k) \in Entry /\ Fresh(k).key = order[At(k)].key
  BY <1>1, <1>3, FreshFacts
<1> HIDE DEF k
<1>5. LET M == <<Fresh(k)>> \o RemoveAt(order, At(k))
      IN  /\ M \in Seq(Entry) /\ Len(M) = Len(order) /\ M[1] = Fresh(k)
          /\ \A n \in 2 .. Len(M) : M[n] = order[IF n - 1 < At(k) THEN n - 1 ELSE n]
          /\ Keyed(M) /\ KeysOf(M) = KeysOf(order)
  BY <1>3, <1>4, MovedFacts
<1> QED BY <1>1, <1>2, <1>5 DEF k

LEMMA AddedList ==
    ASSUME CacheInv, NEW h \in Handlers, Put(h), asked[h] \notin Cached
    PROVE  LET k == asked[h]
           IN  /\ k \in Keys /\ order' \in Seq(Entry) /\ order'[1] = Fresh(k)
               /\ Len(order') = (IF Len(order) = MaxSize THEN MaxSize ELSE Len(order) + 1)
               /\ inserted' = inserted + 1
               /\ evictions' = evictions + (Len(order) + 1 - Len(order'))
               /\ \A n \in 2 .. Len(order') : order'[n] = order[n - 1]
               /\ Keyed(order') /\ KeysOf(order') \subseteq KeysOf(order) \cup {k}
               /\ k \in KeysOf(order')
               /\ \A n \in 1 .. Len(order) : n < Len(order') => order[n].key \in KeysOf(order')
<1> DEFINE k == asked[h]
<1>1. k \in Keys /\ now \in Time
  BY DEF Put, CacheInv, TypeOK
<1>2. /\ order' = Trimmed(<<Fresh(k)>> \o order)
      /\ inserted' = inserted + 1
      /\ evictions' = evictions + (Len(order) + 1 - Len(order'))
  BY DEF Put
<1>3. /\ order \in Seq(Entry) /\ Keyed(order) /\ Len(order) <= MaxSize
      /\ k \notin KeysOf(order)
  BY ListNow
<1>4. Fresh(k) \in Entry /\ Fresh(k).key = k
  BY <1>1, FreshFacts
<1> HIDE DEF k
<1>5. LET M == Trimmed(<<Fresh(k)>> \o order)
      IN  /\ M \in Seq(Entry) /\ M[1] = Fresh(k)
          /\ Len(M) = (IF Len(order) = MaxSize THEN MaxSize ELSE Len(order) + 1)
          /\ \A n \in 2 .. Len(M) : M[n] = order[n - 1]
          /\ Keyed(M) /\ KeysOf(M) \subseteq KeysOf(order) \cup {Fresh(k).key}
          /\ Fresh(k).key \in KeysOf(M)
          /\ \A n \in 1 .. Len(order) : n < Len(M) => order[n].key \in KeysOf(M)
  BY <1>3, <1>4, AddedFacts
<1> QED BY <1>1, <1>2, <1>4, <1>5 DEF k

\* The invariant holds of an empty cache, and every step keeps it.
LEMMA InitCacheInv == Init => CacheInv
<1> SUFFICES ASSUME Init PROVE CacheInv
  OBVIOUS
<1>1. now \in Time
  BY MaxTimeAssumption DEF Init, ClockInit, Time
<1>2. order \in Seq(Entry) /\ uses \in Seq(Keys) /\ Len(order) = 0 /\ DOMAIN order = {}
  BY DEF Init
<1>3. TypeOK
  BY <1>1, <1>2 DEF Init, TypeOK
<1>4. EntriesConserved
  BY <1>2, PromptAssumption DEF Init, EntriesConserved
<1> QED BY <1>3, <1>4 DEF CacheInv

\* The counts of a step: adding one, dropping one, or neither.
LEMMA Accounts ==
    ASSUME NEW a \in Nat, NEW l \in Nat, NEW e \in Nat, NEW g \in Nat, a = l + e + g,
           l <= MaxSize
    PROVE  /\ (l >= 1 => a = (l - 1) + e + (g + 1)) /\ l - 1 <= MaxSize
           /\ LET m == IF l = MaxSize THEN MaxSize ELSE l + 1
              IN  /\ m <= MaxSize /\ a + 1 = m + (e + (l + 1 - m)) + g
                  /\ e + (l + 1 - m) \in Nat
BY PromptAssumption

LEMMA NextCacheInv == CacheInv /\ [Next]_vars => CacheInv'
<1> SUFFICES ASSUME CacheInv, [Next]_vars PROVE CacheInv'
  OBVIOUS
<1> DEFINE l == Len(order)
<1>0. /\ TypeOK /\ l \in Nat /\ l <= MaxSize /\ inserted = l + evictions + aged
      /\ inserted \in Nat /\ evictions \in Nat /\ aged \in Nat
  BY ListNow DEF CacheInv, EntriesConserved, TypeOK
<1> HIDE DEF l
<1>1. ASSUME NEW h \in Handlers, NEW k \in Keys, GetHit(h, k) PROVE CacheInv'
  <2>1. order' \in Seq(Entry) /\ Len(order') = l /\ Keyed(order') /\ order[At(k)] \in Entry
    BY <1>1, HitList, ListNow DEF l
  <2>2. /\ hits' = hits + 1 /\ answer' = order[At(k)] /\ uses' = Append(uses, k)
        /\ UNCHANGED <<now, misses, evictions, asked, inserted, aged, lapsed>>
    BY <1>1 DEF GetHit
  <2>3. uses' \in Seq(Keys)
    BY <1>0, <2>2, AppendProperties DEF TypeOK
  <2>4. TypeOK'
    BY <1>0, <2>1, <2>2, <2>3 DEF TypeOK
  <2>5. EntriesConserved'
    BY <1>0, <2>1, <2>2 DEF EntriesConserved, Keyed
  <2> QED BY <2>4, <2>5 DEF CacheInv
<1>2. ASSUME NEW h \in Handlers, NEW k \in Keys, GetMiss(h, k) PROVE CacheInv'
  <2>1. TypeOK'
    BY <1>0, <1>2 DEF GetMiss, TypeOK
  <2>2. EntriesConserved'
    BY <1>2 DEF GetMiss, CacheInv, EntriesConserved
  <2> QED BY <2>1, <2>2 DEF CacheInv
<1>3. ASSUME NEW h \in Handlers, NEW k \in Keys, GetExpired(h, k) PROVE CacheInv'
  <2>1. order' \in Seq(Entry) /\ Len(order') = l - 1 /\ Keyed(order') /\ l >= 1
    <3>1. At(k) \in 1 .. l /\ order' \in Seq(Entry) /\ Len(order') = l - 1 /\ Keyed(order')
      BY <1>3, ExpiredList, ListNow DEF l
    <3> QED BY <1>0, <3>1
  <2>2. /\ misses' = misses + 1 /\ answer' = Nothing /\ asked' = [asked EXCEPT ![h] = k]
        /\ aged' = aged + 1 /\ lapsed' = lapsed \cup {k}
        /\ UNCHANGED <<now, hits, evictions, uses, inserted>>
    BY <1>3 DEF GetExpired
  <2>3. TypeOK'
    BY <1>0, <2>1, <2>2 DEF TypeOK
  <2>4. inserted' = (l - 1) + evictions' + aged' /\ l - 1 <= MaxSize
    BY <1>0, <2>1, <2>2, Accounts
  <2>5. EntriesConserved'
    BY <2>1, <2>4 DEF EntriesConserved, Keyed
  <2> QED BY <2>3, <2>5 DEF CacheInv
<1>4. ASSUME NEW h \in Handlers, Put(h) PROVE CacheInv'
  <2> DEFINE k == asked[h]
  <2>1. /\ k \in Keys /\ uses' = Append(uses, k) /\ lapsed' = lapsed \ {k}
        /\ asked' = [asked EXCEPT ![h] = Nothing]
        /\ UNCHANGED <<now, hits, misses, answer, aged>>
    BY <1>0, <1>4 DEF Put, TypeOK
  <2>2. uses' \in Seq(Keys)
    BY <1>0, <2>1, AppendProperties DEF TypeOK
  <2>3. CASE k \in Cached
    <3>1. /\ order' \in Seq(Entry) /\ Len(order') = l /\ Keyed(order')
          /\ inserted' = inserted /\ evictions' = evictions
      BY <1>4, <2>3, RenewedList DEF l
    <3>2. TypeOK'
      BY <1>0, <2>1, <2>2, <3>1 DEF TypeOK
    <3>3. EntriesConserved'
      BY <1>0, <2>1, <3>1 DEF EntriesConserved, Keyed
    <3> QED BY <3>2, <3>3 DEF CacheInv
  <2>4. CASE k \notin Cached
    <3> DEFINE m == IF l = MaxSize THEN MaxSize ELSE l + 1
    <3>1. /\ order' \in Seq(Entry) /\ Len(order') = m /\ Keyed(order')
          /\ inserted' = inserted + 1 /\ evictions' = evictions + (l + 1 - Len(order'))
      BY <1>4, <2>4, AddedList DEF l
    <3>2. /\ m <= MaxSize /\ inserted + 1 = m + (evictions + (l + 1 - m)) + aged
          /\ evictions + (l + 1 - m) \in Nat
      BY <1>0, Accounts
    <3> HIDE DEF m
    <3>3. evictions' = evictions + (l + 1 - m)
      BY <3>1
    <3>4. TypeOK'
      BY <1>0, <2>1, <2>2, <3>1, <3>2, <3>3 DEF TypeOK
    <3>5. EntriesConserved'
      BY <2>1, <3>1, <3>2, <3>3 DEF EntriesConserved, Keyed
    <3> QED BY <3>4, <3>5 DEF CacheInv
  <2> QED BY <2>3, <2>4
<1>5. ASSUME NEW h \in Handlers, Fail(h) PROVE CacheInv'
  BY <1>0, <1>5 DEF Fail, stats, CacheInv, TypeOK, EntriesConserved
<1>6. CASE PassTime
  <2>1. now' \in Time
    BY <1>0, <1>6, MaxTimeAssumption DEF PassTime, Tick, TypeOK, Time
  <2> QED BY <1>0, <1>6, <2>1 DEF PassTime, stats, CacheInv, TypeOK, EntriesConserved
<1>7. CASE UNCHANGED vars
  BY <1>0, <1>7 DEF vars, stats, CacheInv, TypeOK, EntriesConserved
<1> QED BY <1>1, <1>2, <1>3, <1>4, <1>5, <1>6, <1>7 DEF Next

\* The cache's invariant: types, keys held once, no more than MaxSize entries,
\* and all that were ever added accounted for (cache/prompt.go, Get and Put).
THEOREM Invariance == Spec => []CacheInv
BY InitCacheInv, NextCacheInv, PTL DEF Spec

\* The list holds entries, the counters count, and a handler fetches a key.
THEOREM TypeCorrect == Spec => []TypeOK
<1>1. CacheInv => TypeOK
  BY DEF CacheInv
<1> QED BY <1>1, Invariance, PTL

\* Get and Put under any interleaving of any handlers: a key is in the list
\* once, the list never outgrows MaxSize, and every entry that was ever added
\* is there, was evicted and counted, or was found too old.
THEOREM EntriesConservedHolds == Spec => []EntriesConserved
<1>1. CacheInv => EntriesConserved
  BY DEF CacheInv
<1> QED BY <1>1, Invariance, PTL
-----------------------------------------------------------------------------
(* The refinement: which entry stands for a key in the abstract store.       *)
Held == [resp : Response, expires : 0 .. MaxTime + TTL]
Bare(e) == [resp |-> e.resp, expires |-> e.expires]

Mapped(L) == [k \in Keys |-> IF k \in KeysOf(L)
                             THEN Bare(L[CHOOSE n \in DOMAIN L : L[n].key = k])
                             ELSE Nothing]

LEMMA MappedFacts ==
    ASSUME NEW L \in Seq(Entry), Keyed(L)
    PROVE  /\ Mapped(L) \in [Keys -> Held \cup {Nothing}]
           /\ \A n \in 1 .. Len(L) : L[n].key \in Keys /\ Mapped(L)[L[n].key] = Bare(L[n])
           /\ \A k \in Keys : k \notin KeysOf(L) => Mapped(L)[k] = Nothing
<1>1. DOMAIN L = 1 .. Len(L) /\ \A n \in 1 .. Len(L) : L[n] \in Entry
  BY LenProperties
<1>2. \A n \in 1 .. Len(L) : L[n].key \in Keys /\ Bare(L[n]) \in Held
  BY <1>1 DEF Entry, Bare, Held
<1>3. \A n \in 1 .. Len(L) : (CHOOSE m \in DOMAIN L : L[m].key = L[n].key) = n
  BY <1>1 DEF Keyed
<1>4. \A k \in KeysOf(L) : \E n \in 1 .. Len(L) : k = L[n].key
  BY <1>1 DEF KeysOf
<1>5. \A n \in 1 .. Len(L) : L[n].key \in KeysOf(L)
  BY <1>1 DEF KeysOf
<1>6. \A n \in 1 .. Len(L) : Mapped(L)[L[n].key] = Bare(L[n])
  BY <1>2, <1>3, <1>5 DEF Mapped
<1>7. ASSUME NEW k \in Keys PROVE Mapped(L)[k] \in Held \cup {Nothing}
  <2>1. CASE k \in KeysOf(L)
    BY <1>2, <1>4, <1>6, <2>1
  <2>2. CASE k \notin KeysOf(L)
    BY <2>2 DEF Mapped
  <2> QED BY <2>1, <2>2
<1>8. Mapped(L) \in [Keys -> Held \cup {Nothing}]
  BY <1>7 DEF Mapped
<1> QED BY <1>2, <1>6, <1>8 DEF Mapped

\* Lists with the same entry for every key are the same store.
LEMMA SameStore ==
    ASSUME NEW L \in Seq(Entry), NEW M \in Seq(Entry), Keyed(L), Keyed(M), KeysOf(L) = KeysOf(M),
           \A n \in 1 .. Len(M) : \E m \in 1 .. Len(L) : M[n] = L[m]
    PROVE  Mapped(M) = Mapped(L)
<1> SUFFICES ASSUME NEW k \in Keys PROVE Mapped(M)[k] = Mapped(L)[k]
  BY DEF Mapped
<1>1. CASE k \in KeysOf(M)
  <2>1. PICK n \in 1 .. Len(M) : k = M[n].key
    BY <1>1, LenProperties DEF KeysOf
  <2>2. PICK m \in 1 .. Len(L) : M[n] = L[m]
    OBVIOUS
  <2> QED BY <2>1, <2>2, MappedFacts
<1>2. CASE k \notin KeysOf(M)
  BY <1>2, MappedFacts
<1> QED BY <1>1, <1>2

LEMMA StoreNow ==
    /\ StoreOf = Mapped(order) /\ StoreOf' = Mapped(order')
    /\ AnswerOf = (IF answer = Nothing THEN Nothing ELSE Bare(answer))
    /\ AnswerOf' = (IF answer' = Nothing THEN Nothing ELSE Bare(answer'))
<1>1. StoreOf = Mapped(order)
  BY DEF StoreOf, Mapped, Cached, At, KeysOf, Bare
<1>2. StoreOf' = Mapped(order')
  BY DEF StoreOf, Mapped, Cached, At, KeysOf, Bare
<1> QED BY <1>1, <1>2 DEF AnswerOf, Bare

LEMMA HitIsHit ==
    ASSUME CacheInv, NEW h \in Handlers, NEW k \in Keys, GetHit(h, k)
    PROVE  Store!Hit(k)
<1> DEFINE i == At(k)
<1>1. /\ k \in Cached /\ ~Outlived(order[i]) /\ answer' = order[i] /\ now' = now
  BY DEF GetHit
<1>2. /\ order \in Seq(Entry) /\ Keyed(order) /\ Len(order) \in Nat
      /\ i \in 1 .. Len(order) /\ order[i].key = k /\ order[i] \in Entry
  BY <1>1, ListNow
<1>3. /\ order' \in Seq(Entry) /\ Len(order') = Len(order) /\ Keyed(order')
      /\ KeysOf(order') = KeysOf(order) /\ order'[1] = order[i]
      /\ \A n \in 2 .. Len(order') : order'[n] = order[IF n - 1 < i THEN n - 1 ELSE n]
  BY HitList
<1> HIDE DEF i
<1>4. \A n \in 1 .. Len(order') : \E m \in 1 .. Len(order) : order'[n] = order[m]
  <2> SUFFICES ASSUME NEW n \in 1 .. Len(order') PROVE \E m \in 1 .. Len(order) : order'[n] = order[m]
    OBVIOUS
  <2>1. CASE n = 1
    BY <1>2, <1>3, <2>1
  <2>2. CASE n # 1
    <3>1. n \in 2 .. Len(order') /\ (IF n - 1 < i THEN n - 1 ELSE n) \in 1 .. Len(order)
      BY <1>2, <1>3, <2>2
    <3> QED BY <1>3, <3>1
  <2> QED BY <2>1, <2>2
<1>5. StoreOf' = StoreOf
  BY <1>2, <1>3, <1>4, SameStore, StoreNow
<1>6. StoreOf[k] = Bare(order[i])
  BY <1>2, MappedFacts, StoreNow
<1>7. order[i] # Nothing /\ Bare(order[i]) # Nothing
  BY <1>2, NothingAssumption DEF Bare, Entry
<1>8. AnswerOf' = StoreOf[k]
  BY <1>1, <1>6, <1>7, StoreNow
<1>9. Store!Live(StoreOf[k])
  <2>1. now \in Int /\ order[i].expires \in Int /\ Bare(order[i]).expires = order[i].expires
    BY <1>2, MaxTimeAssumption, PromptAssumption DEF CacheInv, TypeOK, Time, Entry, Bare
  <2>2. TTL > 0 => now <= order[i].expires
    BY <1>1, <2>1 DEF Outlived
  <2> QED BY <1>6, <1>7, <2>1, <2>2 DEF Store!Live
<1> QED BY <1>1, <1>5, <1>8, <1>9 DEF Store!Hit

LEMMA MissIsMiss ==
    ASSUME CacheInv, NEW h \in Handlers, NEW k \in Keys, GetMiss(h, k)
    PROVE  Store!Miss(k)
<1>1. order' = order /\ answer' = Nothing /\ now' = now
  BY DEF GetMiss
<1> QED BY <1>1, StoreNow DEF Store!Miss

LEMMA ExpiredIsMiss ==
    ASSUME CacheInv, NEW h \in Handlers, NEW k \in Keys, GetExpired(h, k)
    PROVE  Store!Miss(k)
<1> DEFINE i == At(k)
<1>1. answer' = Nothing /\ now' = now
  BY DEF GetExpired
<1>2. /\ k \in Cached /\ order' \in Seq(Entry) /\ Len(order') = Len(order) - 1
      /\ \A n \in 1 .. Len(order') : order'[n] = order[IF n < i THEN n ELSE n + 1]
      /\ Keyed(order') /\ KeysOf(order') = KeysOf(order) \ {k}
  BY ExpiredList
<1>3. /\ order \in Seq(Entry) /\ Keyed(order) /\ Len(order) \in Nat
      /\ DOMAIN order' = 1 .. Len(order') /\ i \in 1 .. Len(order)
  BY <1>2, ListNow, LenProperties
<1> HIDE DEF i
<1>4. StoreOf' = [StoreOf EXCEPT ![k] = Nothing]
  <2>1. StoreOf \in [Keys -> Held \cup {Nothing}] /\ StoreOf' \in [Keys -> Held \cup {Nothing}]
    BY <1>2, <1>3, MappedFacts, StoreNow
  <2>2. StoreOf'[k] = Nothing
    BY <1>2, MappedFacts, StoreNow
  <2>3. ASSUME NEW j \in Keys, j # k PROVE StoreOf'[j] = StoreOf[j]
    <3>1. CASE j \in KeysOf(order')
      <4>1. PICK n \in 1 .. Len(order') : j = order'[n].key
        BY <1>3, <3>1 DEF KeysOf
      <4> DEFINE m == IF n < i THEN n ELSE n + 1
      <4>2. m \in 1 .. Len(order) /\ order'[n] = order[m]
        BY <1>2, <1>3
      <4> HIDE DEF m
      <4>3. StoreOf'[j] = Bare(order'[n]) /\ StoreOf[j] = Bare(order[m])
        BY <1>2, <1>3, <4>1, <4>2, MappedFacts, StoreNow
      <4> QED BY <4>2, <4>3
    <3>2. CASE j \notin KeysOf(order')
      <4>1. j \notin KeysOf(order)
        BY <1>2, <2>3, <3>2
      <4> QED BY <1>2, <1>3, <3>2, <4>1, MappedFacts, StoreNow
    <3> QED BY <3>1, <3>2
  <2> QED BY <2>1, <2>2, <2>3
<1> QED BY <1>1, <1>4, StoreNow DEF Store!Miss

\* What a Put leaves: the new response under its key, and under any other key
\* what was there, or nothing.
LEMMA PutStore ==
    ASSUME CacheInv, NEW h \in Handlers, Put(h), NEW j \in Keys
    PROVE  /\ j = asked[h] => StoreOf'[j] = Bare(Fresh(j))
           /\ j # asked[h] => StoreOf'[j] \in {StoreOf[j], Nothing}
<1> DEFINE k == asked[h]
<1>1. /\ order \in Seq(Entry) /\ Keyed(order) /\ Len(order) \in Nat
      /\ \A i \in Cached : At(i) \in 1 .. Len(order)
      /\ Len(order) <= MaxSize /\ MaxSize \in Nat \ {0}
  BY ListNow, PromptAssumption
<1>2. k \in Keys /\ now \in Time
  BY DEF Put, CacheInv, TypeOK
<1>3. Fresh(k) \in Entry /\ Fresh(k).key = k
  BY <1>2, FreshFacts
<1>4. /\ order' \in Seq(Entry) /\ Keyed(order') /\ order'[1] = Fresh(k) /\ 1 \in 1 .. Len(order')
      /\ \A n \in 2 .. Len(order') : \E m \in 1 .. Len(order) : order'[n] = order[m]
      /\ DOMAIN order' = 1 .. Len(order')
  <2>1. CASE k \in Cached
    <3>1. /\ order' \in Seq(Entry) /\ Len(order') = Len(order) /\ Keyed(order')
          /\ order'[1] = Fresh(k)
          /\ \A n \in 2 .. Len(order') : order'[n] = order[IF n - 1 < At(k) THEN n - 1 ELSE n]
      BY <2>1, RenewedList
    <3>2. At(k) \in 1 .. Len(order)
      BY <1>1, <2>1
    <3> HIDE DEF k
    <3>3. 1 \in 1 .. Len(order')
      BY <1>1, <3>1, <3>2
    <3>4. \A n \in 2 .. Len(order') : (IF n - 1 < At(k) THEN n - 1 ELSE n) \in 1 .. Len(order)
      BY <1>1, <3>1, <3>2
    <3>5. DOMAIN order' = 1 .. Len(order')
      BY <3>1, LenProperties
    <3> QED BY <3>1, <3>3, <3>4, <3>5
  <2>2. CASE k \notin Cached
    <3>1. /\ order' \in Seq(Entry) /\ Keyed(order') /\ order'[1] = Fresh(k)
          /\ Len(order') = (IF Len(order) = MaxSize THEN MaxSize ELSE Len(order) + 1)
          /\ \A n \in 2 .. Len(order') : order'[n] = order[n - 1]
      BY <2>2, AddedList
    <3> HIDE DEF k
    <3>2. Len(order') \in 1 .. Len(order) + 1
      BY <1>1, <3>1
    <3>3. 1 \in 1 .. Len(order') /\ \A n \in 2 .. Len(order') : n - 1 \in 1 .. Len(order)
      BY <1>1, <3>2
    <3>4. DOMAIN order' = 1 .. Len(order')
      BY <3>1, LenProperties
    <3> QED BY <3>1, <3>3, <3>4
  <2> QED BY <2>1, <2>2
<1> HIDE DEF k
<1>5. StoreOf'[k] = Bare(Fresh(k))
  BY <1>3, <1>4, MappedFacts, StoreNow
<1>6. ASSUME j # k PROVE StoreOf'[j] \in {StoreOf[j], Nothing}
  <2>1. CASE j \in KeysOf(order')
    <3>1. PICK n \in 1 .. Len(order') : j = order'[n].key
      BY <1>4, <2>1 DEF KeysOf
    <3>2. n \in 2 .. Len(order')
      <4>1. n # 1
        BY <1>3, <1>4, <1>6, <3>1
      <4>2. Len(order') \in Nat
        BY <1>4, LenProperties
      <4> QED BY <4>1, <4>2
    <3>3. PICK m \in 1 .. Len(order) : order'[n] = order[m]
      BY <1>4, <3>2
    <3>4. StoreOf'[j] = Bare(order'[n]) /\ StoreOf[j] = Bare(order[m])
      BY <1>1, <1>4, <3>1, <3>3, MappedFacts, StoreNow
    <3> QED BY <3>3, <3>4
  <2>2. CASE j \notin KeysOf(order')
    BY <1>4, <2>2, MappedFacts, StoreNow
  <2> QED BY <2>1, <2>2
<1> QED BY <1>5, <1>6 DEF k

LEMMA PutIsPut ==
    ASSUME CacheInv, NEW h \in Handlers, Put(h)
    PROVE  \E k \in Keys, r \in Response : Store!Put(k, r)
<1> DEFINE k == asked[h]
           r == [for |-> k, made |-> now]
           e == [resp |-> r, expires |-> now + TTL]
           S == [Keys -> {Nothing, e} \cup {StoreOf[j] : j \in Keys}]
<1>1. k \in Keys /\ now \in Time /\ now' = now /\ answer' = answer
  BY DEF Put, CacheInv, TypeOK
<1>2. r \in Response /\ Bare(Fresh(k)) = e
  BY <1>1, FreshFacts DEF Bare
<1>3. DOMAIN StoreOf' = Keys /\ StoreOf' = [j \in Keys |-> StoreOf'[j]]
  BY DEF StoreOf
<1>4. StoreOf'[k] = e /\ \A j \in Keys \ {k} : StoreOf'[j] \in {StoreOf[j], Nothing}
  BY <1>1, <1>2, PutStore
<1> HIDE DEF k, r, e
<1>5. StoreOf' \in S
  BY <1>3, <1>4
<1>6. Store!KeepsOnly(StoreOf', {k})
  BY <1>4 DEF Store!KeepsOnly
<1>7. AnswerOf' = AnswerOf
  BY <1>1, StoreNow
<1>8. \E new \in S : Store!KeepsOnly(new, {k}) /\ new[k] = e /\ StoreOf' = new
  BY <1>4, <1>5, <1>6
<1>9. Store!Put(k, r)
  BY <1>1, <1>7, <1>8 DEF Store!Put, e
<1> QED BY <1>1, <1>2, <1>9

\* Prompt under types.PromptCache: a lookup brings back the last response put
\* under its key, no older than the TTL, or nothing; and moving to the front,
\* renewing, expiring and evicting, in any interleaving, only ever forget.
THEOREM ImplementsStoreHolds == Spec => ImplementsStore
<1>1. Init => Store!Init
  <2> SUFFICES ASSUME Init PROVE Store!Init
    OBVIOUS
  <2>1. order = <<>> /\ answer = Nothing /\ now = 0
    BY DEF Init, ClockInit
  <2>2. KeysOf(<<>>) = {}
    BY DEF KeysOf
  <2>3. StoreOf = [k \in Keys |-> Nothing]
    BY <2>1, <2>2, StoreNow DEF Mapped
  <2> QED BY <2>1, <2>3, StoreNow DEF Store!Init, Store!ClockInit
<1>2. CacheInv /\ [Next]_vars => [Store!Next]_Store!vars
  <2> SUFFICES ASSUME CacheInv, [Next]_vars PROVE [Store!Next]_Store!vars
    OBVIOUS
  <2>1. ASSUME NEW h \in Handlers, Put(h) PROVE Store!Next
    BY <2>1, PutIsPut DEF Store!Next
  <2>2. ASSUME NEW h \in Handlers, NEW k \in Keys,
               GetHit(h, k) \/ GetMiss(h, k) \/ GetExpired(h, k)
        PROVE  Store!Next
    BY <2>2, HitIsHit, MissIsMiss, ExpiredIsMiss DEF Store!Next
  <2>3. ASSUME NEW h \in Handlers, Fail(h) PROVE UNCHANGED Store!vars
    BY <2>3, StoreNow DEF Fail, Store!vars
  <2>4. CASE PassTime
    BY <2>4, StoreNow DEF PassTime, Tick, Store!Next, Store!Tick
  <2>5. CASE UNCHANGED vars
    BY <2>5, StoreNow DEF vars, Store!vars
  <2> QED BY <2>1, <2>2, <2>3, <2>4, <2>5 DEF Next
<1> QED BY <1>1, <1>2, Invariance, PTL DEF Spec, ImplementsStore, Store!Spec
-----------------------------------------------------------------------------
(* The working set. The list is in the order of the last uses, so the entry  *)
(* that has to make room is the one that all the others were used after.     *)
UsedIn(s) == {s[n] : n \in DOMAIN s}
LastAt(s, k, n) == n \in DOMAIN s /\ s[n] = k /\ \A m \in DOMAIN s : s[m] = k => m <= n
LastIn(s, k) == CHOOSE n \in DOMAIN s : s[n] = k /\ \A m \in DOMAIN s : s[m] = k => m <= n
SinceIn(s, k) == {s[n] : n \in {m \in DOMAIN s : m > LastIn(s, k)}}

\* Each key that was used was so for the last time.
HasLasts(s) == \A k \in UsedIn(s) : LastAt(s, k, LastIn(s, k))

LEMMA LastIs ==
    ASSUME NEW s \in Seq(Keys), NEW k, NEW n, LastAt(s, k, n)
    PROVE  LastIn(s, k) = n
<1>1. DOMAIN s = 1 .. Len(s) /\ Len(s) \in Nat
  BY LenProperties
<1>2. \A m \in DOMAIN s : LastAt(s, k, m) => m = n
  <2> SUFFICES ASSUME NEW m \in DOMAIN s, LastAt(s, k, m) PROVE m = n
    OBVIOUS
  <2>1. m \in DOMAIN s /\ n \in DOMAIN s /\ m <= n /\ n <= m
    BY DEF LastAt
  <2> QED BY <1>1, <2>1
<1> QED BY <1>2 DEF LastIn, LastAt

\* A use comes last, and leaves the last uses of the other keys where they were.
LEMMA UseFacts ==
    ASSUME NEW s \in Seq(Keys), NEW k \in Keys, HasLasts(s)
    PROVE  LET t == Append(s, k)
           IN  /\ t \in Seq(Keys) /\ HasLasts(t) /\ UsedIn(t) = UsedIn(s) \cup {k}
               /\ LastIn(t, k) = Len(s) + 1 /\ Len(s) \in Nat
               /\ \A j \in UsedIn(s) \ {k} : /\ LastIn(t, j) = LastIn(s, j)
                                            /\ LastIn(s, j) \in 1 .. Len(s)
                                            /\ SinceIn(s, j) \subseteq SinceIn(t, j)
<1> DEFINE t == Append(s, k)
           l == Len(s)
<1>1. l \in Nat /\ DOMAIN s = 1 .. l
  BY LenProperties
<1>2. /\ t \in Seq(Keys) /\ Len(t) = l + 1 /\ t[l + 1] = k
      /\ \A n \in 1 .. l : t[n] = s[n]
  BY AppendProperties
<1> HIDE DEF l, t
<1>3. DOMAIN t = 1 .. l + 1
  BY <1>2, LenProperties
<1>4. UsedIn(t) = UsedIn(s) \cup {k}
  <2>1. \A n \in 1 .. l + 1 : n \in 1 .. l \/ n = l + 1
    BY <1>1
  <2>2. \A n \in 1 .. l : n \in 1 .. l + 1
    BY <1>1
  <2>3. l + 1 \in 1 .. l + 1
    BY <1>1
  <2> QED BY <1>1, <1>2, <1>3, <2>1, <2>2, <2>3 DEF UsedIn
<1>5. LastAt(t, k, l + 1)
  <2>1. \A m \in 1 .. l + 1 : m <= l + 1
    BY <1>1
  <2>2. l + 1 \in 1 .. l + 1
    BY <1>1
  <2> QED BY <1>2, <1>3, <2>1, <2>2 DEF LastAt
<1>6. LastIn(t, k) = l + 1
  BY <1>2, <1>5, LastIs
<1>7. ASSUME NEW j \in UsedIn(s) \ {k}
      PROVE  /\ LastAt(t, j, LastIn(s, j)) /\ LastIn(t, j) = LastIn(s, j)
             /\ LastIn(s, j) \in 1 .. l
             /\ SinceIn(s, j) \subseteq SinceIn(t, j)
  <2> DEFINE n == LastIn(s, j)
  <2>1. LastAt(s, j, n)
    BY DEF HasLasts
  <2> HIDE DEF n
  <2>2. n \in 1 .. l /\ s[n] = j /\ \A m \in 1 .. l : s[m] = j => m <= n
    BY <1>1, <2>1 DEF LastAt
  <2>3. n \in 1 .. l + 1 /\ t[n] = j
    BY <1>1, <1>2, <2>2
  <2>4. ASSUME NEW m \in 1 .. l + 1, t[m] = j PROVE m <= n
    <3>1. m # l + 1
      BY <1>2, <2>4
    <3>2. m \in 1 .. l
      BY <1>1, <3>1
    <3> QED BY <1>2, <2>2, <2>4, <3>2
  <2>5. LastAt(t, j, n)
    BY <1>3, <2>3, <2>4 DEF LastAt
  <2>6. LastIn(t, j) = n
    BY <1>2, <2>5, LastIs
  <2>7. ASSUME NEW m \in 1 .. l, m > n PROVE s[m] \in SinceIn(t, j)
    <3>1. m \in DOMAIN t /\ m > LastIn(t, j) /\ t[m] = s[m]
      BY <1>1, <1>2, <1>3, <2>6, <2>7
    <3> QED BY <3>1 DEF SinceIn
  <2>8. SinceIn(s, j) \subseteq SinceIn(t, j)
    BY <1>1, <2>7 DEF SinceIn, n
  <2> QED BY <2>2, <2>5, <2>6, <2>8 DEF n
<1>8. HasLasts(t)
  BY <1>4, <1>5, <1>6, <1>7 DEF HasLasts
<1> QED BY <1>1, <1>2, <1>4, <1>6, <1>7, <1>8 DEF t, l

\* Those used since are finitely many, and a key used later is one of them.
LEMMA SinceFacts ==
    ASSUME NEW s \in Seq(Keys), HasLasts(s), NEW k
    PROVE  /\ IsFiniteSet(SinceIn(s, k)) /\ Cardinality(SinceIn(s, k)) \in Nat
           /\ \A j \in UsedIn(s) : LastIn(s, j) > LastIn(s, k) => j \in SinceIn(s, k)
<1> DEFINE D == {m \in DOMAIN s : m > LastIn(s, k)}
           f == [n \in D |-> s[n]]
<1>1. IsFiniteSet(D)
  <2>1. IsFiniteSet(1 .. Len(s)) /\ DOMAIN s = 1 .. Len(s)
    BY LenProperties, FS_Interval
  <2> QED BY <2>1, FS_Subset
<1>2. f \in Surjection(D, SinceIn(s, k))
  BY DEF Surjection, SinceIn
<1>3. IsFiniteSet(SinceIn(s, k))
  <2> HIDE DEF D, f
  <2> QED BY <1>1, <1>2, FS_Surjection
<1>4. ASSUME NEW j \in UsedIn(s), LastIn(s, j) > LastIn(s, k) PROVE j \in SinceIn(s, k)
  <2>1. LastIn(s, j) \in DOMAIN s /\ s[LastIn(s, j)] = j
    BY DEF HasLasts, LastAt
  <2> QED BY <1>4, <2>1 DEF SinceIn
<1> QED BY <1>3, <1>4, FS_CardinalityType

\* There are as many keys in a list as entries.
LEMMA KeysCount ==
    ASSUME NEW L \in Seq(Entry), Keyed(L)
    PROVE  IsFiniteSet(KeysOf(L)) /\ Cardinality(KeysOf(L)) = Len(L)
<1> DEFINE D == 1 .. Len(L)
           f == [n \in D |-> L[n].key]
<1>1. DOMAIN L = D /\ Len(L) \in Nat
  BY LenProperties
<1>2. IsFiniteSet(D) /\ Cardinality(D) = Len(L)
  <2>1. /\ IsFiniteSet(1 .. Len(L))
        /\ Cardinality(1 .. Len(L)) = IF 1 > Len(L) THEN 0 ELSE Len(L) - 1 + 1
    BY <1>1, FS_Interval
  <2> QED BY <1>1, <2>1
<1>3. f \in Surjection(D, KeysOf(L))
  BY <1>1 DEF Surjection, KeysOf
<1>4. f \in Injection(D, KeysOf(L))
  BY <1>1, <1>3 DEF Injection, Surjection, IsInjective, Keyed
<1> HIDE DEF D, f
<1> QED BY <1>2, <1>3, <1>4, FS_Surjection

Ordered(L, s) == \A a, b \in DOMAIN L : a < b => LastIn(s, L[a].key) > LastIn(s, L[b].key)

Retained(L, s, dropped) ==
    \A k \in UsedIn(s) : \/ k \in KeysOf(L)
                         \/ Cardinality(SinceIn(s, k)) >= MaxSize
                         \/ k \in dropped

\* What the list, the history of uses and the lapsed keys say of each other.
Recent(L, s, dropped) == /\ HasLasts(s) /\ KeysOf(L) \subseteq UsedIn(s)
                         /\ Ordered(L, s) /\ Retained(L, s, dropped)

RecencyInv == Recent(order, uses, lapsed)

\* The property the runs check, in the terms of the lemmas above.
LEMMA RetainedNow == Retained(order, uses, lapsed) <=> WorkingSetCached
<1>1. \A k : LastUse(k) = LastIn(uses, k)
  BY DEF LastUse, LastIn
<1>2. \A k : UsedSince(k) = SinceIn(uses, k)
  BY <1>1 DEF UsedSince, SinceIn
<1> QED BY <1>2 DEF WorkingSetCached, Retained, UsedIn, Cached, KeysOf

\* Behind the first of M are entries of L in the order they have there.
Behind(M, L) ==
    \E g \in [2 .. Len(M) -> 1 .. Len(L)] :
        /\ \A a, b \in 2 .. Len(M) : a < b => g[a] < g[b]
        /\ \A n \in 2 .. Len(M) : M[n] = L[g[n]]

\* The used key in front, behind it others in the order they had.
LEMMA FrontOrder ==
    ASSUME NEW L \in Seq(Entry), NEW s \in Seq(Keys), HasLasts(s),
           KeysOf(L) \subseteq UsedIn(s), Ordered(L, s),
           NEW k \in Keys, NEW M \in Seq(Entry), Keyed(M), Len(M) >= 1, M[1].key = k,
           Behind(M, L)
    PROVE  /\ Ordered(M, Append(s, k))
           /\ KeysOf(M) \subseteq UsedIn(Append(s, k)) /\ k \in KeysOf(M)
<1>0. PICK g \in [2 .. Len(M) -> 1 .. Len(L)] :
           /\ \A a, b \in 2 .. Len(M) : a < b => g[a] < g[b]
           /\ \A n \in 2 .. Len(M) : M[n] = L[g[n]]
  BY DEF Behind
<1> DEFINE t == Append(s, k)
<1>1. /\ UsedIn(t) = UsedIn(s) \cup {k}
      /\ LastIn(t, k) = Len(s) + 1 /\ Len(s) \in Nat
      /\ \A j \in UsedIn(s) \ {k} : /\ LastIn(t, j) = LastIn(s, j)
                                   /\ LastIn(s, j) \in 1 .. Len(s)
  BY UseFacts
<1> HIDE DEF t
<1>2. /\ DOMAIN M = 1 .. Len(M) /\ Len(M) \in Nat
      /\ DOMAIN L = 1 .. Len(L) /\ Len(L) \in Nat
  BY LenProperties
<1>3. 1 \in DOMAIN M /\ \A n \in DOMAIN M : n = 1 \/ n \in 2 .. Len(M)
  BY <1>2
<1>4. \A n \in 2 .. Len(M) : /\ M[n].key # k /\ n \in DOMAIN M
                            /\ g[n] \in DOMAIN L /\ M[n].key = L[g[n]].key
                            /\ M[n].key \in UsedIn(s)
  <2> SUFFICES ASSUME NEW n \in 2 .. Len(M)
               PROVE  /\ M[n].key # k /\ n \in DOMAIN M
                      /\ g[n] \in DOMAIN L /\ M[n].key = L[g[n]].key
                      /\ M[n].key \in UsedIn(s)
    OBVIOUS
  <2>1. n \in DOMAIN M /\ n # 1
    BY <1>2
  <2>2. M[n].key # k
    BY <1>3, <2>1 DEF Keyed
  <2>3. g[n] \in DOMAIN L /\ M[n].key = L[g[n]].key
    BY <1>0, <1>2
  <2> QED BY <2>1, <2>2, <2>3 DEF KeysOf
<1>5. Ordered(M, t)
  <2> SUFFICES ASSUME NEW a \in DOMAIN M, NEW b \in DOMAIN M, a < b
               PROVE  LastIn(t, M[a].key) > LastIn(t, M[b].key)
    BY DEF Ordered
  <2>1. b \in 2 .. Len(M)
    BY <1>2
  <2> DEFINE x == M[b].key
             y == M[a].key
  <2>2. LastIn(t, x) = LastIn(s, x) /\ LastIn(s, x) \in 1 .. Len(s)
    BY <1>1, <1>4, <2>1
  <2>3. CASE a = 1
    <3>1. LastIn(t, y) = Len(s) + 1
      BY <1>1, <2>3
    <3> HIDE DEF x, y
    <3>2. LastIn(t, y) > LastIn(t, x)
      BY <1>1, <2>2, <3>1
    <3> QED BY <3>2 DEF x, y
  <2>4. CASE a \in 2 .. Len(M)
    <3>1. LastIn(t, y) = LastIn(s, y)
      BY <1>1, <1>4, <2>4
    <3>2. g[a] < g[b] /\ g[a] \in DOMAIN L /\ g[b] \in DOMAIN L
          /\ y = L[g[a]].key /\ x = L[g[b]].key
      BY <1>0, <1>4, <2>1, <2>4
    <3> HIDE DEF x, y
    <3>3. LastIn(s, y) > LastIn(s, x)
      BY <3>2 DEF Ordered
    <3>4. LastIn(t, y) > LastIn(t, x)
      BY <2>2, <3>1, <3>3
    <3> QED BY <3>4 DEF x, y
  <2> QED BY <1>3, <2>3, <2>4
<1>6. k \in KeysOf(M)
  BY <1>3 DEF KeysOf
<1>7. KeysOf(M) \subseteq UsedIn(t)
  <2> SUFFICES ASSUME NEW n \in DOMAIN M PROVE M[n].key \in UsedIn(t)
    BY DEF KeysOf
  <2> QED BY <1>1, <1>3, <1>4
<1> QED BY <1>5, <1>6, <1>7 DEF t

\* After a use of k, a key stays accounted for if it stays in the list or if
\* all of a full list was used after it.
LEMMA StillRetained ==
    ASSUME NEW L \in Seq(Entry), NEW s \in Seq(Keys), HasLasts(s), NEW dropped,
           Retained(L, s, dropped), NEW k \in Keys, NEW M \in Seq(Entry), Keyed(M),
           k \in KeysOf(M),
           \A j \in KeysOf(L) : \/ j \in KeysOf(M)
                                \/ /\ j \in UsedIn(s) /\ Len(M) = MaxSize
                                   /\ KeysOf(M) \subseteq SinceIn(Append(s, k), j)
    PROVE  Retained(M, Append(s, k), dropped \ {k})
<1> DEFINE t == Append(s, k)
<1>1. /\ t \in Seq(Keys) /\ HasLasts(t) /\ UsedIn(t) = UsedIn(s) \cup {k}
      /\ \A j \in UsedIn(s) \ {k} : SinceIn(s, j) \subseteq SinceIn(t, j)
  BY UseFacts
<1> HIDE DEF t
<1>2. \A j : IsFiniteSet(SinceIn(t, j)) /\ Cardinality(SinceIn(t, j)) \in Nat
  BY <1>1, SinceFacts
<1>3. \A j : Cardinality(SinceIn(s, j)) \in Nat
  BY SinceFacts
<1>4. MaxSize \in Nat
  BY PromptAssumption
<1> SUFFICES ASSUME NEW j \in UsedIn(t)
             PROVE  \/ j \in KeysOf(M)
                    \/ Cardinality(SinceIn(t, j)) >= MaxSize
                    \/ j \in dropped \ {k}
  BY DEF Retained, t
<1>5. CASE j = k
  BY <1>5
<1>6. CASE j # k /\ j \in KeysOf(L)
  <2>1. CASE KeysOf(M) \subseteq SinceIn(t, j) /\ Len(M) = MaxSize
    <3>1. Cardinality(KeysOf(M)) = MaxSize
      BY <2>1, KeysCount
    <3>2. Cardinality(KeysOf(M)) <= Cardinality(SinceIn(t, j))
      BY <1>2, <2>1, FS_Subset
    <3> QED BY <1>2, <1>4, <3>1, <3>2
  <2> QED BY <1>6, <2>1 DEF t
<1>7. CASE j # k /\ Cardinality(SinceIn(s, j)) >= MaxSize
  <2>1. SinceIn(s, j) \subseteq SinceIn(t, j)
    BY <1>1, <1>7
  <2>2. Cardinality(SinceIn(s, j)) <= Cardinality(SinceIn(t, j))
    BY <1>2, <2>1, FS_Subset
  <2> QED BY <1>2, <1>3, <1>4, <1>7, <2>2
<1>8. CASE j # k /\ j \in dropped
  BY <1>8
<1>9. j # k => j \in UsedIn(s)
  BY <1>1
<1> QED BY <1>5, <1>6, <1>7, <1>8, <1>9 DEF Retained

\* Dropping more for age asks less of the list.
LEMMA MoreDropped ==
    ASSUME NEW L, NEW s, NEW d, NEW e, d \subseteq e, Retained(L, s, d)
    PROVE  Retained(L, s, e)
BY DEF Retained

\* A key comes to the front of a list that it was in, by a hit or a renewal.
LEMMA MovedRecent ==
    ASSUME NEW L \in Seq(Entry), NEW s \in Seq(Keys), NEW d, Recent(L, s, d),
           NEW k \in Keys, NEW M \in Seq(Entry), Keyed(M), Len(M) = Len(L), Len(M) >= 1,
           M[1].key = k, NEW i \in 1 .. Len(L),
           \A n \in 2 .. Len(M) : M[n] = L[IF n - 1 < i THEN n - 1 ELSE n],
           KeysOf(M) = KeysOf(L)
    PROVE  Recent(M, Append(s, k), d \ {k})
<1> DEFINE l == Len(L)
           g == [n \in 2 .. l |-> IF n - 1 < i THEN n - 1 ELSE n]
<1>1. /\ HasLasts(s) /\ KeysOf(L) \subseteq UsedIn(s) /\ Ordered(L, s)
      /\ Retained(L, s, d)
  BY DEF Recent
<1>2. l \in Nat /\ i \in 1 .. l
  BY LenProperties
<1>3. \A n \in 2 .. l : M[n] = L[IF n - 1 < i THEN n - 1 ELSE n]
  OBVIOUS
<1> HIDE DEF l
<1>4. \A n \in 2 .. l : g[n] \in 1 .. l
  BY <1>2
<1>5. \A a, b \in 2 .. l : a < b => g[a] < g[b]
  BY <1>2
<1>6. \A n \in 2 .. l : M[n] = L[g[n]]
  BY <1>3
<1>7. g \in [2 .. l -> 1 .. l]
  BY <1>4
<1> HIDE DEF g
<1>8. Len(M) = l /\ Len(L) = l
  BY DEF l
<1>9. Behind(M, L)
  BY <1>5, <1>6, <1>7, <1>8 DEF Behind
<1>10. /\ Ordered(M, Append(s, k)) /\ KeysOf(M) \subseteq UsedIn(Append(s, k))
       /\ k \in KeysOf(M)
  BY <1>1, <1>9, FrontOrder
<1>11. HasLasts(Append(s, k))
  BY <1>1, UseFacts
<1>12. Retained(M, Append(s, k), d \ {k})
  <2>1. \A j \in KeysOf(L) : j \in KeysOf(M)
    OBVIOUS
  <2> QED BY <1>1, <1>10, <2>1, StillRetained
<1> QED BY <1>10, <1>11, <1>12 DEF Recent

\* A new key comes to the front, and of a full list the last entry goes.
LEMMA AddedRecent ==
    ASSUME NEW L \in Seq(Entry), NEW s \in Seq(Keys), NEW d, Recent(L, s, d),
           Len(L) <= MaxSize, NEW k \in Keys, k \notin KeysOf(L),
           NEW M \in Seq(Entry), Keyed(M), M[1].key = k, k \in KeysOf(M),
           Len(M) = (IF Len(L) = MaxSize THEN MaxSize ELSE Len(L) + 1),
           \A n \in 2 .. Len(M) : M[n] = L[n - 1],
           \A n \in 1 .. Len(L) : n < Len(M) => L[n].key \in KeysOf(M)
    PROVE  Recent(M, Append(s, k), d \ {k})
<1> DEFINE l == Len(L)
           m == Len(M)
           t == Append(s, k)
           g == [n \in 2 .. m |-> n - 1]
<1>1. /\ HasLasts(s) /\ KeysOf(L) \subseteq UsedIn(s) /\ Ordered(L, s)
      /\ Retained(L, s, d)
  BY DEF Recent
<1>2. /\ l \in Nat /\ l <= MaxSize /\ MaxSize \in Nat \ {0}
      /\ m = (IF l = MaxSize THEN MaxSize ELSE l + 1)
      /\ DOMAIN L = 1 .. l /\ DOMAIN M = 1 .. m
  BY LenProperties, PromptAssumption
<1>3. /\ \A n \in 2 .. m : M[n] = L[n - 1]
      /\ \A n \in 1 .. l : n < m => L[n].key \in KeysOf(M)
  OBVIOUS
<1> HIDE DEF l, m
<1>4. m \in Nat /\ m >= 1 /\ \A n \in 2 .. m : n - 1 \in 1 .. l
  BY <1>2
<1>5. g \in [2 .. m -> 1 .. l]
  BY <1>4
<1>6. \A a, b \in 2 .. m : a < b => g[a] < g[b]
  BY <1>4
<1>7. \A n \in 2 .. m : M[n] = L[g[n]]
  BY <1>3
<1> HIDE DEF g
<1>8. Len(M) = m /\ Len(L) = l
  BY DEF l, m
<1>9. Behind(M, L) /\ Len(M) >= 1
  BY <1>4, <1>5, <1>6, <1>7, <1>8 DEF Behind
<1>10. Ordered(M, t) /\ KeysOf(M) \subseteq UsedIn(t)
  BY <1>1, <1>9, FrontOrder
<1>11. /\ t \in Seq(Keys) /\ HasLasts(t) /\ LastIn(t, k) = Len(s) + 1 /\ Len(s) \in Nat
       /\ \A j \in UsedIn(s) \ {k} : /\ LastIn(t, j) = LastIn(s, j)
                                    /\ LastIn(s, j) \in 1 .. Len(s)
  BY <1>1, UseFacts
<1> HIDE DEF t
<1>12. ASSUME NEW j \in KeysOf(L), j \notin KeysOf(M)
       PROVE  j \in UsedIn(s) /\ Len(M) = MaxSize /\ KeysOf(M) \subseteq SinceIn(t, j)
  <2>1. PICK p \in 1 .. l : j = L[p].key
    BY <1>2 DEF KeysOf
  <2>2. ~(p < m)
    BY <1>3, <1>12, <2>1
  <2>3. m = MaxSize /\ p = MaxSize
    BY <1>2, <2>1, <2>2
  <2>4. j \in UsedIn(s) \ {k}
    BY <1>1, <1>12
  <2>5. LastIn(t, j) = LastIn(s, j) /\ LastIn(s, j) \in 1 .. Len(s)
    BY <1>11, <2>4
  <2>6. ASSUME NEW n \in DOMAIN M PROVE LastIn(t, M[n].key) > LastIn(t, j)
    <3>1. CASE n = 1
      <4>1. LastIn(t, M[n].key) = Len(s) + 1
        BY <1>11, <3>1
      <4> QED BY <1>11, <2>5, <4>1
    <3>2. CASE n # 1
      <4>1. n \in 2 .. m /\ n - 1 \in 1 .. l /\ n - 1 < p
        BY <1>2, <2>1, <2>3, <3>2
      <4>2. M[n].key = L[n - 1].key /\ n - 1 \in DOMAIN L /\ p \in DOMAIN L
        BY <1>2, <1>3, <2>1, <4>1
      <4>3. LastIn(s, L[n - 1].key) > LastIn(s, j)
        BY <1>1, <2>1, <4>1, <4>2 DEF Ordered
      <4>4. M[n].key \in UsedIn(s) \ {k}
        BY <1>1, <4>2 DEF KeysOf
      <4>5. LastIn(t, M[n].key) = LastIn(s, L[n - 1].key)
        BY <1>11, <4>2, <4>4
      <4> QED BY <2>5, <4>3, <4>5
    <3> QED BY <3>1, <3>2
  <2>7. \A n \in DOMAIN M : M[n].key \in UsedIn(t)
    BY <1>10 DEF KeysOf
  <2>8. \A n \in DOMAIN M : M[n].key \in SinceIn(t, j)
    BY <1>11, <2>6, <2>7, SinceFacts
  <2> QED BY <1>8, <2>3, <2>4, <2>8 DEF KeysOf
<1>13. Retained(M, t, d \ {k})
  BY <1>1, <1>12, StillRetained DEF t
<1> QED BY <1>10, <1>11, <1>13 DEF Recent, t

\* The same of the steps: hits and renewals, and additions.
LEMMA MovedRecency ==
    ASSUME CacheInv, RecencyInv, order' \in Seq(Entry), Keyed(order'),
           NEW k \in Cached, Len(order') = Len(order), order'[1].key = k,
           \A n \in 2 .. Len(order') : order'[n] = order[IF n - 1 < At(k) THEN n - 1 ELSE n],
           KeysOf(order') = KeysOf(order), uses' = Append(uses, k),
           lapsed \ {k} \subseteq lapsed'
    PROVE  RecencyInv'
<1>1. /\ order \in Seq(Entry) /\ Len(order) \in Nat /\ At(k) \in 1 .. Len(order)
      /\ uses \in Seq(Keys) /\ k \in Keys
  <2>1. /\ order \in Seq(Entry) /\ Len(order) \in Nat /\ At(k) \in 1 .. Len(order)
        /\ order[At(k)] \in Entry /\ order[At(k)].key = k
    BY ListNow
  <2> QED BY <2>1 DEF CacheInv, TypeOK, Entry
<1>2. Recent(order, uses, lapsed)
  BY DEF RecencyInv, Recent
<1>3. Len(order') >= 1
  BY <1>1
<1>4. Recent(order', Append(uses, k), lapsed \ {k})
  BY <1>1, <1>2, <1>3, MovedRecent
<1>5. Retained(order', Append(uses, k), lapsed')
  BY <1>4, MoreDropped DEF Recent
<1> QED BY <1>4, <1>5 DEF RecencyInv, Recent

LEMMA AddedRecency ==
    ASSUME CacheInv, RecencyInv, NEW h \in Handlers, Put(h), asked[h] \notin Cached
    PROVE  RecencyInv'
<1> DEFINE k == asked[h]
<1>1. /\ order \in Seq(Entry) /\ Len(order) <= MaxSize
      /\ uses \in Seq(Keys) /\ k \notin KeysOf(order)
  BY ListNow DEF CacheInv, TypeOK
<1>2. Recent(order, uses, lapsed)
  BY DEF RecencyInv, Recent
<1>3. /\ k \in Keys /\ order' \in Seq(Entry) /\ order'[1] = Fresh(k) /\ Keyed(order')
      /\ Len(order') = (IF Len(order) = MaxSize THEN MaxSize ELSE Len(order) + 1)
      /\ \A n \in 2 .. Len(order') : order'[n] = order[n - 1]
      /\ k \in KeysOf(order')
      /\ \A n \in 1 .. Len(order) : n < Len(order') => order[n].key \in KeysOf(order')
  BY AddedList
<1>4. uses' = Append(uses, k) /\ lapsed' = lapsed \ {k}
  BY DEF Put
<1> HIDE DEF k
<1>5. order'[1].key = k
  BY <1>3 DEF Fresh
<1>6. Recent(order', Append(uses, k), lapsed \ {k})
  BY <1>1, <1>2, <1>3, <1>5, AddedRecent
<1> QED BY <1>4, <1>6 DEF RecencyInv, Recent

\* The recency invariant holds of an empty cache, and every step keeps it.
LEMMA InitRecency == Init => RecencyInv
<1> SUFFICES ASSUME Init PROVE RecencyInv
  OBVIOUS
<1>1. order = <<>> /\ uses = <<>>
  BY DEF Init
<1>2. UsedIn(<<>>) = {} /\ KeysOf(<<>>) = {} /\ Ordered(<<>>, <<>>)
  BY DEF UsedIn, KeysOf, Ordered
<1> QED BY <1>1, <1>2 DEF RecencyInv, Recent, HasLasts, Retained

LEMMA NextRecency == CacheInv /\ RecencyInv /\ [Next]_vars => RecencyInv'
<1> SUFFICES ASSUME CacheInv, RecencyInv, [Next]_vars PROVE RecencyInv'
  OBVIOUS
<1>1. ASSUME NEW h \in Handlers, NEW k \in Keys, GetHit(h, k) PROVE RecencyInv'
  <2>1. /\ k \in Cached /\ order' \in Seq(Entry) /\ Len(order') = Len(order)
        /\ order'[1] = order[At(k)]
        /\ \A n \in 2 .. Len(order') : order'[n] = order[IF n - 1 < At(k) THEN n - 1 ELSE n]
        /\ Keyed(order') /\ KeysOf(order') = KeysOf(order)
    BY <1>1, HitList
  <2>2. order'[1].key = k
    BY <2>1, ListNow
  <2>3. uses' = Append(uses, k) /\ lapsed' = lapsed
    BY <1>1 DEF GetHit
  <2> QED BY <2>1, <2>2, <2>3, MovedRecency
<1>2. ASSUME NEW h \in Handlers, Put(h) PROVE RecencyInv'
  <2> DEFINE k == asked[h]
  <2>1. CASE k \in Cached
    <3>1. /\ k \in Keys /\ order' \in Seq(Entry) /\ Len(order') = Len(order)
          /\ order'[1] = Fresh(k)
          /\ \A n \in 2 .. Len(order') : order'[n] = order[IF n - 1 < At(k) THEN n - 1 ELSE n]
          /\ Keyed(order') /\ KeysOf(order') = KeysOf(order)
      BY <1>2, <2>1, RenewedList
    <3>2. uses' = Append(uses, k) /\ lapsed' = lapsed \ {k}
      BY <1>2 DEF Put
    <3> HIDE DEF k
    <3>3. order'[1].key = k
      BY <3>1 DEF Fresh
    <3> QED BY <2>1, <3>1, <3>2, <3>3, MovedRecency
  <2>2. CASE k \notin Cached
    BY <1>2, <2>2, AddedRecency
  <2> QED BY <2>1, <2>2
<1>3. ASSUME NEW h \in Handlers, NEW k \in Keys, GetExpired(h, k) PROVE RecencyInv'
  <2> DEFINE i == At(k)
  <2>1. /\ k \in Cached /\ order' \in Seq(Entry) /\ Len(order') = Len(order) - 1
        /\ \A n \in 1 .. Len(order') : order'[n] = order[IF n < i THEN n ELSE n + 1]
        /\ KeysOf(order') = KeysOf(order) \ {k}
    BY <1>3, ExpiredList
  <2>2. /\ DOMAIN order = 1 .. Len(order) /\ Len(order) \in Nat /\ i \in 1 .. Len(order)
        /\ DOMAIN order' = 1 .. Len(order')
    BY <2>1, ListNow, LenProperties
  <2>3. uses' = uses /\ lapsed' = lapsed \cup {k}
    BY <1>3 DEF GetExpired
  <2> HIDE DEF i
  <2>4. Ordered(order', uses)
    <3> SUFFICES ASSUME NEW a \in DOMAIN order', NEW b \in DOMAIN order', a < b
                 PROVE  LastIn(uses, order'[a].key) > LastIn(uses, order'[b].key)
      BY DEF Ordered
    <3> DEFINE x == IF a < i THEN a ELSE a + 1
               y == IF b < i THEN b ELSE b + 1
    <3>1. x \in DOMAIN order /\ y \in DOMAIN order /\ x < y
      BY <2>1, <2>2
    <3>2. order'[a] = order[x] /\ order'[b] = order[y]
      BY <2>1, <2>2
    <3> HIDE DEF x, y
    <3> QED BY <3>1, <3>2 DEF RecencyInv, Recent, Ordered
  <2>5. Retained(order', uses, lapsed \cup {k})
    BY <2>1 DEF RecencyInv, Recent, Retained
  <2> QED BY <2>1, <2>3, <2>4, <2>5 DEF RecencyInv, Recent
<1>4. ASSUME UNCHANGED <<order, uses, lapsed>> PROVE RecencyInv'
  BY <1>4 DEF RecencyInv, Recent
<1> QED BY <1>1, <1>2, <1>3, <1>4 DEF Next, GetMiss, Fail, PassTime, vars

\* The list is in the order of the last uses (MoveToFront, PushFront), and what
\* is not in it was pushed out by MaxSize later ones or dropped for its age.
THEOREM RecencyHolds == Spec => []RecencyInv
BY InitRecency, NextRecency, Invariance, PTL, InitCacheInv DEF Spec

\* Prompt, list and eviction: however many handlers fetch, a key that was used
\* is missing only if MaxSize others were used since, or if Get has dropped it
\* for its age and nothing has put it back.
THEOREM WorkingSetCachedHolds == Spec => []WorkingSetCached
<1>1. RecencyInv => WorkingSetCached
  BY RetainedNow DEF RecencyInv, Recent
<1> QED BY <1>1, RecencyHolds, PTL
=============================================================================
