---------------------------- MODULE SumTheorems ----------------------------
(* What the models' sums, rankings and least and greatest elements rest on:  *)
(* facts about finite sets, by descent. A set of subsets takes the place of  *)
(* the predicate of an induction.                                            *)
EXTENDS FiniteSetsExt, FiniteSetTheorems, FunctionTheorems, WellFoundedInduction, Integers, TLAPS

\* Every set of natural numbers but the empty one has a least element.
LEMMA LeastOf ==
    ASSUME NEW T, T \subseteq Nat, T # {}
    PROVE  \E x \in T : \A y \in T : x <= y
<1> DEFINE R == OpToRel(<, Nat)
<1>1. \E x \in T : \A y \in T : ~ (<<y, x>> \in R)
  <2>1. IsWellFoundedOn(R, Nat)
    BY NatLessThanWellFounded
  <2> HIDE DEF R
  <2> QED BY <2>1, WFMin
<1>2. \A x, y \in Nat : ~ (<<y, x>> \in R) => x <= y
  BY DEF OpToRel
<1> QED BY <1>1, <1>2

\* Induction over the subsets of a finite set: if each is good whose proper
\* subsets are, then all are.
LEMMA Descent ==
    ASSUME NEW S, IsFiniteSet(S), NEW Good,
           \A T \in SUBSET S : (\A U \in SUBSET T : U # T => U \in Good) => T \in Good
    PROVE  S \in Good
<1> SUFFICES ASSUME S \notin Good PROVE FALSE
  OBVIOUS
<1> DEFINE Bad == {T \in SUBSET S : T \notin Good}
           sizes == {Cardinality(T) : T \in Bad}
<1>1. \A T \in SUBSET S : IsFiniteSet(T) /\ Cardinality(T) \in Nat
  BY FS_Subset, FS_CardinalityType
<1>2. sizes \subseteq Nat /\ sizes # {}
  BY <1>1
<1>3. PICK c \in sizes : \A d \in sizes : c <= d
  <2> HIDE DEF sizes
  <2> QED BY <1>2, LeastOf
<1>4. PICK T \in Bad : Cardinality(T) = c
  OBVIOUS
<1>5. ASSUME NEW U \in SUBSET T, U # T PROVE U \in Good
  <2>1. IsFiniteSet(T) /\ IsFiniteSet(U) /\ Cardinality(T) \in Nat /\ Cardinality(U) \in Nat
    BY <1>1
  <2>2. Cardinality(U) <= Cardinality(T) /\ Cardinality(U) # Cardinality(T)
    BY <1>5, <2>1, FS_Subset
  <2>3. Cardinality(U) \notin sizes
    <3> HIDE DEF sizes
    <3> QED BY <1>3, <1>4, <2>1, <2>2
  <2> QED BY <2>3
<1> QED BY <1>4, <1>5
\* The values of a function on a finite set are finitely many.
LEMMA ImageFinite ==
    ASSUME NEW S, IsFiniteSet(S), NEW f
    PROVE  IsFiniteSet({f[x] : x \in S})
<1> DEFINE T == {f[x] : x \in S}
           g == [x \in S |-> f[x]]
<1>1. g \in Surjection(S, T)
  BY DEF Surjection
<1> HIDE DEF T, g
<1>2. IsFiniteSet(T)
  BY <1>1, FS_Surjection
<1> QED BY <1>2 DEF T

-----------------------------------------------------------------------------
(* Orders.                                                                   *)
\* A strict total order on a set, given by its pairs.
Orders(R, S) == /\ \A a \in S : <<a, a>> \notin R
                /\ \A a, b \in S : a # b => <<a, b>> \in R \/ <<b, a>> \in R
                /\ \A a, b, c \in S : <<a, b>> \in R /\ <<b, c>> \in R => <<a, c>> \in R

Preceding(R, S, a) == {b \in S : <<b, a>> \in R}

\* In a finite set in an order, the element that n - 1 others precede is the n-th:
\* there is one for each n, and the order of the places is that of the set.
LEMMA Placed ==
    ASSUME NEW S, IsFiniteSet(S), NEW R, Orders(R, S),
           NEW place, place = [a \in S |-> 1 + Cardinality(Preceding(R, S, a))]
    PROVE  /\ place \in Bijection(S, 1 .. Cardinality(S))
           /\ Cardinality(S) \in Nat
           /\ \A a, b \in S : <<a, b>> \in R => place[a] < place[b]
<1> DEFINE before(a) == Preceding(R, S, a)
           c == Cardinality(S)
<1>1. c \in Nat
  BY FS_CardinalityType
<1>2. ASSUME NEW a \in S
      PROVE  /\ before(a) \in SUBSET (S \ {a}) /\ IsFiniteSet(before(a))
             /\ Cardinality(before(a)) \in Nat /\ Cardinality(before(a)) <= c - 1
  <2>1. before(a) \in SUBSET (S \ {a})
    BY DEF Orders, Preceding
  <2>2. IsFiniteSet(S \ {a}) /\ Cardinality(S \ {a}) = c - 1
    BY FS_RemoveElement
  <2>3. IsFiniteSet(before(a)) /\ Cardinality(before(a)) <= c - 1
    BY <2>1, <2>2, FS_Subset
  <2> QED BY <2>1, <2>3, FS_CardinalityType
<1> HIDE DEF c
<1>3. \A a \in S : place[a] \in 1 .. c
  BY <1>1, <1>2
<1>4. ASSUME NEW a \in S, NEW b \in S, <<a, b>> \in R
      PROVE  place[a] < place[b]
  <2>1. before(a) \in SUBSET before(b)
    BY <1>4 DEF Orders, Preceding
  <2>2. a \in before(b) /\ a \notin before(a)
    BY <1>4 DEF Orders, Preceding
  <2>3. /\ Cardinality(before(a)) <= Cardinality(before(b))
        /\ Cardinality(before(b)) = Cardinality(before(a)) => before(b) = before(a)
    BY <1>2, <2>1, FS_Subset
  <2>4. /\ place[a] = 1 + Cardinality(before(a))
        /\ place[b] = 1 + Cardinality(before(b))
        /\ Cardinality(before(a)) \in Nat /\ Cardinality(before(b)) \in Nat
    BY <1>2
  <2>5. Cardinality(before(a)) # Cardinality(before(b))
    BY <2>2, <2>3
  <2> HIDE DEF before
  <2> QED BY <2>3, <2>4, <2>5
<1>5. place \in Injection(S, 1 .. c)
  <2>1. place \in [S -> 1 .. c]
    BY <1>3
  <2>2. ASSUME NEW a \in S, NEW b \in S, a # b PROVE place[a] # place[b]
    <3>1. place[a] \in Int /\ place[b] \in Int
      BY <1>1, <1>3
    <3>2. place[a] < place[b] \/ place[b] < place[a]
      BY <1>4, <2>2 DEF Orders
    <3> QED BY <3>1, <3>2
  <2> QED BY <2>1, <2>2 DEF Injection, IsInjective
<1>6. IsFiniteSet(1 .. c) /\ Cardinality(1 .. c) = c
  <2>1. IsFiniteSet(1 .. c) /\ Cardinality(1 .. c) = (IF 1 > c THEN 0 ELSE c - 1 + 1)
    BY <1>1, FS_Interval
  <2> QED BY <1>1, <2>1
<1>7. place \in Surjection(S, 1 .. c)
  BY <1>5, <1>6, FS_Injection DEF c
<1> QED BY <1>1, <1>4, <1>5, <1>7 DEF Bijection, c

\* A finite set in an order has a last element.
LEMMA LastOne ==
    ASSUME NEW S, IsFiniteSet(S), S # {}, NEW R, Orders(R, S)
    PROVE  \E x \in S : \A y \in S : y = x \/ <<y, x>> \in R
<1> DEFINE place == [a \in S |-> 1 + Cardinality(Preceding(R, S, a))]
           c == Cardinality(S)
<1>1. /\ place \in Bijection(S, 1 .. c) /\ c \in Nat
      /\ \A a, b \in S : <<a, b>> \in R => place[a] < place[b]
  BY Placed
<1>2. c # 0
  BY FS_EmptySet
<1> HIDE DEF place, c
<1>3. c \in 1 .. c
  BY <1>1, <1>2
<1>4. PICK x \in S : place[x] = c
  BY <1>1, <1>3 DEF Bijection, Surjection
<1>5. ASSUME NEW y \in S, y # x PROVE <<y, x>> \in R
  <2>1. <<y, x>> \in R \/ <<x, y>> \in R
    BY <1>5 DEF Orders
  <2>2. place[y] \in 1 .. c
    BY <1>1 DEF Bijection, Surjection
  <2>3. ~(place[x] < place[y])
    BY <1>1, <1>4, <2>2
  <2> QED BY <1>1, <2>1, <2>3
<1> QED BY <1>5

\* So a finite set of numbers has a greatest.
LEMMA MaxIn ==
    ASSUME NEW T, T \subseteq Int, IsFiniteSet(T), T # {}
    PROVE  Max(T) \in T
<1> DEFINE R == {p \in T \X T : p[1] < p[2]}
<1>1. \A a, b \in T : <<a, b>> \in R <=> a < b
  OBVIOUS
<1> HIDE DEF R
<1>2. Orders(R, T)
  BY <1>1 DEF Orders
<1>3. PICK x \in T : \A y \in T : y = x \/ <<y, x>> \in R
  BY <1>2, LastOne
<1>4. ASSUME NEW y \in T PROVE x >= y
  <2>1. x \in Int /\ y \in Int
    OBVIOUS
  <2>2. y = x \/ y < x
    BY <1>1, <1>3
  <2> QED BY <2>1, <2>2
<1> QED BY <1>4 DEF Max

-----------------------------------------------------------------------------
(* Sums. That the recursion which defines them has a solution, and that all  *)
(* the solutions agree.                                                      *)
AnyOf(s) == CHOOSE x \in s : TRUE

Unfolds(g, f, S) ==
    g = [s \in SUBSET S |-> IF s = {} THEN 0 ELSE f[AnyOf(s)] + g[s \ {AnyOf(s)}]]

LEMMA Folded ==
    ASSUME NEW f, NEW S
    PROVE  SumFunctionOnSet(f, S) = (CHOOSE g : Unfolds(g, f, S))[S]
  BY DEF SumFunctionOnSet, FoldFunctionOnSet, MapThenFoldSet, Unfolds, AnyOf

LEMMA SolutionsAgree ==
    ASSUME NEW f, NEW S, IsFiniteSet(S), NEW g, Unfolds(g, f, S),
           NEW T \in SUBSET S, NEW h, Unfolds(h, f, T)
    PROVE  \A s \in SUBSET T : g[s] = h[s]
<1> DEFINE Good == {s \in SUBSET T : g[s] = h[s]}
<1> SUFFICES ASSUME NEW s \in SUBSET T PROVE s \in Good
  OBVIOUS
<1>1. IsFiniteSet(s)
  BY FS_Subset
<1>2. ASSUME NEW t \in SUBSET s, \A u \in SUBSET t : u # t => u \in Good
      PROVE  t \in Good
  <2>1. t \in SUBSET S /\ t \in SUBSET T
    OBVIOUS
  <2>2. /\ g[t] = IF t = {} THEN 0 ELSE f[AnyOf(t)] + g[t \ {AnyOf(t)}]
        /\ h[t] = IF t = {} THEN 0 ELSE f[AnyOf(t)] + h[t \ {AnyOf(t)}]
    BY <2>1 DEF Unfolds
  <2>3. t # {} => g[t \ {AnyOf(t)}] = h[t \ {AnyOf(t)}]
    BY <1>2 DEF AnyOf
  <2> QED BY <2>1, <2>2, <2>3
<1> HIDE DEF Good
<1> QED BY <1>1, <1>2, Descent

LEMMA SolutionExists ==
    ASSUME NEW f, NEW S, IsFiniteSet(S)
    PROVE  \E g : Unfolds(g, f, S)
<1> DEFINE Good == {T \in SUBSET S : \E g : Unfolds(g, f, T)}
           it(T) == CHOOSE g : Unfolds(g, f, T)
<1>1. ASSUME NEW T \in SUBSET S, \A U \in SUBSET T : U # T => U \in Good
      PROVE  T \in Good
  <2> DEFINE rest(s) == s \ {AnyOf(s)}
             G == [s \in SUBSET T |->
                      IF s = {} THEN 0 ELSE f[AnyOf(s)] + it(rest(s))[rest(s)]]
  <2>1. ASSUME NEW U \in SUBSET T, U # T PROVE IsFiniteSet(U) /\ Unfolds(it(U), f, U)
    <3>1. \E g : Unfolds(g, f, U)
      BY <1>1, <2>1
    <3> QED BY <3>1, FS_Subset
  <2>2. \A s \in SUBSET T : s # {} => /\ rest(s) \in SUBSET s /\ rest(s) # s
                                      /\ rest(s) \in SUBSET T /\ rest(s) # T
    BY DEF AnyOf
  <2>3. ASSUME NEW U \in SUBSET T, U # T PROVE G[U] = it(U)[U]
    <3>1. it(U)[U] = IF U = {} THEN 0 ELSE f[AnyOf(U)] + it(U)[rest(U)]
      <4> DEFINE j == it(U)
      <4>1. Unfolds(j, f, U)
        BY <2>1, <2>3
      <4> HIDE DEF j
      <4> QED BY <4>1 DEF Unfolds
    <3>2. CASE U = {}
      BY <3>1, <3>2
    <3>3. CASE U # {}
      <4>1. rest(U) \in SUBSET U /\ rest(U) \in SUBSET T /\ rest(U) # T
        BY <2>2, <3>3
      <4> HIDE DEF rest, it
      <4>2. it(U)[rest(U)] = it(rest(U))[rest(U)]
        BY <2>1, <2>3, <4>1, SolutionsAgree
      <4> QED BY <3>1, <3>3, <4>2
    <3> QED BY <3>2, <3>3
  <2>4. \A s \in SUBSET T : s # {} => G[rest(s)] = it(rest(s))[rest(s)]
    <3> HIDE DEF G, rest, it
    <3> QED BY <2>2, <2>3
  <2>5. Unfolds(G, f, T)
    <3>1. \A s \in SUBSET T :
             G[s] = IF s = {} THEN 0 ELSE f[AnyOf(s)] + it(rest(s))[rest(s)]
      OBVIOUS
    <3>2. G = [s \in SUBSET T |-> G[s]]
      OBVIOUS
    <3> HIDE DEF G, it
    <3>3. \A s \in SUBSET T :
             G[s] = IF s = {} THEN 0 ELSE f[AnyOf(s)] + G[rest(s)]
      BY <2>4, <3>1
    <3> QED BY <3>2, <3>3 DEF Unfolds
  <2> HIDE DEF G
  <2> QED BY <2>5
<1>2. S \in Good
  <2> HIDE DEF Good
  <2> QED BY <1>1, Descent
<1> QED BY <1>2

\* The equation of a sum.
LEMMA SumUnfolds ==
    ASSUME NEW f, NEW S, IsFiniteSet(S)
    PROVE  SumFunctionOnSet(f, S) =
               IF S = {} THEN 0
               ELSE f[AnyOf(S)] + SumFunctionOnSet(f, S \ {AnyOf(S)})
<1> DEFINE it(T) == CHOOSE g : Unfolds(g, f, T)
           R == S \ {AnyOf(S)}
<1>1. Unfolds(it(S), f, S)
  BY SolutionExists
<1>2. IsFiniteSet(R) /\ R \in SUBSET S
  BY FS_Subset
<1>3. Unfolds(it(R), f, R)
  <2> HIDE DEF R
  <2> QED BY <1>2, SolutionExists
<1> HIDE DEF it
<1>4. it(S)[S] = IF S = {} THEN 0 ELSE f[AnyOf(S)] + it(S)[R]
  BY <1>1 DEF Unfolds
<1>5. it(S)[R] = it(R)[R]
  <2> DEFINE g == it(S)
             h == it(R)
  <2>1. Unfolds(g, f, S) /\ Unfolds(h, f, R)
    BY <1>1, <1>3
  <2> HIDE DEF g, h, R
  <2>2. \A s \in SUBSET R : g[s] = h[s]
    BY <1>2, <2>1, SolutionsAgree
  <2>3. g[R] = h[R]
    BY <2>2
  <2> QED BY <2>3 DEF g, h
<1>6. SumFunctionOnSet(f, S) = it(S)[S] /\ SumFunctionOnSet(f, R) = it(R)[R]
  BY Folded DEF it
<1> QED BY <1>4, <1>5, <1>6

LEMMA SumEmpty == \A f : SumFunctionOnSet(f, {}) = 0
  BY SumUnfolds, FS_EmptySet

\* Functions that agree on a set have one sum over it.
LEMMA SumSame ==
    ASSUME NEW S, IsFiniteSet(S), NEW f, NEW g, \A x \in S : f[x] = g[x]
    PROVE  SumFunctionOnSet(f, S) = SumFunctionOnSet(g, S)
<1> DEFINE Good == {T \in SUBSET S : SumFunctionOnSet(f, T) = SumFunctionOnSet(g, T)}
<1>1. ASSUME NEW T \in SUBSET S, \A U \in SUBSET T : U # T => U \in Good
      PROVE  T \in Good
  <2>1. IsFiniteSet(T)
    BY FS_Subset
  <2>2. CASE T = {}
    BY <2>2, SumEmpty
  <2>3. CASE T # {}
    <3>1. AnyOf(T) \in T
      BY <2>3 DEF AnyOf
    <3>2. T \ {AnyOf(T)} \in Good
      BY <1>1, <3>1
    <3>3. /\ SumFunctionOnSet(f, T) = f[AnyOf(T)] + SumFunctionOnSet(f, T \ {AnyOf(T)})
          /\ SumFunctionOnSet(g, T) = g[AnyOf(T)] + SumFunctionOnSet(g, T \ {AnyOf(T)})
      BY <2>1, <2>3, SumUnfolds
    <3> QED BY <3>1, <3>2, <3>3
  <2> QED BY <2>2, <2>3
<1> HIDE DEF Good
<1>2. S \in Good
  BY <1>1, Descent
<1> QED BY <1>2 DEF Good

\* The sum of whole numbers is one, and of natural numbers is one.
LEMMA SumTyped ==
    ASSUME NEW S, IsFiniteSet(S), NEW f
    PROVE  /\ (\A x \in S : f[x] \in Int) => SumFunctionOnSet(f, S) \in Int
           /\ (\A x \in S : f[x] \in Nat) => SumFunctionOnSet(f, S) \in Nat
<1> DEFINE sum(T) == SumFunctionOnSet(f, T)
           Good == {T \in SUBSET S : /\ (\A x \in T : f[x] \in Int) => sum(T) \in Int
                                     /\ (\A x \in T : f[x] \in Nat) => sum(T) \in Nat}
<1>1. ASSUME NEW T \in SUBSET S, \A U \in SUBSET T : U # T => U \in Good
      PROVE  T \in Good
  <2>1. IsFiniteSet(T)
    BY FS_Subset
  <2>2. CASE T = {}
    BY <2>2, SumEmpty
  <2>3. CASE T # {}
    <3> DEFINE p == AnyOf(T)
    <3>1. p \in T
      BY <2>3 DEF AnyOf
    <3>2. T \ {p} \in Good
      BY <1>1, <3>1
    <3>3. sum(T) = f[p] + sum(T \ {p})
      BY <2>1, <2>3, SumUnfolds
    <3> HIDE DEF p, sum
    <3> QED BY <3>1, <3>2, <3>3
  <2> QED BY <2>2, <2>3
<1> HIDE DEF Good, sum
<1>2. S \in Good
  BY <1>1, Descent
<1> QED BY <1>2 DEF Good, sum

\* Any element may be the first.
LEMMA SumSplits ==
    ASSUME NEW S, IsFiniteSet(S), NEW f, \A y \in S : f[y] \in Int, NEW x \in S
    PROVE  SumFunctionOnSet(f, S) = f[x] + SumFunctionOnSet(f, S \ {x})
<1> DEFINE sum(T) == SumFunctionOnSet(f, T)
           Good == {T \in SUBSET S : \A y \in T : sum(T) = f[y] + sum(T \ {y})}
<1>1. ASSUME NEW T \in SUBSET S, \A U \in SUBSET T : U # T => U \in Good, NEW y \in T
      PROVE  sum(T) = f[y] + sum(T \ {y})
  <2> DEFINE p == AnyOf(T)
             rest == T \ {p, y}
  <2>1. IsFiniteSet(T) /\ IsFiniteSet(rest) /\ IsFiniteSet(T \ {y})
    BY FS_Subset
  <2>2. p \in T
    BY DEF AnyOf
  <2>3. sum(T) = f[p] + sum(T \ {p})
    BY <2>1, <2>2, SumUnfolds
  <2>4. CASE p = y
    BY <2>3, <2>4
  <2>5. CASE p # y
    <3>1. T \ {p} \in Good /\ T \ {y} \in Good
      BY <1>1, <2>2
    <3>2. y \in T \ {p} /\ p \in T \ {y} /\ (T \ {p}) \ {y} = rest /\ (T \ {y}) \ {p} = rest
      BY <2>2, <2>5
    <3>3. sum(T \ {p}) = f[y] + sum(rest) /\ sum(T \ {y}) = f[p] + sum(rest)
      BY <3>1, <3>2
    <3>4. sum(rest) \in Int /\ f[p] \in Int /\ f[y] \in Int
      BY <2>1, <2>2, SumTyped
    <3> HIDE DEF sum, p, rest
    <3> QED BY <2>3, <3>3, <3>4
  <2> QED BY <2>4, <2>5
<1> HIDE DEF sum
<1>2. S \in Good
  <2>1. \A T \in SUBSET S : (\A U \in SUBSET T : U # T => U \in Good) => T \in Good
    BY <1>1
  <2> HIDE DEF Good
  <2> QED BY <2>1, Descent
<1> QED BY <1>2 DEF sum

\* A sum of no fewer, none of them smaller, is no smaller; and greater if one is.
LEMMA SumGrows ==
    ASSUME NEW S, IsFiniteSet(S), NEW f, NEW g,
           \A x \in S : f[x] \in Int /\ g[x] \in Int /\ f[x] <= g[x]
    PROVE  /\ SumFunctionOnSet(f, S) <= SumFunctionOnSet(g, S)
           /\ (\E x \in S : f[x] < g[x]) => SumFunctionOnSet(f, S) < SumFunctionOnSet(g, S)
<1> DEFINE F(T) == SumFunctionOnSet(f, T)
           G(T) == SumFunctionOnSet(g, T)
           Good == {T \in SUBSET S : F(T) <= G(T)}
<1>1. \A T \in SUBSET S : IsFiniteSet(T) /\ F(T) \in Int /\ G(T) \in Int
  <2> SUFFICES ASSUME NEW T \in SUBSET S
               PROVE  IsFiniteSet(T) /\ F(T) \in Int /\ G(T) \in Int
    OBVIOUS
  <2>1. IsFiniteSet(T) /\ (\A x \in T : f[x] \in Int) /\ \A x \in T : g[x] \in Int
    BY FS_Subset
  <2>2. F(T) \in Int
    BY <2>1, SumTyped
  <2>3. G(T) \in Int
    BY <2>1, SumTyped
  <2> QED BY <2>1, <2>2, <2>3
<1>2. \A T \in SUBSET S : \A x \in T : F(T) = f[x] + F(T \ {x}) /\ G(T) = g[x] + G(T \ {x})
  BY <1>1, SumSplits
<1>3. F({}) = 0 /\ G({}) = 0
  BY SumEmpty
<1> HIDE DEF F, G
<1>4. ASSUME NEW T \in SUBSET S, \A U \in SUBSET T : U # T => U \in Good
      PROVE  T \in Good
  <2>1. CASE T = {}
    BY <1>3, <2>1
  <2>2. ASSUME NEW x \in T PROVE T \in Good
    <3>1. T \ {x} \in Good /\ T \ {x} \in SUBSET S
      BY <1>4
    <3> QED BY <1>1, <1>2, <3>1
  <2> QED BY <2>1, <2>2
<1>5. \A T \in SUBSET S : T \in Good
  <2> SUFFICES ASSUME NEW T \in SUBSET S PROVE T \in Good
    OBVIOUS
  <2>1. \A U \in SUBSET T : (\A V \in SUBSET U : V # U => V \in Good) => U \in Good
    BY <1>4
  <2> HIDE DEF Good
  <2> QED BY <1>1, <2>1, Descent
<1>6. ASSUME NEW x \in S, f[x] < g[x] PROVE F(S) < G(S)
  <2>1. F(S \ {x}) <= G(S \ {x}) /\ S \ {x} \in SUBSET S
    BY <1>5
  <2> QED BY <1>1, <1>2, <1>6, <2>1
<1> QED BY <1>5, <1>6 DEF F, G

\* The sums over two sets that share nothing.
LEMMA SumUnion ==
    ASSUME NEW S, IsFiniteSet(S), NEW T, IsFiniteSet(T), S \cap T = {}, NEW f,
           \A x \in S \cup T : f[x] \in Int
    PROVE  SumFunctionOnSet(f, S \cup T) = SumFunctionOnSet(f, S) + SumFunctionOnSet(f, T)
<1> DEFINE F(U) == SumFunctionOnSet(f, U)
           Good == {U \in SUBSET S : F(U \cup T) = F(U) + F(T)}
<1>1. \A U \in SUBSET (S \cup T) : IsFiniteSet(U) /\ F(U) \in Int
  <2>1. IsFiniteSet(S \cup T)
    BY FS_Union
  <2> QED BY <2>1, FS_Subset, SumTyped
<1>2. \A U \in SUBSET (S \cup T) : \A x \in U : F(U) = f[x] + F(U \ {x})
  BY <1>1, SumSplits
<1>3. F({}) = 0
  BY SumEmpty
<1> HIDE DEF F
<1>4. ASSUME NEW U \in SUBSET S, \A V \in SUBSET U : V # U => V \in Good
      PROVE  U \in Good
  <2>1. CASE U = {}
    <3>1. U \cup T = T /\ F(T) \in Int
      BY <1>1, <2>1
    <3> QED BY <1>3, <2>1, <3>1
  <2>2. ASSUME NEW x \in U PROVE U \in Good
    <3>1. F((U \ {x}) \cup T) = F(U \ {x}) + F(T)
      BY <1>4
    <3>2. (U \cup T) \ {x} = (U \ {x}) \cup T
      OBVIOUS
    <3>3. F(U \cup T) = f[x] + F((U \ {x}) \cup T) /\ F(U) = f[x] + F(U \ {x})
      BY <1>2, <3>2
    <3>4. f[x] \in Int /\ F(U \ {x}) \in Int /\ F(T) \in Int
      BY <1>1
    <3>5. F(U \cup T) = F(U) + F(T)
      BY <3>1, <3>3, <3>4
    <3> QED BY <3>5
  <2> QED BY <2>1, <2>2
<1>5. S \in Good
  <2> HIDE DEF Good
  <2> QED BY <1>4, Descent
<1> QED BY <1>5 DEF F

\* Other names for the elements make no difference.
LEMMA SumRenamed ==
    ASSUME NEW S, IsFiniteSet(S), NEW T, NEW b \in Bijection(S, T), NEW f, NEW g,
           \A y \in T : f[y] \in Int, \A x \in S : g[x] = f[b[x]]
    PROVE  SumFunctionOnSet(g, S) = SumFunctionOnSet(f, T)
<1> DEFINE F(U) == SumFunctionOnSet(f, U)
           G(U) == SumFunctionOnSet(g, U)
           image(U) == {b[x] : x \in U}
           Good == {U \in SUBSET S : G(U) = F(image(U))}
<1>1. /\ b \in [S -> T] /\ \A x, y \in S : b[x] = b[y] => x = y
      /\ \A y \in T : \E x \in S : b[x] = y
  BY DEF Bijection, Injection, Surjection, IsInjective
<1>2. IsFiniteSet(T)
  BY FS_Surjection DEF Bijection
<1>3. \A U \in SUBSET S : image(U) \in SUBSET T /\ IsFiniteSet(image(U)) /\ IsFiniteSet(U)
  BY <1>1, <1>2, FS_Subset
<1>4. \A U \in SUBSET S : \A x \in U : /\ b[x] \in image(U) /\ g[x] = f[b[x]]
                                   /\ image(U) \ {b[x]} = image(U \ {x})
  BY <1>1
<1>5. image({}) = {} /\ image(S) = T
  BY <1>1
<1> HIDE DEF image
<1>6. \A U \in SUBSET S : \A x \in U :
         G(U) = f[b[x]] + G(U \ {x}) /\ F(image(U)) = f[b[x]] + F(image(U \ {x}))
  <2> SUFFICES ASSUME NEW U \in SUBSET S, NEW x \in U
               PROVE  /\ G(U) = f[b[x]] + G(U \ {x})
                      /\ F(image(U)) = f[b[x]] + F(image(U \ {x}))
    OBVIOUS
  <2>1. \A y \in U : g[y] \in Int
    BY <1>1
  <2>2. G(U) = g[x] + G(U \ {x})
    BY <1>3, <2>1, SumSplits
  <2>3. /\ IsFiniteSet(image(U)) /\ b[x] \in image(U) /\ \A y \in image(U) : f[y] \in Int
    BY <1>3, <1>4
  <2>4. F(image(U)) = f[b[x]] + F(image(U) \ {b[x]})
    BY <2>3, SumSplits
  <2> QED BY <1>4, <2>2, <2>4
<1>7. G({}) = 0 /\ F({}) = 0
  BY SumEmpty
<1> HIDE DEF F, G
<1>8. ASSUME NEW U \in SUBSET S, \A V \in SUBSET U : V # U => V \in Good
      PROVE  U \in Good
  <2>1. CASE U = {}
    BY <1>5, <1>7, <2>1
  <2>2. ASSUME NEW x \in U PROVE U \in Good
    <3>1. U \ {x} \in Good
      BY <1>8
    <3> QED BY <1>6, <3>1
  <2> QED BY <2>1, <2>2
<1>9. S \in Good
  <2> HIDE DEF Good
  <2> QED BY <1>8, Descent
<1> QED BY <1>5, <1>9 DEF F, G

\* Zeros add up to zero, and ones to their number.
LEMMA SumOfZeros ==
    ASSUME NEW S, IsFiniteSet(S), NEW f, \A x \in S : f[x] = 0
    PROVE  SumFunctionOnSet(f, S) = 0
<1> DEFINE Good == {T \in SUBSET S : SumFunctionOnSet(f, T) = 0}
<1>1. ASSUME NEW T \in SUBSET S, \A U \in SUBSET T : U # T => U \in Good
      PROVE  T \in Good
  <2>1. IsFiniteSet(T)
    BY FS_Subset
  <2>2. CASE T = {}
    BY <2>2, SumEmpty
  <2>3. CASE T # {}
    <3>1. AnyOf(T) \in T
      BY <2>3 DEF AnyOf
    <3>2. T \ {AnyOf(T)} \in Good
      BY <1>1, <3>1
    <3>3. SumFunctionOnSet(f, T) = f[AnyOf(T)] + SumFunctionOnSet(f, T \ {AnyOf(T)})
      BY <2>1, <2>3, SumUnfolds
    <3> QED BY <3>1, <3>2, <3>3
  <2> QED BY <2>2, <2>3
<1> HIDE DEF Good
<1>2. S \in Good
  BY <1>1, Descent
<1> QED BY <1>2 DEF Good

LEMMA SumOfOnes ==
    ASSUME NEW S, IsFiniteSet(S), NEW f, \A x \in S : f[x] = 1
    PROVE  SumFunctionOnSet(f, S) = Cardinality(S)
<1> DEFINE Good == {T \in SUBSET S : SumFunctionOnSet(f, T) = Cardinality(T)}
<1>1. ASSUME NEW T \in SUBSET S, \A U \in SUBSET T : U # T => U \in Good
      PROVE  T \in Good
  <2>1. IsFiniteSet(T) /\ Cardinality(T) \in Nat
    BY FS_Subset, FS_CardinalityType
  <2>2. CASE T = {}
    BY <2>2, SumEmpty, FS_EmptySet
  <2>3. CASE T # {}
    <3> DEFINE p == AnyOf(T)
    <3>1. p \in T
      BY <2>3 DEF AnyOf
    <3>2. T \ {p} \in Good
      BY <1>1, <3>1
    <3>3. SumFunctionOnSet(f, T) = f[p] + SumFunctionOnSet(f, T \ {p})
      BY <2>1, <2>3, SumUnfolds
    <3>4. Cardinality(T \ {p}) = Cardinality(T) - 1
      BY <2>1, <3>1, FS_RemoveElement
    <3>5. f[p] = 1 /\ SumFunctionOnSet(f, T \ {p}) = Cardinality(T) - 1
      BY <3>1, <3>2, <3>4
    <3> HIDE DEF p
    <3> QED BY <2>1, <3>3, <3>5
  <2> QED BY <2>2, <2>3
<1> HIDE DEF Good
<1>2. S \in Good
  BY <1>1, Descent
<1> QED BY <1>2 DEF Good

\* A part of natural numbers adds up to no more than all of them.
LEMMA SumOfPart ==
    ASSUME NEW S, IsFiniteSet(S), NEW T \in SUBSET S, NEW f, \A x \in S : f[x] \in Nat
    PROVE  SumFunctionOnSet(f, T) <= SumFunctionOnSet(f, S)
<1> DEFINE R == S \ T
<1>1. IsFiniteSet(T) /\ IsFiniteSet(R) /\ R \cap T = {} /\ T \cup R = S
  BY FS_Subset
<1>2. (\A x \in T : f[x] \in Nat) /\ (\A x \in R : f[x] \in Nat) /\ \A x \in T \cup R : f[x] \in Int
  BY <1>1
<1> HIDE DEF R
<1>3. SumFunctionOnSet(f, T) \in Nat
  BY <1>1, <1>2, SumTyped
<1>4. SumFunctionOnSet(f, R) \in Nat
  BY <1>1, <1>2, SumTyped
<1>5. SumFunctionOnSet(f, T \cup R) = SumFunctionOnSet(f, T) + SumFunctionOnSet(f, R)
  BY <1>1, <1>2, SumUnion
<1>6. SumFunctionOnSet(f, S) = SumFunctionOnSet(f, T) + SumFunctionOnSet(f, R)
  BY <1>1, <1>5
<1> QED BY <1>3, <1>4, <1>6

Keyed(S, key, k) == {x \in S : key[x] = k}

\* What is added up in groups, one for each key, comes to the same.
LEMMA SumGrouped ==
    ASSUME NEW S, IsFiniteSet(S), NEW f, \A x \in S : f[x] \in Int,
           NEW key, NEW K, IsFiniteSet(K), \A x \in S : key[x] \in K,
           NEW g, \A k \in K : g[k] = SumFunctionOnSet(f, Keyed(S, key, k))
    PROVE  SumFunctionOnSet(f, S) = SumFunctionOnSet(g, K)
<1> DEFINE of(T, k) == {x \in T : key[x] = k}
           G(T) == [k \in K |-> SumFunctionOnSet(f, of(T, k))]
           Good == {T \in SUBSET S : SumFunctionOnSet(f, T) = SumFunctionOnSet(G(T), K)}
<1>1. \A T \in SUBSET S : IsFiniteSet(T)
  BY FS_Subset
<1>2. ASSUME NEW T \in SUBSET S, NEW k PROVE SumFunctionOnSet(f, of(T, k)) \in Int
  <2>1. of(T, k) \in SUBSET S /\ \A x \in of(T, k) : f[x] \in Int
    OBVIOUS
  <2> HIDE DEF of
  <2> QED BY <1>1, <2>1, SumTyped
<1>3. \A T \in SUBSET S : \A k \in K : G(T)[k] \in Int
  BY <1>2
<1>4. ASSUME NEW T \in SUBSET S, \A U \in SUBSET T : U # T => U \in Good
      PROVE  T \in Good
  <2>1. CASE T = {}
    <3>1. \A k \in K : G(T)[k] = 0
      BY <2>1, SumEmpty
    <3> HIDE DEF G
    <3> QED BY <2>1, <3>1, SumEmpty, SumOfZeros
  <2>2. ASSUME NEW y \in T PROVE T \in Good
    <3> DEFINE U == T \ {y}
               j == key[y]
               R == K \ {j}
               a == G(T)
               b == G(U)
    <3>1. U \in SUBSET S /\ U \in Good /\ j \in K /\ f[y] \in Int /\ R \in SUBSET K
      BY <1>4
    <3>2. SumFunctionOnSet(f, T) = f[y] + SumFunctionOnSet(f, U)
      <4>1. IsFiniteSet(T) /\ \A x \in T : f[x] \in Int
        BY <1>1
      <4> QED BY <4>1, SumSplits
    <3>3. a[j] = f[y] + b[j]
      <4>1. y \in of(T, j) /\ of(T, j) \ {y} = of(U, j) /\ of(T, j) \in SUBSET S
            /\ \A x \in of(T, j) : f[x] \in Int
        OBVIOUS
      <4>2. SumFunctionOnSet(f, of(T, j)) = f[y] + SumFunctionOnSet(f, of(T, j) \ {y})
        <5> HIDE DEF of
        <5> QED BY <1>1, <4>1, SumSplits
      <4> QED BY <3>1, <4>1, <4>2
    <3>4. \A k \in R : a[k] = b[k]
      <4> SUFFICES ASSUME NEW k \in R PROVE a[k] = b[k]
        OBVIOUS
      <4>1. of(T, k) = of(U, k)
        OBVIOUS
      <4> QED BY <4>1
    <3>5. (\A k \in K : a[k] \in Int) /\ \A k \in K : b[k] \in Int
      BY <1>3, <3>1
    <3>6. SumFunctionOnSet(f, U) = SumFunctionOnSet(b, K)
      BY <3>1
    <3>7. U \in SUBSET S /\ IsFiniteSet(R)
      BY <3>1, FS_Subset
    <3> HIDE DEF G, a, b, R, j
    <3>8. /\ SumFunctionOnSet(a, K) = a[j] + SumFunctionOnSet(a, R)
          /\ SumFunctionOnSet(b, K) = b[j] + SumFunctionOnSet(b, R)
      <4>1. SumFunctionOnSet(a, K) = a[j] + SumFunctionOnSet(a, K \ {j})
        BY <3>1, <3>5, SumSplits
      <4>2. SumFunctionOnSet(b, K) = b[j] + SumFunctionOnSet(b, K \ {j})
        BY <3>1, <3>5, SumSplits
      <4> QED BY <4>1, <4>2 DEF R
    <3>9. SumFunctionOnSet(a, R) = SumFunctionOnSet(b, R)
      BY <3>4, <3>7, SumSame
    <3>10. SumFunctionOnSet(b, R) \in Int /\ b[j] \in Int
      <4>1. \A k \in R : b[k] \in Int
        BY <3>1, <3>5
      <4> QED BY <3>1, <3>5, <3>7, <4>1, SumTyped
    <3>11. SumFunctionOnSet(f, T) = SumFunctionOnSet(a, K)
      BY <3>1, <3>2, <3>3, <3>6, <3>8, <3>9, <3>10
    <3> QED BY <3>11 DEF a
  <2> QED BY <2>1, <2>2
<1>5. S \in Good
  <2> HIDE DEF Good
  <2> QED BY <1>4, Descent
<1>6. \A k \in K : G(S)[k] = g[k]
  BY DEF Keyed
<1>7. SumFunctionOnSet(G(S), K) = SumFunctionOnSet(g, K)
  <2> HIDE DEF G
  <2> QED BY <1>6, SumSame
<1> QED BY <1>5, <1>7
=============================================================================
