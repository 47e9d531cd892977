---------------------------- MODULE SumTheorems ----------------------------
(***************************************************************************)
(* Facts about the sums, the greatest and the least of finite sets of      *)
(* numbers, and about quotients, that the proofs about Services and        *)
(* Decisions need.  A sum is the community modules' fold; what it computes *)
(* is shown without induction, by minimal counterexamples: among the sets  *)
(* of which a fact did not hold there would be a smallest one.             *)
(***************************************************************************)
EXTENDS Integers, FiniteSets, FiniteSetsExt, FiniteSetTheorems, WellFoundedInduction,
        TLAPS

\* The element of a set that the folds of the community modules take first.
Pick(s) == CHOOSE x \in s : TRUE

\* The equation whose solution a fold chooses.
SumEq(h, g, S) ==
  h = [s \in SUBSET S |-> IF s = {} THEN 0 ELSE g[Pick(s)] + h[s \ {Pick(s)}]]

\* A sum over a set, folded open.
LEMMA SumIs ==
  ASSUME NEW g, NEW S
  PROVE  SumFunctionOnSet(g, S) = (CHOOSE h : SumEq(h, g, S))[S]
  BY Zenon DEF SumFunctionOnSet, FoldFunctionOnSet, MapThenFoldSet, SumEq, Pick

\* A nonempty collection of subsets of a finite set has a smallest one. With
\* it, what holds of a set when it holds of all its proper subsets holds of
\* every finite set.
LEMMA SmallestSet ==
  ASSUME NEW S, IsFiniteSet(S), NEW T, T \subseteq SUBSET S, T # {}
  PROVE  \E x \in T : \A y \in T : y \subseteq x => y = x
<1>1. IsWellFoundedOn(StrictSubsetOrdering(S), FiniteSubsetsOf(S))
  BY FS_StrictSubsetOrderingWellFounded
<1>2. FiniteSubsetsOf(S) = SUBSET S
  BY FS_FiniteSubsetsOfFinite
<1>3. PICK x \in T : \A y \in T : ~ (<<y, x>> \in StrictSubsetOrdering(S))
  BY Zenon, <1>1, <1>2, WFMin
<1>4. \A y \in T : y \subseteq x => y = x
  BY <1>3 DEF StrictSubsetOrdering
<1> QED
  BY <1>4

\* A nonempty set of natural numbers has a least one.
LEMMA SmallestNat ==
  ASSUME NEW T, T \subseteq Nat, T # {}
  PROVE  \E n \in T : \A m \in T : n <= m
<1>1. IsWellFoundedOn(OpToRel(<, Nat), Nat)
  BY NatLessThanWellFounded
<1>2. PICK n \in T : \A m \in T : ~ (<<m, n>> \in OpToRel(<, Nat))
  BY Zenon, <1>1, WFMin
<1>3. ASSUME NEW m \in T PROVE ~ (m < n)
  BY <1>2 DEF OpToRel
<1> QED
  BY <1>3

\* A function that satisfies the equation for the subsets of up to n elements.
Upto(h, g, S, n) ==
  /\ h \in [SUBSET S -> Nat]
  /\ \A s \in SUBSET S :
       Cardinality(s) <= n =>
         h[s] = IF s = {} THEN 0 ELSE g[Pick(s)] + h[s \ {Pick(s)}]

\* The element taken is one of the set.
LEMMA PickIn ==
  ASSUME NEW s, s # {}
  PROVE  Pick(s) \in s
  BY Zenon DEF Pick

\* A function that solves the equation for sets of up to n elements can be
\* changed into one that solves it for those of n + 1, too.
LEMMA OneSizeMore ==
  ASSUME NEW S, IsFiniteSet(S), NEW g, \A x \in S : g[x] \in Nat, NEW n \in Nat,
         NEW h, Upto(h, g, S, n)
  PROVE  \E k : Upto(k, g, S, n + 1)
<1> DEFINE k == [s \in SUBSET S |-> IF s = {} THEN 0 ELSE g[Pick(s)] + h[s \ {Pick(s)}]]
<1>1. ASSUME NEW s \in SUBSET S, s # {}
      PROVE  g[Pick(s)] \in Nat /\ s \ {Pick(s)} \in SUBSET S
  BY <1>1, PickIn
<1>2. h \in [SUBSET S -> Nat]
  BY DEF Upto
<1>3. k \in [SUBSET S -> Nat]
  BY <1>1, <1>2
<1>4. ASSUME NEW s \in SUBSET S, Cardinality(s) <= n + 1
      PROVE  k[s] = IF s = {} THEN 0 ELSE g[Pick(s)] + k[s \ {Pick(s)}]
  <2>1. CASE s = {}
    BY <2>1
  <2>2. CASE s # {}
    <3> DEFINE t == s \ {Pick(s)}
    <3>1. t \in SUBSET S /\ Pick(s) \in s
      BY <2>2, PickIn
    <3>2. IsFiniteSet(s)
      BY <1>4, FS_Subset
    <3>3. Cardinality(t) = Cardinality(s) - 1 /\ Cardinality(s) \in Nat
      BY <3>1, <3>2, FS_RemoveElement, FS_CardinalityType
    <3>4. Cardinality(t) <= n
      BY <3>3, <1>4
    <3>5. h[t] = IF t = {} THEN 0 ELSE g[Pick(t)] + h[t \ {Pick(t)}]
      BY Zenon, <3>1, <3>4 DEF Upto
    <3>6. k[t] = h[t]
      BY Zenon, <3>1, <3>5
    <3>7. k[s] = g[Pick(s)] + h[t]
      BY Zenon, <2>2
    <3> QED
      BY Zenon, <2>2, <3>6, <3>7
  <2> QED
    BY Zenon, <2>1, <2>2
<1> HIDE DEF k
<1>5. Upto(k, g, S, n + 1)
  BY Zenon, <1>3, <1>4 DEF Upto
<1> QED
  BY Zenon, <1>5

\* The equation has a solution.
LEMMA SumExists ==
  ASSUME NEW S, IsFiniteSet(S), NEW g, \A x \in S : g[x] \in Nat
  PROVE  \E h \in [SUBSET S -> Nat] : SumEq(h, g, S)
<1> DEFINE Bad == {n \in Nat : ~ \E h : Upto(h, g, S, n)}
<1>1. ASSUME Bad # {} PROVE FALSE
  <2>1. PICK n \in Bad : \A m \in Bad : n <= m
    BY Zenon, <1>1, SmallestNat
  <2>2. n # 0
    <3> DEFINE h == [s \in SUBSET S |-> 0]
    <3>1. ASSUME NEW s \in SUBSET S, Cardinality(s) <= 0 PROVE s = {}
      BY <3>1, FS_Subset, FS_CardinalityType, FS_EmptySet
    <3>2. Upto(h, g, S, 0)
      BY <3>1 DEF Upto
    <3> QED
      BY <3>2
  <2>3. n - 1 \in Nat /\ n = (n - 1) + 1 /\ ~ (n <= n - 1)
    BY <2>2
  <2>4. PICK h : Upto(h, g, S, n - 1)
    BY Zenon, <2>1, <2>3
  <2>5. \E k : Upto(k, g, S, (n - 1) + 1)
    BY <2>3, <2>4, OneSizeMore
  <2> QED
    BY Zenon, <2>3, <2>5
<1>2. Cardinality(S) \in Nat
  BY FS_CardinalityType
<1>3. PICK h : Upto(h, g, S, Cardinality(S))
  BY Zenon, <1>1, <1>2
<1>4. ASSUME NEW s \in SUBSET S PROVE Cardinality(s) <= Cardinality(S)
  BY FS_Subset
<1>5. SumEq(h, g, S)
  <2>1. h \in [SUBSET S -> Nat]
    BY <1>3 DEF Upto
  <2>2. \A s \in SUBSET S : h[s] = IF s = {} THEN 0 ELSE g[Pick(s)] + h[s \ {Pick(s)}]
    BY Zenon, <1>3, <1>4 DEF Upto
  <2> QED
    BY <2>1, <2>2 DEF SumEq
<1> QED
  BY Zenon, <1>3, <1>5 DEF Upto

\* Two sums of functions that agree on T agree on its subsets.
LEMMA SameSum ==
  ASSUME NEW S, NEW T, IsFiniteSet(T), T \subseteq S, NEW g, NEW f,
         \A x \in T : g[x] = f[x],
         NEW h, SumEq(h, g, S), NEW k, SumEq(k, f, T)
  PROVE  \A t \in SUBSET T : h[t] = k[t]
<1> DEFINE Bad == {t \in SUBSET T : h[t] # k[t]}
<1>1. ASSUME Bad # {} PROVE FALSE
  <2>1. PICK t \in Bad : \A u \in Bad : u \subseteq t => u = t
    <3>1. Bad \subseteq SUBSET T
      OBVIOUS
    <3> HIDE DEF Bad
    <3> QED
      BY <1>1, <3>1, SmallestSet
  <2>2. t \in SUBSET T /\ t \in SUBSET S /\ h[t] # k[t]
    BY <2>1
  <2>3. h[t] = IF t = {} THEN 0 ELSE g[Pick(t)] + h[t \ {Pick(t)}]
    BY Zenon, <2>2 DEF SumEq
  <2>4. k[t] = IF t = {} THEN 0 ELSE f[Pick(t)] + k[t \ {Pick(t)}]
    BY Zenon, <2>2 DEF SumEq
  <2>5. t # {}
    BY <2>2, <2>3, <2>4
  <2>6. Pick(t) \in t
    BY <2>5, PickIn
  <2>7. h[t \ {Pick(t)}] = k[t \ {Pick(t)}]
    <3>1. t \ {Pick(t)} \in SUBSET T
      BY <2>2
    <3>2. t \ {Pick(t)} \subseteq t /\ t \ {Pick(t)} # t
      BY <2>6
    <3> QED
      BY Zenon, <3>1, <3>2, <2>1
  <2>8. g[Pick(t)] = f[Pick(t)]
    BY <2>2, <2>6
  <2> QED
    BY Zenon, <2>2, <2>3, <2>4, <2>5, <2>7, <2>8
<1> QED
  BY Zenon, <1>1

\* The sum of a function over a finite set.
SumOver(g, S) == SumFunctionOnSet(g, S)

\* A sum is taken element by element.
LEMMA SumSolved ==
  ASSUME NEW S, IsFiniteSet(S), NEW g, \A x \in S : g[x] \in Nat
  PROVE  \E h \in [SUBSET S -> Nat] : SumEq(h, g, S) /\ SumOver(g, S) = h[S]
<1> DEFINE c == CHOOSE h : SumEq(h, g, S)
<1>1. PICK h \in [SUBSET S -> Nat] : SumEq(h, g, S)
  BY SumExists
<1>2. SumEq(c, g, S)
  BY Zenon, <1>1
<1>3. c[S] = h[S]
  BY <1>1, <1>2, SameSum
<1>4. SumOver(g, S) = c[S]
  BY Zenon, SumIs DEF SumOver
<1> QED
  BY Zenon, <1>1, <1>3, <1>4

\* The sum of functions that agree.
LEMMA SumAgrees ==
  ASSUME NEW S, IsFiniteSet(S), NEW g, NEW f,
         \A x \in S : g[x] \in Nat /\ f[x] = g[x]
  PROVE  SumOver(f, S) = SumOver(g, S)
<1>1. PICK h \in [SUBSET S -> Nat] : SumEq(h, g, S) /\ SumOver(g, S) = h[S]
  BY SumSolved
<1>2. \A x \in S : f[x] \in Nat
  OBVIOUS
<1>3. PICK k \in [SUBSET S -> Nat] : SumEq(k, f, S) /\ SumOver(f, S) = k[S]
  BY <1>2, SumSolved
<1>4. \A t \in SUBSET S : h[t] = k[t]
  BY <1>1, <1>3, SameSum
<1> QED
  BY Zenon, <1>1, <1>3, <1>4

\* The empty sum.
LEMMA SumEmpty ==
  ASSUME NEW g
  PROVE  SumOver(g, {}) = 0
<1>1. IsFiniteSet({})
  BY FS_EmptySet
<1>2. PICK h \in [SUBSET {} -> Nat] : SumEq(h, g, {}) /\ SumOver(g, {}) = h[{}]
  BY <1>1, SumSolved
<1> QED
  BY <1>2 DEF SumEq

\* A sum of natural numbers is one.
LEMMA SumType ==
  ASSUME NEW S, IsFiniteSet(S), NEW g, \A x \in S : g[x] \in Nat
  PROVE  SumOver(g, S) \in Nat
<1>1. PICK h \in [SUBSET S -> Nat] : SumEq(h, g, S) /\ SumOver(g, S) = h[S]
  BY SumSolved
<1> QED
  BY <1>1

\* The element taken first is counted, and then the rest.
LEMMA SumPicks ==
  ASSUME NEW S, IsFiniteSet(S), NEW g, \A x \in S : g[x] \in Nat, S # {}
  PROVE  SumOver(g, S) = g[Pick(S)] + SumOver(g, S \ {Pick(S)})
<1> DEFINE T == S \ {Pick(S)}
<1>1. PICK h \in [SUBSET S -> Nat] : SumEq(h, g, S) /\ SumOver(g, S) = h[S]
  BY SumSolved
<1>2. IsFiniteSet(T) /\ T \subseteq S /\ \A x \in T : g[x] \in Nat
  BY FS_Subset
<1>3. PICK k \in [SUBSET T -> Nat] : SumEq(k, g, T) /\ SumOver(g, T) = k[T]
  BY <1>2, SumSolved
<1>4. h[T] = k[T]
  BY <1>1, <1>2, <1>3, SameSum
<1>5. h[S] = g[Pick(S)] + h[T]
  BY Zenon, <1>1 DEF SumEq
<1> QED
  BY Zenon, <1>1, <1>3, <1>4, <1>5

\* Any element can be counted first.
LEMMA SumSplits ==
  ASSUME NEW S, IsFiniteSet(S), NEW g, \A x \in S : g[x] \in Nat, NEW x \in S
  PROVE  SumOver(g, S) = g[x] + SumOver(g, S \ {x})
<1> DEFINE Bad == {t \in SUBSET S : \E y \in t : SumOver(g, t) # g[y] + SumOver(g, t \ {y})}
<1>1. ASSUME Bad # {} PROVE FALSE
  <2>1. PICK t \in Bad : \A u \in Bad : u \subseteq t => u = t
    <3>1. Bad \subseteq SUBSET S
      OBVIOUS
    <3> HIDE DEF Bad
    <3> QED
      BY <1>1, <3>1, SmallestSet
  <2>2. t \in SUBSET S /\ IsFiniteSet(t) /\ \A y \in t : g[y] \in Nat
    BY <2>1, FS_Subset
  <2>3. PICK y \in t : SumOver(g, t) # g[y] + SumOver(g, t \ {y})
    BY Zenon, <2>1
  <2> DEFINE c == Pick(t)
  <2>4. t # {} /\ c \in t
    BY <2>3, PickIn
  <2>5. SumOver(g, t) = g[c] + SumOver(g, t \ {c})
    BY <2>2, <2>4, SumPicks
  <2>6. y # c
    BY Zenon, <2>3, <2>5
  <2> HIDE DEF c
  <2>7. ASSUME NEW u \in SUBSET t, u # t, NEW z \in u
        PROVE  SumOver(g, u) = g[z] + SumOver(g, u \ {z})
    <3>1. u \in SUBSET S /\ u \subseteq t
      BY <2>2
    <3> QED
      BY Zenon, <3>1, <2>1, <2>7
  <2>8. SumOver(g, t \ {c}) = g[y] + SumOver(g, (t \ {c}) \ {y})
    BY <2>3, <2>4, <2>6, <2>7
  <2>9. SumOver(g, t \ {y}) = g[c] + SumOver(g, (t \ {y}) \ {c})
    BY <2>3, <2>4, <2>6, <2>7
  <2>10. (t \ {c}) \ {y} = (t \ {y}) \ {c}
    OBVIOUS
  <2> DEFINE r == SumOver(g, (t \ {c}) \ {y})
  <2>11. r \in Nat /\ g[c] \in Nat /\ g[y] \in Nat
    <3>1. IsFiniteSet((t \ {c}) \ {y}) /\ \A z \in (t \ {c}) \ {y} : g[z] \in Nat
      BY <2>2, FS_Subset
    <3> QED
      BY <2>2, <2>3, <2>4, <3>1, SumType
  <2>12. g[c] + (g[y] + r) = g[y] + (g[c] + r)
    BY <2>11
  <2> QED
    BY Zenon, <2>3, <2>5, <2>8, <2>9, <2>10, <2>12
<1> QED
  BY Zenon, <1>1

\* One more element adds its value.
LEMMA SumAdds ==
  ASSUME NEW S, IsFiniteSet(S), NEW g, NEW x, x \notin S, g[x] \in Nat,
         \A y \in S : g[y] \in Nat
  PROVE  SumOver(g, S \union {x}) = SumOver(g, S) + g[x]
<1>1. IsFiniteSet(S \union {x}) /\ \A y \in S \union {x} : g[y] \in Nat
  BY FS_AddElement
<1>2. SumOver(g, S \union {x}) = g[x] + SumOver(g, (S \union {x}) \ {x})
  BY <1>1, SumSplits
<1>3. (S \union {x}) \ {x} = S
  OBVIOUS
<1>4. SumOver(g, S) \in Nat
  BY SumType
<1>5. SumOver(g, S \union {x}) = g[x] + SumOver(g, S)
  BY Zenon, <1>2, <1>3
<1> HIDE DEF SumOver
<1> QED
  BY <1>4, <1>5

\* A sum over an interval, one number after the other.
LEMMA SumUpTo ==
  ASSUME NEW lo \in Int, NEW n \in Int, n >= lo, NEW f, \A a \in lo .. n : f[a] \in Nat
  PROVE  SumOver(f, lo .. n) = SumOver(f, lo .. (n - 1)) + f[n]
<1> DEFINE S == lo .. (n - 1)
<1>1. IsFiniteSet(S)
  BY FS_Interval
<1>2. n \notin S /\ f[n] \in Nat /\ \A a \in S : f[a] \in Nat
  OBVIOUS
<1>3. lo .. n = S \union {n}
  OBVIOUS
<1> HIDE DEF S
<1>4. SumOver(f, S \union {n}) = SumOver(f, S) + f[n]
  BY Zenon, <1>1, <1>2, SumAdds
<1> QED
  BY Zenon, <1>3, <1>4 DEF S

\* Greater values, greater sums.
LEMMA SumGrows ==
  ASSUME NEW S, IsFiniteSet(S), NEW f, NEW g,
         \A x \in S : f[x] \in Nat /\ g[x] \in Nat /\ f[x] <= g[x]
  PROVE  SumOver(f, S) <= SumOver(g, S)
<1> DEFINE Bad == {t \in SUBSET S : ~ (SumOver(f, t) <= SumOver(g, t))}
<1>1. ASSUME Bad # {} PROVE FALSE
  <2>1. PICK t \in Bad : \A u \in Bad : u \subseteq t => u = t
    <3>1. Bad \subseteq SUBSET S
      OBVIOUS
    <3> HIDE DEF Bad
    <3> QED
      BY <1>1, <3>1, SmallestSet
  <2>2. t \in SUBSET S /\ IsFiniteSet(t) /\ ~ (SumOver(f, t) <= SumOver(g, t))
    BY <2>1, FS_Subset
  <2>3. t # {}
    BY <2>2, SumEmpty
  <2>4. PICK x \in t : TRUE
    BY <2>3
  <2> DEFINE u == t \ {x}
  <2>5. u \in SUBSET S /\ u \subseteq t /\ u # t /\ IsFiniteSet(u)
    BY <2>2, FS_Subset
  <2>6. SumOver(f, u) <= SumOver(g, u)
    BY Zenon, <2>1, <2>5
  <2>7. \A y \in t : f[y] \in Nat /\ g[y] \in Nat
    BY <2>2
  <2>8. SumOver(f, t) = f[x] + SumOver(f, u) /\ SumOver(g, t) = g[x] + SumOver(g, u)
    BY <2>2, <2>7, SumSplits
  <2>9. SumOver(f, u) \in Nat /\ SumOver(g, u) \in Nat
    <3>1. \A y \in u : f[y] \in Nat /\ g[y] \in Nat
      BY <2>7
    <3> QED
      BY <2>5, <3>1, SumType
  <2>10. f[x] \in Nat /\ g[x] \in Nat /\ f[x] <= g[x]
    BY <2>2
  <2> HIDE DEF u
  <2> QED
    BY <2>2, <2>6, <2>8, <2>9, <2>10
<1> QED
  BY Zenon, <1>1

\* The sum over two sets without a common element.
LEMMA SumOfBoth ==
  ASSUME NEW S, NEW T, IsFiniteSet(S), IsFiniteSet(T), S \intersect T = {}, NEW g,
         \A x \in S \union T : g[x] \in Nat
  PROVE  SumOver(g, S \union T) = SumOver(g, S) + SumOver(g, T)
<1> DEFINE Bad == {t \in SUBSET T : SumOver(g, S \union t) # SumOver(g, S) + SumOver(g, t)}
<1>1. ASSUME Bad # {} PROVE FALSE
  <2>1. PICK t \in Bad : \A u \in Bad : u \subseteq t => u = t
    <3>1. Bad \subseteq SUBSET T
      OBVIOUS
    <3> HIDE DEF Bad
    <3> QED
      BY <1>1, <3>1, SmallestSet
  <2>2. t \in SUBSET T /\ IsFiniteSet(t) /\ SumOver(g, S \union t) # SumOver(g, S) + SumOver(g, t)
    BY <2>1, FS_Subset
  <2>3. SumOver(g, S) \in Nat
    BY SumType
  <2>4. t # {}
    <3>1. ASSUME t = {} PROVE FALSE
      <4>1. S \union t = S
        BY <3>1
      <4> QED
        BY <2>2, <2>3, <3>1, <4>1, SumEmpty
    <3> QED
      BY <3>1
  <2>5. PICK x \in t : TRUE
    BY <2>4
  <2> DEFINE u == t \ {x}
  <2>6. u \in SUBSET T /\ u \subseteq t /\ u # t /\ IsFiniteSet(u)
    BY <2>2, FS_Subset
  <2>7. SumOver(g, S \union u) = SumOver(g, S) + SumOver(g, u)
    BY Zenon, <2>1, <2>6
  <2>8. SumOver(g, t) = g[x] + SumOver(g, u)
    <3>1. \A y \in t : g[y] \in Nat
      BY <2>2
    <3> QED
      BY <2>2, <3>1, SumSplits
  <2>9. SumOver(g, S \union t) = g[x] + SumOver(g, S \union u)
    <3>1. IsFiniteSet(S \union t) /\ x \in S \union t /\ \A y \in S \union t : g[y] \in Nat
      BY <2>2, FS_Union
    <3>2. (S \union t) \ {x} = S \union u
      BY <2>2, <2>5
    <3>3. SumOver(g, S \union t) = g[x] + SumOver(g, (S \union t) \ {x})
      BY <3>1, SumSplits
    <3> QED
      BY Zenon, <3>2, <3>3
  <2>10. SumOver(g, u) \in Nat /\ g[x] \in Nat
    <3>1. \A y \in u : g[y] \in Nat
      BY <2>6
    <3> QED
      BY <2>2, <2>6, <3>1, SumType
  <2> HIDE DEF u
  <2> QED
    BY <2>2, <2>3, <2>7, <2>8, <2>9, <2>10
<1> QED
  BY Zenon, <1>1

\* The sum over a part is not more than the sum over the whole.
LEMMA SumOfPart ==
  ASSUME NEW S, NEW T, IsFiniteSet(T), S \subseteq T, NEW g, \A x \in T : g[x] \in Nat
  PROVE  SumOver(g, S) <= SumOver(g, T)
<1>1. IsFiniteSet(S) /\ IsFiniteSet(T \ S) /\ S \union (T \ S) = T
  BY FS_Subset
<1>2. SumOver(g, S \union (T \ S)) = SumOver(g, S) + SumOver(g, T \ S)
  BY <1>1, SumOfBoth
<1>3. SumOver(g, S) \in Nat /\ SumOver(g, T \ S) \in Nat
  BY <1>1, SumType
<1>4. SumOver(g, T) = SumOver(g, S) + SumOver(g, T \ S)
  BY Zenon, <1>1, <1>2
<1> QED
  BY <1>3, <1>4

\* A sum sorted by a key, and the elements whose key is one of some keys.
ByKey(g, key, S, K) == [k \in K |-> SumOver(g, {x \in S : key[x] = k})]
WithKeys(key, S, K) == {x \in S : key[x] \in K}

\* A sum sorted by a key, and summed over the keys, is the sum of all.
LEMMA SumByKey ==
  ASSUME NEW S, IsFiniteSet(S), NEW K, IsFiniteSet(K), NEW g, \A x \in S : g[x] \in Nat,
         NEW key
  PROVE  SumOver(ByKey(g, key, S, K), K) = SumOver(g, WithKeys(key, S, K))
<1> DEFINE of(k) == {x \in S : key[x] = k}
           all(ks) == {x \in S : key[x] \in ks}
           by == [k \in K |-> SumOver(g, of(k))]
           Bad == {ks \in SUBSET K : SumOver(by, ks) # SumOver(g, all(ks))}
<1>0. \A T : T \subseteq S => IsFiniteSet(T) /\ SumOver(g, T) \in Nat
  <2> SUFFICES ASSUME NEW T, T \subseteq S PROVE IsFiniteSet(T) /\ SumOver(g, T) \in Nat
    OBVIOUS
  <2>1. IsFiniteSet(T) /\ \A x \in T : g[x] \in Nat
    BY FS_Subset
  <2> QED
    BY <2>1, SumType
<1>b. \A k \in K : by[k] = SumOver(g, of(k)) /\ by[k] \in Nat
  <2>1. \A k \in K : of(k) \subseteq S
    OBVIOUS
  <2> QED
    BY Zenon, <2>1, <1>0
<1>1. ASSUME Bad # {} PROVE FALSE
  <2>1. PICK t \in Bad : \A u \in Bad : u \subseteq t => u = t
    <3>1. Bad \subseteq SUBSET K
      OBVIOUS
    <3> HIDE DEF Bad
    <3> QED
      BY <1>1, <3>1, SmallestSet
  <2>2. t \in SUBSET K /\ IsFiniteSet(t) /\ SumOver(by, t) # SumOver(g, all(t))
    BY <2>1, FS_Subset
  <2>3. t # {}
    <3>1. all({}) = {}
      OBVIOUS
    <3> QED
      BY Zenon, <3>1, <2>2, SumEmpty
  <2>4. PICK x \in t : TRUE
    BY <2>3
  <2> DEFINE u == t \ {x}
  <2>5. u \in SUBSET K /\ u \subseteq t /\ u # t /\ x \in K
    BY <2>2
  <2>6. SumOver(by, u) = SumOver(g, all(u))
    BY Zenon, <2>1, <2>5
  <2>7. SumOver(by, t) = by[x] + SumOver(by, u)
    <3>1. \A y \in t : by[y] \in Nat
      BY Zenon, <2>2, <1>b
    <3> QED
      BY Zenon, <2>2, <3>1, SumSplits
  <2>8. SumOver(g, all(t)) = SumOver(g, all(u)) + SumOver(g, of(x))
    <3> DEFINE A == all(u)
               B == of(x)
    <3>1. all(t) = A \union B /\ A \intersect B = {}
      BY <2>4
    <3>2. A \subseteq S /\ B \subseteq S
      OBVIOUS
    <3> HIDE DEF A, B
    <3>3. IsFiniteSet(A) /\ IsFiniteSet(B) /\ \A y \in A \union B : g[y] \in Nat
      BY <3>2, FS_Subset
    <3>4. SumOver(g, A \union B) = SumOver(g, A) + SumOver(g, B)
      BY <3>1, <3>3, SumOfBoth
    <3> QED
      BY Zenon, <3>1, <3>4 DEF A, B
  <2>9. SumOver(g, all(u)) \in Nat /\ SumOver(g, of(x)) \in Nat
    <3>2. all(u) \subseteq S /\ of(x) \subseteq S
      OBVIOUS
    <3> QED
      BY Zenon, <3>2, <1>0
  <2>10. by[x] = SumOver(g, of(x))
    BY Zenon, <1>b, <2>5
  <2> HIDE DEF u, by, of, all
  <2> QED
    BY <2>2, <2>6, <2>7, <2>8, <2>9, <2>10
<1>2. SumOver(by, K) = SumOver(g, all(K))
  BY Zenon, <1>1
<1> QED
  BY Zenon, <1>2 DEF ByKey, WithKeys

\* The greatest of a set of numbers is the one that is not less than any.
LEMMA MaxIs ==
  ASSUME NEW S, S \subseteq Int, NEW m \in S, \A y \in S : m >= y
  PROVE  Max(S) = m
<1>1. Max(S) \in S /\ \A y \in S : Max(S) >= y
  BY Zenon DEF Max
<1>2. Max(S) >= m /\ m >= Max(S) /\ Max(S) \in Int
  BY <1>1
<1> HIDE DEF Max
<1> QED
  BY <1>2

\* The least of a set of numbers is the one that is not greater than any.
LEMMA MinIs ==
  ASSUME NEW S, S \subseteq Int, NEW m \in S, \A y \in S : m <= y
  PROVE  Min(S) = m
<1>1. Min(S) \in S /\ \A y \in S : Min(S) <= y
  BY Zenon DEF Min
<1>2. Min(S) <= m /\ m <= Min(S) /\ Min(S) \in Int
  BY <1>1
<1> QED
  BY <1>2

\* A finite nonempty set of numbers has a greatest one.
LEMMA Greatest ==
  ASSUME NEW S, IsFiniteSet(S), \A y \in S : y \in Int, S # {}
  PROVE  Max(S) \in S /\ \A y \in S : Max(S) >= y
<1> DEFINE Has(t) == \E m \in t : \A y \in t : m >= y
           Bad == {t \in SUBSET S : t # {} /\ ~ Has(t)}
<1>1. ASSUME Bad # {} PROVE FALSE
  <2>1. PICK t \in Bad : \A u \in Bad : u \subseteq t => u = t
    <3>1. Bad \subseteq SUBSET S
      OBVIOUS
    <3> HIDE DEF Bad, Has
    <3> QED
      BY <1>1, <3>1, SmallestSet
  <2>2. t \in SUBSET S /\ t # {} /\ ~ Has(t)
    BY Zenon, <2>1
  <2>3. PICK x \in t : TRUE
    BY Zenon, <2>2
  <2> DEFINE u == t \ {x}
  <2>4. u \in SUBSET S /\ u \subseteq t /\ u # t
    BY <2>2
  <2>5. CASE u = {}
    <3>1. \A y \in t : x >= y
      BY <2>5, <2>2
    <3> QED
      BY Zenon, <3>1, <2>2
  <2>6. CASE u # {}
    <3>1. Has(u)
      BY Zenon, <2>1, <2>4, <2>6
    <3>2. PICK m \in u : \A y \in u : m >= y
      BY Zenon, <3>1
    <3>3. CASE m >= x
      <4>1. \A y \in t : m >= y
        BY <3>2, <3>3
      <4> QED
        BY Zenon, <4>1, <2>2
    <3>4. CASE ~ (m >= x)
      <4>1. \A y \in t : x >= y
        BY <3>2, <3>4, <2>2
      <4> QED
        BY Zenon, <4>1, <2>2
    <3> QED
      BY Zenon, <3>3, <3>4
  <2> QED
    BY Zenon, <2>5, <2>6
<1>2. Has(S)
  BY Zenon, <1>1
<1> QED
  BY Zenon, <1>2 DEF Max

\* A nonempty set of natural numbers has a least one, which Min chooses.
LEMMA LeastOne ==
  ASSUME NEW S, S \subseteq Nat, S # {}
  PROVE  Min(S) \in S /\ \A y \in S : Min(S) <= y
<1>1. \E n \in S : \A m \in S : n <= m
  BY Zenon, SmallestNat
<1> QED
  BY Zenon, <1>1 DEF Min

\* The greater of two.
LEMMA GreaterOfTwo ==
  ASSUME NEW a \in Nat, NEW b \in Nat
  PROVE  Max({a, b}) \in Nat /\ Max({a, b}) >= a /\ Max({a, b}) >= b
<1>1. CASE a >= b
  BY <1>1, MaxIs
<1>2. CASE ~ (a >= b)
  BY <1>2, MaxIs
<1> QED
  BY <1>1, <1>2

\* The values of a function on a finite set.
LEMMA ImageFinite ==
  ASSUME NEW S, IsFiniteSet(S), NEW f
  PROVE  IsFiniteSet({f[x] : x \in S})
<1> DEFINE g == [x \in S |-> f[x]]
           T == {f[x] : x \in S}
<1>1. g \in Surjection(S, T)
  BY DEF Surjection
<1> QED
  BY <1>1, FS_Surjection

\* A common factor.
LEMMA SumScales ==
  ASSUME NEW S, IsFiniteSet(S), NEW g, NEW f, NEW q \in Nat,
         \A x \in S : g[x] \in Nat /\ f[x] = q * g[x]
  PROVE  SumOver(f, S) = q * SumOver(g, S)
<1> DEFINE Bad == {t \in SUBSET S : ~ (SumOver(f, t) = q * SumOver(g, t))}
<1>1. ASSUME Bad # {} PROVE FALSE
  <2>1. PICK t \in Bad : \A u \in Bad : u \subseteq t => u = t
    <3>1. Bad \subseteq SUBSET S
      OBVIOUS
    <3> HIDE DEF Bad
    <3> QED
      BY <1>1, <3>1, SmallestSet
  <2>2. t \in SUBSET S /\ IsFiniteSet(t) /\ ~ (SumOver(f, t) = q * SumOver(g, t))
    BY <2>1, FS_Subset
  <2>3. t # {}
    BY <2>2, SumEmpty
  <2>4. PICK x \in t : TRUE
    BY <2>3
  <2> DEFINE u == t \ {x}
  <2>5. u \in SUBSET S /\ u \subseteq t /\ u # t /\ IsFiniteSet(u)
    BY <2>2, FS_Subset
  <2>6. SumOver(f, u) = q * SumOver(g, u)
    BY Zenon, <2>1, <2>5
  <2>7. ASSUME NEW y \in t PROVE g[y] \in Nat /\ f[y] = q * g[y] /\ f[y] \in Nat
    <3>1. g[y] \in Nat /\ f[y] = q * g[y]
      BY <2>2
    <3> QED
      BY <3>1
  <2>8. SumOver(f, t) = f[x] + SumOver(f, u) /\ SumOver(g, t) = g[x] + SumOver(g, u)
    BY <2>2, <2>7, SumSplits
  <2>9. SumOver(g, u) \in Nat
    BY <2>5, <2>7, SumType
  <2>10. g[x] \in Nat /\ f[x] = q * g[x]
    BY <2>7
  <2> HIDE DEF u
  <2>11. q * (g[x] + SumOver(g, u)) = q * g[x] + q * SumOver(g, u)
    BY <2>9, <2>10
  <2> QED
    BY Zenon, <2>2, <2>6, <2>8, <2>10, <2>11
<1> QED
  BY Zenon, <1>1

\* Nothing adds up to nothing.
LEMMA SumOfNothing ==
  ASSUME NEW S, IsFiniteSet(S), NEW f, \A x \in S : f[x] = 0
  PROVE  SumOver(f, S) = 0
<1>1. \A x \in S : f[x] \in Nat /\ f[x] = 0 * f[x]
  OBVIOUS
<1>2. SumOver(f, S) = 0 * SumOver(f, S)
  BY <1>1, SumScales
<1>3. SumOver(f, S) \in Nat
  BY <1>1, SumType
<1> QED
  BY <1>2, <1>3

\* A product divided by one of its factors.
LEMMA DivExact ==
  ASSUME NEW x \in Nat, NEW W \in Nat, W > 0
  PROVE  (x * W) \div W = x
 OBVIOUS

\* A part of a number.
LEMMA DivLess ==
  ASSUME NEW r \in Nat, NEW c \in Nat, NEW k \in Nat, k > 0, r <= k
  PROVE (r * c) \div k <= c /\ (r * c) \div k \in Nat
OBVIOUS

\* A dividend more, a quotient more.
LEMMA DivGrows ==
  ASSUME NEW a \in Nat, NEW b \in Nat, NEW k \in Nat, k > 0, a <= b
  PROVE  a \div k <= b \div k /\ a \div k \in Nat /\ b \div k \in Nat
OBVIOUS

\* A quotient rounded up is enough.
LEMMA DivUp ==
  ASSUME NEW a \in Nat, NEW b \in Nat, b > 0
  PROVE  ((a + b - 1) \div b) * b >= a /\ (a + b - 1) \div b \in Nat
OBVIOUS

\* A factor more, a product more.
LEMMA Times ==
  ASSUME NEW a \in Nat, NEW b \in Nat, NEW c \in Nat, a <= b
  PROVE  a * c <= b * c
OBVIOUS

\* The greatest of three.
LEMMA GreatestOfThree ==
  ASSUME NEW a \in Nat, NEW b \in Nat, NEW c \in Nat
  PROVE  LET m == Max({a, b, c}) IN m \in Nat /\ m >= a /\ m >= b /\ m >= c
<1>1. CASE a >= b /\ a >= c
  <2>1. Max({a, b, c}) = a
    BY <1>1, MaxIs
  <2> QED
    BY <1>1, <2>1
<1>2. CASE b >= a /\ b >= c
  <2>1. Max({a, b, c}) = b
    BY <1>2, MaxIs
  <2> QED
    BY <1>2, <2>1
<1>3. CASE c >= a /\ c >= b
  <2>1. Max({a, b, c}) = c
    BY <1>3, MaxIs
  <2> QED
    BY <1>3, <2>1
<1> QED
  BY <1>1, <1>2, <1>3

\* None of three less, the greatest not less.
LEMMA ThreeGrow ==
  ASSUME NEW a \in Nat, NEW b \in Nat, NEW c \in Nat, NEW x \in Nat, NEW y \in Nat,
         a <= x, b <= y
  PROVE  /\ Max({a, b, c}) \in Nat /\ Max({x, y, c}) \in Nat
         /\ Max({a, b, c}) <= Max({x, y, c})
<1>1. \A z \in {a, b, c} : z \in Int
  OBVIOUS
<1>2. IsFiniteSet({a, b, c})
  <2>1. IsFiniteSet({a}) /\ IsFiniteSet({b}) /\ IsFiniteSet({c})
    BY FS_Singleton
  <2>2. {a, b, c} = ({a} \union {b}) \union {c}
    OBVIOUS
  <2>3. IsFiniteSet({a} \union {b})
    BY Zenon, <2>1, FS_Union
  <2>4. IsFiniteSet(({a} \union {b}) \union {c})
    BY Zenon, <2>1, <2>3, FS_Union
  <2> QED
    BY Zenon, <2>2, <2>4
<1>3. Max({a, b, c}) \in {a, b, c}
  BY <1>1, <1>2, Greatest
<1> DEFINE m == Max({a, b, c})
           n == Max({x, y, c})
<1>4. m \in {a, b, c}
  BY Zenon, <1>3
<1>5. n \in Nat /\ n >= x /\ n >= y /\ n >= c
  BY GreatestOfThree
<1> HIDE DEF m, n
<1>6. m \in Nat /\ m <= n
  BY <1>4, <1>5
<1> QED
  BY Zenon, <1>5, <1>6 DEF m, n

\* The less of two.
LEMMA LessOfTwo ==
  ASSUME NEW a \in Nat, NEW b \in Nat
  PROVE  Min({a, b}) \in Nat /\ Min({a, b}) = IF a <= b THEN a ELSE b
<1>1. CASE a <= b
  BY <1>1, MinIs
<1>2. CASE ~ (a <= b)
  BY <1>2, MinIs
<1> QED
  BY <1>1, <1>2

=============================================================================
