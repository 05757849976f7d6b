-------------------------- MODULE TileArithmetic --------------------------
(***************************************************************************)
(* Facts about quotients, remainders, multiples, sets of naturals, and     *)
(* finite sets and sums over them, that the proofs need and the SMT solver *)
(* does not find by itself.                                                *)
(***************************************************************************)
EXTENDS Integers, Functions, TLAPS, WellFoundedInduction, FiniteSetTheorems

\* What the provers need to know of division, as one fact.
LEMMA DivMod ==
    ASSUME NEW n \in Nat, NEW k \in Nat \ {0}
    PROVE  /\ n \div k \in Nat
           /\ (n % k) \in 0 .. (k - 1)
           /\ n = (n \div k) * k + (n % k)
  BY SMT

\* The only multiple of k that lies strictly between -k and k is 0.
LEMMA NoSmallMultiple ==
    ASSUME NEW q \in Int, NEW k \in Nat \ {0}, q * k < k, 0 - k < q * k
    PROVE  q = 0
<1>1. CASE q >= 1
  <2>1. q * k = k + (q - 1) * k
    BY SMT
  <2>2. (q - 1) * k >= 0
    BY <1>1, SMT
  <2> QED
    BY <2>1, <2>2, SMT
<1>2. CASE q <= 0 - 1
  <2>1. q * k = (0 - k) + (q + 1) * k
    BY SMT
  <2>2. (q + 1) * k <= 0
    BY <1>2, SMT
  <2> QED
    BY <2>1, <2>2, SMT
<1> QED
  BY <1>1, <1>2

\* Quotient and remainder are determined by the equation they satisfy.
LEMMA DivModUnique ==
    ASSUME NEW n \in Nat, NEW k \in Nat \ {0}, NEW q \in Nat,
           NEW r \in 0 .. (k - 1), n = q * k + r
    PROVE  (n % k) = r /\ n \div k = q
<1> DEFINE d == n \div k
           m == n % k
<1>1. d \in Nat /\ m \in 0 .. (k - 1) /\ n = d * k + m
  BY DivMod
<1> HIDE DEF d, m
<1>2. (q - d) * k = q * k - d * k
  BY <1>1, SMT
<1>3. q * k \in Nat /\ d * k \in Nat
  BY <1>1, SMT
<1>4. q * k - d * k = m - r
  BY <1>1, <1>3, SMT
<1>5. q - d = 0
  <2>1. q - d \in Int /\ (q - d) * k < k /\ 0 - k < (q - d) * k
    BY <1>1, <1>2, <1>4, SMT
  <2> QED
    BY <2>1, NoSmallMultiple
<1>6. q = d
  BY <1>1, <1>5, SMT
<1>7. m = r
  BY <1>1, <1>6, <1>3, SMT
<1> QED
  BY <1>6, <1>7 DEF d, m

\* As many items as fit do fit.
LEMMA Afford ==
    ASSUME NEW a \in Nat, NEW b \in Nat, NEW k \in Nat \ {0}, a <= b \div k
    PROVE  a * k <= b
<1> DEFINE d == b \div k
<1>1. d \in Nat /\ d * k <= b
  BY DivMod, SMT
<1>2. a <= d
  OBVIOUS
<1> HIDE DEF d
<1>3. d * k = a * k + (d - a) * k /\ (d - a) * k >= 0
  BY <1>1, <1>2, SMT
<1> QED
  BY <1>1, <1>3, SMT

\* Multiplication by a positive number, as the provers use it below.
LEMMA TimesMonotone ==
    ASSUME NEW m \in Nat, NEW n \in Nat, NEW k \in Nat \ {0}, m < n
    PROVE  m * k + k <= n * k /\ m * k \in Nat /\ n * k \in Nat
<1>1. n * k = (m * k + k) + (n - (m + 1)) * k
  BY SMT
<1>2. (n - (m + 1)) * k >= 0 /\ m * k \in Nat /\ n * k \in Nat
  BY SMT
<1> QED
  BY <1>1, <1>2, SMT

\* A tile and the tile that follows it on the same lane.
LEMMA ModNext ==
    ASSUME NEW t \in Nat, NEW k \in Nat \ {0}
    PROVE  ((t + k) % k) = (t % k)
<1>1. /\ t = (t \div k) * k + (t % k)
      /\ t \div k \in Nat /\ (t % k) \in 0 .. (k - 1)
  BY DivMod
<1>2. t + k = (t \div k + 1) * k + (t % k)
  BY <1>1, SMT
<1>3. t + k \in Nat /\ t \div k + 1 \in Nat
  BY <1>1, SMT
<1> QED
  BY <1>1, <1>2, <1>3, DivModUnique

\* Two tiles fewer than k apart are on different lanes of k.
LEMMA ModUnique ==
    ASSUME NEW t \in Nat, NEW u \in Nat, NEW k \in Nat \ {0},
           (t % k) = (u % k), t < u, u - t < k
    PROVE  FALSE
<1>1. /\ t = (t \div k) * k + (t % k) /\ u = (u \div k) * k + (u % k)
      /\ t \div k \in Nat /\ u \div k \in Nat
  BY DivMod
<1>2. u - t = (u \div k - t \div k) * k
  BY <1>1, DivMod, SMT
<1>3. u \div k - t \div k = 0
  BY NoSmallMultiple, <1>1, <1>2, SMT
<1> QED
  BY <1>1, <1>2, <1>3, SMT

\* A set of naturals that is not empty has a least member.
LEMMA LeastMember ==
    ASSUME NEW T \in SUBSET Nat, T # {}
    PROVE  \E m \in T : \A k \in T : m <= k
<1> DEFINE R == OpToRel(<, Nat)
<1>1. \A a \in Nat, b \in Nat : <<a, b>> \in R <=> a < b
  BY DEF OpToRel
<1>2. IsWellFoundedOn(R, Nat)
  BY NatLessThanWellFounded
<1> HIDE DEF R
<1>3. PICK m \in T : \A k \in T : <<k, m>> \notin R
  BY <1>2, WFMin
<1>4. ASSUME NEW k \in T PROVE m <= k
  <2>1. k \in Nat /\ m \in Nat
    OBVIOUS
  <2>2. ~(k < m)
    BY <1>1, <1>3, <2>1
  <2> QED
    BY <2>1, <2>2, SMT
<1> QED
  BY <1>4

\* A set of naturals with a bound has a greatest member.
LEMMA GreatestMember ==
    ASSUME NEW n \in Nat, NEW T \in SUBSET (0 .. n), T # {}
    PROVE  \E m \in T : \A k \in T : k <= m
<1> DEFINE U == {n - k : k \in T}
<1>1. U \in SUBSET Nat /\ U # {}
  <2>1. ASSUME NEW k \in T PROVE n - k \in Nat
    <3>1. k \in 0 .. n
      OBVIOUS
    <3> QED
      BY <3>1, SMT
  <2> QED
    BY <2>1
<1>2. PICK u \in U : \A v \in U : u <= v
  BY <1>1, LeastMember
<1>3. PICK m \in T : u = n - m
  BY <1>2
<1>4. ASSUME NEW k \in T PROVE k <= m
  <2>1. u <= n - k /\ k \in 0 .. n /\ m \in 0 .. n
    BY <1>2
  <2> QED
    BY <1>3, <2>1, SMT
<1> QED
  BY <1>4

-----------------------------------------------------------------------------
(*****************************************************************************)
(* Finite sets and sums over them.                                          *)
(*****************************************************************************)
\* What holds of the empty set and of every set with one member more than a set
\* it holds of, holds of a finite set.
LEMMA SetInduction ==
    ASSUME NEW base, IsFiniteSet(base), NEW good \in SUBSET (SUBSET base),
           {} \in good, \A T \in good : \A x \in base \ T : T \cup {x} \in good
    PROVE  base \in good
<1> DEFINE sizes == {Cardinality(T) : T \in good}
<1>1. ASSUME NEW T \in SUBSET base
      PROVE  IsFiniteSet(T) /\ Cardinality(T) \in 0 .. Cardinality(base)
  <2>1. IsFiniteSet(T) /\ Cardinality(T) <= Cardinality(base)
    BY FS_Subset
  <2>2. Cardinality(T) \in Nat /\ Cardinality(base) \in Nat
    BY <2>1, FS_CardinalityType
  <2> QED
    BY <2>1, <2>2, SMT
<1>2. Cardinality(base) \in Nat
  BY FS_CardinalityType
<1>3. PICK m \in sizes : \A k \in sizes : k <= m
  <2>1. sizes \in SUBSET (0 .. Cardinality(base)) /\ sizes # {}
    BY <1>1
  <2> DEFINE n == Cardinality(base)
  <2>2. n \in Nat /\ sizes \in SUBSET (0 .. n) /\ sizes # {}
    BY <1>2, <2>1
  <2> HIDE DEF sizes, n
  <2> QED
    BY ONLY <2>2, GreatestMember
<1>4. PICK T \in good : m = Cardinality(T)
  BY <1>3
<1>5. CASE T = base
  BY <1>5
<1>6. CASE T # base
  <2>1. PICK x \in base : x \notin T
    BY <1>6
  <2>2. T \cup {x} \in good
    BY <2>1
  <2>3. Cardinality(T \cup {x}) = Cardinality(T) + 1
    BY <1>1, <2>1, FS_AddElement
  <2>4. Cardinality(T) + 1 <= Cardinality(T) /\ Cardinality(T) \in Nat
    BY <1>1, <1>3, <1>4, <2>2, <2>3
  <2> QED
    BY <2>4, SMT
<1> QED
  BY <1>5, <1>6

\* The sum of f over a set, as the recursive function of MapThenFoldSet.
Some(s) == CHOOSE x \in s : TRUE
SumBody(f, g, s) == IF s = {} THEN 0 ELSE f[Some(s)] + g[s \ {Some(s)}]
IsSum(f, S, g) == g = [s \in SUBSET S |-> SumBody(f, g, s)]

LEMMA SumIsChosen ==
    ASSUME NEW f, NEW S
    PROVE  SumFunctionOnSet(f, S) = (CHOOSE g : IsSum(f, S, g))[S]
  BY DEF SumFunctionOnSet, FoldFunctionOnSet, MapThenFoldSet, IsSum, SumBody,
         Some

\* A set of subsets of a finite set has a smallest member.
LEMMA Smallest ==
    ASSUME NEW S, IsFiniteSet(S), NEW bad \in SUBSET (SUBSET S), bad # {}
    PROVE  \E T \in bad :
              /\ IsFiniteSet(T)
              /\ \A U \in SUBSET T : U # T => U \notin bad
<1> DEFINE sizes == {Cardinality(T) : T \in bad}
<1>1. ASSUME NEW T \in SUBSET S PROVE IsFiniteSet(T) /\ Cardinality(T) \in Nat
  BY FS_Subset, FS_CardinalityType
<1>2. PICK m \in sizes : \A k \in sizes : m <= k
  <2>1. sizes \subseteq Nat /\ sizes # {}
    BY <1>1
  <2> QED
    BY <2>1, LeastMember
<1>3. PICK T \in bad : m = Cardinality(T)
  BY <1>2
<1>4. ASSUME NEW U \in SUBSET T, U # T PROVE U \notin bad
  <2>1. Cardinality(U) < Cardinality(T)
    <3>1. IsFiniteSet(T) /\ Cardinality(T) \in Nat /\ Cardinality(U) \in Nat
      BY <1>1
    <3>2. Cardinality(U) <= Cardinality(T) /\ Cardinality(U) # Cardinality(T)
      BY <1>4, <3>1, FS_Subset
    <3> QED
      BY ONLY <3>1, <3>2, SMT
  <2>2. Cardinality(T) \in Nat /\ Cardinality(U) \in Nat
    BY <1>1
  <2>3. ASSUME U \in bad PROVE Cardinality(T) <= Cardinality(U)
    BY <1>2, <1>3, <2>3
  <2> QED
    BY <2>1, <2>2, <2>3, SMT
<1> QED
  BY <1>1, <1>3, <1>4

\* Some function satisfies the equation, so the chosen one does.
LEMMA SumExists ==
    ASSUME NEW f, NEW S, IsFiniteSet(S)
    PROVE  \E g : IsSum(f, S, g)
<1> DEFINE Level(n) == {s \in SUBSET S : Cardinality(s) <= n}
           Partial(n, g) == g = [s \in Level(n) |-> SumBody(f, g, s)]
           good == {n \in 0 .. Cardinality(S) : \E g : Partial(n, g)}
<1>1. ASSUME NEW s \in SUBSET S
      PROVE  IsFiniteSet(s) /\ Cardinality(s) \in 0 .. Cardinality(S)
  <2>1. IsFiniteSet(s) /\ Cardinality(s) <= Cardinality(S)
    BY FS_Subset
  <2>2. Cardinality(s) \in Nat /\ Cardinality(S) \in Nat
    BY <2>1, FS_CardinalityType
  <2> QED
    BY <2>1, <2>2, SMT
<1>2. Cardinality(S) \in Nat
  BY FS_CardinalityType
<1>3. 0 \in good
  <2>1. ASSUME NEW s \in Level(0) PROVE s = {}
    <3>1. Cardinality(s) = 0
      BY <1>1, SMT
    <3> QED
      BY <1>1, <3>1, FS_EmptySet
  <2>2. Partial(0, [s \in Level(0) |-> 0])
    BY <2>1 DEF SumBody
  <2>3. \E g : Partial(0, g)
    BY <2>2
  <2>4. 0 \in 0 .. Cardinality(S)
    BY <1>2, SMT
  <2> QED
    BY <2>3, <2>4
<1>4. ASSUME NEW n \in good, n < Cardinality(S) PROVE n + 1 \in good
  <2>1. PICK g : Partial(n, g)
    OBVIOUS
  <2> DEFINE h == [s \in Level(n + 1) |->
                      IF Cardinality(s) <= n THEN g[s] ELSE SumBody(f, g, s)]
  <2>2. n \in Nat /\ n + 1 \in 0 .. Cardinality(S)
    BY <1>2, <1>4, SMT
  <2>3. ASSUME NEW s \in Level(n + 1)
        PROVE  /\ s # {} => /\ s \ {Some(s)} \in Level(n)
                            /\ s \ {Some(s)} \in Level(n + 1)
               /\ Cardinality(s) <= n => s \in Level(n)
    <3>1. CASE s # {}
      <4>1. Some(s) \in s
        BY <3>1 DEF Some
      <4>2. Cardinality(s \ {Some(s)}) = Cardinality(s) - 1
        BY <1>1, <4>1, FS_RemoveElement
      <4>3. Cardinality(s) \in Nat /\ Cardinality(s) <= n + 1
        BY <1>1
      <4>4. Cardinality(s \ {Some(s)}) <= n /\ Cardinality(s \ {Some(s)}) <= n + 1
        BY <2>2, <4>2, <4>3, SMT
      <4> QED
        BY <4>4
    <3> QED
      BY <3>1
  <2>4. ASSUME NEW s \in Level(n) PROVE g[s] = SumBody(f, g, s) /\ h[s] = g[s]
    <3>1. s \in Level(n + 1)
      BY <1>1, <2>2, SMT
    <3> QED
      BY <2>1, <3>1
  <2>5. ASSUME NEW s \in Level(n + 1) PROVE h[s] = SumBody(f, h, s)
    <3>1. h[s] = SumBody(f, g, s)
      BY <2>3, <2>4
    <3> QED
      BY <2>3, <2>4, <3>1 DEF SumBody
  <2>6. Partial(n + 1, h)
    <3>1. h = [s \in Level(n + 1) |-> h[s]]
      OBVIOUS
    <3> HIDE DEF h
    <3> QED
      BY <2>5, <3>1
  <2>7. \E x : Partial(n + 1, x)
    BY <2>6
  <2> QED
    BY <2>2, <2>7
<1>5. Cardinality(S) \in good
  <2>1. good \subseteq 0 .. Cardinality(S) /\ good # {}
    BY <1>3
  <2>2. PICK m \in good : \A k \in good : k <= m
    BY <1>2, <2>1, GreatestMember
  <2>3. m \in 0 .. Cardinality(S)
    OBVIOUS
  <2>4. ~(m < Cardinality(S))
    <3>1. ASSUME m < Cardinality(S) PROVE m + 1 <= m
      BY <1>4, <2>2, <3>1
    <3> QED
      BY <1>2, <2>3, <3>1, SMT
  <2>5. m = Cardinality(S)
    BY <1>2, <2>3, <2>4, SMT
  <2> QED
    BY <2>5
<1>6. PICK g : Partial(Cardinality(S), g)
  BY <1>5
<1>7. Level(Cardinality(S)) = SUBSET S
  BY <1>1
<1> QED
  BY <1>6, <1>7 DEF IsSum

\* Two functions that satisfy it agree on the sets both are about.
LEMMA SumUnique ==
    ASSUME NEW f, NEW S, IsFiniteSet(S), NEW T \in SUBSET S,
           NEW g, NEW h, IsSum(f, S, g), IsSum(f, T, h)
    PROVE  h[T] = g[T]
<1> DEFINE bad == {s \in SUBSET T : h[s] # g[s]}
<1>1. ASSUME NEW s \in SUBSET T
      PROVE  h[s] = SumBody(f, h, s) /\ g[s] = SumBody(f, g, s)
  BY DEF IsSum
<1>2. ASSUME bad # {} PROVE FALSE
  <2>1. bad \in SUBSET (SUBSET S)
    OBVIOUS
  <2>2. PICK s \in bad : \A u \in SUBSET s : u # s => u \notin bad
    <3> HIDE DEF bad
    <3> QED
      BY <1>2, <2>1, Smallest
  <2>3. s # {}
    BY <1>1 DEF SumBody
  <2>4. Some(s) \in s
    BY <2>3 DEF Some
  <2>5. s \ {Some(s)} \in SUBSET T /\ s \ {Some(s)} \notin bad
    BY <2>2, <2>4
  <2>6. h[s \ {Some(s)}] = g[s \ {Some(s)}]
    BY <2>5
  <2> QED
    BY <1>1, <2>3, <2>6 DEF SumBody
<1> QED
  BY <1>2

LEMMA SumOfNone ==
    ASSUME NEW f PROVE SumFunctionOnSet(f, {}) = 0
<1>1. \E g : IsSum(f, {}, g)
  BY SumExists, FS_EmptySet
<1>2. IsSum(f, {}, CHOOSE g : IsSum(f, {}, g))
  BY <1>1
<1> QED
  BY <1>2, SumIsChosen DEF IsSum, SumBody

LEMMA SumChosen ==
    ASSUME NEW f, NEW S, IsFiniteSet(S), S # {}
    PROVE  SumFunctionOnSet(f, S)
             = f[Some(S)] + SumFunctionOnSet(f, S \ {Some(S)})
<1> DEFINE g == CHOOSE x : IsSum(f, S, x)
           T == S \ {Some(S)}
           h == CHOOSE x : IsSum(f, T, x)
<1>1. IsSum(f, S, g)
  <2>1. \E x : IsSum(f, S, x)
    BY SumExists
  <2> QED
    BY <2>1
<1>2. IsSum(f, T, h)
  <2>1. IsFiniteSet(T)
    BY FS_Subset
  <2>2. \E x : IsSum(f, T, x)
    BY <2>1, SumExists
  <2> QED
    BY <2>2
<1>3. g[S] = f[Some(S)] + g[T]
  BY <1>1 DEF IsSum, SumBody
<1>4. h[T] = g[T]
  <2>1. T \in SUBSET S
    OBVIOUS
  <2> HIDE DEF g, h, T
  <2> QED
    BY <1>1, <1>2, <2>1, SumUnique
<1>5. SumFunctionOnSet(f, S) = g[S] /\ SumFunctionOnSet(f, T) = h[T]
  BY SumIsChosen
<1> QED
  BY <1>3, <1>4, <1>5

\* Naturals on a set.
Counts(f, S) == \A x \in S : f[x] \in Nat

LEMMA SumNat ==
    ASSUME NEW f, NEW S, IsFiniteSet(S), Counts(f, S)
    PROVE  SumFunctionOnSet(f, S) \in Nat
<1> DEFINE bad == {T \in SUBSET S : SumFunctionOnSet(f, T) \notin Nat}
<1>1. ASSUME bad # {} PROVE FALSE
  <2>1. bad \in SUBSET (SUBSET S)
    OBVIOUS
  <2>2. PICK T \in bad : IsFiniteSet(T) /\ \A U \in SUBSET T : U # T => U \notin bad
    <3> HIDE DEF bad
    <3> QED
      BY <1>1, <2>1, Smallest
  <2>3. T # {}
    BY SumOfNone
  <2>4. Some(T) \in T
    BY <2>3 DEF Some
  <2>5. T \ {Some(T)} \in SUBSET S /\ T \ {Some(T)} \notin bad
    BY <2>2, <2>4
  <2>6. SumFunctionOnSet(f, T \ {Some(T)}) \in Nat /\ f[Some(T)] \in Nat
    BY <2>4, <2>5 DEF Counts
  <2>7. SumFunctionOnSet(f, T) = f[Some(T)] + SumFunctionOnSet(f, T \ {Some(T)})
    BY <2>2, <2>3, SumChosen
  <2>8. SumFunctionOnSet(f, T) \in Nat
    BY <2>6, <2>7, SMT
  <2> QED
    BY <2>2, <2>8
<1> QED
  BY <1>1

\* Any member may be taken off first.
LEMMA SumWithout ==
    ASSUME NEW f, NEW S, IsFiniteSet(S), Counts(f, S), NEW x \in S
    PROVE  SumFunctionOnSet(f, S) = f[x] + SumFunctionOnSet(f, S \ {x})
<1> DEFINE sum(T) == SumFunctionOnSet(f, T)
           bad == {T \in SUBSET S : \E y \in T : sum(T) # f[y] + sum(T \ {y})}
<1>1. ASSUME bad # {} PROVE FALSE
  <2>1. bad \in SUBSET (SUBSET S)
    OBVIOUS
  <2>2. PICK T \in bad : IsFiniteSet(T) /\ \A U \in SUBSET T : U # T => U \notin bad
    <3> HIDE DEF bad
    <3> QED
      BY <1>1, <2>1, Smallest
  <2>3. PICK y \in T : sum(T) # f[y] + sum(T \ {y})
    OBVIOUS
  <2> DEFINE c == Some(T)
  <2>4. c \in T
    BY <2>3 DEF Some
  <2>5. sum(T) = f[c] + sum(T \ {c})
    BY <2>2, <2>3, SumChosen
  <2>6. y # c
    BY <2>3, <2>5
  <2>7. sum(T \ {c}) = f[y] + sum((T \ {c}) \ {y})
    <3>1. T \ {c} \in SUBSET T /\ T \ {c} # T /\ T \ {c} \in SUBSET S
      BY <2>4
    <3>2. T \ {c} \notin bad
      BY <2>2, <3>1
    <3> QED
      BY <2>6, <3>1, <3>2
  <2>8. sum(T \ {y}) = f[c] + sum((T \ {y}) \ {c})
    <3>1. T \ {y} \in SUBSET T /\ T \ {y} # T /\ T \ {y} \in SUBSET S
      BY <2>3
    <3>2. T \ {y} \notin bad
      BY <2>2, <3>1
    <3> QED
      BY <2>4, <2>6, <3>1, <3>2
  <2>9. (T \ {c}) \ {y} = (T \ {y}) \ {c}
    OBVIOUS
  <2>10. f[c] \in Nat /\ f[y] \in Nat /\ sum((T \ {y}) \ {c}) \in Nat
    <3>1. IsFiniteSet((T \ {y}) \ {c}) /\ Counts(f, (T \ {y}) \ {c})
      BY <2>2, FS_Subset DEF Counts
    <3> QED
      BY <2>4, <3>1, SumNat DEF Counts
  <2> DEFINE all == sum(T)
             lessC == sum(T \ {c})
             lessY == sum(T \ {y})
             less == sum((T \ {y}) \ {c})
  <2>11. /\ all # f[y] + lessY /\ all = f[c] + lessC /\ lessC = f[y] + less
         /\ lessY = f[c] + less /\ less \in Nat /\ f[c] \in Nat /\ f[y] \in Nat
    BY <2>3, <2>5, <2>7, <2>8, <2>9, <2>10
  <2> HIDE DEF all, lessC, lessY, less, c
  <2> QED
    BY ONLY <2>11, SMT
<1>2. S \notin bad
  BY <1>1
<1> QED
  BY <1>2

LEMMA SumWith ==
    ASSUME NEW f, NEW S, IsFiniteSet(S), NEW x, x \notin S,
           Counts(f, S), f[x] \in Nat
    PROVE  SumFunctionOnSet(f, S \cup {x}) = f[x] + SumFunctionOnSet(f, S)
<1>1. IsFiniteSet(S \cup {x}) /\ Counts(f, S \cup {x}) /\ (S \cup {x}) \ {x} = S
  BY FS_AddElement DEF Counts
<1> QED
  BY <1>1, SumWithout

\* The sum depends on the values alone.
LEMMA SumSame ==
    ASSUME NEW f, NEW g, NEW S, IsFiniteSet(S), Counts(f, S),
           \A x \in S : f[x] = g[x]
    PROVE  SumFunctionOnSet(f, S) = SumFunctionOnSet(g, S)
<1> DEFINE good == {T \in SUBSET S :
                       SumFunctionOnSet(f, T) = SumFunctionOnSet(g, T)}
<1>1. {} \in good
  BY SumOfNone
<1>2. ASSUME NEW T \in good, NEW x \in S \ T PROVE T \cup {x} \in good
  <2>1. IsFiniteSet(T) /\ Counts(f, T) /\ Counts(g, T) /\ f[x] \in Nat /\ g[x] \in Nat
    BY FS_Subset DEF Counts
  <2>2. SumFunctionOnSet(f, T \cup {x}) = f[x] + SumFunctionOnSet(f, T)
    BY <2>1, SumWith
  <2>3. SumFunctionOnSet(g, T \cup {x}) = g[x] + SumFunctionOnSet(g, T)
    BY <2>1, SumWith
  <2> QED
    BY <2>2, <2>3
<1>3. good \in SUBSET (SUBSET S)
  OBVIOUS
<1> HIDE DEF good
<1>4. S \in good
  BY <1>1, <1>2, <1>3, SetInduction
<1> QED
  BY <1>4 DEF good

LEMMA SumUnion ==
    ASSUME NEW f, NEW A, NEW B, IsFiniteSet(A), IsFiniteSet(B), A \cap B = {},
           Counts(f, A), Counts(f, B)
    PROVE  SumFunctionOnSet(f, A \cup B)
             = SumFunctionOnSet(f, A) + SumFunctionOnSet(f, B)
<1> DEFINE good == {T \in SUBSET B :
                       SumFunctionOnSet(f, A \cup T)
                         = SumFunctionOnSet(f, A) + SumFunctionOnSet(f, T)}
<1>1. {} \in good
  <2>1. SumFunctionOnSet(f, A) \in Nat
    BY SumNat
  <2>2. A \cup {} = A
    OBVIOUS
  <2>3. SumFunctionOnSet(f, A) = SumFunctionOnSet(f, A) + 0
    BY <2>1, SMT
  <2> QED
    BY <2>2, <2>3, SumOfNone
<1>2. ASSUME NEW T \in good, NEW x \in B \ T PROVE T \cup {x} \in good
  <2>1. /\ IsFiniteSet(T) /\ Counts(f, T) /\ f[x] \in Nat
        /\ IsFiniteSet(A \cup T) /\ Counts(f, A \cup T) /\ x \notin A \cup T
    BY FS_Subset, FS_Union DEF Counts
  <2>2. SumFunctionOnSet(f, T \cup {x}) = f[x] + SumFunctionOnSet(f, T)
    BY <2>1, SumWith
  <2>3. SumFunctionOnSet(f, (A \cup T) \cup {x})
          = f[x] + SumFunctionOnSet(f, A \cup T)
    BY <2>1, SumWith
  <2>4. (A \cup T) \cup {x} = A \cup (T \cup {x})
    OBVIOUS
  <2>5. SumFunctionOnSet(f, A) \in Nat /\ SumFunctionOnSet(f, T) \in Nat
    BY <2>1, SumNat
  <2>6. SumFunctionOnSet(f, A \cup T)
          = SumFunctionOnSet(f, A) + SumFunctionOnSet(f, T)
    OBVIOUS
  <2>7. SumFunctionOnSet(f, A \cup (T \cup {x}))
          = SumFunctionOnSet(f, A) + SumFunctionOnSet(f, T \cup {x})
    <3> DEFINE a == SumFunctionOnSet(f, A)
               t == SumFunctionOnSet(f, T)
               v == f[x]
    <3>1. a \in Nat /\ t \in Nat /\ v \in Nat
      BY <2>1, <2>5
    <3> HIDE DEF a, t, v
    <3>2. v + (a + t) = a + (v + t)
      BY ONLY <3>1, SMT
    <3> QED
      BY <2>2, <2>3, <2>4, <2>6, <3>2 DEF a, t, v
  <2> QED
    BY <2>7
<1>3. good \in SUBSET (SUBSET B)
  OBVIOUS
<1> HIDE DEF good
<1>4. B \in good
  BY <1>1, <1>2, <1>3, SetInduction
<1> QED
  BY <1>4 DEF good

\* Members may be renamed.
LEMMA SumImage ==
    ASSUME NEW f, NEW m, NEW S, IsFiniteSet(S),
           \A x \in S, y \in S : m[x] = m[y] => x = y,
           \A x \in S : f[m[x]] \in Nat
    PROVE  SumFunctionOnSet(f, {m[x] : x \in S})
             = SumFunctionOnSet([x \in S |-> f[m[x]]], S)
<1> DEFINE g == [x \in S |-> f[m[x]]]
           good == {T \in SUBSET S :
                       SumFunctionOnSet(f, {m[x] : x \in T})
                         = SumFunctionOnSet(g, T)}
<1>1. {} \in good
  <2>1. {m[x] : x \in {}} = {}
    OBVIOUS
  <2> QED
    BY <2>1, SumOfNone
<1>2. ASSUME NEW T \in good, NEW z \in S \ T PROVE T \cup {z} \in good
  <2>1. IsFiniteSet(T) /\ Counts(g, T) /\ g[z] \in Nat /\ g[z] = f[m[z]]
    BY FS_Subset DEF Counts
  <2>2. /\ IsFiniteSet({m[x] : x \in T}) /\ Counts(f, {m[x] : x \in T})
        /\ m[z] \notin {m[x] : x \in T} /\ f[m[z]] \in Nat
    <3>1. [x \in T |-> m[x]] \in Surjection(T, {m[x] : x \in T})
      BY DEF Surjection
    <3>2. IsFiniteSet({m[x] : x \in T})
      BY <2>1, <3>1, FS_Surjection
    <3> QED
      BY <2>1, <3>2 DEF Counts
  <2>3. SumFunctionOnSet(g, T \cup {z}) = g[z] + SumFunctionOnSet(g, T)
    <3> HIDE DEF g
    <3> QED
      BY <2>1, SumWith
  <2>4. SumFunctionOnSet(f, {m[x] : x \in T} \cup {m[z]})
          = f[m[z]] + SumFunctionOnSet(f, {m[x] : x \in T})
    BY <2>2, SumWith
  <2>5. {m[x] : x \in T} \cup {m[z]} = {m[x] : x \in T \cup {z}}
    OBVIOUS
  <2> QED
    BY <2>1, <2>3, <2>4, <2>5
<1>3. good \in SUBSET (SUBSET S)
  OBVIOUS
<1> HIDE DEF good
<1>4. S \in good
  BY <1>1, <1>2, <1>3, SetInduction
<1> QED
  BY <1>4 DEF good

LEMMA SumBounds ==
    ASSUME NEW f, NEW S, IsFiniteSet(S), Counts(f, S), NEW x \in S
    PROVE  f[x] <= SumFunctionOnSet(f, S)
<1>1. SumFunctionOnSet(f, S) = f[x] + SumFunctionOnSet(f, S \ {x})
  BY SumWithout
<1>2. SumFunctionOnSet(f, S \ {x}) \in Nat /\ f[x] \in Nat
  <2>1. IsFiniteSet(S \ {x}) /\ Counts(f, S \ {x}) /\ f[x] \in Nat
    BY FS_Subset DEF Counts
  <2> QED
    BY <2>1, SumNat
<1> QED
  BY <1>1, <1>2, SMT

LEMMA SumOfZeros ==
    ASSUME NEW f, NEW S, IsFiniteSet(S), \A x \in S : f[x] = 0
    PROVE  SumFunctionOnSet(f, S) = 0
<1> DEFINE good == {T \in SUBSET S : SumFunctionOnSet(f, T) = 0}
<1>1. {} \in good
  BY SumOfNone
<1>2. ASSUME NEW T \in good, NEW x \in S \ T PROVE T \cup {x} \in good
  <2>1. IsFiniteSet(T) /\ Counts(f, T) /\ f[x] = 0
    BY FS_Subset DEF Counts
  <2>2. SumFunctionOnSet(f, T \cup {x}) = f[x] + SumFunctionOnSet(f, T)
    BY <2>1, SumWith
  <2> QED
    BY <2>1, <2>2
<1>3. good \in SUBSET (SUBSET S)
  OBVIOUS
<1> HIDE DEF good
<1>4. S \in good
  BY <1>1, <1>2, <1>3, SetInduction
<1> QED
  BY <1>4 DEF good
=============================================================================
