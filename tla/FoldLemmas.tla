----------------------------- MODULE FoldLemmas -----------------------------
(***************************************************************************)
(* Facts the proofs of several components share: induction over the        *)
(* naturals, in the form of sets, the sum of a function over a finite set, *)
(* division of naturals, and sequences put together from sequences.        *)
(***************************************************************************)
EXTENDS Integers, FiniteSets, Functions, SequencesExt, FiniteSetTheorems,
        SequenceTheorems, WellFoundedInduction, TLAPS

\* A set of naturals that is not empty has a least element.
LEMMA LeastNatural ==
  ASSUME NEW T \in SUBSET Nat, T # {}
  PROVE  \E m \in T : \A t \in T : m <= t
<1> DEFINE R == OpToRel(<, Nat)
<1>1. \A x, y \in Nat : x < y => <<x, y>> \in R
  BY DEF OpToRel
<1>2. IsWellFoundedOn(R, Nat)
  BY NatLessThanWellFounded
<1> HIDE DEF R
<1>3. PICK m \in T : \A t \in T : <<t, m>> \notin R
  BY <1>2, WFMin
<1>4. \A t \in T : ~(t < m)
  BY <1>1, <1>3, Zenon
<1> QED
  BY <1>4

\* A set with 0 and every successor up to n has all of 0 .. n.
LEMMA UpTo ==
  ASSUME NEW n \in Nat, NEW T, 0 \in T, \A k \in 0 .. (n - 1) : k \in T => k + 1 \in T
  PROVE  0 .. n \subseteq T
<1> DEFINE Missing == {k \in 0 .. n : k \notin T}
<1>1. SUFFICES ASSUME Missing # {} PROVE FALSE
  OBVIOUS
<1>2. PICK m \in Missing : \A k \in Missing : m <= k
  <2>1. Missing \in SUBSET Nat
    OBVIOUS
  <2> HIDE DEF Missing
  <2> QED
    BY <1>1, <2>1, LeastNatural
<1>3. m \in 0 .. n /\ m \notin T /\ m # 0
  BY <1>2
<1>4. m - 1 \in 0 .. (n - 1) /\ m - 1 \notin Missing /\ (m - 1) + 1 = m
  BY <1>2, <1>3
<1> QED
  BY <1>3, <1>4

\* A set of subsets of a finite X has them all if it has each of which it has
\* all smaller ones.
LEMMA AllSubsets ==
  ASSUME NEW X, IsFiniteSet(X), NEW Good,
         \A S \in SUBSET X : (\A T \in SUBSET S : T # S => T \in Good) => S \in Good
  PROVE  SUBSET X \subseteq Good
<1> DEFINE Bad == {T \in SUBSET X : T \notin Good}
           Sizes == {Cardinality(T) : T \in Bad}
<1>1. \A T \in Bad : IsFiniteSet(T) /\ Cardinality(T) \in Nat
  BY FS_Subset, FS_CardinalityType
<1>2. SUFFICES ASSUME Bad # {} PROVE FALSE
  OBVIOUS
<1>3. PICK T \in Bad : \A U \in Bad : Cardinality(T) <= Cardinality(U)
  <2>1. Sizes \in SUBSET Nat /\ Sizes # {}
    BY <1>1, <1>2
  <2>2. PICK m \in Sizes : \A k \in Sizes : m <= k
    <3> HIDE DEF Sizes
    <3> QED
      BY <2>1, LeastNatural
  <2> QED
    BY <2>2
<1>4. \A U \in SUBSET T : U # T => U \in Good
  <2> SUFFICES ASSUME NEW U \in SUBSET T, U # T, U \notin Good PROVE FALSE
    OBVIOUS
  <2>1. U \in Bad
    OBVIOUS
  <2>2. Cardinality(U) <= Cardinality(T) /\ Cardinality(U) # Cardinality(T)
    BY <1>1, FS_Subset
  <2>3. Cardinality(U) \in Nat /\ Cardinality(T) \in Nat
    BY <1>1, <2>1
  <2> QED
    BY <1>3, <2>1, <2>2, <2>3
<1> QED
  BY <1>4
-----------------------------------------------------------------------------
(* The sum of a function over a finite set.                                *)

Pick(s) == CHOOSE x \in s : TRUE

\* What the fold adds up for every subset of S.
SumsIn(f, S, iter) ==
  iter = [s \in SUBSET S |-> IF s = {} THEN 0 ELSE f[Pick(s)] + iter[s \ {Pick(s)}]]

LEMMA PickFrom ==
  ASSUME NEW s, s # {} PROVE Pick(s) \in s
BY DEF Pick

LEMMA SumIsChosen ==
  ASSUME NEW f, NEW S
  PROVE  SumFunctionOnSet(f, S) = (CHOOSE iter : SumsIn(f, S, iter))[S]
BY DEF SumFunctionOnSet, FoldFunctionOnSet, MapThenFoldSet, SumsIn, Pick

Step(f, s, g) == IF s = {} THEN 0 ELSE f[Pick(s)] + g[s \ {Pick(s)}]

LEMMA SumsExist ==
  ASSUME NEW f, NEW S, IsFiniteSet(S)
  PROVE  \E iter : SumsIn(f, S, iter)
<1> DEFINE Upto(n) == {s \in SUBSET S : Cardinality(s) <= n}
           OK(n, g) == \A s \in Upto(n) : g[s] = Step(f, s, g)
           Good == {n \in Nat : \E g : g = [s \in SUBSET S |-> g[s]] /\ OK(n, g)}
<1>1. \A s \in SUBSET S : IsFiniteSet(s) /\ Cardinality(s) \in Nat
  BY FS_Subset, FS_CardinalityType
<1>2. \A s \in SUBSET S : Cardinality(s) = 0 <=> s = {}
  BY <1>1, FS_EmptySet
<1>3. \A s \in SUBSET S : s # {} =>
         /\ s \ {Pick(s)} \in SUBSET S
         /\ Cardinality(s \ {Pick(s)}) = Cardinality(s) - 1
  BY <1>1, PickFrom, FS_RemoveElement
<1>4. 0 \in Good
  <2> DEFINE g == [s \in SUBSET S |-> 0]
  <2>1. g = [s \in SUBSET S |-> g[s]] /\ OK(0, g)
    BY <1>1, <1>2 DEF Step
  <2> QED
    BY <2>1
<1>5. ASSUME NEW n \in Nat, n \in Good PROVE n + 1 \in Good
  <2>1. PICK g : g = [s \in SUBSET S |-> g[s]] /\ OK(n, g)
    BY <1>5
  <2> DEFINE h == [s \in SUBSET S |-> IF s \in Upto(n) THEN g[s] ELSE Step(f, s, g)]
  <2>2. h = [s \in SUBSET S |-> h[s]]
    OBVIOUS
  <2>3. ASSUME NEW s \in Upto(n + 1) PROVE h[s] = Step(f, s, h)
    <3>1. CASE s = {}
      BY <1>1, <1>2, <2>1, <3>1 DEF Step
    <3>2. CASE s # {}
      <4> DEFINE r == s \ {Pick(s)}
      <4>1. r \in Upto(n)
        BY <1>1, <1>3, <2>3, <3>2
      <4>2. h[r] = g[r]
        BY <4>1
      <4>3. h[s] = Step(f, s, g)
        BY <2>1
      <4> QED
        BY <3>2, <4>2, <4>3 DEF Step
    <3> QED
      BY <3>1, <3>2
  <2>4. OK(n + 1, h)
    BY <2>3
  <2> HIDE DEF h, OK
  <2>5. n + 1 \in Nat
    OBVIOUS
  <2> QED
    BY <2>2, <2>4, <2>5
<1>6. Cardinality(S) \in Good
  <2>1. Cardinality(S) \in Nat
    BY <1>1
  <2> HIDE DEF Good
  <2>2. 0 .. Cardinality(S) \subseteq Good
    BY <1>4, <1>5, <2>1, UpTo
  <2> QED
    BY <2>1, <2>2
<1>7. PICK g : g = [s \in SUBSET S |-> g[s]] /\ OK(Cardinality(S), g)
  BY <1>6
<1>8. \A s \in SUBSET S : g[s] = Step(f, s, g)
  BY <1>1, <1>7, FS_Subset
<1>9. g = [s \in SUBSET S |-> Step(f, s, g)]
  BY <1>7, <1>8
<1> QED
  BY <1>9 DEF SumsIn, Step

\* The table of the sums over the subsets of S.
Sums(f, S) == CHOOSE iter : SumsIn(f, S, iter)

LEMMA SumsStep ==
  ASSUME NEW f, NEW S, IsFiniteSet(S), NEW s \in SUBSET S
  PROVE  Sums(f, S)[s] = IF s = {} THEN 0 ELSE f[Pick(s)] + Sums(f, S)[s \ {Pick(s)}]
<1>1. SumsIn(f, S, Sums(f, S))
  BY SumsExist DEF Sums
<1> QED
  BY <1>1 DEF SumsIn

\* A sum over T is the same in every table that has it.
LEMMA SumsAgree ==
  ASSUME NEW f, NEW S, IsFiniteSet(S), NEW T \in SUBSET S
  PROVE  Sums(f, S)[T] = Sums(f, T)[T]
<1>1. IsFiniteSet(T)
  BY FS_Subset
<1> DEFINE Good == {s \in SUBSET T : Sums(f, S)[s] = Sums(f, T)[s]}
<1>2. ASSUME NEW s \in SUBSET T, \A r \in SUBSET s : r # s => r \in Good PROVE s \in Good
  <2>1. CASE s = {}
    BY <1>1, <2>1, SumsStep
  <2>2. CASE s # {}
    <3>1. Pick(s) \in s
      BY <2>2, PickFrom
    <3>2. s \ {Pick(s)} \in Good
      BY <1>2, <3>1
    <3>3. s \in SUBSET S
      OBVIOUS
    <3> QED
      BY <1>1, <2>2, <3>2, <3>3, SumsStep
  <2> QED
    BY <2>1, <2>2
<1> HIDE DEF Good
<1>3. SUBSET T \subseteq Good
  BY <1>1, <1>2, AllSubsets
<1> QED
  BY <1>3 DEF Good

LEMMA SumStep ==
  ASSUME NEW f, NEW S, IsFiniteSet(S)
  PROVE  SumFunctionOnSet(f, S) =
           IF S = {} THEN 0 ELSE f[Pick(S)] + SumFunctionOnSet(f, S \ {Pick(S)})
<1>1. SumFunctionOnSet(f, S) = Sums(f, S)[S]
  BY SumIsChosen DEF Sums
<1>2. S \ {Pick(S)} \in SUBSET S
  OBVIOUS
<1>3. SumFunctionOnSet(f, S \ {Pick(S)}) = Sums(f, S \ {Pick(S)})[S \ {Pick(S)}]
  BY SumIsChosen DEF Sums
<1> QED
  BY <1>1, <1>2, <1>3, SumsStep, SumsAgree

LEMMA SumOfNone == \A f : SumFunctionOnSet(f, {}) = 0
BY SumStep, FS_EmptySet

LEMMA SumType ==
  ASSUME NEW S, IsFiniteSet(S), NEW f, \A x \in S : f[x] \in Nat
  PROVE  SumFunctionOnSet(f, S) \in Nat
<1> DEFINE Good == {T \in SUBSET S : SumFunctionOnSet(f, T) \in Nat}
<1>1. ASSUME NEW T \in SUBSET S, \A U \in SUBSET T : U # T => U \in Good PROVE T \in Good
  <2>1. IsFiniteSet(T)
    BY FS_Subset
  <2>2. CASE T = {}
    BY <2>2, SumOfNone
  <2>3. CASE T # {}
    <3>1. Pick(T) \in T
      BY <2>3, PickFrom
    <3>2. T \ {Pick(T)} \in Good
      BY <1>1, <3>1
    <3> QED
      BY <2>1, <2>3, <3>1, <3>2, SumStep
  <2> QED
    BY <2>2, <2>3
<1> HIDE DEF Good
<1>2. SUBSET S \subseteq Good
  BY <1>1, AllSubsets
<1> QED
  BY <1>2 DEF Good

\* Any element may be added last.
LEMMA SumOfRest ==
  ASSUME NEW S, IsFiniteSet(S), NEW f, \A x \in S : f[x] \in Nat, NEW e \in S
  PROVE  SumFunctionOnSet(f, S) = f[e] + SumFunctionOnSet(f, S \ {e})
<1> DEFINE Good == {T \in SUBSET S : \A x \in T :
                      SumFunctionOnSet(f, T) = f[x] + SumFunctionOnSet(f, T \ {x})}
<1>1. ASSUME NEW T \in SUBSET S, \A U \in SUBSET T : U # T => U \in Good PROVE T \in Good
  <2> SUFFICES ASSUME NEW x \in T
               PROVE  SumFunctionOnSet(f, T) = f[x] + SumFunctionOnSet(f, T \ {x})
    OBVIOUS
  <2> DEFINE p == Pick(T)
  <2>1. IsFiniteSet(T) /\ \A U \in SUBSET T : IsFiniteSet(U)
    BY FS_Subset
  <2>2. p \in T /\ SumFunctionOnSet(f, T) = f[p] + SumFunctionOnSet(f, T \ {p})
    BY <2>1, PickFrom, SumStep
  <2> HIDE DEF p
  <2>3. CASE x = p
    BY <2>2, <2>3
  <2>4. CASE x # p
    <3>1. /\ T \ {p} \in Good /\ T \ {x} \in Good
          /\ x \in T \ {p} /\ p \in T \ {x}
          /\ (T \ {p}) \ {x} = (T \ {x}) \ {p}
      BY <1>1, <2>2, <2>4
    <3> DEFINE r == SumFunctionOnSet(f, (T \ {p}) \ {x})
    <3>2. /\ SumFunctionOnSet(f, T \ {p}) = f[x] + r
          /\ SumFunctionOnSet(f, T \ {x}) = f[p] + r
      BY <3>1
    <3>3. r \in Nat
      <4>1. (T \ {p}) \ {x} \in SUBSET T
        OBVIOUS
      <4> QED
        BY <2>1, <4>1, SumType
    <3> HIDE DEF r
    <3>4. f[x] \in Nat /\ f[p] \in Nat
      BY <2>2
    <3> QED
      BY <2>2, <3>2, <3>3, <3>4
  <2> QED
    BY <2>3, <2>4
<1> HIDE DEF Good
<1>2. SUBSET S \subseteq Good
  BY <1>1, AllSubsets
<1> QED
  BY <1>2 DEF Good
\* Functions that agree on a set have the same sum over it.
LEMMA SumSame ==
  ASSUME NEW S, IsFiniteSet(S), NEW f, NEW g, \A x \in S : f[x] = g[x]
  PROVE  SumFunctionOnSet(f, S) = SumFunctionOnSet(g, S)
<1> DEFINE Good == {T \in SUBSET S : SumFunctionOnSet(f, T) = SumFunctionOnSet(g, T)}
<1>1. ASSUME NEW T \in SUBSET S, \A U \in SUBSET T : U # T => U \in Good PROVE T \in Good
  <2>1. IsFiniteSet(T)
    BY FS_Subset
  <2>2. CASE T = {}
    BY <2>2, SumOfNone
  <2>3. CASE T # {}
    <3>1. Pick(T) \in T
      BY <2>3, PickFrom
    <3>2. T \ {Pick(T)} \in Good
      BY <1>1, <3>1
    <3> QED
      BY <2>1, <2>3, <3>1, <3>2, SumStep
  <2> QED
    BY <2>2, <2>3
<1> HIDE DEF Good
<1>2. SUBSET S \subseteq Good
  BY <1>1, AllSubsets
<1> QED
  BY <1>2 DEF Good

\* A smaller set has no larger sum, and the same if only zeros are left out.
LEMMA SumMonotone ==
  ASSUME NEW T, IsFiniteSet(T), NEW f, \A x \in T : f[x] \in Nat, NEW S \in SUBSET T
  PROVE  /\ SumFunctionOnSet(f, S) <= SumFunctionOnSet(f, T)
         /\ (\A x \in T \ S : f[x] = 0) => SumFunctionOnSet(f, S) = SumFunctionOnSet(f, T)
<1> DEFINE Fits(U) == /\ SumFunctionOnSet(f, S) <= SumFunctionOnSet(f, U)
                      /\ (\A x \in U \ S : f[x] = 0)
                           => SumFunctionOnSet(f, S) = SumFunctionOnSet(f, U)
           Good == {U \in SUBSET T : S \subseteq U => Fits(U)}
<1>1. ASSUME NEW U \in SUBSET T, \A V \in SUBSET U : V # U => V \in Good PROVE U \in Good
  <2> SUFFICES ASSUME S \subseteq U PROVE Fits(U)
    OBVIOUS
  <2>1. /\ IsFiniteSet(U) /\ IsFiniteSet(S)
        /\ \A x \in U : f[x] \in Nat
        /\ \A x \in S : f[x] \in Nat
    BY FS_Subset
  <2>2. CASE S = U
    <3>1. SumFunctionOnSet(f, S) \in Nat
      BY <2>1, SumType
    <3> QED
      BY <2>2, <3>1
  <2>3. CASE S # U
    <3>1. PICK e \in U : e \notin S
      BY <2>3
    <3>2. U \ {e} \in SUBSET U /\ U \ {e} # U /\ S \subseteq U \ {e}
      BY <3>1
    <3>3. U \ {e} \in Good
      BY <1>1, <3>2
    <3>4. Fits(U \ {e})
      BY <3>2, <3>3
    <3>5. SumFunctionOnSet(f, U) = f[e] + SumFunctionOnSet(f, U \ {e})
      BY <2>1, SumOfRest
    <3>6. SumFunctionOnSet(f, S) \in Nat /\ SumFunctionOnSet(f, U \ {e}) \in Nat
      <4>1. IsFiniteSet(U \ {e})
        BY <2>1, <3>2, FS_Subset
      <4> QED
        BY <2>1, <4>1, SumType
    <3>7. f[e] \in Nat
      BY <2>1
    <3> QED
      BY <3>1, <3>4, <3>5, <3>6, <3>7
  <2> QED
    BY <2>2, <2>3
<1>2. SUBSET T \subseteq Good
  <2> HIDE DEF Good
  <2> QED
    BY <1>1, AllSubsets
<1>3. T \in Good
  BY <1>2
<1> QED
  BY <1>3

\* Zeros add nothing.
LEMMA SumOfZeros ==
  ASSUME NEW S, IsFiniteSet(S), NEW f, \A x \in S : f[x] = 0
  PROVE  SumFunctionOnSet(f, S) = 0
<1>1. /\ \A x \in S : f[x] \in Nat
      /\ {} \in SUBSET S
      /\ \A x \in S \ {} : f[x] = 0
  OBVIOUS
<1>2. SumFunctionOnSet(f, {}) = SumFunctionOnSet(f, S)
  BY <1>1, SumMonotone
<1> QED
  BY <1>2, SumOfNone

\* To add k at one place adds k to the sum over every set with that place.
LEMMA SumBump ==
  ASSUME NEW S, IsFiniteSet(S), NEW f, NEW g, NEW e, NEW k \in Nat,
         \A x \in S : f[x] \in Nat,
         \A x \in S : g[x] = IF x = e THEN f[x] + k ELSE f[x]
  PROVE  SumFunctionOnSet(g, S) = SumFunctionOnSet(f, S) + IF e \in S THEN k ELSE 0
<1>0. SumFunctionOnSet(f, S) \in Nat
  BY SumType
<1>1. CASE e \notin S
  <2>1. SumFunctionOnSet(g, S) = SumFunctionOnSet(f, S)
    BY <1>1, SumSame
  <2> QED
    BY <1>0, <1>1, <2>1
<1>2. CASE e \in S
  <2>1. \A x \in S : g[x] \in Nat
    OBVIOUS
  <2>2. IsFiniteSet(S \ {e})
    BY FS_Subset
  <2>3. SumFunctionOnSet(g, S \ {e}) = SumFunctionOnSet(f, S \ {e})
    BY <2>2, SumSame
  <2>4. SumFunctionOnSet(g, S) = g[e] + SumFunctionOnSet(g, S \ {e})
    BY <1>2, <2>1, SumOfRest
  <2>5. SumFunctionOnSet(f, S) = f[e] + SumFunctionOnSet(f, S \ {e})
    BY <1>2, SumOfRest
  <2>6. SumFunctionOnSet(f, S \ {e}) \in Nat
    BY <2>2, SumType
  <2>7. g[e] = f[e] + k /\ f[e] \in Nat
    BY <1>2
  <2> QED
    BY <1>2, <2>3, <2>4, <2>5, <2>6, <2>7
<1> QED
  BY <1>1, <1>2

\* A sum does not depend on the names of the places.
LEMMA SumReindex ==
  ASSUME NEW S, IsFiniteSet(S), NEW f, NEW g, NEW h,
         \A x \in S : f[x] \in Nat /\ f[x] = g[h[x]],
         \A x, y \in S : h[x] = h[y] => x = y
  PROVE  SumFunctionOnSet(f, S) = SumFunctionOnSet(g, {h[x] : x \in S})
<1> DEFINE Image(T) == {h[x] : x \in T}
           Good == {T \in SUBSET S : SumFunctionOnSet(f, T) = SumFunctionOnSet(g, Image(T))}
<1>1. ASSUME NEW T \in SUBSET S, \A U \in SUBSET T : U # T => U \in Good PROVE T \in Good
  <2>1. IsFiniteSet(T)
    BY FS_Subset
  <2>2. CASE T = {}
    <3>1. Image(T) = {}
      BY <2>2
    <3> QED
      BY <2>2, <3>1, SumOfNone
  <2>3. CASE T # {}
    <3>1. PICK e \in T : TRUE
      BY <2>3
    <3> DEFINE R == T \ {e}
    <3>2. R \in Good
      BY <1>1, <3>1
    <3>3. Image(R) = Image(T) \ {h[e]}
      BY <3>1
    <3>4. IsFiniteSet(Image(T))
      <4> DEFINE i == [x \in T |-> h[x]]
      <4>1. i \in Surjection(T, Image(T))
        BY DEF Surjection
      <4> HIDE DEF i, Image
      <4> QED
        BY <2>1, <4>1, FS_Surjection
    <3>5. h[e] \in Image(T) /\ \A y \in Image(T) : g[y] \in Nat
      BY <3>1
    <3>6. SumFunctionOnSet(g, Image(T)) = g[h[e]] + SumFunctionOnSet(g, Image(T) \ {h[e]})
      <4> HIDE DEF Image
      <4> QED
        BY <3>4, <3>5, SumOfRest
    <3>7. SumFunctionOnSet(f, T) = f[e] + SumFunctionOnSet(f, R)
      BY <2>1, <3>1, SumOfRest
    <3>8. SumFunctionOnSet(f, R) = SumFunctionOnSet(g, Image(R))
      BY <3>2
    <3> HIDE DEF R, Image
    <3> QED
      BY <3>1, <3>3, <3>6, <3>7, <3>8 DEF Good
  <2> QED
    BY <2>2, <2>3
<1>2. SUBSET S \subseteq Good
  <2> HIDE DEF Good
  <2> QED
    BY <1>1, AllSubsets
<1>3. S \in Good
  BY <1>2
<1> QED
  BY <1>3
\* The members of X that a function k sends to i, and into I.
Class(X, k, i) == {x \in X : k[x] = i}
Within(X, k, I) == {x \in X : k[x] \in I}

\* The members of a finite set that a function sends into a finite set of
\* classes are those of the first class, of the second, and so on.
LEMMA SumOfClasses ==
  ASSUME NEW I, IsFiniteSet(I), NEW X, IsFiniteSet(X), NEW k, NEW f,
         \A i \in I : f[i] = Cardinality(Class(X, k, i))
  PROVE  SumFunctionOnSet(f, I) = Cardinality(Within(X, k, I))
<1> DEFINE Good == {J \in SUBSET I : SumFunctionOnSet(f, J) = Cardinality(Within(X, k, J))}
<1>1. ASSUME NEW J \in SUBSET I, \A K \in SUBSET J : K # J => K \in Good PROVE J \in Good
  <2>1. IsFiniteSet(J)
    BY FS_Subset
  <2>2. CASE J = {}
    <3>1. Within(X, k, J) = {}
      BY <2>2 DEF Within
    <3> QED
      BY <2>2, <3>1, SumOfNone, FS_EmptySet
  <2>3. CASE J # {}
    <3> DEFINE e == Pick(J)
               R == J \ {e}
    <3>1. e \in J /\ e \in I
      BY <2>3, PickFrom
    <3> HIDE DEF e
    <3>2. R \in SUBSET J /\ R # J
      BY <3>1
    <3>3. SumFunctionOnSet(f, R) = Cardinality(Within(X, k, R))
      BY <1>1, <3>2
    <3>4. SumFunctionOnSet(f, J) = f[e] + SumFunctionOnSet(f, R)
      BY <2>1, <2>3, SumStep DEF e
    <3>5. f[e] = Cardinality(Class(X, k, e))
      BY <3>1
    <3>6. Within(X, k, J) = Class(X, k, e) \cup Within(X, k, R) /\ Class(X, k, e) \cap Within(X, k, R) = {}
      BY <3>1 DEF Class, Within
    <3>7. IsFiniteSet(Class(X, k, e)) /\ IsFiniteSet(Within(X, k, R))
      BY FS_Subset DEF Class, Within
    <3> HIDE DEF R
    <3>8. Cardinality(Class(X, k, e) \cup Within(X, k, R)) =
            Cardinality(Class(X, k, e)) + Cardinality(Within(X, k, R)) - Cardinality(Class(X, k, e) \cap Within(X, k, R))
      BY <3>7, FS_Union
    <3>9. /\ Cardinality(Class(X, k, e)) \in Nat /\ Cardinality(Within(X, k, R)) \in Nat
          /\ Cardinality(Class(X, k, e) \cap Within(X, k, R)) = 0
      BY <3>6, <3>7, FS_CardinalityType, FS_EmptySet
    <3>10. SumFunctionOnSet(f, J) = Cardinality(Within(X, k, J))
      BY <3>3, <3>4, <3>5, <3>6, <3>8, <3>9
    <3> QED
      BY <3>10
  <2> QED
    BY <2>2, <2>3
<1>2. SUBSET I \subseteq Good
  <2> HIDE DEF Good
  <2> QED
    BY <1>1, AllSubsets
<1>3. I \in Good
  BY <1>2
<1> QED
  BY <1>3
-----------------------------------------------------------------------------
(* Division of naturals.                                                   *)

\* Division rounds down.
LEMMA DivisionBounds ==
  ASSUME NEW d \in Nat \ {0}
  PROVE  \A t \in Nat : /\ t \div d \in Nat
                        /\ d * (t \div d) <= t
                        /\ t < d * (t \div d) + d
OBVIOUS

\* The greater number has no smaller quotient.
LEMMA DivisionMonotone ==
  ASSUME NEW d \in Nat \ {0}, NEW s \in Nat, NEW t \in Nat, s <= t
  PROVE  s \div d <= t \div d
<1> DEFINE a == s \div d
           b == t \div d
<1> SUFFICES ASSUME a > b PROVE FALSE
  BY DivisionBounds
<1>1. a \in Nat /\ d * a <= s /\ b \in Nat /\ t < d * b + d
  BY DivisionBounds
<1>2. a >= b + 1
  BY <1>1
<1> HIDE DEF a, b
<1>3. PICK k \in Nat : a = b + 1 + k
  <2>1. a - b - 1 \in Nat /\ a = b + 1 + (a - b - 1)
    BY <1>1, <1>2
  <2> QED
    BY <2>1
<1>4. d * a = d * b + d + d * k
  BY <1>1, <1>3
<1>5. d * k \in Nat /\ d * b \in Nat
  BY <1>1
<1> QED
  BY <1>1, <1>4, <1>5
-----------------------------------------------------------------------------
(* The sequences of a sequence, one after the other.                       *)

\* The table FlattenSeq is read from.
FlatTable(ss, g) ==
  g = [i \in 1 .. Len(ss) |-> IF i = 1 THEN ss[i] ELSE g[i - 1] \o ss[i]]

Flattening(ss) == CHOOSE g : FlatTable(ss, g)

LEMMA FlattenIs ==
  ASSUME NEW ss, Len(ss) # 0
  PROVE  FlattenSeq(ss) = Flattening(ss)[Len(ss)]
BY DEF FlattenSeq, Flattening, FlatTable

LEMMA FlattenNone == FlattenSeq(<<>>) = <<>>
<1>1. Len(<<>>) = 0
  OBVIOUS
<1> QED
  BY <1>1 DEF FlattenSeq

LEMMA FlatTableExists ==
  ASSUME NEW S, NEW ss \in Seq(Seq(S))
  PROVE  \E g : FlatTable(ss, g)
<1> DEFINE Table(n, g) == g = [i \in 1 .. n |-> IF i = 1 THEN ss[i] ELSE g[i - 1] \o ss[i]]
           Good == {n \in Nat : \E g : Table(n, g)}
<1>1. 0 \in Good
  <2> DEFINE g == [i \in 1 .. 0 |-> <<>>]
  <2>1. Table(0, g)
    OBVIOUS
  <2> QED
    BY <2>1
<1>2. ASSUME NEW n \in Nat, n \in Good PROVE n + 1 \in Good
  <2>1. PICK g : Table(n, g)
    BY <1>2
  <2> DEFINE e == IF n + 1 = 1 THEN ss[n + 1] ELSE g[n] \o ss[n + 1]
  <2>2. PICK h : h = [i \in 1 .. n + 1 |-> IF i = n + 1 THEN e ELSE g[i]]
    OBVIOUS
  <2>3. \A i \in 1 .. n : h[i] = g[i]
    BY <2>2
  <2>4. h[n + 1] = e
    BY <2>2
  <2> HIDE DEF e
  <2>5. \A i \in 1 .. n + 1 : h[i] = IF i = 1 THEN ss[i] ELSE h[i - 1] \o ss[i]
    <3> SUFFICES ASSUME NEW i \in 1 .. n + 1
                 PROVE  h[i] = IF i = 1 THEN ss[i] ELSE h[i - 1] \o ss[i]
      OBVIOUS
    <3>1. CASE i = n + 1
      <4>1. CASE n = 0
        BY <2>4, <3>1, <4>1 DEF e
      <4>2. CASE n # 0
        <5>1. i - 1 = n /\ n \in 1 .. n /\ i # 1
          BY <3>1, <4>2
        <5>2. h[i - 1] = g[n]
          BY <2>3, <5>1
        <5>3. h[i] = g[n] \o ss[i]
          BY <2>4, <3>1, <5>1 DEF e
        <5> QED
          BY <5>1, <5>2, <5>3
      <4> QED
        BY <4>1, <4>2
    <3>2. CASE i # n + 1
      <4>1. i \in 1 .. n
        BY <3>2
      <4>2. g[i] = IF i = 1 THEN ss[i] ELSE g[i - 1] \o ss[i]
        BY <2>1, <4>1
      <4>3. i # 1 => h[i - 1] = g[i - 1]
        BY <2>3, <4>1
      <4> QED
        BY <2>3, <4>1, <4>2, <4>3
    <3> QED
      BY <3>1, <3>2
  <2>6. h = [i \in 1 .. n + 1 |-> h[i]]
    BY <2>2
  <2>7. Table(n + 1, h)
    BY <2>5, <2>6
  <2>8. n + 1 \in Nat
    OBVIOUS
  <2> HIDE DEF Table
  <2>9. \E x : Table(n + 1, x)
    BY <2>7
  <2> QED
    BY <2>8, <2>9
<1>3. Len(ss) \in Nat
  OBVIOUS
<1> HIDE DEF Table, Good
<1>4. 0 .. Len(ss) \subseteq Good
  <2>1. \A k \in 0 .. (Len(ss) - 1) : k \in Good => k + 1 \in Good
    BY <1>2, <1>3
  <2> QED
    BY <1>1, <1>3, <2>1, UpTo
<1>5. Len(ss) \in Good
  BY <1>3, <1>4
<1> QED
  BY <1>5 DEF Good, Table, FlatTable

LEMMA FlattenSteps ==
  ASSUME NEW S, NEW ss \in Seq(Seq(S))
  PROVE  /\ Len(ss) > 0 => Flattening(ss)[1] = ss[1]
         /\ \A i \in 2 .. Len(ss) : Flattening(ss)[i] = Flattening(ss)[i - 1] \o ss[i]
<1> DEFINE g == Flattening(ss)
<1>1. FlatTable(ss, g)
  BY FlatTableExists DEF Flattening
<1> HIDE DEF g
<1>2. Len(ss) \in Nat
  OBVIOUS
<1>3. \A i \in 1 .. Len(ss) : g[i] = IF i = 1 THEN ss[i] ELSE g[i - 1] \o ss[i]
  BY <1>1, <1>2 DEF FlatTable
<1>4. Len(ss) > 0 => g[1] = ss[1]
  BY <1>2, <1>3
<1>5. ASSUME NEW i \in 2 .. Len(ss) PROVE g[i] = g[i - 1] \o ss[i]
  <2>1. i \in 1 .. Len(ss) /\ i # 1
    BY <1>2
  <2> QED
    BY <1>3, <2>1
<1> QED
  BY <1>4, <1>5 DEF g

\* The part of the table two sequences have in common.
LEMMA SameTables ==
  ASSUME NEW S, NEW p \in Seq(Seq(S)), NEW q \in Seq(Seq(S)), Len(p) <= Len(q),
         \A i \in 1 .. Len(p) : q[i] = p[i]
  PROVE  \A i \in 1 .. Len(p) : Flattening(q)[i] = Flattening(p)[i]
<1> DEFINE g == Flattening(p)
           h == Flattening(q)
           n == Len(p)
           Same == {k \in Nat : k = 0 \/ g[k] = h[k]}
<1>1. n \in Nat /\ Len(q) \in Nat /\ n <= Len(q)
  OBVIOUS
<1>2. (n > 0 => g[1] = p[1]) /\ \A i \in 2 .. n : g[i] = g[i - 1] \o p[i]
  BY FlattenSteps
<1>3. (Len(q) > 0 => h[1] = q[1]) /\ \A i \in 2 .. Len(q) : h[i] = h[i - 1] \o q[i]
  BY FlattenSteps
<1>4. \A i \in 1 .. n : q[i] = p[i]
  OBVIOUS
<1> HIDE DEF g, h, n
<1>5. ASSUME NEW k \in 0 .. (n - 1), k \in Same PROVE k + 1 \in Same
  <2>1. CASE k = 0
    <3>1. n > 0 /\ Len(q) > 0 /\ 1 \in 1 .. n
      BY <1>1, <1>5, <2>1
    <3> QED
      BY <1>2, <1>3, <1>4, <2>1, <3>1
  <2>2. CASE k # 0
    <3>1. g[k] = h[k]
      BY <1>5, <2>2
    <3> HIDE DEF Same
    <3>2. /\ k + 1 \in 2 .. n /\ k + 1 \in 2 .. Len(q) /\ (k + 1) - 1 = k
          /\ k + 1 \in 1 .. n /\ k + 1 \in Nat
      BY <1>1, <2>2
    <3>3. g[k + 1] = g[k] \o p[k + 1] /\ h[k + 1] = h[k] \o q[k + 1]
      BY <1>2, <1>3, <3>2
    <3> QED
      BY <1>4, <3>1, <3>2, <3>3 DEF Same
  <2> QED
    BY <2>1, <2>2
<1>6. 0 \in Same
  OBVIOUS
<1> HIDE DEF Same
<1>7. 0 .. n \subseteq Same
  BY <1>1, <1>5, <1>6, UpTo
<1>8. \A i \in 1 .. n : g[i] = h[i]
  BY <1>1, <1>7 DEF Same
<1> QED
  BY <1>8 DEF g, h, n

LEMMA FlattenType ==
  ASSUME NEW S, NEW ss \in Seq(Seq(S))
  PROVE  FlattenSeq(ss) \in Seq(S)
<1> DEFINE g == Flattening(ss)
           n == Len(ss)
           Good == {k \in Nat : k = 0 \/ g[k] \in Seq(S)}
<1>1. n \in Nat /\ \A i \in 1 .. n : ss[i] \in Seq(S)
  BY ElementOfSeq
<1>2. (n > 0 => g[1] = ss[1]) /\ \A i \in 2 .. n : g[i] = g[i - 1] \o ss[i]
  BY FlattenSteps
<1>3. n # 0 => FlattenSeq(ss) = g[n]
  BY FlattenIs
<1>4. n = 0 => FlattenSeq(ss) = <<>>
  <2>1. n = 0 => ss = <<>>
    BY EmptySeq
  <2> QED
    BY <2>1, FlattenNone
<1> HIDE DEF g, n
<1>5. ASSUME NEW k \in 0 .. (n - 1), k \in Good PROVE k + 1 \in Good
  <2>1. CASE k = 0
    BY <1>1, <1>2, <1>5, <2>1
  <2>2. CASE k # 0
    <3>1. k + 1 \in 2 .. n /\ (k + 1) - 1 = k /\ k + 1 \in 1 .. n /\ g[k] \in Seq(S)
      BY <1>1, <1>5, <2>2
    <3>2. g[k + 1] = g[k] \o ss[k + 1] /\ ss[k + 1] \in Seq(S)
      BY <1>1, <1>2, <3>1
    <3>3. g[k + 1] \in Seq(S)
      BY <3>1, <3>2, ConcatProperties
    <3> QED
      BY <3>3
  <2> QED
    BY <2>1, <2>2
<1>6. 0 \in Good
  OBVIOUS
<1> HIDE DEF Good
<1>7. 0 .. n \subseteq Good
  BY <1>1, <1>5, <1>6, UpTo
<1>8. n # 0 => g[n] \in Seq(S)
  BY <1>1, <1>7 DEF Good
<1>9. <<>> \in Seq(S)
  BY EmptySeq
<1> QED
  BY <1>3, <1>4, <1>8, <1>9

\* One more sequence at the end.
LEMMA FlattenExtend ==
  ASSUME NEW S, NEW p \in Seq(Seq(S)), NEW q \in Seq(Seq(S)), Len(q) = Len(p) + 1,
         \A i \in 1 .. Len(p) : q[i] = p[i]
  PROVE  FlattenSeq(q) = FlattenSeq(p) \o q[Len(q)]
<1> DEFINE n == Len(p)
<1>1. n \in Nat /\ Len(q) = n + 1 /\ n + 1 \in 1 .. Len(q) /\ q[n + 1] \in Seq(S)
  <2>1. n \in Nat /\ Len(q) = n + 1 /\ n + 1 \in 1 .. Len(q)
    OBVIOUS
  <2> QED
    BY <2>1, ElementOfSeq
<1>2. FlattenSeq(q) = Flattening(q)[n + 1]
  BY <1>1, FlattenIs
<1>3. CASE n = 0
  <2>1. p = <<>>
    BY <1>3, EmptySeq
  <2>2. Flattening(q)[1] = q[1]
    <3>1. Len(q) > 0
      BY <1>1, <1>3
    <3> QED
      BY <3>1, FlattenSteps
  <2>3. <<>> \o q[1] = q[1]
    BY <1>1, <1>3, ConcatEmptySeq
  <2> QED
    BY <1>1, <1>2, <1>3, <2>1, <2>2, <2>3, FlattenNone
<1>4. CASE n # 0
  <2>1. Flattening(q)[n + 1] = Flattening(q)[n] \o q[n + 1]
    <3>1. n + 1 \in 2 .. Len(q) /\ (n + 1) - 1 = n
      BY <1>1, <1>4
    <3>2. Flattening(q)[n + 1] = Flattening(q)[(n + 1) - 1] \o q[n + 1]
      BY <3>1, FlattenSteps
    <3> QED
      BY <3>1, <3>2
  <2>2. Flattening(q)[n] = Flattening(p)[n]
    <3>1. n \in 1 .. Len(p) /\ Len(p) <= Len(q)
      BY <1>1, <1>4
    <3> QED
      BY <3>1, SameTables
  <2>3. FlattenSeq(p) = Flattening(p)[n]
    BY <1>4, FlattenIs
  <2> QED
    BY <1>1, <1>2, <2>1, <2>2, <2>3
<1> QED
  BY <1>3, <1>4

LEMMA FlattenAppend ==
  ASSUME NEW S, NEW p \in Seq(Seq(S)), NEW x \in Seq(S)
  PROVE  FlattenSeq(Append(p, x)) = FlattenSeq(p) \o x
<1>1. PICK q : q = Append(p, x)
  OBVIOUS
<1>2. /\ q \in Seq(Seq(S)) /\ Len(q) = Len(p) + 1 /\ q[Len(q)] = x
      /\ \A i \in 1 .. Len(p) : q[i] = p[i]
  BY <1>1, AppendProperties
<1>3. FlattenSeq(q) = FlattenSeq(p) \o q[Len(q)]
  BY <1>2, FlattenExtend
<1> QED
  BY <1>1, <1>2, <1>3

LEMMA FlattenOne ==
  ASSUME NEW S, NEW x \in Seq(S)
  PROVE  FlattenSeq(<<x>>) = x
<1>1. <<>> \in Seq(Seq(S)) /\ Append(<<>>, x) = <<x>>
  BY EmptySeq
<1>2. FlattenSeq(Append(<<>>, x)) = FlattenSeq(<<>>) \o x
  BY <1>1, FlattenAppend
<1>3. <<>> \o x = x
  BY ConcatEmptySeq
<1> QED
  BY <1>1, <1>2, <1>3, FlattenNone

First(s, k) == [i \in 1 .. k |-> s[i]]

LEMMA FirstAre ==
  ASSUME NEW S, NEW s \in Seq(S), NEW k \in 0 .. Len(s)
  PROVE  /\ First(s, k) \in Seq(S) /\ Len(First(s, k)) = k
         /\ \A i \in 1 .. k : First(s, k)[i] = s[i]
<1>1. k \in Nat /\ \A i \in 1 .. k : s[i] \in S
  BY ElementOfSeq
<1> QED
  BY <1>1 DEF First

LEMMA FirstAll ==
  ASSUME NEW S, NEW s \in Seq(S)
  PROVE  First(s, Len(s)) = s
<1>1. Len(s) \in Nat /\ Len(s) \in 0 .. Len(s)
  OBVIOUS
<1>2. PICK f : f = First(s, Len(s))
  OBVIOUS
<1>3. f \in Seq(S) /\ Len(f) = Len(s) /\ \A i \in 1 .. Len(s) : f[i] = s[i]
  BY <1>1, <1>2, FirstAre
<1>4. f = s
  BY <1>3, SeqEqual
<1> QED
  BY <1>2, <1>4

\* The first k and the one that comes next.
LEMMA FlattenNext ==
  ASSUME NEW S, NEW q \in Seq(Seq(S)), NEW k \in 0 .. (Len(q) - 1)
  PROVE  /\ FlattenSeq(First(q, k + 1)) = FlattenSeq(First(q, k)) \o q[k + 1]
         /\ FlattenSeq(First(q, k)) \in Seq(S) /\ q[k + 1] \in Seq(S)
<1>1. /\ k \in Nat /\ k \in 0 .. Len(q) /\ k + 1 \in 0 .. Len(q) /\ k + 1 \in 1 .. Len(q)
      /\ k + 1 \in 1 .. k + 1 /\ \A i \in 1 .. k : i \in 1 .. k + 1
  OBVIOUS
<1>2. PICK c, d : c = First(q, k) /\ d = First(q, k + 1)
  OBVIOUS
<1>3. c \in Seq(Seq(S)) /\ Len(c) = k /\ \A i \in 1 .. k : c[i] = q[i]
  BY <1>1, <1>2, FirstAre
<1>4. d \in Seq(Seq(S)) /\ Len(d) = k + 1 /\ \A i \in 1 .. k + 1 : d[i] = q[i]
  BY <1>1, <1>2, FirstAre
<1>5. Len(d) = Len(c) + 1
  BY <1>3, <1>4
<1>6. \A i \in 1 .. Len(c) : d[i] = c[i]
  BY <1>1, <1>3, <1>4, Zenon
<1>7. d[Len(d)] = q[k + 1]
  BY <1>1, <1>4, Zenon
<1>8. FlattenSeq(d) = FlattenSeq(c) \o d[Len(d)]
  BY <1>3, <1>4, <1>5, <1>6, FlattenExtend
<1>9. FlattenSeq(c) \in Seq(S) /\ q[k + 1] \in Seq(S)
  BY <1>1, <1>3, FlattenType, ElementOfSeq
<1> QED
  BY <1>2, <1>7, <1>8, <1>9

LEMMA FlattenConcat ==
  ASSUME NEW S, NEW p \in Seq(Seq(S)), NEW q \in Seq(Seq(S))
  PROVE  FlattenSeq(p \o q) = FlattenSeq(p) \o FlattenSeq(q)
<1> DEFINE n == Len(q)
           Joined(k) == p \o First(q, k)
           Good == {k \in 0 .. n : FlattenSeq(Joined(k)) = FlattenSeq(p) \o FlattenSeq(First(q, k))}
<1>1. n \in Nat /\ Len(p) \in Nat
  OBVIOUS
<1>2. \A k \in 0 .. n : First(q, k) \in Seq(Seq(S)) /\ Len(First(q, k)) = k
                       /\ \A i \in 1 .. k : First(q, k)[i] = q[i]
  BY FirstAre
<1>3. ASSUME NEW k \in 0 .. n
      PROVE  /\ Joined(k) \in Seq(Seq(S)) /\ Len(Joined(k)) = Len(p) + k
             /\ \A i \in 1 .. Len(p) + k : Joined(k)[i] = IF i <= Len(p) THEN p[i]
                                                          ELSE q[i - Len(p)]
  <2>1. PICK f : f = First(q, k)
    OBVIOUS
  <2>2. f \in Seq(Seq(S)) /\ Len(f) = k /\ \A i \in 1 .. k : f[i] = q[i]
    BY <1>2, <2>1
  <2>3. /\ p \o f \in Seq(Seq(S)) /\ Len(p \o f) = Len(p) + k
        /\ \A i \in 1 .. Len(p) + k : (p \o f)[i] = IF i <= Len(p) THEN p[i] ELSE f[i - Len(p)]
    BY <2>2, ConcatProperties
  <2>4. \A i \in 1 .. Len(p) + k : i > Len(p) => f[i - Len(p)] = q[i - Len(p)]
    BY <1>1, <2>2
  <2> QED
    BY <1>1, <2>1, <2>3, <2>4
<1>4. 0 \in Good
  <2>1. 0 \in 0 .. n /\ First(q, 0) = <<>>
    BY <1>1 DEF First
  <2>2. p \o <<>> = p /\ FlattenSeq(p) \o <<>> = FlattenSeq(p)
    BY FlattenType, ConcatEmptySeq
  <2> QED
    BY <2>1, <2>2, FlattenNone
<1>5. ASSUME NEW k \in 0 .. (n - 1), k \in Good PROVE k + 1 \in Good
  <2>1. k \in 0 .. n /\ k + 1 \in 0 .. n /\ k + 1 \in 1 .. n /\ k \in Nat
    BY <1>1
  <2>2. PICK a, b, c, d : /\ a = Joined(k) /\ b = Joined(k + 1)
                          /\ c = First(q, k) /\ d = First(q, k + 1)
    OBVIOUS
  <2>3. FlattenSeq(a) = FlattenSeq(p) \o FlattenSeq(c)
    BY <1>5, <2>2
  <2>4. /\ a \in Seq(Seq(S)) /\ Len(a) = Len(p) + k
        /\ \A i \in 1 .. Len(p) + k : a[i] = IF i <= Len(p) THEN p[i] ELSE q[i - Len(p)]
    BY <1>3, <2>1, <2>2
  <2>5. /\ b \in Seq(Seq(S)) /\ Len(b) = Len(p) + (k + 1)
        /\ \A i \in 1 .. Len(p) + (k + 1) : b[i] = IF i <= Len(p) THEN p[i] ELSE q[i - Len(p)]
    BY <1>3, <2>1, <2>2
  <2>6. /\ c \in Seq(Seq(S)) /\ Len(c) = k /\ \A i \in 1 .. k : c[i] = q[i]
        /\ d \in Seq(Seq(S)) /\ Len(d) = k + 1 /\ \A i \in 1 .. k + 1 : d[i] = q[i]
    BY <1>2, <2>1, <2>2
  <2> HIDE DEF Joined, Good, n
  <2>7. FlattenSeq(b) = FlattenSeq(a) \o q[k + 1]
    <3>1. /\ Len(b) = Len(a) + 1
          /\ \A i \in 1 .. Len(p) + k : i \in 1 .. Len(p) + (k + 1)
      BY <1>1, <2>1, <2>4, <2>5
    <3>3. \A i \in 1 .. Len(a) : b[i] = a[i]
      BY <2>4, <2>5, <3>1
    <3>2. b[Len(b)] = q[k + 1]
      BY <1>1, <2>1, <2>5
    <3> QED
      BY <2>4, <2>5, <3>1, <3>2, <3>3, FlattenExtend
  <2>8. FlattenSeq(d) = FlattenSeq(c) \o q[k + 1]
    BY <2>2, FlattenNext DEF n
  <2>9. /\ FlattenSeq(p) \in Seq(S) /\ FlattenSeq(c) \in Seq(S) /\ q[k + 1] \in Seq(S)
    BY <2>2, FlattenType, FlattenNext DEF n
  <2>10. FlattenSeq(b) = FlattenSeq(p) \o FlattenSeq(d)
    <3>1. PICK x, y, z : x = FlattenSeq(p) /\ y = FlattenSeq(c) /\ z = q[k + 1]
      OBVIOUS
    <3>2. (x \o y) \o z = x \o (y \o z)
      <4>1. x \in Seq(S) /\ y \in Seq(S) /\ z \in Seq(S)
        BY <2>9, <3>1
      <4> QED
        BY <4>1, ConcatAssociative
    <3> QED
      BY <2>3, <2>7, <2>8, <3>1, <3>2, Zenon
  <2> QED
    BY <2>1, <2>2, <2>10 DEF Good
<1>6. 0 .. n \subseteq Good
  <2> HIDE DEF Good, n
  <2> QED
    BY <1>1, <1>4, <1>5, UpTo
<1>7. n \in Good
  BY <1>1, <1>6
<1> QED
  BY <1>7, FirstAll

\* Nothing, any number of times, is nothing.
LEMMA FlattenNothing ==
  ASSUME NEW S, NEW p \in Seq(Seq(S)), \A i \in 1 .. Len(p) : p[i] = <<>>
  PROVE  FlattenSeq(p) = <<>>
<1> DEFINE n == Len(p)
           Good == {k \in 0 .. n : FlattenSeq(First(p, k)) = <<>>}
<1>1. n \in Nat
  OBVIOUS
<1>2. 0 \in Good
  BY <1>1, FlattenNone DEF First
<1>3. ASSUME NEW k \in 0 .. (n - 1), k \in Good PROVE k + 1 \in Good
  <2>1. k \in 0 .. n /\ k + 1 \in 0 .. n /\ k + 1 \in 1 .. n /\ k \in Nat
    BY <1>1
  <2>2. FlattenSeq(First(p, k)) = <<>> /\ p[k + 1] = <<>>
    BY <1>3, <2>1
  <2>3. FlattenSeq(First(p, k + 1)) = FlattenSeq(First(p, k)) \o p[k + 1]
    BY FlattenNext
  <2>4. <<>> \o <<>> = <<>>
    BY EmptySeq, ConcatEmptySeq
  <2> QED
    BY <2>1, <2>2, <2>3, <2>4
<1>4. 0 .. n \subseteq Good
  <2> HIDE DEF Good, n
  <2> QED
    BY <1>1, <1>2, <1>3, UpTo
<1>5. n \in Good
  BY <1>1, <1>4
<1> QED
  BY <1>5, FirstAll
-----------------------------------------------------------------------------
(* What a function makes of the elements of a sequence, put together.      *)

Mapped(f, s)  == [i \in DOMAIN s |-> f[s[i]]]
FlatMap(f, s) == FlattenSeq(Mapped(f, s))

\* f makes sequences over S of the elements of A.
Maps(f, A, S) == f \in [A -> Seq(S)]

IsMap(p, f, s, B) ==
  p \in Seq(B) /\ Len(p) = Len(s) /\ \A i \in 1 .. Len(s) : p[i] = f[s[i]]

LEMMA MappedIs ==
  ASSUME NEW A, NEW B, NEW f, \A a \in A : f[a] \in B, NEW s \in Seq(A)
  PROVE  IsMap(Mapped(f, s), f, s, B)
<1>1. /\ DOMAIN s = 1 .. Len(s) /\ Len(s) \in Nat
      /\ \A i \in 1 .. Len(s) : s[i] \in A /\ f[s[i]] \in B
  BY ElementOfSeq
<1> QED
  BY <1>1 DEF Mapped, IsMap

LEMMA MappedSeqs ==
  ASSUME NEW A, NEW S, NEW f, Maps(f, A, S), NEW s \in Seq(A)
  PROVE  IsMap(Mapped(f, s), f, s, Seq(S))
<1>1. \A a \in A : f[a] \in Seq(S)
  BY DEF Maps
<1> QED
  BY <1>1, MappedIs, Zenon

LEMMA FlatMapType ==
  ASSUME NEW A, NEW S, NEW f, Maps(f, A, S), NEW s \in Seq(A)
  PROVE  FlatMap(f, s) \in Seq(S)
<1>1. IsMap(Mapped(f, s), f, s, Seq(S))
  BY MappedSeqs
<1>2. Mapped(f, s) \in Seq(Seq(S))
  BY <1>1 DEF IsMap
<1> QED
  BY <1>2, FlattenType DEF FlatMap

LEMMA FlatMapNone == \A f : FlatMap(f, <<>>) = <<>>
<1> SUFFICES ASSUME NEW f PROVE FlatMap(f, <<>>) = <<>>
  OBVIOUS
<1>1. Mapped(f, <<>>) = <<>>
  BY DEF Mapped
<1> QED
  BY <1>1, FlattenNone DEF FlatMap

LEMMA MappedConcat ==
  ASSUME NEW A, NEW f, NEW s \in Seq(A), NEW t \in Seq(A)
  PROVE  Mapped(f, s \o t) = Mapped(f, s) \o Mapped(f, t)
<1> DEFINE B == {f[a] : a \in A}
<1>0. \A a \in A : f[a] \in B
  OBVIOUS
<1> HIDE DEF B
<1>1. PICK u, p, q, r : /\ u = s \o t /\ p = Mapped(f, s) /\ q = Mapped(f, t)
                        /\ r = Mapped(f, u)
  OBVIOUS
<1>2. /\ u \in Seq(A) /\ Len(u) = Len(s) + Len(t)
      /\ \A i \in 1 .. Len(s) + Len(t) : u[i] = IF i <= Len(s) THEN s[i] ELSE t[i - Len(s)]
  BY <1>1, ConcatProperties
<1>3. IsMap(p, f, s, B) /\ IsMap(q, f, t, B) /\ IsMap(r, f, u, B)
  BY <1>0, <1>1, <1>2, MappedIs, Zenon
<1>4. /\ p \in Seq(B) /\ Len(p) = Len(s) /\ \A i \in 1 .. Len(s) : p[i] = f[s[i]]
      /\ q \in Seq(B) /\ Len(q) = Len(t) /\ \A i \in 1 .. Len(t) : q[i] = f[t[i]]
      /\ r \in Seq(B) /\ Len(r) = Len(u) /\ \A i \in 1 .. Len(u) : r[i] = f[u[i]]
  BY <1>3 DEF IsMap
<1>5. PICK v : v = p \o q
  OBVIOUS
<1>6. /\ v \in Seq(B) /\ Len(v) = Len(p) + Len(q)
      /\ \A i \in 1 .. Len(p) + Len(q) : v[i] = IF i <= Len(p) THEN p[i] ELSE q[i - Len(p)]
  <2>1. p \in Seq(B) /\ q \in Seq(B)
    BY <1>4
  <2> QED
    BY <1>5, <2>1, ConcatProperties
<1>7. Len(s) \in Nat /\ Len(t) \in Nat
  OBVIOUS
<1>8. ASSUME NEW i \in 1 .. Len(r) PROVE r[i] = v[i]
  <2>1. i \in 1 .. Len(u) /\ i \in 1 .. Len(s) + Len(t) /\ i \in 1 .. Len(p) + Len(q)
    BY <1>2, <1>4
  <2>2. CASE i <= Len(s)
    <3>1. i \in 1 .. Len(s) /\ i <= Len(p)
      BY <1>4, <1>7, <2>1, <2>2
    <3>2. r[i] = f[u[i]] /\ u[i] = s[i] /\ v[i] = p[i] /\ p[i] = f[s[i]]
      BY <1>2, <1>4, <1>6, <2>1, <2>2, <3>1, Zenon
    <3> QED
      BY <3>2
  <2>3. CASE ~(i <= Len(s))
    <3>1. i - Len(s) \in 1 .. Len(t) /\ ~(i <= Len(p)) /\ Len(p) = Len(s)
      BY <1>4, <1>7, <2>1, <2>3
    <3>2. r[i] = f[u[i]] /\ u[i] = t[i - Len(s)]
      BY <1>2, <1>4, <2>1, <2>3, Zenon
    <3>3. v[i] = q[i - Len(p)] /\ q[i - Len(s)] = f[t[i - Len(s)]]
      BY <1>4, <1>6, <2>1, <3>1, Zenon
    <3> QED
      BY <3>1, <3>2, <3>3, Zenon
  <2> QED
    BY <2>2, <2>3
<1>9. Len(r) = Len(v)
  BY <1>2, <1>4, <1>6
<1>10. r = v
  BY <1>4, <1>6, <1>8, <1>9, SeqEqual
<1> QED
  BY <1>1, <1>5, <1>10

LEMMA FlatMapConcat ==
  ASSUME NEW A, NEW S, NEW f, Maps(f, A, S), NEW s \in Seq(A), NEW t \in Seq(A)
  PROVE  FlatMap(f, s \o t) = FlatMap(f, s) \o FlatMap(f, t)
<1>1. Mapped(f, s \o t) = Mapped(f, s) \o Mapped(f, t)
  BY MappedConcat
<1>2. PICK p, q : p = Mapped(f, s) /\ q = Mapped(f, t)
  OBVIOUS
<1>3. IsMap(p, f, s, Seq(S)) /\ IsMap(q, f, t, Seq(S))
  BY <1>2, MappedSeqs, Zenon
<1>4. p \in Seq(Seq(S)) /\ q \in Seq(Seq(S))
  BY <1>3 DEF IsMap
<1>5. FlattenSeq(p \o q) = FlattenSeq(p) \o FlattenSeq(q)
  BY <1>4, FlattenConcat
<1> QED
  BY <1>1, <1>2, <1>5 DEF FlatMap

LEMMA FlatMapOne ==
  ASSUME NEW A, NEW S, NEW f, Maps(f, A, S), NEW a \in A
  PROVE  FlatMap(f, <<a>>) = f[a]
<1>1. Mapped(f, <<a>>) = <<f[a]>>
  BY DEF Mapped
<1>2. f[a] \in Seq(S)
  BY DEF Maps
<1> QED
  BY <1>1, <1>2, FlattenOne DEF FlatMap

LEMMA FlatMapAppend ==
  ASSUME NEW A, NEW S, NEW f, Maps(f, A, S), NEW s \in Seq(A), NEW a \in A
  PROVE  FlatMap(f, Append(s, a)) = FlatMap(f, s) \o f[a]
<1>1. PICK t : t = <<a>>
  OBVIOUS
<1>2. t \in Seq(A) /\ Append(s, a) = s \o t
  BY <1>1, AppendIsConcat
<1>3. FlatMap(f, s \o t) = FlatMap(f, s) \o FlatMap(f, t)
  BY <1>2, FlatMapConcat
<1>4. FlatMap(f, t) = f[a]
  BY <1>1, FlatMapOne, Zenon
<1> QED
  BY <1>2, <1>3, <1>4, Zenon

LEMMA FirstNext ==
  ASSUME NEW S, NEW s \in Seq(S), NEW k \in 0 .. (Len(s) - 1)
  PROVE  First(s, k + 1) = Append(First(s, k), s[k + 1])
<1>1. /\ Len(s) \in Nat /\ k \in Nat /\ k \in 0 .. Len(s) /\ k + 1 \in 0 .. Len(s)
      /\ k + 1 \in 1 .. Len(s)
  OBVIOUS
<1>2. \A j \in 0 .. Len(s) : /\ First(s, j) \in Seq(S) /\ Len(First(s, j)) = j
                             /\ \A i \in 1 .. j : First(s, j)[i] = s[i]
  BY FirstAre
<1>3. PICK a, b, e, c : /\ a = First(s, k) /\ b = First(s, k + 1)
                        /\ e = s[k + 1] /\ c = Append(a, e)
  OBVIOUS
<1>4. a \in Seq(S) /\ Len(a) = k /\ \A i \in 1 .. k : a[i] = s[i]
  BY <1>1, <1>2, <1>3, Zenon
<1>5. b \in Seq(S) /\ Len(b) = k + 1 /\ \A i \in 1 .. k + 1 : b[i] = s[i]
  BY <1>1, <1>2, <1>3, Zenon
<1>6. e \in S
  BY <1>1, <1>3, ElementOfSeq
<1>7. /\ c \in Seq(S) /\ Len(c) = k + 1 /\ c[k + 1] = e
      /\ \A i \in 1 .. k : c[i] = a[i]
  BY <1>3, <1>4, <1>6, AppendProperties
<1>8. ASSUME NEW i \in 1 .. Len(c) PROVE c[i] = b[i]
  <2>1. i \in 1 .. k + 1 /\ (i = k + 1 \/ i \in 1 .. k)
    BY <1>1, <1>7
  <2>2. CASE i = k + 1
    BY <1>3, <1>5, <1>7, <2>1, <2>2, Zenon
  <2>3. CASE i \in 1 .. k
    BY <1>4, <1>5, <1>7, <2>1, <2>3, Zenon
  <2> QED
    BY <2>1, <2>2, <2>3
<1>9. c = b
  BY <1>5, <1>7, <1>8, SeqEqual
<1> QED
  BY <1>3, <1>9

LEMMA FlatMapNothing ==
  ASSUME NEW A, NEW S, NEW f, Maps(f, A, S), NEW s \in Seq(A),
         \A i \in 1 .. Len(s) : f[s[i]] = <<>>
  PROVE  FlatMap(f, s) = <<>>
<1>1. PICK p : p = Mapped(f, s)
  OBVIOUS
<1>2. IsMap(p, f, s, Seq(S))
  BY <1>1, MappedSeqs, Zenon
<1>3. p \in Seq(Seq(S)) /\ \A i \in 1 .. Len(p) : p[i] = <<>>
  BY <1>2 DEF IsMap
<1>4. FlattenSeq(p) = <<>>
  BY <1>3, FlattenNothing
<1> QED
  BY <1>1, <1>4 DEF FlatMap

\* Two functions that agree on the sequence.
LEMMA FlatMapSame ==
  ASSUME NEW f, NEW g, NEW s, \A i \in DOMAIN s : f[s[i]] = g[s[i]]
  PROVE  FlatMap(f, s) = FlatMap(g, s)
<1>1. Mapped(f, s) = Mapped(g, s)
  BY DEF Mapped
<1> QED
  BY <1>1 DEF FlatMap

\* A function of what another has made.
LEMMA FlatMapTwice ==
  ASSUME NEW A, NEW B, NEW S, NEW f, NEW g, Maps(f, A, B), Maps(g, B, S),
         NEW s \in Seq(A)
  PROVE  FlatMap(g, FlatMap(f, s)) = FlatMap([a \in A |-> FlatMap(g, f[a])], s)
<1> DEFINE h == [a \in A |-> FlatMap(g, f[a])]
           n == Len(s)
           Good == {k \in 0 .. n : FlatMap(g, FlatMap(f, First(s, k))) = FlatMap(h, First(s, k))}
<1>1. n \in Nat /\ Maps(h, A, S)
  <2>1. \A a \in A : f[a] \in Seq(B)
    BY DEF Maps
  <2>2. \A a \in A : FlatMap(g, f[a]) \in Seq(S)
    BY <2>1, FlatMapType
  <2> QED
    BY <2>2 DEF Maps
<1>2. 0 \in Good
  <2>1. First(s, 0) = <<>> /\ 0 \in 0 .. n
    BY <1>1 DEF First
  <2> QED
    BY <2>1, FlatMapNone
<1>3. ASSUME NEW k \in 0 .. (n - 1), k \in Good PROVE k + 1 \in Good
  <2>1. k \in 0 .. n /\ k + 1 \in 0 .. n /\ k + 1 \in 1 .. n
    BY <1>1
  <2>2. PICK u, a : u = First(s, k) /\ a = s[k + 1]
    OBVIOUS
  <2>3. FlatMap(g, FlatMap(f, u)) = FlatMap(h, u)
    BY <1>3, <2>2
  <2>4. u \in Seq(A) /\ a \in A
    BY <2>1, <2>2, FirstAre, ElementOfSeq
  <2>5. First(s, k + 1) = Append(u, a)
    BY <2>2, FirstNext
  <2> HIDE DEF h, n, Good
  <2>6. FlatMap(h, Append(u, a)) = FlatMap(h, u) \o h[a]
    <3>1. Maps(h, A, S) /\ u \in Seq(A) /\ a \in A
      BY <1>1, <2>4
    <3> QED
      BY ONLY <3>1, FlatMapAppend
  <2>7. FlatMap(f, Append(u, a)) = FlatMap(f, u) \o f[a]
    <3>1. Maps(f, A, B) /\ u \in Seq(A) /\ a \in A
      BY <2>4
    <3> QED
      BY ONLY <3>1, FlatMapAppend
  <2>8. FlatMap(f, u) \in Seq(B) /\ f[a] \in Seq(B)
    BY <2>4, FlatMapType DEF Maps
  <2>9. FlatMap(g, FlatMap(f, u) \o f[a]) = FlatMap(g, FlatMap(f, u)) \o FlatMap(g, f[a])
    BY <2>8, FlatMapConcat
  <2>10. h[a] = FlatMap(g, f[a])
    BY <2>4 DEF h
  <2>11. FlatMap(g, FlatMap(f, First(s, k + 1))) = FlatMap(h, First(s, k + 1))
    BY <2>3, <2>5, <2>6, <2>7, <2>9, <2>10, Zenon
  <2> QED
    BY <2>1, <2>11 DEF Good
<1>4. 0 .. n \subseteq Good
  <2> HIDE DEF Good, n
  <2> QED
    BY <1>1, <1>2, <1>3, UpTo
<1>5. n \in Good
  BY <1>1, <1>4
<1>6. First(s, n) = s
  BY FirstAll
<1> QED
  BY <1>5, <1>6

\* One of each.
LEMMA FlattenSingles ==
  ASSUME NEW S, NEW p \in Seq(Seq(S)), NEW x \in Seq(S), Len(p) = Len(x),
         \A i \in 1 .. Len(x) : p[i] = <<x[i]>>
  PROVE  FlattenSeq(p) = x
<1> DEFINE n == Len(p)
           Good == {k \in 0 .. n : FlattenSeq(First(p, k)) = First(x, k)}
<1>1. n \in Nat /\ n = Len(x)
  OBVIOUS
<1>2. 0 \in Good
  BY <1>1, FlattenNone DEF First
<1>3. ASSUME NEW k \in 0 .. (n - 1), k \in Good PROVE k + 1 \in Good
  <2>1. k \in 0 .. n /\ k + 1 \in 0 .. n /\ k + 1 \in 1 .. Len(x) /\ k \in Nat
    BY <1>1
  <2>2. FlattenSeq(First(p, k)) = First(x, k) /\ p[k + 1] = <<x[k + 1]>>
    BY <1>3, <2>1
  <2>3. FlattenSeq(First(p, k + 1)) = FlattenSeq(First(p, k)) \o p[k + 1]
    BY FlattenNext
  <2>4. First(x, k) \o <<x[k + 1]>> = First(x, k + 1)
    <3>1. First(x, k + 1) = Append(First(x, k), x[k + 1])
      BY <1>1, FirstNext
    <3>2. PICK a, e : a = First(x, k) /\ e = x[k + 1]
      OBVIOUS
    <3>3. k \in 0 .. Len(x) /\ k + 1 \in 1 .. Len(x)
      BY <1>1, <2>1
    <3>4. a \in Seq(S) /\ e \in S
      BY <3>2, <3>3, FirstAre, ElementOfSeq
    <3>5. Append(a, e) = a \o <<e>>
      BY <3>4, AppendIsConcat
    <3> QED
      BY <3>1, <3>2, <3>5, Zenon
  <2>5. FlattenSeq(First(p, k + 1)) = First(x, k + 1)
    BY <2>2, <2>3, <2>4, Zenon
  <2> QED
    BY <2>1, <2>5
<1>4. 0 .. n \subseteq Good
  <2> HIDE DEF Good, n
  <2> QED
    BY <1>1, <1>2, <1>3, UpTo
<1>5. n \in Good
  BY <1>1, <1>4
<1>6. First(p, n) = p /\ First(x, n) = x
  BY <1>1, FirstAll
<1> QED
  BY <1>5, <1>6

\* The last sequence grows.
LEMMA FlattenGrows ==
  ASSUME NEW S, NEW p \in Seq(Seq(S)), NEW q \in Seq(Seq(S)), NEW y \in Seq(S),
         Len(p) = Len(q), Len(p) # 0, \A i \in 1 .. (Len(p) - 1) : q[i] = p[i],
         q[Len(p)] = p[Len(p)] \o y
  PROVE  FlattenSeq(q) = FlattenSeq(p) \o y
<1> DEFINE n == Len(p)
<1>1. n \in Nat /\ n - 1 \in 0 .. (n - 1) /\ (n - 1) + 1 = n /\ n = Len(q)
      /\ n - 1 \in 0 .. n
  OBVIOUS
<1>2. PICK a, x : a = FlattenSeq(First(p, n - 1)) /\ x = p[n]
  OBVIOUS
<1>3. FlattenSeq(First(p, n)) = a \o x /\ a \in Seq(S) /\ x \in Seq(S)
  BY <1>1, <1>2, FlattenNext
<1>4. FlattenSeq(First(q, n)) = FlattenSeq(First(q, n - 1)) \o q[n]
  BY <1>1, FlattenNext
<1>5. First(q, n - 1) = First(p, n - 1)
  BY DEF First
<1>6. First(p, n) = p /\ First(q, n) = q
  BY <1>1, FirstAll
<1>7. q[n] = x \o y
  BY <1>2
<1>8. a \o (x \o y) = (a \o x) \o y
  <2>1. y \in Seq(S)
    OBVIOUS
  <2> QED
    BY ONLY <1>3, <2>1, ConcatAssociative
<1> QED
  BY <1>2, <1>3, <1>4, <1>5, <1>6, <1>7, <1>8, Zenon

\* What comes to nothing is made of nothing.
LEMMA FlattenEmpty ==
  ASSUME NEW S, NEW p \in Seq(Seq(S)), FlattenSeq(p) = <<>>
  PROVE  \A k \in 1 .. Len(p) : p[k] = <<>>
<1> DEFINE n == Len(p)
           Good == {k \in 0 .. n : FlattenSeq(First(p, n - k)) = <<>>}
<1>1. n \in Nat /\ First(p, n) = p
  BY FirstAll
<1>2. ASSUME NEW k \in 0 .. (n - 1), FlattenSeq(First(p, k + 1)) = <<>>
      PROVE  FlattenSeq(First(p, k)) = <<>> /\ p[k + 1] = <<>>
  <2>1. PICK a, x, y : /\ a = FlattenSeq(First(p, k)) /\ x = p[k + 1]
                       /\ y = FlattenSeq(First(p, k + 1))
    OBVIOUS
  <2>2. a \in Seq(S) /\ x \in Seq(S) /\ y = a \o x
    BY <2>1, FlattenNext
  <2>3. Len(y) = 0
    BY <1>2, <2>1
  <2>4. Len(a) + Len(x) = 0 /\ Len(a) \in Nat /\ Len(x) \in Nat
    BY ONLY <2>2, <2>3, ConcatProperties, LenProperties
  <2>5. Len(a) = 0 /\ Len(x) = 0
    BY <2>4
  <2> QED
    BY <2>1, <2>2, <2>5, EmptySeq
<1>3. 0 \in Good
  BY <1>1
<1>4. ASSUME NEW k \in 0 .. (n - 1), k \in Good PROVE k + 1 \in Good
  <2>1. (n - (k + 1)) \in 0 .. (n - 1) /\ (n - (k + 1)) + 1 = n - k /\ k + 1 \in 0 .. n
    BY <1>1
  <2>2. FlattenSeq(First(p, n - k)) = <<>>
    BY <1>4
  <2> QED
    BY <1>2, <2>1, <2>2
<1>5. 0 .. n \subseteq Good
  <2> HIDE DEF Good
  <2> QED
    BY <1>1, <1>3, <1>4, UpTo
<1>6. ASSUME NEW k \in 1 .. Len(p) PROVE p[k] = <<>>
  <2>1. n - k \in 0 .. n /\ n - (n - k) = k /\ k - 1 \in 0 .. (n - 1) /\ (k - 1) + 1 = k
    BY <1>1
  <2>2. FlattenSeq(First(p, k)) = <<>>
    BY <1>5, <2>1
  <2> QED
    BY <1>2, <2>1, <2>2
<1> QED
  BY <1>6
=============================================================================
