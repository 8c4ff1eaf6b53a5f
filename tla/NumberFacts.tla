----------------------------- MODULE NumberFacts -----------------------------
(***************************************************************************)
(* Facts about numbers, finite sets and sums that the proofs of several    *)
(* modules rest on: least and greatest elements, on which every CHOOSE of  *)
(* a minimum or a maximum rests; induction, stated with sets; that a sum   *)
(* depends neither on the order nor on the names of its summands, and      *)
(* grows with them; the places an order gives the elements of a set; and   *)
(* what a stable sort does.                                                *)
(***************************************************************************)
EXTENDS Integers, FiniteSetTheorems, Functions, WellFoundedInduction, TLAPS

\* A non-empty set of naturals has a least element.
LEMMA LeastOfNaturals ==
    ASSUME NEW S \in SUBSET Nat, S # {}
    PROVE  \E x \in S : \A y \in S : x <= y
<1>1. PICK x \in S : \A y \in S : ~ (<<y, x>> \in OpToRel(<, Nat))
  BY NatLessThanWellFounded, WFMin
<1>2. \A y \in S : ~ (y < x)
  BY <1>1 DEF OpToRel
<1>. QED
  BY <1>2

\* A non-empty set of naturals below a bound has a greatest element.
LEMMA GreatestOfBounded ==
    ASSUME NEW S \in SUBSET Nat, S # {}, NEW n \in Nat, \A x \in S : x <= n
    PROVE  \E m \in S : \A y \in S : m >= y
<1> DEFINE Gaps == {k \in Nat : n - k \in S}
<1>1. PICK x \in S : TRUE
  OBVIOUS
<1>2. n - x \in Gaps
  BY <1>1
<1>3. PICK k \in Gaps : \A j \in Gaps : k <= j
  BY <1>2, LeastOfNaturals
<1>4. \A y \in S : n - y \in Gaps
  OBVIOUS
<1>5. n - k \in S /\ \A y \in S : n - k >= y
  BY <1>3, <1>4
<1>. QED
  BY <1>5

\* An interval and the number after it.
LEMMA OneMore == ASSUME NEW k \in Nat PROVE 1..(k + 1) = (1..k) \cup {k + 1}
<1>1. \A j \in 1..(k + 1) : j \in (1..k) \cup {k + 1}
  OBVIOUS
<1>2. \A j \in (1..k) \cup {k + 1} : j \in 1..(k + 1)
  OBVIOUS
<1>. QED
  BY <1>1, <1>2

-----------------------------------------------------------------------------
\* A set of naturals that has 0 and with each number the next has them all.
LEMMA InductionOnNaturals ==
    ASSUME NEW Good \in SUBSET Nat, 0 \in Good, \A n \in Good : n + 1 \in Good
    PROVE  Nat \subseteq Good
<1> SUFFICES ASSUME Nat \ Good # {} PROVE FALSE
  OBVIOUS
<1>1. PICK n \in Nat \ Good : \A m \in Nat \ Good : n <= m
  BY LeastOfNaturals
<1>2. n # 0 /\ n - 1 \in Nat
  BY <1>1
<1>3. n - 1 \in Good
  BY <1>1, <1>2
<1>4. (n - 1) + 1 \in Good
  BY <1>3
<1>. QED
  BY <1>1, <1>4

\* What holds of a set as soon as it holds of the set without any one of its
\* elements holds of every subset of a finite set.
LEMMA InductionOnSubsets ==
    ASSUME NEW D, IsFiniteSet(D), NEW Good,
           \A s \in SUBSET D : (\A x \in s : s \ {x} \in Good) => s \in Good
    PROVE  SUBSET D \subseteq Good
<1> DEFINE Sizes == {n \in Nat : \A s \in SUBSET D : Cardinality(s) = n => s \in Good}
<1>1. \A s \in SUBSET D : IsFiniteSet(s) /\ Cardinality(s) \in Nat
  BY FS_Subset, FS_CardinalityType
<1>2. 0 \in Sizes
  <2> SUFFICES ASSUME NEW s \in SUBSET D, Cardinality(s) = 0 PROVE s \in Good
    OBVIOUS
  <2>1. s = {}
    BY <1>1, FS_EmptySet
  <2>. QED
    BY <2>1
<1>3. ASSUME NEW n \in Sizes PROVE n + 1 \in Sizes
  <2> SUFFICES ASSUME NEW s \in SUBSET D, Cardinality(s) = n + 1, NEW x \in s PROVE s \ {x} \in Good
    OBVIOUS
  <2>1. Cardinality(s \ {x}) = (n + 1) - 1
    BY <1>1, FS_RemoveElement
  <2>2. Cardinality(s \ {x}) = n
    BY <2>1
  <2>. QED
    BY <2>2
<1>4. Nat \subseteq Sizes
  <2>. HIDE DEF Sizes
  <2>1. Sizes \in SUBSET Nat
    BY DEF Sizes
  <2>. QED
    BY <1>2, <1>3, <2>1, InductionOnNaturals
<1>. QED
  BY <1>1, <1>4

-----------------------------------------------------------------------------
(* Sums.  SumFunction adds in an order that CHOOSE picks; Sums is the      *)
(* recursive function inside it, on all the subsets of the domain.         *)

Chosen(s) == CHOOSE x \in s : TRUE
NextSum(f, g, s) == IF s = {} THEN 0 ELSE f[Chosen(s)] + g[s \ {Chosen(s)}]

Sums(f) ==
    LET iter[s \in SUBSET DOMAIN f] ==
          IF s = {} THEN 0 ELSE f[CHOOSE x \in s : TRUE] + iter[s \ {CHOOSE x \in s : TRUE}]
    IN  iter

\* SumFunction is the last of the partial sums.
LEMMA SumIsLast == \A f : SumFunction(f) = Sums(f)[DOMAIN f]
BY DEF SumFunction, SumFunctionOnSet, FoldFunctionOnSet, MapThenFoldSet, Sums

\* There is a function that satisfies the recursion.
LEMMA SumsExist ==
    ASSUME NEW D, IsFiniteSet(D), NEW f \in [D -> Int]
    PROVE  \E g : g = [s \in SUBSET D |-> NextSum(f, g, s)]
<1> DEFINE Upto(g, n) == \A s \in SUBSET D : Cardinality(s) <= n => g[s] = NextSum(f, g, s)
           Sizes == {n \in Nat : \E g \in [SUBSET D -> Int] : Upto(g, n)}
<1>1. \A s \in SUBSET D : IsFiniteSet(s) /\ Cardinality(s) \in Nat /\ (Cardinality(s) = 0 <=> s = {})
  BY FS_Subset, FS_CardinalityType, FS_EmptySet
<1>2. \A s \in SUBSET D : s # {} => Chosen(s) \in s /\ s \ {Chosen(s)} \in SUBSET D
                                    /\ Cardinality(s \ {Chosen(s)}) = Cardinality(s) - 1
  <2> SUFFICES ASSUME NEW s \in SUBSET D, s # {}
               PROVE  Chosen(s) \in s /\ s \ {Chosen(s)} \in SUBSET D /\ Cardinality(s \ {Chosen(s)}) = Cardinality(s) - 1
    OBVIOUS
  <2>1. Chosen(s) \in s
    BY DEF Chosen
  <2>. QED
    BY <1>1, <2>1, FS_RemoveElement
<1>3. 0 \in Sizes
  <2> DEFINE g == [s \in SUBSET D |-> 0]
  <2>1. g \in [SUBSET D -> Int] /\ Upto(g, 0)
    BY <1>1 DEF NextSum
  <2>. HIDE DEF g
  <2>. QED
    BY <2>1
<1>4. ASSUME NEW n \in Sizes PROVE n + 1 \in Sizes
  <2>1. PICK g \in [SUBSET D -> Int] : Upto(g, n)
    OBVIOUS
  <2> DEFINE h == [s \in SUBSET D |-> NextSum(f, g, s)]
  <2>2. h \in [SUBSET D -> Int]
    <3> SUFFICES ASSUME NEW s \in SUBSET D PROVE NextSum(f, g, s) \in Int
      OBVIOUS
    <3>1. CASE s = {}
      BY <3>1 DEF NextSum
    <3>2. CASE s # {}
      <4>1. f[Chosen(s)] \in Int /\ g[s \ {Chosen(s)}] \in Int
        BY <1>2, <3>2
      <4>. QED
        BY <3>2, <4>1 DEF NextSum
    <3>. QED
      BY <3>1, <3>2
  <2>3. Upto(h, n + 1)
    <3> SUFFICES ASSUME NEW s \in SUBSET D, Cardinality(s) <= n + 1 PROVE h[s] = NextSum(f, h, s)
      OBVIOUS
    <3>1. CASE s = {}
      BY <3>1 DEF NextSum
    <3>2. CASE s # {}
      <4>1. s \ {Chosen(s)} \in SUBSET D /\ Cardinality(s \ {Chosen(s)}) <= n
        BY <1>1, <1>2, <3>2
      <4>2. g[s \ {Chosen(s)}] = h[s \ {Chosen(s)}]
        BY <2>1, <4>1
      <4>. QED
        BY <3>2, <4>2 DEF NextSum
    <3>. QED
      BY <3>1, <3>2
  <2>. HIDE DEF h
  <2>. QED
    BY <2>2, <2>3
<1>5. Nat \subseteq Sizes
  <2>. HIDE DEF Sizes
  <2>1. Sizes \in SUBSET Nat
    BY DEF Sizes
  <2>. QED
    BY <1>3, <1>4, <2>1, InductionOnNaturals
<1>6. Cardinality(D) \in Nat /\ \A s \in SUBSET D : Cardinality(s) <= Cardinality(D)
  BY FS_Subset, FS_CardinalityType
<1>7. PICK g \in [SUBSET D -> Int] : Upto(g, Cardinality(D))
  BY <1>5, <1>6
<1>8. g = [s \in SUBSET D |-> NextSum(f, g, s)]
  BY <1>6, <1>7
<1>. QED
  BY <1>8

\* Sums satisfies its recursion.
LEMMA SumsUnfold ==
    ASSUME NEW D, IsFiniteSet(D), NEW f \in [D -> Int], NEW s \in SUBSET D
    PROVE  Sums(f)[s] = NextSum(f, Sums(f), s)
<1>1. PICK g : g = [t \in SUBSET D |-> NextSum(f, g, t)]
  BY SumsExist
<1>2. DOMAIN f = D
  OBVIOUS
<1>3. g = [t \in SUBSET DOMAIN f |->
          IF t = {} THEN 0 ELSE f[CHOOSE x \in t : TRUE] + g[t \ {CHOOSE x \in t : TRUE}]]
  BY <1>1, <1>2 DEF NextSum, Chosen
<1>4. Sums(f) = [t \in SUBSET DOMAIN f |->
          IF t = {} THEN 0 ELSE f[CHOOSE x \in t : TRUE] + Sums(f)[t \ {CHOOSE x \in t : TRUE}]]
  <2>. HIDE <1>2
  <2>. QED
    BY <1>3 DEF Sums
<1>5. Sums(f) = [t \in SUBSET D |-> NextSum(f, Sums(f), t)]
  BY <1>2, <1>4 DEF NextSum, Chosen
<1>. QED
  BY <1>5

\* Sums of integers are integers.
LEMMA SumsType ==
    ASSUME NEW D, IsFiniteSet(D), NEW f \in [D -> Int]
    PROVE  \A s \in SUBSET D : Sums(f)[s] \in Int
<1> DEFINE Good == {s \in SUBSET D : Sums(f)[s] \in Int}
<1>1. ASSUME NEW s \in SUBSET D, \A x \in s : s \ {x} \in Good PROVE s \in Good
  <2>1. Sums(f)[s] = NextSum(f, Sums(f), s)
    BY SumsUnfold
  <2>2. CASE s = {}
    BY <2>1, <2>2 DEF NextSum
  <2>3. CASE s # {}
    <3>1. Chosen(s) \in s
      BY <2>3 DEF Chosen
    <3>2. f[Chosen(s)] \in Int /\ Sums(f)[s \ {Chosen(s)}] \in Int
      BY <1>1, <3>1
    <3>. QED
      BY <2>1, <2>3, <3>2 DEF NextSum
  <2>. QED
    BY <2>2, <2>3
<1>2. SUBSET D \subseteq Good
  <2>. HIDE DEF Good
  <2>. QED
    BY <1>1, InductionOnSubsets
<1>. QED
  BY <1>2

\* The order of the sum does not matter.
LEMMA SumsSplit ==
    ASSUME NEW D, IsFiniteSet(D), NEW f \in [D -> Int]
    PROVE  \A s \in SUBSET D : \A x \in s : Sums(f)[s] = f[x] + Sums(f)[s \ {x}]
<1> DEFINE Good == {s \in SUBSET D : \A x \in s : Sums(f)[s] = f[x] + Sums(f)[s \ {x}]}
<1>1. ASSUME NEW s \in SUBSET D, \A x \in s : s \ {x} \in Good PROVE s \in Good
  <2> SUFFICES ASSUME NEW x \in s PROVE Sums(f)[s] = f[x] + Sums(f)[s \ {x}]
    OBVIOUS
  <2>1. PICK y : y = Chosen(s)
    OBVIOUS
  <2>2. y \in s /\ Sums(f)[s] = f[y] + Sums(f)[s \ {y}]
    <3>1. y \in s
      BY <2>1 DEF Chosen
    <3>2. Sums(f)[s] = NextSum(f, Sums(f), s)
      BY SumsUnfold
    <3>. QED
      BY <2>1, <3>1, <3>2 DEF NextSum
  <2>3. CASE x = y
    BY <2>2, <2>3
  <2>4. CASE x # y
    <3>1. Sums(f)[s \ {y}] = f[x] + Sums(f)[(s \ {y}) \ {x}]
      BY <1>1, <2>2, <2>4
    <3>2. Sums(f)[s \ {x}] = f[y] + Sums(f)[(s \ {x}) \ {y}]
      BY <1>1, <2>2, <2>4
    <3>3. (s \ {y}) \ {x} = (s \ {x}) \ {y}
      OBVIOUS
    <3>4. PICK rest : rest = Sums(f)[(s \ {x}) \ {y}]
      OBVIOUS
    <3>5. f[x] \in Int /\ f[y] \in Int /\ rest \in Int
      BY <2>2, <3>4, SumsType
    <3>6. Sums(f)[s] = f[y] + (f[x] + rest)
      BY <2>2, <3>1, <3>3, <3>4
    <3>7. Sums(f)[s \ {x}] = f[y] + rest
      BY <3>2, <3>4
    <3>. QED
      BY <3>5, <3>6, <3>7
  <2>. QED
    BY <2>3, <2>4
<1>2. SUBSET D \subseteq Good
  <2>. HIDE DEF Good
  <2>. QED
    BY <1>1, InductionOnSubsets
<1>. QED
  BY <1>2

\* A sum depends on nothing but its summands.
LEMMA SumsAgree ==
    ASSUME NEW D, IsFiniteSet(D), NEW f \in [D -> Int],
           NEW E, IsFiniteSet(E), NEW g \in [E -> Int]
    PROVE  \A s \in SUBSET (D \cap E) : (\A x \in s : f[x] = g[x]) => Sums(f)[s] = Sums(g)[s]
<1> DEFINE Good == {s \in SUBSET (D \cap E) : (\A x \in s : f[x] = g[x]) => Sums(f)[s] = Sums(g)[s]}
<1>1. ASSUME NEW s \in SUBSET (D \cap E), \A x \in s : s \ {x} \in Good PROVE s \in Good
  <2> SUFFICES ASSUME \A x \in s : f[x] = g[x] PROVE Sums(f)[s] = Sums(g)[s]
    OBVIOUS
  <2>1. s \in SUBSET D /\ s \in SUBSET E
    OBVIOUS
  <2>2. Sums(f)[s] = NextSum(f, Sums(f), s) /\ Sums(g)[s] = NextSum(g, Sums(g), s)
    BY <2>1, SumsUnfold
  <2>3. CASE s = {}
    BY <2>2, <2>3 DEF NextSum
  <2>4. CASE s # {}
    <3>1. Chosen(s) \in s
      BY <2>4 DEF Chosen
    <3>2. f[Chosen(s)] = g[Chosen(s)] /\ Sums(f)[s \ {Chosen(s)}] = Sums(g)[s \ {Chosen(s)}]
      BY <1>1, <3>1
    <3>. QED
      BY <2>2, <2>4, <3>2 DEF NextSum
  <2>. QED
    BY <2>3, <2>4
<1>2. SUBSET (D \cap E) \subseteq Good
  <2>1. IsFiniteSet(D \cap E)
    BY FS_Subset
  <2>. HIDE DEF Good
  <2>. QED
    BY <1>1, <2>1, InductionOnSubsets
<1>. QED
  BY <1>2

-----------------------------------------------------------------------------
\* The same facts about SumFunction: its type, the sum of nothing, and one
\* summand apart.
LEMMA SumType ==
    ASSUME NEW D, IsFiniteSet(D), NEW f \in [D -> Int]
    PROVE  SumFunction(f) \in Int
BY SumIsLast, SumsType

LEMMA SumOfNone == ASSUME NEW f, DOMAIN f = {} PROVE SumFunction(f) = 0
<1>1. f \in [{} -> Int] /\ IsFiniteSet({}) /\ {} \in SUBSET {}
  BY FS_EmptySet
<1>2. Sums(f)[{}] = NextSum(f, Sums(f), {})
  BY <1>1, SumsUnfold
<1>. QED
  BY <1>2, SumIsLast DEF NextSum

LEMMA SumSplits ==
    ASSUME NEW D, IsFiniteSet(D), NEW f \in [D -> Int], NEW x \in D
    PROVE  SumFunction(f) = f[x] + SumFunction([y \in D \ {x} |-> f[y]])
<1> DEFINE g == [y \in D \ {x} |-> f[y]]
<1>1. g \in [D \ {x} -> Int] /\ IsFiniteSet(D \ {x})
  BY FS_Subset
<1>2. Sums(f)[D] = f[x] + Sums(f)[D \ {x}]
  BY SumsSplit
<1>3. D \ {x} \in SUBSET (D \cap (D \ {x})) /\ \A y \in D \ {x} : f[y] = g[y]
  OBVIOUS
<1>. HIDE DEF g
<1>4. Sums(f)[D \ {x}] = Sums(g)[D \ {x}]
  BY <1>1, <1>3, SumsAgree
<1>. QED
  BY <1>1, <1>2, <1>4, SumIsLast DEF g

\* One more summand.
LEMMA SumGrows ==
    ASSUME NEW D, IsFiniteSet(D), NEW f \in [D -> Int], NEW x, x \notin D,
           NEW g \in [D \cup {x} -> Int], \A y \in D : g[y] = f[y]
    PROVE  SumFunction(g) = SumFunction(f) + g[x]
<1>1. IsFiniteSet(D \cup {x}) /\ (D \cup {x}) \ {x} = D
  BY FS_AddElement
<1>2. SumFunction(g) = g[x] + SumFunction([y \in D |-> g[y]])
  BY <1>1, SumSplits
<1>3. [y \in D |-> g[y]] = f
  OBVIOUS
<1>4. SumFunction(f) \in Int /\ g[x] \in Int
  BY SumType
<1>. QED
  BY <1>2, <1>3, <1>4

\* SumsSplit and SumsType for all functions at once.
LEMMA SumsStep ==
    ASSUME NEW D, IsFiniteSet(D)
    PROVE  \A f \in [D -> Int] : \A s \in SUBSET D : \A x \in s :
               Sums(f)[s] = f[x] + Sums(f)[s \ {x}] /\ Sums(f)[s \ {x}] \in Int
<1> TAKE f \in [D -> Int]
<1> TAKE s \in SUBSET D
<1> TAKE x \in s
<1>1. Sums(f)[s] = f[x] + Sums(f)[s \ {x}]
  BY SumsSplit
<1>2. s \ {x} \in SUBSET D
  OBVIOUS
<1>. QED
  BY <1>1, <1>2, SumsType

\* The sum of differences is the difference of the sums.
LEMMA SumOfDifference ==
    ASSUME NEW D, IsFiniteSet(D), NEW f \in [D -> Int], NEW g \in [D -> Int]
    PROVE  SumFunction([x \in D |-> f[x] - g[x]]) = SumFunction(f) - SumFunction(g)
<1> DEFINE h == [x \in D |-> f[x] - g[x]]
           Good == {s \in SUBSET D : Sums(h)[s] = Sums(f)[s] - Sums(g)[s]}
<1>1. h \in [D -> Int]
  OBVIOUS
<1>2. ASSUME NEW s \in SUBSET D, \A x \in s : s \ {x} \in Good PROVE s \in Good
  <2>1. CASE s = {}
    <3>1. \A k \in [D -> Int] : Sums(k)[{}] = 0
      BY SumsUnfold DEF NextSum
    <3>. HIDE DEF h
    <3>2. Sums(h)[{}] = 0 /\ Sums(f)[{}] = 0 /\ Sums(g)[{}] = 0
      BY <1>1, <3>1
    <3>. QED
      BY <2>1, <3>2
  <2>2. ASSUME NEW x \in s PROVE s \in Good
    <3>1. \A k \in [D -> Int] : Sums(k)[s] = k[x] + Sums(k)[s \ {x}] /\ Sums(k)[s \ {x}] \in Int
      BY <2>2, SumsStep
    <3>2. Sums(h)[s \ {x}] = Sums(f)[s \ {x}] - Sums(g)[s \ {x}]
      BY <1>2, <2>2
    <3>3. h[x] = f[x] - g[x] /\ f[x] \in Int /\ g[x] \in Int
      BY <2>2
    <3>. HIDE DEF h
    <3>4. /\ Sums(h)[s] = h[x] + Sums(h)[s \ {x}]
          /\ Sums(f)[s] = f[x] + Sums(f)[s \ {x}]
          /\ Sums(g)[s] = g[x] + Sums(g)[s \ {x}]
          /\ Sums(f)[s \ {x}] \in Int /\ Sums(g)[s \ {x}] \in Int
      BY <1>1, <3>1
    <3>5. Sums(h)[s] = Sums(f)[s] - Sums(g)[s]
      BY <3>2, <3>3, <3>4
    <3>. QED
      BY <3>5
  <2>. QED
    BY <2>1, <2>2
<1>3. SUBSET D \subseteq Good
  <2>. HIDE DEF Good
  <2>. QED
    BY <1>2, InductionOnSubsets
<1>4. Sums(h)[D] = Sums(f)[D] - Sums(g)[D]
  BY <1>3
<1>. HIDE DEF h
<1>5. DOMAIN h = D /\ DOMAIN f = D /\ DOMAIN g = D
  BY <1>1
<1>6. SumFunction(h) = SumFunction(f) - SumFunction(g)
  BY <1>4, <1>5, SumIsLast
<1>. QED
  BY <1>6 DEF h

\* The names of the summands do not matter, nor do summands of zero.
LEMMA SumRenamed ==
    ASSUME NEW D, IsFiniteSet(D), NEW f \in [D -> Int],
           NEW E, IsFiniteSet(E), NEW g \in [E -> Int],
           NEW p \in [D -> E], \A x \in D : f[x] = g[p[x]],
           \A x, y \in D : p[x] = p[y] => x = y,
           \A e \in E : (\A x \in D : p[x] # e) => g[e] = 0
    PROVE  SumFunction(f) = SumFunction(g)
<1> DEFINE Over(s) == {x \in D : p[x] \in s}
           Good == {s \in SUBSET E : Sums(g)[s] = Sums(f)[Over(s)]}
<1>1. ASSUME NEW s \in SUBSET E, \A e \in s : s \ {e} \in Good PROVE s \in Good
  <2>1. CASE s = {}
    <3>1. Over(s) = {}
      BY <2>1
    <3>2. {} \in SUBSET D /\ {} \in SUBSET E
      OBVIOUS
    <3>3. Sums(f)[{}] = NextSum(f, Sums(f), {}) /\ Sums(g)[{}] = NextSum(g, Sums(g), {})
      BY <3>2, SumsUnfold
    <3>. QED
      BY <2>1, <3>1, <3>3 DEF NextSum
  <2>2. ASSUME NEW e \in s PROVE s \in Good
    <3>1. Sums(g)[s] = g[e] + Sums(g)[s \ {e}]
      BY SumsSplit
    <3>2. Sums(g)[s \ {e}] = Sums(f)[Over(s \ {e})]
      BY <1>1, <2>2
    <3>3. CASE \A x \in D : p[x] # e
      <4>1. Over(s \ {e}) = Over(s) /\ g[e] = 0
        BY <3>3
      <4>2. Sums(f)[Over(s)] \in Int
        BY SumsType
      <4>. QED
        BY <3>1, <3>2, <4>1, <4>2
    <3>4. ASSUME NEW x \in D, p[x] = e PROVE s \in Good
      <4>1. Over(s \ {e}) = Over(s) \ {x} /\ x \in Over(s) /\ f[x] = g[e]
        BY <2>2, <3>4
      <4>2. Sums(f)[Over(s)] = f[x] + Sums(f)[Over(s) \ {x}]
        BY <4>1, SumsSplit
      <4>. QED
        BY <3>1, <3>2, <4>1, <4>2
    <3>. QED
      BY <3>3, <3>4
  <2>. QED
    BY <2>1, <2>2
<1>2. SUBSET E \subseteq Good
  <2>. HIDE DEF Good
  <2>. QED
    BY <1>1, InductionOnSubsets
<1>3. Sums(g)[E] = Sums(f)[Over(E)] /\ Over(E) = D
  BY <1>2
<1>. QED
  BY <1>3, SumIsLast

\* Zeros add up to zero.
LEMMA SumOfZeros ==
    ASSUME NEW D, IsFiniteSet(D), NEW f \in [D -> Int], \A x \in D : f[x] = 0
    PROVE  SumFunction(f) = 0
<1> DEFINE Good == {s \in SUBSET D : Sums(f)[s] = 0}
<1>1. ASSUME NEW s \in SUBSET D, \A x \in s : s \ {x} \in Good PROVE s \in Good
  <2>1. CASE s = {}
    BY <2>1, SumsUnfold DEF NextSum
  <2>2. ASSUME NEW x \in s PROVE s \in Good
    <3>1. Sums(f)[s] = f[x] + Sums(f)[s \ {x}]
      BY <2>2, SumsSplit
    <3>2. f[x] = 0 /\ Sums(f)[s \ {x}] = 0
      BY <1>1, <2>2
    <3>3. Sums(f)[s] = 0
      BY <3>1, <3>2
    <3>. QED
      BY <3>3
  <2>. QED
    BY <2>1, <2>2
<1>2. SUBSET D \subseteq Good
  <2>. HIDE DEF Good
  <2>. QED
    BY <1>1, InductionOnSubsets
<1>3. Sums(f)[D] = 0 /\ DOMAIN f = D
  BY <1>2
<1>. QED
  BY <1>3, SumIsLast


\* Smaller summands, smaller sum.
LEMMA SumAtMost ==
    ASSUME NEW D, IsFiniteSet(D), NEW f \in [D -> Int], NEW g \in [D -> Int], \A x \in D : f[x] <= g[x]
    PROVE  SumFunction(f) <= SumFunction(g)
<1> DEFINE Good == {s \in SUBSET D : Sums(f)[s] <= Sums(g)[s]}
<1>1. ASSUME NEW s \in SUBSET D, \A x \in s : s \ {x} \in Good PROVE s \in Good
  <2>1. CASE s = {}
    <3>1. Sums(f)[s] = 0 /\ Sums(g)[s] = 0
      BY <2>1, SumsUnfold DEF NextSum
    <3>. QED
      BY <3>1
  <2>2. ASSUME NEW x \in s PROVE s \in Good
    <3>1. \A k \in [D -> Int] : Sums(k)[s] = k[x] + Sums(k)[s \ {x}] /\ Sums(k)[s \ {x}] \in Int
      BY <2>2, SumsStep
    <3>2. Sums(f)[s \ {x}] <= Sums(g)[s \ {x}]
      BY <1>1, <2>2
    <3>3. f[x] <= g[x] /\ f[x] \in Int /\ g[x] \in Int
      BY <2>2
    <3>4. PICK m, n : m = Sums(f)[s \ {x}] /\ n = Sums(g)[s \ {x}]
      OBVIOUS
    <3>5. m \in Int /\ n \in Int /\ m <= n
      BY <3>1, <3>2, <3>4
    <3>6. Sums(f)[s] = f[x] + m /\ Sums(g)[s] = g[x] + n
      BY <3>1, <3>4
    <3>7. Sums(f)[s] <= Sums(g)[s]
      BY <3>3, <3>5, <3>6
    <3>. QED
      BY <3>7
  <2>. QED
    BY <2>1, <2>2
<1>2. SUBSET D \subseteq Good
  <2>. HIDE DEF Good
  <2>. QED
    BY <1>1, InductionOnSubsets
<1>3. Sums(f)[D] <= Sums(g)[D] /\ DOMAIN f = D /\ DOMAIN g = D
  BY <1>2
<1>. QED
  BY <1>3, SumIsLast

\* Naturals add up to a natural.
LEMMA SumOfNaturals ==
    ASSUME NEW D, IsFiniteSet(D), NEW f \in [D -> Nat]
    PROVE  SumFunction(f) \in Nat
<1> DEFINE zero == [x \in D |-> 0]
<1>1. zero \in [D -> Int] /\ f \in [D -> Int] /\ \A x \in D : zero[x] = 0 /\ zero[x] <= f[x]
  OBVIOUS
<1>. HIDE DEF zero
<1>2. SumFunction(zero) = 0 /\ SumFunction(zero) <= SumFunction(f) /\ SumFunction(f) \in Int
  BY <1>1, SumOfZeros, SumAtMost, SumType
<1>. QED
  BY <1>2

\* Each summand of the one is no more than one of the other's own.
LEMMA SumEmbeds ==
    ASSUME NEW D, IsFiniteSet(D), NEW f \in [D -> Int],
           NEW E, IsFiniteSet(E), NEW g \in [E -> Nat],
           NEW p \in [D -> E], \A x \in D : f[x] <= g[p[x]],
           \A x, y \in D : p[x] = p[y] => x = y
    PROVE  SumFunction(f) <= SumFunction(g)
<1> DEFINE met == [x \in D |-> g[p[x]]]
           kept == [e \in E |-> IF \E x \in D : p[x] = e THEN g[e] ELSE 0]
<1>1. met \in [D -> Int] /\ kept \in [E -> Int] /\ g \in [E -> Int]
  OBVIOUS
<1>2. /\ \A x \in D : met[x] = kept[p[x]] /\ f[x] <= met[x]
      /\ \A e \in E : ((\A x \in D : p[x] # e) => kept[e] = 0) /\ kept[e] <= g[e]
  OBVIOUS
<1>. HIDE DEF met, kept
<1>3. SumFunction(met) = SumFunction(kept)
  BY <1>1, <1>2, SumRenamed
<1>4. SumFunction(f) <= SumFunction(met) /\ SumFunction(kept) <= SumFunction(g)
  BY <1>1, <1>2, SumAtMost
<1>5. SumFunction(f) \in Int /\ SumFunction(met) \in Int /\ SumFunction(g) \in Int
  BY <1>1, SumType
<1>. QED
  BY <1>3, <1>4, <1>5

-----------------------------------------------------------------------------
\* What counts up to a number is finite.
LEMMA UpTo == ASSUME NEW n \in Nat PROVE IsFiniteSet(1..n) /\ Cardinality(1..n) = n
<1>1. 1 \in Int /\ n \in Int
  OBVIOUS
<1>2. IsFiniteSet(1..n) /\ Cardinality(1..n) = IF 1 > n THEN 0 ELSE n - 1 + 1
  BY <1>1, FS_Interval
<1>. QED
  BY <1>2

\* What a function makes of a finite set is finite.
LEMMA ImageIsFinite ==
    ASSUME NEW S, IsFiniteSet(S), NEW f
    PROVE  LET T == {f[x] : x \in S}
           IN  IsFiniteSet(T) /\ Cardinality(T) \in Nat /\ Cardinality(T) <= Cardinality(S)
<1> DEFINE T == {f[x] : x \in S}
           g == [x \in S |-> f[x]]
<1>1. g \in Surjection(S, T)
  BY DEF Surjection
<1>. HIDE DEF T, g
<1>2. IsFiniteSet(T) /\ Cardinality(T) <= Cardinality(S)
  BY <1>1, FS_Surjection
<1>3. Cardinality(T) \in Nat
  BY <1>2, FS_CardinalityType
<1>. QED
  BY <1>2, <1>3 DEF T

-----------------------------------------------------------------------------
(* A total order R of a finite set gives each element a place.             *)

Precedes(S, R, x) == {y \in S : <<y, x>> \in R}
Place(S, R) == [x \in S |-> Cardinality(Precedes(S, R, x)) + 1]

TotalOrder(S, R) ==
    /\ \A x \in S : <<x, x>> \notin R
    /\ \A x, y, z \in S : <<x, y>> \in R /\ <<y, z>> \in R => <<x, z>> \in R
    /\ \A x, y \in S : x = y \/ <<x, y>> \in R \/ <<y, x>> \in R

LEMMA PlacesOfOrder ==
    ASSUME NEW S, IsFiniteSet(S), NEW R, TotalOrder(S, R)
    PROVE  /\ Cardinality(S) \in Nat
           /\ Place(S, R) \in [S -> 1..Cardinality(S)]
           /\ \A x, y \in S : <<x, y>> \in R => Place(S, R)[x] < Place(S, R)[y]
           /\ \A x, y \in S : Place(S, R)[x] = Place(S, R)[y] => x = y
           /\ \A k \in 1..Cardinality(S) : \E x \in S : Place(S, R)[x] = k
<1> DEFINE P(x) == Precedes(S, R, x)
           place == Place(S, R)
<1>1. Cardinality(S) \in Nat
  BY FS_CardinalityType
<1>2. ASSUME NEW x \in S PROVE IsFiniteSet(P(x)) /\ Cardinality(P(x)) \in Nat /\ x \notin P(x) /\ P(x) \subseteq S
  <2>1. P(x) \subseteq S /\ x \notin P(x)
    BY DEF Precedes, TotalOrder
  <2>. QED
    BY <2>1, FS_Subset, FS_CardinalityType
<1>3. ASSUME NEW x \in S, NEW T, IsFiniteSet(T), P(x) \cup {x} \subseteq T
      PROVE  Cardinality(P(x)) < Cardinality(T)
  <2>1. Cardinality(P(x) \cup {x}) = Cardinality(P(x)) + 1
    BY <1>2, FS_AddElement
  <2>2. Cardinality(P(x) \cup {x}) <= Cardinality(T) /\ Cardinality(T) \in Nat
    BY <1>3, FS_Subset, FS_CardinalityType
  <2>. QED
    BY <1>2, <2>1, <2>2
<1>4. ASSUME NEW x \in S PROVE Cardinality(P(x)) < Cardinality(S)
  BY <1>2, <1>3
<1>5. ASSUME NEW x \in S, NEW y \in S, <<x, y>> \in R PROVE Cardinality(P(x)) < Cardinality(P(y))
  <2>1. P(x) \cup {x} \subseteq P(y)
    BY <1>5 DEF Precedes, TotalOrder
  <2>. QED
    BY <1>2, <1>3, <2>1
<1>. HIDE DEF P
<1>6. place = [x \in S |-> Cardinality(P(x)) + 1]
  BY DEF P, Place
<1>. HIDE DEF place
<1>7. place \in [S -> 1..Cardinality(S)]
  BY <1>1, <1>2, <1>4, <1>6
<1>8. \A x, y \in S : <<x, y>> \in R => place[x] < place[y]
  BY <1>2, <1>5, <1>6
<1>9. \A x, y \in S : place[x] = place[y] => x = y
  <2> SUFFICES ASSUME NEW x \in S, NEW y \in S, place[x] = place[y], x # y PROVE FALSE
    OBVIOUS
  <2>1. place[x] \in Int /\ place[y] \in Int
    BY <1>1, <1>7
  <2>2. place[x] < place[y] \/ place[y] < place[x]
    BY <1>8 DEF TotalOrder
  <2>. QED
    BY <2>1, <2>2
<1>10. \A k \in 1..Cardinality(S) : \E x \in S : place[x] = k
  <2>1. place \in Injection(S, 1..Cardinality(S))
    BY <1>7, <1>9 DEF Injection, IsInjective
  <2>2. IsFiniteSet(1..Cardinality(S)) /\ Cardinality(1..Cardinality(S)) = Cardinality(S)
    BY <1>1, UpTo
  <2>3. place \in Surjection(S, 1..Cardinality(S))
    BY <2>1, <2>2, FS_Injection
  <2>. QED
    BY <2>3 DEF Surjection
<1>. QED
  BY <1>1, <1>7, <1>8, <1>9, <1>10 DEF place

\* The element of rank k of a set of numbers.
Ranked(places, k) == CHOOSE i \in places : Cardinality({j \in places : j < i}) = k - 1

\* Numbers by their ranks: all of them, each once, in increasing order.
LEMMA NumbersByRank ==
    ASSUME NEW S, IsFiniteSet(S), S \subseteq Int
    PROVE  /\ Cardinality(S) \in Nat
           /\ \A k \in 1..Cardinality(S) : Ranked(S, k) \in S
           /\ \A j, k \in 1..Cardinality(S) : j < k => Ranked(S, j) < Ranked(S, k)
           /\ \A i \in S : \E k \in 1..Cardinality(S) : Ranked(S, k) = i
<1> DEFINE R == {q \in S \X S : q[1] < q[2]}
           n == Cardinality(S)
           place == Place(S, R)
<1>1. \A x, y \in S : <<x, y>> \in R <=> x < y
  OBVIOUS
<1>2. \A x \in S : place[x] = Cardinality({y \in S : y < x}) + 1
  <2> TAKE x \in S
  <2>1. Precedes(S, R, x) = {y \in S : y < x}
    BY <1>1 DEF Precedes
  <2>. QED
    BY <2>1 DEF Place
<1>. HIDE DEF R
<1>3. TotalOrder(S, R)
  BY <1>1 DEF TotalOrder
<1>. HIDE DEF place
<1>4. /\ n \in Nat
      /\ place \in [S -> 1..n]
      /\ \A x, y \in S : <<x, y>> \in R => place[x] < place[y]
      /\ \A x, y \in S : place[x] = place[y] => x = y
      /\ \A k \in 1..n : \E x \in S : place[x] = k
  <2>. HIDE DEF n
  <2>. QED
    BY <1>3, PlacesOfOrder DEF n, place
<1>5. \A x \in S : Cardinality({y \in S : y < x}) \in Int
  BY FS_Subset, FS_CardinalityType
<1>6. ASSUME NEW k \in 1..n PROVE Ranked(S, k) \in S /\ place[Ranked(S, k)] = k
  <2>1. PICK x \in S : place[x] = k
    BY <1>4
  <2>2. \A d \in S : Cardinality({e \in S : e < d}) = k - 1 <=> place[d] = k
    BY <1>2, <1>4, <1>5
  <2>3. \E d \in S : Cardinality({e \in S : e < d}) = k - 1
    BY <2>1, <2>2
  <2>. QED
    BY <2>2, <2>3 DEF Ranked
<1>7. ASSUME NEW j \in 1..n, NEW k \in 1..n, j < k PROVE Ranked(S, j) < Ranked(S, k)
  <2>1. PICK x, y : x = Ranked(S, j) /\ y = Ranked(S, k)
    OBVIOUS
  <2>2. x \in S /\ y \in S /\ place[x] = j /\ place[y] = k
    BY <1>6, <2>1
  <2>3. j \in Int /\ k \in Int /\ ~ (k < j) /\ j # k
    BY <1>4, <1>7
  <2>4. x # y
    BY <2>2, <2>3
  <2>5. ~ (y < x)
    <3> SUFFICES ASSUME y < x PROVE FALSE
      OBVIOUS
    <3>1. place[y] < place[x]
      BY <1>1, <1>4, <2>2
    <3>. QED
      BY <2>2, <2>3, <3>1
  <2>. QED
    BY <2>1, <2>2, <2>4, <2>5
<1>8. \A i \in S : \E k \in 1..n : Ranked(S, k) = i
  <2> SUFFICES ASSUME NEW i \in S PROVE \E k \in 1..n : Ranked(S, k) = i
    OBVIOUS
  <2>1. PICK k \in 1..n : k = place[i]
    BY <1>4
  <2>2. Ranked(S, k) \in S /\ place[Ranked(S, k)] = place[i]
    BY <1>6, <2>1
  <2>3. Ranked(S, k) = i
    BY <1>4, <2>2
  <2>. QED
    BY <2>3
<1>. QED
  BY <1>4, <1>6, <1>7, <1>8

\* The places of a subsequence by their ranks.
LEMMA RanksHold ==
    ASSUME NEW n \in Nat, NEW S \in SUBSET (1..n)
    PROVE  /\ IsFiniteSet(S) /\ Cardinality(S) \in Nat /\ Cardinality(S) <= n
           /\ \A k \in 1..Cardinality(S) : Ranked(S, k) \in S
           /\ \A j, k \in 1..Cardinality(S) : j < k => Ranked(S, j) < Ranked(S, k)
           /\ \A i \in S : \E k \in 1..Cardinality(S) : Ranked(S, k) = i
<1>1. IsFiniteSet(S) /\ Cardinality(S) \in Nat /\ Cardinality(S) <= n
  <2>1. IsFiniteSet(1..n) /\ Cardinality(1..n) = n
    BY UpTo
  <2>. QED
    BY <2>1, FS_Subset, FS_CardinalityType
<1>2. S \subseteq Int
  OBVIOUS
<1>3. /\ \A k \in 1..Cardinality(S) : Ranked(S, k) \in S
      /\ \A j, k \in 1..Cardinality(S) : j < k => Ranked(S, j) < Ranked(S, k)
      /\ \A i \in S : \E k \in 1..Cardinality(S) : Ranked(S, k) = i
  BY <1>1, <1>2, NumbersByRank
<1>. QED
  BY <1>1, <1>3

-----------------------------------------------------------------------------
(* Orders that may leave elements side by side, as those of a sort do.     *)

WeakOrder(S, R) ==
    /\ \A x \in S : <<x, x>> \notin R
    /\ \A x, y \in S : <<x, y>> \in R => <<y, x>> \notin R
    /\ \A x, y, z \in S : <<x, y>> \notin R /\ <<y, z>> \notin R => <<x, z>> \notin R

\* A stable sort of a sequence: each element goes to its place.
StablePlace(s, R) ==
    [i \in DOMAIN s |-> Cardinality({j \in DOMAIN s :
        <<s[j], s[i]>> \in R \/ (j <= i /\ <<s[i], s[j]>> \notin R)})]
StablySorted(s, R) == [k \in DOMAIN s |-> s[CHOOSE i \in DOMAIN s : StablePlace(s, R)[i] = k]]

\* p takes the places of s to those of r, one to one.
Permutes(p, n, s, r) ==
    /\ p \in [1..n -> 1..n]
    /\ \A j, k \in 1..n : p[j] = p[k] => j = k
    /\ \A i \in 1..n : \E k \in 1..n : p[k] = i
    /\ \A k \in 1..n : r[k] = s[p[k]]

\* It is a permutation after which nothing stands before what precedes it, and
\* changes nothing where nothing precedes anything.
LEMMA StableSort ==
    ASSUME NEW n \in Nat, NEW S, NEW s \in [1..n -> S], NEW R, WeakOrder(S, R)
    PROVE  LET r == StablySorted(s, R)
           IN  /\ \E p : Permutes(p, n, s, r)
               /\ r \in [1..n -> S]
               /\ \A j, k \in 1..n : j < k => <<r[k], r[j]>> \notin R
               /\ (\A x, y \in S : <<x, y>> \notin R) => r = s
<1>1. PICK place : place = StablePlace(s, R)
  OBVIOUS
<1>2. PICK r : r = StablySorted(s, R)
  OBVIOUS
<1>3. DOMAIN s = 1..n
  OBVIOUS
<1>4. place = [i \in 1..n |-> Cardinality({j \in 1..n :
                    <<s[j], s[i]>> \in R \/ (j <= i /\ <<s[i], s[j]>> \notin R)})]
  BY <1>1, <1>3 DEF StablePlace
<1>5. r = [k \in 1..n |-> s[CHOOSE i \in 1..n : place[i] = k]]
  BY <1>1, <1>2, <1>3 DEF StablySorted
<1> DEFINE D == 1..n
           T == {q \in D \X D : \/ <<s[q[1]], s[q[2]]>> \in R
                                \/ q[1] < q[2] /\ <<s[q[2]], s[q[1]]>> \notin R}
           rank == Place(D, T)
           p == [k \in D |-> CHOOSE i \in D : place[i] = k]
<1>6. IsFiniteSet(D) /\ Cardinality(D) = n
  BY UpTo
<1>7. /\ \A i \in D : i \in Int /\ ~ (i < i)
      /\ \A i, j \in D : i = j \/ i < j \/ j < i
      /\ \A i, j \in D : i < j => ~ (j < i)
      /\ \A i, j, k \in D : i < j /\ j < k => i < k
  OBVIOUS
<1>8. \A i, j \in D : <<i, j>> \in T <=> <<s[i], s[j]>> \in R \/ (i < j /\ <<s[j], s[i]>> \notin R)
  OBVIOUS
<1>. HIDE DEF T
<1>9. /\ \A x \in S : <<x, x>> \notin R
      /\ \A x, y \in S : <<x, y>> \in R => <<y, x>> \notin R
      /\ \A x, y, z \in S : <<x, y>> \notin R /\ <<y, z>> \notin R => <<x, z>> \notin R
  BY DEF WeakOrder
<1>10. \A i \in D : s[i] \in S
  OBVIOUS
<1>11. \A i \in D : <<i, i>> \notin T
  BY <1>7, <1>8, <1>9, <1>10
<1>12. ASSUME NEW i \in D, NEW j \in D, NEW k \in D, <<i, j>> \in T, <<j, k>> \in T
      PROVE  <<i, k>> \in T
  <2>1. <<s[j], s[i]>> \notin R /\ <<s[k], s[j]>> \notin R
    BY <1>8, <1>9, <1>10, <1>12
  <2>2. <<s[k], s[i]>> \notin R
    BY <1>9, <1>10, <2>1
  <2>3. CASE <<s[i], s[k]>> \in R
    BY <1>8, <2>3
  <2>4. CASE <<s[i], s[k]>> \notin R
    <3>1. <<s[i], s[j]>> \notin R /\ <<s[j], s[k]>> \notin R
      BY <1>9, <1>10, <2>1, <2>4
    <3>2. i < j /\ j < k
      BY <1>8, <1>12, <3>1
    <3>3. i < k
      BY <1>7, <3>2
    <3>. QED
      BY <1>8, <2>2, <3>3
  <2>. QED
    BY <2>3, <2>4
<1>13. \A i, j \in D : i = j \/ <<i, j>> \in T \/ <<j, i>> \in T
  <2>1. \A i, j \in D : i < j => <<i, j>> \in T \/ <<j, i>> \in T
    BY <1>8
  <2>. QED
    BY <1>7, <2>1
<1>14. \A i \in D : place[i] = rank[i]
  <2> SUFFICES ASSUME NEW i \in D PROVE place[i] = rank[i]
    OBVIOUS
  <2> DEFINE Q == {j \in D : <<s[j], s[i]>> \in R \/ (j <= i /\ <<s[i], s[j]>> \notin R)}
  <2>1. Q = Precedes(D, T, i) \cup {i}
    <3>1. \A j \in Q : j \in Precedes(D, T, i) \cup {i}
      BY <1>8 DEF Precedes
    <3>2. \A j \in Precedes(D, T, i) : j \in Q
      BY <1>8 DEF Precedes
    <3>3. i \in Q
      BY <1>9, <1>10
    <3>. QED
      BY <3>1, <3>2, <3>3
  <2>2. Precedes(D, T, i) \subseteq D /\ i \notin Precedes(D, T, i)
    BY <1>11 DEF Precedes
  <2>3. IsFiniteSet(Precedes(D, T, i))
    BY <1>6, <2>2, FS_Subset
  <2>4. Cardinality(Precedes(D, T, i) \cup {i}) = Cardinality(Precedes(D, T, i)) + 1
    BY <2>2, <2>3, FS_AddElement
  <2>5. place[i] = Cardinality(Q)
    BY <1>4
  <2>. QED
    BY <2>1, <2>4, <2>5 DEF Place
<1>15. /\ rank \in [D -> 1..n]
       /\ \A x, y \in D : <<x, y>> \in T => rank[x] < rank[y]
       /\ \A x, y \in D : rank[x] = rank[y] => x = y
       /\ \A k \in 1..n : \E x \in D : rank[x] = k
  <2>1. TotalOrder(D, T)
    <3>1. \A x, y, z \in D : <<x, y>> \in T /\ <<y, z>> \in T => <<x, z>> \in T
      BY <1>12
    <3>. QED
      BY <1>11, <1>13, <3>1 DEF TotalOrder
  <2>. HIDE DEF D
  <2>. QED
    BY <1>6, <2>1, PlacesOfOrder
<1>16. /\ \A x, y \in D : <<x, y>> \in T => place[x] < place[y]
       /\ \A x, y \in D : place[x] = place[y] => x = y
       /\ \A k \in D : \E x \in D : place[x] = k
       /\ \A x \in D : place[x] \in D
  <2>. HIDE DEF rank, Place
  <2>. QED
    BY <1>14, <1>15
<1>17. \A k \in D : p[k] \in D /\ place[p[k]] = k
  BY <1>16
<1>18. \A i \in D : p[place[i]] = i
  <2> TAKE i \in D
  <2>1. place[i] \in D
    BY <1>16
  <2>2. p[place[i]] \in D /\ place[p[place[i]]] = place[i]
    BY <1>17, <2>1
  <2>. HIDE DEF p
  <2>. QED
    BY <1>16, <2>2
<1>19. \A k \in D : r[k] = s[p[k]]
  BY <1>5
<1>20. p \in [D -> D]
  <2>1. \A k \in D : p[k] \in D
    BY <1>17
  <2>. QED
    BY <2>1
<1>. HIDE DEF p, rank
<1>21. \A j, k \in D : j < k => <<r[k], r[j]>> \notin R
  <2> SUFFICES ASSUME NEW j \in D, NEW k \in D, j < k, <<s[p[k]], s[p[j]]>> \in R PROVE FALSE
    BY <1>19
  <2>1. p[k] \in D /\ p[j] \in D /\ place[p[k]] = k /\ place[p[j]] = j
    BY <1>17
  <2>2. <<p[k], p[j]>> \in T
    BY <1>8, <2>1
  <2>3. place[p[k]] < place[p[j]]
    BY <1>16, <2>1, <2>2
  <2>. QED
    BY <1>7, <2>1, <2>3
<1>22. ASSUME \A x, y \in S : <<x, y>> \notin R PROVE r = s
  <2>1. ASSUME NEW i \in D PROVE place[i] = i
    <3>1. Precedes(D, T, i) = 1..(i - 1)
      <4>1. \A j \in D : <<j, i>> \in T <=> j < i
        BY <1>8, <1>10, <1>22
      <4>. QED
        BY <4>1 DEF Precedes
    <3>2. Cardinality(1..(i - 1)) = i - 1
      <4>1. i - 1 \in Nat
        OBVIOUS
      <4>. QED
        BY <4>1, UpTo
    <3>3. place[i] = Cardinality(1..(i - 1)) + 1
      BY <1>14, <3>1 DEF rank, Place
    <3>4. i \in Int
      BY <1>7
    <3>. QED
      BY <3>2, <3>3, <3>4
  <2>2. \A k \in D : p[k] = k
    BY <1>17, <2>1
  <2>3. ASSUME NEW k \in D PROVE r[k] = s[k]
    <3>1. p[k] = k /\ r[k] = s[p[k]]
      BY <1>19, <2>2
    <3>. QED
      BY <3>1
  <2>4. s = [k \in D |-> s[k]]
    OBVIOUS
  <2>. QED
    BY <1>5, <2>3, <2>4
<1>23. r \in [1..n -> S]
  <2>1. \A k \in 1..n : s[p[k]] \in S
    BY <1>10, <1>17
  <2>2. \A k \in 1..n : r[k] \in S
    BY <1>19, <2>1
  <2>. QED
    BY <1>5, <2>2
<1>24. \A j, k \in 1..n : p[j] = p[k] => j = k
  BY <1>17
<1>25. \A i \in 1..n : \E k \in 1..n : p[k] = i
  BY <1>16, <1>18
<1>26. Permutes(p, n, s, r)
  BY <1>19, <1>20, <1>24, <1>25 DEF Permutes
<1>. QED
  BY <1>21, <1>22, <1>23, <1>26, <1>2

\* Two arrangements of a set in one order: nothing that stands later in the one
\* precedes what stands at the same place or earlier in the other.
LEMMA SamePlaces ==
    ASSUME NEW n \in Nat, NEW S, NEW R, WeakOrder(S, R),
           NEW s \in [1..n -> S], NEW t \in [1..n -> S],
           \A j, k \in 1..n : s[j] = s[k] => j = k,
           \A j, k \in 1..n : t[j] = t[k] => j = k,
           \A x \in S : \E k \in 1..n : s[k] = x,
           \A j, k \in 1..n : j < k => <<s[k], s[j]>> \notin R,
           \A j, k \in 1..n : j < k => <<t[k], t[j]>> \notin R,
           NEW i \in 1..n, NEW j \in 1..n, i <= j
    PROVE  <<t[j], s[i]>> \notin R
<1> SUFFICES ASSUME <<t[j], s[i]>> \in R PROVE FALSE
  OBVIOUS
<1>1. /\ \A x \in S : <<x, x>> \notin R
      /\ \A x, y, z \in S : <<x, y>> \notin R /\ <<y, z>> \notin R => <<x, z>> \notin R
  BY DEF WeakOrder
<1>2. ASSUME NEW m \in 1..j, NEW k \in 1..n, s[k] = t[m] PROVE k \in 1..(i - 1)
  <2>1. <<t[j], t[m]>> \notin R
    BY <1>1
  <2>2. k >= i => <<s[k], s[i]>> \notin R
    BY <1>1
  <2>3. s[k] \in S /\ s[i] \in S /\ t[j] \in S
    OBVIOUS
  <2>4. ~ (k >= i)
    BY <1>1, <1>2, <2>1, <2>2, <2>3
  <2>. QED
    BY <2>4
<1> DEFINE at == [m \in 1..j |-> CHOOSE k \in 1..n : s[k] = t[m]]
<1>3. \A m \in 1..j : at[m] \in 1..n /\ s[at[m]] = t[m]
  <2> SUFFICES ASSUME NEW m \in 1..j PROVE at[m] \in 1..n /\ s[at[m]] = t[m]
    OBVIOUS
  <2>1. t[m] \in S
    OBVIOUS
  <2>2. \E k \in 1..n : s[k] = t[m]
    BY <2>1
  <2>. QED
    BY <2>2
<1>4. \A m \in 1..j : at[m] \in 1..(i - 1)
  BY <1>2, <1>3
<1>5. at \in Injection(1..j, 1..(i - 1))
  <2>1. \A l, m \in 1..j : at[l] = at[m] => l = m
    <3> SUFFICES ASSUME NEW l \in 1..j, NEW m \in 1..j, at[l] = at[m] PROVE l = m
      OBVIOUS
    <3>. HIDE DEF at
    <3>1. t[l] = t[m]
      BY <1>3
    <3>2. l \in 1..n /\ m \in 1..n
      OBVIOUS
    <3>. QED
      BY <3>1, <3>2
  <2>2. at \in [1..j -> 1..(i - 1)]
    BY <1>4
  <2>. HIDE DEF at
  <2>. QED
    BY <2>1, <2>2 DEF Injection, IsInjective
<1>6. j \in Nat /\ i - 1 \in Nat
  OBVIOUS
<1>7. IsFiniteSet(1..(i - 1)) /\ Cardinality(1..(i - 1)) = i - 1 /\ Cardinality(1..j) = j
  BY <1>6, UpTo
<1>8. Cardinality(1..j) <= Cardinality(1..(i - 1))
  BY <1>5, <1>7, FS_Injection
<1>. QED
  BY <1>6, <1>7, <1>8
=============================================================================
