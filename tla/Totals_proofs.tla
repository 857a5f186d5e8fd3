---------------------------- MODULE Totals_proofs ----------------------------
(***************************************************************************)
(* What the proofs need of induction, of sums and of recursion.  A set of  *)
(* numbers has a least element and a set of subsets of a finite set a      *)
(* minimal one, which is all that is used of numbers and of finite sets.   *)
(* Total is a recursion over the subsets of a domain; it has a solution,   *)
(* and any value can be taken out of a sum.  So has a recursion whose      *)
(* calls have a smaller rank, and one that iterates a step.                *)
(***************************************************************************)
EXTENDS Totals, FiniteSetTheorems, SequenceTheorems, TLAPS

\* A nonempty set of natural numbers has a least element.
LEMMA LeastElement ==
  ASSUME NEW T \in SUBSET Nat, T # {}
  PROVE  \E n \in T : \A m \in T : n <= m
<1>1. PICK n \in T : \A m \in T : ~(<<m, n>> \in OpToRel(<, Nat))
  BY NatLessThanWellFounded, WFMin
<1>2. \A m \in T : ~(m < n)
  BY <1>1 DEF OpToRel
<1>3. QED
  BY <1>2

\* A set that holds 0 and with a number the next one holds every number.
LEMMA InductionOnNat ==
  ASSUME NEW Good, 0 \in Good, \A n \in Nat : n \in Good => n + 1 \in Good
  PROVE  \A n \in Nat : n \in Good
<1> SUFFICES ASSUME Nat \ Good # {} PROVE FALSE
  OBVIOUS
<1>1. PICK n \in Nat \ Good : \A m \in Nat \ Good : n <= m
  BY LeastElement
<1>2. n - 1 \in Nat /\ n - 1 \in Good
  BY <1>1
<1>3. (n - 1) + 1 = n
  BY <1>1
<1>4. QED
  BY <1>1, <1>2, <1>3

\* A nonempty set of subsets of a finite set has a minimal element.
LEMMA MinimalSubset ==
  ASSUME NEW S, IsFiniteSet(S), NEW B \in SUBSET SUBSET S, B # {}
  PROVE  \E T \in B : \A U \in B : U \subseteq T => U = T
<1>1. PICK T \in B : \A U \in B : ~(<<U, T>> \in StrictSubsetOrdering(S))
  BY FS_FiniteSubsetsOfFinite, FS_StrictSubsetOrderingWellFounded, WFMin
<1>2. \A U \in B : U \subseteq T /\ U # T => <<U, T>> \in StrictSubsetOrdering(S)
  BY DEF StrictSubsetOrdering
<1>3. \A U \in B : U \subseteq T => U = T
  BY <1>1, <1>2
<1>4. QED
  BY <1>3, Zenon

Pick(s) == CHOOSE i \in s : TRUE

\* One step of the recursion that Total unfolds to.
SumStep(f, g, T) == IF T = {} THEN 0 ELSE f[Pick(T)] + g[T \ {Pick(T)}]

Sums(f, g) == g = [T \in SUBSET (DOMAIN f) |-> SumStep(f, g, T)]

\* A choice from a set that is not empty.
LEMMA PickIn == ASSUME NEW T, T # {} PROVE Pick(T) \in T
BY DEF Pick

\* The recursion has a solution.
LEMMA SumsExist ==
  ASSUME NEW f, IsFiniteSet(DOMAIN f)
  PROVE  \E g : Sums(f, g)
<1> DEFINE S == DOMAIN f
           Upto(g, n) == \A T \in SUBSET S : Cardinality(T) <= n => g[T] = SumStep(f, g, T)
           Good == { n \in Nat : \E g : Upto(g, n) }
<1>a. \A T \in SUBSET S : IsFiniteSet(T) /\ Cardinality(T) \in Nat
  BY FS_Subset, FS_CardinalityType
<1>1. 0 \in Good
  <2> DEFINE g == [T \in SUBSET S |-> 0]
  <2>1. \A T \in SUBSET S : Cardinality(T) <= 0 => T = {}
    BY <1>a, FS_EmptySet
  <2>2. Upto(g, 0)
    BY <2>1 DEF SumStep
  <2>3. QED
    BY <2>2
<1>2. ASSUME NEW n \in Nat, n \in Good PROVE n + 1 \in Good
  <2>1. PICK g : Upto(g, n)
    BY <1>2
  <2> DEFINE h == [T \in SUBSET S |-> SumStep(f, g, T)]
  <2>2. ASSUME NEW T \in SUBSET S, Cardinality(T) <= n + 1
        PROVE  h[T] = SumStep(f, h, T)
    <3>1. CASE T = {}
      BY <3>1 DEF SumStep
    <3>2. CASE T # {}
      <4> DEFINE c == Pick(T)
                 U == T \ {c}
      <4>1. c \in T
        BY <3>2, PickIn
      <4>2. U \in SUBSET S /\ Cardinality(U) = Cardinality(T) - 1
        BY <1>a, <4>1, FS_RemoveElement
      <4>3. Cardinality(U) <= n
        BY <1>a, <2>2, <4>2
      <4>4. g[U] = SumStep(f, g, U)
        BY <2>1, <4>2, <4>3
      <4>5. h[U] = g[U]
        BY <4>2, <4>4
      <4>6. h[T] = f[c] + g[U] /\ SumStep(f, h, T) = f[c] + h[U]
        BY <3>2 DEF SumStep
      <4>7. QED
        BY <4>5, <4>6
    <3>3. QED
      BY <3>1, <3>2
  <2>3. Upto(h, n + 1)
    BY <2>2
  <2> HIDE DEF h
  <2>4. \E w : Upto(w, n + 1)
    BY <2>3, Zenon
  <2>5. QED
    BY <2>4
<1> HIDE DEF Good
<1>3. Cardinality(S) \in Good
  BY <1>a, <1>1, <1>2, InductionOnNat
<1>4. PICK g : Upto(g, Cardinality(S))
  BY <1>3 DEF Good
<1> DEFINE h == [T \in SUBSET S |-> g[T]]
<1>5. ASSUME NEW T \in SUBSET S PROVE h[T] = SumStep(f, h, T)
  <2>1. Cardinality(T) <= Cardinality(S)
    BY FS_Subset
  <2>2. g[T] = SumStep(f, g, T)
    BY <1>4, <2>1
  <2>3. T # {} => h[T \ {Pick(T)}] = g[T \ {Pick(T)}]
    OBVIOUS
  <2>4. SumStep(f, h, T) = SumStep(f, g, T)
    BY <2>3 DEF SumStep
  <2>5. QED
    BY <2>2, <2>4
<1>6. h = [T \in SUBSET S |-> SumStep(f, h, T)]
  BY <1>5
<1>7. QED
  BY <1>6 DEF Sums

\* Total is what that solution has for the whole domain.
LEMMA TotalUnfold ==
  ASSUME NEW f, IsFiniteSet(DOMAIN f)
  PROVE  \E g : Sums(f, g) /\ Total(f) = g[DOMAIN f]
<1> DEFINE g == CHOOSE g : Sums(f, g)
<1>1. Sums(f, g)
  BY SumsExist
<1>2. Total(f) = g[DOMAIN f]
  BY DEF Total, MapThenFoldSet, Sums, SumStep, Pick
<1>3. QED
  BY <1>1, <1>2

\* Two sums agree where the summands do.
LEMMA SumsAgree ==
  ASSUME NEW f, NEW g, NEW k, NEW h, Sums(f, g), Sums(k, h),
         NEW U, IsFiniteSet(U), U \subseteq DOMAIN f, U \subseteq DOMAIN k,
         \A i \in U : f[i] = k[i]
  PROVE  g[U] = h[U]
<1> DEFINE B == { T \in SUBSET U : g[T] # h[T] }
<1> SUFFICES ASSUME B # {} PROVE FALSE
  OBVIOUS
<1>0. B \in SUBSET SUBSET U
  OBVIOUS
<1> HIDE DEF B
<1>1. PICK T \in B : \A V \in B : V \subseteq T => V = T
  BY <1>0, MinimalSubset
<1> USE DEF B
<1>2. g[T] = SumStep(f, g, T) /\ h[T] = SumStep(k, h, T) /\ T \subseteq U
  BY DEF Sums
<1>3. T # {}
  BY <1>2 DEF SumStep
<1> DEFINE V == T \ {Pick(T)}
<1>4. Pick(T) \in T
  BY <1>3, PickIn
<1>5. g[V] = h[V]
  BY <1>1, <1>2, <1>4
<1>6. f[Pick(T)] = k[Pick(T)]
  BY <1>2, <1>4
<1>7. QED
  BY <1>2, <1>3, <1>5, <1>6 DEF SumStep

\* Sums of integers are integers: a smallest set whose sum is none would have a
\* smaller one.
LEMMA SumsInteger ==
  ASSUME NEW f, NEW g, Sums(f, g), IsFiniteSet(DOMAIN f), \A i \in DOMAIN f : f[i] \in Int
  PROVE  \A T \in SUBSET DOMAIN f : g[T] \in Int
<1> DEFINE B == { T \in SUBSET DOMAIN f : g[T] \notin Int }
<1> SUFFICES ASSUME B # {} PROVE FALSE
  OBVIOUS
<1>0. B \in SUBSET SUBSET DOMAIN f
  OBVIOUS
<1> HIDE DEF B
<1>1. PICK T \in B : \A V \in B : V \subseteq T => V = T
  BY <1>0, MinimalSubset
<1> USE DEF B
<1>2. g[T] = SumStep(f, g, T) /\ T \subseteq DOMAIN f
  BY DEF Sums
<1>3. T # {}
  BY <1>2 DEF SumStep
<1> DEFINE V == T \ {Pick(T)}
<1>4. Pick(T) \in T
  BY <1>3, PickIn
<1>5. g[V] \in Int /\ f[Pick(T)] \in Int
  BY <1>1, <1>2, <1>4
<1>6. g[T] = f[Pick(T)] + g[V]
  BY <1>2, <1>3 DEF SumStep
<1>7. QED
  BY <1>5, <1>6

\* Sums of naturals are naturals, by the same argument.
LEMMA SumsNatural ==
  ASSUME NEW f, NEW g, Sums(f, g), IsFiniteSet(DOMAIN f), \A i \in DOMAIN f : f[i] \in Nat
  PROVE  \A T \in SUBSET DOMAIN f : g[T] \in Nat
<1> DEFINE B == { T \in SUBSET DOMAIN f : g[T] \notin Nat }
<1> SUFFICES ASSUME B # {} PROVE FALSE
  OBVIOUS
<1>0. B \in SUBSET SUBSET DOMAIN f
  OBVIOUS
<1> HIDE DEF B
<1>1. PICK T \in B : \A V \in B : V \subseteq T => V = T
  BY <1>0, MinimalSubset
<1> USE DEF B
<1>2. g[T] = SumStep(f, g, T) /\ T \subseteq DOMAIN f
  BY DEF Sums
<1>3. T # {}
  BY <1>2 DEF SumStep
<1> DEFINE V == T \ {Pick(T)}
<1>4. Pick(T) \in T
  BY <1>3, PickIn
<1>5. g[V] \in Nat /\ f[Pick(T)] \in Nat
  BY <1>1, <1>2, <1>4
<1>6. g[T] = f[Pick(T)] + g[V]
  BY <1>2, <1>3 DEF SumStep
<1>7. QED
  BY <1>5, <1>6

\* The order in which the summands are picked is of no account.
LEMMA SumsTake ==
  ASSUME NEW f, NEW g, Sums(f, g), IsFiniteSet(DOMAIN f), \A i \in DOMAIN f : f[i] \in Int
  PROVE  \A T \in SUBSET DOMAIN f : \A x \in T : g[T] = f[x] + g[T \ {x}]
<1> DEFINE B == { T \in SUBSET DOMAIN f : \E x \in T : g[T] # f[x] + g[T \ {x}] }
<1> SUFFICES ASSUME B # {} PROVE FALSE
  OBVIOUS
<1>0. B \in SUBSET SUBSET DOMAIN f
  OBVIOUS
<1> HIDE DEF B
<1>1. PICK T \in B : \A V \in B : V \subseteq T => V = T
  BY <1>0, MinimalSubset
<1> USE DEF B
<1>2. PICK x \in T : g[T] # f[x] + g[T \ {x}]
  OBVIOUS
<1> DEFINE c == Pick(T)
<1>3. c \in T /\ T \subseteq DOMAIN f
  BY <1>2, PickIn
<1> HIDE DEF c
<1>4. \A V \in SUBSET DOMAIN f : V # {} => g[V] = f[Pick(V)] + g[V \ {Pick(V)}]
  BY DEF Sums, SumStep
<1>5. g[T] = f[c] + g[T \ {c}]
  BY <1>2, <1>3, <1>4 DEF c
<1>6. x # c
  BY <1>2, <1>5
<1>7. \A V \in SUBSET DOMAIN f : V \subseteq T /\ V # T => \A y \in V : g[V] = f[y] + g[V \ {y}]
  BY <1>1
<1>8. g[T \ {c}] = f[x] + g[(T \ {c}) \ {x}]
  BY <1>3, <1>6, <1>7
<1>9. g[T \ {x}] = f[c] + g[(T \ {x}) \ {c}]
  BY <1>3, <1>6, <1>7
<1>10. g[(T \ {x}) \ {c}] = g[(T \ {c}) \ {x}]
  <2>1. (T \ {x}) \ {c} = (T \ {c}) \ {x}
    OBVIOUS
  <2>2. QED
    BY <2>1
<1>11. f[x] \in Int /\ f[c] \in Int /\ g[(T \ {c}) \ {x}] \in Int
  BY <1>3, SumsInteger
<1> HIDE DEF B
<1>12. QED
  BY <1>2, <1>5, <1>8, <1>9, <1>10, <1>11

-----------------------------------------------------------------------------

\* The sum of no values is 0.
LEMMA TotalOfNone == ASSUME NEW f, DOMAIN f = {} PROVE Total(f) = 0
<1>1. PICK g : Sums(f, g) /\ Total(f) = g[DOMAIN f]
  BY TotalUnfold, FS_EmptySet
<1>2. QED
  BY <1>1 DEF Sums, SumStep

\* The sum of natural numbers is one, ...
LEMMA TotalNatural ==
  ASSUME NEW f, IsFiniteSet(DOMAIN f), \A i \in DOMAIN f : f[i] \in Nat
  PROVE  Total(f) \in Nat
BY TotalUnfold, SumsNatural

\* ... and any value can be taken out of a sum.
LEMMA TotalTake ==
  ASSUME NEW f, IsFiniteSet(DOMAIN f), \A i \in DOMAIN f : f[i] \in Nat, NEW x \in DOMAIN f
  PROVE  Total(f) = f[x] + Total([i \in DOMAIN f \ {x} |-> f[i]])
<1> DEFINE k == [i \in DOMAIN f \ {x} |-> f[i]]
<1>1. PICK g : Sums(f, g) /\ Total(f) = g[DOMAIN f]
  BY TotalUnfold
<1>2. IsFiniteSet(DOMAIN k) /\ DOMAIN k = DOMAIN f \ {x}
  BY FS_RemoveElement
<1>3. PICK h : Sums(k, h) /\ Total(k) = h[DOMAIN k]
  BY <1>2, TotalUnfold
<1>4. \A i \in DOMAIN k : f[i] = k[i]
  OBVIOUS
<1>5. DOMAIN k \subseteq DOMAIN f
  OBVIOUS
<1> HIDE DEF k
<1>6. g[DOMAIN k] = h[DOMAIN k]
  BY <1>1, <1>2, <1>3, <1>4, <1>5, SumsAgree
<1>7. g[DOMAIN f] = f[x] + g[DOMAIN f \ {x}]
  BY <1>1, SumsTake
<1>8. QED
  BY <1>1, <1>2, <1>3, <1>6, <1>7 DEF k

\* The sum of nothing but zeros is zero.
LEMMA TotalOfZeros ==
  ASSUME NEW f, IsFiniteSet(DOMAIN f), \A i \in DOMAIN f : f[i] = 0
  PROVE  Total(f) = 0
<1>1. PICK g : Sums(f, g) /\ Total(f) = g[DOMAIN f]
  BY TotalUnfold
<1> DEFINE S == DOMAIN f
           B == { T \in SUBSET S : g[T] # 0 }
<1>2. SUFFICES ASSUME B # {} PROVE FALSE
  BY <1>1
<1>3. PICK T \in B : \A U \in B : U \subseteq T => U = T
  <2>1. B \in SUBSET SUBSET S
    OBVIOUS
  <2> HIDE DEF B
  <2>2. QED
    BY <1>2, <2>1, MinimalSubset
<1>4. T # {}
  BY <1>1, <1>3 DEF Sums, SumStep
<1>5. Pick(T) \in T /\ g[T] = f[Pick(T)] + g[T \ {Pick(T)}]
  BY <1>1, <1>3, <1>4, PickIn DEF Sums, SumStep
<1>6. g[T \ {Pick(T)}] = 0
  BY <1>3, <1>5
<1>7. QED
  BY <1>3, <1>5, <1>6

-----------------------------------------------------------------------------
(* Functions defined by recursion, of which each step lowers a rank.       *)

\* A recursion that goes on from s to then[s] while s is in goes, and answers
\* ends[s] otherwise.
Follow(g, s, goes, then, ends) == IF s \in goes THEN g[then[s]] ELSE ends[s]

Recursion(f, S, goes, then, ends) == f = [s \in S |-> Follow(f, s, goes, then, ends)]

\* It is followed where the rank is less than n.
FollowedTo(g, n, rank, goes, then, ends) ==
  \A s \in DOMAIN rank : rank[s] < n => g[s] = Follow(g, s, goes, then, ends)

\* Two functions that follow it agree.
LEMMA FollowersAgree ==
  ASSUME NEW S, NEW rank \in [S -> Nat], NEW goes, NEW then \in [S -> S], NEW ends,
         \A s \in S : s \in goes => rank[then[s]] < rank[s],
         NEW n \in Nat, NEW g, NEW h,
         FollowedTo(g, n, rank, goes, then, ends), FollowedTo(h, n, rank, goes, then, ends),
         NEW s \in S, rank[s] < n
  PROVE  g[s] = h[s]
<1> DEFINE bad == { t \in S : rank[t] < n /\ g[t] # h[t] }
           T == { rank[t] : t \in bad }
<1>1. SUFFICES ASSUME s \in bad PROVE FALSE
  OBVIOUS
<1>2. T \in SUBSET Nat /\ T # {}
  BY <1>1
<1>3. PICK m \in T : \A k \in T : m <= k
  BY <1>2, LeastElement
<1>4. PICK t \in bad : m = rank[t]
  BY <1>3
<1>5. t \in goes
  BY <1>4 DEF FollowedTo, Follow
<1>6. then[t] \in S /\ rank[then[t]] \in Nat /\ rank[then[t]] < rank[t] /\ rank[t] \in Nat
  BY <1>4, <1>5
<1>7. g[then[t]] # h[then[t]]
  BY <1>4, <1>5 DEF FollowedTo, Follow
<1>8. then[t] \in bad
  BY <1>4, <1>6, <1>7
<1>9. m <= rank[then[t]]
  BY <1>3, <1>8
<1>10. QED
  BY <1>4, <1>6, <1>9

\* As far as one likes it can be followed.
LEMMA FollowersExist ==
  ASSUME NEW S, NEW rank \in [S -> Nat], NEW goes, NEW then \in [S -> S], NEW ends,
         \A s \in S : s \in goes => rank[then[s]] < rank[s]
  PROVE  \A n \in Nat : \E g : FollowedTo(g, n, rank, goes, then, ends)
<1> DEFINE Good == { n \in Nat : \E g : FollowedTo(g, n, rank, goes, then, ends) }
<1>1. 0 \in Good
  <2>1. FollowedTo(ends, 0, rank, goes, then, ends)
    BY DEF FollowedTo
  <2>2. QED
    BY <2>1
<1>2. ASSUME NEW n \in Nat, n \in Good PROVE n + 1 \in Good
  <2>1. PICK g : FollowedTo(g, n, rank, goes, then, ends)
    BY <1>2
  <2> DEFINE h == [s \in S |-> IF rank[s] < n THEN g[s] ELSE Follow(g, s, goes, then, ends)]
  <2>2. ASSUME NEW s \in S, rank[s] < n + 1 PROVE h[s] = Follow(h, s, goes, then, ends)
    <3>1. h[s] = Follow(g, s, goes, then, ends)
      BY <2>1 DEF FollowedTo
    <3>2. s \in goes => rank[then[s]] < n /\ then[s] \in S
      BY <2>2
    <3>3. s \in goes => h[then[s]] = g[then[s]]
      BY <3>2
    <3> HIDE DEF h
    <3>4. QED
      BY <3>1, <3>3 DEF Follow
  <2> HIDE DEF h
  <2>3. FollowedTo(h, n + 1, rank, goes, then, ends)
    BY <2>2 DEF FollowedTo
  <2>4. QED
    BY <2>3
<1> HIDE DEF Good
<1>3. \A n \in Nat : n \in Good
  BY <1>1, <1>2, InductionOnNat
<1>4. QED
  BY <1>3 DEF Good

\* So the recursion has a solution.
LEMMA RecursionExists ==
  ASSUME NEW S, NEW rank \in [S -> Nat], NEW goes, NEW then \in [S -> S], NEW ends,
         \A s \in S : s \in goes => rank[then[s]] < rank[s]
  PROVE  \E f : Recursion(f, S, goes, then, ends)
<1> DEFINE G(n) == CHOOSE g : FollowedTo(g, n, rank, goes, then, ends)
           f == [s \in S |-> G(rank[s] + 1)[s]]
<1>1. ASSUME NEW n \in Nat PROVE FollowedTo(G(n), n, rank, goes, then, ends)
  BY FollowersExist
<1> HIDE DEF G
<1>2. ASSUME NEW s \in S PROVE f[s] = Follow(f, s, goes, then, ends)
  <2>0. rank[s] \in Nat /\ rank[s] + 1 \in Nat /\ rank[s] < rank[s] + 1
    OBVIOUS
  <2>1. FollowedTo(G(rank[s] + 1), rank[s] + 1, rank, goes, then, ends)
    BY <1>1, <2>0
  <2>2. f[s] = G(rank[s] + 1)[s]
    OBVIOUS
  <2>3. f[s] = Follow(G(rank[s] + 1), s, goes, then, ends)
    BY <2>0, <2>1, <2>2 DEF FollowedTo
  <2>4. CASE s \notin goes
    BY <2>3, <2>4 DEF Follow
  <2>5. CASE s \in goes
    <3>1. /\ then[s] \in S /\ rank[then[s]] \in Nat /\ rank[then[s]] + 1 \in Nat
          /\ rank[then[s]] < rank[then[s]] + 1 /\ rank[then[s]] + 1 <= rank[s] + 1
      BY <2>5
    <3>2. FollowedTo(G(rank[then[s]] + 1), rank[then[s]] + 1, rank, goes, then, ends)
      BY <1>1, <3>1
    <3>3. FollowedTo(G(rank[s] + 1), rank[then[s]] + 1, rank, goes, then, ends)
      <4>1. ASSUME NEW t \in S, rank[t] < rank[then[s]] + 1 PROVE rank[t] < rank[s] + 1
        BY <3>1, <4>1
      <4>2. DOMAIN rank = S
        OBVIOUS
      <4>3. QED
        BY <2>1, <4>1, <4>2 DEF FollowedTo
    <3>4. G(rank[s] + 1)[then[s]] = G(rank[then[s]] + 1)[then[s]]
      BY ONLY <3>1, <3>2, <3>3, FollowersAgree, rank \in [S -> Nat], then \in [S -> S],
              \A u \in S : u \in goes => rank[then[u]] < rank[u]
    <3>5. f[then[s]] = G(rank[then[s]] + 1)[then[s]]
      BY <3>1
    <3> HIDE DEF f
    <3>6. QED
      BY <2>3, <2>5, <3>4, <3>5 DEF Follow
  <2>6. QED
    BY <2>4, <2>5
<1>3. f = [s \in S |-> f[s]]
  OBVIOUS
<1> HIDE DEF f
<1>4. f = [s \in S |-> Follow(f, s, goes, then, ends)]
  BY <1>2, <1>3, Zenon
<1>5. QED
  BY <1>4 DEF Recursion

-----------------------------------------------------------------------------
(* Functions on the numbers defined from the value before.                 *)

\* As far as n, g goes on from a by steps.
Iterates(g, n, V, a, step) ==
  /\ g \in [Nat -> V] /\ g[0] = a
  /\ \A i \in Nat : i < n => g[i + 1] = step[g[i]]

\* What is iterated from one value is one function.
LEMMA IterationExists ==
  ASSUME NEW V, NEW a \in V, NEW step \in [V -> V]
  PROVE  \E f \in [Nat -> V] : f[0] = a /\ \A n \in Nat : f[n + 1] = step[f[n]]
<1> DEFINE Good == { n \in Nat : \E g : Iterates(g, n, V, a, step) }
<1>1. 0 \in Good
  <2>1. Iterates([n \in Nat |-> a], 0, V, a, step)
    BY DEF Iterates
  <2>2. QED
    BY <2>1
<1>2. ASSUME NEW n \in Nat, n \in Good PROVE n + 1 \in Good
  <2>1. PICK g : Iterates(g, n, V, a, step)
    BY <1>2
  <2> DEFINE h == [g EXCEPT ![n + 1] = step[g[n]]]
  <2>2. h \in [Nat -> V] /\ h[0] = a
    BY <2>1 DEF Iterates
  <2>3. ASSUME NEW i \in Nat, i < n + 1 PROVE h[i + 1] = step[h[i]]
    BY <2>1, <2>3 DEF Iterates
  <2>4. Iterates(h, n + 1, V, a, step)
    BY <2>2, <2>3 DEF Iterates
  <2>5. QED
    BY <2>4
<1> HIDE DEF Good
<1>3. \A n \in Nat : n \in Good
  BY <1>1, <1>2, InductionOnNat
<1> DEFINE G(n) == CHOOSE g : Iterates(g, n, V, a, step)
           f == [n \in Nat |-> G(n)[n]]
<1>4. ASSUME NEW n \in Nat PROVE Iterates(G(n), n, V, a, step)
  BY <1>3 DEF Good
<1> HIDE DEF G
<1>5. ASSUME NEW n \in Nat PROVE G(n + 1)[n] = G(n)[n]
  <2> DEFINE same == { i \in Nat : i <= n => G(n + 1)[i] = G(n)[i] }
  <2>1. Iterates(G(n + 1), n + 1, V, a, step) /\ Iterates(G(n), n, V, a, step)
    BY <1>4
  <2>2. 0 \in same
    BY <2>1 DEF Iterates
  <2>3. ASSUME NEW i \in Nat, i \in same PROVE i + 1 \in same
    BY <2>1, <2>3 DEF Iterates
  <2> HIDE DEF same
  <2>4. \A i \in Nat : i \in same
    BY <2>2, <2>3, InductionOnNat
  <2>5. QED
    BY <2>4 DEF same
<1>6. ASSUME NEW n \in Nat PROVE f[n + 1] = step[f[n]] /\ f[n] \in V
  <2>1. Iterates(G(n + 1), n + 1, V, a, step) /\ Iterates(G(n), n, V, a, step)
    BY <1>4
  <2>2. f[n + 1] = G(n + 1)[n + 1] /\ f[n] = G(n)[n]
    OBVIOUS
  <2>3. QED
    BY <1>5, <2>1, <2>2 DEF Iterates
<1>7. f[0] = a
  BY <1>4 DEF Iterates
<1>8. f \in [Nat -> V]
  BY <1>6
<1>9. QED
  BY <1>6, <1>7, <1>8
=============================================================================
