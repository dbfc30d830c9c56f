-------------------------- MODULE DataInduction ---------------------------
(***************************************************************************)
(* Induction over numbers and over finite sets, functions defined by       *)
(* recursion, and sums, as facts about sets and functions.  The library's  *)
(* theorems have operators for parameters, which no prover here instantiates; *)
(* these are derived from the one that has none, that the natural numbers are *)
(* well-founded.                                                           *)
(***************************************************************************)
EXTENDS Integers, FiniteSetTheorems, WellFoundedInduction, Functions, TLAPS

(* The relation of the library's theorem is that of numbers.               *)
LEMMA LessThanIsRelated ==
  ASSUME NEW x \in Nat, NEW y \in Nat, y < x
  PROVE  <<y, x>> \in OpToRel(<, Nat)
BY DEF OpToRel

(* A set of numbers has a least one, and if it is bounded a greatest one.  *)
LEMMA LeastNumber ==
  ASSUME NEW T \in SUBSET Nat, T # {}
  PROVE  \E x \in T : \A y \in T : x <= y
<1>1. IsWellFoundedOn(OpToRel(<, Nat), Nat)
  BY NatLessThanWellFounded
<1>2. PICK x \in T : \A y \in T : <<y, x>> \notin OpToRel(<, Nat)
  BY <1>1, WFMin
<1>3. \A y \in T : ~(y < x)
  BY <1>2, LessThanIsRelated
<1> QED
  BY <1>3

(* The greatest one.                                                       *)
LEMMA GreatestNumber ==
  ASSUME NEW T \in SUBSET Nat, T # {}, NEW bound \in Nat, \A x \in T : x <= bound
  PROVE  \E x \in T : \A y \in T : y <= x
<1> DEFINE Below == {bound - x : x \in T}
<1>0. \A x \in T : bound - x \in Nat
  OBVIOUS
<1>1. Below \in SUBSET Nat /\ Below # {}
  BY <1>0, Zenon
<1>2. PICK b \in Below : \A y \in Below : b <= y
  BY <1>1, LeastNumber
<1>3. PICK x \in T : b = bound - x
  OBVIOUS
<1>4. \A y \in T : bound - x <= bound - y
  BY <1>2, <1>3
<1> QED
  BY <1>4

(* What holds of 0 and of n + 1 whenever of n holds of every number.       *)
LEMMA SetInduction ==
  ASSUME NEW T, 0 \in T, \A n \in Nat : n \in T => n + 1 \in T
  PROVE  Nat \subseteq T
<1> SUFFICES ASSUME Nat \ T # {} PROVE FALSE
  OBVIOUS
<1>1. PICK x \in Nat \ T : \A y \in Nat \ T : x <= y
  BY LeastNumber
<1>2. x - 1 \in Nat /\ x - 1 \in T
  BY <1>1
<1> QED
  BY <1>2

(* A recursion of arguments S and values V: where it stops it has a base,  *)
(* elsewhere it goes on with a smaller argument.                           *)
IsRecursion(S, V, size, stop, base, next, combine) ==
  /\ size \in [S -> Nat] /\ stop \in SUBSET S /\ base \in [S -> V]
  /\ next \in [S -> S] /\ combine \in [S \X V -> V]
  /\ \A x \in S \ stop : size[next[x]] < size[x]

SolvesRecursion(f, S, stop, base, next, combine) ==
  \A x \in S : f[x] = IF x \in stop THEN base[x] ELSE combine[<<x, f[next[x]]>>]

(* It defines a function.                                                  *)
LEMMA Recursion ==
  ASSUME NEW S, NEW V, NEW size, NEW stop, NEW base, NEW next, NEW combine,
         IsRecursion(S, V, size, stop, base, next, combine)
  PROVE  \E f \in [S -> V] : SolvesRecursion(f, S, stop, base, next, combine)
<1> USE DEF IsRecursion
<1> DEFINE Below(n) == {x \in S : size[x] < n}
           Step0(x, g) == IF x \in stop THEN base[x] ELSE combine[<<x, g[next[x]]>>]
           Solves(g, n) == g \in [Below(n) -> V] /\ \A x \in Below(n) : g[x] = Step0(x, g)
           T == {n \in Nat : \E g : Solves(g, n)}
<1>1. \A n \in Nat : \A x \in Below(n) \ stop : \A k \in Nat : n <= k + 1 => next[x] \in Below(k)
  OBVIOUS
<1>2. ASSUME NEW n \in Nat, NEW x \in Below(n + 1), NEW g \in [Below(n) -> V]
      PROVE  Step0(x, g) \in V
  BY <1>1
<1>3. ASSUME NEW n \in Nat, NEW x \in Below(n + 1), NEW g, NEW h,
             x \notin stop => g[next[x]] = h[next[x]]
      PROVE  Step0(x, g) = Step0(x, h)
  BY <1>3
<1>4. \A n \in Nat : /\ Below(n) \subseteq Below(n + 1) /\ Below(n) \subseteq S
                     /\ \A k \in Nat : k <= n => Below(k) \subseteq Below(n)
                     /\ \A x \in S : x \in Below(size[x] + 1)
  OBVIOUS
<1>5. 0 \in T
  <2>1. Below(0) = {}
    OBVIOUS
  <2>2. Solves([x \in Below(0) |-> base[x]], 0)
    BY <2>1
  <2> QED
    BY <2>2
<1> HIDE DEF Below, Step0
<1>6. ASSUME NEW n \in Nat, n \in T PROVE n + 1 \in T
  <2>1. PICK g : Solves(g, n)
    BY <1>6
  <2> DEFINE h == [x \in Below(n + 1) |-> IF x \in Below(n) THEN g[x] ELSE Step0(x, g)]
  <2>2. h \in [Below(n + 1) -> V]
    BY <1>2, <2>1
  <2>3. \A x \in Below(n) : h[x] = g[x]
    BY <1>4
  <2>4. ASSUME NEW x \in Below(n + 1) PROVE h[x] = Step0(x, h)
    <3>1. h[x] = Step0(x, g)
      BY <2>1
    <3>2. x \notin stop => g[next[x]] = h[next[x]]
      BY <1>1, <2>3
    <3> HIDE DEF h
    <3> QED
      BY <1>3, <3>1, <3>2
  <2> HIDE DEF h
  <2>5. Solves(h, n + 1)
    BY <2>2, <2>4
  <2> QED
    BY <2>5
<1>7. \A n \in Nat : \E g : Solves(g, n)
  <2> HIDE DEF Solves
  <2>1. \A n \in Nat : n \in T => n + 1 \in T
    BY <1>6
  <2>2. Nat \subseteq T
    <3> HIDE DEF T
    <3> QED
      BY <1>5, <2>1, SetInduction
  <2> QED
    BY <2>2
(* Two solutions agree where both are defined.                             *)
<1>8. ASSUME NEW n \in Nat, NEW k \in Nat, n <= k, NEW g, NEW h, Solves(g, n), Solves(h, k)
      PROVE  \A x \in Below(n) : g[x] = h[x]
  <2> DEFINE Differ == {size[x] : x \in {y \in Below(n) : g[y] # h[y]}}
  <2> SUFFICES ASSUME NEW z \in Below(n), g[z] # h[z] PROVE FALSE
    OBVIOUS
  <2>0. /\ \A y \in Below(n) : y \in S /\ size[y] \in Nat
        /\ Below(n) \subseteq Below(n + 1) /\ Below(n) \subseteq Below(k)
    BY <1>4, <1>8
  <2>1. Differ \in SUBSET Nat
    BY <2>0
  <2>2. Differ # {}
    OBVIOUS
  <2>3. PICK m \in Differ : \A y \in Differ : m <= y
    BY <2>1, <2>2, LeastNumber
  <2>4. PICK x \in Below(n) : g[x] # h[x] /\ size[x] = m
    BY <2>3
  <2>5. ASSUME x \notin stop PROVE g[next[x]] = h[next[x]]
    <3>1. x \in S /\ next[x] \in Below(n) /\ size[next[x]] < size[x]
      BY <1>1, <1>4, <2>5
    <3>2. next[x] \in S /\ size[next[x]] \in Nat /\ m \in Nat
      BY <1>4, <2>1, <2>3, <3>1
    <3>3. g[next[x]] # h[next[x]] => size[next[x]] \in Differ
      BY <3>1
    <3>4. m <= size[next[x]] => FALSE
      BY <2>4, <3>1, <3>2
    <3> QED
      BY <2>3, <3>3, <3>4
  <2>6. x \in Below(n + 1) /\ x \in Below(k)
    BY <2>0
  <2>7. Step0(x, g) = Step0(x, h)
    BY <1>3, <2>5, <2>6
  <2> QED
    BY <1>8, <2>4, <2>6, <2>7
<1> DEFINE G(n) == CHOOSE g : Solves(g, n)
           f == [x \in S |-> G(size[x] + 1)[x]]
<1>9. \A n \in Nat : Solves(G(n), n)
  <2> HIDE DEF Solves
  <2> QED
    BY <1>7
<1> HIDE DEF G
<1>10. f \in [S -> V]
  BY <1>4, <1>9
<1>11. ASSUME NEW x \in S PROVE f[x] = Step0(x, f)
  <2> DEFINE n == size[x] + 1
  <2>1. n \in Nat /\ x \in Below(n) /\ f[x] = G(n)[x] /\ Solves(G(n), n) /\ x \in Below(n + 1)
    BY <1>4, <1>9
  <2>2. f[x] = Step0(x, G(n))
    BY <2>1
  <2>3. ASSUME x \notin stop PROVE G(n)[next[x]] = f[next[x]]
    <3> DEFINE y == next[x]
               k == size[y] + 1
    <3>1. y \in S /\ k \in Nat /\ k <= n /\ y \in Below(k)
      BY <1>4, <2>3
    <3>2. f[y] = G(k)[y] /\ Solves(G(k), k)
      BY <1>9, <3>1
    <3> HIDE DEF n, k, f, y, Solves
    <3>3. G(k)[y] = G(n)[y]
      BY <1>8, <2>1, <3>1, <3>2
    <3> QED
      BY <3>2, <3>3 DEF y
  <2> HIDE DEF f, n
  <2> QED
    BY <1>3, <2>1, <2>2, <2>3
<1> QED
  BY <1>10, <1>11 DEF Step0, SolvesRecursion

-----------------------------------------------------------------------------
(***************************************************************************)
(* Sums over finite sets.                                                  *)
(***************************************************************************)

(* Sums over finite sets of indices, as functions of the set: the sum over *)
(* a set is that over the rest and one more.                               *)
Numbers(f, S) == \A x \in S : f[x] \in Int

Sums(sum, f, S) ==
  /\ sum \in [SUBSET S -> Int] /\ sum[{}] = 0
  /\ \A s \in SUBSET S : \A x \in s : sum[s] = f[x] + sum[s \ {x}]

(* Subsets of a finite set are finite, and one element less is fewer.      *)
LEMMA SmallerSets ==
  ASSUME NEW S, IsFiniteSet(S)
  PROVE  \A s \in SUBSET S :
           /\ IsFiniteSet(s) /\ Cardinality(s) \in Nat
           /\ \A x \in s : Cardinality(s \ {x}) \in Nat /\ Cardinality(s \ {x}) < Cardinality(s)
<1> SUFFICES ASSUME NEW s \in SUBSET S
    PROVE /\ IsFiniteSet(s) /\ Cardinality(s) \in Nat
          /\ \A x \in s : Cardinality(s \ {x}) \in Nat /\ Cardinality(s \ {x}) < Cardinality(s)
  OBVIOUS
<1>1. IsFiniteSet(s)
  BY FS_Subset
<1>2. Cardinality(s) \in Nat
  BY <1>1, FS_CardinalityType
<1>3. ASSUME NEW x \in s
      PROVE Cardinality(s \ {x}) \in Nat /\ Cardinality(s \ {x}) < Cardinality(s)
  <2>1. Cardinality(s \ {x}) = Cardinality(s) - 1
    BY <1>1, FS_RemoveElement
  <2>2. IsFiniteSet(s \ {x})
    BY <1>1, FS_Subset
  <2>3. Cardinality(s \ {x}) \in Nat
    BY <2>2, FS_CardinalityType
  <2> QED
    BY <1>2, <2>1, <2>3
<1> QED
  BY <1>1, <1>2, <1>3

(* Of sets with something in common there is one of the fewest elements.   *)
LEMMA SmallestSet ==
  ASSUME NEW S, IsFiniteSet(S), NEW T, T \subseteq SUBSET S, T # {}
  PROVE  \E s \in T : \A t \in SUBSET S : Cardinality(t) < Cardinality(s) => t \notin T
<1> DEFINE sizes == {Cardinality(s) : s \in T}
<1>1. \A s \in SUBSET S : Cardinality(s) \in Nat
  BY SmallerSets
<1>2. sizes \in SUBSET Nat /\ sizes # {}
  BY <1>1
<1>3. PICK n \in sizes : \A m \in sizes : n <= m
  <2> HIDE DEF sizes
  <2> QED
    BY <1>2, LeastNumber
<1>4. PICK s \in T : n = Cardinality(s)
  BY <1>3
<1>5. \A t \in T : Cardinality(s) <= Cardinality(t)
  BY <1>3, <1>4
<1>6. ASSUME NEW t \in SUBSET S, Cardinality(t) < Cardinality(s), t \in T PROVE FALSE
  BY <1>1, <1>5, <1>6
<1> QED
  BY <1>6

(* There is at most one sum of the same terms.                             *)
LEMMA SumsAgree ==
  ASSUME NEW S, IsFiniteSet(S), NEW f, NEW g, Numbers(f, S), \A x \in S : f[x] = g[x],
         NEW a, NEW b, Sums(a, f, S), Sums(b, g, S)
  PROVE  \A s \in SUBSET S : a[s] = b[s]
<1> DEFINE T == {s \in SUBSET S : a[s] # b[s]}
<1> SUFFICES ASSUME T # {} PROVE FALSE
  OBVIOUS
<1>1. PICK s \in T : \A t \in SUBSET S : Cardinality(t) < Cardinality(s) => t \notin T
  <2>1. T \subseteq SUBSET S
    OBVIOUS
  <2> HIDE DEF T
  <2> QED
    BY <2>1, SmallestSet
<1>2. s # {}
  BY DEF Sums
<1>3. PICK x \in s : TRUE
  BY <1>2
<1>4. s \ {x} \in SUBSET S /\ s \ {x} \notin T
  BY <1>1, SmallerSets
<1>5. a[s \ {x}] = b[s \ {x}]
  BY <1>4
<1>6. a[s] = f[x] + a[s \ {x}] /\ b[s] = g[x] + b[s \ {x}]
  BY DEF Sums
<1> QED
  BY <1>5, <1>6

(* A sum that takes some element first takes any.                          *)
LEMMA AnyOrder ==
  ASSUME NEW S, IsFiniteSet(S), NEW f, Numbers(f, S), NEW sum, sum \in [SUBSET S -> Int],
         sum[{}] = 0, NEW pick, \A s \in SUBSET S : s # {} => pick[s] \in s,
         \A s \in SUBSET S : s # {} => sum[s] = f[pick[s]] + sum[s \ {pick[s]}]
  PROVE  Sums(sum, f, S)
<1> DEFINE T == {s \in SUBSET S : \E x \in s : sum[s] # f[x] + sum[s \ {x}]}
<1> SUFFICES ASSUME T # {} PROVE FALSE
  BY DEF Sums
<1>1. PICK s \in T : \A t \in SUBSET S : Cardinality(t) < Cardinality(s) => t \notin T
  <2>1. T \subseteq SUBSET S
    OBVIOUS
  <2> HIDE DEF T
  <2> QED
    BY <2>1, SmallestSet
<1>2. PICK x \in s : sum[s] # f[x] + sum[s \ {x}]
  OBVIOUS
<1> DEFINE p == pick[s]
<1>3. p \in s /\ sum[s] = f[p] + sum[s \ {p}] /\ p # x
  BY <1>2
<1> HIDE DEF p
<1>4. s \ {p} \in SUBSET S /\ s \ {x} \in SUBSET S /\ s \ {p} \notin T /\ s \ {x} \notin T
  BY <1>1, <1>3, SmallerSets
<1>5. x \in s \ {p} /\ p \in s \ {x} /\ (s \ {p}) \ {x} = (s \ {x}) \ {p}
  BY <1>3
<1>6. /\ sum[s \ {p}] = f[x] + sum[(s \ {p}) \ {x}]
      /\ sum[s \ {x}] = f[p] + sum[(s \ {x}) \ {p}]
  BY <1>4, <1>5
<1> DEFINE rest == (s \ {x}) \ {p}
<1>7. rest \in SUBSET S
  OBVIOUS
<1>8. f[x] \in Int /\ f[p] \in Int /\ sum[rest] \in Int
  BY <1>3, <1>7 DEF Numbers
<1>9. sum[s \ {p}] = f[x] + sum[rest] /\ sum[s \ {x}] = f[p] + sum[rest]
  BY <1>5, <1>6
<1> HIDE DEF rest
<1> QED
  BY <1>2, <1>3, <1>8, <1>9

(* The fold of the community modules takes one chosen element after the    *)
(* other.                                                                  *)
IsFold(sum, f, S) ==
  sum = [s \in SUBSET S |->
           IF s = {} THEN 0
           ELSE f[CHOOSE x \in s : TRUE] + sum[s \ {CHOOSE x \in s : TRUE}]]

(* There is one.                                                           *)
LEMMA SumsExist ==
  ASSUME NEW S, IsFiniteSet(S), NEW f, Numbers(f, S)
  PROVE  \E sum : Sums(sum, f, S) /\ IsFold(sum, f, S)
<1> DEFINE pick == [s \in SUBSET S |-> CHOOSE x \in s : TRUE]
           size == [s \in SUBSET S |-> Cardinality(s)]
           stop == {{}}
           base == [s \in SUBSET S |-> 0]
           next == [s \in SUBSET S |-> s \ {pick[s]}]
           combine == [p \in (SUBSET S) \X Int |->
                         IF p[1] = {} THEN 0 ELSE f[pick[p[1]]] + p[2]]
<1>1. \A s \in SUBSET S : s # {} => pick[s] \in s
  OBVIOUS
<1>2. size \in [SUBSET S -> Nat]
  BY SmallerSets
<1>3. \A x \in (SUBSET S) \ stop : size[next[x]] < size[x]
  <2> SUFFICES ASSUME NEW s \in SUBSET S, s # {} PROVE size[next[s]] < size[s]
    OBVIOUS
  <2>1. next[s] = s \ {pick[s]} /\ pick[s] \in s /\ s \ {pick[s]} \in SUBSET S
    BY <1>1
  <2> HIDE DEF pick, next
  <2> QED
    BY <2>1, SmallerSets
<1>4. combine \in [(SUBSET S) \X Int -> Int]
  <2> SUFFICES ASSUME NEW s \in SUBSET S, NEW n \in Int
               PROVE  (IF s = {} THEN 0 ELSE f[pick[s]] + n) \in Int
    OBVIOUS
  <2> HIDE DEF pick
  <2> QED
    BY <1>1 DEF Numbers
<1>5. next \in [SUBSET S -> SUBSET S] /\ base \in [SUBSET S -> Int] /\ stop \in SUBSET (SUBSET S)
  OBVIOUS
<1>6. IsRecursion(SUBSET S, Int, size, stop, base, next, combine)
  <2> HIDE DEF size, stop, base, next, combine
  <2> QED
    BY <1>2, <1>3, <1>4, <1>5 DEF IsRecursion
<1>7. PICK sum \in [SUBSET S -> Int] : SolvesRecursion(sum, SUBSET S, stop, base, next, combine)
  <2> HIDE DEF size, stop, base, next, combine
  <2> QED
    BY <1>6, Recursion
<1>8. ASSUME NEW s \in SUBSET S
      PROVE  sum[s] = IF s = {} THEN 0 ELSE f[pick[s]] + sum[s \ {pick[s]}]
  <2>1. sum[s] = IF s \in stop THEN base[s] ELSE combine[<<s, sum[next[s]]>>]
    BY <1>7 DEF SolvesRecursion
  <2>2. sum[next[s]] \in Int
    BY <1>5
  <2>3. s # {} => combine[<<s, sum[next[s]]>>] = f[pick[s]] + sum[next[s]]
    <3> HIDE DEF pick, next
    <3> QED
      BY <2>2
  <2> QED
    BY <2>1, <2>3
<1>9. Sums(sum, f, S)
  <2> HIDE DEF pick
  <2>1. sum[{}] = 0
    BY <1>8
  <2> QED
    BY <1>1, <1>8, <2>1, AnyOrder
<1>10. IsFold(sum, f, S)
  BY <1>8 DEF IsFold
<1> QED
  BY <1>9, <1>10

(* The sum of the community modules is one.                                *)
Total(f, S) == FoldFunctionOnSet(+, 0, f, S)

(* So the fold is a sum: it is the choice of something that exists.        *)
LEMMA TotalSums ==
  ASSUME NEW S, IsFiniteSet(S), NEW f, Numbers(f, S)
  PROVE  \E sum : Sums(sum, f, S) /\ Total(f, S) = sum[S]
<1> DEFINE sum == CHOOSE g : IsFold(g, f, S)
<1>1. Total(f, S) = sum[S]
  BY Zenon DEF Total, FoldFunctionOnSet, MapThenFoldSet, IsFold
<1>2. \E a : IsFold(a, f, S)
  BY SumsExist
<1>3. IsFold(sum, f, S)
  BY <1>2, Zenon
<1>4. Sums(sum, f, S)
  <2> DEFINE pick == [s \in SUBSET S |-> CHOOSE x \in s : TRUE]
  <2>1. \A s \in SUBSET S : s # {} => pick[s] \in s
    OBVIOUS
  <2> HIDE DEF sum
  <2>2. \A s \in SUBSET S : sum[s] = IF s = {} THEN 0 ELSE f[pick[s]] + sum[s \ {pick[s]}]
    BY <1>3 DEF IsFold
  <2>3. sum = [s \in SUBSET S |-> sum[s]]
    BY <1>3, Zenon DEF IsFold
  <2> HIDE DEF pick
  <2>4. sum[{}] = 0
    BY <2>2
  <2>5. \A s \in SUBSET S : sum[s] \in Int
    <3> DEFINE T == {s \in SUBSET S : sum[s] \notin Int}
    <3> SUFFICES ASSUME T # {} PROVE FALSE
      OBVIOUS
    <3>1. PICK s \in T : \A t \in SUBSET S : Cardinality(t) < Cardinality(s) => t \notin T
      <4>1. T \subseteq SUBSET S
        OBVIOUS
      <4> HIDE DEF T
      <4> QED
        BY <4>1, SmallestSet
    <3>2. s # {}
      BY <2>4
    <3>3. pick[s] \in s /\ s \ {pick[s]} \in SUBSET S
      BY <2>1, <3>2
    <3>4. sum[s \ {pick[s]}] \in Int
      BY <3>1, <3>3, SmallerSets
    <3>5. f[pick[s]] \in Int
      BY <3>3 DEF Numbers
    <3> QED
      <4>1. sum[s] = f[pick[s]] + sum[s \ {pick[s]}]
        BY <2>2, <3>2
      <4>2. sum[s] \notin Int
        BY <3>1
      <4> HIDE DEF T
      <4> QED
        BY <3>4, <3>5, <4>1, <4>2
  <2>6. sum \in [SUBSET S -> Int]
    BY <2>3, <2>5
  <2>7. \A s \in SUBSET S : s # {} => sum[s] = f[pick[s]] + sum[s \ {pick[s]}]
    BY <2>2
  <2> QED
    BY <2>1, <2>4, <2>6, <2>7, AnyOrder
<1> HIDE DEF sum
<1> QED
  BY <1>1, <1>4

(* The laws of sums: of the empty set, of a set and one element more, of   *)
(* equal terms, of terms of which one has grown, and of two terms each.    *)
LEMMA TotalOfNothing ==
  ASSUME NEW f
  PROVE  Total(f, {}) = 0
<1>1. IsFiniteSet({}) /\ Numbers(f, {})
  BY FS_EmptySet DEF Numbers
<1>2. PICK sum : Sums(sum, f, {}) /\ Total(f, {}) = sum[{}]
  BY <1>1, TotalSums
<1> QED
  BY <1>2 DEF Sums

(* The sums over a set hold those over its subsets.                        *)
LEMMA SumsBelow ==
  ASSUME NEW S, NEW f, NEW sum, Sums(sum, f, S), NEW T \in SUBSET S
  PROVE  Sums([s \in SUBSET T |-> sum[s]], f, T)
BY DEF Sums

(* Whatever solves the recursion is the total.                             *)
LEMMA TotalIsAny ==
  ASSUME NEW S, IsFiniteSet(S), NEW f, Numbers(f, S), NEW sum, Sums(sum, f, S)
  PROVE  \A s \in SUBSET S : Total(f, s) = sum[s] /\ sum[s] \in Int
<1> SUFFICES ASSUME NEW s \in SUBSET S PROVE Total(f, s) = sum[s] /\ sum[s] \in Int
  OBVIOUS
<1>1. IsFiniteSet(s) /\ Numbers(f, s)
  BY FS_Subset DEF Numbers
<1>2. PICK a : Sums(a, f, s) /\ Total(f, s) = a[s]
  BY <1>1, TotalSums
<1> DEFINE b == [t \in SUBSET s |-> sum[t]]
<1>3. Sums(b, f, s)
  BY SumsBelow
<1>4. b[s] = sum[s] /\ sum[s] \in Int
  BY DEF Sums
<1> HIDE DEF b
<1>5. a[s] = b[s]
  BY <1>1, <1>2, <1>3, SumsAgree
<1> QED
  BY <1>2, <1>4, <1>5

(* A total is a number.                                                    *)
LEMMA TotalIsNumber ==
  ASSUME NEW S, IsFiniteSet(S), NEW f, Numbers(f, S)
  PROVE  Total(f, S) \in Int
<1>1. PICK sum : Sums(sum, f, S) /\ Total(f, S) = sum[S]
  BY TotalSums
<1> QED
  BY <1>1 DEF Sums

(* One element can be counted apart.                                       *)
LEMMA TotalWithout ==
  ASSUME NEW S, IsFiniteSet(S), NEW f, Numbers(f, S), NEW x \in S
  PROVE  Total(f, S) = f[x] + Total(f, S \ {x})
<1>1. PICK sum : Sums(sum, f, S)
  BY TotalSums
<1>2. Total(f, S) = sum[S] /\ Total(f, S \ {x}) = sum[S \ {x}]
  BY <1>1, TotalIsAny
<1> QED
  BY <1>1, <1>2 DEF Sums

(* Functions that agree on the set have the same total.                    *)
LEMMA TotalIsSame ==
  ASSUME NEW S, IsFiniteSet(S), NEW f, NEW g, Numbers(f, S), \A x \in S : f[x] = g[x]
  PROVE  Total(f, S) = Total(g, S)
<1>1. Numbers(g, S)
  BY DEF Numbers
<1>2. PICK a : Sums(a, f, S) /\ Total(f, S) = a[S]
  BY TotalSums
<1>3. PICK b : Sums(b, g, S) /\ Total(g, S) = b[S]
  BY <1>1, TotalSums
<1>4. a[S] = b[S]
  BY <1>2, <1>3, SumsAgree
<1> QED
  BY <1>2, <1>3, <1>4

(* The total of a sum is the sum of the totals.                            *)
LEMMA TotalAdds ==
  ASSUME NEW S, IsFiniteSet(S), NEW f, NEW g, NEW h, Numbers(f, S), Numbers(g, S),
         \A x \in S : h[x] = f[x] + g[x]
  PROVE  Total(h, S) = Total(f, S) + Total(g, S)
<1>1. PICK a : Sums(a, f, S) /\ Total(f, S) = a[S]
  BY TotalSums
<1>2. PICK b : Sums(b, g, S) /\ Total(g, S) = b[S]
  BY TotalSums
<1> DEFINE c == [s \in SUBSET S |-> a[s] + b[s]]
<1>3. Numbers(h, S)
  BY DEF Numbers
<1>4. Sums(c, h, S)
  <2>1. c \in [SUBSET S -> Int] /\ c[{}] = 0
    BY <1>1, <1>2 DEF Sums
  <2>2. ASSUME NEW s \in SUBSET S, NEW x \in s PROVE c[s] = h[x] + c[s \ {x}]
    <3>1. /\ a[s] = f[x] + a[s \ {x}] /\ b[s] = g[x] + b[s \ {x}]
          /\ a[s \ {x}] \in Int /\ b[s \ {x}] \in Int
      BY <1>1, <1>2 DEF Sums
    <3>2. f[x] \in Int /\ g[x] \in Int /\ h[x] = f[x] + g[x]
      BY DEF Numbers
    <3>3. c[s] = a[s] + b[s] /\ c[s \ {x}] = a[s \ {x}] + b[s \ {x}]
      OBVIOUS
    <3> HIDE DEF c
    <3> QED
      BY <3>1, <3>2, <3>3
  <2> HIDE DEF c
  <2> QED
    BY <2>1, <2>2 DEF Sums
<1>5. c[S] = a[S] + b[S]
  OBVIOUS
<1> HIDE DEF c
<1>6. Total(h, S) = c[S]
  BY <1>3, <1>4, TotalIsAny
<1> QED
  BY <1>1, <1>2, <1>5, <1>6

(* What grows at one element grows by as much in total.                    *)
LEMMA TotalGrows ==
  ASSUME NEW S, IsFiniteSet(S), NEW f, NEW g, Numbers(f, S), NEW x \in S, NEW n \in Int,
         g[x] = f[x] + n, \A y \in S \ {x} : g[y] = f[y]
  PROVE  Total(g, S) = Total(f, S) + n
<1>1. Numbers(g, S)
  BY DEF Numbers
<1>2. IsFiniteSet(S \ {x}) /\ Numbers(f, S \ {x})
  BY FS_Subset DEF Numbers
<1>3. Total(f, S \ {x}) = Total(g, S \ {x})
  BY <1>2, TotalIsSame
<1>4. Total(f, S) = f[x] + Total(f, S \ {x}) /\ Total(g, S) = g[x] + Total(g, S \ {x})
  BY <1>1, TotalWithout
<1>5. Total(f, S \ {x}) \in Int /\ f[x] \in Int
  BY <1>2, TotalIsNumber DEF Numbers
<1> QED
  BY <1>3, <1>4, <1>5

(* The sum of a later part of a sequence is that of the whole without that *)
(* of the front.                                                           *)
LEMMA TotalShift ==
  ASSUME NEW n \in Nat, NEW d \in Nat, d <= n, NEW f, Numbers(f, 1 .. n),
         NEW g, \A i \in 1 .. (n - d) : g[i] = f[i + d]
  PROVE  Total(g, 1 .. (n - d)) = Total(f, 1 .. n) - Total(f, 1 .. d)
<1> DEFINE T == {m \in Nat : m <= n - d =>
                   Total(g, 1 .. m) = Total(f, 1 .. (m + d)) - Total(f, 1 .. d)}
<1>1. ASSUME NEW h, NEW m \in Nat, Numbers(h, 1 .. (m + 1))
      PROVE  /\ Total(h, 1 .. m) \in Int
             /\ Total(h, 1 .. (m + 1)) = h[m + 1] + Total(h, 1 .. m)
  <2>1. IsFiniteSet(1 .. m) /\ IsFiniteSet(1 .. (m + 1))
    BY FS_Interval
  <2>2. (1 .. (m + 1)) \ {m + 1} = 1 .. m /\ m + 1 \in 1 .. (m + 1)
    OBVIOUS
  <2>3. Numbers(h, 1 .. m)
    BY <1>1, <2>2 DEF Numbers
  <2> QED
    BY <1>1, <2>1, <2>2, <2>3, TotalWithout, TotalIsNumber
<1>2. ASSUME NEW m \in Nat, m <= n PROVE Numbers(f, 1 .. m) /\ Total(f, 1 .. m) \in Int
  <2>1. Numbers(f, 1 .. m)
    BY <1>2 DEF Numbers
  <2>2. IsFiniteSet(1 .. m)
    BY FS_Interval
  <2> QED
    BY <2>1, <2>2, TotalIsNumber
<1>3. 0 \in T
  <2>1. 1 .. 0 = {} /\ 0 + d = d
    OBVIOUS
  <2>2. Total(f, 1 .. d) \in Int
    BY <1>2
  <2>3. Total(g, 1 .. 0) = 0
    BY <2>1, TotalOfNothing
  <2> QED
    BY <2>1, <2>2, <2>3
<1>4. ASSUME NEW m \in Nat, m \in T PROVE m + 1 \in T
  <2> SUFFICES ASSUME m + 1 <= n - d
               PROVE Total(g, 1 .. (m + 1)) = Total(f, 1 .. (m + 1 + d)) - Total(f, 1 .. d)
    OBVIOUS
  <2>1. m + d \in Nat /\ (m + d) + 1 <= n /\ m + 1 + d = (m + d) + 1 /\ d <= n
    OBVIOUS
  <2>2. Numbers(f, 1 .. ((m + d) + 1)) /\ Total(f, 1 .. d) \in Int /\ f[(m + d) + 1] \in Int
    BY <1>2, <2>1 DEF Numbers
  <2>3. Numbers(g, 1 .. (m + 1)) /\ g[m + 1] = f[(m + d) + 1]
    <3>1. \A i \in 1 .. (m + 1) : i \in 1 .. (n - d) /\ i + d \in 1 .. n
      BY <2>1
    <3>2. g[m + 1] = f[(m + 1) + d]
      BY <3>1
    <3> QED
      BY <2>1, <3>1, <3>2 DEF Numbers
  <2>4. /\ Total(g, 1 .. m) \in Int
        /\ Total(g, 1 .. (m + 1)) = g[m + 1] + Total(g, 1 .. m)
    BY <1>1, <2>3
  <2>5. /\ Total(f, 1 .. (m + d)) \in Int
        /\ Total(f, 1 .. ((m + d) + 1)) = f[(m + d) + 1] + Total(f, 1 .. (m + d))
    BY <1>1, <2>1, <2>2
  <2>6. Total(g, 1 .. m) = Total(f, 1 .. (m + d)) - Total(f, 1 .. d)
    BY <1>4, <2>1
  <2> QED
    BY <2>1, <2>2, <2>3, <2>4, <2>5, <2>6
<1>5. n - d \in T
  <2> HIDE DEF T
  <2>1. Nat \subseteq T
    BY <1>3, <1>4, SetInduction
  <2> QED
    BY <2>1
<1> QED
  BY <1>5

(* A total of zeros is zero.                                               *)
LEMMA TotalOfNone ==
  ASSUME NEW S, IsFiniteSet(S), NEW f, \A x \in S : f[x] = 0
  PROVE  Total(f, S) = 0
<1> DEFINE zero == [s \in SUBSET S |-> 0]
<1>1. Numbers(f, S)
  BY DEF Numbers
<1>2. Sums(zero, f, S)
  BY DEF Sums
<1>3. Total(f, S) = zero[S]
  <2> HIDE DEF zero
  <2> QED
    BY <1>1, <1>2, TotalIsAny
<1> QED
  BY <1>3

-----------------------------------------------------------------------------
(* Loops over 1 .. n and over sequences, as the folds define them.         *)

(* The greatest number of a set.                                          *)
Greatest(S) == CHOOSE x \in S : \A y \in S : x >= y

(* A set of positions has a greatest one.                                  *)
LEMMA GreatestOf ==
  ASSUME NEW n \in Nat, NEW S \in SUBSET (1 .. n), S # {}
  PROVE  Greatest(S) \in S /\ \A y \in S : Greatest(S) >= y
<1>1. S \in SUBSET Nat /\ \A x \in S : x <= n
  OBVIOUS
<1>2. \E x \in S : \A y \in S : y <= x
  BY <1>1, GreatestNumber
<1>3. \E x \in S : \A y \in S : x >= y
  BY <1>1, <1>2
<1> QED
  BY <1>3, Zenon DEF Greatest

(* The greatest of the first i positions is i, and without it they are the *)
(* first i - 1.                                                            *)
LEMMA GreatestOfInterval ==
  ASSUME NEW n \in Nat, NEW i \in 1 .. n
  PROVE  /\ 1 .. i \in SUBSET (1 .. n) /\ 1 .. i # {}
         /\ Greatest(1 .. i) = i /\ (1 .. i) \ {i} = 1 .. (i - 1)
<1>1. 1 .. i \in SUBSET (1 .. n) /\ i \in 1 .. i
  OBVIOUS
<1>2. Greatest(1 .. i) \in 1 .. i /\ Greatest(1 .. i) >= i
  BY <1>1, GreatestOf
<1> QED
  BY <1>1, <1>2

(* A loop over 1 .. n, as the recursion by which a fold takes the elements *)
(* of a sequence: there is a function that solves it.                      *)
SolvesLoop(h, n, first, step) ==
  \A s \in SUBSET (1 .. n) :
    h[s] = IF s = {} THEN first ELSE step[<<Greatest(s), h[s \ {Greatest(s)}]>>]

(* Such a function exists.                                                 *)
LEMMA Loop ==
  ASSUME NEW n \in Nat, NEW V, NEW first, first \in V,
         NEW step, step \in [(1 .. n) \X V -> V]
  PROVE  \E h \in [SUBSET (1 .. n) -> V] : SolvesLoop(h, n, first, step)
<1> DEFINE S == SUBSET (1 .. n)
           size == [s \in S |-> Cardinality(s)]
           stop == {{}}
           base == [s \in S |-> first]
           next == [s \in S |-> IF s = {} THEN {} ELSE s \ {Greatest(s)}]
           combine == [p \in S \X V |-> IF p[1] = {} THEN first ELSE step[<<Greatest(p[1]), p[2]>>]]
<1>1. IsFiniteSet(1 .. n)
  BY FS_Interval
<1>2. \A s \in S : s # {} => Greatest(s) \in s
  BY GreatestOf
<1>3. IsRecursion(S, V, size, stop, base, next, combine)
  <2>1. size \in [S -> Nat]
    BY <1>1, SmallerSets
  <2>2. \A s \in S \ stop : size[next[s]] < size[s]
    BY <1>1, <1>2, SmallerSets
  <2>3. combine \in [S \X V -> V]
    BY <1>2
  <2> QED
    BY <2>1, <2>2, <2>3 DEF IsRecursion
<1>4. PICK h \in [S -> V] : SolvesRecursion(h, S, stop, base, next, combine)
  <2> HIDE DEF S, size, stop, base, next, combine
  <2> QED
    BY <1>3, Recursion
<1>5. ASSUME NEW s \in S
      PROVE  h[s] = IF s = {} THEN first ELSE step[<<Greatest(s), h[s \ {Greatest(s)}]>>]
  <2>1. CASE s = {}
    BY <1>4, <2>1 DEF SolvesRecursion
  <2>2. CASE s # {}
    <3>1. h[s] = combine[<<s, h[next[s]]>>] /\ next[s] = s \ {Greatest(s)}
      BY <1>4, <2>2 DEF SolvesRecursion
    <3>2. next[s] \in S /\ h[next[s]] \in V
      BY <3>1
    <3> HIDE DEF next
    <3> QED
      BY <2>2, <3>1, <3>2
  <2> QED
    BY <2>1, <2>2
<1> QED
  BY <1>5 DEF SolvesLoop

(* A walk through a loop: what a fold makes of the first 1 .. i.           *)
IsWalk(walk, n, V, first, step) ==
  /\ walk \in [0 .. n -> V] /\ walk[0] = first
  /\ \A i \in 1 .. n : walk[i] = step[<<i, walk[i - 1]>>]

HasWalk(n, V, first, step, last) ==
  \E walk : IsWalk(walk, n, V, first, step) /\ walk[n] = last

TakesSteps(fold, n, V, first, step) ==
  /\ fold[{}] = first
  /\ \A i \in 1 .. n : fold[1 .. (i - 1)] \in V =>
       fold[1 .. i] = step[<<i, fold[1 .. (i - 1)]>>]

(* A fold over the positions is a walk from the first value, a step for    *)
(* each position.                                                          *)
LEMMA LoopWalk ==
  ASSUME NEW n \in Nat, NEW V, NEW first, first \in V,
         NEW step, step \in [(1 .. n) \X V -> V],
         NEW fold, TakesSteps(fold, n, V, first, step)
  PROVE  HasWalk(n, V, first, step, fold[1 .. n])
<1> USE DEF TakesSteps
<1> DEFINE T == {i \in Nat : i <= n => fold[1 .. i] \in V}
<1>1. 1 .. 0 = {}
  OBVIOUS
<1>2. \A i \in 0 .. n : fold[1 .. i] \in V
  <2>1. 0 \in T
    BY <1>1
  <2>2. ASSUME NEW i \in Nat, i \in T PROVE i + 1 \in T
    <3> SUFFICES ASSUME i + 1 <= n PROVE fold[1 .. (i + 1)] \in V
      OBVIOUS
    <3>1. i + 1 \in 1 .. n /\ (i + 1) - 1 = i /\ fold[1 .. i] \in V
      BY <2>2
    <3>2. fold[1 .. (i + 1)] = step[<<i + 1, fold[1 .. i]>>]
      BY <3>1
    <3> QED
      BY <3>1, <3>2
  <2> HIDE DEF T
  <2>3. Nat \subseteq T
    BY <2>1, <2>2, SetInduction
  <2> USE DEF T
  <2> QED
    BY <2>3
<1> DEFINE walk == [i \in 0 .. n |-> fold[1 .. i]]
<1>3. walk \in [0 .. n -> V]
  BY <1>2
<1>4. walk[0] = first /\ walk[n] = fold[1 .. n]
  BY <1>1
<1>5. \A i \in 1 .. n : walk[i] = step[<<i, walk[i - 1]>>]
  <2> SUFFICES ASSUME NEW i \in 1 .. n PROVE walk[i] = step[<<i, walk[i - 1]>>]
    OBVIOUS
  <2>1. i \in 0 .. n /\ i - 1 \in 0 .. n
    OBVIOUS
  <2>2. walk[i] = fold[1 .. i] /\ walk[i - 1] = fold[1 .. (i - 1)]
    BY <2>1
  <2>3. fold[1 .. (i - 1)] \in V
    BY <1>2, <2>1
  <2> HIDE DEF walk
  <2> QED
    BY <2>2, <2>3
<1> HIDE DEF walk
<1> QED
  BY <1>3, <1>4, <1>5 DEF IsWalk, HasWalk

-----------------------------------------------------------------------------
(* More about sums: of unions, of parts, of some, and of windows that move.*)

(* A sum over two sets that share nothing.                                 *)
LEMMA TotalOfUnion ==
  ASSUME NEW S, NEW T, IsFiniteSet(S), IsFiniteSet(T), S \cap T = {},
         NEW f, Numbers(f, S), Numbers(f, T)
  PROVE  Total(f, S \cup T) = Total(f, S) + Total(f, T)
<1> DEFINE Wrong == {s \in SUBSET T : Total(f, S \cup s) # Total(f, S) + Total(f, s)}
<1>1. ASSUME Wrong # {} PROVE FALSE
  <2>1. PICK s \in Wrong : \A t \in SUBSET T : Cardinality(t) < Cardinality(s) => t \notin Wrong
    <3>1. Wrong \subseteq SUBSET T
      OBVIOUS
    <3> HIDE DEF Wrong
    <3> QED
      BY <1>1, <3>1, SmallestSet
  <2>2. s \in SUBSET T /\ Total(f, S \cup s) # Total(f, S) + Total(f, s)
    BY <2>1
  <2>3. Total(f, S) \in Int
    BY TotalIsNumber
  <2>4. CASE s = {}
    <3>1. Total(f, s) = 0 /\ S \cup s = S
      BY <2>4, TotalOfNothing
    <3> QED
      BY <2>2, <2>3, <3>1
  <2>5. ASSUME NEW x \in s PROVE FALSE
    <3> DEFINE rest == s \ {x}
    <3>1. /\ IsFiniteSet(s) /\ IsFiniteSet(S \cup s) /\ Numbers(f, s) /\ Numbers(f, S \cup s)
          /\ IsFiniteSet(rest) /\ Numbers(f, rest)
      <4>1. IsFiniteSet(s) /\ IsFiniteSet(rest)
        BY <2>2, FS_Subset
      <4>2. IsFiniteSet(S \cup s)
        BY <4>1, FS_Union
      <4> QED
        BY <2>2, <4>1, <4>2 DEF Numbers
    <3>2. Total(f, s) = f[x] + Total(f, rest)
      BY <3>1, TotalWithout
    <3>3. Total(f, S \cup s) = f[x] + Total(f, (S \cup s) \ {x})
      BY <3>1, TotalWithout
    <3>4. (S \cup s) \ {x} = S \cup rest
      BY <2>2, <2>5
    <3>5. Cardinality(rest) < Cardinality(s) /\ rest \in SUBSET T
      BY <2>2, <2>5, SmallerSets
    <3>6. Total(f, S \cup rest) = Total(f, S) + Total(f, rest)
      BY <2>1, <3>5
    <3>7. f[x] \in Int /\ Total(f, rest) \in Int
      BY <2>5, <3>1, TotalIsNumber DEF Numbers
    <3>8. Total(f, S \cup s) = f[x] + (Total(f, S) + Total(f, rest))
      BY <3>3, <3>4, <3>6
    <3> HIDE DEF rest
    <3>9. Total(f, S \cup s) = Total(f, S) + Total(f, s)
      BY <2>3, <3>2, <3>7, <3>8
    <3> QED
      BY <2>2, <3>9
  <2> QED
    BY <2>4, <2>5
<1> QED
  BY <1>1

(* A sum over the parts of a set.                                          *)
Together(K, S) == UNION {K[t] : t \in S}

Apart(K, S, f) ==
  \A t \in S : /\ IsFiniteSet(K[t]) /\ Numbers(f, K[t])
               /\ \A u \in S \ {t} : K[t] \cap K[u] = {}

(* The parts of a set are counted apart.                                   *)
LEMMA TotalOfParts ==
  ASSUME NEW S, IsFiniteSet(S), NEW K, NEW f, Apart(K, S, f),
         NEW sums, \A t \in S : sums[t] = Total(f, K[t])
  PROVE  /\ IsFiniteSet(Together(K, S)) /\ Numbers(f, Together(K, S))
         /\ Total(f, Together(K, S)) = Total(sums, S)
<1> DEFINE Right(s) == /\ IsFiniteSet(Together(K, s)) /\ Numbers(f, Together(K, s))
                       /\ Total(f, Together(K, s)) = Total(sums, s)
           Wrong == {s \in SUBSET S : ~Right(s)}
<1>0. Numbers(sums, S)
  <2>1. ASSUME NEW t \in S PROVE sums[t] \in Int
    BY TotalIsNumber DEF Apart
  <2> QED
    BY <2>1 DEF Numbers
<1>1. ASSUME Wrong # {} PROVE FALSE
  <2>1. PICK s \in Wrong : \A t \in SUBSET S : Cardinality(t) < Cardinality(s) => t \notin Wrong
    <3>1. Wrong \subseteq SUBSET S
      OBVIOUS
    <3> HIDE DEF Wrong
    <3> QED
      BY <1>1, <3>1, SmallestSet
  <2>2. s \in SUBSET S /\ ~Right(s)
    BY <2>1
  <2>3. CASE s = {}
    <3>1. Together(K, s) = {}
      BY <2>3 DEF Together
    <3>2. Total(f, Together(K, s)) = 0 /\ Total(sums, s) = 0
      BY <2>3, <3>1, TotalOfNothing
    <3>3. IsFiniteSet({}) /\ Numbers(f, {})
      BY FS_EmptySet DEF Numbers
    <3> QED
      BY <2>2, <3>1, <3>2, <3>3
  <2>4. ASSUME NEW x \in s PROVE FALSE
    <3> DEFINE rest == s \ {x}
    <3>1. Cardinality(rest) < Cardinality(s) /\ rest \in SUBSET S
      BY <2>2, <2>4, SmallerSets
    <3>2. Right(rest)
      BY <2>1, <3>1
    <3>3. /\ Together(K, s) = Together(K, rest) \cup K[x]
          /\ Together(K, rest) \cap K[x] = {}
      BY <2>2, <2>4 DEF Together, Apart
    <3>4. IsFiniteSet(K[x]) /\ Numbers(f, K[x]) /\ sums[x] = Total(f, K[x])
      BY <2>2, <2>4 DEF Apart
    <3>5. IsFiniteSet(Together(K, s)) /\ Numbers(f, Together(K, s))
      <4>1. IsFiniteSet(Together(K, rest) \cup K[x])
        BY <3>2, <3>4, FS_Union
      <4> QED
        BY <3>2, <3>3, <3>4, <4>1 DEF Numbers
    <3>6. Total(f, Together(K, s)) = Total(f, Together(K, rest)) + Total(f, K[x])
      BY <3>2, <3>3, <3>4, TotalOfUnion
    <3>7. Total(sums, s) = sums[x] + Total(sums, rest)
      <4>1. IsFiniteSet(s) /\ Numbers(sums, s)
        BY <1>0, <2>2, FS_Subset DEF Numbers
      <4> QED
        BY <2>4, <4>1, TotalWithout
    <3>8. Total(f, Together(K, rest)) = Total(sums, rest)
      BY <3>2
    <3>9. Total(f, Together(K, rest)) \in Int /\ Total(f, K[x]) \in Int
      BY <3>2, <3>4, TotalIsNumber
    <3> HIDE DEF rest
    <3>10. Total(f, Together(K, s)) = Total(sums, s)
      BY <3>4, <3>6, <3>7, <3>8, <3>9
    <3> QED
      BY <2>2, <3>5, <3>10
  <2> QED
    BY <2>3, <2>4
<1>2. Right(S)
  BY <1>1
<1> QED
  BY <1>2

(* A sum over the members of a set that satisfy a condition is a sum over  *)
(* the set, the others counting nothing.                                   *)
CountsOnly(g, S, f, T) == \A x \in S : g[x] = IF x \in T THEN f[x] ELSE 0

(* Then the two are the same.                                              *)
LEMMA TotalOfSome ==
  ASSUME NEW S, IsFiniteSet(S), NEW T, T \subseteq S, NEW f, Numbers(f, T),
         NEW g, CountsOnly(g, S, f, T)
  PROVE  Total(f, T) = Total(g, S)
<1>0. \A x \in S : g[x] = IF x \in T THEN f[x] ELSE 0
  BY DEF CountsOnly
<1>1. IsFiniteSet(T) /\ IsFiniteSet(S \ T)
  BY FS_Subset, FS_Difference
<1>2. Numbers(g, S) /\ Numbers(g, T) /\ Numbers(g, S \ T)
  BY <1>0 DEF Numbers
<1>3. Total(f, T) = Total(g, T)
  BY <1>0, <1>1, TotalIsSame
<1>4. Total(g, S \ T) = 0
  BY <1>0, <1>1, TotalOfNone
<1>5. T \cap (S \ T) = {} /\ T \cup (S \ T) = S
  OBVIOUS
<1>6. Total(g, T \cup (S \ T)) = Total(g, T) + Total(g, S \ T)
  BY <1>1, <1>2, <1>5, TotalOfUnion
<1>7. Total(g, T) \in Int
  BY <1>1, <1>2, TotalIsNumber
<1>8. Total(g, S) = Total(g, T) + Total(g, S \ T)
  BY <1>5, <1>6
<1>9. Total(g, S) = Total(g, T)
  BY <1>4, <1>7, <1>8
<1> QED
  BY <1>3, <1>9

(* A sum of natural numbers is one, and no less than each of them.         *)
LEMMA TotalIsNatural ==
  ASSUME NEW S, IsFiniteSet(S), NEW f, \A x \in S : f[x] \in Nat
  PROVE  Total(f, S) \in Nat /\ \A x \in S : f[x] <= Total(f, S)
<1> DEFINE Wrong == {s \in SUBSET S : Total(f, s) \notin Nat}
<1>0. Numbers(f, S)
  BY DEF Numbers
<1>1. ASSUME Wrong # {} PROVE FALSE
  <2>1. PICK s \in Wrong : \A t \in SUBSET S : Cardinality(t) < Cardinality(s) => t \notin Wrong
    <3>1. Wrong \subseteq SUBSET S
      OBVIOUS
    <3> HIDE DEF Wrong
    <3> QED
      BY <1>1, <3>1, SmallestSet
  <2>2. s \in SUBSET S /\ Total(f, s) \notin Nat
    BY <2>1
  <2>3. s # {}
    BY <2>2, TotalOfNothing
  <2>4. PICK x \in s : TRUE
    BY <2>3
  <2>5. Total(f, s) = f[x] + Total(f, s \ {x})
    <3>1. IsFiniteSet(s) /\ Numbers(f, s)
      BY <1>0, <2>2, FS_Subset DEF Numbers
    <3> QED
      BY <3>1, TotalWithout
  <2>6. Cardinality(s \ {x}) < Cardinality(s) /\ s \ {x} \in SUBSET S
    BY <2>2, SmallerSets
  <2>7. Total(f, s \ {x}) \in Nat
    BY <2>1, <2>6
  <2>8. f[x] \in Nat
    BY <2>2
  <2> QED
    BY <2>2, <2>5, <2>7, <2>8
<1>2. \A s \in SUBSET S : Total(f, s) \in Nat
  BY <1>1
<1>3. ASSUME NEW x \in S PROVE f[x] <= Total(f, S)
  <2>1. Total(f, S) = f[x] + Total(f, S \ {x})
    BY <1>0, TotalWithout
  <2>2. Total(f, S \ {x}) \in Nat
    BY <1>2
  <2> QED
    BY <2>1, <2>2
<1> QED
  BY <1>2, <1>3

(* As many as there are, each counted as one.                              *)
LEMMA CountIsTotal ==
  ASSUME NEW S, IsFiniteSet(S), NEW one, \A x \in S : one[x] = 1
  PROVE  Cardinality(S) = Total(one, S)
<1> DEFINE size == [s \in SUBSET S |-> Cardinality(s)]
<1>1. Numbers(one, S)
  BY DEF Numbers
<1>2. ASSUME NEW s \in SUBSET S
      PROVE  /\ Cardinality(s) \in Int
             /\ \A x \in s : Cardinality(s) = 1 + Cardinality(s \ {x})
  <2>1. IsFiniteSet(s)
    BY FS_Subset
  <2>2. Cardinality(s) \in Nat
    BY <2>1, FS_CardinalityType
  <2>3. ASSUME NEW x \in s PROVE Cardinality(s) = 1 + Cardinality(s \ {x})
    <3>1. IsFiniteSet(s \ {x}) /\ Cardinality(s \ {x}) = Cardinality(s) - 1
      BY <2>1, FS_RemoveElement
    <3> QED
      BY <2>2, <3>1
  <2> QED
    BY <2>2, <2>3
<1>3. Cardinality({}) = 0
  BY FS_EmptySet
<1>4. Sums(size, one, S)
  <2>1. size \in [SUBSET S -> Int] /\ size[{}] = 0
    BY <1>2, <1>3
  <2>2. ASSUME NEW s \in SUBSET S, NEW x \in s PROVE size[s] = one[x] + size[s \ {x}]
    BY <1>2
  <2> QED
    BY <2>1, <2>2 DEF Sums
<1>5. Total(one, S) = size[S]
  <2> HIDE DEF size
  <2>1. \A s \in SUBSET S : Total(one, s) = size[s]
    BY <1>1, <1>4, TotalIsAny
  <2> QED
    BY <2>1
<1> QED
  BY <1>5

(* One more.                                                               *)
LEMMA TotalWith ==
  ASSUME NEW S, IsFiniteSet(S), NEW f, NEW x, x \notin S, Numbers(f, S \cup {x})
  PROVE  Total(f, S \cup {x}) = Total(f, S) + f[x] /\ IsFiniteSet(S \cup {x})
<1>1. IsFiniteSet(S \cup {x})
  BY FS_AddElement
<1>2. (S \cup {x}) \ {x} = S /\ x \in S \cup {x}
  OBVIOUS
<1>3. Total(f, S \cup {x}) = f[x] + Total(f, S)
  BY <1>1, <1>2, TotalWithout
<1>4. Numbers(f, S) /\ f[x] \in Int
  BY DEF Numbers
<1>5. Total(f, S) \in Int
  BY <1>4, TotalIsNumber
<1> QED
  BY <1>1, <1>3, <1>4, <1>5

(* A sequence that loses its front, where nothing counts, and whose last   *)
(* element grows or is new.                                                *)
Slides(n, d, g, amount, size, h) ==
  \/ /\ size = n - d /\ size > 0 /\ h[size] = g[n] + amount
     /\ \A i \in 1 .. size - 1 : h[i] = g[i + d]
  \/ /\ size = n - d + 1 /\ h[size] = amount
     /\ \A i \in 1 .. n - d : h[i] = g[i + d]

(* It counts what it did, and what came.                                   *)
LEMMA WindowMoves ==
  ASSUME NEW n \in Nat, NEW d \in Nat, d <= n, NEW g, Numbers(g, 1 .. n),
         \A i \in 1 .. d : g[i] = 0, NEW amount \in Int, NEW size \in Nat, NEW h,
         Slides(n, d, g, amount, size, h)
  PROVE  Total(h, 1 .. size) = Total(g, 1 .. n) + amount
<1> DEFINE e == [i \in 1 .. (n - d) |-> g[i + d]]
<1>1. /\ IsFiniteSet(1 .. n) /\ IsFiniteSet(1 .. d) /\ IsFiniteSet(1 .. (n - d))
      /\ IsFiniteSet(1 .. size)
  BY FS_Interval
<1>2. Total(g, 1 .. d) = 0
  BY <1>1, TotalOfNone
<1>3. Total(g, 1 .. n) \in Int
  BY <1>1, TotalIsNumber
<1>4. \A i \in 1 .. (n - d) : e[i] = g[i + d] /\ i + d \in 1 .. n
  OBVIOUS
<1>5. Numbers(e, 1 .. (n - d))
  BY <1>4 DEF Numbers
<1> HIDE DEF e
<1>6. Total(e, 1 .. (n - d)) = Total(g, 1 .. n)
  <2>1. Total(e, 1 .. (n - d)) = Total(g, 1 .. n) - Total(g, 1 .. d)
    BY <1>4, TotalShift
  <2> QED
    BY <1>2, <1>3, <2>1
<1>7. CASE /\ size = n - d /\ size > 0 /\ h[size] = g[n] + amount
           /\ \A i \in 1 .. size - 1 : h[i] = g[i + d]
  <2>1. size \in 1 .. (n - d) /\ h[size] = e[size] + amount
    BY <1>4, <1>7
  <2>2. \A i \in (1 .. (n - d)) \ {size} : h[i] = e[i]
    <3>1. \A i \in (1 .. (n - d)) \ {size} : i \in 1 .. size - 1
      BY <1>7
    <3> QED
      BY <1>4, <1>7, <3>1
  <2>3. Total(h, 1 .. (n - d)) = Total(e, 1 .. (n - d)) + amount
    BY <1>1, <1>5, <2>1, <2>2, TotalGrows
  <2> QED
    BY <1>6, <1>7, <2>3
<1>8. CASE /\ size = n - d + 1 /\ h[size] = amount
           /\ \A i \in 1 .. n - d : h[i] = g[i + d]
  <2>1. /\ size \in 1 .. size /\ (1 .. size) \ {size} = 1 .. (n - d)
        /\ 1 .. (n - d) \subseteq 1 .. size
    BY <1>8
  <2>2. \A i \in 1 .. (n - d) : e[i] = h[i]
    BY <1>4, <1>8
  <2>3. Total(e, 1 .. (n - d)) = Total(h, 1 .. (n - d))
    BY <1>1, <1>5, <2>2, TotalIsSame
  <2>4. Numbers(h, 1 .. size)
    BY <1>5, <1>8, <2>1, <2>2 DEF Numbers
  <2>5. Total(h, 1 .. size) = h[size] + Total(h, 1 .. (n - d))
    <3>1. Total(h, 1 .. size) = h[size] + Total(h, (1 .. size) \ {size})
      BY <1>1, <2>1, <2>4, TotalWithout, Zenon
    <3> QED
      BY <2>1, <3>1
  <2> QED
    BY <1>3, <1>6, <1>8, <2>3, <2>5
<1> QED
  BY <1>7, <1>8 DEF Slides

(* A set of positions that holds all before each of its own is an initial  *)
(* part.                                                                   *)
LEMMA InitialPart ==
  ASSUME NEW n \in Nat, NEW S \in SUBSET (1 .. n), \A i \in S : 1 .. i \subseteq S
  PROVE  Cardinality(S) \in 0 .. n /\ S = 1 .. Cardinality(S)
<1>1. CASE S = {}
  <2>1. Cardinality(S) = 0
    BY <1>1, FS_EmptySet
  <2> QED
    BY <1>1, <2>1
<1>2. CASE S # {}
  <2>1. S \subseteq Nat /\ \A i \in S : i <= n
    OBVIOUS
  <2>2. PICK d \in S : \A i \in S : i <= d
    BY <1>2, <2>1, GreatestNumber
  <2>3. S = 1 .. d /\ d \in 1 .. n
    <3>1. 1 .. d \subseteq S /\ d \in 1 .. n
      BY <2>2
    <3>2. S \subseteq 1 .. d
      BY <2>2
    <3> QED
      BY <3>1, <3>2
  <2>4. Cardinality(1 .. d) = d
    <3>1. Cardinality(1 .. d) = IF 1 > d THEN 0 ELSE d - 1 + 1
      BY <2>3, FS_Interval
    <3> QED
      BY <2>3, <3>1
  <2> QED
    BY <2>3, <2>4
<1> QED
  BY <1>1, <1>2

-----------------------------------------------------------------------------
(* Division with a remainder, and what lies between two multiples.         *)
MultipleOf(p, x) == \E k \in Nat : x = p * k

(* What the quotient and the remainder are.                                *)
LEMMA Quotients ==
  ASSUME NEW n \in Nat, NEW p \in Nat \ {0}
  PROVE  /\ n \div p \in Nat /\ n % p \in Nat /\ n % p < p
         /\ n = p * (n \div p) + (n % p)
<1>1. n \div p \in Int
  OBVIOUS
<1>2. n % p \in Nat /\ n % p < p
  OBVIOUS
<1>3. n = p * (n \div p) + (n % p)
  OBVIOUS
<1>4. n \div p >= 0
  <2>1. CASE n \div p < 0
    <3>1. p * (n \div p) <= p * (0 - 1)
      BY <1>1, <2>1
    <3> QED
      BY <1>2, <1>3, <3>1
  <2> QED
    BY <1>1, <2>1
<1> QED
  BY <1>1, <1>2, <1>3, <1>4

(* The quotient is the one whose multiple lies below.                      *)
LEMMA QuotientIs ==
  ASSUME NEW n \in Nat, NEW p \in Nat \ {0}, NEW q \in Int, p * q <= n, n < p * q + p
  PROVE  n \div p = q
OBVIOUS

(* Multiples are a whole number apart; sums and products of them are some. *)
LEMMA MultiplesApart ==
  ASSUME NEW p \in Nat \ {0}, NEW a \in Int, NEW b \in Int, p * a < p * b
  PROVE  p * a + p <= p * b
<1>1. a < b
  OBVIOUS
<1>2. a + 1 <= b
  BY <1>1
<1>3. p * (a + 1) <= p * b
  BY <1>2
<1>4. p * (a + 1) = p * a + p
  OBVIOUS
<1> QED
  BY <1>3, <1>4

(* Products of a multiple, and sums of two, are multiples.                 *)
LEMMA MultiplesCompose ==
  ASSUME NEW p \in Nat \ {0}, NEW x \in Nat, NEW y \in Nat, MultipleOf(p, x)
  PROVE  MultipleOf(p, x * y) /\ \A z : MultipleOf(p, z) => MultipleOf(p, z + x)
<1>1. PICK k \in Nat : x = p * k
  BY DEF MultipleOf
<1>2. x * y = p * (k * y) /\ k * y \in Nat
  BY <1>1
<1>3. ASSUME NEW z, MultipleOf(p, z) PROVE MultipleOf(p, z + x)
  <2>1. PICK l \in Nat : z = p * l
    BY <1>3 DEF MultipleOf
  <2>2. z + x = p * (l + k) /\ l + k \in Nat
    BY <1>1, <2>1
  <2> QED
    BY <2>2 DEF MultipleOf
<1> QED
  BY <1>2, <1>3 DEF MultipleOf

(* What leaves no remainder is a multiple.                                 *)
LEMMA NoRemainder ==
  ASSUME NEW p \in Nat \ {0}, NEW x \in Nat, x % p = 0
  PROVE  MultipleOf(p, x)
<1>1. x = p * (x \div p) /\ x \div p \in Nat
  BY Quotients
<1> QED
  BY <1>1 DEF MultipleOf

=============================================================================
