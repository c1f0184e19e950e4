--------------------------- MODULE SequenceProofs ---------------------------
(***************************************************************************)
(* Proofs about sums and sequences that the proofs of the components rest on. *)
(*                                                                         *)
(* Sums: SumFunctionOnSet of the module Functions, whose recursion takes an   *)
(* arbitrary element first, obeys the law that every element may be taken     *)
(* first.  The sort of lib/algorithm.h: for every vector of elements with a    *)
(* score, it ends with the same elements, none lost and none doubled, and the  *)
(* better ones first.  And the joining of sequences: every element of each has  *)
(* a place in the whole, in whichever order they are joined.                 *)
(*                                                                         *)
(* "The same elements" is said by a bijection between the indices.  The       *)
(* library's induction theorems take an operator as a parameter, which cannot   *)
(* be instantiated here: recursive functions are treated in two steps, a       *)
(* smallest counterexample shows that the function exists, another one what it  *)
(* computes.                                                                *)
(***************************************************************************)
EXTENDS QuickSort, FiniteSets, SequencesExt, Functions, SequenceTheorems, FunctionTheorems,
        FiniteSetTheorems, WellFoundedInduction, TLAPS

LEMMA LeastNumber ==
    ASSUME NEW S \in SUBSET Nat, S # {}
    PROVE  \E n \in S : \A m \in S : n <= m
<1>1. PICK n \in S : \A m \in S : <<m, n>> \notin OpToRel(<, Nat)
  BY NatLessThanWellFounded, WFMin
<1>2. \A m \in S : ~(m < n)
  BY <1>1 DEF OpToRel
<1> QED  BY <1>2

LEMMA FunctionIsSeq ==
    ASSUME NEW S, NEW n \in Nat, NEW f \in [1..n -> S]
    PROVE  f \in Seq(S) /\ Len(f) = n /\ DOMAIN f = 1..n
<1>1. f \in Seq(S) /\ DOMAIN f = 1..n
  BY SeqDef
<1> QED  BY <1>1

-----------------------------------------------------------------------------
(* Sums over finite sets                                                    *)

Pick(s) == CHOOSE x \in s : TRUE

\* g is the recursive function that SumFunctionOnSet(F, S) evaluates at S.
SumEq(g, F, S) ==
    g = [s \in SUBSET S |-> IF s = {} THEN 0 ELSE F[Pick(s)] + g[s \ {Pick(s)}]]

Partial(F, S) == CHOOSE g : SumEq(g, F, S)

LEMMA SumUnfolds ==
    ASSUME NEW F, NEW S
    PROVE  SumFunctionOnSet(F, S) = Partial(F, S)[S]
BY DEF SumFunctionOnSet, FoldFunctionOnSet, MapThenFoldSet, Partial, SumEq, Pick

\* Among subsets of a finite set with some property there is a smallest one.
LEMMA SmallestSet ==
    ASSUME NEW S, IsFiniteSet(S), NEW B \in SUBSET SUBSET S, B # {}
    PROVE  \E T \in B : \A V \in SUBSET T : V # T => V \notin B
<1>1. IsWellFoundedOn(StrictSubsetOrdering(S), SUBSET S)
  BY FS_StrictSubsetOrderingWellFounded, FS_FiniteSubsetsOfFinite
<1>2. PICK T \in B : \A V \in B : <<V, T>> \notin StrictSubsetOrdering(S)
  BY <1>1, WFMin
<1> QED  BY <1>2 DEF StrictSubsetOrdering

\* Two such functions agree wherever both are defined.
LEMMA SumsAgree ==
    ASSUME NEW F, NEW V, NEW W, NEW g, NEW h, SumEq(g, F, V), SumEq(h, F, W),
           NEW S, IsFiniteSet(S), S \subseteq V, S \subseteq W
    PROVE  g[S] = h[S]
<1> DEFINE B == {s \in SUBSET S : g[s] # h[s]}
<1> SUFFICES ASSUME B # {} PROVE FALSE
  OBVIOUS
<1>0. B \in SUBSET SUBSET S
  OBVIOUS
<1>1. PICK T \in B : \A U \in SUBSET T : U # T => U \notin B
  <2> HIDE DEF B
  <2> QED  BY <1>0, SmallestSet
<1>2. T \in SUBSET V /\ T \in SUBSET W /\ g[T] # h[T]
  BY <1>1
<1>3. /\ g[T] = IF T = {} THEN 0 ELSE F[Pick(T)] + g[T \ {Pick(T)}]
      /\ h[T] = IF T = {} THEN 0 ELSE F[Pick(T)] + h[T \ {Pick(T)}]
  BY <1>2 DEF SumEq
<1>4. T # {} /\ Pick(T) \in T
  BY <1>2, <1>3 DEF Pick
<1>5. T \ {Pick(T)} \in SUBSET T /\ T \ {Pick(T)} # T
  BY <1>4
<1>6. g[T \ {Pick(T)}] = h[T \ {Pick(T)}]
  BY <1>1, <1>5
<1> QED  BY <1>2, <1>3, <1>4, <1>6

\* There is such a function for every finite set.
LEMMA SumExists ==
    ASSUME NEW F, NEW S, IsFiniteSet(S)
    PROVE  SumEq(Partial(F, S), F, S)
<1> DEFINE B == {s \in SUBSET S : ~ \E g : SumEq(g, F, s)}
<1>1. B = {}
  <2> SUFFICES ASSUME B # {} PROVE FALSE
    OBVIOUS
  <2>0. B \in SUBSET SUBSET S
    OBVIOUS
  <2>1. PICK T \in B : \A U \in SUBSET T : U # T => U \notin B
    <3> HIDE DEF B
    <3> QED  BY <2>0, SmallestSet
  <2>2. \A U \in SUBSET T : U # T => SumEq(Partial(F, U), F, U)
    BY <2>1 DEF Partial
  <2> DEFINE rest(s) == s \ {Pick(s)}
             H == [s \in SUBSET T |-> IF s = {} THEN 0
                                      ELSE F[Pick(s)] + Partial(F, rest(s))[rest(s)]]
  <2>3. ASSUME NEW s \in SUBSET T, s # {}
        PROVE  rest(s) \in SUBSET T /\ rest(s) # T /\ rest(s) \in SUBSET s /\ IsFiniteSet(rest(s))
    <3>1. Pick(s) \in s
      BY <2>3 DEF Pick
    <3>2. IsFiniteSet(s)
      BY FS_Subset
    <3> QED  BY <3>1, <3>2, FS_Subset
  <2>4. ASSUME NEW v \in SUBSET T, v # T, IsFiniteSet(v)
        PROVE  H[v] = Partial(F, v)[v]
    <3>1. SumEq(Partial(F, v), F, v)
      BY <2>2, <2>4
    <3>2. Partial(F, v)[v] = IF v = {} THEN 0 ELSE F[Pick(v)] + Partial(F, v)[rest(v)]
      BY <3>1 DEF SumEq
    <3>3. CASE v = {}
      BY <3>2, <3>3
    <3>4. CASE v # {}
      <4>1. rest(v) \in SUBSET T /\ rest(v) # T /\ rest(v) \in SUBSET v /\ IsFiniteSet(rest(v))
        BY <2>3, <3>4
      <4>2. SumEq(Partial(F, rest(v)), F, rest(v))
        BY <2>2, <4>1
      <4>3. Partial(F, v)[rest(v)] = Partial(F, rest(v))[rest(v)]
        BY <3>1, <4>1, <4>2, SumsAgree
      <4> QED  BY <3>2, <3>4, <4>3
    <3> QED  BY <3>3, <3>4
  <2>5. SumEq(H, F, T)
    <3>1. \A s \in SUBSET T : s # {} => H[rest(s)] = Partial(F, rest(s))[rest(s)]
      BY <2>3, <2>4
    <3>2. H = [s \in SUBSET T |-> IF s = {} THEN 0 ELSE F[Pick(s)] + H[rest(s)]]
      BY <3>1
    <3> QED  BY <3>2 DEF SumEq
  <2> QED  BY <2>1, <2>5
<1>2. \E g : SumEq(g, F, S)
  BY <1>1
<1> QED  BY <1>2 DEF Partial

LEMMA SumStep ==
    ASSUME NEW F, NEW S, IsFiniteSet(S)
    PROVE  /\ SumFunctionOnSet(F, {}) = 0
           /\ S # {} => SumFunctionOnSet(F, S) = F[Pick(S)] + SumFunctionOnSet(F, S \ {Pick(S)})
<1>1. /\ SumEq(Partial(F, S), F, S) /\ SumEq(Partial(F, {}), F, {})
  BY SumExists, FS_EmptySet
<1>2. SumFunctionOnSet(F, {}) = 0
  BY <1>1, SumUnfolds DEF SumEq
<1>3. ASSUME S # {}
      PROVE  SumFunctionOnSet(F, S) = F[Pick(S)] + SumFunctionOnSet(F, S \ {Pick(S)})
  <2> DEFINE rest == S \ {Pick(S)}
  <2>1. IsFiniteSet(rest) /\ rest \subseteq S
    BY FS_Subset
  <2>2. SumEq(Partial(F, rest), F, rest)
    BY <2>1, SumExists
  <2>3. Partial(F, S)[rest] = Partial(F, rest)[rest]
    BY <1>1, <2>1, <2>2, SumsAgree
  <2>4. Partial(F, S)[S] = F[Pick(S)] + Partial(F, S)[rest]
    BY <1>1, <1>3 DEF SumEq
  <2> QED  BY <2>3, <2>4, SumUnfolds
<1> QED  BY <1>2, <1>3

\* A sum of natural numbers is one.
THEOREM SumIsNatural ==
    ASSUME NEW D, NEW F \in [D -> Nat], NEW S \in SUBSET D, IsFiniteSet(S)
    PROVE  SumFunctionOnSet(F, S) \in Nat
<1> DEFINE B == {s \in SUBSET S : SumFunctionOnSet(F, s) \notin Nat}
<1> SUFFICES ASSUME B # {} PROVE FALSE
  OBVIOUS
<1>0. B \in SUBSET SUBSET S
  OBVIOUS
<1>1. PICK T \in B : \A U \in SUBSET T : U # T => U \notin B
  <2> HIDE DEF B
  <2> QED  BY <1>0, SmallestSet
<1>2. IsFiniteSet(T) /\ T \subseteq S
  BY <1>1, FS_Subset
<1>3. T # {}
  <2>1. SumFunctionOnSet(F, {}) = 0 /\ SumFunctionOnSet(F, T) \notin Nat
    BY <1>1, <1>2, SumStep
  <2> QED  BY <2>1
<1>4. Pick(T) \in T /\ F[Pick(T)] \in Nat
  BY <1>2, <1>3 DEF Pick
<1>5. T \ {Pick(T)} \notin B /\ T \ {Pick(T)} \in SUBSET S
  BY <1>1, <1>2, <1>4
<1>6. SumFunctionOnSet(F, T) = F[Pick(T)] + SumFunctionOnSet(F, T \ {Pick(T)})
  BY <1>2, <1>3, SumStep
<1> QED  BY <1>1, <1>4, <1>5, <1>6

\* Any element may be taken first.
LEMMA SumRemove ==
    ASSUME NEW D, NEW F \in [D -> Nat], NEW S \in SUBSET D, IsFiniteSet(S), NEW x \in S
    PROVE  SumFunctionOnSet(F, S) = F[x] + SumFunctionOnSet(F, S \ {x})
<1> DEFINE Sum(s) == SumFunctionOnSet(F, s)
           B == {s \in SUBSET S : \E y \in s : Sum(s) # F[y] + Sum(s \ {y})}
<1> SUFFICES ASSUME B # {} PROVE FALSE
  OBVIOUS
<1>0. B \in SUBSET SUBSET S
  OBVIOUS
<1>1. PICK T \in B : \A U \in SUBSET T : U # T => U \notin B
  <2> HIDE DEF B
  <2> QED  BY <1>0, SmallestSet
<1>2. PICK y \in T : Sum(T) # F[y] + Sum(T \ {y})
  BY <1>1
<1> DEFINE c == Pick(T)
<1>3. T \in SUBSET S /\ c \in T /\ IsFiniteSet(T) /\ c # y
  <2>1. T \in SUBSET S /\ IsFiniteSet(T) /\ T # {}
    BY <1>1, FS_Subset
  <2>2. c \in T
    BY <2>1 DEF Pick
  <2>3. Sum(T) = F[c] + Sum(T \ {c})
    BY <2>1, SumStep
  <2> HIDE DEF c
  <2> QED  BY <1>2, <2>1, <2>2, <2>3
<1> HIDE DEF c
<1>4. Sum(T) = F[c] + Sum(T \ {c})
  BY <1>2, <1>3, SumStep DEF c
<1>5. Sum(T \ {c}) = F[y] + Sum((T \ {c}) \ {y})
  <2>1. T \ {c} \notin B /\ T \ {c} \in SUBSET S /\ y \in T \ {c}
    BY <1>1, <1>3
  <2> QED  BY <2>1
<1>6. Sum(T \ {y}) = F[c] + Sum((T \ {y}) \ {c})
  <2>1. T \ {y} \notin B /\ T \ {y} \in SUBSET S /\ c \in T \ {y}
    BY <1>1, <1>3
  <2> QED  BY <2>1
<1>7. (T \ {c}) \ {y} = (T \ {y}) \ {c}
  OBVIOUS
<1>8. Sum((T \ {c}) \ {y}) \in Nat
  <2>1. IsFiniteSet((T \ {c}) \ {y}) /\ (T \ {c}) \ {y} \in SUBSET D
    BY <1>3, FS_Subset
  <2> QED  BY <2>1, SumIsNatural
<1>9. F[c] \in Nat /\ F[y] \in Nat
  BY <1>3
<1>10. Sum((T \ {y}) \ {c}) = Sum((T \ {c}) \ {y})
  BY <1>7
<1> HIDE DEF Sum
<1>11. Sum(T) = F[y] + Sum(T \ {y})
  BY <1>4, <1>5, <1>6, <1>8, <1>9, <1>10
<1> QED  BY <1>2, <1>11

\* Adding a new element adds its value.
THEOREM SumGrows ==
    ASSUME NEW D, NEW F \in [D -> Nat], NEW S \in SUBSET D, IsFiniteSet(S), NEW x \in D \ S
    PROVE  SumFunctionOnSet(F, S \cup {x}) = SumFunctionOnSet(F, S) + F[x]
<1>1. IsFiniteSet(S \cup {x}) /\ (S \cup {x}) \ {x} = S
  BY FS_AddElement
<1>2. SumFunctionOnSet(F, S \cup {x}) = F[x] + SumFunctionOnSet(F, S)
  BY <1>1, SumRemove
<1> QED  BY <1>2, SumIsNatural

-----------------------------------------------------------------------------
(* Rearrangements                                                           *)

\* Permutations of 1..n that move nothing outside low..high.
Moves(n, low, high) ==
    {f \in Bijection(1..n, 1..n) : \A i \in 1..n : i \notin low..high => f[i] = i}

\* v is w with its elements in low..high in another order.
Rearranged(v, w, n, low, high) ==
    \E f \in Moves(n, low, high) : \A i \in 1..n : v[i] = w[f[i]]

LEMMA MovesInside ==
    ASSUME NEW n \in Nat, NEW low \in Int, NEW high \in Int,
           NEW f \in Moves(n, low, high), NEW i \in 1..n
    PROVE  /\ f[i] \in 1..n
           /\ i \in low..high => f[i] \in low..high
           /\ i \notin low..high => f[i] = i
<1>1. /\ f \in [1..n -> 1..n]
      /\ \A a, b \in 1..n : f[a] = f[b] => a = b
      /\ \A j \in 1..n : j \notin low..high => f[j] = j
  <2>1. f \in Bijection(1..n, 1..n) /\ \A j \in 1..n : j \notin low..high => f[j] = j
    BY DEF Moves
  <2>2. f \in Injection(1..n, 1..n)
    BY <2>1 DEF Bijection
  <2> QED  BY <2>1, <2>2 DEF Injection, IsInjective
<1>2. ASSUME i \in low..high, f[i] \notin low..high
      PROVE  FALSE
  <2>1. f[i] \in 1..n /\ f[f[i]] = f[i]
    BY <1>1, <1>2
  <2>2. f[i] = i
    BY <1>1, <2>1
  <2> QED  BY <1>2, <2>2
<1> QED  BY <1>1, <1>2

LEMMA RearrangedSelf ==
    ASSUME NEW n \in Nat, NEW low, NEW high, NEW v
    PROVE  Rearranged(v, v, n, low, high)
<1> DEFINE f == [i \in 1..n |-> i]
<1>1. f \in Bijection(1..n, 1..n)
  BY Fun_IsBij
<1>2. f \in Moves(n, low, high) /\ \A i \in 1..n : v[i] = v[f[i]]
  BY <1>1 DEF Moves
<1> QED  BY <1>2 DEF Rearranged

LEMMA RearrangedWider ==
    ASSUME NEW n \in Nat, NEW low \in Int, NEW high \in Int, NEW l \in Int, NEW h \in Int,
           low <= l, h <= high, NEW v, NEW w, Rearranged(v, w, n, l, h)
    PROVE  Rearranged(v, w, n, low, high)
<1>1. PICK f \in Moves(n, l, h) : \A i \in 1..n : v[i] = w[f[i]]
  BY DEF Rearranged
<1>2. f \in Moves(n, low, high)
  BY DEF Moves
<1> QED  BY <1>1, <1>2 DEF Rearranged

LEMMA RearrangedTwice ==
    ASSUME NEW n \in Nat, NEW low \in Int, NEW high \in Int, NEW u, NEW v, NEW w,
           Rearranged(u, v, n, low, high), Rearranged(v, w, n, low, high)
    PROVE  Rearranged(u, w, n, low, high)
<1>1. PICK f \in Moves(n, low, high) : \A i \in 1..n : u[i] = v[f[i]]
  BY DEF Rearranged
<1>2. PICK g \in Moves(n, low, high) : \A i \in 1..n : v[i] = w[g[i]]
  BY DEF Rearranged
<1> DEFINE h == [i \in 1..n |-> g[f[i]]]
<1>3. f \in Bijection(1..n, 1..n) /\ g \in Bijection(1..n, 1..n)
  BY DEF Moves
<1>4. h \in Bijection(1..n, 1..n)
  BY <1>3, Fun_BijTransitive
<1>5. \A i \in 1..n : f[i] \in 1..n /\ u[i] = w[h[i]]
  BY <1>1, <1>2, MovesInside
<1>6. \A i \in 1..n : i \notin low..high => h[i] = i
  BY DEF Moves
<1>7. h \in Moves(n, low, high)
  <2> HIDE DEF h
  <2> QED  BY <1>4, <1>6 DEF Moves
<1> QED  BY <1>5, <1>7 DEF Rearranged

LEMMA SwapRearranges ==
    ASSUME NEW n \in Nat, NEW S, NEW v \in [1..n -> S],
           NEW low \in 1..n, NEW high \in 1..n, NEW i \in low..high, NEW j \in low..high
    PROVE  /\ Swap(v, i, j) \in [1..n -> S]
           /\ Rearranged(Swap(v, i, j), v, n, low, high)
           /\ Swap(v, i, j)[i] = v[j] /\ Swap(v, i, j)[j] = v[i]
           /\ \A k \in 1..n : k # i /\ k # j => Swap(v, i, j)[k] = v[k]
<1> DEFINE f == [k \in 1..n |-> IF k = i THEN j ELSE IF k = j THEN i ELSE k]
<1>0. i \in 1..n /\ j \in 1..n
  OBVIOUS
<1>1. /\ Swap(v, i, j) \in [1..n -> S]
      /\ \A k \in 1..n : Swap(v, i, j)[k] = v[f[k]]
  BY <1>0 DEF Swap
<1>2. f \in Bijection(1..n, 1..n)
  <2>1. f \in [1..n -> 1..n] /\ \A a, b \in 1..n : f[a] = f[b] => a = b
    BY <1>0
  <2>2. \A t \in 1..n : \E s \in 1..n : f[s] = t
    <3> SUFFICES ASSUME NEW t \in 1..n PROVE f[f[t]] = t /\ f[t] \in 1..n
      OBVIOUS
    <3> QED  BY <1>0
  <2> HIDE DEF f
  <2> QED  BY <2>1, <2>2, Fun_IsBij
<1>3. f \in Moves(n, low, high)
  <2>1. \A k \in 1..n : k \notin low..high => f[k] = k
    OBVIOUS
  <2> HIDE DEF f
  <2> QED  BY <1>2, <2>1 DEF Moves
<1> QED  BY <1>0, <1>1, <1>3 DEF Rearranged

-----------------------------------------------------------------------------
(* partition                                                                *)

\* The middle of low..high, where the pivot is taken.
Middle(low, high) == low + ((high - low) \div 2)

\* g is the loop of partition before the turns from low to top.
LoopEq(g, v, low, high, top) ==
    g = [j \in low..top |-> IF j = low THEN [vec |-> Swap(v, Middle(low, high), high), store |-> low]
                            ELSE Turn(g[j - 1], j - 1, high)]

Loop(v, low, high) == CHOOSE g : LoopEq(g, v, low, high, high)

LEMMA PartitionUnfolds ==
    ASSUME NEW v, NEW low, NEW high
    PROVE  partition(v, low, high) =
             [vec |-> Swap(Loop(v, low, high)[high].vec, Loop(v, low, high)[high].store, high),
              store |-> Loop(v, low, high)[high].store]
BY DEF partition, Loop, LoopEq, Middle

LEMMA LoopExists ==
    ASSUME NEW v, NEW low \in Int, NEW high \in Int, low <= high
    PROVE  LoopEq(Loop(v, low, high), v, low, high, high)
<1> DEFINE Missing == {k \in Nat : ~ \E g : LoopEq(g, v, low, high, low + k)}
           start == [vec |-> Swap(v, Middle(low, high), high), store |-> low]
<1>1. Missing = {}
  <2> SUFFICES ASSUME Missing # {} PROVE FALSE
    OBVIOUS
  <2>1. PICK k \in Missing : \A j \in Missing : k <= j
    <3>1. Missing \in SUBSET Nat
      OBVIOUS
    <3> HIDE DEF Missing
    <3> QED  BY <3>1, LeastNumber
  <2>2. k \in Nat /\ ~ \E g : LoopEq(g, v, low, high, low + k)
    OBVIOUS
  <2>3. CASE k = 0
    <3> HIDE DEF start
    <3> DEFINE h == [j \in low..low |-> start]
    <3>1. h = [j \in low..low |-> IF j = low THEN start ELSE Turn(h[j - 1], j - 1, high)]
      OBVIOUS
    <3>2. LoopEq(h, v, low, high, low)
      BY <3>1 DEF LoopEq, start
    <3>3. low + k = low
      BY <2>3
    <3> QED  BY <2>2, <3>2, <3>3
  <2>4. CASE k # 0
    <3>1. k - 1 \in Nat /\ k - 1 \notin Missing
      BY <2>1, <2>2, <2>4
    <3> DEFINE top == low + k
    <3>2. PICK g : LoopEq(g, v, low, high, low + (k - 1))
      BY <3>1
    <3>3. top \in Int /\ top > low /\ low + (k - 1) = top - 1
      BY <2>2, <2>4
    <3> HIDE DEF top, start
    <3> DEFINE h == [j \in low..top |-> IF j = top THEN Turn(g[top - 1], top - 1, high) ELSE g[j]]
    <3>4. \A j \in low..(top - 1) : h[j] = g[j]
      BY <3>3
    <3>5. h[top] = Turn(g[top - 1], top - 1, high)
      BY <3>3
    <3>6. \A j \in low..(top - 1) : g[j] = IF j = low THEN start ELSE Turn(g[j - 1], j - 1, high)
      BY <3>2, <3>3 DEF LoopEq, start
    <3>7. h[top - 1] = g[top - 1]
      BY <3>3, <3>4
    <3>8. h = [j \in low..top |-> h[j]]
      OBVIOUS
    <3> HIDE DEF h
    <3>9. ASSUME NEW j \in low..top
          PROVE  h[j] = IF j = low THEN start ELSE Turn(h[j - 1], j - 1, high)
      <4>1. CASE j = top
        BY <3>3, <3>5, <3>7, <4>1
      <4>2. CASE j # top
        <5>1. j \in low..(top - 1)
          BY <3>3, <4>2
        <5>2. j # low => j - 1 \in low..(top - 1)
          BY <3>3, <5>1
        <5>3. h[j] = g[j] /\ (j # low => h[j - 1] = g[j - 1])
          BY <3>4, <5>1, <5>2
        <5> QED  BY <3>6, <5>1, <5>3
      <4> QED  BY <4>1, <4>2
    <3>10. h = [j \in low..top |-> IF j = low THEN start ELSE Turn(h[j - 1], j - 1, high)]
      BY <3>8, <3>9
    <3>11. LoopEq(h, v, low, high, top)
      BY <3>10 DEF LoopEq, start
    <3> QED  BY <2>2, <3>11 DEF top
  <2> QED  BY <2>3, <2>4
<1>2. high - low \in Nat /\ low + (high - low) = high
  OBVIOUS
<1>3. \E g : LoopEq(g, v, low, high, high)
  <2>1. \E g : LoopEq(g, v, low, high, low + (high - low))
    BY <1>1, <1>2
  <2> QED  BY <1>2, <2>1
<1> QED  BY <1>3 DEF Loop

\* The state before the turn of j: what is in front of store comes before the
\* pivot, what is between store and j does not.
Split(s, v, n, S, low, high, j) ==
    /\ s.vec \in [1..n -> S] /\ s.store \in low..j
    /\ Rearranged(s.vec, v, n, low, high)
    /\ \A i \in low..(s.store - 1) : Before(s.vec[i], s.vec[high])
    /\ \A i \in s.store..(j - 1) : ~Before(s.vec[i], s.vec[high])

LEMMA TurnKeepsSplit ==
    ASSUME NEW n \in Nat, NEW S, NEW low \in 1..n, NEW high \in 1..n,
           NEW v, NEW s, NEW j \in low..(high - 1), Split(s, v, n, S, low, high, j)
    PROVE  Split(Turn(s, j, high), v, n, S, low, high, j + 1)
<1>1. /\ s.vec \in [1..n -> S] /\ s.store \in low..j /\ Rearranged(s.vec, v, n, low, high)
      /\ \A i \in low..(s.store - 1) : Before(s.vec[i], s.vec[high])
      /\ \A i \in s.store..(j - 1) : ~Before(s.vec[i], s.vec[high])
  BY DEF Split
<1>2. CASE Before(s.vec[j], s.vec[high])
  <2> DEFINE k == s.store
             w == Swap(s.vec, k, j)
  <2>1. k \in low..high /\ j \in low..high /\ k \in low..j
    BY <1>1
  <2>2. /\ w \in [1..n -> S] /\ Rearranged(w, s.vec, n, low, high)
        /\ w[k] = s.vec[j] /\ w[j] = s.vec[k]
        /\ \A i \in 1..n : i # k /\ i # j => w[i] = s.vec[i]
    <3>1. s.vec \in [1..n -> S] /\ k \in low..high /\ j \in low..high
      BY <1>1, <2>1
    <3> HIDE DEF k
    <3>2. w \in [1..n -> S]
      BY <3>1, SwapRearranges
    <3>3. Rearranged(w, s.vec, n, low, high)
      BY <3>1, SwapRearranges
    <3>4. /\ w[k] = s.vec[j] /\ w[j] = s.vec[k]
          /\ \A i \in 1..n : i # k /\ i # j => w[i] = s.vec[i]
      BY <3>1 DEF Swap
    <3> QED  BY <3>2, <3>3, <3>4
  <2>3. Rearranged(w, v, n, low, high)
    BY <1>1, <2>2, RearrangedTwice
  <2>4. w[high] = s.vec[high]
    BY <2>1, <2>2
  <2>5. Turn(s, j, high) = [vec |-> w, store |-> k + 1]
    BY <1>2 DEF Turn
  <2> HIDE DEF w
  <2>6. ASSUME NEW i \in low..k PROVE Before(w[i], w[high])
    <3>1. CASE i = k
      BY <1>2, <2>2, <2>4, <3>1
    <3>2. CASE i # k
      <4>1. i \in low..(s.store - 1) /\ i # j /\ i \in 1..n
        BY <2>1, <3>2
      <4> QED  BY <1>1, <2>2, <2>4, <4>1, <3>2
    <3> QED  BY <3>1, <3>2
  <2>7. ASSUME NEW i \in (k + 1)..j PROVE ~Before(w[i], w[high])
    <3>1. CASE i = j
      <4>1. k \in s.store..(j - 1)
        BY <2>1, <3>1
      <4> QED  BY <1>1, <2>2, <2>4, <3>1, <4>1
    <3>2. CASE i # j
      <4>1. i \in s.store..(j - 1) /\ i # k /\ i \in 1..n
        BY <2>1, <3>2
      <4> QED  BY <1>1, <2>2, <2>4, <4>1, <3>2
    <3> QED  BY <3>1, <3>2
  <2>8. k + 1 \in low..(j + 1) /\ (k + 1) - 1 = k /\ (j + 1) - 1 = j
    BY <2>1
  <2>9. \A i \in low..((k + 1) - 1) : Before(w[i], w[high])
    BY <2>6, <2>8
  <2>10. \A i \in (k + 1)..((j + 1) - 1) : ~Before(w[i], w[high])
    BY <2>7, <2>8
  <2> DEFINE t == [vec |-> w, store |-> k + 1]
  <2>11. t.vec = w /\ t.store = k + 1
    OBVIOUS
  <2> HIDE DEF t
  <2>12. Split(t, v, n, S, low, high, j + 1)
    BY <2>2, <2>3, <2>8, <2>9, <2>10, <2>11 DEF Split
  <2> QED  BY <2>5, <2>12 DEF t
<1>3. CASE ~Before(s.vec[j], s.vec[high])
  <2>1. s.store \in low..(j + 1) /\ \A i \in s.store..((j + 1) - 1) : i = j \/ i \in s.store..(j - 1)
    BY <1>1
  <2> QED  BY <1>1, <1>3, <2>1 DEF Split, Turn
<1> QED  BY <1>2, <1>3

LEMMA LoopSplits ==
    ASSUME NEW n \in Nat, NEW S, NEW v \in [1..n -> S],
           NEW low \in 1..n, NEW high \in 1..n, low <= high
    PROVE  Split(Loop(v, low, high)[high], v, n, S, low, high, high)
<1> DEFINE g == Loop(v, low, high)
           start == [vec |-> Swap(v, Middle(low, high), high), store |-> low]
           Wrong == {j \in low..high : ~Split(g[j], v, n, S, low, high, j)}
<1>1. \A j \in low..high : g[j] = IF j = low THEN start ELSE Turn(g[j - 1], j - 1, high)
  <2>1. LoopEq(g, v, low, high, high)
    BY LoopExists
  <2> HIDE DEF g
  <2> QED  BY <2>1 DEF LoopEq
<1> HIDE DEF g
<1>2. Split(start, v, n, S, low, high, low)
  <2>1. Middle(low, high) \in low..high /\ high \in low..high
    BY DEF Middle
  <2> HIDE DEF start
  <2>2. start.vec = Swap(v, Middle(low, high), high) /\ start.store = low
    BY DEF start
  <2>3. Swap(v, Middle(low, high), high) \in [1..n -> S]
        /\ Rearranged(Swap(v, Middle(low, high), high), v, n, low, high)
    BY <2>1, SwapRearranges
  <2>4. low..(low - 1) = {}
    OBVIOUS
  <2> QED  BY <2>2, <2>3, <2>4 DEF Split
<1>3. Wrong = {}
  <2> SUFFICES ASSUME Wrong # {} PROVE FALSE
    OBVIOUS
  <2>1. PICK j \in Wrong : \A i \in Wrong : j <= i
    <3>1. Wrong \in SUBSET Nat
      OBVIOUS
    <3> HIDE DEF Wrong
    <3> QED  BY <3>1, LeastNumber
  <2>2. j \in low..high /\ ~Split(g[j], v, n, S, low, high, j)
    OBVIOUS
  <2>3. j # low
    BY <1>1, <1>2, <2>2
  <2>4. j - 1 \in low..(high - 1) /\ j - 1 \in low..high /\ j - 1 \notin Wrong /\ (j - 1) + 1 = j
    BY <2>1, <2>2, <2>3
  <2>5. Split(g[j - 1], v, n, S, low, high, j - 1)
    BY <2>4
  <2>6. Split(Turn(g[j - 1], j - 1, high), v, n, S, low, high, (j - 1) + 1)
    BY <2>4, <2>5, TurnKeepsSplit
  <2> QED  BY <1>1, <2>2, <2>3, <2>4, <2>6
<1>4. high \in low..high
  OBVIOUS
<1>5. Split(g[high], v, n, S, low, high, high)
  BY <1>3, <1>4
<1> QED  BY <1>5 DEF g

\* p is v with the pivot at store, and in order on both sides of it.
Parted(p, v, n, S, low, high) ==
    /\ p.vec \in [1..n -> S] /\ p.store \in low..high
    /\ Rearranged(p.vec, v, n, low, high)
    /\ \A i \in low..(p.store - 1) : Before(p.vec[i], p.vec[p.store])
    /\ \A i \in (p.store + 1)..high : ~Before(p.vec[i], p.vec[p.store])

LEMMA PartitionSplits ==
    ASSUME NEW n \in Nat, NEW S, NEW v \in [1..n -> S],
           NEW low \in 1..n, NEW high \in 1..n, low <= high
    PROVE  Parted(partition(v, low, high), v, n, S, low, high)
<1> DEFINE p == partition(v, low, high)
           s == Loop(v, low, high)[high]
           k == s.store
           w == Swap(s.vec, k, high)
<1>1. /\ s.vec \in [1..n -> S] /\ k \in low..high /\ Rearranged(s.vec, v, n, low, high)
      /\ \A i \in low..(k - 1) : Before(s.vec[i], s.vec[high])
      /\ \A i \in k..(high - 1) : ~Before(s.vec[i], s.vec[high])
  <2>1. Split(s, v, n, S, low, high, high)
    BY LoopSplits
  <2> HIDE DEF s
  <2> QED  BY <2>1 DEF Split
<1>2. p.vec = w /\ p.store = k
  BY PartitionUnfolds
<1> HIDE DEF s, p
<1>3. /\ w \in [1..n -> S] /\ Rearranged(w, s.vec, n, low, high)
      /\ w[k] = s.vec[high] /\ w[high] = s.vec[k]
      /\ \A i \in 1..n : i # k /\ i # high => w[i] = s.vec[i]
  <2>1. high \in low..high
    OBVIOUS
  <2>2. s.vec \in [1..n -> S] /\ k \in low..high
    BY <1>1
  <2> HIDE DEF k
  <2>3. w \in [1..n -> S] /\ Rearranged(w, s.vec, n, low, high)
    BY <2>1, <2>2, SwapRearranges
  <2>4. /\ w[k] = s.vec[high] /\ w[high] = s.vec[k]
        /\ \A i \in 1..n : i # k /\ i # high => w[i] = s.vec[i]
    BY <2>1, <2>2 DEF Swap
  <2> QED  BY <2>3, <2>4
<1> HIDE DEF w, k
<1>4. Rearranged(w, v, n, low, high)
  BY <1>1, <1>3, RearrangedTwice
<1>5. ASSUME NEW i \in low..(k - 1) PROVE Before(w[i], w[k])
  <2>1. i \in 1..n /\ i # k /\ i # high
    BY <1>1
  <2> QED  BY <1>1, <1>3, <2>1
<1>6. ASSUME NEW i \in (k + 1)..high PROVE ~Before(w[i], w[k])
  <2>1. CASE i = high
    <3>1. k \in k..(high - 1)
      BY <1>1, <2>1
    <3> QED  BY <1>1, <1>3, <2>1, <3>1
  <2>2. CASE i # high
    <3>1. i \in 1..n /\ i # k /\ i \in k..(high - 1)
      BY <1>1, <2>2
    <3> QED  BY <1>1, <1>3, <2>2, <3>1
  <2> QED  BY <2>1, <2>2
<1>7. Parted(p, v, n, S, low, high)
  BY <1>1, <1>2, <1>3, <1>4, <1>5, <1>6 DEF Parted
<1> QED  BY <1>7 DEF p

-----------------------------------------------------------------------------
(* quickSort                                                                *)

Calls(n, S) == [vec : [1..n -> S], low : 1..n, high : 1..n]

\* What a call c does, given what the calls on smaller ranges return.
LeftDone(g, c, p) == IF p.store > c.low THEN g[Call(p.vec, c.low, p.store - 1)] ELSE p.vec

Quick(g, c, p) ==
    IF c.low >= c.high THEN c.vec
    ELSE IF p.store < c.high THEN g[Call(LeftDone(g, c, p), p.store + 1, c.high)]
    ELSE LeftDone(g, c, p)

QuickEq(g, C) == g = [c \in C |-> Quick(g, c, partition(c.vec, c.low, c.high))]

QuickSorted(n, S) == CHOOSE g : QuickEq(g, Calls(n, S))

LEMMA SortUnfolds ==
    ASSUME NEW vec
    PROVE  sort(vec) = IF Len(vec) <= 1 THEN vec
                       ELSE QuickSorted(Len(vec), Range(vec))[Call(vec, 1, Len(vec))]
BY DEF sort, QuickSorted, QuickEq, Quick, LeftDone, Calls

\* The two calls a call makes: on vectors of the same kind and smaller ranges.
LEMMA SubCalls ==
    ASSUME NEW n \in Nat, NEW S, NEW c \in Calls(n, S), c.low < c.high,
           NEW p, p = partition(c.vec, c.low, c.high)
    PROVE  /\ p.vec \in [1..n -> S] /\ p.store \in c.low..c.high
           /\ p.store > c.low =>
                 /\ Call(p.vec, c.low, p.store - 1) \in Calls(n, S)
                 /\ (p.store - 1) - c.low < c.high - c.low
           /\ p.store < c.high =>
                 /\ \A w \in [1..n -> S] : Call(w, p.store + 1, c.high) \in Calls(n, S)
                 /\ c.high - (p.store + 1) < c.high - c.low
<1>1. c.vec \in [1..n -> S] /\ c.low \in 1..n /\ c.high \in 1..n
  BY DEF Calls
<1>2. p.vec \in [1..n -> S] /\ p.store \in c.low..c.high
  <2>1. Parted(p, c.vec, n, S, c.low, c.high)
    BY <1>1, PartitionSplits
  <2> QED  BY <2>1 DEF Parted
<1>3. ASSUME p.store > c.low
      PROVE  /\ Call(p.vec, c.low, p.store - 1) \in Calls(n, S)
             /\ (p.store - 1) - c.low < c.high - c.low
  <2>1. p.store - 1 \in 1..n
    BY <1>1, <1>2, <1>3
  <2> QED  BY <1>1, <1>2, <2>1 DEF Calls, Call
<1>4. ASSUME p.store < c.high
      PROVE  /\ \A w \in [1..n -> S] : Call(w, p.store + 1, c.high) \in Calls(n, S)
             /\ c.high - (p.store + 1) < c.high - c.low
  <2>1. p.store + 1 \in 1..n
    BY <1>1, <1>2, <1>4
  <2> QED  BY <1>1, <1>2, <2>1 DEF Calls, Call
<1> QED  BY <1>2, <1>3, <1>4

\* The calls on ranges of at most m + 1 elements.
Small(n, S, m) == {c \in Calls(n, S) : c.high - c.low <= m}

\* Two functions that agree on smaller ranges do the same.
LEMMA QuickAgrees ==
    ASSUME NEW n \in Nat, NEW S, NEW m \in Nat, NEW c \in Small(n, S, m + 1),
           NEW g \in [Small(n, S, m) -> [1..n -> S]], NEW h,
           \A d \in Small(n, S, m) : h[d] = g[d],
           NEW p, p = partition(c.vec, c.low, c.high)
    PROVE  Quick(h, c, p) = Quick(g, c, p) /\ Quick(g, c, p) \in [1..n -> S]
<1>1. c \in Calls(n, S) /\ c.vec \in [1..n -> S] /\ c.low \in Nat /\ c.high \in Nat
      /\ c.high - c.low <= m + 1
  BY DEF Small, Calls
<1>2. CASE c.low >= c.high
  BY <1>1, <1>2 DEF Quick
<1>3. CASE c.low < c.high
  <2>1. /\ p.vec \in [1..n -> S] /\ p.store \in c.low..c.high
        /\ p.store > c.low =>
              /\ Call(p.vec, c.low, p.store - 1) \in Calls(n, S)
              /\ (p.store - 1) - c.low < c.high - c.low
        /\ p.store < c.high =>
              /\ \A w \in [1..n -> S] : Call(w, p.store + 1, c.high) \in Calls(n, S)
              /\ c.high - (p.store + 1) < c.high - c.low
    BY <1>1, <1>3, SubCalls
  <2>2. p.store > c.low => Call(p.vec, c.low, p.store - 1) \in Small(n, S, m)
    BY <1>1, <2>1 DEF Small, Call
  <2>3. LeftDone(h, c, p) = LeftDone(g, c, p) /\ LeftDone(g, c, p) \in [1..n -> S]
    BY <2>1, <2>2 DEF LeftDone
  <2>4. p.store < c.high => Call(LeftDone(g, c, p), p.store + 1, c.high) \in Small(n, S, m)
    BY <1>1, <2>1, <2>3 DEF Small, Call
  <2> QED  BY <1>1, <1>3, <2>3, <2>4 DEF Quick
<1> QED  BY <1>1, <1>2, <1>3

LEMMA QuickExists ==
    ASSUME NEW n \in Nat, NEW S
    PROVE  QuickEq(QuickSorted(n, S), Calls(n, S))
<1> DEFINE Fits(g, m) == g \in [Small(n, S, m) -> [1..n -> S]] /\ QuickEq(g, Small(n, S, m))
           Missing == {m \in Nat : ~ \E g : Fits(g, m)}
<1>1. Missing = {}
  <2> SUFFICES ASSUME Missing # {} PROVE FALSE
    OBVIOUS
  <2>1. PICK k \in Missing : \A j \in Missing : k <= j
    <3>1. Missing \in SUBSET Nat
      OBVIOUS
    <3> HIDE DEF Missing
    <3> QED  BY <3>1, LeastNumber
  <2>2. k \in Nat /\ ~ \E g : Fits(g, k)
    OBVIOUS
  <2>3. CASE k = 0
    <3> DEFINE C == Small(n, S, 0)
               h == [c \in C |-> c.vec]
    <3>1. \A c \in C : c.vec \in [1..n -> S] /\ c.low >= c.high
      BY DEF Small, Calls
    <3>2. \A c \in C : Quick(h, c, partition(c.vec, c.low, c.high)) = c.vec
      BY <3>1 DEF Quick
    <3>3. h = [c \in C |-> Quick(h, c, partition(c.vec, c.low, c.high))]
      BY <3>2
    <3>4. h \in [C -> [1..n -> S]]
      BY <3>1
    <3> HIDE DEF h
    <3>5. Fits(h, 0)
      BY <3>3, <3>4 DEF QuickEq
    <3> QED  BY <2>2, <2>3, <3>5
  <2>4. CASE k # 0
    <3>1. k - 1 \in Nat /\ k - 1 \notin Missing /\ (k - 1) + 1 = k
      BY <2>1, <2>2, <2>4
    <3>2. PICK m \in Nat : k = m + 1 /\ m \notin Missing
      BY <3>1
    <3>3. PICK g : Fits(g, m)
      BY <3>2
    <3> DEFINE C == Small(n, S, m)
               D == Small(n, S, m + 1)
               h == [c \in D |-> Quick(g, c, partition(c.vec, c.low, c.high))]
    <3>4. g \in [C -> [1..n -> S]]
          /\ \A c \in C : g[c] = Quick(g, c, partition(c.vec, c.low, c.high))
      BY <3>3 DEF QuickEq
    <3>5. \A c \in C : c \in D
      BY <3>2 DEF Small, Calls
    <3>6. \A c \in C : h[c] = g[c]
      BY <3>4, <3>5
    <3>7. \A c \in D : h[c] = Quick(g, c, partition(c.vec, c.low, c.high))
      OBVIOUS
    <3>8. h = [c \in D |-> h[c]]
      OBVIOUS
    <3> HIDE DEF h
    <3>9. \A c \in D : /\ Quick(h, c, partition(c.vec, c.low, c.high))
                            = Quick(g, c, partition(c.vec, c.low, c.high))
                       /\ Quick(g, c, partition(c.vec, c.low, c.high)) \in [1..n -> S]
      BY <3>2, <3>4, <3>6, QuickAgrees
    <3>10. h = [c \in D |-> Quick(h, c, partition(c.vec, c.low, c.high))]
      BY <3>7, <3>8, <3>9
    <3>11. h \in [D -> [1..n -> S]]
      BY <3>7, <3>8, <3>9
    <3>12. Fits(h, m + 1)
      BY <3>10, <3>11 DEF QuickEq
    <3> QED  BY <2>2, <3>2, <3>12
  <2> QED  BY <2>3, <2>4
<1>2. PICK g : Fits(g, n)
  BY <1>1
<1>3. Small(n, S, n) = Calls(n, S)
  <2>1. \A c \in Calls(n, S) : c.high - c.low <= n
    BY DEF Calls
  <2> QED  BY <2>1 DEF Small
<1>4. QuickEq(g, Calls(n, S))
  BY <1>2, <1>3
<1> QED  BY <1>4 DEF QuickSorted

\* What a call returns: its range is sorted, and nothing else has moved.
Sorts(w, v, n, S, low, high) ==
    /\ w \in [1..n -> S] /\ Rearranged(w, v, n, low, high)
    /\ \A i, j \in low..high : i < j => ~Before(w[j], w[i])

\* Outside low..high nothing is changed, and there is what was there.
Keeps(w, v, n, low, high) ==
    /\ \A i \in 1..n : i \notin low..high => w[i] = v[i]
    /\ \A i \in low..high : \E k \in low..high : w[i] = v[k]

LEMMA RearrangedKeeps ==
    ASSUME NEW n \in Nat, NEW low \in 1..n, NEW high \in 1..n, NEW w, NEW v,
           Rearranged(w, v, n, low, high)
    PROVE  Keeps(w, v, n, low, high)
<1>1. PICK f \in Moves(n, low, high) : \A i \in 1..n : w[i] = v[f[i]]
  BY DEF Rearranged
<1>2. ASSUME NEW i \in 1..n, i \notin low..high PROVE w[i] = v[i]
  BY <1>1, <1>2, MovesInside
<1>3. ASSUME NEW i \in low..high PROVE \E k \in low..high : w[i] = v[k]
  <2>1. i \in 1..n
    OBVIOUS
  <2> QED  BY <1>1, <2>1, MovesInside
<1> QED  BY <1>2, <1>3 DEF Keeps

LEMMA SidesSorted ==
    ASSUME NEW n \in Nat, NEW S, \A s \in S : s.score \in Int,
           NEW low \in 1..n, NEW high \in 1..n, low < high,
           NEW v, NEW u \in [1..n -> S], NEW k \in low..high, Rearranged(u, v, n, low, high),
           \A i \in low..(k - 1) : Before(u[i], u[k]),
           \A i \in (k + 1)..high : ~Before(u[i], u[k]),
           NEW l, IF k > low THEN Sorts(l, u, n, S, low, k - 1) ELSE l = u,
           NEW r, IF k < high THEN Sorts(r, l, n, S, k + 1, high) ELSE r = l
    PROVE  Sorts(r, v, n, S, low, high)
<1>1. /\ l \in [1..n -> S] /\ Rearranged(l, u, n, low, high)
      /\ \A i \in 1..n : i \notin low..(k - 1) => l[i] = u[i]
      /\ \A i \in low..(k - 1) : Before(l[i], u[k])
      /\ \A i, j \in low..(k - 1) : i < j => ~Before(l[j], l[i])
  <2>1. CASE k > low
    <3>1. PICK h \in 1..n : h = k - 1 /\ h <= high
      BY <2>1
    <3>2. /\ l \in [1..n -> S] /\ Rearranged(l, u, n, low, h)
          /\ \A i, j \in low..h : i < j => ~Before(l[j], l[i])
      BY <2>1, <3>1 DEF Sorts
    <3>3. Rearranged(l, u, n, low, high)
      BY <3>1, <3>2, RearrangedWider
    <3>4. /\ \A i \in 1..n : i \notin low..h => l[i] = u[i]
          /\ \A i \in low..h : \E m \in low..h : l[i] = u[m]
      <4>1. Keeps(l, u, n, low, h)
        BY <3>2, RearrangedKeeps
      <4> QED  BY <4>1 DEF Keeps
    <3>5. \A m \in low..h : Before(u[m], u[k])
      BY <3>1
    <3>6. \A i \in low..h : Before(l[i], u[k])
      BY <3>4, <3>5
    <3> QED  BY <3>1, <3>2, <3>3, <3>4, <3>6
  <2>2. CASE ~(k > low)
    <3>1. l = u /\ low..(k - 1) = {}
      BY <2>2
    <3> QED  BY <3>1, RearrangedSelf
  <2> QED  BY <2>1, <2>2
<1>2. /\ r \in [1..n -> S] /\ Rearranged(r, l, n, low, high)
      /\ \A i \in 1..n : i \notin (k + 1)..high => r[i] = l[i]
      /\ \A i \in (k + 1)..high : ~Before(r[i], u[k])
      /\ \A i, j \in (k + 1)..high : i < j => ~Before(r[j], r[i])
  <2>1. CASE k < high
    <3>1. PICK h \in 1..n : h = k + 1 /\ low <= h
      BY <2>1
    <3>2. /\ r \in [1..n -> S] /\ Rearranged(r, l, n, h, high)
          /\ \A i, j \in h..high : i < j => ~Before(r[j], r[i])
      BY <2>1, <3>1 DEF Sorts
    <3>3. Rearranged(r, l, n, low, high)
      BY <3>1, <3>2, RearrangedWider
    <3>4. /\ \A i \in 1..n : i \notin h..high => r[i] = l[i]
          /\ \A i \in h..high : \E m \in h..high : r[i] = l[m]
      <4>1. Keeps(r, l, n, h, high)
        BY <3>2, RearrangedKeeps
      <4> QED  BY <4>1 DEF Keeps
    <3>5. \A m \in h..high : l[m] = u[m] /\ ~Before(u[m], u[k])
      BY <1>1, <3>1
    <3>6. \A i \in h..high : ~Before(r[i], u[k])
      BY <3>4, <3>5
    <3> QED  BY <3>1, <3>2, <3>3, <3>4, <3>6
  <2>2. CASE ~(k < high)
    <3>1. r = l /\ (k + 1)..high = {}
      BY <2>2
    <3> QED  BY <1>1, <3>1, RearrangedSelf
  <2> QED  BY <2>1, <2>2
<1>3. Rearranged(r, v, n, low, high)
  BY <1>1, <1>2, RearrangedTwice
<1>4. r[k] = u[k] /\ u[k].score \in Int
  BY <1>1, <1>2
<1>5. ASSUME NEW i \in low..(k - 1)
      PROVE  r[i] = l[i] /\ r[i].score > u[k].score /\ r[i].score \in Int
  <2>1. i \in 1..n /\ i \notin (k + 1)..high
    OBVIOUS
  <2> QED  BY <1>1, <1>2, <2>1 DEF Before
<1>6. ASSUME NEW i \in (k + 1)..high
      PROVE  r[i].score <= u[k].score /\ r[i].score \in Int
  <2>1. i \in 1..n
    OBVIOUS
  <2>2. r[i].score \in Int
    BY <1>2, <2>1
  <2> QED  BY <1>2, <1>4, <2>2 DEF Before
<1>7. ASSUME NEW i \in low..high, NEW j \in low..high, i < j
      PROVE  ~Before(r[j], r[i])
  <2>1. CASE j < k
    <3>1. i \in low..(k - 1) /\ j \in low..(k - 1)
      BY <1>7, <2>1
    <3> QED  BY <1>1, <1>5, <1>7, <3>1
  <2>2. CASE i > k
    <3>1. i \in (k + 1)..high /\ j \in (k + 1)..high
      BY <1>7, <2>2
    <3> QED  BY <1>2, <1>7, <3>1
  <2>3. CASE j = k
    <3>1. i \in low..(k - 1)
      BY <1>7, <2>3
    <3> QED  BY <1>4, <1>5, <2>3, <3>1 DEF Before
  <2>4. CASE i = k
    <3>1. j \in (k + 1)..high
      BY <1>7, <2>4
    <3> QED  BY <1>4, <1>6, <2>4, <3>1 DEF Before
  <2>5. CASE i < k /\ j > k
    <3>1. i \in low..(k - 1) /\ j \in (k + 1)..high
      BY <2>5
    <3> QED  BY <1>4, <1>5, <1>6, <3>1 DEF Before
  <2> QED  BY <1>7, <2>1, <2>2, <2>3, <2>4, <2>5
<1> QED  BY <1>2, <1>3, <1>7 DEF Sorts

\* A call sorts its range when the calls on smaller ranges do.
LEMMA QuickSorts ==
    ASSUME NEW n \in Nat, NEW S, \A s \in S : s.score \in Int,
           NEW g, NEW c \in Calls(n, S),
           \A d \in Calls(n, S) : d.high - d.low < c.high - c.low =>
               Sorts(g[d], d.vec, n, S, d.low, d.high),
           NEW p, p = partition(c.vec, c.low, c.high)
    PROVE  Sorts(Quick(g, c, p), c.vec, n, S, c.low, c.high)
<1>1. c.vec \in [1..n -> S] /\ c.low \in 1..n /\ c.high \in 1..n
  BY DEF Calls
<1>2. CASE c.low >= c.high
  <2>1. Quick(g, c, p) = c.vec
    BY <1>2 DEF Quick
  <2>2. Rearranged(c.vec, c.vec, n, c.low, c.high)
    BY RearrangedSelf
  <2>3. \A i, j \in c.low..c.high : ~(i < j)
    BY <1>1, <1>2
  <2> QED  BY <1>1, <2>1, <2>2, <2>3 DEF Sorts
<1>3. CASE c.low < c.high
  <2> DEFINE l == LeftDone(g, c, p)
             r == Quick(g, c, p)
  <2>1. Parted(p, c.vec, n, S, c.low, c.high)
    BY <1>1, <1>3, PartitionSplits
  <2>2. /\ p.vec \in [1..n -> S] /\ p.store \in c.low..c.high
        /\ Rearranged(p.vec, c.vec, n, c.low, c.high)
        /\ \A i \in c.low..(p.store - 1) : Before(p.vec[i], p.vec[p.store])
        /\ \A i \in (p.store + 1)..c.high : ~Before(p.vec[i], p.vec[p.store])
    BY <2>1 DEF Parted
  <2>3. IF p.store > c.low THEN Sorts(l, p.vec, n, S, c.low, p.store - 1) ELSE l = p.vec
    <3>1. CASE p.store > c.low
      <4>1. /\ Call(p.vec, c.low, p.store - 1) \in Calls(n, S)
            /\ (p.store - 1) - c.low < c.high - c.low
        BY <1>3, <3>1, SubCalls
      <4> QED  BY <3>1, <4>1 DEF Call, LeftDone
    <3> QED  BY <3>1 DEF LeftDone
  <2>4. l \in [1..n -> S]
    BY <2>2, <2>3 DEF Sorts
  <2>5. IF p.store < c.high THEN Sorts(r, l, n, S, p.store + 1, c.high) ELSE r = l
    <3>1. CASE p.store < c.high
      <4> HIDE DEF l
      <4>1. /\ Call(l, p.store + 1, c.high) \in Calls(n, S)
            /\ c.high - (p.store + 1) < c.high - c.low
        BY <1>3, <2>4, <3>1, SubCalls
      <4>2. r = g[Call(l, p.store + 1, c.high)]
        BY <1>1, <1>3, <3>1 DEF Quick, l
      <4> QED  BY <3>1, <4>1, <4>2 DEF Call
    <3>2. CASE ~(p.store < c.high)
      BY <1>1, <1>3, <3>2 DEF Quick
    <3> QED  BY <3>1, <3>2
  <2> HIDE DEF l, r
  <2>6. PICK u \in [1..n -> S], low \in 1..n, high \in 1..n, k \in c.low..c.high, v \in [1..n -> S] :
           u = p.vec /\ low = c.low /\ high = c.high /\ k = p.store /\ v = c.vec
    BY <1>1, <2>2
  <2>7. Sorts(r, v, n, S, low, high)
    <3>1. low < high /\ k \in low..high /\ Rearranged(u, v, n, low, high)
      BY <1>3, <2>2, <2>6
    <3>2. /\ \A i \in low..(k - 1) : Before(u[i], u[k])
          /\ \A i \in (k + 1)..high : ~Before(u[i], u[k])
      BY <2>2, <2>6
    <3>3. /\ IF k > low THEN Sorts(l, u, n, S, low, k - 1) ELSE l = u
          /\ IF k < high THEN Sorts(r, l, n, S, k + 1, high) ELSE r = l
      BY <2>3, <2>5, <2>6
    <3> QED  BY <3>1, <3>2, <3>3, SidesSorted
  <2> QED  BY <2>6, <2>7 DEF r
<1> QED  BY <1>1, <1>2, <1>3

LEMMA QuickSortedSorts ==
    ASSUME NEW n \in Nat, NEW S, \A s \in S : s.score \in Int, NEW c \in Calls(n, S)
    PROVE  Sorts(QuickSorted(n, S)[c], c.vec, n, S, c.low, c.high)
<1> DEFINE g == QuickSorted(n, S)
           Good(d) == Sorts(g[d], d.vec, n, S, d.low, d.high)
           Wrong == {k \in Nat : \E d \in Calls(n, S) : d.high - d.low < k /\ ~Good(d)}
<1>1. \A d \in Calls(n, S) : g[d] = Quick(g, d, partition(d.vec, d.low, d.high))
  <2>1. QuickEq(g, Calls(n, S))
    BY QuickExists
  <2> HIDE DEF g
  <2> QED  BY <2>1 DEF QuickEq
<1> HIDE DEF g
<1>2. Wrong = {}
  <2> SUFFICES ASSUME Wrong # {} PROVE FALSE
    OBVIOUS
  <2>1. PICK k \in Wrong : \A j \in Wrong : k <= j
    <3>1. Wrong \in SUBSET Nat
      OBVIOUS
    <3> HIDE DEF Wrong
    <3> QED  BY <3>1, LeastNumber
  <2>2. PICK d \in Calls(n, S) : d.high - d.low < k /\ ~Good(d)
    BY <2>1
  <2>3. k \in Nat /\ d.low \in Nat /\ d.high \in Nat
    BY DEF Calls
  <2> HIDE DEF Good
  <2>4. ASSUME NEW e \in Calls(n, S), e.high - e.low < d.high - d.low
        PROVE  Good(e)
    <3>0. e.low \in Nat /\ e.high \in Nat
      BY DEF Calls
    <3>1. CASE k = 0
      <4> DEFINE p == partition(e.vec, e.low, e.high)
      <4>1. e.low >= e.high
        BY <2>2, <2>3, <2>4, <3>0, <3>1
      <4>2. g[e] = e.vec /\ e.vec \in [1..n -> S]
        BY <1>1, <4>1 DEF Quick, Calls
      <4>3. \A i, j \in e.low..e.high : ~(i < j)
        BY <3>0, <4>1
      <4>4. Rearranged(e.vec, e.vec, n, e.low, e.high)
        BY RearrangedSelf
      <4> QED  BY <4>2, <4>3, <4>4 DEF Good, Sorts
    <3>2. CASE k # 0
      <4>1. k - 1 \in Nat /\ k - 1 \notin Wrong /\ e.high - e.low < k - 1
        BY <2>1, <2>2, <2>3, <2>4, <3>0, <3>2
      <4> QED  BY <4>1
    <3> QED  BY <3>1, <3>2
  <2>5. \A e \in Calls(n, S) : e.high - e.low < d.high - d.low =>
           Sorts(g[e], e.vec, n, S, e.low, e.high)
    BY <2>4 DEF Good
  <2>6. Sorts(Quick(g, d, partition(d.vec, d.low, d.high)), d.vec, n, S, d.low, d.high)
    BY <2>5, QuickSorts
  <2> QED  BY <1>1, <2>2, <2>6 DEF Good
<1>3. c.low \in 1..n /\ c.high \in 1..n /\ n + 1 \in Nat
  BY DEF Calls
<1>4. c.high - c.low < n + 1
  BY <1>3
<1>5. Good(c)
  BY <1>2, <1>3, <1>4
<1> QED  BY <1>5 DEF g

\* v has the elements of w in another order, each as often.
SameElements(v, w) ==
    /\ Len(v) = Len(w)
    /\ \E f \in Bijection(1..Len(v), 1..Len(w)) : \A i \in 1..Len(v) : v[i] = w[f[i]]

\* The same elements, and none comes before one that scores higher.
SortedFrom(v, w) ==
    SameElements(v, w) /\ \A i, j \in 1..Len(v) : i < j => v[i].score >= v[j].score

\* The sort of lib/algorithm.h loses no element of a vector, doubles none, and
\* leaves the better ones in front, whatever the vector and its length.
THEOREM SortSorts ==
    ASSUME NEW S, \A s \in S : s.score \in Int, NEW vec \in Seq(S)
    PROVE  sort(vec) \in Seq(S) /\ SortedFrom(sort(vec), vec)
<1> DEFINE n == Len(vec)
           R == Range(vec)
<1>1. n \in Nat /\ vec \in [1..n -> S]
  OBVIOUS
<1>2. R \in SUBSET S /\ vec \in [1..n -> R]
  BY <1>1 DEF Range
<1>3. \A s \in R : s.score \in Int
  BY <1>2
<1> HIDE DEF R
<1>4. sort(vec) = IF n <= 1 THEN vec ELSE QuickSorted(n, R)[Call(vec, 1, n)]
  BY SortUnfolds DEF R
<1> HIDE DEF n
<1>5. Sorts(sort(vec), vec, n, R, 1, n)
  <2>1. CASE n <= 1
    <3>1. sort(vec) = vec
      BY <1>4, <2>1
    <3>2. Rearranged(vec, vec, n, 1, n)
      BY <1>1, RearrangedSelf
    <3>3. \A i, j \in 1..n : ~(i < j)
      BY <1>1, <2>1
    <3> QED  BY <1>2, <3>1, <3>2, <3>3 DEF Sorts
  <2>2. CASE n > 1
    <3>1. Call(vec, 1, n) \in Calls(n, R)
      BY <1>1, <1>2, <2>2 DEF Call, Calls
    <3>2. Sorts(QuickSorted(n, R)[Call(vec, 1, n)], Call(vec, 1, n).vec, n, R,
                Call(vec, 1, n).low, Call(vec, 1, n).high)
      BY <1>1, <1>3, <3>1, QuickSortedSorts
    <3>3. sort(vec) = QuickSorted(n, R)[Call(vec, 1, n)]
      BY <1>1, <1>4, <2>2
    <3> QED  BY <3>2, <3>3 DEF Call
  <2> QED  BY <1>1, <2>1, <2>2
<1>6. /\ sort(vec) \in [1..n -> R] /\ Rearranged(sort(vec), vec, n, 1, n)
      /\ \A i, j \in 1..n : i < j => ~Before(sort(vec)[j], sort(vec)[i])
  BY <1>5 DEF Sorts
<1>7. \A i \in 1..n : sort(vec)[i] \in R /\ sort(vec)[i].score \in Int
  BY <1>3, <1>6
<1>8. sort(vec) \in Seq(S) /\ Len(sort(vec)) = n
  <2>1. sort(vec) \in [1..n -> S]
    BY <1>2, <1>6
  <2> QED  BY <1>1, <2>1, SeqDef
<1>9. \E f \in Bijection(1..n, 1..n) : \A i \in 1..n : sort(vec)[i] = vec[f[i]]
  BY <1>6 DEF Rearranged, Moves
<1>10. ASSUME NEW i \in 1..n, NEW j \in 1..n, i < j
       PROVE  sort(vec)[i].score >= sort(vec)[j].score
  BY <1>6, <1>7, <1>10 DEF Before
<1> QED  BY <1>8, <1>9, <1>10 DEF SortedFrom, SameElements, n

-----------------------------------------------------------------------------
(* Joined sequences                                                         *)

\* g is the recursive function of FlattenSeq, on the first m sequences.
FlatEq(g, s, m) == g = [i \in 1..m |-> IF i = 1 THEN s[i] ELSE g[i - 1] \o s[i]]

Flat(s) == CHOOSE g : FlatEq(g, s, Len(s))

LEMMA FlattenUnfolds ==
    ASSUME NEW s
    PROVE  FlattenSeq(s) = IF Len(s) = 0 THEN s ELSE Flat(s)[Len(s)]
BY DEF FlattenSeq, Flat, FlatEq

LEMMA FlatExists ==
    ASSUME NEW s, Len(s) \in Nat
    PROVE  \A i \in 1..Len(s) : Flat(s)[i] = IF i = 1 THEN s[i] ELSE Flat(s)[i - 1] \o s[i]
<1> DEFINE Missing == {m \in Nat : ~ \E g : FlatEq(g, s, m)}
<1>1. Missing = {}
  <2> SUFFICES ASSUME Missing # {} PROVE FALSE
    OBVIOUS
  <2>1. PICK k \in Missing : \A j \in Missing : k <= j
    <3>1. Missing \in SUBSET Nat
      OBVIOUS
    <3> HIDE DEF Missing
    <3> QED  BY <3>1, LeastNumber
  <2>2. k \in Nat /\ ~ \E g : FlatEq(g, s, k)
    OBVIOUS
  <2>3. CASE k = 0
    <3> DEFINE h == [i \in 1..0 |-> s]
    <3>1. h = [i \in 1..0 |-> IF i = 1 THEN s[i] ELSE h[i - 1] \o s[i]]
      OBVIOUS
    <3> HIDE DEF h
    <3> QED  BY <2>2, <2>3, <3>1 DEF FlatEq
  <2>4. CASE k # 0
    <3>1. k - 1 \in Nat /\ k - 1 \notin Missing
      BY <2>1, <2>2, <2>4
    <3>2. PICK g : FlatEq(g, s, k - 1)
      BY <3>1
    <3> DEFINE last == IF k = 1 THEN s[k] ELSE g[k - 1] \o s[k]
               h == [i \in 1..k |-> IF i = k THEN last ELSE g[i]]
    <3>3. \A i \in 1..(k - 1) : h[i] = g[i]
      BY <2>2
    <3>4. h[k] = last
      BY <2>2, <2>4
    <3>5. \A i \in 1..(k - 1) : g[i] = IF i = 1 THEN s[i] ELSE g[i - 1] \o s[i]
      BY <3>2 DEF FlatEq
    <3>6. h = [i \in 1..k |-> h[i]]
      OBVIOUS
    <3>7. k # 1 => h[k - 1] = g[k - 1]
      BY <2>2, <2>4, <3>3
    <3> HIDE DEF h
    <3>8. ASSUME NEW i \in 1..k
          PROVE  h[i] = IF i = 1 THEN s[i] ELSE h[i - 1] \o s[i]
      <4>1. CASE i = k
        BY <3>4, <3>7, <4>1
      <4>2. CASE i # k
        <5>1. i \in 1..(k - 1) /\ (i # 1 => i - 1 \in 1..(k - 1))
          BY <2>2, <4>2
        <5>2. h[i] = g[i] /\ (i # 1 => h[i - 1] = g[i - 1])
          BY <3>3, <5>1
        <5> QED  BY <3>5, <5>1, <5>2
      <4> QED  BY <4>1, <4>2
    <3>9. FlatEq(h, s, k)
      BY <3>6, <3>8 DEF FlatEq
    <3> QED  BY <2>2, <3>9
  <2> QED  BY <2>3, <2>4
<1>2. FlatEq(Flat(s), s, Len(s))
  BY <1>1 DEF Flat
<1> DEFINE g == Flat(s)
<1>3. FlatEq(g, s, Len(s))
  BY <1>2
<1> HIDE DEF g
<1>4. \A i \in 1..Len(s) : g[i] = IF i = 1 THEN s[i] ELSE g[i - 1] \o s[i]
  BY <1>3 DEF FlatEq
<1> QED  BY <1>4 DEF g

\* The places of the elements of the first m sequences.
Places(s, m) == UNION {{<<i, j>> : j \in 1..Len(s[i])} : i \in 1..m}

\* w is made of the first m sequences of s, element by element.
MadeOf(w, s, m) ==
    \E p \in Bijection(1..Len(w), Places(s, m)) :
        \A k \in 1..Len(w) : w[k] = s[p[k][1]][p[k][2]]

LEMMA JoinOne ==
    ASSUME NEW S, NEW s \in Seq(Seq(S)), NEW m \in Nat, m + 1 \in 1..Len(s),
           NEW w \in Seq(S), MadeOf(w, s, m)
    PROVE  w \o s[m + 1] \in Seq(S) /\ MadeOf(w \o s[m + 1], s, m + 1)
<1> DEFINE v == s[m + 1]
           u == w \o v
           P == Places(s, m)
           Q == Places(s, m + 1)
<1>1. v \in Seq(S) /\ Len(v) \in Nat /\ Len(w) \in Nat
  OBVIOUS
<1>2. /\ u \in Seq(S) /\ Len(u) = Len(w) + Len(v)
      /\ \A k \in 1..Len(w) : u[k] = w[k]
      /\ \A k \in (Len(w) + 1)..Len(u) : u[k] = v[k - Len(w)]
  BY <1>1
<1>3. PICK p \in Bijection(1..Len(w), P) : \A k \in 1..Len(w) : w[k] = s[p[k][1]][p[k][2]]
  BY DEF MadeOf
<1>4. /\ p \in [1..Len(w) -> P]
      /\ \A a, b \in 1..Len(w) : p[a] = p[b] => a = b
      /\ \A t \in P : \E k \in 1..Len(w) : p[k] = t
  BY <1>3 DEF Bijection, Injection, Surjection, IsInjective
<1>5. /\ \A t \in P : t \in Q /\ t[1] # m + 1
      /\ \A j \in 1..Len(v) : <<m + 1, j>> \in Q
      /\ \A t \in Q : t \in P \/ \E j \in 1..Len(v) : t = <<m + 1, j>>
  <2>1. \A t \in P : t \in Q /\ t[1] # m + 1
    BY DEF Places
  <2>2. \A j \in 1..Len(v) : <<m + 1, j>> \in Q
    BY DEF Places
  <2>3. ASSUME NEW t \in Q PROVE t \in P \/ \E j \in 1..Len(v) : t = <<m + 1, j>>
    <3>1. PICK i \in 1..(m + 1) : \E j \in 1..Len(s[i]) : t = <<i, j>>
      BY DEF Places
    <3>2. CASE i = m + 1
      BY <3>1, <3>2
    <3>3. CASE i # m + 1
      <4>1. i \in 1..m
        BY <3>3
      <4> QED  BY <3>1, <4>1 DEF Places
    <3> QED  BY <3>2, <3>3
  <2> QED  BY <2>1, <2>2, <2>3
<1> HIDE DEF u, P, Q
<1> DEFINE q == [k \in 1..Len(u) |-> IF k <= Len(w) THEN p[k] ELSE <<m + 1, k - Len(w)>>]
<1>6. /\ \A k \in 1..Len(w) : k \in 1..Len(u) /\ q[k] = p[k]
      /\ \A k \in (Len(w) + 1)..Len(u) : /\ k \in 1..Len(u) /\ k - Len(w) \in 1..Len(v)
                                         /\ q[k] = <<m + 1, k - Len(w)>>
  <2>1. PICK a \in Nat, b \in Nat : a = Len(w) /\ b = Len(v) /\ Len(u) = a + b
    BY <1>1, <1>2
  <2>2. ASSUME NEW k \in 1..a PROVE k \in 1..(a + b) /\ k <= a
    OBVIOUS
  <2>3. ASSUME NEW k \in (a + 1)..(a + b) PROVE k \in 1..(a + b) /\ k - a \in 1..b /\ ~(k <= a)
    OBVIOUS
  <2> QED  BY <2>1, <2>2, <2>3
<1>7. \A k \in 1..Len(u) : k \in 1..Len(w) \/ k \in (Len(w) + 1)..Len(u)
  BY <1>1, <1>2
<1>a. q = [k \in 1..Len(u) |-> q[k]]
  OBVIOUS
<1> HIDE DEF q
<1>b. \A k \in 1..Len(w) : q[k] \in P
  <2> SUFFICES ASSUME NEW k \in 1..Len(w) PROVE q[k] \in P
    OBVIOUS
  <2>1. p[k] \in P /\ q[k] = p[k]
    BY <1>4, <1>6
  <2> QED  BY <2>1
<1>c. \A k \in (Len(w) + 1)..Len(u) : q[k][1] = m + 1 /\ q[k] \in Q
  <2> SUFFICES ASSUME NEW k \in (Len(w) + 1)..Len(u) PROVE q[k][1] = m + 1 /\ q[k] \in Q
    OBVIOUS
  <2>1. k - Len(w) \in 1..Len(v) /\ q[k] = <<m + 1, k - Len(w)>>
    BY <1>6
  <2>2. <<m + 1, k - Len(w)>> \in Q
    BY <1>5, <2>1
  <2> QED  BY <2>1, <2>2
<1>8. q \in [1..Len(u) -> Q]
  <2>1. \A k \in 1..Len(u) : q[k] \in Q
    BY <1>5, <1>7, <1>b, <1>c
  <2> QED  BY <1>a, <2>1
<1>9. ASSUME NEW a \in 1..Len(u), NEW b \in 1..Len(u), q[a] = q[b]
      PROVE  a = b
  <2>1. CASE a \in 1..Len(w) /\ b \in 1..Len(w)
    BY <1>4, <1>6, <1>9, <2>1
  <2>2. CASE a \in 1..Len(w) /\ b \in (Len(w) + 1)..Len(u)
    <3>1. q[a] \in P /\ q[b][1] = m + 1
      BY <1>b, <1>c, <2>2
    <3> QED  BY <1>5, <1>9, <3>1
  <2>3. CASE b \in 1..Len(w) /\ a \in (Len(w) + 1)..Len(u)
    <3>1. q[b] \in P /\ q[a][1] = m + 1
      BY <1>b, <1>c, <2>3
    <3> QED  BY <1>5, <1>9, <3>1
  <2>4. CASE a \in (Len(w) + 1)..Len(u) /\ b \in (Len(w) + 1)..Len(u)
    <3>1. a - Len(w) = b - Len(w)
      BY <1>6, <1>9, <2>4
    <3> QED  BY <1>1, <3>1
  <2> QED  BY <1>7, <2>1, <2>2, <2>3, <2>4
<1>10. ASSUME NEW t \in Q PROVE \E k \in 1..Len(u) : q[k] = t
  <2>1. CASE t \in P
    BY <1>4, <1>6, <2>1
  <2>2. CASE \E j \in 1..Len(v) : t = <<m + 1, j>>
    <3>1. PICK j \in 1..Len(v) : t = <<m + 1, j>>
      BY <2>2
    <3>2. Len(w) + j \in (Len(w) + 1)..Len(u) /\ (Len(w) + j) - Len(w) = j
      BY <1>1, <1>2
    <3> QED  BY <1>6, <3>1, <3>2
  <2> QED  BY <1>5, <2>1, <2>2
<1>11. q \in Bijection(1..Len(u), Q)
  BY <1>8, <1>9, <1>10 DEF Bijection, Injection, Surjection, IsInjective
<1>12. ASSUME NEW k \in 1..Len(u) PROVE u[k] = s[q[k][1]][q[k][2]]
  <2>1. CASE k \in 1..Len(w)
    BY <1>2, <1>3, <1>6, <2>1
  <2>2. CASE k \in (Len(w) + 1)..Len(u)
    <3>1. u[k] = v[k - Len(w)] /\ q[k] = <<m + 1, k - Len(w)>>
      BY <1>2, <1>6, <2>2
    <3>2. q[k][1] = m + 1 /\ q[k][2] = k - Len(w)
      BY <3>1
    <3> QED  BY <3>1, <3>2
  <2> QED  BY <1>7, <2>1, <2>2
<1>13. MadeOf(u, s, m + 1)
  BY <1>11, <1>12 DEF MadeOf, Q
<1> QED  BY <1>2, <1>13 DEF u

LEMMA FlatMadeOf ==
    ASSUME NEW S, NEW s \in Seq(Seq(S)), NEW n \in 1..Len(s)
    PROVE  Flat(s)[n] \in Seq(S) /\ MadeOf(Flat(s)[n], s, n)
<1> DEFINE g == Flat(s)
           Good(i) == g[i] \in Seq(S) /\ MadeOf(g[i], s, i)
           Wrong == {i \in 1..Len(s) : ~Good(i)}
<1>1. Len(s) \in Nat /\ \A i \in 1..Len(s) : g[i] = IF i = 1 THEN s[i] ELSE g[i - 1] \o s[i]
  BY FlatExists
<1> HIDE DEF g
<1>2. Wrong = {}
  <2> SUFFICES ASSUME Wrong # {} PROVE FALSE
    OBVIOUS
  <2>1. PICK i \in Wrong : \A j \in Wrong : i <= j
    <3>1. Wrong \in SUBSET Nat
      OBVIOUS
    <3> HIDE DEF Wrong
    <3> QED  BY <3>1, LeastNumber
  <2>2. i \in 1..Len(s) /\ ~Good(i)
    OBVIOUS
  <2>3. CASE i = 1
    <3>1. << >> \in Seq(S) /\ Len(<< >>) = 0 /\ 0 + 1 \in 1..Len(s) /\ 0 + 1 = 1
      BY <2>2, <2>3
    <3>2. MadeOf(<< >>, s, 0)
      <4>1. Places(s, 0) = {} /\ 1..Len(<< >>) = {}
        BY DEF Places
      <4>2. [k \in {} |-> k] \in Bijection({}, {})
        BY Fun_IsBij
      <4> QED  BY <4>1, <4>2 DEF MadeOf
    <3>3. << >> \o s[0 + 1] \in Seq(S) /\ MadeOf(<< >> \o s[0 + 1], s, 0 + 1)
      BY <3>1, <3>2, JoinOne
    <3>4. << >> \o s[1] = s[1]
      <4>1. s[1] \in Seq(S)
        BY <3>1
      <4> QED  BY <4>1
    <3> QED  BY <1>1, <2>2, <2>3, <3>1, <3>3, <3>4
  <2>4. CASE i # 1
    <3>1. PICK m \in Nat : i = m + 1
      BY <1>1, <2>2
    <3>2. m \in 1..Len(s) /\ m \notin Wrong /\ i - 1 = m
      BY <1>1, <2>1, <2>2, <2>4, <3>1
    <3>3. g[m] \in Seq(S) /\ MadeOf(g[m], s, m)
      BY <3>2
    <3>4. g[m] \o s[m + 1] \in Seq(S) /\ MadeOf(g[m] \o s[m + 1], s, m + 1)
      BY <2>2, <3>1, <3>3, JoinOne
    <3> QED  BY <1>1, <2>2, <2>4, <3>1, <3>2, <3>4
  <2> QED  BY <2>3, <2>4
<1>3. Good(n)
  BY <1>2
<1> QED  BY <1>3 DEF g

\* A joined sequence has the elements of its parts, each at one place.
THEOREM JoinKeepsElements ==
    ASSUME NEW S, NEW s \in Seq(Seq(S))
    PROVE  FlattenSeq(s) \in Seq(S) /\ MadeOf(FlattenSeq(s), s, Len(s))
<1>1. CASE Len(s) = 0
  <2>1. s = << >>
    BY <1>1, EmptySeq
  <2>2. FlattenSeq(s) = << >> /\ << >> \in Seq(S) /\ Len(<< >>) = 0
    BY <1>1, <2>1, FlattenUnfolds
  <2>3. Places(s, 0) = {} /\ 1..0 = {}
    BY DEF Places
  <2>4. [k \in {} |-> k] \in Bijection({}, {})
    BY Fun_IsBij
  <2> QED  BY <1>1, <2>2, <2>3, <2>4 DEF MadeOf
<1>2. CASE Len(s) # 0
  <2>1. Len(s) \in 1..Len(s)
    BY <1>2
  <2> QED  BY <1>2, <2>1, FlatMadeOf, FlattenUnfolds
<1> QED  BY <1>1, <1>2

LEMMA Inverted ==
    ASSUME NEW S, NEW T, NEW f \in Bijection(S, T)
    PROVE  \E g \in Bijection(T, S) : \A t \in T : f[g[t]] = t
<1> DEFINE g == Inverse(f, S, T)
<1>1. g \in Bijection(T, S) /\ \A s \in S : g[f[s]] = s
  BY Fun_BijInverse
<1> HIDE DEF g
<1>2. \A t \in T : \E s \in S : f[s] = t
  BY Fun_BijectionProperties
<1>3. \A t \in T : f[g[t]] = t
  BY <1>1, <1>2
<1> QED  BY <1>1, <1>3

LEMMA IsPlace ==
    ASSUME NEW s, NEW m
    PROVE  \A x : x \in Places(s, m) <=> \E i \in 1..m : \E j \in 1..Len(s[i]) : x = <<i, j>>
BY DEF Places

\* The sequences of s in another order.
Reordered(t, s) ==
    \E o \in Bijection(1..Len(s), 1..Len(s)) : t = [i \in 1..Len(s) |-> s[o[i]]]

\* In whichever order sequences are joined, the whole has the same elements.
THEOREM JoinInAnyOrder ==
    ASSUME NEW S, NEW s \in Seq(Seq(S)), NEW t, Reordered(t, s)
    PROVE  /\ t \in Seq(Seq(S)) /\ FlattenSeq(t) \in Seq(S)
           /\ SameElements(FlattenSeq(t), FlattenSeq(s))
<1>a. PICK n : n = Len(s)
  OBVIOUS
<1>b. PICK o \in Bijection(1..n, 1..n) : t = [i \in 1..n |-> s[o[i]]]
  BY <1>a DEF Reordered
<1> DEFINE v == FlattenSeq(t)
           w == FlattenSeq(s)
<1>0. n \in Nat /\ \A i \in 1..n : s[i] \in Seq(S)
  BY <1>a
<1>1. /\ o \in [1..n -> 1..n]
      /\ \A a, b \in 1..n : o[a] = o[b] => a = b
      /\ \A i \in 1..n : \E k \in 1..n : o[k] = i
  BY DEF Bijection, Injection, Surjection, IsInjective
<1>2. t \in Seq(Seq(S)) /\ Len(t) = n /\ \A i \in 1..n : t[i] = s[o[i]]
  <2>1. t \in [1..n -> Seq(S)] /\ \A i \in 1..n : t[i] = s[o[i]]
    BY <1>0, <1>1, <1>b
  <2>2. t \in Seq(Seq(S))
    BY <1>0, <2>1, SeqDef
  <2>3. DOMAIN t = 1..n
    BY <2>1
  <2> QED  BY <1>0, <2>1, <2>2, <2>3
<1>3. v \in Seq(S) /\ MadeOf(v, t, n) /\ w \in Seq(S) /\ MadeOf(w, s, n)
  BY <1>2, <1>a, JoinKeepsElements
<1> HIDE DEF v, w
<1>4. PICK p \in Bijection(1..Len(v), Places(t, n)) :
         \A k \in 1..Len(v) : v[k] = t[p[k][1]][p[k][2]]
  BY <1>3 DEF MadeOf
<1>5. PICK q \in Bijection(1..Len(w), Places(s, n)) :
         \A k \in 1..Len(w) : w[k] = s[q[k][1]][q[k][2]]
  BY <1>3 DEF MadeOf
<1> DEFINE P == Places(t, n)
           Q == Places(s, n)
           r == [x \in P |-> <<o[x[1]], x[2]>>]
<1>6. \A x : x \in P <=> \E i \in 1..n : \E j \in 1..Len(s[o[i]]) : x = <<i, j>>
  <2>1. \A x : x \in P <=> \E i \in 1..n : \E j \in 1..Len(t[i]) : x = <<i, j>>
    BY ONLY IsPlace DEF P
  <2>2. \A i \in 1..n : Len(t[i]) = Len(s[o[i]])
    BY <1>2
  <2> HIDE DEF P
  <2> QED  BY <2>1, <2>2
<1>7. \A x : x \in Q <=> \E i \in 1..n : \E j \in 1..Len(s[i]) : x = <<i, j>>
  BY IsPlace
<1> HIDE DEF P, Q
<1>8. r \in [P -> Q]
  <2> SUFFICES ASSUME NEW x \in P PROVE <<o[x[1]], x[2]>> \in Q
    OBVIOUS
  <2>1. PICK i \in 1..n : \E j \in 1..Len(s[o[i]]) : x = <<i, j>>
    BY <1>6
  <2>2. PICK j \in 1..Len(s[o[i]]) : x = <<i, j>>
    BY <2>1
  <2> QED  BY <1>1, <1>7, <2>2
<1>9. ASSUME NEW x \in P, NEW y \in P, r[x] = r[y] PROVE x = y
  <2>0. \A z \in P : \E i \in 1..n, j \in Nat : z = <<i, j>>
    BY <1>0, <1>1, <1>6
  <2>1. PICK i \in 1..n, j \in Nat : x = <<i, j>>
    BY <2>0
  <2>2. PICK h \in 1..n, k \in Nat : y = <<h, k>>
    BY <2>0
  <2>3. <<o[i], j>> = <<o[h], k>>
    BY <1>9, <2>1, <2>2
  <2> QED  BY <1>1, <2>1, <2>2, <2>3
<1>10. ASSUME NEW y \in Q PROVE \E x \in P : r[x] = y
  <2>1. PICK i \in 1..n : \E j \in 1..Len(s[i]) : y = <<i, j>>
    BY <1>7
  <2>2. PICK j \in 1..Len(s[i]) : y = <<i, j>>
    BY <2>1
  <2>3. PICK k \in 1..n : o[k] = i
    BY <1>1
  <2>4. <<k, j>> \in P
    BY <1>6, <2>2, <2>3
  <2> QED  BY <2>2, <2>3, <2>4
<1>11. r \in Bijection(P, Q)
  <2> HIDE DEF r
  <2> QED  BY <1>8, <1>9, <1>10, Fun_IsBij
<1>r. \A i \in 1..n, j \in Nat : <<i, j>> \in P => r[<<i, j>>] = <<o[i], j>>
  OBVIOUS
<1> HIDE DEF r
<1>12. p \in Bijection(1..Len(v), P) /\ q \in Bijection(1..Len(w), Q)
  BY DEF P, Q
<1>13. PICK h \in Bijection(Q, 1..Len(w)) : \A x \in Q : q[h[x]] = x
  BY <1>12, Inverted
<1> DEFINE e == [k \in 1..Len(v) |-> r[p[k]]]
           f == [k \in 1..Len(v) |-> h[e[k]]]
<1>14. e \in Bijection(1..Len(v), Q)
  BY <1>11, <1>12, Fun_BijTransitive
<1>15. f \in Bijection(1..Len(v), 1..Len(w))
  <2>1. e \in Bijection(1..Len(v), Q) /\ h \in Bijection(Q, 1..Len(w))
    BY <1>13, <1>14
  <2> HIDE DEF e
  <2> QED  BY ONLY <2>1, Fun_BijTransitive DEF f
<1>16. Len(v) = Len(w)
  <2>1. Len(v) \in Nat /\ Len(w) \in Nat
    BY <1>3
  <2>2. ExistsBijection(1..Len(v), Q) /\ ExistsBijection(1..Len(w), Q)
    BY <1>12, <1>14 DEF ExistsBijection
  <2> QED  BY <2>1, <2>2, Fun_NatBijSame
<1>17. ASSUME NEW k \in 1..Len(v) PROVE v[k] = w[f[k]]
  <2>a. p[k] \in P
    BY <1>12, Fun_BijectionProperties
  <2>b. e[k] \in Q
    <3> HIDE DEF e
    <3> QED  BY <1>14, Fun_BijectionProperties
  <2>c. h[e[k]] \in 1..Len(w)
    <3> HIDE DEF e
    <3> QED  BY <1>13, <2>b, Fun_BijectionProperties
  <2>1. p[k] \in P /\ e[k] \in Q /\ h[e[k]] \in 1..Len(w)
    BY <2>a, <2>b, <2>c
  <2>2. PICK i \in 1..n, j \in Nat : p[k] = <<i, j>>
    <3>1. PICK i \in 1..n : \E j \in 1..Len(s[o[i]]) : p[k] = <<i, j>>
      BY <1>6, <2>1
    <3>2. 1..Len(s[o[i]]) \subseteq Nat
      BY <1>0, <1>1
    <3> QED  BY <3>1, <3>2
  <2>3. e[k] = <<o[i], j>>
    BY <1>r, <2>1, <2>2
  <2>4. w[f[k]] = s[q[h[e[k]]][1]][q[h[e[k]]][2]]
    BY <1>5, <2>1
  <2>5. q[h[e[k]]] = <<o[i], j>>
    BY <1>13, <2>1, <2>3
  <2>6. w[f[k]] = s[o[i]][j]
    BY <2>4, <2>5
  <2>7. v[k] = s[o[i]][j]
    <3>1. v[k] = t[p[k][1]][p[k][2]]
      BY <1>4
    <3>2. p[k][1] = i /\ p[k][2] = j
      BY <2>2
    <3>3. v[k] = t[i][j]
      BY <3>1, <3>2
    <3> QED  BY <1>2, <3>3
  <2> QED  BY <2>6, <2>7
<1>18. SameElements(v, w)
  <2> HIDE DEF f
  <2> QED  BY <1>15, <1>16, <1>17 DEF SameElements
<1> QED  BY <1>2, <1>3, <1>18 DEF v, w

\* The first i sequences, joined.
Joined(s, i) == IF i = 0 THEN << >> ELSE Flat(s)[i]

LEMMA JoinedStep ==
    ASSUME NEW S, NEW s \in Seq(Seq(S)), NEW i \in 0..Len(s)
    PROVE  /\ Joined(s, i) \in Seq(S)
           /\ i < Len(s) => Joined(s, i + 1) = Joined(s, i) \o s[i + 1]
<1>0. Len(s) \in Nat /\ \A k \in 1..Len(s) : s[k] \in Seq(S)
  OBVIOUS
<1>1. Joined(s, i) \in Seq(S)
  <2>1. CASE i = 0
    BY <2>1 DEF Joined
  <2>2. CASE i # 0
    <3>1. i \in 1..Len(s)
      BY <1>0, <2>2
    <3> QED  BY <2>2, <3>1, FlatMadeOf DEF Joined
  <2> QED  BY <2>1, <2>2
<1>2. ASSUME i < Len(s)
      PROVE  Joined(s, i + 1) = Joined(s, i) \o s[i + 1]
  <2>1. PICK k \in 1..Len(s) : k = i + 1 /\ k # 0 /\ k - 1 = i
    BY <1>0, <1>2
  <2>2. Flat(s)[k] = IF k = 1 THEN s[k] ELSE Flat(s)[k - 1] \o s[k]
    BY <1>0, FlatExists
  <2>3. CASE i = 0
    <3>1. s[k] = << >> \o s[k]
      <4>1. s[k] \in Seq(S)
        BY <1>0
      <4> QED  BY <4>1, ConcatEmptySeq
    <3> QED  BY <2>1, <2>2, <2>3, <3>1 DEF Joined
  <2>4. CASE i # 0
    <3>1. k # 1
      BY <2>1, <2>4
    <3>2. Flat(s)[k] = Flat(s)[i] \o s[k]
      BY <2>1, <2>2, <3>1
    <3>3. Joined(s, k) = Flat(s)[k] /\ Joined(s, i) = Flat(s)[i]
      BY <2>1, <2>4 DEF Joined
    <3> QED  BY <2>1, <3>2, <3>3
  <2> QED  BY <2>3, <2>4
<1> QED  BY <1>1, <1>2

LEMMA JoinedAll ==
    ASSUME NEW S, NEW s \in Seq(Seq(S))
    PROVE  FlattenSeq(s) = Joined(s, Len(s))
<1>1. CASE Len(s) = 0
  <2>1. s = << >>
    BY <1>1, EmptySeq
  <2> QED  BY <1>1, <2>1, FlattenUnfolds DEF Joined
<1>2. CASE Len(s) # 0
  BY <1>2, FlattenUnfolds DEF Joined
<1> QED  BY <1>1, <1>2

\* v is how w begins.
Begins(v, w) == Len(v) <= Len(w) /\ \A j \in 1..Len(v) : w[j] = v[j]

LEMMA BeginsLonger ==
    ASSUME NEW S, NEW v \in Seq(S), NEW w \in Seq(S), NEW u \in Seq(S), Begins(v, w)
    PROVE  Begins(v, w \o u)
<1>1. Len(v) \in Nat /\ Len(w) \in Nat /\ Len(u) \in Nat /\ Len(v) <= Len(w) /\ Len(w \o u) = Len(w) + Len(u)
  BY DEF Begins
<1>2. ASSUME NEW j \in 1..Len(v) PROVE (w \o u)[j] = v[j]
  <2>1. j \in 1..Len(w)
    BY <1>1
  <2>2. (w \o u)[j] = w[j]
    BY <2>1
  <2> QED  BY <2>2 DEF Begins
<1>3. Len(v) <= Len(w \o u)
  BY <1>1
<1> QED  BY <1>2, <1>3 DEF Begins

LEMMA JoinedBegins ==
    ASSUME NEW S, NEW s \in Seq(Seq(S)), NEW i \in 0..Len(s)
    PROVE  Begins(Joined(s, i), FlattenSeq(s))
<1> DEFINE n == Len(s)
           v == Joined(s, i)
           Wrong == {k \in i..n : ~Begins(v, Joined(s, k))}
<1>1. n \in Nat /\ i \in Nat /\ \A k \in 1..n : s[k] \in Seq(S)
  OBVIOUS
<1>2. v \in Seq(S) /\ Begins(v, v)
  <2>1. v \in Seq(S)
    BY JoinedStep
  <2> HIDE DEF v
  <2> QED  BY <2>1 DEF Begins
<1> HIDE DEF v, n
<1>3. Wrong = {}
  <2> SUFFICES ASSUME Wrong # {} PROVE FALSE
    OBVIOUS
  <2>1. PICK k \in Wrong : \A j \in Wrong : k <= j
    <3>1. Wrong \in SUBSET Nat
      BY <1>1
    <3> HIDE DEF Wrong
    <3> QED  BY <3>1, LeastNumber
  <2>2. k \in i..n /\ ~Begins(v, Joined(s, k))
    OBVIOUS
  <2>3. k # i
    BY <1>2, <2>2 DEF v
  <2>4. PICK h \in i..n : k = h + 1 /\ h < n /\ h \in 0..n
    BY <1>1, <2>2, <2>3
  <2>5. h \notin Wrong
    BY <1>1, <2>1, <2>4
  <2>6. Begins(v, Joined(s, h))
    BY <2>5
  <2>7. Joined(s, h) \in Seq(S) /\ Joined(s, k) = Joined(s, h) \o s[k] /\ s[k] \in Seq(S)
    BY <1>1, <2>4, JoinedStep DEF n
  <2> QED  BY <1>2, <2>2, <2>6, <2>7, BeginsLonger
<1>4. Begins(v, Joined(s, n))
  BY <1>1, <1>3 DEF n
<1> QED  BY <1>4, JoinedAll DEF v, n
=============================================================================
