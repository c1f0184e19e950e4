--------------------------- MODULE ServingProofs ----------------------------
(***************************************************************************)
(* Proofs about Serving, for any browsers, machines, hits and pool sizes: the    *)
(* service behaves as ScatterGather promises, an answer to which every machine   *)
(* gave all it had to is the best of all chunks of all machines, and the pages   *)
(* of an answer show every result once.                                      *)
(*                                                                         *)
(* In layers: scores order the pages, and handle_query and BestOf, which sort   *)
(* and cut, take the best of what they get (SortedSorts, CutOfSorted); so does    *)
(* a machine, in whichever order its chunks deliver (MachineAnswersBest); what    *)
(* a connection makes of that answer is a contribution (ReadingContributes,     *)
(* from WireProofs); the best of parts cut to size are the best of all           *)
(* (CutParts, BestOfKept); queues hold what they should once; ServingInv is        *)
(* inductive, one lemma for each action; every delivery is a Contribute and     *)
(* every gathering an Answer of ScatterGather.                               *)
(***************************************************************************)
EXTENDS Serving, WireProofs, FiniteSetTheorems

(* Scores                                                                   *)

LEMMA BetterOrder ==
    ASSUME NEW p \in LeanPage, NEW q \in LeanPage, NEW s \in LeanPage
    PROVE  /\ ~Better(p, p)
           /\ Better(p, q) /\ Better(q, s) => Better(p, s)
           /\ Better(p, q) => Better(p, s) \/ Better(s, q)
<1>1. \A x \in LeanPage : x.score[1] \in Nat /\ x.score[2] \in Nat
  <2>1. U32 \subseteq Nat
    BY SMT DEF U32
  <2> SUFFICES ASSUME NEW x \in LeanPage PROVE x.score[1] \in Nat /\ x.score[2] \in Nat
    OBVIOUS
  <2>2. PICK d \in U32 \X U32 : d = x.score
    BY PageParts
  <2> QED  BY <2>1, <2>2
<1>2. PICK a \in Nat, b \in Nat, c \in Nat, d \in Nat, e \in Nat, f \in Nat :
         /\ a = p.score[1] /\ b = p.score[2] /\ c = q.score[1] /\ d = q.score[2]
         /\ e = s.score[1] /\ f = s.score[2]
  BY <1>1
<1> QED  BY <1>2 DEF Better

-----------------------------------------------------------------------------
(* What a machine finds                                                     *)

\* No page comes before a better one.
Ordered(v) == \A i, j \in 1..Len(v) : i < j => ~Better(v[j], v[i])

LEMMA SortedSorts ==
    ASSUME NEW v \in Seq(LeanPage)
    PROVE  Sorted(v) \in Seq(LeanPage) /\ SameElements(Sorted(v), v) /\ Ordered(Sorted(v))
<1> DEFINE n == Len(v)
           below(p) == {i \in 1..n : Better(p, v[i])}
           S == [score : Nat, page : LeanPage]
           vec == [i \in 1..n |-> [score |-> Cardinality(below(v[i])), page |-> v[i]]]
           order == sort(vec)
<1>1. n \in Nat /\ DOMAIN v = 1..n /\ \A i \in 1..n : v[i] \in LeanPage
  OBVIOUS
<1>2. Sorted(v) = [i \in DOMAIN order |-> order[i].page]
  BY <1>1 DEF Sorted
<1>3. \A p : IsFiniteSet(below(p)) /\ Cardinality(below(p)) \in Nat
  <2> SUFFICES ASSUME NEW p PROVE IsFiniteSet(below(p)) /\ Cardinality(below(p)) \in Nat
    OBVIOUS
  <2>1. IsFiniteSet(1..n) /\ below(p) \in SUBSET (1..n)
    BY <1>1, FS_Interval
  <2> HIDE DEF below
  <2> QED  BY <2>1, FS_Subset, FS_CardinalityType
<1>4. vec \in Seq(S) /\ Len(vec) = n /\ \A s \in S : s.score \in Int
  <2>1. vec \in [1..n -> S]
    BY <1>1, <1>3
  <2>2. \A s \in S : s.score \in Int
    OBVIOUS
  <2> HIDE DEF vec, S, n
  <2> QED  BY <1>1, <2>1, <2>2, FunctionIsSeq
<1>5. \A i \in 1..n : vec[i].page = v[i] /\ vec[i].score = Cardinality(below(v[i]))
  OBVIOUS
<1> HIDE DEF vec
<1>6. order \in Seq(S) /\ SortedFrom(order, vec)
  BY <1>4, SortSorts
<1> HIDE DEF order
<1>7. PICK f \in Bijection(1..Len(order), 1..Len(vec)) : \A i \in 1..Len(order) : order[i] = vec[f[i]]
  BY <1>6 DEF SortedFrom, SameElements
<1>8. Len(order) = n /\ DOMAIN order = 1..n
  BY <1>4, <1>6 DEF SortedFrom, SameElements
<1>9. f \in Bijection(1..n, 1..n) /\ \A i \in 1..n : f[i] \in 1..n /\ order[i] = vec[f[i]]
  <2>1. f \in Bijection(1..n, 1..n)
    BY <1>4, <1>7, <1>8
  <2>2. f \in [1..n -> 1..n]
    BY <2>1, Fun_BijectionProperties
  <2> QED  BY <1>7, <1>8, <2>1, <2>2
<1> DEFINE w == [i \in 1..n |-> order[i].page]
<1>10. Sorted(v) = w
  BY <1>2, <1>8
<1>11. \A i \in 1..n : w[i] = v[f[i]] /\ order[i].score = Cardinality(below(w[i]))
  <2> SUFFICES ASSUME NEW i \in 1..n
               PROVE  w[i] = v[f[i]] /\ order[i].score = Cardinality(below(w[i]))
    OBVIOUS
  <2>1. PICK k \in 1..n : k = f[i] /\ order[i] = vec[k]
    BY <1>9
  <2>2. w[i] = order[i].page
    OBVIOUS
  <2> HIDE DEF w, below
  <2> QED  BY <1>5, <2>1, <2>2
<1>12. w \in Seq(LeanPage) /\ Len(w) = n
  <2>1. w \in [1..n -> LeanPage]
    BY <1>1, <1>9, <1>11
  <2> HIDE DEF w, n
  <2> QED  BY <1>1, <2>1, FunctionIsSeq
<1> HIDE DEF w
<1>13. SameElements(w, v)
  BY <1>9, <1>11, <1>12 DEF SameElements
<1>14. ASSUME NEW i \in 1..n, NEW j \in 1..n, i < j, Better(w[j], w[i]) PROVE FALSE
  <2>1. PICK p \in LeanPage, q \in LeanPage, k \in 1..n : p = w[i] /\ q = w[j] /\ k = f[i] /\ v[k] = p
    BY <1>1, <1>9, <1>11
  <2>2. below(p) \in SUBSET below(q)
    BY <1>1, <1>14, <2>1, BetterOrder
  <2>3. k \in below(q) /\ k \notin below(p)
    BY <1>14, <2>1, BetterOrder
  <2>4. IsFiniteSet(below(q)) /\ Cardinality(below(q)) \in Nat /\ Cardinality(below(p)) \in Nat
    BY <1>3
  <2> HIDE DEF below
  <2>5. Cardinality(below(p)) <= Cardinality(below(q)) /\ Cardinality(below(q)) # Cardinality(below(p))
    BY <2>2, <2>3, <2>4, FS_Subset
  <2>6. order[i].score >= order[j].score
    BY <1>6, <1>8, <1>14 DEF SortedFrom
  <2>7. Cardinality(below(p)) >= Cardinality(below(q))
    BY <1>11, <2>1, <2>6
  <2> QED  BY <2>4, <2>5, <2>7
<1>15. Ordered(w)
  BY <1>12, <1>14 DEF Ordered
<1> QED  BY <1>10, <1>12, <1>13, <1>15

\* taken has its elements from places of pages, better ones from none other.
TakenFrom(taken, pages, place) ==
    \A i \in DOMAIN taken :
       /\ taken[i] = pages[place[i]]
       /\ \A k \in DOMAIN pages \ Range(place) : ~Better(pages[k], taken[i])

LEMMA BestMeans ==
    ASSUME NEW taken \in Seq(LeanPage), NEW pages \in Seq(LeanPage), NEW n
    PROVE  SG!IsBestOf(taken, pages, n) <=>
              /\ Len(taken) = (IF Len(pages) < n THEN Len(pages) ELSE n)
              /\ Ordered(taken)
              /\ \E place \in Injection(1..Len(taken), 1..Len(pages)) : TakenFrom(taken, pages, place)
<1>1. DOMAIN taken = 1..Len(taken) /\ DOMAIN pages = 1..Len(pages)
  OBVIOUS
<1>2. SG!IsBestOf(taken, pages, n) <=>
         /\ Len(taken) = (IF Len(pages) < n THEN Len(pages) ELSE n)
         /\ \A i, j \in DOMAIN taken : i < j => ~Better(taken[j], taken[i])
         /\ \E place \in Injection(DOMAIN taken, DOMAIN pages) : TakenFrom(taken, pages, place)
  BY DEF SG!IsBestOf, SG!Injection, Injection, SG!Range, Range, SG!IsInjective, IsInjective, TakenFrom
<1> QED  BY <1>1, <1>2 DEF Ordered

LEMMA BestOfOrdered ==
    ASSUME NEW x \in Seq(LeanPage), NEW w \in Seq(LeanPage), Ordered(x), SameElements(x, w),
           NEW n \in Nat, NEW k \in 0..Len(w), k = (IF Len(w) < n THEN Len(w) ELSE n),
           NEW taken \in Seq(LeanPage), FirstOnes(taken, x, k)
    PROVE  SG!IsBestOf(taken, w, n)
<1>1. PICK len \in Nat : len = Len(w) /\ len = Len(x) /\ k \in 0..len
  BY DEF SameElements
<1>2. Len(taken) = k /\ \A i \in 1..k : i \in 1..len /\ taken[i] = x[i]
  BY <1>1 DEF FirstOnes
<1>3. PICK f \in Bijection(1..len, 1..len) : \A i \in 1..len : x[i] = w[f[i]]
  BY <1>1 DEF SameElements
<1>4. /\ \A i \in 1..len : f[i] \in 1..len
      /\ \A i, j \in 1..len : f[i] = f[j] => i = j
      /\ \A t \in 1..len : \E i \in 1..len : f[i] = t
  BY <1>3 DEF Bijection, Injection, Surjection, IsInjective
<1> DEFINE place == [i \in 1..k |-> f[i]]
<1>5. place \in [1..k -> 1..len] /\ \A i \in 1..k : place[i] = f[i]
  BY <1>2, <1>4
<1> HIDE DEF place
<1>6. place \in Injection(1..k, 1..len)
  <2>1. \A i, j \in 1..k : place[i] = place[j] => i = j
    BY <1>2, <1>4, <1>5
  <2> QED  BY <1>5, <2>1, Fun_IsInj
<1>7. Ordered(taken)
  <2>1. ASSUME NEW i \in 1..k, NEW j \in 1..k, i < j PROVE ~Better(taken[j], taken[i])
    <3>1. i \in 1..len /\ j \in 1..len /\ taken[i] = x[i] /\ taken[j] = x[j]
      BY <1>2
    <3>2. \A a, b \in 1..len : a < b => ~Better(x[b], x[a])
      BY <1>1 DEF Ordered
    <3> QED  BY <2>1, <3>1, <3>2
  <2> QED  BY <1>2, <2>1 DEF Ordered
<1>8. TakenFrom(taken, w, place)
  <2>1. DOMAIN taken = 1..k /\ DOMAIN w = 1..len
    <3>1. DOMAIN taken = 1..Len(taken) /\ DOMAIN w = 1..Len(w)
      OBVIOUS
    <3> QED  BY <1>1, <1>2, <3>1
  <2>2. ASSUME NEW i \in 1..k PROVE taken[i] = w[place[i]]
    BY <1>2, <1>3, <1>5
  <2>3. ASSUME NEW i \in 1..k, NEW t \in (1..len) \ Range(place) PROVE ~Better(w[t], taken[i])
    <3>1. PICK j \in 1..len : f[j] = t
      BY <1>4
    <3>2. j \notin 1..k
      <4>1. DOMAIN place = 1..k
        BY <1>5
      <4> QED  BY <1>5, <2>3, <3>1, <4>1 DEF Range
    <3>3. i < j /\ i \in 1..len
      BY <1>2, <3>2
    <3>4. ~Better(x[j], x[i])
      BY <1>1, <3>3 DEF Ordered
    <3> QED  BY <1>2, <1>3, <3>1, <3>4
  <2> QED  BY <2>1, <2>2, <2>3 DEF TakenFrom
<1> QED  BY <1>1, <1>2, <1>6, <1>7, <1>8, BestMeans

LEMMA SameElementsTwice ==
    ASSUME NEW S, NEW u \in Seq(S), NEW v \in Seq(S), NEW w \in Seq(S), SameElements(u, v), SameElements(v, w)
    PROVE  SameElements(u, w)
<1>1. PICK n \in Nat : n = Len(u) /\ n = Len(v) /\ n = Len(w)
  BY DEF SameElements
<1>2. PICK f \in Bijection(1..n, 1..n) : \A i \in 1..n : u[i] = v[f[i]]
  BY <1>1 DEF SameElements
<1>3. PICK g \in Bijection(1..n, 1..n) : \A i \in 1..n : v[i] = w[g[i]]
  BY <1>1 DEF SameElements
<1> DEFINE h == [i \in 1..n |-> g[f[i]]]
<1>4. h \in Bijection(1..n, 1..n)
  <2>1. PICK I : I = 1..n
    OBVIOUS
  <2>2. f \in Bijection(I, I) /\ g \in Bijection(I, I)
    BY <1>2, <1>3, <2>1
  <2>3. [i \in I |-> g[f[i]]] \in Bijection(I, I)
    BY <2>2, Fun_BijTransitive
  <2> QED  BY <2>1, <2>3
<1>5. \A i \in 1..n : u[i] = w[h[i]]
  <2>1. \A i \in 1..n : f[i] \in 1..n
    BY <1>2 DEF Bijection, Injection
  <2> QED  BY <1>2, <1>3, <2>1
<1> HIDE DEF h
<1> QED  BY <1>1, <1>4, <1>5 DEF SameElements

LEMMA CutIs ==
    ASSUME NEW S, NEW v \in Seq(S), NEW n \in Nat
    PROVE  /\ Cut(v, n) \in Seq(S)
           /\ \E k \in 0..Len(v) : k = (IF Len(v) < n THEN Len(v) ELSE n) /\ FirstOnes(Cut(v, n), v, k)
<1>1. PICK len \in Nat : len = Len(v)
  OBVIOUS
<1>2. PICK k \in 0..len : k = IF len < n THEN len ELSE n
  OBVIOUS
<1>3. Min({n, len}) = k
  BY <1>2 DEF Min
<1>4. Cut(v, n) = SubSeq(v, 1, k)
  BY <1>1, <1>3 DEF Cut
<1>5. \E a \in Seq(S) : FirstOnes(a, v, k)
  BY <1>1, PrefixIs
<1>6. Cut(v, n) \in Seq(S) /\ FirstOnes(Cut(v, n), v, k)
  BY <1>4, <1>5 DEF FirstOnes
<1> QED  BY <1>1, <1>2, <1>6

\* Sorted and cut, pages are the best of whatever has the same elements.
LEMMA CutOfSorted ==
    ASSUME NEW v \in Seq(LeanPage), NEW w \in Seq(LeanPage), SameElements(v, w), NEW n \in Nat
    PROVE  /\ Cut(Sorted(v), n) \in Seq(LeanPage)
           /\ Len(Cut(Sorted(v), n)) <= n
           /\ SG!IsBestOf(Cut(Sorted(v), n), w, n)
           /\ \A k \in 0..Len(Cut(Sorted(v), n)) : SG!IsBestOf(SubSeq(Cut(Sorted(v), n), 1, k), w, k)
<1>1. PICK x \in Seq(LeanPage) : x = Sorted(v) /\ SameElements(x, v) /\ Ordered(x)
  BY SortedSorts
<1>2. SameElements(x, w)
  BY <1>1, SameElementsTwice
<1>3. PICK len \in Nat : len = Len(x) /\ len = Len(w)
  BY <1>2 DEF SameElements
<1>4. PICK c \in Seq(LeanPage), m \in 0..len :
         c = Cut(x, n) /\ m = (IF len < n THEN len ELSE n) /\ FirstOnes(c, x, m)
  <2>1. /\ Cut(x, n) \in Seq(LeanPage)
        /\ \E k \in 0..Len(x) : k = (IF Len(x) < n THEN Len(x) ELSE n) /\ FirstOnes(Cut(x, n), x, k)
    BY CutIs
  <2> QED  BY <1>3, <2>1
<1>5. SG!IsBestOf(c, w, n)
  BY <1>1, <1>2, <1>3, <1>4, BestOfOrdered
<1>6. Len(c) = m /\ m <= n /\ m \in Nat
  BY <1>4 DEF FirstOnes
<1>7. ASSUME NEW k \in 0..Len(c) PROVE SG!IsBestOf(SubSeq(c, 1, k), w, k)
  <2>1. k \in Nat /\ k <= m /\ k \in 0..len
    BY <1>6
  <2>2. PICK a \in Seq(LeanPage) : FirstOnes(a, c, k)
    BY PrefixIs
  <2>3. PICK b \in Seq(LeanPage) : FirstOnes(b, x, k)
    BY <1>3, <2>1, PrefixIs
  <2>4. a = b
    <3>1. Len(a) = k /\ Len(b) = k /\ \A j \in 1..k : a[j] = c[j] /\ b[j] = x[j] /\ c[j] = x[j]
      BY <1>4, <1>6, <2>1, <2>2, <2>3 DEF FirstOnes
    <3> QED  BY <3>1, SeqEqual
  <2>5. k = IF len < k THEN len ELSE k
    BY <2>1
  <2>6. SG!IsBestOf(a, w, k)
    BY <1>1, <1>2, <1>3, <2>1, <2>3, <2>4, <2>5, BestOfOrdered
  <2> QED  BY <2>2, <2>6 DEF FirstOnes
<1> QED  BY <1>1, <1>4, <1>5, <1>6, <1>7

-----------------------------------------------------------------------------
(* What a machine answers                                                   *)

LEMMA HitsAre ==
    ASSUME NEW m \in Machines, NEW term \in Understood
    PROVE  Hits[m][term] \in Seq(Seq(LeanPage)) /\ AllHits(m, term) \in Seq(LeanPage)
<1>1. Hits[m][term] \in Seq(Seq(LeanPage))
  BY HitsAssumption
<1> QED  BY <1>1, JoinKeepsElements DEF AllHits

LEMMA OrderIsBijection ==
    ASSUME NEW n \in Nat, NEW o \in SetToSeqs(1..n)
    PROVE  o \in Bijection(1..n, 1..n)
<1>1. IsFiniteSet(1..n) /\ Cardinality(1..n) = n
  BY FS_Interval
<1>2. o \in [1..n -> 1..n] /\ \A i, j \in 1..n : i # j => o[i] # o[j]
  BY <1>1 DEF SetToSeqs
<1>3. o \in Injection(1..n, 1..n)
  BY <1>2, Fun_IsInj
<1>4. o \in Surjection(1..n, 1..n)
  BY <1>1, <1>3, FS_Injection
<1> QED  BY <1>3, <1>4 DEF Bijection

\* The best of w, RANKED_ON_EACH of them, and every first part the best so many.
Best(pages, w) ==
    /\ pages \in Seq(LeanPage) /\ Len(pages) <= RANKED_ON_EACH
    /\ SG!IsBestOf(pages, w, RANKED_ON_EACH)
    /\ \A k \in 0..Len(pages) : SG!IsBestOf(SubSeq(pages, 1, k), w, k)

LEMMA Bounds == RANKED_ON_EACH \in Nat /\ NUM_RESULTS_RETURN \in Nat /\ 0..RANKED_ON_EACH \subseteq U32
<1>1. \A k \in U32 : k \in Nat /\ 0..k \subseteq U32
  BY SMT DEF U32
<1>2. RANKED_ON_EACH \in U32 /\ NUM_RESULTS_RETURN \in 0..RANKED_ON_EACH
  BY ServingAssumption
<1> HIDE DEF U32
<1> QED  BY <1>1, <1>2

(* handle_query: in whichever order its chunks deliver, a machine answers with  *)
(* the best pages of all its chunks (index_manager.h:119).                    *)
THEOREM MachineAnswersBest ==
    ASSUME NEW m \in Machines, NEW term \in Understood, NEW pages \in handle_query[m][term]
    PROVE  Best(pages, AllHits(m, term))
<1>1. PICK s \in Seq(Seq(LeanPage)) : s = Hits[m][term] /\ FlattenSeq(s) \in Seq(LeanPage)
  BY HitsAre DEF AllHits
<1>2. PICK n \in Nat : n = Len(s) /\ DOMAIN s = 1..n
  OBVIOUS
<1>3. PICK o \in SetToSeqs(1..n) :
         pages = Cut(Sorted(FlattenSeq([ i \in DOMAIN o |-> s[o[i]] ])), RANKED_ON_EACH)
  BY <1>1, <1>2 DEF handle_query, Orders
<1>4. o \in Bijection(1..n, 1..n)
  BY OrderIsBijection
<1>5. DOMAIN o = 1..n
  BY <1>4 DEF Bijection, Injection
<1>6. PICK t : t = [i \in 1..n |-> s[o[i]]]
  OBVIOUS
<1>7. FlattenSeq(t) \in Seq(LeanPage) /\ SameElements(FlattenSeq(t), FlattenSeq(s))
  <2>1. Reordered(t, s)
    BY <1>2, <1>4, <1>6 DEF Reordered
  <2> QED  BY <2>1, JoinInAnyOrder
<1>8. PICK v \in Seq(LeanPage), w \in Seq(LeanPage) : v = FlattenSeq(t) /\ w = FlattenSeq(s) /\ SameElements(v, w)
  BY <1>1, <1>7
<1>9. pages = Cut(Sorted(v), RANKED_ON_EACH) /\ AllHits(m, term) = w
  BY <1>1, <1>3, <1>5, <1>6, <1>8 DEF AllHits
<1> QED  BY <1>8, <1>9, Bounds, CutOfSorted DEF Best

LEMMA MayMeans ==
    ASSUME NEW q, NEW m, NEW bad, NEW pages
    PROVE  SG!MayContribute(q, m, bad, pages) <=>
              \/ pages = << >>
              \/ SG!IsBestOf(pages, HitsFor(q, m), RANKED_ON_EACH)
              \/ m # Self /\ \E n \in 0..RANKED_ON_EACH : SG!IsBestOf(pages, HitsFor(q, m), n)
              \/ bad /\ Len(pages) <= RANKED_ON_EACH
BY DEF SG!MayContribute

(* Where reads may time out.                                                 *)
LEMMA PausesFacts == ASSUME NEW n \in Nat, NEW b \in Pauses(n) PROVE b \in SUBSET Nat
<1>1. CASE b = {}
  BY <1>1
<1>2. CASE b # {}
  <2>1. PICK at \in [ 1..MaxPauses -> 0..(n - 1) ] : b = Range(at)
    BY <1>2 DEF Pauses
  <2>2. \A x \in b : x \in 0..(n - 1)
    BY <2>1 DEF Range
  <2> QED  BY <2>2
<1> QED  BY <1>1, <1>2

(* What reading an answer yields is a contribution: its first pages when the    *)
(* connection broke, and no more pages than it has when a read timed out.      *)
LEMMA ReadingContributes ==
    ASSUME NEW q, HandleClient[q].term \in Understood, NEW m \in Machines, m # Self,
           NEW pages \in handle_query[m][HandleClient[q].term],
           NEW died \in BOOLEAN, NEW paused \in BOOLEAN, NEW got \in Readings[<<pages, died, paused>>]
    PROVE  got \in Seq(LeanPage) /\ SG!MayContribute(q, m, paused, got)
<1>1. PICK term \in Understood : term = HandleClient[q].term /\ pages \in handle_query[m][term]
  OBVIOUS
<1>2. Best(pages, HitsFor(q, m))
  BY <1>1, MachineAnswersBest DEF HitsFor
<1>3. PICK p \in Seq(LeanPage) :
         /\ p = pages /\ Len(p) \in 0..RANKED_ON_EACH /\ Len(p) \in U32
         /\ \A k \in 0..Len(p) : SG!IsBestOf(SubSeq(p, 1, k), HitsFor(q, m), k)
  <2>1. pages \in Seq(LeanPage) /\ Len(pages) <= RANKED_ON_EACH
        /\ \A k \in 0..Len(pages) : SG!IsBestOf(SubSeq(pages, 1, k), HitsFor(q, m), k)
    BY <1>2 DEF Best
  <2>2. Len(pages) \in 0..RANKED_ON_EACH
    BY <2>1, Bounds
  <2> QED  BY <2>1, <2>2, Bounds
<1> DEFINE all == Len(send_query_response(p))
<1>4. PICK n \in 0..all, pauses \in SUBSET Nat : /\ got = Received(p, n, pauses)
                                                 /\ ~paused => pauses = {}
  <2>1. pages \in Answers
    BY <1>1 DEF Answers
  <2>2. Readings[<<pages, died, paused>>] =
           { Received(p, n, b) : n \in IF died THEN 0..all ELSE { all },
                                 b \in IF paused THEN Pauses(all) ELSE { {} } }
    BY <1>3, <2>1 DEF Readings
  <2>3. all \in Nat
    BY <1>3, AnswerBytes
  <2> HIDE DEF all
  <2>4. PICK n \in IF died THEN 0..all ELSE { all },
             b \in IF paused THEN Pauses(all) ELSE { {} } : got = Received(p, n, b)
    BY <2>2
  <2>5. n \in 0..all
    BY <2>3
  <2>6. b \in SUBSET Nat /\ (~paused => b = {})
    BY <2>3, <2>4, PausesFacts
  <2> QED  BY <2>4, <2>5, <2>6
<1>5. got = recv_query_data(Opened(SubSeq(send_query_response(p), 1, n), pauses))
  BY <1>4 DEF Received
<1>6. CASE paused
  <2>1. got \in Seq(LeanPage) /\ Len(got) <= Len(p)
    BY <1>3, <1>4, <1>5, AnyAnswerIsBounded
  <2>2. Len(got) <= RANKED_ON_EACH
    BY <1>3, <2>1, Bounds
  <2> QED  BY <1>6, <2>1, <2>2, MayMeans
<1>7. CASE ~paused
  <2>1. PICK k \in 0..Len(p) : got = SubSeq(p, 1, k)
    <3>1. got = recv_query_data(Opened(SubSeq(send_query_response(p), 1, n), {}))
      BY <1>4, <1>5, <1>7
    <3>2. \E k \in 0..Len(p) :
             recv_query_data(Opened(SubSeq(send_query_response(p), 1, n), {})) = SubSeq(p, 1, k)
      BY <1>3, <1>4, CutAnswerIsPrefix
    <3> QED  BY <3>1, <3>2
  <2>2. PICK a \in Seq(LeanPage) : a = SubSeq(p, 1, k)
    BY PrefixIs DEF FirstOnes
  <2>3. k \in 0..RANKED_ON_EACH
    BY <1>3, Bounds
  <2>4. SG!IsBestOf(got, HitsFor(q, m), k)
    BY <1>3, <2>1
  <2> QED  BY <2>1, <2>2, <2>3, <2>4, MayMeans
<1> QED  BY <1>6, <1>7

-----------------------------------------------------------------------------
(* Two cuts                                                                 *)

\* Where the elements of the joined s are in w, and back.
Laid(w, s, n, at, pos) ==
    /\ at \in [1..Len(w) -> Places(s, n)] /\ pos \in [Places(s, n) -> 1..Len(w)]
    /\ \A j \in 1..Len(w) : pos[at[j]] = j
    /\ \A x \in Places(s, n) : at[pos[x]] = x /\ w[pos[x]] = s[x[1]][x[2]]

LEMMA LaidOut ==
    ASSUME NEW w, NEW s, NEW n, MadeOf(w, s, n)
    PROVE  \E at, pos : Laid(w, s, n, at, pos)
<1>1. PICK at \in Bijection(1..Len(w), Places(s, n)) : \A k \in 1..Len(w) : w[k] = s[at[k][1]][at[k][2]]
  BY DEF MadeOf
<1>2. PICK pos \in Bijection(Places(s, n), 1..Len(w)) : \A x \in Places(s, n) : at[pos[x]] = x
  BY <1>1, Inverted
<1>3. /\ at \in [1..Len(w) -> Places(s, n)] /\ \A i, j \in 1..Len(w) : at[i] = at[j] => i = j
  BY <1>1 DEF Bijection, Injection, IsInjective
<1>4. pos \in [Places(s, n) -> 1..Len(w)]
  BY <1>2 DEF Bijection, Injection
<1>5. ASSUME NEW j \in 1..Len(w) PROVE pos[at[j]] = j
  <2>1. at[j] \in Places(s, n) /\ pos[at[j]] \in 1..Len(w)
    BY <1>3, <1>4
  <2>2. at[pos[at[j]]] = at[j]
    BY <1>2, <2>1
  <2> QED  BY <1>3, <2>1, <2>2
<1>6. ASSUME NEW x \in Places(s, n) PROVE at[pos[x]] = x /\ w[pos[x]] = s[x[1]][x[2]]
  <2>1. pos[x] \in 1..Len(w) /\ at[pos[x]] = x
    BY <1>2, <1>4
  <2> QED  BY <1>1, <2>1
<1> QED  BY <1>3, <1>4, <1>5, <1>6 DEF Laid

\* Of all, at least each ones are in w that it beats none of.
Beaten(x, w, each) ==
    \E y \in Injection(1..each, 1..Len(w)) : \A b \in 1..each : ~Better(x, w[y[b]])

\* w has its elements from places of all; what is left out is beaten each times.
Kept(w, all, each) ==
    \E sh \in Injection(1..Len(w), 1..Len(all)) :
       /\ \A j \in 1..Len(w) : all[sh[j]] = w[j]
       /\ \A k \in (1..Len(all)) \ Range(sh) : Beaten(all[k], w, each)

\* The cuts of the machines: with the best each ones of every part, joined.
LEMMA CutParts ==
    ASSUME NEW n \in Nat, NEW P \in [1..n -> Seq(LeanPage)], NEW H \in [1..n -> Seq(LeanPage)],
           NEW each \in Nat, \A a \in 1..n : SG!IsBestOf(P[a], H[a], each),
           NEW w \in Seq(LeanPage), NEW all \in Seq(LeanPage), MadeOf(w, P, n), MadeOf(all, H, n)
    PROVE  Kept(w, all, each)
<1> DEFINE Fits(a, e) == e \in Injection(1..Len(P[a]), 1..Len(H[a])) /\ TakenFrom(P[a], H[a], e)
           e == [a \in 1..n |-> CHOOSE f : Fits(a, f)]
<1>1. \A a \in 1..n : Fits(a, e[a])
  <2> SUFFICES ASSUME NEW a \in 1..n PROVE \E f : Fits(a, f)
    OBVIOUS
  <2>1. P[a] \in Seq(LeanPage) /\ H[a] \in Seq(LeanPage) /\ SG!IsBestOf(P[a], H[a], each)
    OBVIOUS
  <2> QED  BY <2>1, BestMeans
<1>2. ASSUME NEW a \in 1..n
      PROVE  /\ P[a] \in Seq(LeanPage) /\ Len(P[a]) \in Nat /\ Len(H[a]) \in Nat
             /\ Len(P[a]) = IF Len(H[a]) < each THEN Len(H[a]) ELSE each
  <2>1. P[a] \in Seq(LeanPage) /\ H[a] \in Seq(LeanPage) /\ SG!IsBestOf(P[a], H[a], each)
    OBVIOUS
  <2> QED  BY <2>1, BestMeans
<1> HIDE DEF e
<1>3. ASSUME NEW a \in 1..n
      PROVE  /\ e[a] \in [1..Len(P[a]) -> 1..Len(H[a])]
             /\ \A b, c \in 1..Len(P[a]) : e[a][b] = e[a][c] => b = c
             /\ \A b \in 1..Len(P[a]) : P[a][b] = H[a][e[a][b]]
             /\ \A c \in 1..Len(H[a]), b \in 1..Len(P[a]) :
                   (\A d \in 1..Len(P[a]) : e[a][d] # c) => ~Better(H[a][c], P[a][b])
  <2>1. e[a] \in Injection(1..Len(P[a]), 1..Len(H[a])) /\ TakenFrom(P[a], H[a], e[a])
    BY <1>1
  <2>2. /\ e[a] \in [1..Len(P[a]) -> 1..Len(H[a])]
        /\ \A b, c \in 1..Len(P[a]) : e[a][b] = e[a][c] => b = c
    BY <2>1 DEF Injection, IsInjective
  <2>3. DOMAIN P[a] = 1..Len(P[a]) /\ DOMAIN H[a] = 1..Len(H[a])
    OBVIOUS
  <2>4. \A b \in 1..Len(P[a]) : P[a][b] = H[a][e[a][b]]
    BY <2>1, <2>3 DEF TakenFrom
  <2>5. ASSUME NEW c \in 1..Len(H[a]), NEW b \in 1..Len(P[a]), \A d \in 1..Len(P[a]) : e[a][d] # c
        PROVE  ~Better(H[a][c], P[a][b])
    <3>1. c \notin Range(e[a])
      BY <2>2, <2>5 DEF Range
    <3> QED  BY <2>1, <2>3, <3>1 DEF TakenFrom
  <2> QED  BY <2>2, <2>4, <2>5
<1>4. PICK atW, posW : Laid(w, P, n, atW, posW)
  BY LaidOut
<1>5. PICK atA, posA : Laid(all, H, n, atA, posA)
  BY LaidOut
<1>6. ASSUME NEW j \in 1..Len(w)
      PROVE  \E a \in 1..n : \E b \in 1..Len(P[a]) : atW[j] = <<a, b>> /\ w[j] = P[a][b]
  <2>1. PICK x \in Places(P, n) : x = atW[j] /\ j = posW[x] /\ w[posW[x]] = P[x[1]][x[2]]
    BY <1>4 DEF Laid
  <2>2. \E a \in 1..n : \E b \in 1..Len(P[a]) : x = <<a, b>>
    BY IsPlace
  <2>3. PICK a \in 1..n : \E b \in 1..Len(P[a]) : x = <<a, b>>
    BY <2>2
  <2>4. PICK b \in 1..Len(P[a]) : x = <<a, b>>
    BY <2>3
  <2>5. x[1] = a /\ x[2] = b
    BY <2>4
  <2> QED  BY <2>1, <2>4, <2>5
<1>7. ASSUME NEW a \in 1..n, NEW c \in 1..Len(H[a])
      PROVE  /\ posA[<<a, c>>] \in 1..Len(all) /\ atA[posA[<<a, c>>]] = <<a, c>>
             /\ all[posA[<<a, c>>]] = H[a][c]
  <2>0. PICK x : x = <<a, c>>
    OBVIOUS
  <2>1. x = <<a, c>> /\ x[1] = a /\ x[2] = c
    BY <2>0
  <2>2. x \in Places(H, n)
    BY <2>0, IsPlace
  <2> QED  BY <1>5, <2>1, <2>2 DEF Laid
<1>8. ASSUME NEW a \in 1..n, NEW b \in 1..Len(P[a])
      PROVE  /\ posW[<<a, b>>] \in 1..Len(w) /\ atW[posW[<<a, b>>]] = <<a, b>>
             /\ w[posW[<<a, b>>]] = P[a][b]
  <2>0. PICK x : x = <<a, b>>
    OBVIOUS
  <2>1. x = <<a, b>> /\ x[1] = a /\ x[2] = b
    BY <2>0
  <2>2. x \in Places(P, n)
    BY <2>0, IsPlace
  <2> QED  BY <1>4, <2>1, <2>2 DEF Laid
<1> DEFINE sh == [j \in 1..Len(w) |-> posA[<<atW[j][1], e[atW[j][1]][atW[j][2]]>>]]
<1>9. ASSUME NEW j \in 1..Len(w), NEW a \in 1..n, NEW b \in 1..Len(P[a]), atW[j] = <<a, b>>
      PROVE  e[a][b] \in 1..Len(H[a]) /\ sh[j] = posA[<<a, e[a][b]>>]
  <2>1. sh[j] = posA[<<atW[j][1], e[atW[j][1]][atW[j][2]]>>]
    OBVIOUS
  <2>2. atW[j][1] = a /\ atW[j][2] = b
    BY <1>9
  <2> HIDE DEF sh
  <2>3. sh[j] = posA[<<a, e[a][b]>>]
    BY <2>1, <2>2
  <2> QED  BY <1>3, <2>3
<1>10. \A j \in 1..Len(w) : sh[j] \in 1..Len(all) /\ all[sh[j]] = w[j]
  <2> SUFFICES ASSUME NEW j \in 1..Len(w) PROVE sh[j] \in 1..Len(all) /\ all[sh[j]] = w[j]
    OBVIOUS
  <2>1. PICK a \in 1..n : \E b \in 1..Len(P[a]) : atW[j] = <<a, b>> /\ w[j] = P[a][b]
    BY <1>6
  <2>2. PICK b \in 1..Len(P[a]) : atW[j] = <<a, b>> /\ w[j] = P[a][b]
    BY <2>1
  <2>3. e[a][b] \in 1..Len(H[a]) /\ sh[j] = posA[<<a, e[a][b]>>]
    BY <1>9, <2>2
  <2>4. P[a][b] = H[a][e[a][b]]
    BY <1>3
  <2> HIDE DEF sh
  <2> QED  BY <1>7, <2>2, <2>3, <2>4
<1>11. sh \in [1..Len(w) -> 1..Len(all)]
  BY <1>10
<1>12. ASSUME NEW i \in 1..Len(w), NEW j \in 1..Len(w), sh[i] = sh[j] PROVE i = j
  <2>1. PICK a \in 1..n : \E b \in 1..Len(P[a]) : atW[i] = <<a, b>>
    BY <1>6
  <2>2. PICK b \in 1..Len(P[a]) : atW[i] = <<a, b>>
    BY <2>1
  <2>3. PICK c \in 1..n : \E d \in 1..Len(P[c]) : atW[j] = <<c, d>>
    BY <1>6
  <2>4. PICK d \in 1..Len(P[c]) : atW[j] = <<c, d>>
    BY <2>3
  <2>5. /\ e[a][b] \in 1..Len(H[a]) /\ sh[i] = posA[<<a, e[a][b]>>]
        /\ e[c][d] \in 1..Len(H[c]) /\ sh[j] = posA[<<c, e[c][d]>>]
    BY <1>9, <2>2, <2>4
  <2>6. <<a, e[a][b]>> = <<c, e[c][d]>>
    <3>1. atA[posA[<<a, e[a][b]>>]] = <<a, e[a][b]>>
      BY <1>7, <2>5
    <3>2. atA[posA[<<c, e[c][d]>>]] = <<c, e[c][d]>>
      BY <1>7, <2>5
    <3> HIDE DEF sh
    <3> QED  BY <1>12, <2>5, <3>1, <3>2
  <2>7. a = c /\ b = d
    BY <1>3, <2>6
  <2> QED  BY <1>4, <2>2, <2>4, <2>7 DEF Laid
<1>13. ASSUME NEW k \in (1..Len(all)) \ Range(sh) PROVE Beaten(all[k], w, each)
  <2>1. atA[k] \in Places(H, n) /\ posA[atA[k]] = k
    BY <1>5 DEF Laid
  <2>2. PICK a \in 1..n : \E c \in 1..Len(H[a]) : atA[k] = <<a, c>>
    <3>1. PICK x \in Places(H, n) : x = atA[k]
      BY <2>1
    <3>2. \E a \in 1..n : \E c \in 1..Len(H[a]) : x = <<a, c>>
      BY IsPlace
    <3> QED  BY <3>1, <3>2
  <2>3. PICK c \in 1..Len(H[a]) : atA[k] = <<a, c>>
    BY <2>2
  <2>4. posA[<<a, c>>] = k /\ all[k] = H[a][c]
    BY <1>7, <2>1, <2>3
  <2>5. \A d \in 1..Len(P[a]) : e[a][d] # c
    <3> SUFFICES ASSUME NEW d \in 1..Len(P[a]), e[a][d] = c PROVE FALSE
      OBVIOUS
    <3>1. PICK j : j = posW[<<a, d>>] /\ j \in 1..Len(w) /\ atW[j] = <<a, d>>
      BY <1>8
    <3>2. sh[j] = posA[<<a, c>>]
      BY <1>9, <3>1
    <3> HIDE DEF sh
    <3>3. DOMAIN sh = 1..Len(w)
      BY <1>11
    <3> QED  BY <1>13, <2>4, <3>1, <3>2, <3>3 DEF Range
  <2>6. Len(P[a]) = each
    <3>1. CASE Len(H[a]) < each
      <4>1. Len(P[a]) = Len(H[a]) /\ Len(P[a]) \in Nat
        BY <1>2, <3>1
      <4>2. PICK m \in Nat : m = Len(P[a]) /\ m = Len(H[a])
        BY <4>1
      <4>3. e[a] \in Injection(1..m, 1..m)
        BY <1>1, <4>2
      <4>4. IsFiniteSet(1..m) /\ Cardinality(1..m) = m
        BY FS_Interval
      <4>5. e[a] \in Surjection(1..m, 1..m)
        BY <4>3, <4>4, FS_Injection
      <4> QED  BY <2>5, <4>2, <4>5 DEF Surjection
    <3>2. CASE ~(Len(H[a]) < each)
      BY <1>2, <3>2
    <3> QED  BY <3>1, <3>2
  <2> DEFINE y == [b \in 1..each |-> posW[<<a, b>>]]
  <2>7. \A b \in 1..each : y[b] \in 1..Len(w) /\ atW[y[b]] = <<a, b>> /\ w[y[b]] = P[a][b]
    BY <1>8, <2>6
  <2>8. y \in [1..each -> 1..Len(w)]
    BY <2>7
  <2> HIDE DEF y, sh
  <2>9. \A b, d \in 1..each : y[b] = y[d] => b = d
    <3> SUFFICES ASSUME NEW b \in 1..each, NEW d \in 1..each, y[b] = y[d] PROVE b = d
      OBVIOUS
    <3>1. <<a, b>> = <<a, d>>
      BY <2>7
    <3> QED  BY <3>1
  <2>10. y \in Injection(1..each, 1..Len(w))
    BY <2>8, <2>9, Fun_IsInj
  <2>11. \A b \in 1..each : ~Better(all[k], w[y[b]])
    <3> SUFFICES ASSUME NEW b \in 1..each PROVE ~Better(all[k], w[y[b]])
      OBVIOUS
    <3>1. ~Better(H[a][c], P[a][b])
      BY <1>3, <2>5, <2>6
    <3> QED  BY <2>4, <2>7, <3>1
  <2> QED  BY <2>10, <2>11 DEF Beaten
<1> HIDE DEF sh
<1>14. sh \in Injection(1..Len(w), 1..Len(all))
  BY <1>11, <1>12, Fun_IsInj
<1> QED  BY <1>10, <1>13, <1>14 DEF Kept

\* What beats one of the best ones of w can not be beaten by more than there are.
LEMMA NoneBeaten ==
    ASSUME NEW w \in Seq(LeanPage), NEW each \in Nat, NEW limit \in 0..each,
           NEW taken \in Seq(LeanPage), Len(taken) <= limit,
           NEW at \in Injection(1..Len(taken), 1..Len(w)), TakenFrom(taken, w, at),
           NEW i \in 1..Len(taken), NEW x \in LeanPage, Better(x, taken[i]), Beaten(x, w, each)
    PROVE  FALSE
<1>1. PICK y \in Injection(1..each, 1..Len(w)) : \A b \in 1..each : ~Better(x, w[y[b]])
  BY DEF Beaten
<1>2. PICK len \in Nat, m \in Nat : len = Len(taken) /\ m = each + 1
  OBVIOUS
<1>3. /\ DOMAIN taken = 1..len /\ DOMAIN w = 1..Len(w)
      /\ at \in [1..len -> 1..Len(w)] /\ \A b, c \in 1..len : at[b] = at[c] => b = c
      /\ y \in [1..each -> 1..Len(w)] /\ \A b, c \in 1..each : y[b] = y[c] => b = c
      /\ \A j \in 1..Len(w) : w[j] \in LeanPage
  BY <1>1, <1>2 DEF Injection, IsInjective
<1>4. ASSUME NEW b \in 1..each PROVE \E j \in 1..len : j # i /\ at[j] = y[b]
  <2>1. PICK k \in 1..Len(w) : k = y[b] /\ w[k] \in LeanPage
    BY <1>3
  <2>2. ~Better(x, w[k])
    BY <1>1, <2>1
  <2>3. taken[i] \in LeanPage
    OBVIOUS
  <2>4. Better(w[k], taken[i])
    BY <2>1, <2>2, <2>3, BetterOrder
  <2>5. k \in Range(at)
    BY <1>2, <1>3, <2>4 DEF TakenFrom
  <2>6. PICK j \in 1..len : at[j] = k
    BY <1>3, <2>5 DEF Range
  <2>7. taken[j] = w[k]
    BY <1>3, <2>6 DEF TakenFrom
  <2>8. ~Better(taken[i], taken[i])
    BY <2>3, BetterOrder
  <2> QED  BY <2>1, <2>4, <2>6, <2>7, <2>8
<1> DEFINE z == [b \in 1..m |-> IF b = m THEN i ELSE CHOOSE j \in 1..len : j # i /\ at[j] = y[b]]
<1>5. z[m] = i /\ \A b \in 1..each : z[b] \in 1..len /\ z[b] # i /\ at[z[b]] = y[b]
  <2>1. z[m] = i
    BY <1>2
  <2>2. ASSUME NEW b \in 1..each PROVE z[b] \in 1..len /\ z[b] # i /\ at[z[b]] = y[b]
    <3>1. b \in 1..m /\ b # m
      BY <1>2
    <3>2. z[b] = CHOOSE j \in 1..len : j # i /\ at[j] = y[b]
      BY <3>1
    <3> HIDE DEF z
    <3> QED  BY <1>4, <3>2
  <2> QED  BY <2>1, <2>2
<1>6. DOMAIN z = 1..m /\ z = [b \in 1..m |-> z[b]]
  OBVIOUS
<1> HIDE DEF z
<1>7. \A b \in 1..m : b = m \/ b \in 1..each
  BY <1>2
<1>8. z \in [1..m -> 1..len]
  BY <1>2, <1>5, <1>6, <1>7
<1>9. \A b, c \in 1..m : z[b] = z[c] => b = c
  <2> SUFFICES ASSUME NEW b \in 1..m, NEW c \in 1..m, z[b] = z[c] PROVE b = c
    OBVIOUS
  <2>1. CASE b = m
    BY <1>5, <1>7, <2>1
  <2>2. CASE c = m
    BY <1>5, <1>7, <2>2
  <2>3. CASE b \in 1..each /\ c \in 1..each
    BY <1>3, <1>5, <2>3
  <2> QED  BY <1>7, <2>1, <2>2, <2>3
<1>10. z \in Injection(1..m, 1..len)
  BY <1>8, <1>9, Fun_IsInj
<1>11. m <= len
  BY <1>10, Fun_NatInjLeq DEF ExistsInjection
<1> QED  BY <1>2, <1>11

\* The best of the kept ones are the best of all, when no more are wanted.
LEMMA BestOfKept ==
    ASSUME NEW w \in Seq(LeanPage), NEW all \in Seq(LeanPage), NEW each \in Nat, NEW limit \in 0..each,
           Kept(w, all, each), NEW taken \in Seq(LeanPage), SG!IsBestOf(taken, w, limit)
    PROVE  SG!IsBestOf(taken, all, limit)
<1>1. PICK sh \in Injection(1..Len(w), 1..Len(all)) :
         /\ \A j \in 1..Len(w) : all[sh[j]] = w[j]
         /\ \A k \in (1..Len(all)) \ Range(sh) : Beaten(all[k], w, each)
  BY DEF Kept
<1>2. /\ Len(taken) = (IF Len(w) < limit THEN Len(w) ELSE limit)
      /\ Ordered(taken)
      /\ \E place \in Injection(1..Len(taken), 1..Len(w)) : TakenFrom(taken, w, place)
  BY BestMeans
<1>3. PICK at \in Injection(1..Len(taken), 1..Len(w)) : TakenFrom(taken, w, at)
  BY <1>2
<1>4. PICK n \in Nat, kept \in Nat, len \in Nat : n = Len(all) /\ kept = Len(w) /\ len = Len(taken)
  OBVIOUS
<1>5. kept <= n
  <2>1. sh \in Injection(1..kept, 1..n)
    BY <1>1, <1>4
  <2> QED  BY <2>1, Fun_NatInjLeq DEF ExistsInjection
<1>6. n = kept \/ each <= kept
  <2>1. CASE \E k \in 1..n : k \notin Range(sh)
    <3>1. PICK k \in 1..n : k \notin Range(sh)
      BY <2>1
    <3>2. Beaten(all[k], w, each)
      BY <1>1, <1>4, <3>1
    <3>3. \E y : y \in Injection(1..each, 1..kept)
      BY <1>4, <3>2 DEF Beaten
    <3> QED  BY <3>3, Fun_NatInjLeq DEF ExistsInjection
  <2>2. CASE \A k \in 1..n : k \in Range(sh)
    <3>1. sh \in Injection(1..kept, 1..n) /\ DOMAIN sh = 1..kept
      BY <1>1, <1>4 DEF Injection
    <3>2. sh \in Bijection(1..kept, 1..n)
      BY <2>2, <3>1 DEF Bijection, Injection, Surjection, Range
    <3>3. \E y : y \in Bijection(1..n, 1..kept)
      BY <3>2, Inverted
    <3>4. \E y : y \in Injection(1..n, 1..kept)
      BY <3>3 DEF Bijection
    <3>5. n <= kept
      BY <3>4, Fun_NatInjLeq DEF ExistsInjection
    <3> QED  BY <1>5, <3>5
  <2> QED  BY <2>1, <2>2
<1>7. len = (IF n < limit THEN n ELSE limit) /\ len <= limit
  <2>1. len = IF kept < limit THEN kept ELSE limit
    BY <1>2, <1>4
  <2> QED  BY <1>5, <1>6, <2>1
<1>8. /\ sh \in [1..kept -> 1..n] /\ \A b, c \in 1..kept : sh[b] = sh[c] => b = c
      /\ at \in [1..len -> 1..kept] /\ \A b, c \in 1..len : at[b] = at[c] => b = c
      /\ DOMAIN taken = 1..len /\ DOMAIN w = 1..kept /\ DOMAIN all = 1..n
  BY <1>1, <1>3, <1>4 DEF Injection, IsInjective
<1> DEFINE place == [i \in 1..len |-> sh[at[i]]]
<1>9. place \in [1..len -> 1..n] /\ DOMAIN place = 1..len /\ \A i \in 1..len : place[i] = sh[at[i]]
  BY <1>8
<1> HIDE DEF place
<1>10. place \in Injection(1..len, 1..n)
  <2>1. \A b, c \in 1..len : place[b] = place[c] => b = c
    BY <1>8, <1>9
  <2> QED  BY <1>9, <2>1, Fun_IsInj
<1>11. ASSUME NEW i \in 1..len PROVE taken[i] = all[place[i]]
  <2>1. taken[i] = w[at[i]] /\ at[i] \in 1..kept
    BY <1>3, <1>8 DEF TakenFrom
  <2> QED  BY <1>1, <1>4, <1>9, <2>1
<1>12. ASSUME NEW i \in 1..len, NEW k \in (1..n) \ Range(place), Better(all[k], taken[i]) PROVE FALSE
  <2>1. CASE k \in Range(sh)
    <3>1. PICK j \in 1..kept : sh[j] = k
      BY <1>8, <2>1 DEF Range
    <3>2. j \notin Range(at)
      <4> SUFFICES ASSUME NEW b \in 1..len, at[b] = j PROVE FALSE
        BY <1>8 DEF Range
      <4>1. place[b] = k
        BY <1>9, <3>1
      <4> QED  BY <1>9, <1>12, <4>1 DEF Range
    <3>3. ~Better(w[j], taken[i])
      BY <1>3, <1>8, <3>2 DEF TakenFrom
    <3> QED  BY <1>1, <1>4, <1>12, <3>1, <3>3
  <2>2. CASE k \notin Range(sh)
    <3>1. Beaten(all[k], w, each)
      BY <1>1, <1>4, <2>2
    <3>2. PICK x \in LeanPage : x = all[k]
      BY <1>4
    <3>3. Beaten(x, w, each) /\ Better(x, taken[i]) /\ Len(taken) <= limit /\ i \in 1..Len(taken)
      BY <1>4, <1>7, <1>12, <3>1, <3>2
    <3> QED  BY <1>3, <3>3, NoneBeaten
  <2> QED  BY <2>1, <2>2
<1>13. TakenFrom(taken, all, place)
  BY <1>8, <1>11, <1>12 DEF TakenFrom
<1> QED  BY <1>2, <1>4, <1>7, <1>10, <1>13, BestMeans

-----------------------------------------------------------------------------
(* Queues                                                                   *)

In(x, q) == \E i \in 1..Len(q) : q[i] = x

NoTwice(q) == \A i, j \in 1..Len(q) : q[i] = q[j] => i = j

LEMMA TakenOff ==
    ASSUME NEW S, NEW q \in Seq(S), q # << >>
    PROVE  /\ Head(q) \in S /\ Tail(q) \in Seq(S) /\ In(Head(q), q)
           /\ \A x : In(x, Tail(q)) => In(x, q)
           /\ NoTwice(q) => NoTwice(Tail(q)) /\ ~In(Head(q), Tail(q))
<1>1. PICK n \in Nat : n + 1 = Len(q)
  <2>1. Len(q) \in Nat /\ Len(q) # 0
    BY EmptySeq
  <2> QED  BY <2>1
<1>2. /\ Head(q) = q[1] /\ q[1] \in S /\ 1 \in 1..Len(q)
      /\ Tail(q) \in Seq(S) /\ Len(Tail(q)) = n
      /\ \A i \in 1..n : Tail(q)[i] = q[i + 1] /\ i + 1 \in 1..Len(q)
  BY <1>1
<1>3. ASSUME NEW x, In(x, Tail(q)) PROVE In(x, q)
  BY <1>2, <1>3 DEF In
<1>4. ASSUME NoTwice(q) PROVE NoTwice(Tail(q)) /\ ~In(Head(q), Tail(q))
  <2>1. ASSUME NEW i \in 1..n, NEW j \in 1..n, Tail(q)[i] = Tail(q)[j] PROVE i = j
    <3>1. i + 1 = j + 1
      BY <1>2, <1>4, <2>1 DEF NoTwice
    <3> QED  BY <3>1
  <2>2. ASSUME NEW i \in 1..n, Tail(q)[i] = Head(q) PROVE FALSE
    <3>1. i + 1 = 1
      BY <1>2, <1>4, <2>2 DEF NoTwice
    <3> QED  BY <3>1
  <2> QED  BY <1>2, <2>1, <2>2 DEF NoTwice, In
<1> QED  BY <1>2, <1>3, <1>4 DEF In

LEMMA PutAllOn ==
    ASSUME NEW S, NEW q \in Seq(S), NEW w \in Seq(S)
    PROVE  /\ q \o w \in Seq(S)
           /\ \A x : In(x, q \o w) => In(x, q) \/ In(x, w)
           /\ NoTwice(q) /\ NoTwice(w) /\ (\A x : ~(In(x, q) /\ In(x, w))) => NoTwice(q \o w)
<1>1. PICK n \in Nat, k \in Nat : n = Len(q) /\ k = Len(w)
  OBVIOUS
<1>2. q \o w \in Seq(S) /\ Len(q \o w) = n + k
  BY <1>1
<1>3. ASSUME NEW i \in 1..(n + k)
      PROVE  \/ i \in 1..n /\ (q \o w)[i] = q[i]
             \/ i - n \in 1..k /\ (q \o w)[i] = w[i - n]
  BY <1>1
<1>4. ASSUME NEW x, In(x, q \o w) PROVE In(x, q) \/ In(x, w)
  BY <1>1, <1>2, <1>3, <1>4 DEF In
<1>5. ASSUME NoTwice(q), NoTwice(w), \A x : ~(In(x, q) /\ In(x, w)) PROVE NoTwice(q \o w)
  <2>1. ASSUME NEW i \in 1..(n + k), NEW j \in 1..(n + k), (q \o w)[i] = (q \o w)[j] PROVE i = j
    <3>1. CASE i \in 1..n /\ (q \o w)[i] = q[i] /\ j \in 1..n /\ (q \o w)[j] = q[j]
      BY <1>1, <1>5, <2>1, <3>1 DEF NoTwice
    <3>2. CASE i \in 1..n /\ (q \o w)[i] = q[i] /\ j - n \in 1..k /\ (q \o w)[j] = w[j - n]
      BY <1>1, <1>5, <2>1, <3>2 DEF In
    <3>3. CASE i - n \in 1..k /\ (q \o w)[i] = w[i - n] /\ j \in 1..n /\ (q \o w)[j] = q[j]
      BY <1>1, <1>5, <2>1, <3>3 DEF In
    <3>4. CASE i - n \in 1..k /\ (q \o w)[i] = w[i - n] /\ j - n \in 1..k /\ (q \o w)[j] = w[j - n]
      <4>1. i - n = j - n
        BY <1>1, <1>5, <2>1, <3>4 DEF NoTwice
      <4> QED  BY <4>1
    <3> QED  BY <1>3, <3>1, <3>2, <3>3, <3>4
  <2> QED  BY <1>2, <2>1 DEF NoTwice
<1> QED  BY <1>2, <1>4, <1>5

LEMMA PutOn ==
    ASSUME NEW S, NEW q \in Seq(S), NEW x \in S
    PROVE  /\ Append(q, x) \in Seq(S)
           /\ \A y : In(y, Append(q, x)) => In(y, q) \/ y = x
           /\ NoTwice(q) /\ ~In(x, q) => NoTwice(Append(q, x))
<1>1. Append(q, x) = q \o <<x>> /\ <<x>> \in Seq(S) /\ Len(<<x>>) = 1 /\ <<x>>[1] = x
  OBVIOUS
<1>2. NoTwice(<<x>>) /\ \A y : In(y, <<x>>) <=> y = x
  BY <1>1 DEF NoTwice, In
<1>3. PICK w \in Seq(S) : w = <<x>> /\ Append(q, x) = q \o w
  BY <1>1
<1>4. /\ q \o w \in Seq(S)
      /\ \A y : In(y, q \o w) => In(y, q) \/ In(y, w)
      /\ NoTwice(q) /\ NoTwice(w) /\ (\A y : ~(In(y, q) /\ In(y, w))) => NoTwice(q \o w)
  BY PutAllOn
<1> QED  BY <1>2, <1>3, <1>4

-----------------------------------------------------------------------------
(* The inductive invariant                                                  *)

Pages == Seq(LeanPage) \cup {Unset}

Asked(r) == ~NoQuery(sent[r])


TypeOK ==
    /\ sent \in [Requests -> Sent] /\ lossy \in SUBSET (Machines \ {Self})
    /\ stage \in [Requests -> {"new", "waiting", "gathering", "done"}]
    /\ results \in [Requests -> Pages]
    /\ promise \in [Requests -> [Machines -> Pages]] /\ stream \in [Requests -> [Machines -> Pages]]
    /\ task \in [Requests -> [Machines -> {"none", "queued", "local", "remote", "done"}]]
    /\ htmlQueue \in Seq(Requests) /\ taskQueue \in Seq(Requests \X Machines)
    /\ arrived \in [Machines -> SUBSET Requests] /\ serving \in [Machines -> SUBSET Requests]
    /\ serverQueue \in [Machines -> Seq(Requests)]

(* A request waits in the queue once, and has no tasks until a thread takes it. *)
RequestsInLine ==
    /\ NoTwice(htmlQueue)
    /\ \A r \in Requests : In(r, htmlQueue) => stage[r] = "waiting"
    /\ \A r \in Requests, m \in Machines : stage[r] \in {"new", "waiting"} => task[r][m] = "none"

(* A task is in its queue once and runs for a request that waits for it.       *)
TasksInLine ==
    /\ NoTwice(taskQueue)
    /\ \A r \in Requests, m \in Machines : In(<<r, m>>, taskQueue) => task[r][m] = "queued"
    /\ \A r \in Requests, m \in Machines : task[r][m] \in {"queued", "local", "remote"} => stage[r] = "gathering"
    /\ \A r \in Requests : task[r][Self] # "remote"
    /\ \A r \in Requests, m \in Machines : task[r][m] = "done" <=> promise[r][m] # Unset

(* The own index works on a query once, for the task that waits for it.        *)
OwnIndex ==
    /\ arrived[Self] = {} /\ NoTwice(serverQueue[Self])
    /\ \A r \in Requests :
         /\ In(r, serverQueue[Self]) => task[r][Self] = "local" /\ r \notin serving[Self]
         /\ r \in serving[Self] => task[r][Self] = "local"

(* Only queries that parse reach a machine, and what it sends is its answer.   *)
Queries ==
    /\ \A r \in Requests : stage[r] = "gathering" => Asked(r)
    /\ \A r \in Requests, m \in Machines :
         /\ r \in arrived[m] \cup serving[m] \/ In(r, serverQueue[m]) => Asked(r)
         /\ stream[r][m] # Unset => Asked(r) /\ stream[r][m] \in handle_query[m][Term(r)]

(* The hits of all machines, as get_results joins them.                      *)
Joint(hits) == FlattenSeq([ i \in DOMAIN MachineOrder |-> hits[MachineOrder[i]] ])

(* What was delivered is a contribution, and the answer the best of them.      *)
Delivered ==
    /\ \A r \in Requests, m \in Machines :
         promise[r][m] # Unset => SG!MayContribute(sent[r], m, m \in lossy, promise[r][m])
    /\ \A r \in Requests :
         /\ stage[r] # "done" => results[r] = Unset
         /\ stage[r] = "done" /\ Asked(r) =>
              /\ results[r] # Unset /\ \A m \in Machines : promise[r][m] # Unset
              /\ SG!IsBestOf(results[r], Joint(promise[r]), NUM_RESULTS_RETURN)

ServingInv == TypeOK /\ RequestsInLine /\ TasksInLine /\ OwnIndex /\ Queries /\ Delivered

LEMMA OrderOfMachines ==
    MachineOrder \in Bijection(1..Cardinality(Machines), Machines)
<1>1. /\ Cardinality(Machines) \in Nat
      /\ \E f : f \in Bijection(1..Cardinality(Machines), Machines)
  BY ServingAssumption, FS_CardinalityType DEF ExistsBijection
<1>2. PICK n \in Nat : n = Cardinality(Machines)
  BY <1>1
<1>3. \E f \in [1..n -> Machines] : IsInjective(f)
  BY <1>1, <1>2 DEF Bijection, Injection
<1>4. MachineOrder \in [1..n -> Machines] /\ IsInjective(MachineOrder)
  BY <1>2, <1>3 DEF MachineOrder, SetToSeq
<1>5. MachineOrder \in Injection(1..n, Machines)
  BY <1>4 DEF Injection
<1>6. IsFiniteSet(Machines) /\ Cardinality(1..n) = Cardinality(Machines)
  BY <1>2, ServingAssumption, FS_Interval
<1>7. MachineOrder \in Surjection(1..n, Machines)
  BY <1>5, <1>6, FS_Injection
<1> QED  BY <1>2, <1>5, <1>7 DEF Bijection

LEMMA Asking ==
    ASSUME NEW q
    PROVE  ~NoQuery(q) <=> HandleClient[q].reply = "search" /\ HandleClient[q].term \in Understood
BY DEF NoQuery

LEMMA ServingInit == Init => ServingInv
<1> SUFFICES ASSUME Init PROVE ServingInv
  OBVIOUS
<1> USE DEF Init, PerMachine
<1>1. TypeOK
  <2>1. << >> \in Seq(Requests) /\ << >> \in Seq(Requests \X Machines)
    OBVIOUS
  <2> QED  BY <2>1 DEF TypeOK, Pages
<1>2. \A x : ~In(x, << >>)
  BY DEF In
<1>3. NoTwice(<< >>)
  BY DEF NoTwice
<1>4. RequestsInLine
  BY <1>2, <1>3 DEF RequestsInLine
<1>5. TasksInLine
  BY <1>2, <1>3, ServingAssumption DEF TasksInLine
<1>6. OwnIndex
  BY <1>2, <1>3, ServingAssumption DEF OwnIndex
<1>7. Queries
  BY <1>2 DEF Queries
<1>8. Delivered
  BY DEF Delivered
<1> QED  BY <1>1, <1>4, <1>5, <1>6, <1>7, <1>8 DEF ServingInv

(* A task delivers: its promise gets its value and the task ends, no other.     *)
LEMMA DeliverMeans ==
    ASSUME TypeOK, NEW r \in Requests, NEW m \in Machines, NEW pages \in Seq(LeanPage), Deliver(r, m, pages)
    PROVE  /\ promise' \in [Requests -> [Machines -> Pages]]
           /\ task' \in [Requests -> [Machines -> {"none", "queued", "local", "remote", "done"}]]
           /\ promise'[r][m] = pages /\ task'[r][m] = "done" /\ pages # Unset
           /\ \A s \in Requests, n \in Machines : s # r \/ n # m =>
                 promise'[s][n] = promise[s][n] /\ task'[s][n] = task[s][n]
           /\ promise' = [promise EXCEPT ![r][m] = promise'[r][m]]
BY HitsAssumption DEF TypeOK, Deliver, Pages

(* A request is accepted.                                                   *)
LEMMA AcceptKeeps == ASSUME ServingInv, NEW r \in Requests, Accept(r) PROVE ServingInv'
<1> USE DEF ServingInv, Accept, tasks, server, faults
<1>1. htmlQueue \in Seq(Requests) /\ NoTwice(htmlQueue) /\ ~In(r, htmlQueue)
  BY DEF TypeOK, RequestsInLine
<1>2. PICK q : q = Append(htmlQueue, r)
  OBVIOUS
<1>3. q \in Seq(Requests) /\ NoTwice(q) /\ (\A y : In(y, q) => In(y, htmlQueue) \/ y = r)
  BY <1>1, <1>2, PutOn
<1>4. stage' \in [Requests -> {"new", "waiting", "gathering", "done"}] /\ stage'[r] = "waiting"
      /\ \A s \in Requests : s # r => stage'[s] = stage[s]
  BY DEF TypeOK
<1>5. TypeOK'
  BY <1>2, <1>3, <1>4 DEF TypeOK
<1>6. RequestsInLine'
  BY <1>2, <1>3, <1>4 DEF RequestsInLine
<1>7. TasksInLine'
  BY <1>4 DEF TasksInLine
<1>8. OwnIndex'
  BY DEF OwnIndex
<1>9. Queries'
  BY <1>4 DEF Queries, Asked, Term
<1>10. Delivered'
  BY <1>4 DEF Delivered, Asked
<1> QED  BY <1>5, <1>6, <1>7, <1>8, <1>9, <1>10

(* A thread takes a request that is no query, or none that parses.            *)
LEMMA TakeOtherKeeps == ASSUME ServingInv, TakeOther PROVE ServingInv'
<1> USE DEF ServingInv, tasks, server, faults
<1>1. PICK r : r = Head(htmlQueue)
  OBVIOUS
<1>2. PICK q : q = Tail(htmlQueue)
  OBVIOUS
<1>3. /\ r \in Requests /\ q \in Seq(Requests) /\ In(r, htmlQueue) /\ NoTwice(q) /\ ~In(r, q)
      /\ \A x : In(x, q) => In(x, htmlQueue)
  <2>1. htmlQueue \in Seq(Requests) /\ htmlQueue # << >> /\ NoTwice(htmlQueue)
    BY DEF TypeOK, RequestsInLine, TakeOther
  <2> QED  BY <1>1, <1>2, <2>1, TakenOff
<1>4. stage[r] = "waiting" /\ \A m \in Machines : task[r][m] = "none"
  BY <1>3 DEF RequestsInLine
<1>5. ~Asked(r)
  BY <1>1 DEF TakeOther, IsSearch, Term, Asked, NoQuery
<1>6. /\ stage' \in [Requests -> {"new", "waiting", "gathering", "done"}] /\ stage'[r] = "done"
      /\ \A s \in Requests : s # r => stage'[s] = stage[s] /\ results'[s] = results[s]
      /\ results' \in [Requests -> Pages]
  <2>1. << >> \in Pages
    BY DEF Pages
  <2> QED  BY <1>1, <1>3, <2>1 DEF TypeOK, TakeOther
<1>7. htmlQueue' = q
  BY <1>2 DEF TakeOther
<1>8. UNCHANGED <<sent, tasks, server, faults>>
  BY DEF TakeOther
<1>9. TypeOK'
  BY <1>3, <1>6, <1>7, <1>8 DEF TypeOK
<1>10. RequestsInLine'
  BY <1>3, <1>4, <1>6, <1>7, <1>8 DEF RequestsInLine
<1>11. TasksInLine'
  BY <1>3, <1>4, <1>6, <1>8 DEF TasksInLine
<1>12. OwnIndex'
  BY <1>8 DEF OwnIndex
<1>13. Queries'
  BY <1>3, <1>6, <1>8 DEF Queries, Asked, Term
<1>14. Delivered'
  BY <1>3, <1>5, <1>6, <1>8 DEF Delivered, Asked
<1> QED  BY <1>9, <1>10, <1>11, <1>12, <1>13, <1>14

LEMMA JointIs ==
    ASSUME NEW hits \in [Machines -> Seq(LeanPage)]
    PROVE  Joint(hits) \in Seq(LeanPage)
<1>1. PICK n \in Nat : n = Cardinality(Machines)
  BY ServingAssumption, FS_CardinalityType
<1>2. MachineOrder \in [1..n -> Machines] /\ DOMAIN MachineOrder = 1..n
  BY <1>1, OrderOfMachines DEF Bijection, Injection
<1> DEFINE s == [i \in 1..n |-> hits[MachineOrder[i]]]
<1>3. s \in [1..n -> Seq(LeanPage)]
  BY <1>2
<1>4. Joint(hits) = FlattenSeq(s)
  BY <1>2 DEF Joint
<1> HIDE DEF s
<1>5. s \in Seq(Seq(LeanPage))
  BY <1>3, FunctionIsSeq
<1> QED  BY <1>4, <1>5, JoinKeepsElements

LEMMA SameElementsSelf == ASSUME NEW S, NEW v \in Seq(S) PROVE SameElements(v, v)
<1>1. PICK n \in Nat : n = Len(v)
  OBVIOUS
<1> DEFINE f == [i \in 1..n |-> i]
<1>2. f \in Bijection(1..n, 1..n) /\ \A i \in 1..n : v[i] = v[f[i]]
  BY Fun_IsBij
<1> QED  BY <1>1, <1>2 DEF SameElements

(* With all hits there, the answer is the best of them (query_handler.h:99).    *)
LEMMA GatherMeans ==
    ASSUME ServingInv, NEW r \in Requests, Gather(r)
    PROVE  /\ results' \in [Requests -> Pages] /\ results'[r] # Unset
           /\ \A s \in Requests : s # r => results'[s] = results[s]
           /\ SG!IsBestOf(results'[r], Joint(promise[r]), NUM_RESULTS_RETURN)
<1>1. results \in [Requests -> Pages] /\ promise[r] \in [Machines -> Seq(LeanPage)]
  BY DEF Gather, ServingInv, TypeOK, Pages
<1>2. PICK all \in Seq(LeanPage) : all = Joint(promise[r]) /\ SameElements(all, all)
  BY <1>1, JointIs, SameElementsSelf
<1>3. PICK best : best = BestOf(all) /\ best = Cut(Sorted(all), NUM_RESULTS_RETURN)
  BY DEF BestOf
<1>4. best \in Seq(LeanPage) /\ SG!IsBestOf(best, all, NUM_RESULTS_RETURN)
  BY <1>2, <1>3, Bounds, CutOfSorted
<1>5. results' = [results EXCEPT ![r] = best]
  BY <1>2, <1>3 DEF Gather, Joint
<1> QED  BY <1>1, <1>2, <1>4, <1>5, HitsAssumption DEF Pages

LEMMA GatherKeeps == ASSUME ServingInv, NEW r \in Requests, Gather(r) PROVE ServingInv'
<1> USE DEF ServingInv, tasks, server, faults
<1>1. stage[r] = "gathering" /\ \A m \in Machines : promise[r][m] # Unset
  BY DEF Gather
<1>2. /\ stage' \in [Requests -> {"new", "waiting", "gathering", "done"}] /\ stage'[r] = "done"
      /\ \A s \in Requests : s # r => stage'[s] = stage[s]
  BY DEF TypeOK, Gather
<1>3. \A m \in Machines : task[r][m] = "done"
  <2> SUFFICES ASSUME NEW m \in Machines PROVE task[r][m] = "done"
    OBVIOUS
  <2>1. promise[r][m] # Unset
    BY <1>1
  <2> QED  BY <2>1 DEF TasksInLine
<1>4. UNCHANGED <<sent, htmlQueue, tasks, server, faults>>
  BY DEF Gather
<1>5. TypeOK'
  BY <1>2, <1>4, GatherMeans DEF TypeOK
<1>6. RequestsInLine'
  BY <1>1, <1>2, <1>4 DEF RequestsInLine
<1>7. TasksInLine'
  BY <1>1, <1>2, <1>3, <1>4 DEF TasksInLine
<1>8. OwnIndex'
  BY <1>4 DEF OwnIndex
<1>9. Queries'
  BY <1>2, <1>4 DEF Queries, Asked, Term
<1>10. Delivered'
  BY <1>1, <1>2, <1>4, GatherMeans DEF Delivered, Asked
<1> QED  BY <1>5, <1>6, <1>7, <1>8, <1>9, <1>10

(* get_results: a task for every machine, each once.                         *)
LEMMA NewTasks ==
    ASSUME NEW r \in Requests
    PROVE  \E w \in Seq(Requests \X Machines) :
              /\ w = [ i \in DOMAIN MachineOrder |-> << r, MachineOrder[i] >> ]
              /\ NoTwice(w) /\ \A x : In(x, w) => \E m \in Machines : x = <<r, m>>
<1>1. PICK n \in Nat : n = Cardinality(Machines)
  BY ServingAssumption, FS_CardinalityType
<1>2. /\ MachineOrder \in [1..n -> Machines] /\ DOMAIN MachineOrder = 1..n
      /\ \A i, j \in 1..n : MachineOrder[i] = MachineOrder[j] => i = j
  BY <1>1, OrderOfMachines DEF Bijection, Injection, IsInjective
<1> DEFINE w == [ i \in 1..n |-> << r, MachineOrder[i] >> ]
<1>3. w \in [1..n -> Requests \X Machines] /\ \A i \in 1..n : w[i] = << r, MachineOrder[i] >>
  BY <1>2
<1>4. w = [ i \in DOMAIN MachineOrder |-> << r, MachineOrder[i] >> ]
  BY <1>2
<1> HIDE DEF w
<1>5. w \in Seq(Requests \X Machines) /\ Len(w) = n
  BY <1>3, FunctionIsSeq
<1>6. NoTwice(w)
  BY <1>2, <1>3, <1>5 DEF NoTwice
<1>7. \A x : In(x, w) => \E m \in Machines : x = <<r, m>>
  BY <1>2, <1>3, <1>5 DEF In
<1> QED  BY <1>4, <1>5, <1>6, <1>7

LEMMA TakeSearchKeeps == ASSUME ServingInv, TakeSearch PROVE ServingInv'
<1> USE DEF ServingInv, server, faults
<1>1. PICK r : r = Head(htmlQueue)
  OBVIOUS
<1>2. PICK q : q = Tail(htmlQueue)
  OBVIOUS
<1>3. /\ r \in Requests /\ q \in Seq(Requests) /\ In(r, htmlQueue) /\ NoTwice(q) /\ ~In(r, q)
      /\ \A x : In(x, q) => In(x, htmlQueue)
  <2>1. htmlQueue \in Seq(Requests) /\ htmlQueue # << >> /\ NoTwice(htmlQueue)
    BY DEF TypeOK, RequestsInLine, TakeSearch
  <2> QED  BY <1>1, <1>2, <2>1, TakenOff
<1>4. stage[r] = "waiting" /\ \A m \in Machines : task[r][m] = "none"
  BY <1>3 DEF RequestsInLine
<1>5. Asked(r)
  BY <1>1 DEF TakeSearch, IsSearch, Term, Asked, NoQuery
<1>6. /\ stage' \in [Requests -> {"new", "waiting", "gathering", "done"}] /\ stage'[r] = "gathering"
      /\ \A s \in Requests : s # r => stage'[s] = stage[s]
  BY <1>1, <1>3 DEF TypeOK, TakeSearch
<1>7. /\ task' \in [Requests -> [Machines -> {"none", "queued", "local", "remote", "done"}]]
      /\ \A m \in Machines : task'[r][m] = "queued"
      /\ \A s \in Requests, m \in Machines : s # r => task'[s][m] = task[s][m]
  BY <1>1, <1>3 DEF TypeOK, TakeSearch
<1>8. PICK w \in Seq(Requests \X Machines) :
         /\ w = [ i \in DOMAIN MachineOrder |-> << r, MachineOrder[i] >> ]
         /\ NoTwice(w) /\ \A x : In(x, w) => \E m \in Machines : x = <<r, m>>
  BY <1>3, NewTasks
<1>9. taskQueue \in Seq(Requests \X Machines) /\ NoTwice(taskQueue)
  BY DEF TypeOK, TasksInLine
<1>10. PICK z : z = taskQueue \o w
  OBVIOUS
<1>11. \A x : ~(In(x, taskQueue) /\ In(x, w))
  <2> SUFFICES ASSUME NEW x, In(x, taskQueue), In(x, w) PROVE FALSE
    OBVIOUS
  <2>1. PICK m \in Machines : x = <<r, m>>
    BY <1>8
  <2>2. In(<<r, m>>, taskQueue)
    BY <2>1
  <2> QED  BY <1>3, <1>4, <2>2 DEF TasksInLine
<1>12. z \in Seq(Requests \X Machines) /\ NoTwice(z) /\ \A x : In(x, z) => In(x, taskQueue) \/ In(x, w)
  BY <1>8, <1>9, <1>10, <1>11, PutAllOn
<1>13. htmlQueue' = q /\ taskQueue' = z /\ UNCHANGED <<sent, results, reply, promise, server, faults>>
  BY <1>1, <1>2, <1>8, <1>10 DEF TakeSearch
<1>14. TypeOK'
  BY <1>3, <1>6, <1>7, <1>12, <1>13 DEF TypeOK
<1>15. RequestsInLine'
  <2>1. ASSUME NEW s \in Requests, In(s, q) PROVE stage'[s] = "waiting"
    <3>1. s # r /\ In(s, htmlQueue)
      BY <1>3, <2>1
    <3> QED  BY <1>6, <3>1 DEF RequestsInLine
  <2>2. ASSUME NEW s \in Requests, NEW m \in Machines, stage'[s] \in {"new", "waiting"} PROVE task'[s][m] = "none"
    <3>1. s # r /\ stage[s] \in {"new", "waiting"}
      BY <1>6, <2>2
    <3> QED  BY <1>7, <3>1 DEF RequestsInLine
  <2> QED  BY <1>3, <1>13, <2>1, <2>2 DEF RequestsInLine
<1>16. TasksInLine'
  <2>1. ASSUME NEW s \in Requests, NEW m \in Machines, In(<<s, m>>, z) PROVE task'[s][m] = "queued"
    <3>1. CASE s = r
      BY <1>7, <3>1
    <3>2. CASE s # r
      <4>1. ~In(<<s, m>>, w)
        BY <1>8, <3>2
      <4>2. In(<<s, m>>, taskQueue)
        BY <1>12, <2>1, <4>1
      <4> QED  BY <1>7, <3>2, <4>2 DEF TasksInLine
    <3> QED  BY <3>1, <3>2
  <2>2. ASSUME NEW s \in Requests, NEW m \in Machines PROVE task'[s][m] = "done" <=> promise'[s][m] # Unset
    <3>1. task[s][m] = "done" <=> promise[s][m] # Unset
      BY DEF TasksInLine
    <3> QED  BY <1>4, <1>7, <1>13, <3>1
  <2>3. ASSUME NEW s \in Requests, NEW m \in Machines, task'[s][m] \in {"queued", "local", "remote"}
        PROVE  stage'[s] = "gathering"
    <3>1. CASE s = r
      BY <1>6, <3>1
    <3>2. CASE s # r
      BY <1>6, <1>7, <2>3, <3>2 DEF TasksInLine
    <3> QED  BY <3>1, <3>2
  <2>4. ASSUME NEW s \in Requests PROVE task'[s][Self] # "remote"
    <3>1. task[s][Self] # "remote"
      BY DEF TasksInLine
    <3> QED  BY <1>7, <3>1, ServingAssumption
  <2> QED  BY <1>12, <1>13, <2>1, <2>2, <2>3, <2>4 DEF TasksInLine
<1>17. OwnIndex'
  BY <1>4, <1>7, <1>13, ServingAssumption DEF OwnIndex
<1>18. Queries'
  BY <1>5, <1>6, <1>13 DEF Queries, Asked, Term
<1>19. Delivered'
  BY <1>4, <1>6, <1>13 DEF Delivered, Asked
<1> QED  BY <1>14, <1>15, <1>16, <1>17, <1>18, <1>19

\* The first task in the queue, and the rest.
LEMMA FirstTask ==
    ASSUME ServingInv, taskQueue # << >>
    PROVE  \E r \in Requests, m \in Machines, q \in Seq(Requests \X Machines) :
              /\ Head(taskQueue) = <<r, m>> /\ Tail(taskQueue) = q
              /\ task[r][m] = "queued" /\ stage[r] = "gathering" /\ Asked(r) /\ promise[r][m] = Unset
              /\ NoTwice(q) /\ ~In(<<r, m>>, q) /\ \A x : In(x, q) => In(x, taskQueue)
<1>1. taskQueue \in Seq(Requests \X Machines) /\ NoTwice(taskQueue)
  BY DEF ServingInv, TypeOK, TasksInLine
<1>2. PICK h : h = Head(taskQueue)
  OBVIOUS
<1>3. PICK q : q = Tail(taskQueue)
  OBVIOUS
<1>4. /\ h \in Requests \X Machines /\ q \in Seq(Requests \X Machines) /\ In(h, taskQueue)
      /\ NoTwice(q) /\ ~In(h, q) /\ \A x : In(x, q) => In(x, taskQueue)
  BY <1>1, <1>2, <1>3, TakenOff
<1>5. PICK r \in Requests, m \in Machines : h = <<r, m>>
  BY <1>4
<1>6. task[r][m] = "queued"
  BY <1>4, <1>5 DEF ServingInv, TasksInLine
<1>7. stage[r] = "gathering"
  BY <1>6 DEF ServingInv, TasksInLine
<1>8. Asked(r)
  BY <1>7 DEF ServingInv, Queries
<1>9. task[r][m] = "done" <=> promise[r][m] # Unset
  BY DEF ServingInv, TasksInLine
<1> QED  BY <1>2, <1>3, <1>4, <1>5, <1>6, <1>7, <1>8, <1>9

(* A contribution is delivered to a request that waits for it.                *)
LEMMA AfterDelivery ==
    ASSUME ServingInv, NEW r \in Requests, NEW m \in Machines, NEW pages \in Seq(LeanPage),
           Deliver(r, m, pages), stage[r] = "gathering", promise[r][m] = Unset,
           SG!MayContribute(sent[r], m, m \in lossy, pages), UNCHANGED <<front, faults>>,
           NEW q, taskQueue' = q, q \in Seq(Requests \X Machines), NoTwice(q), ~In(<<r, m>>, q),
           \A x : In(x, q) => In(x, taskQueue)
    PROVE  RequestsInLine' /\ TasksInLine' /\ Delivered'
<1> USE DEF front, faults
<1>1. /\ task' \in [Requests -> [Machines -> {"none", "queued", "local", "remote", "done"}]]
      /\ promise'[r][m] = pages /\ task'[r][m] = "done" /\ pages # Unset
      /\ \A s \in Requests, n \in Machines : s # r \/ n # m =>
            promise'[s][n] = promise[s][n] /\ task'[s][n] = task[s][n]
  BY DeliverMeans DEF ServingInv
<1>2. RequestsInLine'
  <2>1. ASSUME NEW s \in Requests, NEW n \in Machines, stage[s] \in {"new", "waiting"} PROVE task'[s][n] = "none"
    <3>1. s # r
      BY <2>1
    <3> QED  BY <1>1, <2>1, <3>1 DEF ServingInv, RequestsInLine
  <2> QED  BY <2>1 DEF ServingInv, RequestsInLine
<1>3. TasksInLine'
  <2>1. ASSUME NEW s \in Requests, NEW n \in Machines, In(<<s, n>>, q) PROVE task'[s][n] = "queued"
    <3>1. <<s, n>> # <<r, m>>
      BY <2>1
    <3>2. In(<<s, n>>, taskQueue)
      BY <2>1
    <3>3. task[s][n] = "queued"
      BY <3>2 DEF ServingInv, TasksInLine
    <3>4. s # r \/ n # m
      BY <3>1
    <3> QED  BY <1>1, <3>3, <3>4
  <2>2. ASSUME NEW s \in Requests, NEW n \in Machines PROVE task'[s][n] = "done" <=> promise'[s][n] # Unset
    <3>1. task[s][n] = "done" <=> promise[s][n] # Unset
      BY DEF ServingInv, TasksInLine
    <3>2. CASE s = r /\ n = m
      BY <1>1, <3>2
    <3>3. CASE s # r \/ n # m
      BY <1>1, <3>1, <3>3
    <3> QED  BY <3>2, <3>3
  <2>3. ASSUME NEW s \in Requests, NEW n \in Machines, task'[s][n] \in {"queued", "local", "remote"}
        PROVE  stage'[s] = "gathering"
    <3>1. CASE s = r
      BY <3>1
    <3>2. CASE s # r
      BY <1>1, <2>3, <3>2 DEF ServingInv, TasksInLine
    <3> QED  BY <3>1, <3>2
  <2>4. ASSUME NEW s \in Requests PROVE task'[s][Self] # "remote"
    <3>1. task[s][Self] # "remote"
      BY DEF ServingInv, TasksInLine
    <3>2. CASE s = r /\ m = Self
      BY <1>1, <3>2
    <3>3. CASE s # r \/ m # Self
      BY <1>1, <3>1, <3>3, ServingAssumption
    <3> QED  BY <3>2, <3>3
  <2> QED  BY <2>1, <2>2, <2>3, <2>4 DEF TasksInLine
<1>4. Delivered'
  <2>1. ASSUME NEW s \in Requests, NEW n \in Machines, promise'[s][n] # Unset
        PROVE  SG!MayContribute(sent[s], n, n \in lossy, promise'[s][n])
    <3>1. CASE s = r /\ n = m
      BY <1>1, <3>1
    <3>2. CASE s # r \/ n # m
      <4>1. promise'[s][n] = promise[s][n]
        BY <1>1, <3>2
      <4> QED  BY <2>1, <4>1 DEF ServingInv, Delivered
    <3> QED  BY <3>1, <3>2
  <2>2. ASSUME NEW s \in Requests, stage[s] = "done", Asked(s)
        PROVE  /\ results[s] # Unset /\ \A n \in Machines : promise'[s][n] # Unset
               /\ SG!IsBestOf(results[s], Joint(promise'[s]), NUM_RESULTS_RETURN)
    <3>1. s # r
      BY <2>2
    <3>2. promise'[s] = promise[s]
      BY <3>1 DEF Deliver, ServingInv, TypeOK
    <3> QED  BY <2>2, <3>2 DEF ServingInv, Delivered
  <2>3. \A s \in Requests : stage[s] # "done" => results[s] = Unset
    BY DEF ServingInv, Delivered
  <2> QED  BY <2>1, <2>2, <2>3 DEF Delivered, Asked
<1> QED  BY <1>2, <1>3, <1>4

Delivery(r, m, pages, q) ==
    /\ r \in Requests /\ m \in Machines /\ pages \in Seq(LeanPage)
    /\ Deliver(r, m, pages) /\ stage[r] = "gathering" /\ promise[r][m] = Unset
    /\ SG!MayContribute(sent[r], m, m \in lossy, pages) /\ UNCHANGED <<front, faults>>
    /\ taskQueue' = q /\ q \in Seq(Requests \X Machines) /\ NoTwice(q) /\ ~In(<<r, m>>, q)
    /\ \A x : In(x, q) => In(x, taskQueue)

LEMMA DeliveryKeeps ==
    ASSUME ServingInv, NEW r, NEW m, NEW pages, NEW q, Delivery(r, m, pages, q)
    PROVE  RequestsInLine' /\ TasksInLine' /\ Delivered'
BY AfterDelivery DEF Delivery

(* Each machine contributes once, while the request waits.                    *)
LEMMA DeliveryContributes ==
    ASSUME ServingInv, NEW r, NEW m, NEW pages, NEW q, Delivery(r, m, pages, q)
    PROVE  SG!Contribute(r, m)
<1>1. /\ r \in Requests /\ m \in Machines /\ pages \in Seq(LeanPage)
      /\ Deliver(r, m, pages) /\ stage[r] = "gathering" /\ promise[r][m] = Unset
      /\ SG!MayContribute(sent[r], m, m \in lossy, pages) /\ UNCHANGED <<front, faults>>
  BY DEF Delivery
<1>2. /\ promise'[r][m] = pages /\ pages # Unset
      /\ promise' = [promise EXCEPT ![r][m] = promise'[r][m]]
  BY <1>1, DeliverMeans DEF ServingInv
<1>3. results[r] = Unset
  BY <1>1 DEF ServingInv, Delivered
<1>4. ~NoQuery(sent[r])
  BY <1>1 DEF ServingInv, Queries, Asked
<1>5. SG!MayContribute(sent[r], m, m \in lossy, promise'[r][m])
  BY <1>1, <1>2
<1>6. UNCHANGED <<results, sent, lossy>>
  BY <1>1 DEF front, faults
<1> QED  BY <1>1, <1>2, <1>3, <1>4, <1>5, <1>6 DEF SG!Contribute

\* Nothing delivered, or nothing found, is a contribution.
LEMMA NoHits == << >> \in Seq(LeanPage) /\ \A q, m, bad : SG!MayContribute(q, m, bad, << >>)
BY MayMeans

LEMMA ConnectFailsDelivers ==
    ASSUME ServingInv, ConnectFails
    PROVE  \E r, m, q : m # Self /\ Delivery(r, m, << >>, q)
<1>1. taskQueue # << >>
  BY DEF ConnectFails, QueryThreadFree
<1>2. PICK r \in Requests, m \in Machines, q \in Seq(Requests \X Machines) :
              /\ Head(taskQueue) = <<r, m>> /\ Tail(taskQueue) = q
              /\ task[r][m] = "queued" /\ stage[r] = "gathering" /\ Asked(r) /\ promise[r][m] = Unset
              /\ NoTwice(q) /\ ~In(<<r, m>>, q) /\ \A x : In(x, q) => In(x, taskQueue)
  BY <1>1, FirstTask
<1>3. m # Self /\ Deliver(r, m, << >>) /\ taskQueue' = q /\ UNCHANGED <<front, faults>>
  BY <1>2 DEF ConnectFails
<1>4. << >> \in Seq(LeanPage) /\ SG!MayContribute(sent[r], m, m \in lossy, << >>)
  BY NoHits
<1> QED  BY <1>2, <1>3, <1>4 DEF Delivery

\* A task that runs, for one that waits: not in the queue.
LEMMA RunningTask ==
    ASSUME ServingInv, NEW r \in Requests, NEW m \in Machines, task[r][m] \in {"local", "remote"}
    PROVE  /\ stage[r] = "gathering" /\ Asked(r) /\ promise[r][m] = Unset /\ ~In(<<r, m>>, taskQueue)
           /\ taskQueue \in Seq(Requests \X Machines) /\ NoTwice(taskQueue)
<1>1. stage[r] = "gathering"
  BY DEF ServingInv, TasksInLine
<1>2. Asked(r)
  BY <1>1 DEF ServingInv, Queries
<1>3. promise[r][m] = Unset
  <2>1. task[r][m] = "done" <=> promise[r][m] # Unset
    BY DEF ServingInv, TasksInLine
  <2> QED  BY <2>1
<1>4. ~In(<<r, m>>, taskQueue)
  BY DEF ServingInv, TasksInLine
<1> QED  BY <1>1, <1>2, <1>3, <1>4 DEF ServingInv, TypeOK, TasksInLine

LEMMA AnswerTimesOutDelivers ==
    ASSUME ServingInv, NEW r \in Requests, NEW m \in Machines, AnswerTimesOut(r, m)
    PROVE  m # Self /\ Delivery(r, m, << >>, taskQueue)
<1>1. task[r][m] = "remote" /\ Deliver(r, m, << >>) /\ UNCHANGED <<front, taskQueue, faults>>
  BY DEF AnswerTimesOut
<1>2. << >> \in Seq(LeanPage) /\ SG!MayContribute(sent[r], m, m \in lossy, << >>)
  BY NoHits
<1>3. m # Self
  BY <1>1 DEF ServingInv, TasksInLine
<1> QED  BY <1>1, <1>2, <1>3, RunningTask DEF Delivery

LEMMA ReadAnswerDelivers ==
    ASSUME ServingInv, NEW r \in Requests, NEW m \in Machines, ReadAnswer(r, m)
    PROVE  m # Self /\ \E pages : Delivery(r, m, pages, taskQueue)
<1>1. /\ task[r][m] = "remote" /\ stream[r][m] # Unset
      /\ UNCHANGED <<front, taskQueue, faults>>
  BY DEF ReadAnswer
<1>2. m # Self
  BY <1>1 DEF ServingInv, TasksInLine
<1>3. stream[r][m] \in handle_query[m][Term(r)] /\ Asked(r)
  BY <1>1 DEF ServingInv, Queries
<1>4. PICK got : /\ got \in Readings[<< stream[r][m], m \notin up, m \in lossy >>]
                 /\ Deliver(r, m, got)
  BY DEF ReadAnswer
<1>5. HandleClient[sent[r]].term \in Understood /\ Term(r) = HandleClient[sent[r]].term
  BY <1>3, Asking DEF Asked, Term
<1>6. got \in Seq(LeanPage) /\ SG!MayContribute(sent[r], m, m \in lossy, got)
  <2>1. (m \notin up) \in BOOLEAN /\ (m \in lossy) \in BOOLEAN
    OBVIOUS
  <2>2. PICK q, pages, died, paused : /\ q = sent[r] /\ pages = stream[r][m]
                                      /\ died = (m \notin up) /\ paused = (m \in lossy)
    OBVIOUS
  <2>3. /\ HandleClient[q].term \in Understood /\ pages \in handle_query[m][HandleClient[q].term]
        /\ died \in BOOLEAN /\ paused \in BOOLEAN /\ got \in Readings[<<pages, died, paused>>]
    BY <1>3, <1>4, <1>5, <2>1, <2>2
  <2>4. got \in Seq(LeanPage) /\ SG!MayContribute(q, m, paused, got)
    BY <1>2, <2>3, ReadingContributes
  <2> QED  BY <2>2, <2>4
<1> QED  BY <1>1, <1>2, <1>4, <1>6, RunningTask DEF Delivery

LEMMA AnswerQueryDelivers ==
    ASSUME ServingInv, NEW r \in Requests, AnswerQuery(Self, r)
    PROVE  \E pages : Delivery(r, Self, pages, taskQueue)
<1>1. Self \in Machines /\ r \in serving[Self] /\ UNCHANGED <<front, taskQueue, faults>>
  BY ServingAssumption DEF AnswerQuery
<1>2. PICK pages \in handle_query[Self][Term(r)] : Deliver(r, Self, pages)
  BY DEF AnswerQuery
<1>3. task[r][Self] = "local"
  BY <1>1 DEF ServingInv, OwnIndex
<1>4. Asked(r)
  BY <1>1, <1>3, RunningTask
<1>5. HandleClient[sent[r]].term \in Understood /\ Term(r) = HandleClient[sent[r]].term
  BY <1>4, Asking DEF Asked, Term
<1>6. Best(pages, HitsFor(sent[r], Self))
  BY <1>1, <1>2, <1>5, MachineAnswersBest DEF HitsFor
<1>7. pages \in Seq(LeanPage) /\ SG!MayContribute(sent[r], Self, Self \in lossy, pages)
  BY <1>6, MayMeans DEF Best
<1> QED  BY <1>1, <1>2, <1>3, <1>7, RunningTask DEF Delivery

LEMMA QueryThrowsDelivers ==
    ASSUME ServingInv, NEW r \in Requests, QueryThrows(r)
    PROVE  Delivery(r, Self, << >>, taskQueue)
<1>1. Self \in Machines /\ r \in serving[Self] /\ Deliver(r, Self, << >>) /\ UNCHANGED <<front, taskQueue, faults>>
  BY ServingAssumption DEF QueryThrows
<1>2. task[r][Self] = "local"
  BY <1>1 DEF ServingInv, OwnIndex
<1>3. << >> \in Seq(LeanPage) /\ SG!MayContribute(sent[r], Self, Self \in lossy, << >>)
  BY NoHits
<1> QED  BY <1>1, <1>2, <1>3, RunningTask DEF Delivery

\* Delivered to another machine's task, with the index servers left alone.
LEMMA RemoteDeliveryKeeps ==
    ASSUME ServingInv, NEW r, NEW m, NEW pages, NEW q, Delivery(r, m, pages, q), m # Self, UNCHANGED server
    PROVE  ServingInv'
<1>1. RequestsInLine' /\ TasksInLine' /\ Delivered'
  BY DeliveryKeeps
<1>2. /\ r \in Requests /\ m \in Machines /\ pages \in Seq(LeanPage) /\ Deliver(r, m, pages)
      /\ UNCHANGED <<front, server, faults>> /\ taskQueue' \in Seq(Requests \X Machines)
  BY DEF Delivery
<1>3. /\ promise' \in [Requests -> [Machines -> Pages]]
      /\ task' \in [Requests -> [Machines -> {"none", "queued", "local", "remote", "done"}]]
      /\ \A s \in Requests, n \in Machines : s # r \/ n # m => task'[s][n] = task[s][n]
  BY <1>2, DeliverMeans DEF ServingInv
<1>4. TypeOK'
  BY <1>2, <1>3 DEF ServingInv, TypeOK, front, server, faults
<1>5. OwnIndex'
  <2>1. \A s \in Requests : task'[s][Self] = task[s][Self]
    BY <1>3, ServingAssumption
  <2> QED  BY <1>2, <2>1 DEF ServingInv, OwnIndex, server
<1>6. Queries'
  BY <1>2 DEF ServingInv, Queries, Asked, Term, front, server
<1> QED  BY <1>1, <1>4, <1>5, <1>6 DEF ServingInv

\* Delivered by the own index, which is done with the request.
LEMMA LocalDeliveryKeeps ==
    ASSUME ServingInv, NEW r, NEW pages, Delivery(r, Self, pages, taskQueue), r \in serving[Self],
           serving' = [ serving EXCEPT ![Self] = @ \ {r} ], UNCHANGED << arrived, serverQueue, stream >>
    PROVE  ServingInv'
<1>1. RequestsInLine' /\ TasksInLine' /\ Delivered'
  BY DeliveryKeeps
<1>2. /\ r \in Requests /\ Self \in Machines /\ pages \in Seq(LeanPage) /\ Deliver(r, Self, pages)
      /\ UNCHANGED <<front, faults>> /\ taskQueue' \in Seq(Requests \X Machines)
  BY DEF Delivery
<1>3. /\ promise' \in [Requests -> [Machines -> Pages]]
      /\ task' \in [Requests -> [Machines -> {"none", "queued", "local", "remote", "done"}]]
      /\ \A s \in Requests, n \in Machines : s # r \/ n # Self => task'[s][n] = task[s][n]
  BY <1>2, DeliverMeans DEF ServingInv
<1>4. /\ serving' \in [Machines -> SUBSET Requests] /\ serving'[Self] = serving[Self] \ {r}
      /\ \A m \in Machines : serving'[m] \subseteq serving[m]
  <2>1. serving \in [Machines -> SUBSET Requests]
    BY DEF ServingInv, TypeOK
  <2>2. serving[Self] \ {r} \in SUBSET Requests
    BY <1>2, <2>1
  <2> QED  BY <1>2, <2>1, <2>2
<1>5. TypeOK'
  BY <1>2, <1>3, <1>4 DEF ServingInv, TypeOK, front, faults
<1>6. OwnIndex'
  <2>1. ASSUME NEW s \in Requests, In(s, serverQueue[Self]) PROVE task'[s][Self] = "local" /\ s \notin serving'[Self]
    <3>1. s # r /\ task[s][Self] = "local" /\ s \notin serving[Self]
      BY <2>1 DEF ServingInv, OwnIndex
    <3> QED  BY <1>2, <1>3, <1>4, <3>1
  <2>2. ASSUME NEW s \in Requests, s \in serving'[Self] PROVE task'[s][Self] = "local"
    <3>1. s # r /\ task[s][Self] = "local"
      BY <1>4, <2>2 DEF ServingInv, OwnIndex
    <3> QED  BY <1>2, <1>3, <3>1
  <2> QED  BY <2>1, <2>2 DEF ServingInv, OwnIndex
<1>7. Queries'
  BY <1>2, <1>4 DEF ServingInv, Queries, Asked, Term, front
<1> QED  BY <1>1, <1>5, <1>6, <1>7 DEF ServingInv

\* A task that was queued starts; what it starts is still to be said.
LEMMA StartedTask ==
    ASSUME ServingInv, NEW r \in Requests, NEW m \in Machines, NEW how \in {"local", "remote"},
           task[r][m] = "queued", task' = [ task EXCEPT ![r][m] = how ], how = "remote" => m # Self,
           UNCHANGED <<front, promise, faults>>,
           NEW q, taskQueue' = q, q \in Seq(Requests \X Machines), NoTwice(q), ~In(<<r, m>>, q),
           \A x : In(x, q) => In(x, taskQueue)
    PROVE  /\ RequestsInLine' /\ TasksInLine' /\ Delivered'
           /\ task' \in [Requests -> [Machines -> {"none", "queued", "local", "remote", "done"}]]
           /\ task'[r][m] = how
           /\ \A s \in Requests, n \in Machines : s # r \/ n # m => task'[s][n] = task[s][n]
<1> USE DEF front, faults
<1>1. /\ task' \in [Requests -> [Machines -> {"none", "queued", "local", "remote", "done"}]]
      /\ task'[r][m] = how
      /\ \A s \in Requests, n \in Machines : s # r \/ n # m => task'[s][n] = task[s][n]
  BY DEF ServingInv, TypeOK
<1>2. stage[r] = "gathering"
  BY DEF ServingInv, TasksInLine
<1>3. RequestsInLine'
  <2>1. ASSUME NEW s \in Requests, NEW n \in Machines, stage[s] \in {"new", "waiting"} PROVE task'[s][n] = "none"
    <3>1. s # r
      BY <1>2, <2>1
    <3> QED  BY <1>1, <2>1, <3>1 DEF ServingInv, RequestsInLine
  <2> QED  BY <2>1 DEF ServingInv, RequestsInLine
<1>4. TasksInLine'
  <2>1. ASSUME NEW s \in Requests, NEW n \in Machines, In(<<s, n>>, q) PROVE task'[s][n] = "queued"
    <3>1. <<s, n>> # <<r, m>>
      BY <2>1
    <3>2. In(<<s, n>>, taskQueue)
      BY <2>1
    <3>3. task[s][n] = "queued"
      BY <3>2 DEF ServingInv, TasksInLine
    <3>4. s # r \/ n # m
      BY <3>1
    <3> QED  BY <1>1, <3>3, <3>4
  <2>2. ASSUME NEW s \in Requests, NEW n \in Machines PROVE task'[s][n] = "done" <=> promise'[s][n] # Unset
    <3>1. task[s][n] = "done" <=> promise[s][n] # Unset
      BY DEF ServingInv, TasksInLine
    <3>2. CASE s = r /\ n = m
      BY <1>1, <3>1, <3>2
    <3>3. CASE s # r \/ n # m
      BY <1>1, <3>1, <3>3
    <3> QED  BY <3>2, <3>3
  <2>3. ASSUME NEW s \in Requests, NEW n \in Machines, task'[s][n] \in {"queued", "local", "remote"}
        PROVE  stage'[s] = "gathering"
    <3>1. CASE s = r
      BY <1>2, <3>1
    <3>2. CASE s # r
      BY <1>1, <2>3, <3>2 DEF ServingInv, TasksInLine
    <3> QED  BY <3>1, <3>2
  <2>4. ASSUME NEW s \in Requests PROVE task'[s][Self] # "remote"
    <3>1. task[s][Self] # "remote"
      BY DEF ServingInv, TasksInLine
    <3>2. CASE s = r /\ m = Self
      BY <1>1, <3>2
    <3>3. CASE s # r \/ m # Self
      BY <1>1, <3>1, <3>3, ServingAssumption
    <3> QED  BY <3>2, <3>3
  <2> QED  BY <2>1, <2>2, <2>3, <2>4 DEF TasksInLine
<1>5. Delivered'
  BY DEF ServingInv, Delivered, Asked
<1> QED  BY <1>1, <1>3, <1>4, <1>5

LEMMA StartLocalKeeps == ASSUME ServingInv, StartLocal PROVE ServingInv'
<1>1. taskQueue # << >>
  BY DEF StartLocal, QueryThreadFree
<1>2. PICK r \in Requests, m \in Machines, q \in Seq(Requests \X Machines) :
              /\ Head(taskQueue) = <<r, m>> /\ Tail(taskQueue) = q
              /\ task[r][m] = "queued" /\ stage[r] = "gathering" /\ Asked(r) /\ promise[r][m] = Unset
              /\ NoTwice(q) /\ ~In(<<r, m>>, q) /\ \A x : In(x, q) => In(x, taskQueue)
  BY <1>1, FirstTask
<1>3. /\ m = Self /\ task' = [ task EXCEPT ![r][m] = "local" ] /\ taskQueue' = q
      /\ serverQueue' = [ serverQueue EXCEPT ![Self] = Append(serverQueue[Self], r) ]
      /\ UNCHANGED << front, promise, arrived, serving, stream, faults >>
  <2>1. Head(taskQueue)[1] = r /\ Head(taskQueue)[2] = m
    BY <1>2
  <2> QED  BY <1>2, <2>1 DEF StartLocal
<1>4. /\ RequestsInLine' /\ TasksInLine' /\ Delivered'
      /\ task' \in [Requests -> [Machines -> {"none", "queued", "local", "remote", "done"}]]
      /\ task'[r][m] = "local"
      /\ \A s \in Requests, n \in Machines : s # r \/ n # m => task'[s][n] = task[s][n]
  <2>1. PICK how \in {"local", "remote"} : how = "local"
    OBVIOUS
  <2>2. task' = [ task EXCEPT ![r][m] = how ] /\ (how = "remote" => m # Self)
        /\ UNCHANGED << front, promise, faults >>
    BY <1>3, <2>1
  <2>3. RequestsInLine' /\ TasksInLine' /\ Delivered'
    BY <1>2, <1>3, <2>2, StartedTask
  <2>4. /\ task' \in [Requests -> [Machines -> {"none", "queued", "local", "remote", "done"}]]
        /\ task'[r][m] = how
        /\ \A s \in Requests, n \in Machines : s # r \/ n # m => task'[s][n] = task[s][n]
    BY <1>2, <1>3, <2>2, StartedTask
  <2> QED  BY <2>1, <2>3, <2>4
<1>5. /\ serverQueue \in [Machines -> Seq(Requests)] /\ serverQueue[Self] \in Seq(Requests)
      /\ NoTwice(serverQueue[Self])
  BY <1>2, <1>3 DEF ServingInv, TypeOK, OwnIndex
<1>6. ~In(r, serverQueue[Self]) /\ r \notin serving[Self]
  BY <1>2, <1>3 DEF ServingInv, OwnIndex
<1>7. PICK z : z = Append(serverQueue[Self], r)
  OBVIOUS
<1>8. z \in Seq(Requests) /\ NoTwice(z) /\ \A y : In(y, z) => In(y, serverQueue[Self]) \/ y = r
  BY <1>2, <1>5, <1>6, <1>7, PutOn
<1>9. /\ serverQueue' \in [Machines -> Seq(Requests)] /\ serverQueue'[Self] = z
      /\ \A n \in Machines : n # Self => serverQueue'[n] = serverQueue[n]
  BY <1>2, <1>3, <1>5, <1>7, <1>8
<1>10. TypeOK'
  BY <1>2, <1>3, <1>4, <1>9 DEF ServingInv, TypeOK, front, faults
<1>11. OwnIndex'
  <2>1. ASSUME NEW s \in Requests, In(s, z) PROVE task'[s][Self] = "local" /\ s \notin serving[Self]
    <3>1. CASE s = r
      BY <1>3, <1>4, <1>6, <3>1
    <3>2. CASE s # r
      <4>1. In(s, serverQueue[Self])
        BY <1>8, <2>1, <3>2
      <4> QED  BY <1>2, <1>3, <1>4, <3>2, <4>1 DEF ServingInv, OwnIndex
    <3> QED  BY <3>1, <3>2
  <2>2. ASSUME NEW s \in Requests, s \in serving[Self] PROVE task'[s][Self] = "local"
    <3>1. s # r
      BY <1>6, <2>2
    <3> QED  BY <1>2, <1>3, <1>4, <2>2, <3>1 DEF ServingInv, OwnIndex
  <2> QED  BY <1>3, <1>8, <1>9, <2>1, <2>2 DEF ServingInv, OwnIndex
<1>12. Queries'
  <2>1. ASSUME NEW s \in Requests, NEW n \in Machines, In(s, serverQueue'[n]) PROVE Asked(s)
    <3>1. CASE In(s, serverQueue[n])
      BY <3>1 DEF ServingInv, Queries
    <3>2. CASE n = Self /\ s = r
      BY <1>2, <3>2
    <3> QED  BY <1>8, <1>9, <2>1, <3>1, <3>2
  <2> QED  BY <1>3, <2>1 DEF ServingInv, Queries, Asked, Term, front
<1> QED  BY <1>4, <1>10, <1>11, <1>12 DEF ServingInv

LEMMA StartRemoteKeeps == ASSUME ServingInv, StartRemote PROVE ServingInv'
<1>1. taskQueue # << >>
  BY DEF StartRemote, QueryThreadFree
<1>2. PICK r \in Requests, m \in Machines, q \in Seq(Requests \X Machines) :
              /\ Head(taskQueue) = <<r, m>> /\ Tail(taskQueue) = q
              /\ task[r][m] = "queued" /\ stage[r] = "gathering" /\ Asked(r) /\ promise[r][m] = Unset
              /\ NoTwice(q) /\ ~In(<<r, m>>, q) /\ \A x : In(x, q) => In(x, taskQueue)
  BY <1>1, FirstTask
<1>3. /\ m # Self /\ task' = [ task EXCEPT ![r][m] = "remote" ] /\ taskQueue' = q
      /\ arrived' = [ arrived EXCEPT ![m] = arrived[m] \cup {r} ]
      /\ UNCHANGED << front, promise, serverQueue, serving, stream, faults >>
  <2>1. Head(taskQueue)[1] = r /\ Head(taskQueue)[2] = m
    BY <1>2
  <2> QED  BY <1>2, <2>1 DEF StartRemote
<1>4. /\ RequestsInLine' /\ TasksInLine' /\ Delivered'
      /\ task' \in [Requests -> [Machines -> {"none", "queued", "local", "remote", "done"}]]
      /\ \A s \in Requests, n \in Machines : s # r \/ n # m => task'[s][n] = task[s][n]
  BY <1>2, <1>3, StartedTask
<1>5. /\ arrived' \in [Machines -> SUBSET Requests] /\ arrived'[m] = arrived[m] \cup {r}
      /\ \A n \in Machines : n # m => arrived'[n] = arrived[n]
  <2>1. arrived \in [Machines -> SUBSET Requests]
    BY DEF ServingInv, TypeOK
  <2>2. arrived[m] \cup {r} \in SUBSET Requests
    BY <1>2, <2>1
  <2> QED  BY <1>2, <1>3, <2>1, <2>2
<1>6. TypeOK'
  BY <1>2, <1>3, <1>4, <1>5 DEF ServingInv, TypeOK, front, faults
<1>7. OwnIndex'
  <2>1. \A s \in Requests : task'[s][Self] = task[s][Self]
    BY <1>3, <1>4, ServingAssumption
  <2>2. arrived'[Self] = arrived[Self]
    BY <1>3, <1>5, ServingAssumption
  <2> QED  BY <1>3, <2>1, <2>2 DEF ServingInv, OwnIndex
<1>8. Queries'
  <2>1. ASSUME NEW s \in Requests, NEW n \in Machines, s \in arrived'[n] PROVE Asked(s)
    <3>1. CASE s \in arrived[n]
      BY <3>1 DEF ServingInv, Queries
    <3>2. CASE s = r
      BY <1>2, <3>2
    <3> QED  BY <1>5, <2>1, <3>1, <3>2
  <2> QED  BY <1>3, <2>1 DEF ServingInv, Queries, Asked, Term, front
<1> QED  BY <1>4, <1>6, <1>7, <1>8 DEF ServingInv

\* What the index servers do leaves requests and tasks as they are.
LEMMA ServersKeep ==
    ASSUME ServingInv, UNCHANGED << front, tasks, lossy >>
    PROVE  RequestsInLine' /\ TasksInLine' /\ Delivered'
<1> USE DEF ServingInv, front, tasks
<1>1. RequestsInLine'
  BY DEF RequestsInLine
<1>2. TasksInLine'
  BY DEF TasksInLine
<1>3. Delivered'
  BY DEF Delivered, Asked
<1> QED  BY <1>1, <1>2, <1>3

LEMMA ReceiveQueryKeeps ==
    ASSUME ServingInv, NEW m \in Machines, NEW r \in Requests, ReceiveQuery(m, r)
    PROVE  ServingInv'
<1>1. /\ r \in arrived[m] /\ arrived' = [ arrived EXCEPT ![m] = arrived[m] \ {r} ]
      /\ serverQueue' = [ serverQueue EXCEPT ![m] = Append(serverQueue[m], r) ]
      /\ UNCHANGED << front, tasks, serving, stream, faults >>
  BY DEF ReceiveQuery
<1>2. m # Self
  BY <1>1 DEF ServingInv, OwnIndex
<1>3. /\ arrived \in [Machines -> SUBSET Requests] /\ serverQueue \in [Machines -> Seq(Requests)]
  BY DEF ServingInv, TypeOK
<1>4. PICK z : z = Append(serverQueue[m], r)
  OBVIOUS
<1>5. z \in Seq(Requests) /\ \A y : In(y, z) => In(y, serverQueue[m]) \/ y = r
  BY <1>3, <1>4, PutOn
<1>6. /\ serverQueue' \in [Machines -> Seq(Requests)] /\ serverQueue'[m] = z
      /\ \A n \in Machines : n # m => serverQueue'[n] = serverQueue[n]
  BY <1>1, <1>3, <1>4, <1>5
<1>7. /\ arrived' \in [Machines -> SUBSET Requests]
      /\ \A n \in Machines : arrived'[n] \subseteq arrived[n] /\ (n # m => arrived'[n] = arrived[n])
  <2>1. arrived[m] \ {r} \in SUBSET Requests
    BY <1>3
  <2> QED  BY <1>1, <1>3, <2>1
<1>8. TypeOK'
  BY <1>1, <1>6, <1>7 DEF ServingInv, TypeOK, front, tasks, faults
<1>9. OwnIndex'
  BY <1>1, <1>2, <1>6, <1>7, ServingAssumption DEF ServingInv, OwnIndex, tasks
<1>10. Queries'
  <2>1. ASSUME NEW s \in Requests, NEW n \in Machines, In(s, serverQueue'[n]) PROVE Asked(s)
    <3>1. CASE In(s, serverQueue[n])
      BY <3>1 DEF ServingInv, Queries
    <3>2. CASE s = r
      BY <1>1, <3>2 DEF ServingInv, Queries
    <3> QED  BY <1>5, <1>6, <2>1, <3>1, <3>2
  <2>2. ASSUME NEW s \in Requests, NEW n \in Machines, s \in arrived'[n] \cup serving[n] PROVE Asked(s)
    <3>1. s \in arrived[n] \cup serving[n]
      BY <1>7, <2>2
    <3> QED  BY <3>1 DEF ServingInv, Queries
  <2> QED  BY <1>1, <2>1, <2>2 DEF ServingInv, Queries, Asked, Term, front
<1>11. UNCHANGED << front, tasks, lossy >>
  BY <1>1 DEF faults
<1> QED  BY <1>8, <1>9, <1>10, <1>11, ServersKeep DEF ServingInv

LEMMA TakeQueryKeeps ==
    ASSUME ServingInv, NEW m \in Machines, TakeQuery(m)
    PROVE  ServingInv'
<1>1. PICK r : r = Head(serverQueue[m])
  OBVIOUS
<1>2. PICK z : z = Tail(serverQueue[m])
  OBVIOUS
<1>3. /\ serverQueue[m] # << >> /\ serving' = [ serving EXCEPT ![m] = serving[m] \cup {r} ]
      /\ serverQueue' = [ serverQueue EXCEPT ![m] = z ]
      /\ UNCHANGED << front, tasks, arrived, stream, faults >>
  BY <1>1, <1>2 DEF TakeQuery
<1>4. serving \in [Machines -> SUBSET Requests] /\ serverQueue \in [Machines -> Seq(Requests)]
  BY DEF ServingInv, TypeOK
<1>5. /\ r \in Requests /\ z \in Seq(Requests) /\ In(r, serverQueue[m])
      /\ \A x : In(x, z) => In(x, serverQueue[m])
      /\ NoTwice(serverQueue[m]) => NoTwice(z) /\ ~In(r, z)
  BY <1>1, <1>2, <1>3, <1>4, TakenOff
<1>6. /\ serverQueue' \in [Machines -> Seq(Requests)] /\ serverQueue'[m] = z
      /\ \A n \in Machines : n # m => serverQueue'[n] = serverQueue[n]
  BY <1>3, <1>4, <1>5
<1>7. /\ serving' \in [Machines -> SUBSET Requests] /\ serving'[m] = serving[m] \cup {r}
      /\ \A n \in Machines : n # m => serving'[n] = serving[n]
  <2>1. serving[m] \cup {r} \in SUBSET Requests
    BY <1>4, <1>5
  <2> QED  BY <1>3, <1>4, <2>1
<1>8. TypeOK'
  BY <1>3, <1>6, <1>7 DEF ServingInv, TypeOK, front, tasks, faults
<1>9. OwnIndex'
  <2>1. CASE m # Self
    BY <1>3, <1>6, <1>7, <2>1, ServingAssumption DEF ServingInv, OwnIndex, tasks
  <2>2. CASE m = Self
    <3>1. NoTwice(z) /\ ~In(r, z) /\ task[r][Self] = "local"
      BY <1>5, <2>2 DEF ServingInv, OwnIndex
    <3>2. ASSUME NEW s \in Requests, In(s, z) PROVE task[s][Self] = "local" /\ s \notin serving'[Self]
      <4>1. In(s, serverQueue[Self]) /\ s # r
        BY <1>5, <2>2, <3>1, <3>2
      <4> QED  BY <1>7, <2>2, <4>1 DEF ServingInv, OwnIndex
    <3>3. ASSUME NEW s \in Requests, s \in serving'[Self] PROVE task[s][Self] = "local"
      <4>1. CASE s = r
        BY <3>1, <4>1
      <4>2. CASE s # r
        BY <1>7, <2>2, <3>3, <4>2 DEF ServingInv, OwnIndex
      <4> QED  BY <4>1, <4>2
    <3> QED  BY <1>3, <1>6, <2>2, <3>1, <3>2, <3>3 DEF ServingInv, OwnIndex, tasks
  <2> QED  BY <2>1, <2>2
<1>10. Queries'
  <2>1. ASSUME NEW s \in Requests, NEW n \in Machines, In(s, serverQueue'[n]) PROVE Asked(s)
    <3>1. In(s, serverQueue[n])
      BY <1>5, <1>6, <2>1
    <3> QED  BY <3>1 DEF ServingInv, Queries
  <2>2. ASSUME NEW s \in Requests, NEW n \in Machines, s \in arrived[n] \cup serving'[n] PROVE Asked(s)
    <3>1. CASE s \in arrived[n] \cup serving[n]
      BY <3>1 DEF ServingInv, Queries
    <3>2. CASE n = m /\ s = r
      BY <1>5, <3>2 DEF ServingInv, Queries
    <3> QED  BY <1>7, <2>2, <3>1, <3>2
  <2> QED  BY <1>3, <2>1, <2>2 DEF ServingInv, Queries, Asked, Term, front
<1>11. UNCHANGED << front, tasks, lossy >>
  BY <1>3 DEF faults
<1> QED  BY <1>8, <1>9, <1>10, <1>11, ServersKeep DEF ServingInv

\* Another machine writes its answer onto the connection.
LEMMA AnswerRemoteKeeps ==
    ASSUME ServingInv, NEW m \in Machines, NEW r \in Requests, AnswerQuery(m, r), m # Self
    PROVE  ServingInv' /\ UNCHANGED << front, tasks, lossy >>
<1>1. PICK pages \in handle_query[m][Term(r)] :
         /\ r \in serving[m] /\ serving' = [ serving EXCEPT ![m] = serving[m] \ {r} ]
         /\ stream' = [ stream EXCEPT ![r][m] = pages ] /\ UNCHANGED << task, promise >>
         /\ UNCHANGED << front, taskQueue, arrived, serverQueue, faults >>
  BY DEF AnswerQuery
<1>2. Asked(r)
  BY <1>1 DEF ServingInv, Queries
<1>3. pages \in Seq(LeanPage)
  <2>1. Term(r) \in Understood
    BY <1>2, Asking DEF Asked, Term
  <2> QED  BY <1>1, <2>1, MachineAnswersBest DEF Best
<1>4. /\ stream' \in [Requests -> [Machines -> Pages]] /\ stream'[r][m] = pages
      /\ \A s \in Requests, n \in Machines : s # r \/ n # m => stream'[s][n] = stream[s][n]
  <2>1. stream \in [Requests -> [Machines -> Pages]] /\ pages \in Pages
    BY <1>3 DEF ServingInv, TypeOK, Pages
  <2> QED  BY <1>1, <2>1
<1>5. /\ serving' \in [Machines -> SUBSET Requests]
      /\ \A n \in Machines : serving'[n] \subseteq serving[n] /\ (n # m => serving'[n] = serving[n])
  <2>1. serving \in [Machines -> SUBSET Requests]
    BY DEF ServingInv, TypeOK
  <2>2. serving[m] \ {r} \in SUBSET Requests
    BY <2>1
  <2> QED  BY <1>1, <2>1, <2>2
<1>6. TypeOK'
  BY <1>1, <1>4, <1>5 DEF ServingInv, TypeOK, front, faults
<1>7. OwnIndex'
  BY <1>1, <1>5, ServingAssumption DEF ServingInv, OwnIndex
<1>8. Queries'
  <2>1. ASSUME NEW s \in Requests, NEW n \in Machines, s \in arrived[n] \cup serving'[n] PROVE Asked(s)
    <3>1. s \in arrived[n] \cup serving[n]
      BY <1>5, <2>1
    <3> QED  BY <3>1 DEF ServingInv, Queries
  <2>2. ASSUME NEW s \in Requests, NEW n \in Machines, stream'[s][n] # Unset
        PROVE  Asked(s) /\ stream'[s][n] \in handle_query[n][Term(s)]
    <3>1. CASE s = r /\ n = m
      BY <1>1, <1>2, <1>4, <3>1
    <3>2. CASE s # r \/ n # m
      <4>1. stream'[s][n] = stream[s][n]
        BY <1>4, <3>2
      <4> QED  BY <2>2, <4>1 DEF ServingInv, Queries
    <3> QED  BY <3>1, <3>2
  <2> QED  BY <1>1, <2>1, <2>2 DEF ServingInv, Queries, Asked, Term, front
<1>9. UNCHANGED << front, tasks, lossy >>
  BY <1>1 DEF tasks, faults
<1> QED  BY <1>6, <1>7, <1>8, <1>9, ServersKeep DEF ServingInv

LEMMA MachineDiesKeeps ==
    ASSUME ServingInv, NEW m \in Machines, MachineDies(m)
    PROVE  ServingInv'
<1>1. /\ m # Self /\ UNCHANGED << front, tasks, stream, lossy >>
      /\ arrived' = [ arrived EXCEPT ![m] = {} ] /\ serving' = [ serving EXCEPT ![m] = {} ]
      /\ serverQueue' = [ serverQueue EXCEPT ![m] = << >> ]
  BY DEF MachineDies
<1>2. /\ arrived \in [Machines -> SUBSET Requests] /\ serving \in [Machines -> SUBSET Requests]
      /\ serverQueue \in [Machines -> Seq(Requests)]
  BY DEF ServingInv, TypeOK
<1>3. \A s : ~In(s, << >>)
  BY DEF In
<1>4. /\ arrived' \in [Machines -> SUBSET Requests] /\ serving' \in [Machines -> SUBSET Requests]
      /\ serverQueue' \in [Machines -> Seq(Requests)]
      /\ arrived'[m] = {} /\ serving'[m] = {} /\ serverQueue'[m] = << >>
      /\ \A n \in Machines : n # m =>
           arrived'[n] = arrived[n] /\ serving'[n] = serving[n] /\ serverQueue'[n] = serverQueue[n]
  <2>1. {} \in SUBSET Requests /\ << >> \in Seq(Requests)
    OBVIOUS
  <2> QED  BY <1>1, <1>2, <2>1
<1>5. TypeOK'
  BY <1>1, <1>4 DEF ServingInv, TypeOK, front, tasks
<1>6. OwnIndex'
  BY <1>1, <1>4, ServingAssumption DEF ServingInv, OwnIndex, tasks
<1>7. Queries'
  <2>1. ASSUME NEW s \in Requests, NEW n \in Machines, s \in arrived'[n] \cup serving'[n] \/ In(s, serverQueue'[n])
        PROVE  Asked(s)
    <3>1. n # m
      BY <1>3, <1>4, <2>1
    <3> QED  BY <1>4, <2>1, <3>1 DEF ServingInv, Queries
  <2> QED  BY <1>1, <2>1 DEF ServingInv, Queries, Asked, Term, front
<1> QED  BY <1>1, <1>5, <1>6, <1>7, ServersKeep DEF ServingInv

\* A step of the task pool that delivers nothing, or one of the servers.
Quiet ==
    \/ StartLocal \/ StartRemote
    \/ \E m \in Machines : MachineDies(m) \/ TakeQuery(m)
                           \/ \E r \in Requests : ReceiveQuery(m, r) \/ (AnswerQuery(m, r) /\ m # Self)

LEMMA QuietKeeps ==
    ASSUME ServingInv, Quiet
    PROVE  ServingInv' /\ UNCHANGED << promise, results, sent, lossy >>
<1>1. CASE StartLocal
  BY <1>1, StartLocalKeeps DEF StartLocal, front, faults
<1>2. CASE StartRemote
  BY <1>2, StartRemoteKeeps DEF StartRemote, front, faults
<1>3. ASSUME NEW m \in Machines, MachineDies(m) PROVE ServingInv' /\ UNCHANGED << promise, results, sent, lossy >>
  BY <1>3, MachineDiesKeeps DEF MachineDies, front, tasks
<1>4. ASSUME NEW m \in Machines, TakeQuery(m) PROVE ServingInv' /\ UNCHANGED << promise, results, sent, lossy >>
  BY <1>4, TakeQueryKeeps DEF TakeQuery, front, tasks, faults
<1>5. ASSUME NEW m \in Machines, NEW r \in Requests, ReceiveQuery(m, r)
      PROVE  ServingInv' /\ UNCHANGED << promise, results, sent, lossy >>
  BY <1>5, ReceiveQueryKeeps DEF ReceiveQuery, front, tasks, faults
<1>6. ASSUME NEW m \in Machines, NEW r \in Requests, AnswerQuery(m, r), m # Self
      PROVE  ServingInv' /\ UNCHANGED << promise, results, sent, lossy >>
  BY <1>6, AnswerRemoteKeeps DEF front, tasks
<1> QED  BY <1>1, <1>2, <1>3, <1>4, <1>5, <1>6 DEF Quiet

\* A step that delivers to a request what a machine contributes.
Delivers ==
    \/ ConnectFails \/ \E r \in Requests : QueryThrows(r) \/ AnswerQuery(Self, r)
    \/ \E r \in Requests, m \in Machines : ReadAnswer(r, m) \/ AnswerTimesOut(r, m)

LEMMA DeliversKeeps ==
    ASSUME ServingInv, Delivers
    PROVE  ServingInv' /\ \E r \in Requests, m \in Machines : SG!Contribute(r, m)
<1>0. ASSUME NEW r, NEW m, NEW pages, NEW q, Delivery(r, m, pages, q)
      PROVE  \E s \in Requests, n \in Machines : SG!Contribute(s, n)
  BY <1>0, DeliveryContributes DEF Delivery
<1>1. CASE ConnectFails
  <2>1. UNCHANGED server
    BY <1>1 DEF ConnectFails
  <2> QED  BY <1>0, <1>1, <2>1, ConnectFailsDelivers, RemoteDeliveryKeeps
<1>2. ASSUME NEW r \in Requests, QueryThrows(r)
      PROVE  ServingInv' /\ \E s \in Requests, n \in Machines : SG!Contribute(s, n)
  <2>1. /\ r \in serving[Self] /\ serving' = [ serving EXCEPT ![Self] = serving[Self] \ {r} ]
        /\ UNCHANGED << arrived, serverQueue, stream >>
    BY <1>2 DEF QueryThrows
  <2>2. Delivery(r, Self, << >>, taskQueue)
    BY <1>2, QueryThrowsDelivers
  <2> QED  BY <1>0, <2>1, <2>2, LocalDeliveryKeeps
<1>3. ASSUME NEW r \in Requests, AnswerQuery(Self, r)
      PROVE  ServingInv' /\ \E s \in Requests, n \in Machines : SG!Contribute(s, n)
  <2>1. /\ r \in serving[Self] /\ serving' = [ serving EXCEPT ![Self] = serving[Self] \ {r} ]
        /\ UNCHANGED << arrived, serverQueue, stream >>
    BY <1>3 DEF AnswerQuery
  <2>2. PICK pages : Delivery(r, Self, pages, taskQueue)
    BY <1>3, AnswerQueryDelivers
  <2> QED  BY <1>0, <2>1, <2>2, LocalDeliveryKeeps
<1>4. ASSUME NEW r \in Requests, NEW m \in Machines, ReadAnswer(r, m)
      PROVE  ServingInv' /\ \E s \in Requests, n \in Machines : SG!Contribute(s, n)
  <2>1. UNCHANGED server
    BY <1>4 DEF ReadAnswer
  <2> QED  BY <1>0, <1>4, <2>1, ReadAnswerDelivers, RemoteDeliveryKeeps
<1>5. ASSUME NEW r \in Requests, NEW m \in Machines, AnswerTimesOut(r, m)
      PROVE  ServingInv' /\ \E s \in Requests, n \in Machines : SG!Contribute(s, n)
  <2>1. UNCHANGED server
    BY <1>5 DEF AnswerTimesOut
  <2> QED  BY <1>0, <1>5, <2>1, AnswerTimesOutDelivers, RemoteDeliveryKeeps
<1> QED  BY <1>1, <1>2, <1>3, <1>4, <1>5 DEF Delivers

\* Every step is the HTML server's, a delivery, a quiet one, or none.
LEMMA StepIs ==
    ASSUME [Next]_vars
    PROVE  \/ \E r \in Requests : Accept(r)
           \/ TakeOther \/ TakeSearch \/ \E r \in Requests : Gather(r)
           \/ Delivers \/ Quiet \/ UNCHANGED vars
BY DEF Next, Html, Handler, Remote, Servers, Poll, Delivers, Quiet

LEMMA StutterKeeps == ASSUME ServingInv, UNCHANGED vars PROVE ServingInv'
<1>1. UNCHANGED << front, tasks, server, faults, lossy >>
  BY DEF vars, faults
<1>2. TypeOK'
  BY <1>1 DEF ServingInv, TypeOK, front, tasks, server
<1>3. OwnIndex'
  BY <1>1 DEF ServingInv, OwnIndex, tasks, server
<1>4. Queries'
  BY <1>1 DEF ServingInv, Queries, Asked, Term, front, server
<1> QED  BY <1>1, <1>2, <1>3, <1>4, ServersKeep DEF ServingInv

LEMMA ServingNext == ServingInv /\ [Next]_vars => ServingInv'
BY StepIs, AcceptKeeps, TakeOtherKeeps, TakeSearchKeeps, GatherKeeps, DeliversKeeps, QuietKeeps, StutterKeeps

(* In every state of the service: types, queues and tasks in line, the own       *)
(* index at work for waiting tasks only, and only contributions delivered.      *)
THEOREM ServingInvariant == Spec => []ServingInv
BY ServingInit, ServingNext, PTL DEF Spec

(* Every state of the service, seen as promises and answers, is one of the      *)
(* abstract scatter and gather, and every step one of its steps or none.        *)
LEMMA InitGathers == Init => SG!Init
BY DEF Init, SG!Init, PerMachine

LEMMA AnswerMeans ==
    ASSUME NEW r
    PROVE  SG!Answer(r) <=>
              /\ results[r] = Unset /\ results'[r] # Unset
              /\ \/ /\ \A m \in Machines : promise[r][m] # Unset
                    /\ SG!IsBestOf(results'[r], SG!Gathered(r), NUM_RESULTS_RETURN)
                 \/ NoQuery(sent[r]) /\ results'[r] = << >>
              /\ results' = [ results EXCEPT ![r] = results'[r] ]
              /\ UNCHANGED << promise, sent, lossy >>
BY DEF SG!Answer

LEMMA GatheredIs == ASSUME NEW r PROVE SG!Gathered(r) = Joint(promise[r])
<1>1. \A s : SG!FlattenSeq(s) = FlattenSeq(s)
  BY DEF SG!FlattenSeq, FlattenSeq
<1> QED  BY <1>1 DEF SG!Gathered, Joint

LEMMA GatherAnswers == ASSUME ServingInv, NEW r \in Requests, Gather(r) PROVE SG!Answer(r)
<1>1. /\ stage[r] = "gathering" /\ \A m \in Machines : promise[r][m] # Unset
      /\ UNCHANGED << promise, sent, lossy >>
  BY DEF Gather, tasks, faults
<1>2. results[r] = Unset
  BY <1>1 DEF ServingInv, Delivered
<1>3. /\ results' \in [Requests -> Pages] /\ results'[r] # Unset
      /\ \A s \in Requests : s # r => results'[s] = results[s]
      /\ SG!IsBestOf(results'[r], Joint(promise[r]), NUM_RESULTS_RETURN)
  BY GatherMeans
<1>4. results' = [ results EXCEPT ![r] = results'[r] ]
  BY <1>3 DEF ServingInv, TypeOK
<1>5. SG!IsBestOf(results'[r], SG!Gathered(r), NUM_RESULTS_RETURN)
  BY <1>3, GatheredIs
<1> QED  BY <1>1, <1>2, <1>3, <1>4, <1>5, AnswerMeans

LEMMA TakeOtherAnswers ==
    ASSUME ServingInv, TakeOther
    PROVE  (\E r \in Requests : SG!Answer(r)) \/ UNCHANGED << promise, results, sent, lossy >>
<1>1. PICK r : r = Head(htmlQueue)
  OBVIOUS
<1>2. htmlQueue \in Seq(Requests) /\ htmlQueue # << >>
  BY DEF ServingInv, TypeOK, TakeOther
<1>3. r \in Requests /\ In(r, htmlQueue)
  BY <1>1, <1>2, TakenOff
<1>4. UNCHANGED << promise, sent, lossy >>
  BY DEF TakeOther, tasks, faults
<1>5. CASE ~IsSearch(r)
  BY <1>1, <1>4, <1>5 DEF TakeOther
<1>6. CASE IsSearch(r)
  <2>1. results' = [ results EXCEPT ![r] = << >> ] /\ NoQuery(sent[r])
    BY <1>1, <1>6 DEF TakeOther, IsSearch, Term, NoQuery
  <2>2. results \in [Requests -> Pages] /\ << >> # Unset
    BY NoHits, HitsAssumption DEF ServingInv, TypeOK
  <2>3. results'[r] = << >> /\ results' = [ results EXCEPT ![r] = results'[r] ]
    BY <1>3, <2>1, <2>2
  <2>4. results[r] = Unset
    <3>1. stage[r] = "waiting"
      BY <1>3 DEF ServingInv, RequestsInLine
    <3> QED  BY <1>3, <3>1 DEF ServingInv, Delivered
  <2>5. SG!Answer(r)
    BY <1>4, <2>1, <2>2, <2>3, <2>4, AnswerMeans
  <2> QED  BY <1>3, <2>5
<1> QED  BY <1>5, <1>6

LEMMA StepGathers == ServingInv /\ [Next]_vars => [SG!Next]_<<promise, results, sent, lossy>>
<1> SUFFICES ASSUME ServingInv, [Next]_vars
             PROVE  SG!Next \/ UNCHANGED << promise, results, sent, lossy >>
  OBVIOUS
<1>1. ASSUME NEW r \in Requests, Accept(r) PROVE UNCHANGED << promise, results, sent, lossy >>
  BY <1>1 DEF Accept, tasks, faults
<1>2. TakeSearch => UNCHANGED << promise, results, sent, lossy >>
  BY DEF TakeSearch, faults
<1>3. UNCHANGED vars => UNCHANGED << promise, results, sent, lossy >>
  BY DEF vars, front, tasks, faults
<1>4. ASSUME NEW r \in Requests, Gather(r) PROVE SG!Next
  BY <1>4, GatherAnswers DEF SG!Next
<1>5. Delivers => SG!Next
  BY DeliversKeeps DEF SG!Next
<1>6. TakeOther => SG!Next \/ UNCHANGED << promise, results, sent, lossy >>
  BY TakeOtherAnswers DEF SG!Next
<1> QED  BY <1>1, <1>2, <1>3, <1>4, <1>5, <1>6, StepIs, QuietKeeps

(* Whatever the threads, timeouts and failures, the service behaves as the      *)
(* abstract scatter and gather (query_handler.h:99).                         *)
THEOREM ServiceGathers == Spec => ImplementsScatterGather
<1>1. Spec => [](ServingInv) /\ Init /\ [][Next]_vars
  BY ServingInvariant, PTL DEF Spec
<1>2. Init => SG!Init
  BY InitGathers
<1>3. ServingInv /\ [Next]_vars => [SG!Next]_<<promise, results, sent, lossy>>
  BY StepGathers
<1> QED  BY <1>1, <1>2, <1>3, PTL DEF ImplementsScatterGather, SG!Spec, SG!promised

-----------------------------------------------------------------------------
(* The best overall                                                         *)

\* A part that has all a machine could give is the best of what it has.
LEMMA WholePart ==
    ASSUME NEW q, NEW m, NEW h \in Seq(LeanPage), h = HitsFor(q, m), NEW pages \in Seq(LeanPage),
           SG!MayContribute(q, m, FALSE, pages),
           Len(pages) = (IF Len(h) < RANKED_ON_EACH THEN Len(h) ELSE RANKED_ON_EACH)
    PROVE  SG!IsBestOf(pages, h, RANKED_ON_EACH)
<1>1. \/ pages = << >>
      \/ SG!IsBestOf(pages, h, RANKED_ON_EACH)
      \/ \E n \in 0..RANKED_ON_EACH : SG!IsBestOf(pages, h, n)
  BY MayMeans
<1>2. ASSUME pages = << >> PROVE SG!IsBestOf(pages, h, RANKED_ON_EACH)
  <2>1. Len(pages) = 0 /\ 1..Len(pages) = {} /\ DOMAIN pages = {}
    BY <1>2
  <2>2. Ordered(pages)
    BY <2>1 DEF Ordered
  <2> DEFINE place == [i \in {} |-> 1]
  <2>3. place \in Injection(1..Len(pages), 1..Len(h))
    BY <2>1 DEF Injection, IsInjective
  <2> HIDE DEF place
  <2>4. TakenFrom(pages, h, place)
    BY <2>1 DEF TakenFrom
  <2> QED  BY <2>2, <2>3, <2>4, BestMeans
<1>3. ASSUME NEW n \in 0..RANKED_ON_EACH, SG!IsBestOf(pages, h, n) PROVE SG!IsBestOf(pages, h, RANKED_ON_EACH)
  <2>1. /\ Ordered(pages)
        /\ \E place \in Injection(1..Len(pages), 1..Len(h)) : TakenFrom(pages, h, place)
    BY <1>3, BestMeans
  <2> QED  BY <2>1, BestMeans
<1> QED  BY <1>1, <1>2, <1>3

LEMMA SmallerOf == ASSUME NEW a \in Nat, NEW b \in Nat PROVE Min({a, b}) = IF b < a THEN b ELSE a
BY DEF Min

(* When every machine delivered all it had to, the two cuts, to RANKED_ON_EACH  *)
(* at each machine (index_manager.h:119) and to NUM_RESULTS_RETURN              *)
(* (query_handler.h:104), lose nothing that belongs in the answer.            *)
LEMMA InvGivesBest == ServingInv => BestOverall
<1> SUFFICES ASSUME ServingInv, NEW r \in Requests,
                    stage[r] = "done", ~NoQuery(sent[r]), lossy = {},
                    \A m \in Machines : Len(promise[r][m]) = Min({ RANKED_ON_EACH, Len(AllHits(m, Term(r))) })
             PROVE  SG!IsBestOf(results[r],
                      FlattenSeq([ i \in DOMAIN MachineOrder |-> AllHits(MachineOrder[i], Term(r)) ]),
                      NUM_RESULTS_RETURN)
  BY DEF BestOverall
<1>1. PICK term \in Understood : term = Term(r) /\ term = HandleClient[sent[r]].term
  BY Asking DEF Term
<1>2. PICK p : p = promise[r]
  OBVIOUS
<1>3. /\ \A m \in Machines : p[m] # Unset
      /\ SG!IsBestOf(results[r], Joint(p), NUM_RESULTS_RETURN)
  BY <1>2 DEF ServingInv, Delivered, Asked
<1>4. p \in [Machines -> Seq(LeanPage)]
  BY <1>2, <1>3 DEF ServingInv, TypeOK, Pages
<1> DEFINE h == [m \in Machines |-> AllHits(m, term)]
<1>5. h \in [Machines -> Seq(LeanPage)] /\ \A m \in Machines : h[m] = AllHits(m, term)
  BY HitsAre
<1> HIDE DEF h
<1>6. ASSUME NEW m \in Machines PROVE SG!IsBestOf(p[m], h[m], RANKED_ON_EACH)
  <2>1. PICK pages \in Seq(LeanPage), hits \in Seq(LeanPage) : pages = p[m] /\ hits = h[m]
    BY <1>4, <1>5
  <2>2. hits = HitsFor(sent[r], m) /\ hits = AllHits(m, Term(r))
    BY <1>1, <1>5, <2>1 DEF HitsFor
  <2>3. SG!MayContribute(sent[r], m, m \in lossy, promise[r][m])
    BY <1>2, <1>3 DEF ServingInv, Delivered
  <2>4. SG!MayContribute(sent[r], m, FALSE, pages)
    <3>1. \/ pages = << >>
          \/ SG!IsBestOf(pages, HitsFor(sent[r], m), RANKED_ON_EACH)
          \/ m # Self /\ \E n \in 0..RANKED_ON_EACH : SG!IsBestOf(pages, HitsFor(sent[r], m), n)
      BY <1>2, <2>1, <2>3, MayMeans
    <3> QED  BY <3>1, MayMeans
  <2>5. Len(pages) = IF Len(hits) < RANKED_ON_EACH THEN Len(hits) ELSE RANKED_ON_EACH
    <3>1. Len(pages) = Min({ RANKED_ON_EACH, Len(hits) }) /\ Len(hits) \in Nat
      BY <1>2, <2>1, <2>2
    <3> QED  BY <3>1, Bounds, SmallerOf
  <2> QED  BY <2>1, <2>2, <2>4, <2>5, WholePart
<1>7. PICK n \in Nat : n = Cardinality(Machines)
  BY ServingAssumption, FS_CardinalityType
<1>8. MachineOrder \in [1..n -> Machines] /\ DOMAIN MachineOrder = 1..n
  BY <1>7, OrderOfMachines DEF Bijection, Injection
<1> DEFINE P == [i \in 1..n |-> p[MachineOrder[i]]]
           H == [i \in 1..n |-> h[MachineOrder[i]]]
<1>9. /\ P \in [1..n -> Seq(LeanPage)] /\ H \in [1..n -> Seq(LeanPage)]
      /\ \A a \in 1..n : SG!IsBestOf(P[a], H[a], RANKED_ON_EACH)
  BY <1>4, <1>5, <1>6, <1>8
<1>10. Joint(p) = FlattenSeq(P)
  BY <1>8 DEF Joint
<1>11. FlattenSeq([ i \in DOMAIN MachineOrder |-> AllHits(MachineOrder[i], Term(r)) ]) = FlattenSeq(H)
  <2>1. [ i \in DOMAIN MachineOrder |-> AllHits(MachineOrder[i], Term(r)) ] = H
    BY <1>1, <1>5, <1>8
  <2> QED  BY <2>1
<1> HIDE DEF P, H
<1>12. /\ P \in Seq(Seq(LeanPage)) /\ Len(P) = n /\ H \in Seq(Seq(LeanPage)) /\ Len(H) = n
  BY <1>9, FunctionIsSeq
<1>13. PICK w \in Seq(LeanPage) : w = FlattenSeq(P) /\ MadeOf(w, P, n)
  BY <1>12, JoinKeepsElements
<1>14. PICK all \in Seq(LeanPage) : all = FlattenSeq(H) /\ MadeOf(all, H, n)
  BY <1>12, JoinKeepsElements
<1>15. Kept(w, all, RANKED_ON_EACH)
  BY <1>9, <1>13, <1>14, Bounds, CutParts
<1>16. PICK taken \in Seq(LeanPage) : taken = results[r] /\ SG!IsBestOf(taken, w, NUM_RESULTS_RETURN)
  <2>1. SG!IsBestOf(results[r], w, NUM_RESULTS_RETURN)
    BY <1>3, <1>10, <1>13
  <2>2. results[r] \in Seq(LeanPage)
    BY DEF ServingInv, TypeOK, Delivered, Asked, Pages
  <2> QED  BY <2>1, <2>2
<1>17. NUM_RESULTS_RETURN \in 0..RANKED_ON_EACH
  BY ServingAssumption
<1>18. SG!IsBestOf(taken, all, NUM_RESULTS_RETURN)
  BY <1>15, <1>16, <1>17, Bounds, BestOfKept
<1> QED  BY <1>11, <1>14, <1>16, <1>18

(* So in every state: an answer for which every machine delivered its best is   *)
(* the best of all pages in all chunks of all machines.                      *)
THEOREM BestOverallHolds == Spec => []BestOverall
BY ServingInvariant, InvGivesBest, PTL

-----------------------------------------------------------------------------
(* The pages of the results.  A number that is written into a link is read back *)
(* from it (DecimalIs, AtoiReads); no other p= comes before it (LinkReads).    *)

LEMMA DivMeans ==
    ASSUME NEW a \in Nat, NEW P \in Nat \ {0}
    PROVE  a \div P \in Nat /\ (a \div P) * P <= a /\ a < (a \div P) * P + P
OBVIOUS

LEMMA TimesLess ==
    ASSUME NEW a \in Nat, NEW b \in Nat, a < b, NEW P \in Nat \ {0}
    PROVE  a * P + P <= b * P /\ a * P \in Nat /\ b * P \in Nat
OBVIOUS

LEMMA MinIs ==
    ASSUME NEW S \in SUBSET Nat, S # {}
    PROVE  Min(S) \in S /\ \A x \in S : Min(S) <= x
BY LeastNumber DEF Min

LEMMA MaxOf ==
    ASSUME NEW a \in Nat, NEW b \in Nat
    PROVE  Max({a, b}) = IF a < b THEN b ELSE a
BY DEF Max

\* Where the first c stands in s, from an index on.
LEMMA IndexIs ==
    ASSUME NEW s \in Seq(Nat), NEW c, NEW from \in 1..(Len(s) + 1),
           NEW i, i = IndexFrom(s, c, from)
    PROVE  /\ i \in from..(Len(s) + 1)
           /\ \A k \in from..(i - 1) : s[k] # c
           /\ i <= Len(s) => s[i] = c
<1> DEFINE S == {k \in from..Len(s) : s[k] = c} \cup {Len(s) + 1}
<1>1. Max({from, Len(s) + 1}) = Len(s) + 1
  BY MaxOf
<1>2. i = Min(S)
  BY <1>1 DEF IndexFrom
<1>3. S \in SUBSET Nat /\ S # {}
  OBVIOUS
<1>4. i \in S /\ \A x \in S : i <= x
  <2> HIDE DEF S
  <2> QED  BY <1>2, <1>3, MinIs
<1>5. i \in from..(Len(s) + 1) /\ (i <= Len(s) => s[i] = c)
  BY <1>4
<1>6. ASSUME NEW k \in from..(i - 1) PROVE s[k] # c
  <2>1. k \in from..Len(s) /\ k < i
    BY <1>5
  <2>2. k \notin S
    BY <1>4, <1>5, <2>1
  <2> QED  BY <2>1, <2>2
<1> QED  BY <1>5, <1>6

\* Such a place is the only one.
FirstAt(s, c, from, i) == /\ from \in 1..(Len(s) + 1) /\ i \in from..(Len(s) + 1)
                          /\ \A k \in from..(i - 1) : s[k] # c
                          /\ i <= Len(s) => s[i] = c

LEMMA IndexOnly ==
    ASSUME NEW s \in Seq(Nat), NEW c, NEW from, NEW i, FirstAt(s, c, from, i)
    PROVE  IndexFrom(s, c, from) = i
<1>0. /\ from \in 1..(Len(s) + 1) /\ i \in from..(Len(s) + 1)
      /\ \A k \in from..(i - 1) : s[k] # c
      /\ i <= Len(s) => s[i] = c
  BY DEF FirstAt
<1>1. PICK j : j = IndexFrom(s, c, from)
  OBVIOUS
<1>2. /\ j \in from..(Len(s) + 1)
      /\ \A k \in from..(j - 1) : s[k] # c
      /\ j <= Len(s) => s[j] = c
  BY <1>0, <1>1, IndexIs
<1>3. ~(i < j)
  BY <1>0, <1>2
<1>4. ~(j < i)
  BY <1>0, <1>2
<1> QED  BY <1>0, <1>1, <1>2, <1>3, <1>4

LEMMA BaseIs ==
    ASSUME NEW path \in Seq(Nat), NEW base, base = BaseUrl(path)
    PROVE  /\ base \in Seq(Nat) /\ Len(base) <= Len(path)
           /\ \A k \in 1..Len(base) : base[k] = path[k] /\ path[k] # QMark
           /\ IndexFrom(path, QMark, 1) = Len(base) + 1
<1>1. PICK q : q = IndexFrom(path, QMark, 1)
  OBVIOUS
<1>2. /\ q \in 1..(Len(path) + 1)
      /\ \A k \in 1..(q - 1) : path[k] # QMark
  BY <1>1, IndexIs
<1>3. PICK n \in 0..Len(path) : n = q - 1
  BY <1>2
<1>4. base = SubSeq(path, 1, n)
  BY <1>1, <1>3 DEF BaseUrl
<1>5. base \in Seq(Nat) /\ Len(base) = n /\ \A k \in 1..n : base[k] = path[k]
  BY <1>4, SubSeqProperties
<1> QED  BY <1>1, <1>2, <1>3, <1>5

\* The path a request names consists of bytes of it.
LEMMA PathIs ==
    ASSUME NEW text \in Seq(0..255)
    PROVE  parse_path(read_request(text)) \in Seq(Nat)
<1>1. PICK req : req = read_request(text)
  OBVIOUS
<1>2. req \in Seq(Nat)
  <2> DEFINE ends == { i \in 4..Len(text) : SubSeq(text, i - 3, i) = Ends }
  <2>1. CASE ends = {}
    <3>1. req = << >> /\ << >> \in Seq(Nat)
      BY <1>1, <2>1 DEF read_request
    <3> QED  BY <3>1
  <2>2. CASE ends # {}
    <3>1. ends \in SUBSET Nat
      OBVIOUS
    <3>2. Min(ends) \in ends
      <4> HIDE DEF ends
      <4> QED  BY <2>2, <3>1, MinIs
    <3>3. PICK m \in 4..Len(text) : m = Min(ends)
      BY <3>2
    <3>4. req = << >> \/ req = SubSeq(text, 1, m)
      BY <1>1, <3>3 DEF read_request
    <3>5. SubSeq(text, 1, m) \in Seq(Nat)
      <4>1. ASSUME NEW k \in 1..m PROVE text[k] \in Nat
        <5>1. k \in 1..Len(text)
          BY <3>3
        <5>2. PICK c \in 0..255 : c = text[k]
          BY <5>1, ElementOfSeq
        <5>3. c \in Nat
          OBVIOUS
        <5> QED  BY <5>2, <5>3
      <4> QED  BY <3>3, <4>1, SubSeqProperties
    <3>6. << >> \in Seq(Nat)
      OBVIOUS
    <3> QED  BY <3>4, <3>5, <3>6
  <2> QED  BY <2>1, <2>2
<1>3. PICK sp1, sp2 : sp1 = IndexFrom(req, SP, 1) /\ sp2 = IndexFrom(req, SP, sp1 + 1)
  OBVIOUS
<1>4. parse_path(req) = IF sp1 > Len(req) \/ sp2 > Len(req) THEN << >> ELSE SubSeq(req, sp1 + 1, sp2 - 1)
  BY <1>3 DEF parse_path
<1>5. CASE sp1 > Len(req) \/ sp2 > Len(req)
  BY <1>1, <1>4, <1>5
<1>6. CASE ~(sp1 > Len(req) \/ sp2 > Len(req))
  <2>1. 1 \in 1..(Len(req) + 1)
    BY <1>2
  <2>2. sp1 \in 1..(Len(req) + 1)
    BY <1>2, <1>3, <2>1, IndexIs
  <2>3. sp1 + 1 \in 1..(Len(req) + 1)
    BY <1>2, <1>6, <2>2
  <2>4. sp2 \in (sp1 + 1)..(Len(req) + 1)
    BY <1>2, <1>3, <2>3, IndexIs
  <2>5. PICK a \in Nat, b \in Nat : a = sp1 + 1 /\ b = sp2 - 1 /\ a >= 1 /\ b <= Len(req)
    BY <1>2, <1>6, <2>2, <2>4
  <2>6. SubSeq(req, a, b) \in Seq(Nat)
    <3>1. \A k \in a..b : req[k] \in Nat
      BY <1>2, <2>5
    <3> QED  BY <2>5, <3>1, SubSeqProperties
  <2> QED  BY <1>1, <1>4, <1>6, <2>5, <2>6
<1> QED  BY <1>5, <1>6

\* v holds, at j, the number that the first j of the digits D make.
Values(v, D) == /\ v \in [0..Len(D) -> Nat] /\ v[0] = 0
                /\ \A j \in 1..Len(D) : v[j] = 10 * v[j - 1] + (D[j] - Digit0)

Spells(D, n) == D \in Seq(48..57) /\ \E v : Values(v, D) /\ v[Len(D)] = n

LEMMA SpellsMore ==
    ASSUME NEW D, NEW n, Spells(D, n), NEW c \in 48..57
    PROVE  Spells(Append(D, c), 10 * n + (c - Digit0))
<1>1. PICK v : D \in Seq(48..57) /\ Values(v, D) /\ v[Len(D)] = n
  BY DEF Spells
<1>2. PICK m \in Nat : m = Len(D)
  BY <1>1
<1> DEFINE E == Append(D, c)
           w == [j \in 0..(m + 1) |-> IF j = m + 1 THEN 10 * n + (c - Digit0) ELSE v[j]]
<1>3. E \in Seq(48..57) /\ Len(E) = m + 1 /\ E[m + 1] = c /\ \A j \in 1..m : E[j] = D[j]
  BY <1>1, <1>2
<1>4. v \in [0..m -> Nat] /\ v[0] = 0 /\ v[m] = n /\ \A j \in 1..m : v[j] = 10 * v[j - 1] + (D[j] - Digit0)
  BY <1>1, <1>2 DEF Values
<1>5. n \in Nat /\ 10 * n + (c - Digit0) \in Nat
  BY <1>4 DEF Digit0
<1>6. w \in [0..(m + 1) -> Nat] /\ w[0] = 0 /\ w[m + 1] = 10 * n + (c - Digit0) /\ \A j \in 0..m : w[j] = v[j]
  <2>1. \A j \in 0..m : j \in 0..(m + 1) /\ j # m + 1 /\ v[j] \in Nat
    BY <1>4
  <2>2. m + 1 \in 0..(m + 1) /\ 0 \in 0..m
    OBVIOUS
  <2> QED  BY <1>4, <1>5, <2>1, <2>2
<1> HIDE DEF w, E
<1>7. ASSUME NEW j \in 1..(m + 1) PROVE w[j] = 10 * w[j - 1] + (E[j] - Digit0)
  <2>1. CASE j = m + 1
    <3>1. w[j - 1] = n
      BY <1>4, <1>6, <2>1
    <3> QED  BY <1>3, <1>6, <2>1, <3>1
  <2>2. CASE j # m + 1
    <3>1. j \in 1..m /\ j - 1 \in 0..m /\ j \in 0..m
      BY <2>2
    <3> QED  BY <1>3, <1>4, <1>6, <3>1
  <2> QED  BY <2>1, <2>2
<1>8. Values(w, E)
  BY <1>3, <1>6, <1>7 DEF Values
<1> QED  BY <1>3, <1>6, <1>8 DEF Spells, E

LEMMA SpellsNothing == Spells(<< >>, 0)
<1> DEFINE v == [j \in 0..0 |-> 0]
<1>1. << >> \in Seq(48..57) /\ Len(<< >>) = 0
  OBVIOUS
<1>2. v \in [0..0 -> Nat] /\ v[0] = 0
  OBVIOUS
<1> HIDE DEF v
<1>3. Values(v, << >>)
  BY <1>1, <1>2 DEF Values
<1> QED  BY <1>1, <1>2, <1>3 DEF Spells

\* All digits make some number.
LEMMA SpellsSome ==
    ASSUME NEW D \in Seq(48..57)
    PROVE  \E n \in Nat : Spells(D, n)
<1> DEFINE Wrong == {m \in Nat : \E d \in Seq(48..57) : Len(d) = m /\ ~ \E n \in Nat : Spells(d, n)}
<1>1. Wrong = {}
  <2> SUFFICES ASSUME Wrong # {} PROVE FALSE
    OBVIOUS
  <2>1. PICK m \in Wrong : \A x \in Wrong : m <= x
    <3>1. Wrong \in SUBSET Nat
      OBVIOUS
    <3> HIDE DEF Wrong
    <3> QED  BY <3>1, LeastNumber
  <2>2. PICK d \in Seq(48..57) : m \in Nat /\ Len(d) = m /\ ~ \E n \in Nat : Spells(d, n)
    OBVIOUS
  <2>3. CASE m = 0
    <3>1. d = << >>
      BY <2>2, <2>3, EmptySeq
    <3> QED  BY <2>2, <3>1, SpellsNothing
  <2>4. CASE m # 0
    <3>1. PICK e, c : e = SubSeq(d, 1, m - 1) /\ c = d[m]
      OBVIOUS
    <3>2. m \in 1..Len(d) /\ \A k \in 1..(m - 1) : d[k] \in 48..57
      BY <2>2, <2>4
    <3>3. /\ e \in Seq(48..57) /\ Len(e) = m - 1 /\ \A k \in 1..(m - 1) : e[k] = d[k]
          /\ c \in 48..57
      BY <2>2, <3>1, <3>2, SubSeqProperties
    <3>4. d = Append(e, c)
      <4>1. Append(e, c) \in Seq(48..57) /\ Len(Append(e, c)) = m
        BY <2>2, <3>3
      <4>2. \A k \in 1..m : Append(e, c)[k] = d[k]
        BY <2>2, <3>1, <3>3
      <4> QED  BY <2>2, <4>1, <4>2, SeqEqual
    <3>5. m - 1 \notin Wrong /\ m - 1 \in Nat
      <4> HIDE DEF Wrong
      <4> QED  BY <2>1, <2>2, <2>4
    <3>6. PICK n \in Nat : Spells(e, n)
      BY <3>3, <3>5
    <3>7. Spells(d, 10 * n + (c - Digit0))
      BY <3>3, <3>4, <3>6, SpellsMore
    <3>8. PICK x \in 48..57 : x = c
      BY <3>3
    <3>9. 10 * n + (x - Digit0) \in Nat
      BY DEF Digit0
    <3> QED  BY <2>2, <3>7, <3>8, <3>9
  <2> QED  BY <2>3, <2>4
<1> QED  BY <1>1

-----------------------------------------------------------------------------
(* Decimal                                                                   *)

LEMMA DivTen ==
    ASSUME NEW k \in Nat
    PROVE  /\ k \div 10 \in Nat /\ k % 10 \in 0..9 /\ k = 10 * (k \div 10) + (k % 10)
           /\ k \div 10 <= k /\ (k # 0 => k \div 10 < k)
OBVIOUS

DigitsEq(g, n) ==
    g = [k \in 0..n |-> IF k < 10 THEN << Digit0 + k >> ELSE Append(g[k \div 10], Digit0 + (k % 10))]

LEMMA DecimalUnfolds == ASSUME NEW n PROVE Decimal(n) = (CHOOSE g : DigitsEq(g, n))[n]
BY DEF Decimal, DigitsEq

LEMMA DigitsExist == ASSUME NEW n \in Nat PROVE \E g : DigitsEq(g, n)
<1> DEFINE Missing == {k \in Nat : ~ \E g : DigitsEq(g, k)}
<1>1. Missing = {}
  <2> SUFFICES ASSUME Missing # {} PROVE FALSE
    OBVIOUS
  <2>1. PICK m \in Missing : \A x \in Missing : m <= x
    <3>1. Missing \in SUBSET Nat
      OBVIOUS
    <3> HIDE DEF Missing
    <3> QED  BY <3>1, LeastNumber
  <2>2. m \in Nat /\ ~ \E g : DigitsEq(g, m)
    OBVIOUS
  <2>3. CASE m = 0
    <3> DEFINE h == [k \in 0..0 |-> << Digit0 + k >>]
    <3>1. DigitsEq(h, 0)
      BY DEF DigitsEq
    <3> QED  BY <2>2, <2>3, <3>1
  <2>4. CASE m # 0
    <3>1. m - 1 \in Nat /\ m - 1 \notin Missing
      <4> HIDE DEF Missing
      <4> QED  BY <2>1, <2>2, <2>4
    <3>2. PICK g : DigitsEq(g, m - 1)
      BY <3>1
    <3> DEFINE F(f, k) == IF k < 10 THEN << Digit0 + k >> ELSE Append(f[k \div 10], Digit0 + (k % 10))
               h == [k \in 0..m |-> IF k = m THEN F(g, m) ELSE g[k]]
    <3>3. g = [k \in 0..(m - 1) |-> F(g, k)]
      BY <3>2 DEF DigitsEq
    <3>4. \A k \in 0..(m - 1) : g[k] = F(g, k) /\ h[k] = g[k]
      <4>1. ASSUME NEW k \in 0..(m - 1) PROVE g[k] = F(g, k)
        <5> HIDE DEF F, h
        <5> QED  BY <3>3
      <4>2. ASSUME NEW k \in 0..(m - 1) PROVE h[k] = g[k]
        <5>1. k \in 0..m /\ k # m
          BY <2>2
        <5> HIDE DEF F
        <5> QED  BY <5>1
      <4> HIDE DEF F, h
      <4> QED  BY <4>1, <4>2
    <3>5. h[m] = F(g, m)
      <4>1. m \in 0..m
        BY <2>2
      <4> HIDE DEF F
      <4> QED  BY <4>1
    <3>6. ASSUME NEW k \in 0..m PROVE h[k] = F(h, k)
      <4>1. k \div 10 \in 0..(m - 1) /\ k \in Nat
        BY <2>2, <2>4, DivTen
      <4>2. h[k \div 10] = g[k \div 10]
        <5> HIDE DEF h, F
        <5> QED  BY <3>4, <4>1
      <4>3. F(h, k) = F(g, k)
        <5> HIDE DEF h
        <5> QED  BY <4>2
      <4>4. k = m \/ k \in 0..(m - 1)
        BY <2>2
      <4> HIDE DEF h, F
      <4> QED  BY <3>4, <3>5, <4>3, <4>4
    <3>7. h = [k \in 0..m |-> h[k]]
      <4> HIDE DEF F
      <4> QED  OBVIOUS
    <3>8. h = [k \in 0..m |-> F(h, k)]
      <4> HIDE DEF h, F
      <4> QED  BY <3>6, <3>7
    <3>9. DigitsEq(h, m)
      <4> HIDE DEF h
      <4> QED  BY <3>8 DEF DigitsEq
    <3> QED  BY <2>2, <3>9
  <2> QED  BY <2>3, <2>4
<1> QED  BY <1>1

\* A number is written in digits that make it.
LEMMA DecimalIs == ASSUME NEW n \in Nat PROVE Spells(Decimal(n), n) /\ Len(Decimal(n)) >= 1
<1>1. PICK g : DigitsEq(g, n) /\ Decimal(n) = g[n]
  BY DecimalUnfolds, DigitsExist
<1> DEFINE Good(k) == Spells(g[k], k) /\ g[k] # << >>
           Wrong == {k \in 0..n : ~Good(k)}
<1>2. \A k \in 0..n : g[k] = IF k < 10 THEN << Digit0 + k >> ELSE Append(g[k \div 10], Digit0 + (k % 10))
  BY <1>1 DEF DigitsEq
<1>3. Wrong = {}
  <2> SUFFICES ASSUME Wrong # {} PROVE FALSE
    OBVIOUS
  <2>1. PICK k \in Wrong : \A x \in Wrong : k <= x
    <3>1. Wrong \in SUBSET Nat
      OBVIOUS
    <3> HIDE DEF Wrong
    <3> QED  BY <3>1, LeastNumber
  <2>2. k \in 0..n /\ ~Good(k) /\ k \in Nat
    OBVIOUS
  <2>3. CASE k < 10
    <3>0. g[k] = << Digit0 + k >>
      BY <1>2, <2>2, <2>3
    <3>1. g[k] = Append(<< >>, Digit0 + k) /\ g[k] # << >>
      BY <3>0
    <3>2. Digit0 + k \in 48..57 /\ 10 * 0 + ((Digit0 + k) - Digit0) = k
      BY <2>2, <2>3 DEF Digit0
    <3>3. Spells(g[k], k)
      <4>1. PICK c \in 48..57 : c = Digit0 + k
        BY <3>2
      <4>2. Spells(Append(<< >>, c), 10 * 0 + (c - Digit0))
        BY SpellsNothing, SpellsMore
      <4> QED  BY <3>1, <3>2, <4>1, <4>2
    <3> QED  BY <2>2, <3>1, <3>3
  <2>4. CASE k >= 10
    <3>1. PICK a \in Nat, b \in 0..9 : a = k \div 10 /\ b = k % 10 /\ k = 10 * a + b /\ a < k
      BY <2>2, <2>4, DivTen
    <3>2. g[k] = Append(g[a], Digit0 + b)
      <4>1. ~(k < 10) /\ k \in 0..n
        BY <2>2, <2>4
      <4>2. g[k] = Append(g[k \div 10], Digit0 + (k % 10))
        BY <1>2, <4>1
      <4> QED  BY <3>1, <4>2, Zenon
    <3>3. a \in 0..n /\ a \notin Wrong
      <4>1. a \in 0..n /\ ~(k <= a)
        BY <2>2, <3>1
      <4> HIDE DEF Wrong
      <4> QED  BY <2>1, <4>1
    <3>4. Spells(g[a], a)
      BY <3>3
    <3>5. PICK c \in 48..57 : c = Digit0 + b
      BY DEF Digit0
    <3>6. Spells(Append(g[a], c), 10 * a + (c - Digit0))
      BY <3>4, <3>5, SpellsMore
    <3>7. 10 * a + (c - Digit0) = k
      BY <3>1, <3>5 DEF Digit0
    <3>8. g[k] # << >>
      <4>1. g[a] \in Seq(48..57)
        BY <3>4 DEF Spells
      <4>2. Len(Append(g[a], c)) = Len(g[a]) + 1 /\ Len(g[a]) \in Nat
        BY <4>1
      <4>3. g[k] = Append(g[a], c)
        BY <3>2, <3>5
      <4>4. Len(<< >>) = 0
        OBVIOUS
      <4> QED  BY <4>2, <4>3, <4>4
    <3> QED  BY <2>2, <3>2, <3>5, <3>6, <3>7, <3>8
  <2> QED  BY <2>2, <2>3, <2>4
<1>4. Spells(g[n], n) /\ g[n] # << >>
  BY <1>3
<1>5. g[n] \in Seq(48..57)
  BY <1>4 DEF Spells
<1> QED  BY <1>1, <1>4, <1>5

-----------------------------------------------------------------------------
(* atoi                                                                      *)

ReadEq(g, s, from, end) ==
    g = [k \in (from - 1)..(end - 1) |-> IF k = from - 1 THEN 0 ELSE 10 * g[k - 1] + (s[k] - Digit0)]

NumberAt(s, from, end) == (CHOOSE g : ReadEq(g, s, from, end))[end - 1]

NumberFrom(s, i) == IF i <= Len(s) /\ s[i] = Plus THEN i + 1 ELSE i

NumberEnd(s, from) == Min({ k \in from..(Len(s) + 1) : k > Len(s) \/ ~Digit(s[k]) })

LEMMA AtoiUnfolds ==
    ASSUME NEW s, NEW i
    PROVE  atoi(s, i) = NumberAt(s, NumberFrom(s, i), NumberEnd(s, NumberFrom(s, i)))
BY DEF atoi, NumberAt, ReadEq, NumberFrom, NumberEnd

LEMMA EndIs ==
    ASSUME NEW s \in Seq(Nat), NEW from \in 1..(Len(s) + 1)
    PROVE  /\ NumberEnd(s, from) \in from..(Len(s) + 1)
           /\ \A k \in from..(NumberEnd(s, from) - 1) : s[k] \in 48..57
           /\ NumberEnd(s, from) <= Len(s) => s[NumberEnd(s, from)] \notin 48..57
<1> DEFINE ends == { k \in from..(Len(s) + 1) : k > Len(s) \/ ~Digit(s[k]) }
<1>1. ends \in SUBSET Nat /\ Len(s) + 1 \in ends
  OBVIOUS
<1>2. PICK e : e = NumberEnd(s, from) /\ e \in ends /\ \A x \in ends : e <= x
  <2>1. NumberEnd(s, from) = Min(ends)
    BY DEF NumberEnd
  <2> HIDE DEF ends
  <2> QED  BY <1>1, <2>1, MinIs
<1>3. e \in from..(Len(s) + 1) /\ (e <= Len(s) => ~Digit(s[e]))
  BY <1>2
<1>4. ASSUME NEW k \in from..(e - 1) PROVE Digit(s[k])
  <2>1. k \in from..(Len(s) + 1) /\ ~(e <= k) /\ ~(k > Len(s))
    BY <1>3
  <2>2. k \notin ends
    <3> HIDE DEF ends
    <3> QED  BY <1>2, <2>1
  <2> QED  BY <2>1, <2>2
<1> QED  BY <1>2, <1>3, <1>4 DEF Digit

\* D stands in s from an index on.
StandsAt(D, s, from) == \A j \in 1..Len(D) : s[from + j - 1] = D[j]

LEMMA NumberIs ==
    ASSUME NEW s, NEW from \in Nat \ {0}, NEW D, NEW n, Spells(D, n), StandsAt(D, s, from)
    PROVE  NumberAt(s, from, from + Len(D)) = n
<1>1. PICK v : D \in Seq(48..57) /\ Values(v, D) /\ v[Len(D)] = n
  BY DEF Spells
<1>2. PICK m \in Nat : m = Len(D)
  BY <1>1
<1>3. v \in [0..m -> Nat] /\ v[0] = 0 /\ v[m] = n /\ \A j \in 1..m : v[j] = 10 * v[j - 1] + (D[j] - Digit0)
  BY <1>1, <1>2 DEF Values
<1>4. \A j \in 1..m : s[from + j - 1] = D[j]
  BY <1>2 DEF StandsAt
<1> DEFINE h == [k \in (from - 1)..(from + m - 1) |-> v[k - (from - 1)]]
<1>5. ReadEq(h, s, from, from + m)
  <2> DEFINE R(k) == IF k = from - 1 THEN 0 ELSE 10 * h[k - 1] + (s[k] - Digit0)
  <2>1. ASSUME NEW k \in (from - 1)..(from + m - 1) PROVE h[k] = R(k)
    <3>1. CASE k = from - 1
      <4>1. h[k] = v[k - (from - 1)] /\ k - (from - 1) = 0
        BY <3>1
      <4> HIDE DEF h
      <4> QED  BY <1>3, <3>1, <4>1
    <3>2. CASE k # from - 1
      <4>1. PICK j \in 1..m : j = k - (from - 1) /\ from + j - 1 = k /\ j - 1 = (k - 1) - (from - 1)
        BY <3>2
      <4>2. k - 1 \in (from - 1)..(from + m - 1)
        BY <3>2
      <4>3. h[k] = v[j] /\ h[k - 1] = v[j - 1]
        BY <4>1, <4>2
      <4> HIDE DEF h
      <4>4. v[j] = 10 * v[j - 1] + (s[k] - Digit0)
        BY <1>3, <1>4, <4>1
      <4> QED  BY <3>2, <4>3, <4>4
    <3> QED  BY <3>1, <3>2
  <2>2. h = [k \in (from - 1)..(from + m - 1) |-> h[k]]
    OBVIOUS
  <2> HIDE DEF h
  <2>3. h = [k \in (from - 1)..(from + m - 1) |-> R(k)]
    <3> HIDE DEF R
    <3> QED  BY <2>1, <2>2
  <2> QED  BY <2>3 DEF ReadEq
<1> HIDE DEF h
<1>6. PICK g : ReadEq(g, s, from, from + m) /\ NumberAt(s, from, from + m) = g[from + m - 1]
  <2>1. PICK end : end = from + m
    OBVIOUS
  <2>2. \E g : ReadEq(g, s, from, end)
    BY <1>5, <2>1
  <2>3. PICK g : g = CHOOSE e : ReadEq(e, s, from, end)
    OBVIOUS
  <2>4. ReadEq(g, s, from, end)
    BY <2>2, <2>3, Zenon
  <2>5. NumberAt(s, from, end) = g[end - 1]
    BY <2>3 DEF NumberAt
  <2> QED  BY <2>1, <2>4, <2>5
<1>7. \A k \in (from - 1)..(from + m - 1) : g[k] = IF k = from - 1 THEN 0 ELSE 10 * g[k - 1] + (s[k] - Digit0)
  BY <1>6 DEF ReadEq
<1> DEFINE Wrong == {j \in 0..m : g[from + j - 1] # v[j]}
<1>8. Wrong = {}
  <2> SUFFICES ASSUME Wrong # {} PROVE FALSE
    OBVIOUS
  <2>1. PICK j \in Wrong : \A x \in Wrong : j <= x
    <3>1. Wrong \in SUBSET Nat
      OBVIOUS
    <3> HIDE DEF Wrong
    <3> QED  BY <3>1, LeastNumber
  <2>2. j \in 0..m /\ g[from + j - 1] # v[j] /\ from + j - 1 \in (from - 1)..(from + m - 1)
    OBVIOUS
  <2>3. CASE j = 0
    <3>1. from + j - 1 = from - 1
      BY <2>3
    <3>2. g[from - 1] = 0
      BY <1>7, <2>2, <3>1
    <3> QED  BY <1>3, <2>2, <2>3, <3>1, <3>2
  <2>4. CASE j # 0
    <3>1. j \in 1..m /\ from + j - 1 # from - 1 /\ j - 1 \in 0..m /\ ~(j <= j - 1)
      BY <2>2, <2>4
    <3>2. j - 1 \notin Wrong
      <4> HIDE DEF Wrong
      <4> QED  BY <2>1, <3>1
    <3>3. g[from + (j - 1) - 1] = v[j - 1]
      BY <3>1, <3>2
    <3>4. from + (j - 1) - 1 = (from + j - 1) - 1
      BY <2>2
    <3>5. g[from + j - 1] = 10 * g[(from + j - 1) - 1] + (s[from + j - 1] - Digit0)
      BY <1>7, <2>2, <3>1
    <3>6. g[from + j - 1] = 10 * v[j - 1] + (D[j] - Digit0)
      <4> HIDE DEF Wrong
      <4> QED  BY <1>4, <3>1, <3>3, <3>4, <3>5
    <3> QED  BY <1>3, <2>2, <3>1, <3>6
  <2> QED  BY <2>3, <2>4
<1>9. g[from + m - 1] = v[m]
  <2>1. m \in 0..m
    OBVIOUS
  <2> QED  BY <1>8, <2>1
<1> QED  BY <1>2, <1>3, <1>6, <1>9

\* From an index on, digits up to an end are those of some text.
LEMMA DigitsStand ==
    ASSUME NEW s \in Seq(Nat), NEW from \in 1..(Len(s) + 1), NEW end \in from..(Len(s) + 1),
           \A k \in from..(end - 1) : s[k] \in 48..57
    PROVE  \E D \in Seq(48..57) : Len(D) = end - from /\ StandsAt(D, s, from)
<1>1. PICK m \in Nat : m = end - from
  OBVIOUS
<1> DEFINE D == [j \in 1..m |-> s[from + j - 1]]
<1>2. ASSUME NEW j \in 1..m PROVE s[from + j - 1] \in 48..57
  <2>1. from + j - 1 \in from..(end - 1)
    BY <1>1
  <2> QED  BY <2>1
<1>3. D \in [1..m -> 48..57]
  BY <1>2
<1>4. \A j \in 1..m : D[j] = s[from + j - 1]
  OBVIOUS
<1> HIDE DEF D
<1>5. D \in Seq(48..57) /\ Len(D) = m
  BY <1>3, FunctionIsSeq
<1> QED  BY <1>1, <1>4, <1>5 DEF StandsAt

LEMMA AtoiIsNat ==
    ASSUME NEW s \in Seq(Nat), NEW i \in 1..(Len(s) + 1)
    PROVE  atoi(s, i) \in Nat
<1>1. PICK from \in 1..(Len(s) + 1) : from = NumberFrom(s, i)
  BY DEF NumberFrom
<1>2. PICK end \in from..(Len(s) + 1) : end = NumberEnd(s, from) /\ \A k \in from..(end - 1) : s[k] \in 48..57
  BY EndIs
<1>3. PICK D \in Seq(48..57) : Len(D) = end - from /\ StandsAt(D, s, from)
  BY <1>2, DigitsStand
<1>4. PICK n \in Nat : Spells(D, n)
  BY SpellsSome
<1>5. NumberAt(s, from, from + Len(D)) = n
  BY <1>3, <1>4, NumberIs
<1>6. from + Len(D) = end
  BY <1>3
<1> QED  BY <1>1, <1>2, <1>5, <1>6, AtoiUnfolds

\* What stands at the end of a text is read to its end.
LEMMA AtoiReads ==
    ASSUME NEW s \in Seq(Nat), NEW D, NEW n, Spells(D, n), D # << >>,
           NEW i \in 1..Len(s), StandsAt(D, s, i), Len(s) = i + Len(D) - 1
    PROVE  atoi(s, i) = n
<1>1. PICK m \in Nat \ {0} : m = Len(D) /\ D \in Seq(48..57) /\ \A j \in 1..m : D[j] \in 48..57
  BY EmptySeq DEF Spells
<1>2. \A j \in 1..m : s[i + j - 1] = D[j]
  BY <1>1 DEF StandsAt
<1>3. ASSUME NEW k \in i..Len(s) PROVE s[k] \in 48..57
  <2>1. PICK j \in 1..m : k = i + j - 1
    <3>1. k - i + 1 \in 1..m /\ k = i + (k - i + 1) - 1
      BY <1>1
    <3> QED  BY <3>1
  <2> QED  BY <1>1, <1>2, <2>1
<1>4. NumberFrom(s, i) = i
  <2>1. s[i] \in 48..57
    BY <1>3
  <2>2. PICK c \in 48..57 : c = s[i]
    BY <2>1
  <2>3. c # Plus
    BY DEF Plus
  <2> QED  BY <2>2, <2>3, Zenon DEF NumberFrom
<1>5. NumberEnd(s, i) = Len(s) + 1
  <2>1. i \in 1..(Len(s) + 1)
    OBVIOUS
  <2>2. PICK e \in i..(Len(s) + 1) : e = NumberEnd(s, i) /\ (e <= Len(s) => s[e] \notin 48..57)
    BY <2>1, EndIs
  <2>3. e <= Len(s) => e \in i..Len(s)
    BY <2>2
  <2>4. ~(e <= Len(s))
    BY <1>3, <2>2, <2>3
  <2> QED  BY <2>2, <2>4
<1>6. i + Len(D) = Len(s) + 1
  BY <1>1
<1>7. NumberAt(s, i, i + Len(D)) = n
  BY NumberIs
<1> QED  BY <1>4, <1>5, <1>6, <1>7, AtoiUnfolds

-----------------------------------------------------------------------------
(* Pages and links                                                           *)

\* A parameter p= opens at i.
Opens(path, i) == /\ path[i] = LetterP /\ path[i + 1] = Equals
                  /\ (i = 1 \/ path[i - 1] \in {QMark, Amp})

\* No parameter p= opens in it.
FreeOfPages(base) == \A i \in 1..(Len(base) - 1) : ~Opens(base, i)

PageParameters(path) == { i \in 1..(Len(path) - 1) : Opens(path, i) }

LEMMA PageNumberUnfolds ==
    ASSUME NEW path
    PROVE  get_page_number(path) = IF PageParameters(path) = {} THEN 1
                                   ELSE Max({ 1, atoi(path, Min(PageParameters(path)) + 2) })
<1> DEFINE opens(i) == i = 1 \/ path[i - 1] \in { QMark, Amp }
           at == { i \in 1..(Len(path) - 1) : path[i] = LetterP /\ path[i + 1] = Equals /\ opens(i) }
<1>1. PageParameters(path) = at
  BY DEF PageParameters, Opens
<1>2. get_page_number(path) = IF at = {} THEN 1 ELSE Max({ 1, atoi(path, Min(at) + 2) })
  BY DEF get_page_number
<1> HIDE DEF at
<1> QED  BY <1>1, <1>2

LEMMA PageIsNat ==
    ASSUME NEW path \in Seq(Nat)
    PROVE  get_page_number(path) \in Nat \ {0}
<1>1. CASE PageParameters(path) = {}
  <2>1. get_page_number(path) = 1
    BY <1>1, PageNumberUnfolds, Zenon
  <2> QED  BY <2>1
<1>2. CASE PageParameters(path) # {}
  <2>1. PageParameters(path) \in SUBSET Nat /\ PageParameters(path) \in SUBSET (1..(Len(path) - 1))
    BY DEF PageParameters
  <2>2. PICK i \in 1..(Len(path) - 1) : i = Min(PageParameters(path))
    BY <1>2, <2>1, MinIs
  <2>3. i + 2 \in 1..(Len(path) + 1)
    OBVIOUS
  <2>4. PICK n \in Nat : n = atoi(path, i + 2)
    BY <2>3, AtoiIsNat
  <2>5. get_page_number(path) = Max({1, n})
    BY <1>2, <2>2, <2>4, PageNumberUnfolds
  <2> QED  BY <2>5, MaxOf
<1> QED  BY <1>1, <1>2

\* A link to a page: the path up to the question mark, ?p= and digits.
IsLink(link, base, n) ==
    /\ link \in Seq(Nat)
    /\ \A i \in 1..Len(base) : link[i] = base[i]
    /\ link[Len(base) + 1] = QMark /\ link[Len(base) + 2] = LetterP /\ link[Len(base) + 3] = Equals
    /\ \E D : Spells(D, n) /\ D # << >> /\ StandsAt(D, link, Len(base) + 4) /\ Len(link) = Len(base) + 3 + Len(D)

LEMMA PageUrlIsLink ==
    ASSUME NEW base \in Seq(Nat), NEW n \in Nat
    PROVE  IsLink(PageUrl(base, n), base, n)
<1>1. PICK D : D = Decimal(n) /\ Spells(D, n) /\ Len(D) >= 1
  BY DecimalIs
<1>2. D \in Seq(Nat)
  <2>1. D \in Seq(48..57) /\ 48..57 \subseteq Nat
    BY <1>1 DEF Spells
  <2> QED  BY <2>1, SeqMonotonic
<1>3. PICK q : q = << QMark, LetterP, Equals >>
  OBVIOUS
<1>4. q \in Seq(Nat) /\ Len(q) = 3 /\ q[1] = QMark /\ q[2] = LetterP /\ q[3] = Equals
  BY <1>3 DEF QMark, LetterP, Equals
<1>5. PICK b \in Nat, d \in Nat : b = Len(base) /\ d = Len(D) /\ d >= 1
  BY <1>1, <1>2
<1>6. PICK w : w = base \o q
  OBVIOUS
<1>7. /\ w \in Seq(Nat) /\ Len(w) = b + 3
      /\ \A i \in 1..(b + 3) : w[i] = IF i <= b THEN base[i] ELSE q[i - b]
  <2>1. /\ w \in Seq(Nat) /\ Len(w) = Len(base) + Len(q)
        /\ \A i \in 1..(Len(base) + Len(q)) : w[i] = IF i <= Len(base) THEN base[i] ELSE q[i - Len(base)]
    BY <1>4, <1>6, ConcatProperties
  <2>2. Len(base) = b /\ Len(q) = 3
    BY <1>4, <1>5
  <2> QED  BY <2>1, <2>2, Zenon
<1>8. PICK link : link = w \o D
  OBVIOUS
<1>9. /\ link \in Seq(Nat) /\ Len(link) = b + 3 + d
      /\ \A i \in 1..(b + 3 + d) : link[i] = IF i <= b + 3 THEN w[i] ELSE D[i - (b + 3)]
  <2>1. /\ link \in Seq(Nat) /\ Len(link) = Len(w) + Len(D)
        /\ \A i \in 1..(Len(w) + Len(D)) : link[i] = IF i <= Len(w) THEN w[i] ELSE D[i - Len(w)]
    BY <1>2, <1>7, <1>8, ConcatProperties
  <2>2. Len(w) = b + 3 /\ Len(D) = d
    BY <1>5, <1>7
  <2> QED  BY <2>1, <2>2, Zenon
<1>10. PageUrl(base, n) = link
  BY <1>1, <1>3, <1>6, <1>8 DEF PageUrl
<1>11. ASSUME NEW i \in 1..b PROVE link[i] = base[i]
  <2>1. i \in 1..(b + 3 + d) /\ i <= b + 3 /\ i \in 1..(b + 3) /\ i <= b
    OBVIOUS
  <2>2. link[i] = w[i]
    BY <1>9, <2>1
  <2>3. w[i] = base[i]
    BY <1>7, <2>1
  <2> QED  BY <2>2, <2>3
<1>12. ASSUME NEW i \in 1..3 PROVE link[b + i] = q[i]
  <2>1. b + i \in 1..(b + 3 + d) /\ b + i <= b + 3 /\ b + i \in 1..(b + 3) /\ ~(b + i <= b) /\ (b + i) - b = i
    OBVIOUS
  <2>2. link[b + i] = w[b + i]
    BY <1>9, <2>1
  <2>3. w[b + i] = q[(b + i) - b]
    BY <1>7, <2>1
  <2> QED  BY <2>1, <2>2, <2>3
<1>13. link[b + 1] = QMark /\ link[b + 2] = LetterP /\ link[b + 3] = Equals
  BY <1>4, <1>12
<1>14. ASSUME NEW j \in 1..d PROVE link[(b + 4) + j - 1] = D[j]
  <2>1. (b + 4) + j - 1 \in 1..(b + 3 + d) /\ ~((b + 4) + j - 1 <= b + 3) /\ ((b + 4) + j - 1) - (b + 3) = j
    OBVIOUS
  <2> QED  BY <1>9, <2>1
<1>15. D # << >>
  BY <1>1, <1>2, EmptySeq
<1>16. StandsAt(D, link, b + 4)
  BY <1>5, <1>14 DEF StandsAt
<1> QED  BY <1>1, <1>5, <1>9, <1>10, <1>11, <1>13, <1>15, <1>16 DEF IsLink

\* A link is read as the page it names, if no other p= comes before it.
LEMMA LinkReads ==
    ASSUME NEW base \in Seq(Nat), FreeOfPages(base), NEW n \in Nat \ {0}, NEW link, IsLink(link, base, n)
    PROVE  get_page_number(link) = n
<1>1. PICK b \in Nat : b = Len(base)
  OBVIOUS
<1>2. PICK D : /\ Spells(D, n) /\ D # << >> /\ StandsAt(D, link, b + 4) /\ Len(link) = b + 3 + Len(D)
               /\ link \in Seq(Nat) /\ \A i \in 1..b : link[i] = base[i]
               /\ link[b + 1] = QMark /\ link[b + 2] = LetterP /\ link[b + 3] = Equals
  BY <1>1 DEF IsLink
<1>3. PICK d \in Nat \ {0} : d = Len(D)
  BY <1>2, EmptySeq DEF Spells
<1>11. Len(link) = b + 3 + d /\ Len(D) = d
  <2>1. Len(link) = b + 3 + Len(D)
    BY <1>2
  <2> QED  BY <2>1, <1>3
<1> DEFINE at == PageParameters(link)
<1>4. b + 2 \in at
  <2>1. b + 2 \in 1..(Len(link) - 1) /\ (b + 2) + 1 = b + 3 /\ (b + 2) - 1 = b + 1
    BY <1>11
  <2> QED  BY <1>2, <2>1 DEF PageParameters, Opens
<1>5. ASSUME NEW i \in at PROVE b + 2 <= i
  <2> SUFFICES ASSUME i < b + 2 PROVE FALSE
    BY <1>2 DEF PageParameters
  <2>1. i \in Nat \ {0} /\ Opens(link, i)
    BY <1>2 DEF PageParameters
  <2>2. CASE i = b + 1
    BY <1>2, <2>1, <2>2 DEF Opens, QMark, LetterP
  <2>3. CASE i = b
    BY <1>2, <2>1, <2>3 DEF Opens, QMark, Equals
  <2>4. CASE i < b
    <3>1. i \in 1..(Len(base) - 1) /\ i \in 1..b /\ i + 1 \in 1..b /\ (i # 1 => i - 1 \in 1..b)
      BY <1>1, <2>1, <2>4
    <3>2. link[i] = base[i] /\ link[i + 1] = base[i + 1] /\ (i # 1 => link[i - 1] = base[i - 1])
      BY <1>2, <3>1
    <3>3. Opens(base, i)
      BY <2>1, <3>2 DEF Opens
    <3> QED  BY <3>1, <3>3 DEF FreeOfPages
  <2> QED  BY <2>1, <2>2, <2>3, <2>4
<1>6. at \in SUBSET Nat
  BY DEF PageParameters
<1>7. Min(at) = b + 2
  <2>1. PICK m : m = Min(at)
    OBVIOUS
  <2>2. m \in at /\ m \in Nat /\ m <= b + 2
    <3> HIDE DEF at
    <3> QED  BY <1>4, <1>6, <2>1, MinIs
  <2>3. b + 2 <= m
    <3> HIDE DEF at
    <3> QED  BY <1>5, <2>2
  <2> QED  BY <2>1, <2>2, <2>3
<1>8. atoi(link, b + 4) = n
  <2>1. b + 4 \in 1..Len(link) /\ Len(link) = (b + 4) + Len(D) - 1
    BY <1>11
  <2> QED  BY <1>2, <2>1, AtoiReads
<1>9. Max({1, n}) = n
  BY MaxOf
<1>10. (b + 2) + 2 = b + 4 /\ at # {}
  BY <1>4
<1> HIDE DEF at
<1> QED  BY <1>7, <1>8, <1>9, <1>10, PageNumberUnfolds DEF at

LEMMA QueryTermUnfolds ==
    ASSUME NEW path, Len(path) >= 2, path[1] = Slash, NEW q, q = IndexFrom(path, QMark, 2) - 1
    PROVE  parse_query_term(path) = percent_decode(SubSeq(path, 2, q))
BY DEF parse_query_term

\* A link asks the same query.
LEMMA LinkAsks ==
    ASSUME NEW path \in Seq(Nat), Len(path) > 1, path[1] = Slash,
           NEW base, base = BaseUrl(path), NEW n, NEW link, IsLink(link, base, n)
    PROVE  parse_query_term(link) = parse_query_term(path)
<1>1. PICK b \in Nat : b = Len(base) /\ b <= Len(path) /\ base \in Seq(Nat)
  BY BaseIs
<1>2. /\ \A k \in 1..b : base[k] = path[k] /\ path[k] # QMark
      /\ IndexFrom(path, QMark, 1) = b + 1
  BY <1>1, BaseIs
<1>3. PICK l \in Nat : /\ l = Len(link) /\ l >= b + 4 /\ link \in Seq(Nat)
                       /\ \A i \in 1..b : link[i] = base[i]
                       /\ link[b + 1] = QMark
  <2>1. PICK D : /\ Spells(D, n) /\ D # << >> /\ Len(link) = b + 3 + Len(D)
                 /\ link \in Seq(Nat) /\ \A i \in 1..b : link[i] = base[i]
                 /\ link[b + 1] = QMark
    BY <1>1 DEF IsLink
  <2>2. PICK d \in Nat \ {0} : d = Len(D)
    BY <2>1, EmptySeq DEF Spells
  <2> QED  BY <2>1, <2>2
<1>4. 1 \in 1..(Len(path) + 1) /\ 2 \in 1..(Len(path) + 1)
  OBVIOUS
<1>5. (b + 1 <= Len(path) => path[b + 1] = QMark) /\ b >= 1
  <2>1. PICK i : i = IndexFrom(path, QMark, 1)
    OBVIOUS
  <2>2. i <= Len(path) => path[i] = QMark
    BY <1>4, <2>1, IndexIs
  <2>3. b # 0
    BY <1>2, <2>1, <2>2 DEF QMark, Slash
  <2> QED  BY <1>1, <1>2, <2>1, <2>2, <2>3
<1>6. IndexFrom(path, QMark, 2) = b + 1
  <2>1. b + 1 \in 2..(Len(path) + 1) /\ \A k \in 2..((b + 1) - 1) : path[k] # QMark
    BY <1>1, <1>2, <1>5
  <2>2. FirstAt(path, QMark, 2, b + 1)
    BY <1>4, <1>5, <2>1 DEF FirstAt
  <2> QED  BY <2>2, IndexOnly
<1>7. IndexFrom(link, QMark, 2) = b + 1
  <2>1. 2 \in 1..(Len(link) + 1) /\ b + 1 \in 2..(Len(link) + 1) /\ \A k \in 2..((b + 1) - 1) : link[k] # QMark
    <3>1. 2 \in 1..(Len(link) + 1) /\ b + 1 \in 2..(Len(link) + 1)
      BY <1>3, <1>5
    <3>2. ASSUME NEW k \in 2..((b + 1) - 1) PROVE link[k] # QMark
      <4>1. k \in 1..b
        OBVIOUS
      <4> QED  BY <1>2, <1>3, <4>1
    <3> QED  BY <3>1, <3>2
  <2>2. FirstAt(link, QMark, 2, b + 1)
    BY <1>3, <2>1 DEF FirstAt
  <2>3. link \in Seq(Nat)
    BY <1>3
  <2> QED  BY <2>2, <2>3, IndexOnly
<1>8. (b + 1) - 1 = b /\ Len(link) >= 2 /\ link[1] = Slash
  <2>1. 1 \in 1..b
    BY <1>5
  <2>2. link[1] = Slash
    BY <1>2, <1>3, <2>1
  <2>3. (b + 1) - 1 = b /\ Len(link) >= 2
    BY <1>3
  <2> QED  BY <2>2, <2>3
<1>9. parse_query_term(link) = percent_decode(SubSeq(link, 2, b))
  BY <1>7, <1>8, QueryTermUnfolds
<1>10. parse_query_term(path) = percent_decode(SubSeq(path, 2, b))
  BY <1>6, <1>8, QueryTermUnfolds
<1>11. SubSeq(link, 2, b) = SubSeq(path, 2, b)
  <2>1. ASSUME NEW i \in 2..b PROVE path[i] \in Nat /\ link[i] = path[i]
    <3>1. i \in 1..b /\ i \in 1..Len(path)
      BY <1>1
    <3>2. path[i] \in Nat
      BY <3>1
    <3> QED  BY <1>2, <1>3, <3>1, <3>2
  <2>2. /\ SubSeq(link, 2, b) \in Seq(Nat) /\ SubSeq(path, 2, b) \in Seq(Nat)
        /\ Len(SubSeq(link, 2, b)) = Len(SubSeq(path, 2, b))
        /\ Len(SubSeq(path, 2, b)) = IF 2 <= b THEN b - 2 + 1 ELSE 0
        /\ \A i \in 1..(b - 2 + 1) : SubSeq(link, 2, b)[i] = link[2 + i - 1]
        /\ \A i \in 1..(b - 2 + 1) : SubSeq(path, 2, b)[i] = path[2 + i - 1]
    BY <2>1, SubSeqProperties
  <2>3. \A i \in 1..Len(SubSeq(link, 2, b)) : SubSeq(link, 2, b)[i] = SubSeq(path, 2, b)[i]
    <3>1. ASSUME NEW i \in 1..Len(SubSeq(link, 2, b)) PROVE SubSeq(link, 2, b)[i] = SubSeq(path, 2, b)[i]
      <4>1. i \in 1..(b - 2 + 1) /\ 2 + i - 1 \in 2..b
        BY <2>2
      <4> QED  BY <2>1, <2>2, <4>1
    <3> QED  BY <3>1
  <2> QED  BY <2>2, <2>3, SeqEqual
<1> QED  BY <1>9, <1>10, <1>11

\* What page number p of the results shows, and the links under it.
Shows(p, path, found, shows) ==
    LET start == (p - 1) * PAGE_SIZE
        end   == IF Len(found) < start + PAGE_SIZE THEN Len(found) ELSE start + PAGE_SIZE
    IN  /\ shows.shown = SubSeq(found, start + 1, end)
        /\ shows.prev = IF p > 1 THEN << PageUrl(BaseUrl(path), p - 1) >> ELSE << >>
        /\ shows.next = IF end < Len(found) THEN << PageUrl(BaseUrl(path), p + 1) >> ELSE << >>

LEMMA ShowPageIs ==
    ASSUME NEW path, NEW S, NEW found \in Seq(S), NEW p \in Nat \ {0}, p = get_page_number(path)
    PROVE  Shows(p, path, found, ShowPage(path, found))
<1>1. PICK P \in Nat \ {0} : P = PAGE_SIZE
  BY HttpFrontAssumption
<1>2. PICK start \in Nat : start = (p - 1) * PAGE_SIZE
  <2>1. PICK a \in Nat : a = p - 1
    OBVIOUS
  <2>2. a * P \in Nat
    OBVIOUS
  <2> QED  BY <1>1, <2>1, <2>2
<1>3. PICK L \in Nat : L = Len(found)
  OBVIOUS
<1>4. PICK end : end = Min({start + PAGE_SIZE, Len(found)})
  OBVIOUS
<1>5. end = IF Len(found) < start + PAGE_SIZE THEN Len(found) ELSE start + PAGE_SIZE
  <2>1. start + P \in Nat
    OBVIOUS
  <2>2. Min({start + P, L}) = IF L < start + P THEN L ELSE start + P
    BY <2>1, SmallerOf
  <2> QED  BY <1>1, <1>3, <1>4, <2>2
<1>6. ShowPage(path, found) =
        [ shown |-> SubSeq(found, start + 1, end),
          prev  |-> IF p > 1 THEN << PageUrl(BaseUrl(path), p - 1) >> ELSE << >>,
          next  |-> IF end < Len(found) THEN << PageUrl(BaseUrl(path), p + 1) >> ELSE << >> ]
  BY <1>2, <1>4, Zenon DEF ShowPage
<1>7. /\ ShowPage(path, found).shown = SubSeq(found, start + 1, end)
      /\ ShowPage(path, found).prev = IF p > 1 THEN << PageUrl(BaseUrl(path), p - 1) >> ELSE << >>
      /\ ShowPage(path, found).next = IF end < Len(found) THEN << PageUrl(BaseUrl(path), p + 1) >> ELSE << >>
  <2>1. PICK a, b, c :
          /\ a = SubSeq(found, start + 1, end)
          /\ b = IF p > 1 THEN << PageUrl(BaseUrl(path), p - 1) >> ELSE << >>
          /\ c = IF end < Len(found) THEN << PageUrl(BaseUrl(path), p + 1) >> ELSE << >>
    OBVIOUS
  <2>2. ShowPage(path, found) = [ shown |-> a, prev |-> b, next |-> c ]
    BY <1>6, <2>1, Zenon
  <2>3. ShowPage(path, found).shown = a /\ ShowPage(path, found).prev = b /\ ShowPage(path, found).next = c
    BY <2>2
  <2> QED  BY <2>1, <2>3, Zenon
<1> QED  BY <1>2, <1>5, <1>7, Zenon DEF Shows

\* The number of pages, and which of them are full.
LEMMA PagesAre ==
    ASSUME NEW L \in Nat, NEW P \in Nat \ {0}, NEW n, n = (L + P - 1) \div P
    PROVE  /\ n \in Nat /\ L <= n * P /\ (n = 0 => L = 0)
           /\ \A i \in 1..n : (i * P < L) <=> i < n
<1>1. PICK a \in Nat : a = L + P - 1
  OBVIOUS
<1>2. n \in Nat /\ n * P \in Nat /\ n * P <= a /\ a < n * P + P
  BY <1>1, DivMeans
<1>3. L <= n * P
  BY <1>1, <1>2
<1>4. n = 0 => L = 0
  BY <1>3
<1>5. ASSUME NEW i \in 1..n, i < n PROVE i * P < L
  <2>1. i \in Nat /\ i * P \in Nat /\ i * P + P <= n * P
    BY <1>2, <1>5, TimesLess
  <2> QED  BY <1>1, <1>2, <2>1
<1>6. ~(n * P < L)
  BY <1>2, <1>3
<1>7. ASSUME NEW i \in 1..n, ~(i < n) PROVE ~(i * P < L)
  <2>1. i = n
    BY <1>2, <1>7
  <2> QED  BY <1>6, <2>1
<1> QED  BY <1>2, <1>3, <1>4, <1>5, <1>7

\* The first pages up to i hold this many results.
UpTo(found, i) == IF Len(found) < i * PAGE_SIZE THEN Len(found) ELSE i * PAGE_SIZE

LEMMA PageShows ==
    ASSUME NEW base \in Seq(Nat), FreeOfPages(base), NEW S, NEW found \in Seq(S), NEW p \in Nat \ {0}
    PROVE  /\ get_page_number(PageUrl(base, p)) = p
           /\ ShowPage(PageUrl(base, p), found).shown = SubSeq(found, (p - 1) * PAGE_SIZE + 1, UpTo(found, p))
           /\ ShowPage(PageUrl(base, p), found).next # << >> <=> p * PAGE_SIZE < Len(found)
<1>1. PICK link : link = PageUrl(base, p) /\ IsLink(link, base, p)
  BY PageUrlIsLink
<1>2. p = get_page_number(link)
  BY <1>1, LinkReads
<1>3. Shows(p, link, found, ShowPage(link, found))
  BY <1>2, ShowPageIs
<1>4. PICK P \in Nat \ {0}, a \in Nat, L \in Nat : P = PAGE_SIZE /\ a = p - 1 /\ L = Len(found)
  <2>1. Len(found) \in Nat /\ p - 1 \in Nat
    OBVIOUS
  <2>2. PAGE_SIZE \in Nat \ {0}
    BY HttpFrontAssumption
  <2> QED  BY <2>1, <2>2
<1>5. p * PAGE_SIZE = (p - 1) * PAGE_SIZE + PAGE_SIZE
  <2>1. (a + 1) * P = a * P + P
    OBVIOUS
  <2>2. p = a + 1
    BY <1>4
  <2> QED  BY <1>4, <2>1, <2>2
<1>6. p * PAGE_SIZE \in Nat
  <2>1. p * P \in Nat
    OBVIOUS
  <2> QED  BY <1>4, <2>1
<1>7. PICK q \in Nat : q = p * PAGE_SIZE
  BY <1>6
<1>8. /\ ShowPage(link, found).shown = SubSeq(found, (p - 1) * PAGE_SIZE + 1, IF L < q THEN L ELSE q)
      /\ ShowPage(link, found).next = IF (IF L < q THEN L ELSE q) < L THEN << PageUrl(BaseUrl(link), p + 1) >> ELSE << >>
  BY <1>3, <1>4, <1>5, <1>7, Zenon DEF Shows
<1>9. ShowPage(link, found).next # << >> <=> q < L
  <2>1. (IF L < q THEN L ELSE q) < L <=> q < L
    OBVIOUS
  <2>2. \A x : << x >> # << >>
    OBVIOUS
  <2> QED  BY <1>8, <2>1, <2>2, Zenon
<1>10. UpTo(found, p) = IF L < q THEN L ELSE q
  BY <1>4, <1>7 DEF UpTo
<1> QED  BY <1>1, <1>2, <1>4, <1>7, <1>8, <1>9, <1>10

\* The pages from the first to the last show every result once, in order.
LEMMA PagesCoverAll ==
    ASSUME NEW base \in Seq(Nat), FreeOfPages(base), NEW S, NEW found \in Seq(S),
           NEW n, n = (Len(found) + PAGE_SIZE - 1) \div PAGE_SIZE
    PROVE  /\ \A i \in 1..n : (ShowPage(PageUrl(base, i), found).next # << >>) = (i < n)
           /\ FlattenSeq([ i \in 1..n |-> ShowPage(PageUrl(base, i), found).shown ]) = found
<1>1. PICK P \in Nat \ {0}, L \in Nat : P = PAGE_SIZE /\ L = Len(found)
  <2>1. Len(found) \in Nat
    OBVIOUS
  <2>2. PAGE_SIZE \in Nat \ {0}
    BY HttpFrontAssumption
  <2> QED  BY <2>1, <2>2
<1>2. /\ n \in Nat /\ L <= n * P /\ (n = 0 => L = 0)
      /\ \A i \in 1..n : (i * P < L) <=> i < n
  <2>1. n = (L + P - 1) \div P
    BY <1>1
  <2> QED  BY <2>1, PagesAre
<1>3. ASSUME NEW i \in 1..n PROVE (ShowPage(PageUrl(base, i), found).next # << >>) = (i < n)
  <2>1. i \in Nat \ {0}
    BY <1>2
  <2>2. (ShowPage(PageUrl(base, i), found).next # << >>) <=> i * P < L
    BY <1>1, <2>1, PageShows
  <2> QED  BY <1>2, <2>2
<1> DEFINE s == [ i \in 1..n |-> ShowPage(PageUrl(base, i), found).shown ]
<1>4. ASSUME NEW i \in 1..n PROVE s[i] = SubSeq(found, (i - 1) * P + 1, UpTo(found, i))
  <2>1. i \in Nat \ {0}
    BY <1>2
  <2> QED  BY <1>1, <2>1, PageShows
<1>5. ASSUME NEW i \in 0..n PROVE i * P \in Nat /\ UpTo(found, i) \in 0..L /\ (i < n => UpTo(found, i) = i * P)
  <2>1. PICK q \in Nat : q = i * P
    <3>1. i \in Nat
      BY <1>2
    <3> QED  BY <3>1
  <2>2. UpTo(found, i) = IF L < q THEN L ELSE q
    BY <1>1, <2>1 DEF UpTo
  <2>3. i < n => q <= L
    <3>1. CASE i = 0
      BY <2>1, <3>1
    <3>2. CASE i # 0
      <4>1. i \in 1..n
        BY <1>2, <3>2
      <4> QED  BY <1>2, <2>1, <4>1
    <3> QED  BY <3>1, <3>2
  <2> QED  BY <2>1, <2>2, <2>3
<1>6. ASSUME NEW i \in 1..n
      PROVE  /\ UpTo(found, i - 1) = (i - 1) * P
             /\ UpTo(found, i - 1) \in 0..L /\ UpTo(found, i) \in 0..L
             /\ UpTo(found, i - 1) <= UpTo(found, i)
  <2>1. PICK j \in 0..n : j = i - 1 /\ i = j + 1 /\ j < n
    BY <1>2
  <2>2. j * P \in Nat /\ (j + 1) * P = j * P + P
    BY <1>2
  <2>3. PICK q \in Nat : q = j * P /\ i * P = q + P
    BY <2>1, <2>2
  <2>4. UpTo(found, j) = q /\ q \in 0..L
    BY <1>5, <2>1, <2>3
  <2>5. UpTo(found, i) = IF L < q + P THEN L ELSE q + P
    BY <1>1, <2>3 DEF UpTo
  <2>6. UpTo(found, i) \in 0..L /\ q <= UpTo(found, i)
    BY <2>4, <2>5
  <2> QED  BY <2>1, <2>3, <2>4, <2>6
<1>7. s \in Seq(Seq(S)) /\ Len(s) = n
  <2>1. ASSUME NEW i \in 1..n PROVE s[i] \in Seq(S)
    <3>1. PICK a \in Nat, b \in 0..L : a = UpTo(found, i - 1) + 1 /\ b = UpTo(found, i) /\ a >= 1
      BY <1>6
    <3>2. \A k \in a..b : found[k] \in S
      BY <1>1, <3>1
    <3>3. SubSeq(found, a, b) \in Seq(S)
      BY <3>2, SubSeqProperties
    <3> QED  BY <1>4, <1>6, <3>1, <3>3
  <2>2. s \in [1..n -> Seq(S)]
    <3>1. s = [i \in 1..n |-> s[i]]
      OBVIOUS
    <3> HIDE DEF s
    <3> QED  BY <2>1, <3>1
  <2> HIDE DEF s
  <2> QED  BY <1>2, <2>2, FunctionIsSeq
<1> HIDE DEF s
<1> DEFINE Good(i) == Joined(s, i) = SubSeq(found, 1, UpTo(found, i))
           Wrong == {i \in 0..n : ~Good(i)}
<1>8. Wrong = {}
  <2> SUFFICES ASSUME Wrong # {} PROVE FALSE
    OBVIOUS
  <2>1. PICK i \in Wrong : \A x \in Wrong : i <= x
    <3>1. Wrong \in SUBSET Nat
      BY <1>2
    <3> HIDE DEF Wrong
    <3> QED  BY <3>1, LeastNumber
  <2>2. i \in 0..n /\ ~Good(i)
    OBVIOUS
  <2>3. CASE i = 0
    <3>1. UpTo(found, 0) = 0
      <4>1. ~(L < 0 * P) /\ 0 * P = 0
        OBVIOUS
      <4> QED  BY <1>1, <4>1 DEF UpTo
    <3>2. SubSeq(found, 1, 0) = << >>
      BY SubSeqEmpty
    <3>3. Joined(s, 0) = << >>
      BY DEF Joined
    <3> QED  BY <2>2, <2>3, <3>1, <3>2, <3>3
  <2>4. CASE i # 0
    <3>1. PICK j \in 0..n : j = i - 1 /\ i = j + 1 /\ j < n /\ i \in 1..n /\ j < i
      BY <1>2, <2>2, <2>4
    <3>2. Good(j)
      <4>1. j \notin Wrong
        <5>1. ~(i <= j)
          BY <1>2, <2>2, <3>1
        <5> HIDE DEF Wrong
        <5> QED  BY <2>1, <5>1
      <4> QED  BY <4>1
    <3>3. Joined(s, i) = Joined(s, j) \o s[i]
      BY <1>7, <3>1, JoinedStep
    <3>4. PICK k \in 0..L, m \in 0..L : k = UpTo(found, j) /\ m = UpTo(found, i) /\ k <= m /\ k = (i - 1) * P
      BY <1>6, <3>1
    <3>5. s[i] = SubSeq(found, k + 1, m)
      BY <1>4, <3>1, <3>4
    <3>6. SubSeq(found, 1, k) \o SubSeq(found, k + 1, m) = SubSeq(found, 1, m)
      <4>1. 1 \in 1..(Len(found) + 1) /\ k \in (1 - 1)..Len(found) /\ m \in k..Len(found)
        BY <1>1, <3>4
      <4> QED  BY <4>1, ConcatAdjacentSubSeq
    <3>7. Joined(s, j) = SubSeq(found, 1, k)
      BY <3>2, <3>4
    <3>8. Joined(s, i) = SubSeq(found, 1, m)
      BY <3>3, <3>5, <3>6, <3>7
    <3> QED  BY <2>2, <3>4, <3>8
  <2> QED  BY <2>3, <2>4
<1>9. Good(n)
  <2>1. n \in 0..n
    BY <1>2
  <2> QED  BY <1>8, <2>1
<1>10. UpTo(found, n) = L
  <2>1. PICK q \in Nat : q = n * P
    BY <1>2
  <2>2. L <= q
    BY <1>2, <2>1
  <2>3. UpTo(found, n) = IF L < q THEN L ELSE q
    BY <1>1, <2>1 DEF UpTo
  <2> QED  BY <2>2, <2>3
<1>11. FlattenSeq(s) = found
  <2>1. FlattenSeq(s) = Joined(s, n)
    BY <1>7, JoinedAll
  <2>2. SubSeq(found, 1, Len(found)) = found
    BY SubSeqFull
  <2> QED  BY <1>1, <1>9, <1>10, <2>1, <2>2
<1> QED  BY <1>3, <1>11 DEF s

\* Next and Previous of any page of the results lead where they say.
LEMMA FollowsIs ==
    ASSUME NEW path \in Seq(Nat), Len(path) > 1, path[1] = Slash, FreeOfPages(BaseUrl(path)),
           NEW S, NEW found \in Seq(S)
    PROVE  Follows(path, found)
<1>1. PICK base \in Seq(Nat) : base = BaseUrl(path) /\ FreeOfPages(base)
  BY BaseIs
<1>2. PICK p \in Nat \ {0} : p = get_page_number(path)
  BY PageIsNat
<1>3. PICK P \in Nat \ {0}, L \in Nat : P = PAGE_SIZE /\ L = Len(found)
  <2>1. Len(found) \in Nat
    OBVIOUS
  <2>2. PAGE_SIZE \in Nat \ {0}
    BY HttpFrontAssumption
  <2> QED  BY <2>1, <2>2
<1>4. PICK start \in Nat : start = (p - 1) * PAGE_SIZE /\ (p = 1 => start = 0)
  <2>1. PICK a \in Nat : a = p - 1
    OBVIOUS
  <2>2. a * P \in Nat /\ (a = 0 => a * P = 0)
    OBVIOUS
  <2> QED  BY <1>3, <2>1, <2>2
<1>5. PICK end \in Nat : end = IF L < start + P THEN L ELSE start + P
  OBVIOUS
<1>6. PICK shows : shows = ShowPage(path, found)
  OBVIOUS
<1>7. /\ shows.shown = SubSeq(found, start + 1, end)
      /\ shows.prev = IF p > 1 THEN << PageUrl(base, p - 1) >> ELSE << >>
      /\ shows.next = IF end < L THEN << PageUrl(base, p + 1) >> ELSE << >>
  <2>1. Shows(p, path, found, shows)
    BY <1>2, <1>6, ShowPageIs
  <2>2. end = IF Len(found) < start + PAGE_SIZE THEN Len(found) ELSE start + PAGE_SIZE
    BY <1>3, <1>5
  <2> QED  BY <1>1, <1>3, <1>4, <2>1, <2>2, Zenon DEF Shows
<1>8. ASSUME NEW n \in Nat \ {0}
      PROVE  /\ parse_query_term(PageUrl(base, n)) = parse_query_term(path)
             /\ get_page_number(PageUrl(base, n)) = n
  <2>1. PICK link : link = PageUrl(base, n) /\ IsLink(link, base, n)
    BY PageUrlIsLink
  <2>2. get_page_number(link) = n
    BY <1>1, <2>1, LinkReads
  <2>3. parse_query_term(link) = parse_query_term(path)
    BY <1>1, <2>1, LinkAsks
  <2> QED  BY <2>1, <2>2, <2>3
<1>9. shows.shown \in Seq(S) /\ Len(shows.shown) = (IF start + 1 <= end THEN end - start ELSE 0)
  <2>1. \A k \in (start + 1)..end : found[k] \in S
    BY <1>3, <1>5
  <2>2. SubSeq(found, start + 1, end) \in Seq(S)
        /\ Len(SubSeq(found, start + 1, end)) = IF start + 1 <= end THEN end - (start + 1) + 1 ELSE 0
    BY <2>1, SubSeqProperties
  <2>3. end - (start + 1) + 1 = end - start
    OBVIOUS
  <2> QED  BY <1>7, <2>2, <2>3
<1>10. ASSUME NEW i \in DOMAIN shows.next
       PROVE  /\ parse_query_term(shows.next[i]) = parse_query_term(path)
              /\ get_page_number(shows.next[i]) = get_page_number(path) + 1
              /\ shows.shown # << >>
  <2>1. end < L /\ shows.next = << PageUrl(base, p + 1) >>
    BY <1>7, <1>10
  <2>2. shows.next[i] = PageUrl(base, p + 1)
    BY <1>10, <2>1
  <2>3. p + 1 \in Nat \ {0}
    OBVIOUS
  <2>4. end = start + P /\ Len(shows.shown) # 0
    BY <1>5, <1>9, <2>1
  <2>5. shows.shown # << >>
    BY <1>9, <2>4, EmptySeq
  <2> QED  BY <1>2, <1>8, <2>2, <2>3, <2>5
<1>11. ASSUME NEW i \in DOMAIN shows.prev
       PROVE  /\ parse_query_term(shows.prev[i]) = parse_query_term(path)
              /\ get_page_number(shows.prev[i]) = get_page_number(path) + (-1)
  <2>1. p > 1 /\ shows.prev = << PageUrl(base, p - 1) >>
    BY <1>7, <1>11
  <2>2. shows.prev[i] = PageUrl(base, p - 1)
    BY <1>11, <2>1
  <2>3. p - 1 \in Nat \ {0} /\ p - 1 = p + (-1)
    BY <2>1
  <2> QED  BY <1>2, <1>8, <2>2, <2>3
<1>12. ASSUME shows.prev = << >> PROVE IsPrefix(shows.shown, found)
  <2>0. \A x : << x >> # << >>
    OBVIOUS
  <2>1. ~(p > 1)
    BY <1>7, <1>12, <2>0, Zenon
  <2>2. p = 1 /\ start = 0
    BY <1>4, <2>1
  <2>3. end \in 0..L /\ shows.shown = SubSeq(found, 1, end) /\ Len(shows.shown) = end
    BY <1>5, <1>7, <1>9, <2>2
  <2>4. SubSeq(shows.shown, 1, Len(shows.shown)) = shows.shown
    BY <1>9, SubSeqFull
  <2>5. SubSeq(shows.shown, 1, Len(shows.shown)) = SubSeq(found, 1, Len(shows.shown))
    BY <2>3, <2>4
  <2> QED  BY <1>3, <2>3, <2>5 DEF IsPrefix
<1> QED  BY <1>6, <1>10, <1>11, <1>12 DEF Follows

(* No search names a page before its question mark.  None does that comes from  *)
(* the search box, which encodes what it sends (html_templates.h:65), or from a  *)
(* link of its pages: they keep the path up to the question mark.             *)
PlainPaths ==
    \A text \in Sent : HandleClient[text].reply = "search" => FreeOfPages(BaseUrl(HandleClient[text].path))

\* What is served as a search is a path of more than its slash.
LEMMA SearchPath ==
    ASSUME NEW text \in Sent, HandleClient[text].reply = "search", NEW path, path = HandleClient[text].path
    PROVE  path \in Seq(Nat) /\ Len(path) > 1 /\ path[1] = Slash
<1>1. /\ path = parse_path(read_request(text))
      /\ HandleClient[text].reply = IF read_request(text) = << >> THEN "closed" ELSE Reply(path)
  BY DEF HandleClient
<1>2. path \in Seq(Nat)
  <2>1. text \in Seq(0..255)
    BY SentAssumption
  <2> QED  BY <1>1, <2>1, PathIs
<1>3. Reply(path) = "search"
  <2>1. "closed" # "search"
    OBVIOUS
  <2> QED  BY <1>1, <2>1
<1>4. Len(path) > 1 /\ path[1] = Slash
  BY <1>3 DEF Reply
<1> QED  BY <1>2, <1>4

(* A search that is done has the results it was given and the page they make.  *)
PageSent ==
    /\ DOMAIN reply = Requests
    /\ \A r \in Requests : stage[r] = "done" /\ IsSearch(r) =>
         results[r] # Unset /\ reply[r] = ShowPage(Path(r), results[r])

LEMMA PageSentFirst == Init => PageSent
BY DEF Init, PageSent

LEMMA DeliveryKeepsFront == ASSUME Delivers \/ Quiet \/ UNCHANGED vars PROVE UNCHANGED front
<1>1. CASE UNCHANGED vars
  BY <1>1 DEF vars
<1>2. CASE Delivers
  BY <1>2 DEF Delivers, ConnectFails, QueryThrows, AnswerQuery, ReadAnswer, AnswerTimesOut
<1>3. CASE Quiet
  BY <1>3 DEF Quiet, StartLocal, StartRemote, MachineDies, TakeQuery, ReceiveQuery, AnswerQuery
<1> QED  BY <1>1, <1>2, <1>3

\* One request ends, the others stay as they are.
LEMMA OneAnswered ==
    ASSUME ServingInv, PageSent, NEW r \in Requests, NEW st \in {"waiting", "gathering", "done"}, NEW res, NEW rep,
           sent' = sent, stage' = [ stage EXCEPT ![r] = st ],
           \/ results' = results \/ results' = [ results EXCEPT ![r] = res ],
           \/ reply' = reply \/ reply' = [ reply EXCEPT ![r] = rep ],
           st = "done" /\ IsSearch(r) =>
             /\ res # Unset /\ rep = ShowPage(Path(r), res)
             /\ results' = [ results EXCEPT ![r] = res ] /\ reply' = [ reply EXCEPT ![r] = rep ]
    PROVE  PageSent'
<1>1. /\ stage \in [Requests -> {"new", "waiting", "gathering", "done"}] /\ results \in [Requests -> Pages]
      /\ DOMAIN reply = Requests
  BY DEF ServingInv, TypeOK, PageSent
<1>2. DOMAIN reply' = Requests
  BY <1>1
<1>3. \A s \in Requests : (IsSearch(s))' = IsSearch(s) /\ (Path(s))' = Path(s)
  BY DEF IsSearch, Path
<1>4. ASSUME NEW s \in Requests, stage'[s] = "done", IsSearch(s)
      PROVE  results'[s] # Unset /\ reply'[s] = ShowPage(Path(s), results'[s])
  <2>1. CASE s = r
    <3>1. st = "done"
      BY <1>1, <1>4, <2>1
    <3>2. results'[r] = res /\ reply'[r] = rep
      BY <1>1, <1>4, <2>1, <3>1
    <3> QED  BY <1>4, <2>1, <3>1, <3>2
  <2>2. CASE s # r
    <3>1. stage[s] = "done" /\ results'[s] = results[s] /\ reply'[s] = reply[s]
      BY <1>1, <1>4, <2>2
    <3> QED  BY <1>4, <3>1 DEF PageSent
  <2> QED  BY <2>1, <2>2
<1> QED  BY <1>2, <1>3, <1>4 DEF PageSent

LEMMA PageSentNext == ServingInv /\ PageSent /\ [Next]_vars => PageSent'
<1> SUFFICES ASSUME ServingInv, PageSent, [Next]_vars PROVE PageSent'
  OBVIOUS
<1>1. ASSUME NEW r \in Requests, Accept(r) PROVE PageSent'
  BY <1>1, OneAnswered DEF Accept
<1>2. ASSUME TakeSearch \/ TakeOther PROVE Head(htmlQueue) \in Requests
  <2>1. htmlQueue \in Seq(Requests) /\ htmlQueue # << >>
    BY <1>2 DEF ServingInv, TypeOK, TakeSearch, TakeOther
  <2> QED  BY <2>1, TakenOff
<1>3. CASE TakeSearch
  <2>1. PICK r \in Requests : r = Head(htmlQueue)
    BY <1>2, <1>3
  <2>2. stage' = [ stage EXCEPT ![r] = "gathering" ] /\ UNCHANGED << sent, results, reply >>
    BY <1>3, <2>1 DEF TakeSearch
  <2> QED  BY <2>2, OneAnswered
<1>4. CASE TakeOther
  <2>1. PICK r \in Requests : r = Head(htmlQueue)
    BY <1>2, <1>4
  <2>2. PICK rep : rep = IF IsSearch(r) THEN ShowPage(Path(r), << >>) ELSE HandleClient[sent[r]].reply
    OBVIOUS
  <2>3. /\ stage' = [ stage EXCEPT ![r] = "done" ] /\ sent' = sent
        /\ results' = IF IsSearch(r) THEN [ results EXCEPT ![r] = << >> ] ELSE results
        /\ reply' = [ reply EXCEPT ![r] = rep ]
    BY <1>4, <2>1, <2>2 DEF TakeOther
  <2>4. << >> # Unset
    BY NoHits, HitsAssumption
  <2> QED  BY <2>2, <2>3, <2>4, OneAnswered
<1>5. ASSUME NEW r \in Requests, Gather(r) PROVE PageSent'
  <2>1. PICK best : /\ results' = [ results EXCEPT ![r] = best ]
                    /\ reply' = [ reply EXCEPT ![r] = ShowPage(Path(r), best) ]
                    /\ stage' = [ stage EXCEPT ![r] = "done" ] /\ sent' = sent
    BY <1>5 DEF Gather
  <2>2. best # Unset
    <3>1. results'[r] # Unset
      BY <1>5, GatherMeans
    <3>2. results'[r] = best
      BY <2>1 DEF ServingInv, TypeOK
    <3> QED  BY <3>1, <3>2
  <2> QED  BY <2>1, <2>2, OneAnswered
<1>6. ASSUME Delivers \/ Quiet \/ UNCHANGED vars PROVE PageSent'
  <2>1. UNCHANGED << sent, stage, results, reply >>
    BY <1>6, DeliveryKeepsFront DEF front
  <2> QED  BY <2>1 DEF PageSent, IsSearch, Path
<1> QED  BY <1>1, <1>3, <1>4, <1>5, <1>6, StepIs

LEMMA PageSentAlways == Spec => []PageSent
BY ServingInvariant, PageSentFirst, PageSentNext, PTL DEF Spec

LEMMA PagesCoverThem == ServingInv /\ PageSent /\ PlainPaths => PagesCoverResults
<1> SUFFICES ASSUME ServingInv, PageSent, PlainPaths, NEW r \in Requests, stage[r] = "done", IsSearch(r),
                    NEW base, base = BaseUrl(Path(r)),
                    NEW n, n = (Len(results[r]) + PAGE_SIZE - 1) \div PAGE_SIZE
             PROVE  /\ Follows(Path(r), results[r])
                    /\ \A i \in 1..n : (ShowPage(PageUrl(base, i), results[r]).next # << >>) = (i < n)
                    /\ FlattenSeq([ i \in 1..n |-> ShowPage(PageUrl(base, i), results[r]).shown ]) = results[r]
                    /\ reply[r] = ShowPage(Path(r), results[r])
  BY DEF PagesCoverResults
<1>1. PICK text \in Sent : text = sent[r] /\ HandleClient[text].reply = "search"
  BY DEF ServingInv, TypeOK, IsSearch
<1>2. PICK path : path = Path(r) /\ path = HandleClient[text].path
  BY <1>1 DEF Path
<1>3. path \in Seq(Nat) /\ Len(path) > 1 /\ path[1] = Slash
  BY <1>1, <1>2, SearchPath
<1>4. FreeOfPages(base) /\ base = BaseUrl(path)
  BY <1>1, <1>2 DEF PlainPaths
<1>5. PICK res \in Seq(LeanPage) : res = results[r]
  BY DEF ServingInv, TypeOK, PageSent, Pages
<1>6. Follows(path, res)
  BY <1>3, <1>4, FollowsIs
<1>7. base \in Seq(Nat)
  BY <1>3, <1>4, BaseIs
<1>8. n = (Len(res) + PAGE_SIZE - 1) \div PAGE_SIZE
  BY <1>5
<1>9. /\ \A i \in 1..n : (ShowPage(PageUrl(base, i), res).next # << >>) = (i < n)
      /\ FlattenSeq([ i \in 1..n |-> ShowPage(PageUrl(base, i), res).shown ]) = res
  BY <1>4, <1>7, <1>8, PagesCoverAll
<1>10. reply[r] = ShowPage(Path(r), results[r])
  BY DEF PageSent
<1> QED  BY <1>2, <1>5, <1>6, <1>9, <1>10, Zenon

(* Following Next from the first page shows every result of a search once, in    *)
(* order, Previous leads back, every link asks the same query, and the browser   *)
(* got the page it asked for (main.cpp:139), for results and pages of any size.  *)
THEOREM PagesCover == Spec => [](PlainPaths => PagesCoverResults)
<1>1. ServingInv /\ PageSent => (PlainPaths => PagesCoverResults)
  BY PagesCoverThem
<1> QED  BY <1>1, ServingInvariant, PageSentAlways, PTL
=============================================================================
