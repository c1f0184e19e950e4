-------------------------- MODULE IndexChunkProofs --------------------------
(***************************************************************************)
(* Proofs about the chunk file: the dictionary is sorted and its table of     *)
(* contents brackets it, the numbers of the posting lists are read as they     *)
(* were written, and a stream reader finds the list of every word.            *)
(***************************************************************************)
EXTENDS IndexStream, SequenceProofs

-----------------------------------------------------------------------------
(* Sums along a sequence                                                    *)

\* g is the recursive function by which Sum adds F over S, greatest index last.
LastEq(g, F, S) ==
    g = [s \in SUBSET S |-> IF s = {} THEN 0 ELSE g[s \ {Max(s)}] + F[Max(s)]]

LEMMA SumFolds ==
    ASSUME NEW f
    PROVE  Sum(f) = (CHOOSE g : LastEq(g, f, DOMAIN f))[DOMAIN f]
BY DEF Sum, FoldLeft, MapThenFoldSet, LastEq

LEMMA GreatestNumber ==
    ASSUME NEW n \in Nat, NEW s \in SUBSET (1..n), s # {}
    PROVE  Max(s) \in s /\ \A x \in s : x <= Max(s)
<1> DEFINE above == {m \in Nat : \A x \in s : x <= m}
<1>1. n \in above
  OBVIOUS
<1>2. PICK m \in above : \A k \in above : m <= k
  <2>1. above \in SUBSET Nat /\ above # {}
    BY <1>1
  <2> HIDE DEF above
  <2> QED  BY <2>1, LeastNumber
<1>3. m \in Nat /\ \A x \in s : x <= m
  OBVIOUS
<1>4. m \in s
  <2> SUFFICES ASSUME m \notin s PROVE FALSE
    OBVIOUS
  <2>1. \A x \in s : x \in Nat /\ x <= m - 1
    BY <1>3
  <2>2. m - 1 \in Nat
    <3>1. PICK x \in s : x \in 1..n
      OBVIOUS
    <3>2. x <= m - 1
      BY <2>1
    <3> QED  BY <1>3, <3>1, <3>2
  <2>3. m - 1 \in above
    BY <2>1, <2>2
  <2> QED  BY <1>2, <1>3, <2>3
<1> QED  BY <1>3, <1>4 DEF Max

LEMMA SumFromIndex ==
    ASSUME NEW n \in Nat, NEW f \in [1..n -> Nat], NEW s \in SUBSET (1..n), IsFiniteSet(s), NEW x \in s
    PROVE  SumFunctionOnSet(f, s) = SumFunctionOnSet(f, s \ {x}) + f[x]
<1>1. PICK D, F, T, y : D = 1..n /\ F = f /\ T = s \ {x} /\ y = x
  OBVIOUS
<1>2. F \in [D -> Nat] /\ T \in SUBSET D /\ IsFiniteSet(T) /\ y \in D \ T /\ T \cup {y} = s
  BY <1>1, FS_Subset
<1>3. SumFunctionOnSet(F, T \cup {y}) = SumFunctionOnSet(F, T) + F[y]
  BY <1>2, SumGrows
<1> QED  BY <1>1, <1>2, <1>3

\* A sum along a sequence is the sum over its indices.
LEMMA SumIsOverIndices ==
    ASSUME NEW n \in Nat, NEW f \in [1..n -> Nat]
    PROVE  Sum(f) = SumFunctionOnSet(f, 1..n)
<1> DEFINE h == [s \in SUBSET (1..n) |-> SumFunctionOnSet(f, s)]
           g == CHOOSE e : LastEq(e, f, 1..n)
<1>1. ASSUME NEW s \in SUBSET (1..n)
      PROVE  IsFiniteSet(s) /\ SumFunctionOnSet(f, s) \in Nat
  <2>1. IsFiniteSet(1..n)
    BY FS_Interval
  <2>2. IsFiniteSet(s)
    BY <2>1, FS_Subset
  <2> QED  BY <2>2, SumIsNatural
<1>2. ASSUME NEW s \in SUBSET (1..n), s # {}
      PROVE  SumFunctionOnSet(f, s) = SumFunctionOnSet(f, s \ {Max(s)}) + f[Max(s)]
  <2>1. Max(s) \in s
    BY <1>2, GreatestNumber
  <2>2. IsFiniteSet(s)
    BY <1>1
  <2> QED  BY <2>1, <2>2, SumFromIndex
<1>3. LastEq(h, f, 1..n)
  <2>1. SumFunctionOnSet(f, {}) = 0
    BY SumStep, FS_EmptySet
  <2>2. \A s \in SUBSET (1..n) : h[s] = IF s = {} THEN 0 ELSE h[s \ {Max(s)}] + f[Max(s)]
    BY <1>2, <2>1
  <2> QED  BY <2>2 DEF LastEq
<1>4. LastEq(g, f, 1..n)
  <2> HIDE DEF h
  <2> QED  BY <1>3
<1> HIDE DEF g
<1> DEFINE B == {s \in SUBSET (1..n) : g[s] # h[s]}
<1>5. B = {}
  <2> SUFFICES ASSUME B # {} PROVE FALSE
    OBVIOUS
  <2>1. B \in SUBSET SUBSET (1..n) /\ IsFiniteSet(1..n)
    BY FS_Interval
  <2>2. PICK s \in B : \A u \in SUBSET s : u # s => u \notin B
    <3> HIDE DEF B
    <3> QED  BY <2>1, SmallestSet
  <2>3. s \in SUBSET (1..n) /\ g[s] # h[s]
    OBVIOUS
  <2>4. /\ g[s] = IF s = {} THEN 0 ELSE g[s \ {Max(s)}] + f[Max(s)]
        /\ h[s] = IF s = {} THEN 0 ELSE h[s \ {Max(s)}] + f[Max(s)]
    <3> HIDE DEF h
    <3> QED  BY <1>3, <1>4, <2>3 DEF LastEq
  <2>5. s # {}
    BY <2>3, <2>4
  <2>6. Max(s) \in s
    BY <2>3, <2>5, GreatestNumber
  <2>7. g[s \ {Max(s)}] = h[s \ {Max(s)}]
    <3>1. s \ {Max(s)} \in SUBSET s /\ s \ {Max(s)} # s /\ s \ {Max(s)} \in SUBSET (1..n)
      BY <2>3, <2>6
    <3>2. s \ {Max(s)} \notin B
      BY <2>2, <3>1
    <3> QED  BY <3>1, <3>2
  <2> QED  BY <2>3, <2>4, <2>5, <2>7
<1>6. g[1..n] = h[1..n]
  BY <1>5
<1> QED  BY <1>6, SumFolds DEF g

\* The sum of the first n values.
Upto(f, n) == SumFunctionOnSet(f, 1..n)

LEMMA UptoSteps ==
    ASSUME NEW n \in Nat, NEW f \in [1..n -> Nat]
    PROVE  /\ Upto(f, 0) = 0
           /\ \A k \in 0..n : Upto(f, k) \in Nat
           /\ \A k \in 0..(n - 1) : Upto(f, k + 1) = Upto(f, k) + f[k + 1]
<1>1. Upto(f, 0) = 0
  <2>1. 1..0 = {}
    OBVIOUS
  <2> QED  BY <2>1, SumStep, FS_EmptySet DEF Upto
<1>2. ASSUME NEW k \in 0..n
      PROVE  IsFiniteSet(1..k) /\ 1..k \in SUBSET (1..n) /\ Upto(f, k) \in Nat
  <2>1. IsFiniteSet(1..k) /\ 1..k \in SUBSET (1..n)
    BY FS_Interval
  <2> QED  BY <2>1, SumIsNatural DEF Upto
<1>3. ASSUME NEW k \in 0..(n - 1)
      PROVE  Upto(f, k + 1) = Upto(f, k) + f[k + 1]
  <2>1. k \in 0..n /\ k + 1 \in (1..n) \ (1..k) /\ 1..(k + 1) = (1..k) \cup {k + 1}
    OBVIOUS
  <2>2. PICK D, F, s, x : D = 1..n /\ F = f /\ s = 1..k /\ x = k + 1
    OBVIOUS
  <2>3. F \in [D -> Nat] /\ s \in SUBSET D /\ IsFiniteSet(s) /\ x \in D \ s
    BY <1>2, <2>1, <2>2
  <2>4. SumFunctionOnSet(F, s \cup {x}) = SumFunctionOnSet(F, s) + F[x]
    BY <2>3, SumGrows
  <2> QED  BY <2>1, <2>2, <2>4 DEF Upto
<1> QED  BY <1>1, <1>2, <1>3

-----------------------------------------------------------------------------
(* The order of the dictionary                                              *)

Word == Seq(1..255)

\* v and w differ first at i, and there v is smaller.
Differ(v, w, i) == /\ i \in Nat \ {0}
                   /\ charAt(v, i) < charAt(w, i)
                   /\ \A j \in 1..(i - 1) : charAt(v, j) = charAt(w, j)

\* A byte past the end is told from every byte of a word, signed or not.
LEMMA BytesDiffer ==
    ASSUME NEW v \in Word, NEW i \in Nat \ {0}
    PROVE  /\ charAt(v, i) \in Int
           /\ charAt(v, i) = 0 <=> i > Len(v)
           /\ i <= Len(v) => v[i] \in 1..255 /\ charAt(v, i) = AsChar(v[i])
<1>1. Len(v) \in Nat /\ \A k \in 1..Len(v) : v[k] \in 1..255
  <2>1. PICK S : S = 1..255
    OBVIOUS
  <2>2. v \in Seq(S)
    BY <2>1 DEF Word
  <2>3. Len(v) \in Nat /\ \A k \in 1..Len(v) : v[k] \in S
    BY <2>2, ElementOfSeq, LenProperties
  <2> QED  BY <2>1, <2>3
<1>2. \A b \in 1..255 : AsChar(b) \in Int /\ AsChar(b) # 0
  BY DEF AsChar
<1>3. CASE i > Len(v)
  <2>1. charAt(v, i) = 0 /\ ~(i <= Len(v))
    BY <1>1, <1>3 DEF charAt
  <2> QED  BY <1>3, <2>1
<1>4. CASE i <= Len(v)
  <2>1. i \in 1..Len(v) /\ ~(i > Len(v))
    BY <1>1, <1>4
  <2>2. v[i] \in 1..255 /\ charAt(v, i) = AsChar(v[i])
    BY <1>1, <2>1 DEF charAt
  <2> QED  BY <1>2, <2>1, <2>2
<1> QED  BY <1>1, <1>3, <1>4

LEMMA SameBytes ==
    ASSUME NEW a \in 1..255, NEW b \in 1..255, AsChar(a) = AsChar(b)
    PROVE  a = b
BY DEF AsChar

LEMMA GreaterLength ==
    ASSUME NEW m \in Nat, NEW n \in Nat
    PROVE  Max({m, n}) \in Nat /\ m <= Max({m, n}) /\ n <= Max({m, n})
<1>1. CASE m <= n
  <2>1. n \in {m, n} /\ \A y \in {m, n} : n >= y
    BY <1>1
  <2> QED  BY <2>1 DEF Max
<1>2. CASE n <= m
  <2>1. m \in {m, n} /\ \A y \in {m, n} : m >= y
    BY <1>2
  <2> QED  BY <2>1 DEF Max
<1> QED  BY <1>1, <1>2

LEMMA BeforeDiffers ==
    ASSUME NEW v \in Word, NEW w \in Word
    PROVE  SortsBefore(v, w) <=> \E i : Differ(v, w, i)
<1> DEFINE top == Max({Len(v), Len(w)})
<1>1. top \in Nat /\ Len(v) <= top /\ Len(w) <= top /\ Len(v) \in Nat /\ Len(w) \in Nat
  <2>1. Len(v) \in Nat /\ Len(w) \in Nat
    BY DEF Word
  <2> QED  BY <2>1, GreaterLength
<1>2. ASSUME NEW i, Differ(v, w, i)
      PROVE  i \in 1..(1 + top)
  <2>1. i \in Nat \ {0} /\ charAt(v, i) # charAt(w, i)
    BY <1>2, BytesDiffer DEF Differ
  <2>2. ~(i > Len(v) /\ i > Len(w))
    BY <2>1, BytesDiffer
  <2> HIDE DEF top
  <2> QED  BY <1>1, <2>1, <2>2
<1>3. SortsBefore(v, w) => \E i : Differ(v, w, i)
  <2> HIDE DEF top
  <2>1. \A i \in 1..(1 + top) : i \in Nat \ {0}
    BY <1>1
  <2> QED  BY <2>1 DEF SortsBefore, Differ, top
<1>4. (\E i : Differ(v, w, i)) => SortsBefore(v, w)
  BY <1>2 DEF SortsBefore, Differ
<1> QED  BY <1>3, <1>4

LEMMA BeforeIsStrict ==
    ASSUME NEW v \in Word, NEW w \in Word, SortsBefore(v, w)
    PROVE  ~SortsBefore(w, v) /\ v # w
<1>1. PICK i : Differ(v, w, i)
  BY BeforeDiffers
<1>2. SUFFICES ASSUME NEW j, Differ(w, v, j) PROVE FALSE
  <2>1. v = w => SortsBefore(w, v)
    OBVIOUS
  <2> QED  BY <2>1, BeforeDiffers
<1>3. i \in Nat \ {0} /\ j \in Nat \ {0}
  BY <1>1, <1>2 DEF Differ
<1>4. charAt(v, i) \in Int /\ charAt(w, i) \in Int /\ charAt(v, j) \in Int /\ charAt(w, j) \in Int
  BY <1>3, BytesDiffer
<1>5. i < j => charAt(w, i) = charAt(v, i)
  BY <1>2, <1>3 DEF Differ
<1>6. j < i => charAt(v, j) = charAt(w, j)
  BY <1>1, <1>3 DEF Differ
<1> QED  BY <1>1, <1>2, <1>3, <1>4, <1>5, <1>6 DEF Differ

LEMMA BeforeIsTransitive ==
    ASSUME NEW u \in Word, NEW v \in Word, NEW w \in Word, SortsBefore(u, v), SortsBefore(v, w)
    PROVE  SortsBefore(u, w)
<1>1. PICK i : Differ(u, v, i)
  BY BeforeDiffers
<1>2. PICK j : Differ(v, w, j)
  BY BeforeDiffers
<1>3. i \in Nat \ {0} /\ j \in Nat \ {0}
  BY <1>1, <1>2 DEF Differ
<1>4. /\ charAt(u, i) \in Int /\ charAt(v, i) \in Int /\ charAt(w, i) \in Int
      /\ charAt(u, j) \in Int /\ charAt(v, j) \in Int /\ charAt(w, j) \in Int
  BY <1>3, BytesDiffer
<1>5. CASE i <= j
  <2>1. \A k \in 1..(i - 1) : charAt(u, k) = charAt(v, k) /\ charAt(v, k) = charAt(w, k)
    BY <1>1, <1>2, <1>3, <1>5 DEF Differ
  <2>2. charAt(u, i) < charAt(w, i)
    <3>1. i < j => charAt(v, i) = charAt(w, i)
      BY <1>2, <1>3 DEF Differ
    <3>2. i = j => charAt(v, i) < charAt(w, i)
      BY <1>2 DEF Differ
    <3>3. charAt(u, i) < charAt(v, i)
      BY <1>1 DEF Differ
    <3> QED  BY <1>3, <1>4, <1>5, <3>1, <3>2, <3>3
  <2>3. Differ(u, w, i)
    BY <1>3, <2>1, <2>2 DEF Differ
  <2> QED  BY <2>3, BeforeDiffers
<1>6. CASE j < i
  <2>1. \A k \in 1..(j - 1) : charAt(u, k) = charAt(v, k) /\ charAt(v, k) = charAt(w, k)
    BY <1>1, <1>2, <1>3, <1>6 DEF Differ
  <2>2. charAt(u, j) < charAt(w, j)
    <3>1. charAt(u, j) = charAt(v, j)
      BY <1>1, <1>3, <1>6 DEF Differ
    <3>2. charAt(v, j) < charAt(w, j)
      BY <1>2 DEF Differ
    <3> QED  BY <3>1, <3>2
  <2>3. Differ(u, w, j)
    BY <1>3, <2>1, <2>2 DEF Differ
  <2> QED  BY <2>3, BeforeDiffers
<1> QED  BY <1>3, <1>5, <1>6

LEMMA WordsAreOrdered ==
    ASSUME NEW v \in Word, NEW w \in Word, v # w
    PROVE  SortsBefore(v, w) \/ SortsBefore(w, v)
<1> DEFINE differing == {i \in Nat \ {0} : charAt(v, i) # charAt(w, i)}
<1>1. differing # {}
  <2> SUFFICES ASSUME \A i \in Nat \ {0} : charAt(v, i) = charAt(w, i) PROVE FALSE
    OBVIOUS
  <2>1. /\ Len(v) \in Nat /\ v = [k \in 1..Len(v) |-> v[k]]
        /\ Len(w) \in Nat /\ w = [k \in 1..Len(w) |-> w[k]]
    BY DEF Word
  <2>2. Len(v) + 1 \in Nat \ {0} /\ Len(w) + 1 \in Nat \ {0}
    BY <2>1
  <2>3. charAt(v, Len(v) + 1) = 0 /\ charAt(w, Len(w) + 1) = 0
    BY <2>1, <2>2, BytesDiffer
  <2>4. Len(v) + 1 > Len(w) /\ Len(w) + 1 > Len(v)
    <3>1. charAt(w, Len(v) + 1) = 0 /\ charAt(v, Len(w) + 1) = 0
      BY <2>2, <2>3
    <3> QED  BY <2>2, <3>1, BytesDiffer
  <2>5. Len(v) = Len(w)
    <3>1. Len(v) \in Nat /\ Len(w) \in Nat
      BY <2>1
    <3> QED  BY <2>4, <3>1
  <2>6. ASSUME NEW k \in 1..Len(v)
        PROVE  v[k] = w[k]
    <3>1. k \in Nat \ {0} /\ k <= Len(v) /\ k <= Len(w)
      BY <2>1, <2>5
    <3>2. AsChar(v[k]) = AsChar(w[k]) /\ v[k] \in 1..255 /\ w[k] \in 1..255
      BY <3>1, BytesDiffer
    <3> QED  BY <3>2, SameBytes
  <2> QED  BY <2>1, <2>5, <2>6
<1>2. PICK i \in differing : \A j \in differing : i <= j
  <2>1. differing \in SUBSET Nat
    OBVIOUS
  <2> HIDE DEF differing
  <2> QED  BY <1>1, <2>1, LeastNumber
<1>3. i \in Nat \ {0} /\ charAt(v, i) # charAt(w, i)
      /\ \A j \in 1..(i - 1) : charAt(v, j) = charAt(w, j)
  BY <1>2
<1>4. charAt(v, i) \in Int /\ charAt(w, i) \in Int
  BY <1>3, BytesDiffer
<1>5. Differ(v, w, i) \/ Differ(w, v, i)
  BY <1>3, <1>4 DEF Differ
<1> QED  BY <1>5, BeforeDiffers

-----------------------------------------------------------------------------
(* A set of words can be written in order                                   *)

InOrder(seq) == \A i, j \in DOMAIN seq : i < j => SortsBefore(seq[i], seq[j])

\* x takes its place among the words of f.
LEMMA Inserted ==
    ASSUME NEW m \in Nat, NEW f \in [1..m -> Word], InOrder(f),
           NEW x \in Word, \A i \in 1..m : f[i] # x
    PROVE  \E g \in [1..(m + 1) -> Word] :
              InOrder(g) /\ \A i \in 1..(m + 1) : g[i] = x \/ \E k \in 1..m : g[i] = f[k]
<1> DEFINE Room == {k \in 1..(m + 1) : \A j \in k..m : SortsBefore(x, f[j])}
<1>1. PICK k \in Room : \A l \in Room : k <= l
  <2>1. m + 1 \in Room /\ Room \in SUBSET Nat
    OBVIOUS
  <2> HIDE DEF Room
  <2> QED  BY <2>1, LeastNumber
<1>2. k \in 1..(m + 1) /\ \A j \in k..m : SortsBefore(x, f[j])
  OBVIOUS
<1>3. ASSUME k # 1
      PROVE  k - 1 \in 1..m /\ SortsBefore(f[k - 1], x)
  <2>1. k - 1 \in 1..m /\ k - 1 \notin Room
    BY <1>1, <1>2, <1>3
  <2>2. PICK j \in (k - 1)..m : ~SortsBefore(x, f[j])
    BY <2>1
  <2>3. j = k - 1
    BY <1>2, <2>1, <2>2
  <2> QED  BY <2>1, <2>2, <2>3, WordsAreOrdered
<1>4. \A j \in 1..(k - 1) : SortsBefore(f[j], x)
  <2> SUFFICES ASSUME NEW j \in 1..(k - 1) PROVE SortsBefore(f[j], x)
    OBVIOUS
  <2>1. k # 1 /\ k - 1 \in 1..m /\ j \in 1..m /\ j <= k - 1
    BY <1>2
  <2>2. SortsBefore(f[k - 1], x)
    BY <1>3, <2>1
  <2>3. CASE j = k - 1
    BY <2>2, <2>3
  <2>4. CASE j # k - 1
    <3>1. SortsBefore(f[j], f[k - 1])
      BY <2>1, <2>4 DEF InOrder
    <3>2. f[j] \in Word /\ f[k - 1] \in Word
      BY <2>1
    <3> QED  BY <2>2, <3>1, <3>2, BeforeIsTransitive
  <2> QED  BY <2>3, <2>4
<1> DEFINE g == [i \in 1..(m + 1) |-> IF i < k THEN f[i] ELSE IF i = k THEN x ELSE f[i - 1]]
<1>5. \A i \in 1..(m + 1) : /\ i < k => i \in 1..m /\ i \in 1..(k - 1) /\ g[i] = f[i]
                            /\ i = k => g[i] = x
                            /\ i > k => i - 1 \in k..m /\ i - 1 \in 1..m /\ g[i] = f[i - 1]
  BY <1>2
<1>6. g \in [1..(m + 1) -> Word]
  <2>1. \A i \in 1..(m + 1) : g[i] \in Word
    BY <1>2, <1>5
  <2> QED  BY <2>1
<1> HIDE DEF g
<1>7. InOrder(g)
  <2> SUFFICES ASSUME NEW i \in 1..(m + 1), NEW j \in 1..(m + 1), i < j
               PROVE  SortsBefore(g[i], g[j])
    BY <1>6 DEF InOrder
  <2>1. CASE j < k
    <3>1. i \in 1..m /\ j \in 1..m /\ g[i] = f[i] /\ g[j] = f[j]
      BY <1>2, <1>5, <2>1
    <3> QED  BY <3>1 DEF InOrder
  <2>2. CASE j = k
    <3>1. i \in 1..(k - 1) /\ g[i] = f[i] /\ g[j] = x
      BY <1>2, <1>5, <2>2
    <3> QED  BY <1>4, <3>1
  <2>3. CASE j > k
    <3>1. j - 1 \in k..m /\ j - 1 \in 1..m /\ g[j] = f[j - 1]
      BY <1>5, <2>3
    <3>2. CASE i = k
      <4>1. g[i] = x
        BY <1>5, <3>2
      <4> QED  BY <1>2, <3>1, <4>1
    <3>3. CASE i < k
      <4>1. i \in 1..m /\ g[i] = f[i] /\ i < j - 1
        BY <1>2, <1>5, <2>3, <3>3
      <4> QED  BY <3>1, <4>1 DEF InOrder
    <3>4. CASE i > k
      <4>1. i - 1 \in 1..m /\ g[i] = f[i - 1] /\ i - 1 < j - 1
        BY <1>5, <3>4
      <4> QED  BY <3>1, <4>1 DEF InOrder
    <3> QED  BY <1>2, <3>2, <3>3, <3>4
  <2> QED  BY <1>2, <2>1, <2>2, <2>3
<1>8. \A i \in 1..(m + 1) : g[i] = x \/ \E l \in 1..m : g[i] = f[l]
  BY <1>2, <1>5
<1> QED  BY <1>6, <1>7, <1>8

LEMMA OrderedExists ==
    ASSUME NEW T \in SUBSET Word, IsFiniteSet(T)
    PROVE  \E f \in SetToSeqs(T) : InOrder(f)
<1> DEFINE B == {S \in SUBSET T : ~ \E f \in [1..Cardinality(S) -> S] : InOrder(f)}
<1>1. B = {}
  <2> SUFFICES ASSUME B # {} PROVE FALSE
    OBVIOUS
  <2>1. PICK S \in B : \A U \in SUBSET S : U # S => U \notin B
    <3>1. B \in SUBSET SUBSET T
      OBVIOUS
    <3> HIDE DEF B
    <3> QED  BY <3>1, SmallestSet
  <2>2. S \in SUBSET T /\ ~ \E f \in [1..Cardinality(S) -> S] : InOrder(f)
    OBVIOUS
  <2>3. IsFiniteSet(S)
    BY <2>2, FS_Subset
  <2>4. S # {}
    <3> SUFFICES ASSUME S = {} PROVE FALSE
      OBVIOUS
    <3>1. Cardinality(S) = 0 /\ 1..0 = {}
      BY FS_EmptySet
    <3>2. << >> \in [1..Cardinality(S) -> S] /\ InOrder(<< >>)
      BY <3>1 DEF InOrder
    <3> QED  BY <2>2, <3>2
  <2>5. PICK x \in S : TRUE
    BY <2>4
  <2> DEFINE U == S \ {x}
             m == Cardinality(U)
  <2>6. IsFiniteSet(U) /\ m \in Nat /\ Cardinality(S) = m + 1
    <3>1. IsFiniteSet(U) /\ Cardinality(U) = Cardinality(S) - 1
      BY <2>3, <2>5, FS_RemoveElement
    <3>2. Cardinality(S) \in Nat /\ Cardinality(U) \in Nat
      BY <2>3, <3>1, FS_CardinalityType
    <3> QED  BY <3>1, <3>2
  <2>7. U \in SUBSET S /\ U # S /\ U \in SUBSET T
    BY <2>2, <2>5
  <2>8. PICK f \in [1..m -> U] : InOrder(f)
    <3>1. U \notin B
      BY <2>1, <2>7
    <3> QED  BY <2>7, <3>1
  <2> HIDE DEF m
  <2>9. f \in [1..m -> Word] /\ x \in Word /\ \A i \in 1..m : f[i] # x
    BY <2>2, <2>5, <2>7, <2>8
  <2>10. PICK g \in [1..(m + 1) -> Word] :
            InOrder(g) /\ \A i \in 1..(m + 1) : g[i] = x \/ \E k \in 1..m : g[i] = f[k]
    BY <2>6, <2>8, <2>9, Inserted
  <2>11. \A i \in 1..(m + 1) : g[i] \in S
    BY <2>5, <2>7, <2>8, <2>10
  <2>12. g \in [1..(m + 1) -> S]
    BY <2>10, <2>11
  <2> QED  BY <2>2, <2>6, <2>10, <2>12
<1>2. PICK f \in [1..Cardinality(T) -> T] : InOrder(f)
  BY <1>1
<1>3. ASSUME NEW i \in 1..Cardinality(T), NEW j \in 1..Cardinality(T), i # j
      PROVE  f[i] # f[j]
  <2>1. f[i] \in Word /\ f[j] \in Word
    OBVIOUS
  <2>2. Cardinality(T) \in Nat
    BY FS_CardinalityType
  <2>3. i < j \/ j < i
    BY <1>3, <2>2
  <2>4. SortsBefore(f[i], f[j]) \/ SortsBefore(f[j], f[i])
    BY <1>2, <2>3 DEF InOrder
  <2> QED  BY <2>1, <2>4, BeforeIsStrict
<1> QED  BY <1>2, <1>3 DEF SetToSeqs

\* The order in which charAt compares words is total, so that radix_sort
\* returns every word of a finite set once, and in that order.
THEOREM RadixSorts ==
    ASSUME NEW T \in SUBSET Word, IsFiniteSet(T)
    PROVE  /\ radix_sort(T) \in [1..Cardinality(T) -> T] /\ Cardinality(T) \in Nat
           /\ InOrder(radix_sort(T))
           /\ \A w \in T : \E i \in 1..Cardinality(T) : radix_sort(T)[i] = w
<1> DEFINE f == radix_sort(T)
           n == Cardinality(T)
<1>1. f \in SetToSeqs(T) /\ InOrder(f)
  <2>1. \E e \in SetToSeqs(T) : InOrder(e)
    BY OrderedExists
  <2> QED  BY <2>1 DEF radix_sort, InOrder
<1>2. n \in Nat
  BY FS_CardinalityType
<1>3. f \in [1..n -> T] /\ \A i, j \in 1..n : i # j => f[i] # f[j]
  <2> HIDE DEF f
  <2> QED  BY <1>1 DEF SetToSeqs
<1> HIDE DEF f
<1>4. f \in Injection(1..n, T)
  BY <1>3 DEF Injection, IsInjective
<1>5. f \in Surjection(1..n, T)
  <2>1. IsFiniteSet(1..n) /\ Cardinality(1..n) = n
    BY <1>2, FS_Interval
  <2> HIDE DEF n
  <2> QED  BY <1>4, <2>1, FS_Injection DEF n
<1>6. \A w \in T : \E i \in 1..n : f[i] = w
  <2> HIDE DEF n
  <2> QED  BY <1>5 DEF Surjection
<1> QED  BY <1>1, <1>2, <1>3, <1>6 DEF f

-----------------------------------------------------------------------------
(* Offsets: what a writer has written before its k-th piece                 *)

\* Only the values summed over matter.
LEMMA SumLike ==
    ASSUME NEW D, NEW F \in [D -> Nat], NEW E, NEW G \in [E -> Nat],
           NEW S \in SUBSET D, S \in SUBSET E, IsFiniteSet(S), \A x \in S : F[x] = G[x]
    PROVE  SumFunctionOnSet(F, S) = SumFunctionOnSet(G, S)
<1> DEFINE B == {T \in SUBSET S : SumFunctionOnSet(F, T) # SumFunctionOnSet(G, T)}
<1> SUFFICES ASSUME B # {} PROVE FALSE
  OBVIOUS
<1>1. PICK T \in B : \A U \in SUBSET T : U # T => U \notin B
  <2>1. B \in SUBSET SUBSET S
    OBVIOUS
  <2> HIDE DEF B
  <2> QED  BY <2>1, SmallestSet
<1>2. T \in SUBSET S /\ SumFunctionOnSet(F, T) # SumFunctionOnSet(G, T)
  OBVIOUS
<1>3. IsFiniteSet(T)
  BY <1>2, FS_Subset
<1>4. T # {}
  <2> SUFFICES ASSUME T = {} PROVE FALSE
    OBVIOUS
  <2>1. SumFunctionOnSet(F, {}) = 0 /\ SumFunctionOnSet(G, {}) = 0
    BY SumStep, FS_EmptySet
  <2> QED  BY <1>2, <2>1
<1>5. PICK y \in T : TRUE
  BY <1>4
<1>6. PICK U : U = T \ {y}
  OBVIOUS
<1>7. U \in SUBSET T /\ U # T /\ U \in SUBSET S /\ IsFiniteSet(U) /\ y \notin U /\ T = U \cup {y}
  BY <1>2, <1>3, <1>5, <1>6, FS_Subset
<1>8. SumFunctionOnSet(F, U) = SumFunctionOnSet(G, U)
  BY <1>1, <1>7
<1>9. SumFunctionOnSet(F, T) = SumFunctionOnSet(F, U) + F[y]
  <2>1. U \in SUBSET D /\ y \in D \ U
    BY <1>2, <1>5, <1>7
  <2> QED  BY <1>7, <2>1, SumGrows
<1>10. SumFunctionOnSet(G, T) = SumFunctionOnSet(G, U) + G[y]
  <2>1. U \in SUBSET E /\ y \in E \ U
    BY <1>2, <1>5, <1>7
  <2> QED  BY <1>7, <2>1, SumGrows
<1>11. F[y] = G[y]
  BY <1>2, <1>5
<1> QED  BY <1>2, <1>8, <1>9, <1>10, <1>11

\* The sum of the first k values.
Written(f, k) == Sum([j \in 1..k |-> f[j]])

LEMMA WrittenIsUpto ==
    ASSUME NEW n \in Nat, NEW f \in [1..n -> Nat], NEW k \in 0..n
    PROVE  Written(f, k) = Upto(f, k)
<1> DEFINE g == [j \in 1..k |-> f[j]]
<1>1. k \in Nat /\ g \in [1..k -> Nat] /\ \A j \in 1..k : g[j] = f[j]
  OBVIOUS
<1>2. IsFiniteSet(1..k) /\ 1..k \in SUBSET (1..n)
  BY FS_Interval
<1> HIDE DEF g
<1>3. Sum(g) = SumFunctionOnSet(g, 1..k)
  BY <1>1, SumIsOverIndices
<1>4. PICK D, E, F, G, S : D = 1..n /\ E = 1..k /\ F = f /\ G = g /\ S = 1..k
  OBVIOUS
<1>5. /\ F \in [D -> Nat] /\ G \in [E -> Nat] /\ S \in SUBSET D /\ S \in SUBSET E
      /\ IsFiniteSet(S) /\ \A x \in S : F[x] = G[x]
  BY <1>1, <1>2, <1>4
<1>6. SumFunctionOnSet(F, S) = SumFunctionOnSet(G, S)
  BY <1>5, SumLike
<1> QED  BY <1>3, <1>4, <1>6 DEF Written, Upto, g

LEMMA WrittenSteps ==
    ASSUME NEW n \in Nat, NEW f \in [1..n -> Nat]
    PROVE  /\ Written(f, 0) = 0
           /\ \A k \in 0..n : Written(f, k) \in Nat
           /\ \A k \in 0..(n - 1) : Written(f, k + 1) = Written(f, k) + f[k + 1]
<1>1. \A k \in 0..n : Written(f, k) = Upto(f, k)
  BY WrittenIsUpto
<1>2. 0 \in 0..n /\ \A k \in 0..(n - 1) : k \in 0..n /\ k + 1 \in 0..n
  OBVIOUS
<1> QED  BY <1>1, <1>2, UptoSteps

\* The later piece starts behind the earlier one.
LEMMA WrittenRises ==
    ASSUME NEW n \in Nat, NEW f \in [1..n -> Nat], NEW i \in 0..n, NEW j \in 0..n, i < j
    PROVE  Written(f, i) + f[i + 1] <= Written(f, j)
<1> DEFINE B == {k \in (i + 1)..n : ~(Written(f, i) + f[i + 1] <= Written(f, k))}
<1> SUFFICES ASSUME B # {} PROVE FALSE
  OBVIOUS
<1>1. PICK k \in B : \A l \in B : k <= l
  <2>1. B \in SUBSET Nat
    OBVIOUS
  <2> HIDE DEF B
  <2> QED  BY <2>1, LeastNumber
<1>2. k \in (i + 1)..n /\ ~(Written(f, i) + f[i + 1] <= Written(f, k))
  OBVIOUS
<1>3. i + 1 \in 1..n /\ f[i + 1] \in Nat /\ Written(f, i) \in Nat
  BY WrittenSteps
<1>4. Written(f, i + 1) = Written(f, i) + f[i + 1]
  BY WrittenSteps
<1>5. k # i + 1
  BY <1>2, <1>3, <1>4
<1>6. PICK l : l = k - 1
  OBVIOUS
<1>7. l \in (i + 1)..n /\ l \notin B /\ l \in 0..(n - 1) /\ l + 1 = k
  BY <1>1, <1>2, <1>5, <1>6
<1>8. Written(f, i) + f[i + 1] <= Written(f, l)
  BY <1>7
<1>9. Written(f, k) = Written(f, l) + f[k] /\ f[k] \in Nat /\ Written(f, l) \in Nat
  <2>1. l + 1 \in 1..n /\ l \in 0..n
    BY <1>7
  <2>2. Written(f, l + 1) = Written(f, l) + f[l + 1] /\ f[l + 1] \in Nat /\ Written(f, l) \in Nat
    BY <1>7, <2>1, WrittenSteps
  <2> QED  BY <1>7, <2>2
<1>10. Written(f, i) + f[i + 1] <= Written(f, k)
  <2> HIDE DEF B
  <2> QED  BY <1>3, <1>8, <1>9
<1> QED  BY <1>2, <1>10

-----------------------------------------------------------------------------
(* The dictionary and its table of contents                                 *)

HasSlot(w) == w # << >> /\ w[1] \in Letters \cup Digits

\* A dictionary of n words of the set S: each once, in order.
Dictionary(e, S, n) ==
    /\ n \in Nat /\ e \in [1..n -> S]
    /\ InOrder(e)
    /\ \A w \in S : \E i \in 1..n : e[i] = w
    /\ S \in SUBSET Word /\ \A w \in S : HasSlot(w)

LEMMA EntriesAreDictionary ==
    ASSUME NEW index, DOMAIN index \in SUBSET Word, IsFiniteSet(DOMAIN index)
    PROVE  \E n : Dictionary(sort_entries(index), {w \in DOMAIN index : HasSlot(w)}, n)
<1> DEFINE S == {w \in DOMAIN index : HasSlot(w)}
<1>1. S \in SUBSET Word /\ IsFiniteSet(S)
  BY FS_Subset
<1>2. sort_entries(index) = radix_sort(S)
  BY DEF sort_entries, HasSlot
<1>3. \A w \in S : HasSlot(w)
  OBVIOUS
<1> HIDE DEF S
<1>4. /\ radix_sort(S) \in [1..Cardinality(S) -> S] /\ Cardinality(S) \in Nat
      /\ InOrder(radix_sort(S))
      /\ \A w \in S : \E i \in 1..Cardinality(S) : radix_sort(S)[i] = w
  BY <1>1, RadixSorts
<1> QED  BY <1>1, <1>2, <1>3, <1>4 DEF Dictionary, S

LEMMA FirstByte ==
    ASSUME NEW v \in Word, HasSlot(v)
    PROVE  v[1] \in 48..122 /\ charAt(v, 1) = v[1] /\ Len(v) \in Nat \ {0}
<1>1. v[1] \in 48..122
  BY DEF HasSlot, Letters, Digits
<1>2. Len(v) \in Nat /\ Len(v) # 0
  BY EmptySeq DEF Word, HasSlot
<1>3. charAt(v, 1) = AsChar(v[1])
  BY <1>2 DEF charAt
<1>4. \A b \in 48..122 : AsChar(b) = b
  BY DEF AsChar
<1> QED  BY <1>1, <1>2, <1>3, <1>4

LEMMA FirstBytesRise ==
    ASSUME NEW v \in Word, NEW w \in Word, HasSlot(v), HasSlot(w), SortsBefore(v, w)
    PROVE  v[1] <= w[1]
<1>1. v[1] \in 48..122 /\ w[1] \in 48..122 /\ charAt(v, 1) = v[1] /\ charAt(w, 1) = w[1]
  BY FirstByte
<1>2. PICK i : Differ(v, w, i)
  BY BeforeDiffers
<1>3. i \in Nat \ {0} /\ charAt(v, i) < charAt(w, i) /\ \A j \in 1..(i - 1) : charAt(v, j) = charAt(w, j)
  BY <1>2 DEF Differ
<1>4. CASE i = 1
  BY <1>1, <1>3, <1>4
<1>5. CASE i # 1
  <2>1. 1 \in 1..(i - 1)
    BY <1>3, <1>5
  <2> QED  BY <1>1, <1>3, <2>1
<1> QED  BY <1>4, <1>5

\* An entry lies before another one exactly if its offset does.
LEMMA OffsetsRise ==
    ASSUME NEW S, NEW n, NEW e, Dictionary(e, S, n)
    PROVE  \A i, j \in 1..(n + 1) : /\ EntryOffset(e, i) \in Nat
                                    /\ EntryOffset(e, i) < EntryOffset(e, j) <=> i < j
<1> DEFINE f == [j \in 1..n |-> DictEntrySize(e[j])]
<1>1. n \in Nat /\ e \in [1..n -> Word]
  BY DEF Dictionary
<1>2. \A j \in 1..n : DictEntrySize(e[j]) \in Nat /\ DictEntrySize(e[j]) >= 10
  <2> TAKE j \in 1..n
  <2>1. Len(e[j]) \in Nat
    BY <1>1 DEF Word
  <2> QED  BY <2>1 DEF DictEntrySize
<1>3. f \in [1..n -> Nat] /\ \A j \in 1..n : f[j] = DictEntrySize(e[j]) /\ f[j] >= 10
  BY <1>2
<1>4. ASSUME NEW i \in 1..(n + 1)
      PROVE  EntryOffset(e, i) = Written(f, i - 1)
  <2>1. [j \in 1..(i - 1) |-> DictEntrySize(e[j])] = [j \in 1..(i - 1) |-> f[j]]
    <3>1. \A j \in 1..(i - 1) : j \in 1..n
      BY <1>1
    <3> QED  BY <3>1
  <2> QED  BY <2>1 DEF EntryOffset, Written
<1> HIDE DEF f
<1>5. \A i \in 1..(n + 1) : EntryOffset(e, i) \in Nat
  <2>1. \A i \in 1..(n + 1) : i - 1 \in 0..n
    BY <1>1
  <2> QED  BY <1>1, <1>3, <1>4, <2>1, WrittenSteps
<1>6. ASSUME NEW i \in 1..(n + 1), NEW j \in 1..(n + 1), i < j
      PROVE  EntryOffset(e, i) < EntryOffset(e, j)
  <2>1. i - 1 \in 0..n /\ j - 1 \in 0..n /\ i - 1 < j - 1 /\ (i - 1) + 1 = i /\ i \in 1..n
    BY <1>1, <1>6
  <2>2. Written(f, i - 1) + f[i] <= Written(f, j - 1)
    <3>1. PICK h, k : h = i - 1 /\ k = j - 1
      OBVIOUS
    <3>2. Written(f, h) + f[h + 1] <= Written(f, k)
      BY <1>1, <1>3, <2>1, <3>1, WrittenRises
    <3> QED  BY <2>1, <3>1, <3>2
  <2>3. f[i] \in Nat /\ f[i] >= 10
    BY <1>3, <2>1
  <2>4. EntryOffset(e, i) + f[i] <= EntryOffset(e, j)
    BY <1>4, <2>2
  <2> QED  BY <1>5, <2>3, <2>4
<1>7. \A i, j \in 1..(n + 1) : EntryOffset(e, i) < EntryOffset(e, j) => i < j
  <2> SUFFICES ASSUME NEW i \in 1..(n + 1), NEW j \in 1..(n + 1),
                      EntryOffset(e, i) < EntryOffset(e, j)
               PROVE  i < j
    OBVIOUS
  <2>1. i # j
    BY <1>5
  <2>2. ~(j < i)
    BY <1>5, <1>6
  <2> QED  BY <1>1, <2>1, <2>2
<1> QED  BY <1>5, <1>6, <1>7

\* The first entry at or past a character, or the end of the dictionary.
FirstFrom(e, n, b) ==
    LET following == {i \in 1..n : e[i][1] >= b}
    IN  IF following = {} THEN n + 1 ELSE Min(following)

LEMMA FirstFromSplits ==
    ASSUME NEW S, NEW n, NEW e, Dictionary(e, S, n), NEW b \in Int
    PROVE  /\ FirstFrom(e, n, b) \in 1..(n + 1)
           /\ \A k \in 1..n : FirstFrom(e, n, b) <= k <=> e[k][1] >= b
<1> DEFINE following == {i \in 1..n : e[i][1] >= b}
<1>1. n \in Nat /\ \A i \in 1..n : e[i] \in Word /\ HasSlot(e[i])
  BY DEF Dictionary
<1>2. \A i \in 1..n : e[i][1] \in Int
  <2> SUFFICES ASSUME NEW i \in 1..n PROVE e[i][1] \in Int
    OBVIOUS
  <2>1. e[i][1] \in Letters \cup Digits
    BY <1>1 DEF HasSlot
  <2> QED  BY <2>1 DEF Letters, Digits
<1>3. \A i, j \in 1..n : i < j => e[i][1] <= e[j][1]
  <2> SUFFICES ASSUME NEW i \in 1..n, NEW j \in 1..n, i < j PROVE e[i][1] <= e[j][1]
    OBVIOUS
  <2>1. SortsBefore(e[i], e[j])
    BY DEF Dictionary, InOrder
  <2> QED  BY <1>1, <2>1, FirstBytesRise
<1>4. CASE following = {}
  <2>1. FirstFrom(e, n, b) = n + 1
    BY <1>4 DEF FirstFrom
  <2> QED  BY <1>1, <1>4, <2>1
<1>5. CASE following # {}
  <2>1. FirstFrom(e, n, b) = Min(following)
    BY <1>5 DEF FirstFrom
  <2>2. PICK m \in following : \A i \in following : m <= i
    <3>1. following \in SUBSET Nat
      OBVIOUS
    <3> HIDE DEF following
    <3> QED  BY <1>5, <3>1, LeastNumber
  <2>3. Min(following) \in following /\ \A i \in following : Min(following) <= i
    <3> HIDE DEF following
    <3> QED  BY <2>2 DEF Min
  <2>4. PICK l : l = Min(following)
    OBVIOUS
  <2>5. l \in 1..n /\ e[l][1] >= b /\ \A i \in 1..n : e[i][1] >= b => l <= i
    BY <2>3, <2>4
  <2>6. ASSUME NEW k \in 1..n, l <= k
        PROVE  e[k][1] >= b
    <3>1. l = k \/ e[l][1] <= e[k][1]
      BY <1>1, <1>3, <2>5, <2>6
    <3> QED  BY <1>2, <2>5, <3>1
  <2> QED  BY <1>1, <2>1, <2>4, <2>5, <2>6
<1> QED  BY <1>4, <1>5

LEMMA SlotsCover ==
    /\ \A s \in 1..36 : Slots[s] \in Letters \cup Digits
    /\ \A b \in Letters \cup Digits : \E s \in 1..36 : Slots[s] = b
<1>1. \A s \in 1..36 : Slots[s] = IF s <= 26 THEN 96 + s ELSE 21 + s
  BY DEF Slots
<1>2. \A s \in 1..36 : Slots[s] \in Letters \cup Digits
  BY <1>1 DEF Letters, Digits
<1>3. ASSUME NEW b \in Letters
      PROVE  \E s \in 1..36 : Slots[s] = b
  <2>1. b - 96 \in 1..36 /\ Slots[b - 96] = b
    BY <1>1 DEF Letters
  <2> QED  BY <2>1
<1>4. ASSUME NEW b \in Digits
      PROVE  \E s \in 1..36 : Slots[s] = b
  <2>1. b - 21 \in 1..36 /\ Slots[b - 21] = b
    BY <1>1 DEF Digits
  <2> QED  BY <2>1
<1> QED  BY <1>2, <1>3, <1>4

\* The table brackets the words of a slot.
Brackets(toc, e) ==
    LET after(s) == {t \in 1..36 : Slots[t] > Slots[s]}
        upto(s) == IF after(s) = {} THEN EntryOffset(e, Len(e) + 1)
                   ELSE toc[CHOOSE t \in after(s) : \A r \in after(s) : Slots[t] <= Slots[r]]
    IN  \A s \in 1..36 :
          {k \in DOMAIN e : toc[s] <= EntryOffset(e, k) /\ EntryOffset(e, k) < upto(s)}
            = {k \in DOMAIN e : e[k][1] = Slots[s]}

LEMMA TableBrackets ==
    ASSUME NEW S, NEW n, NEW e, Dictionary(e, S, n)
    PROVE  Brackets(dict_offsets(e), e)
<1> DEFINE toc == dict_offsets(e)
           after(s) == {t \in 1..36 : Slots[t] > Slots[s]}
           next(s) == CHOOSE t \in after(s) : \A r \in after(s) : Slots[t] <= Slots[r]
           upto(s) == IF after(s) = {} THEN EntryOffset(e, Len(e) + 1) ELSE toc[next(s)]
           F(s) == FirstFrom(e, n, Slots[s])
<1>1. n \in Nat /\ DOMAIN e = 1..n /\ Len(e) = n /\ \A i \in 1..n : e[i] \in Word /\ HasSlot(e[i])
  <2>1. n \in Nat /\ e \in [1..n -> S] /\ \A i \in 1..n : e[i] \in Word /\ HasSlot(e[i])
    BY DEF Dictionary
  <2> QED  BY <2>1, FunctionIsSeq
<1>2. \A s \in 1..36 : Slots[s] \in Int
  BY SlotsCover DEF Letters, Digits
<1>3. \A s \in 1..36 : toc[s] = EntryOffset(e, F(s))
  BY <1>1 DEF dict_offsets, FirstFrom
<1>4. \A s \in 1..36 : /\ F(s) \in 1..(n + 1)
                       /\ \A k \in 1..n : F(s) <= k <=> e[k][1] >= Slots[s]
  BY <1>2, FirstFromSplits
<1> HIDE DEF F, toc
<1> SUFFICES ASSUME NEW s \in 1..36
             PROVE  {k \in 1..n : toc[s] <= EntryOffset(e, k) /\ EntryOffset(e, k) < upto(s)}
                      = {k \in 1..n : e[k][1] = Slots[s]}
  BY <1>1 DEF Brackets, toc
<1>5. ASSUME NEW k \in 1..n
      PROVE  /\ k \in 1..(n + 1) /\ e[k][1] \in Int
             /\ \E t \in 1..36 : Slots[t] = e[k][1]
  <2>1. e[k][1] \in Letters \cup Digits
    BY <1>1 DEF HasSlot
  <2>2. \E t \in 1..36 : Slots[t] = e[k][1]
    BY <2>1, SlotsCover
  <2>3. e[k][1] \in Int
    BY <2>1 DEF Letters, Digits
  <2>4. k \in 1..(n + 1)
    <3>1. n \in Nat
      BY <1>1
    <3> QED  BY <3>1
  <2> QED  BY <2>2, <2>3, <2>4
<1>6. ASSUME NEW k \in 1..n
      PROVE  toc[s] <= EntryOffset(e, k) <=> e[k][1] >= Slots[s]
  <2>1. EntryOffset(e, k) < EntryOffset(e, F(s)) <=> k < F(s)
    BY <1>4, <1>5, OffsetsRise
  <2>2. EntryOffset(e, k) \in Nat /\ EntryOffset(e, F(s)) \in Nat
    <3>1. \A i \in 1..(n + 1) : EntryOffset(e, i) \in Nat
      BY OffsetsRise
    <3> QED  BY <1>4, <1>5, <3>1
  <2>3. toc[s] <= EntryOffset(e, k) <=> F(s) <= k
    <3>1. PICK a, b, c : a = EntryOffset(e, k) /\ b = EntryOffset(e, F(s)) /\ c = F(s)
      OBVIOUS
    <3>2. n \in Nat /\ c \in 1..(n + 1) /\ a \in Nat /\ b \in Nat
      <4>1. n \in Nat
        BY <1>1
      <4>2. F(s) \in 1..(n + 1)
        BY <1>4
      <4> QED  BY <2>2, <3>1, <4>1, <4>2
    <3>3. a < b <=> k < c
      BY <2>1, <3>1
    <3>4. b <= a <=> c <= k
      BY <3>2, <3>3
    <3> QED  BY <1>3, <3>1, <3>4
  <2> QED  BY <1>4, <2>3
<1>7. ASSUME NEW k \in 1..n
      PROVE  EntryOffset(e, k) < upto(s) <=> e[k][1] <= Slots[s]
  <2>1. CASE after(s) = {}
    <3>1. EntryOffset(e, k) < EntryOffset(e, n + 1)
      <4>1. n + 1 \in 1..(n + 1) /\ k < n + 1
        BY <1>1
      <4> QED  BY <1>5, <4>1, OffsetsRise
    <3>2. PICK t \in 1..36 : Slots[t] = e[k][1]
      BY <1>5
    <3>3. ~(Slots[t] > Slots[s])
      BY <2>1
    <3>4. Slots[t] \in Int /\ Slots[s] \in Int
      BY <1>2
    <3>5. e[k][1] <= Slots[s]
      BY <3>2, <3>3, <3>4
    <3>6. upto(s) = EntryOffset(e, n + 1)
      BY <1>1, <2>1
    <3> QED  BY <3>1, <3>5, <3>6
  <2>2. CASE after(s) # {}
    <3>1. next(s) \in after(s) /\ \A r \in after(s) : Slots[next(s)] <= Slots[r]
      <4> DEFINE later == {Slots[r] : r \in after(s)}
      <4>1. later \in SUBSET Nat /\ later # {}
        BY <2>2, SlotsCover DEF Letters, Digits
      <4>2. PICK b \in later : \A c \in later : b <= c
        <5> HIDE DEF later
        <5> QED  BY <4>1, LeastNumber
      <4>3. PICK t \in after(s) : b = Slots[t]
        OBVIOUS
      <4>4. \A r \in after(s) : Slots[t] <= Slots[r]
        BY <4>2, <4>3
      <4> HIDE DEF after
      <4> QED  BY <4>4
    <3>2. PICK t : t = next(s)
      OBVIOUS
    <3>3. t \in 1..36 /\ Slots[t] > Slots[s] /\ \A r \in 1..36 : Slots[r] > Slots[s] => Slots[t] <= Slots[r]
      BY <3>1, <3>2
    <3>4. upto(s) = EntryOffset(e, F(t))
      BY <1>3, <2>2, <3>2, <3>3
    <3>5. EntryOffset(e, k) < EntryOffset(e, F(t)) <=> k < F(t)
      BY <1>4, <1>5, <3>3, OffsetsRise
    <3>6. k < F(t) <=> ~(e[k][1] >= Slots[t])
      <4>1. F(t) \in 1..(n + 1) /\ (F(t) <= k <=> e[k][1] >= Slots[t])
        BY <1>4, <3>3
      <4> QED  BY <1>1, <4>1
    <3>7. PICK r \in 1..36 : Slots[r] = e[k][1]
      BY <1>5
    <3>8. ~(e[k][1] >= Slots[t]) <=> e[k][1] <= Slots[s]
      <4>1. Slots[r] \in Int /\ Slots[s] \in Int /\ Slots[t] \in Int
        BY <1>2, <3>3
      <4> QED  BY <3>3, <3>7, <4>1
    <3> QED  BY <3>4, <3>5, <3>6, <3>8
  <2> QED  BY <2>1, <2>2
<1>8. \A k \in 1..n : (e[k][1] >= Slots[s] /\ e[k][1] <= Slots[s]) <=> e[k][1] = Slots[s]
  BY <1>2, <1>5
<1> QED  BY <1>6, <1>7, <1>8

-----------------------------------------------------------------------------
(* Numbers are read as they are written                                     *)

LEMMA Limits ==
    /\ Utf8Limits[1] = 127 /\ Utf8Limits[2] = 2047 /\ Utf8Limits[3] = 65535
    /\ Utf8Limits[4] = 2097151 /\ Utf8Limits[5] = 67108863 /\ Utf8Limits[6] = 2147483647
BY SMT DEF Utf8Limits

\* The size of a number is the least in which it fits.
LEMMA SizeFits ==
    ASSUME NEW v \in Nat, v <= Utf8Limits[6]
    PROVE  LET n == SizeOfUtf8(v)
           IN  n \in 1..6 /\ v <= Utf8Limits[n] /\ \A m \in 1..(n - 1) : v > Utf8Limits[m]
<1>1. \E n \in 1..6 : v <= Utf8Limits[n] /\ \A m \in 1..(n - 1) : v > Utf8Limits[m]
  <2> DEFINE fits == {n \in 1..6 : v <= Utf8Limits[n]}
  <2>1. 6 \in fits /\ fits \in SUBSET Nat
    BY Limits, SMT
  <2>2. PICK n \in fits : \A m \in fits : n <= m
    <3> HIDE DEF fits
    <3> QED  BY <2>1, LeastNumber
  <2>3. n \in 1..6 /\ v <= Utf8Limits[n]
    OBVIOUS
  <2>4. ASSUME NEW m \in 1..(n - 1)
        PROVE  v > Utf8Limits[m]
    <3>1. m \in 1..6 /\ ~(n <= m)
      BY <2>3
    <3>2. ~(v <= Utf8Limits[m])
      BY <2>2, <3>1
    <3>3. Utf8Limits[m] \in Int
      BY <3>1, Limits, SMT
    <3> QED  BY <3>2, <3>3
  <2> QED  BY <2>3, <2>4
<1>2. ~(v > Utf8Limits[6])
  BY Limits, SMT
<1>3. SizeOfUtf8(v) = CHOOSE n \in 1..6 : v <= Utf8Limits[n] /\ \A m \in 1..(n - 1) : v > Utf8Limits[m]
  BY <1>2 DEF SizeOfUtf8
<1> QED  BY <1>1, <1>3

\* Shifting out six bits.
LEMMA Shift ==
    ASSUME NEW a \in Nat
    PROVE  /\ a \div 64 \in Nat /\ a % 64 \in 0..63
           /\ a = 64 * (a \div 64) + (a % 64)
OBVIOUS

LEMMA Shifted ==
    ASSUME NEW v \in Nat, NEW k \in 1..5
    PROVE  (v \div Place[k]) \in Nat /\ (v \div Place[k]) \div 64 = v \div Place[k + 1]
<1>1. PICK p : p = Place[k]
  OBVIOUS
<1>2. p \in Nat \ {0} /\ Place[k + 1] = 64 * p
  BY <1>1, SMT DEF Place
<1>3. PICK q, r : q = v \div p /\ r = v % p
  OBVIOUS
<1>4. q \in Nat /\ r \in 0..(p - 1) /\ v = p * q + r
  BY <1>2, <1>3, SMT
<1>5. (v \div p) \div 64 = v \div (64 * p)
  <2>1. PICK a, b : a = q \div 64 /\ b = q % 64
    OBVIOUS
  <2>2. a \in Nat /\ b \in 0..63 /\ q = 64 * a + b
    BY <1>4, <2>1, Shift
  <2>3. v = (64 * p) * a + (p * b + r)
    BY <1>2, <1>4, <2>2, SMT
  <2>4. p * b + r \in 0..(64 * p - 1)
    <3>1. p * b <= p * 63 /\ p * b \in Nat
      BY <1>2, <2>2, SMT
    <3> QED  BY <1>2, <1>4, <3>1, SMT
  <2>5. v \div (64 * p) = a
    <3>1. PICK w, x : w = 64 * p /\ x = p * b + r
      OBVIOUS
    <3>2. w \in Nat \ {0} /\ x \in 0..(w - 1) /\ v = w * a + x
      BY <1>2, <2>3, <2>4, <3>1, SMT
    <3>3. v \div w = a
      BY <2>2, <3>2, SMT
    <3> QED  BY <3>1, <3>3
  <2> QED  BY <1>3, <2>1, <2>5
<1> QED  BY <1>1, <1>2, <1>3, <1>4, <1>5

Marks == << 0, 192, 224, 240, 248, 252 >>

Leads == << 1, 32, 16, 8, 4, 2 >>

\* The first byte keeps the high bits apart from the mark of the length.
LEMMA HighBits ==
    ASSUME NEW n \in 2..6, NEW v \in Nat, v <= Utf8Limits[n]
    PROVE  (v \div Place[n]) \in Nat /\ (Marks[n] + (v \div Place[n])) % Leads[n] = v \div Place[n]
<1> DEFINE q == v \div Place[n]
<1>1. CASE n = 2
  <2>1. Place[n] = 64 /\ Utf8Limits[n] = 2047 /\ Marks[n] = 192 /\ Leads[n] = 32
    BY <1>1, SMT DEF Place, Utf8Limits, Marks, Leads
  <2> QED  BY <2>1, SMT
<1>2. CASE n = 3
  <2>1. Place[n] = 4096 /\ Utf8Limits[n] = 65535 /\ Marks[n] = 224 /\ Leads[n] = 16
    BY <1>2, SMT DEF Place, Utf8Limits, Marks, Leads
  <2> QED  BY <2>1, SMT
<1>3. CASE n = 4
  <2>1. Place[n] = 262144 /\ Utf8Limits[n] = 2097151 /\ Marks[n] = 240 /\ Leads[n] = 8
    BY <1>3, SMT DEF Place, Utf8Limits, Marks, Leads
  <2> QED  BY <2>1, SMT
<1>4. CASE n = 5
  <2>1. Place[n] = 16777216 /\ Utf8Limits[n] = 67108863 /\ Marks[n] = 248 /\ Leads[n] = 4
    BY <1>4, SMT DEF Place, Utf8Limits, Marks, Leads
  <2> QED  BY <2>1, SMT
<1>5. CASE n = 6
  <2>1. Place[n] = 64 * 16777216 /\ Utf8Limits[n] = 2147483647 /\ Marks[n] = 252 /\ Leads[n] = 2
    BY <1>5, SMT DEF Place, Utf8Limits, Marks, Leads
  <2> QED  BY <2>1, SMT
<1> QED  BY <1>1, <1>2, <1>3, <1>4, <1>5

Codable(v) == v \in Nat /\ v <= Utf8Limits[6]

LEMMA BytesWritten ==
    ASSUME NEW v, Codable(v)
    PROVE  LET n == SizeOfUtf8(v)
               b == WriteUtf8(v)
           IN  /\ n \in 1..6 /\ Len(b) = n /\ DOMAIN b = 1..n /\ b = [i \in 1..n |-> b[i]]
               /\ b[1] = IF n = 1 THEN v ELSE Marks[n] + (v \div Place[n])
               /\ \A i \in 2..n : b[i] = 128 + ((v \div Place[n - i + 1]) % 64)
<1> DEFINE n == SizeOfUtf8(v)
           b == WriteUtf8(v)
<1>1. v \in Nat /\ v <= Utf8Limits[6] /\ ~(v > Utf8Limits[6])
  BY Limits, SMT DEF Codable
<1>2. n \in 1..6
  BY <1>1, SizeFits
<1>3. b = [i \in 1..n |-> IF n = 1 THEN v
                          ELSE IF i = 1 THEN Marks[n] + (v \div Place[n])
                          ELSE 128 + ((v \div Place[n - i + 1]) % 64)]
  BY <1>1 DEF WriteUtf8, Marks
<1> HIDE DEF n, b
<1>4. n \in Nat /\ b \in [1..n -> {b[i] : i \in 1..n}]
  BY <1>2, <1>3
<1>5. Len(b) = n /\ DOMAIN b = 1..n /\ b = [i \in 1..n |-> b[i]]
  BY <1>4, FunctionIsSeq
<1>6. b[1] = IF n = 1 THEN v ELSE Marks[n] + (v \div Place[n])
  <2>1. 1 \in 1..n
    BY <1>2
  <2> QED  BY <1>3, <2>1
<1>7. \A i \in 2..n : b[i] = 128 + ((v \div Place[n - i + 1]) % 64)
  <2>1. \A i \in 2..n : i \in 1..n /\ i # 1 /\ n # 1
    BY <1>2
  <2> QED  BY <1>3, <2>1
<1> QED  BY <1>2, <1>5, <1>6, <1>7 DEF n, b

\* g is the recursive function by which ReadUtf8 takes up n bytes.
ValueEq(g, bytes, n) ==
    g = [i \in 1..n |-> IF i = 1 THEN (IF n = 1 THEN bytes[1] ELSE bytes[1] % Leads[n])
                        ELSE 64 * g[i - 1] + (bytes[i] % 64)]

LEMMA ReadUnfolds ==
    ASSUME NEW bytes
    PROVE  LET n == Len(bytes)
               v == (CHOOSE g : ValueEq(g, bytes, n))[n]
           IN  ReadUtf8(bytes) = IF (n > 1 /\ v <= Utf8Limits[n - 1]) \/ IsReplaced(v)
                                 THEN ReplacementCharacter ELSE v
BY DEF ReadUtf8, ValueEq, Leads

\* ReadUtf8 gives back what WriteUtf8 wrote, in one byte or in six, unless the
\* number is one that Unicode sets aside.
THEOREM WrittenIsRead ==
    ASSUME NEW v, Codable(v), ~IsReplaced(v)
    PROVE  ReadUtf8(WriteUtf8(v)) = v
<1> DEFINE n == SizeOfUtf8(v)
           b == WriteUtf8(v)
           h == [i \in 1..n |-> v \div Place[n - i + 1]]
           g == CHOOSE e : ValueEq(e, b, n)
<1>1. /\ n \in 1..6 /\ Len(b) = n /\ DOMAIN b = 1..n
      /\ b[1] = IF n = 1 THEN v ELSE Marks[n] + (v \div Place[n])
      /\ \A i \in 2..n : b[i] = 128 + ((v \div Place[n - i + 1]) % 64)
  BY BytesWritten
<1>2. v \in Nat /\ v <= Utf8Limits[6] /\ v <= Utf8Limits[n] /\ \A m \in 1..(n - 1) : v > Utf8Limits[m]
  BY SizeFits DEF Codable
<1> HIDE DEF n, b
<1>3. v \div Place[1] = v
  BY <1>2, SMT DEF Place
<1>4. ASSUME NEW i \in 1..n
      PROVE  h[i] = IF i = 1 THEN (IF n = 1 THEN b[1] ELSE b[1] % Leads[n])
                    ELSE 64 * h[i - 1] + (b[i] % 64)
  <2>1. CASE i = 1 /\ n = 1
    <3>1. h[i] = v \div Place[1]
      BY <2>1
    <3> QED  BY <1>1, <1>3, <2>1, <3>1
  <2>2. CASE i = 1 /\ n # 1
    <3>1. n \in 2..6 /\ h[i] = v \div Place[n]
      BY <1>1, <2>2
    <3>2. (Marks[n] + (v \div Place[n])) % Leads[n] = v \div Place[n]
      BY <1>2, <3>1, HighBits
    <3> QED  BY <1>1, <2>2, <3>1, <3>2
  <2>3. CASE i # 1
    <3>1. PICK k : k = n - i + 1
      OBVIOUS
    <3>2. i \in 2..n /\ i - 1 \in 1..n /\ k \in 1..5 /\ n - (i - 1) + 1 = k + 1
      BY <1>1, <2>3, <3>1
    <3>3. h[i] = v \div Place[k] /\ h[i - 1] = v \div Place[k + 1]
      BY <3>1, <3>2
    <3>4. b[i] = 128 + ((v \div Place[k]) % 64)
      BY <1>1, <3>1, <3>2
    <3>5. PICK q : q = v \div Place[k]
      OBVIOUS
    <3>6. q \in Nat /\ q \div 64 = v \div Place[k + 1]
      BY <1>2, <3>2, <3>5, Shifted
    <3>7. q \div 64 \in Nat /\ q % 64 \in 0..63 /\ q = 64 * (q \div 64) + (q % 64)
      BY <3>6, Shift
    <3>8. (128 + (q % 64)) % 64 = q % 64
      <4>1. PICK r : r = q % 64
        OBVIOUS
      <4>2. (128 + r) % 64 = r
        BY <3>7, <4>1, SMT
      <4> QED  BY <4>1, <4>2
    <3> HIDE DEF h
    <3>9. h[i] = 64 * h[i - 1] + (b[i] % 64)
      BY <3>3, <3>4, <3>5, <3>6, <3>7, <3>8
    <3> QED  BY <2>3, <3>9
  <2> QED  BY <2>1, <2>2, <2>3
<1>5. ValueEq(h, b, n)
  <2>1. h = [i \in 1..n |-> h[i]]
    OBVIOUS
  <2> HIDE DEF h
  <2> QED  BY <1>4, <2>1 DEF ValueEq
<1>6. ValueEq(g, b, n)
  <2> HIDE DEF h
  <2> QED  BY <1>5
<1> HIDE DEF g
<1>7. \A i \in 1..n : g[i] = h[i]
  <2> DEFINE B == {i \in 1..n : g[i] # h[i]}
  <2> SUFFICES ASSUME B # {} PROVE FALSE
    OBVIOUS
  <2> HIDE DEF h
  <2>1. PICK i \in B : \A j \in B : i <= j
    <3>1. B \in SUBSET Nat
      OBVIOUS
    <3> HIDE DEF B
    <3> QED  BY <3>1, LeastNumber
  <2>2. i \in 1..n /\ g[i] # h[i]
    OBVIOUS
  <2>3. i # 1 => g[i - 1] = h[i - 1]
    <3>1. i # 1 => i - 1 \in 1..n /\ ~(i <= i - 1)
      BY <1>1, <2>2
    <3> QED  BY <2>1, <3>1
  <2>4. \A j \in 1..n : g[j] = IF j = 1 THEN (IF n = 1 THEN b[1] ELSE b[1] % Leads[n])
                               ELSE 64 * g[j - 1] + (b[j] % 64)
    BY <1>6 DEF ValueEq
  <2>5. g[i] = h[i]
    <3> HIDE DEF B
    <3> QED  BY <1>4, <2>2, <2>3, <2>4
  <2> QED  BY <2>2, <2>5
<1>8. g[n] = v
  <2>1. n \in 1..n /\ n - n + 1 = 1
    BY <1>1
  <2>2. h[n] = v \div Place[1]
    BY <2>1
  <2> HIDE DEF h
  <2> QED  BY <1>3, <1>7, <2>1, <2>2
<1>9. ~(n > 1 /\ v <= Utf8Limits[n - 1])
  <2> SUFFICES ASSUME n > 1 PROVE ~(v <= Utf8Limits[n - 1])
    OBVIOUS
  <2>1. PICK m : m = n - 1
    OBVIOUS
  <2>2. m \in 1..(n - 1) /\ m \in 1..6
    BY <1>1, <2>1
  <2>3. v > Utf8Limits[m] /\ Utf8Limits[m] \in Int
    BY <1>2, <2>2, Limits, SMT
  <2> QED  BY <1>2, <2>1, <2>3
<1> QED  BY <1>1, <1>8, <1>9, ReadUnfolds DEF g, b

-----------------------------------------------------------------------------
(* Cells end to end                                                         *)

Widths(cells) == [i \in DOMAIN cells |-> cells[i].w]

\* Where the cell behind the first i begins.
EndOf(cells, i) == Written(Widths(cells), i)

AreCells(cells) ==
    /\ Len(cells) \in Nat /\ DOMAIN cells = 1..Len(cells)
    /\ \A i \in 1..Len(cells) : cells[i].w \in Nat \ {0}

LEMMA EndSteps ==
    ASSUME NEW c, AreCells(c)
    PROVE  /\ EndOf(c, 0) = 0
           /\ \A i \in 0..Len(c) : EndOf(c, i) \in Nat
           /\ \A i \in 0..(Len(c) - 1) : EndOf(c, i + 1) = EndOf(c, i) + c[i + 1].w
           /\ \A i, j \in 0..Len(c) : i < j => EndOf(c, i) + c[i + 1].w <= EndOf(c, j)
<1> DEFINE f == Widths(c)
           n == Len(c)
<1>1. n \in Nat /\ f \in [1..n -> Nat] /\ \A i \in 1..n : f[i] = c[i].w
  BY DEF AreCells, Widths
<1> HIDE DEF f, n
<1>2. /\ Written(f, 0) = 0
      /\ \A k \in 0..n : Written(f, k) \in Nat
      /\ \A k \in 0..(n - 1) : Written(f, k + 1) = Written(f, k) + f[k + 1]
  BY <1>1, WrittenSteps
<1>3. \A k \in 0..(n - 1) : k + 1 \in 1..n /\ f[k + 1] = c[k + 1].w
  BY <1>1
<1>4. ASSUME NEW i \in 0..n, NEW j \in 0..n, i < j
      PROVE  Written(f, i) + c[i + 1].w <= Written(f, j)
  <2>1. i \in 0..(n - 1)
    BY <1>1, <1>4
  <2>2. Written(f, i) + f[i + 1] <= Written(f, j)
    BY <1>1, <1>4, WrittenRises
  <2> QED  BY <1>3, <2>1, <2>2
<1> QED  BY <1>2, <1>3, <1>4 DEF EndOf, f, n

\* g is the recursive function of LayOut.
EndEq(g, cells) == g = [i \in 0..Len(cells) |-> IF i = 0 THEN 0 ELSE g[i - 1] + cells[i].w]

LEMMA LayOutUnfolds ==
    ASSUME NEW cells
    PROVE  LET end == CHOOSE g : EndEq(g, cells)
           IN  LayOut(cells) = [at \in {end[i - 1] : i \in DOMAIN cells} |->
                                  cells[CHOOSE i \in DOMAIN cells : end[i - 1] = at]]
BY DEF LayOut, EndEq

\* In a region of cells written end to end, each cell is found at the sum of the
\* widths before it, and nothing is found anywhere else.
THEOREM LaidOut ==
    ASSUME NEW c, AreCells(c)
    PROVE  /\ \A i \in 1..Len(c) : /\ EndOf(c, i - 1) \in DOMAIN LayOut(c)
                                   /\ LayOut(c)[EndOf(c, i - 1)] = c[i]
           /\ \A at \in DOMAIN LayOut(c) : \E i \in 1..Len(c) : at = EndOf(c, i - 1)
           /\ RegionSize(c) = EndOf(c, Len(c))
<1> DEFINE n == Len(c)
           h == [i \in 0..n |-> EndOf(c, i)]
           g == CHOOSE e : EndEq(e, c)
<1>1. n \in Nat /\ DOMAIN c = 1..n
  BY DEF AreCells
<1>2. \A i \in 0..n : h[i] = IF i = 0 THEN 0 ELSE h[i - 1] + c[i].w
  <2>1. ASSUME NEW i \in 0..n, i # 0
        PROVE  h[i] = h[i - 1] + c[i].w
    <3>1. PICK k : k = i - 1
      OBVIOUS
    <3>2. k \in 0..(n - 1) /\ i = k + 1 /\ k \in 0..n
      BY <1>1, <2>1, <3>1
    <3>3. EndOf(c, k + 1) = EndOf(c, k) + c[k + 1].w
      BY <3>2, EndSteps
    <3> QED  BY <3>1, <3>2, <3>3
  <2>2. h[0] = 0
    BY <1>1, EndSteps
  <2> HIDE DEF h
  <2> QED  BY <2>1, <2>2
<1>3. EndEq(h, c)
  <2>1. h = [i \in 0..n |-> h[i]]
    OBVIOUS
  <2> HIDE DEF h
  <2> QED  BY <1>2, <2>1 DEF EndEq
<1>4. EndEq(g, c)
  <2> HIDE DEF h
  <2> QED  BY <1>3
<1> HIDE DEF g
<1>5. \A i \in 0..n : g[i] = h[i]
  <2> DEFINE B == {i \in 0..n : g[i] # h[i]}
  <2> SUFFICES ASSUME B # {} PROVE FALSE
    OBVIOUS
  <2> HIDE DEF h
  <2>1. PICK i \in B : \A j \in B : i <= j
    <3>1. B \in SUBSET Nat
      OBVIOUS
    <3> HIDE DEF B
    <3> QED  BY <3>1, LeastNumber
  <2>2. i \in 0..n /\ g[i] # h[i]
    OBVIOUS
  <2>3. i # 0 => g[i - 1] = h[i - 1]
    <3>1. i # 0 => i - 1 \in 0..n /\ ~(i <= i - 1)
      BY <1>1, <2>2
    <3> QED  BY <2>1, <3>1
  <2>4. \A j \in 0..n : g[j] = IF j = 0 THEN 0 ELSE g[j - 1] + c[j].w
    BY <1>4 DEF EndEq
  <2>5. g[i] = h[i]
    <3> HIDE DEF B
    <3> QED  BY <1>2, <2>2, <2>3, <2>4
  <2> QED  BY <2>2, <2>5
<1>6. \A i \in 1..n : g[i - 1] = EndOf(c, i - 1)
  <2>1. \A i \in 1..n : i - 1 \in 0..n
    BY <1>1
  <2> QED  BY <1>5, <2>1
<1>7. LayOut(c) = [at \in {g[i - 1] : i \in 1..n} |-> c[CHOOSE i \in 1..n : g[i - 1] = at]]
  <2>1. LayOut(c) = [at \in {g[i - 1] : i \in DOMAIN c} |-> c[CHOOSE i \in DOMAIN c : g[i - 1] = at]]
    BY LayOutUnfolds DEF g
  <2> HIDE DEF n
  <2> QED  BY <1>1, <2>1
<1>8. \A i, j \in 1..n : EndOf(c, i - 1) = EndOf(c, j - 1) => i = j
  <2>1. ASSUME NEW i \in 1..n, NEW j \in 1..n, i < j
        PROVE  EndOf(c, i - 1) < EndOf(c, j - 1)
    <3>1. PICK k, l : k = i - 1 /\ l = j - 1
      OBVIOUS
    <3>2. k \in 0..n /\ l \in 0..n /\ k < l /\ k + 1 \in 1..n
      BY <1>1, <2>1, <3>1
    <3>3. EndOf(c, k) + c[k + 1].w <= EndOf(c, l) /\ EndOf(c, k) \in Nat /\ EndOf(c, l) \in Nat
      BY <3>2, EndSteps
    <3>4. c[k + 1].w \in Nat \ {0}
      BY <3>2 DEF AreCells
    <3>5. EndOf(c, k) < EndOf(c, l)
      BY <3>3, <3>4
    <3> QED  BY <3>1, <3>5
  <2> SUFFICES ASSUME NEW i \in 1..n, NEW j \in 1..n, EndOf(c, i - 1) = EndOf(c, j - 1)
               PROVE  i = j
    OBVIOUS
  <2>2. EndOf(c, i - 1) \in Nat
    <3>1. i - 1 \in 0..n
      BY <1>1
    <3> QED  BY <3>1, EndSteps
  <2>3. ~(i < j) /\ ~(j < i)
    BY <2>1, <2>2
  <2> QED  BY <1>1, <2>3
<1>9. ASSUME NEW i \in 1..n
      PROVE  EndOf(c, i - 1) \in DOMAIN LayOut(c) /\ LayOut(c)[EndOf(c, i - 1)] = c[i]
  <2>1. PICK at : at = EndOf(c, i - 1)
    OBVIOUS
  <2>2. at \in {g[j - 1] : j \in 1..n}
    BY <1>6, <2>1
  <2>3. PICK j : j = CHOOSE k \in 1..n : g[k - 1] = at
    OBVIOUS
  <2>4. j \in 1..n /\ g[j - 1] = at
    BY <1>6, <2>1, <2>3
  <2>5. j = i
    BY <1>6, <1>8, <2>1, <2>4
  <2>6. at \in DOMAIN LayOut(c) /\ LayOut(c)[at] = c[j]
    BY <1>7, <2>2, <2>3
  <2> QED  BY <2>1, <2>5, <2>6
<1>10. \A at \in DOMAIN LayOut(c) : \E i \in 1..n : at = EndOf(c, i - 1)
  BY <1>6, <1>7
<1>11. RegionSize(c) = EndOf(c, n)
  <2>1. [i \in DOMAIN c |-> c[i].w] = [i \in 1..n |-> Widths(c)[i]]
    BY <1>1 DEF Widths
  <2> QED  BY <2>1 DEF RegionSize, EndOf, Written
<1> QED  BY <1>9, <1>10, <1>11

\* The cells of p stand in c behind the first k.
Stand(p, c, k) == /\ k \in Nat /\ k + Len(p) <= Len(c)
                  /\ \A i \in 1..Len(p) : c[k + i] = p[i]

LEMMA EndsInside ==
    ASSUME NEW c, AreCells(c), NEW p, AreCells(p), NEW k, Stand(p, c, k)
    PROVE  \A i \in 0..Len(p) : EndOf(c, k + i) = EndOf(c, k) + EndOf(p, i)
<1> DEFINE n == Len(p)
           B == {i \in 0..n : EndOf(c, k + i) # EndOf(c, k) + EndOf(p, i)}
<1>1. n \in Nat /\ Len(c) \in Nat /\ k \in Nat /\ k + n <= Len(c)
  BY DEF AreCells, Stand
<1>2. EndOf(p, 0) = 0 /\ EndOf(c, k) \in Nat
  <2>1. k \in 0..Len(c)
    BY <1>1
  <2> QED  BY <2>1, EndSteps
<1> SUFFICES ASSUME B # {} PROVE FALSE
  OBVIOUS
<1> HIDE DEF n
<1>3. PICK i \in B : \A j \in B : i <= j
  <2>1. B \in SUBSET Nat
    BY <1>1
  <2> HIDE DEF B
  <2> QED  BY <2>1, LeastNumber
<1>4. i \in 0..n /\ EndOf(c, k + i) # EndOf(c, k) + EndOf(p, i)
  OBVIOUS
<1>5. i # 0
  BY <1>1, <1>2, <1>4
<1>6. PICK h : h = i - 1
  OBVIOUS
<1>7. h \in 0..n /\ ~(i <= h) /\ h + 1 = i /\ h \in 0..(n - 1)
  BY <1>1, <1>4, <1>5, <1>6
<1>8. EndOf(c, k + h) = EndOf(c, k) + EndOf(p, h)
  BY <1>3, <1>7
<1>9. EndOf(p, i) = EndOf(p, h) + p[i].w /\ EndOf(p, h) \in Nat
  <2>1. EndOf(p, h + 1) = EndOf(p, h) + p[h + 1].w
    BY <1>7, EndSteps DEF n
  <2>2. EndOf(p, h) \in Nat
    BY <1>7, EndSteps DEF n
  <2> QED  BY <1>7, <2>1, <2>2
<1>10. EndOf(c, k + i) = EndOf(c, k + h) + p[i].w
  <2>1. PICK l : l = k + h
    OBVIOUS
  <2>2. l \in 0..(Len(c) - 1) /\ l + 1 = k + i
    BY <1>1, <1>7, <2>1
  <2>3. EndOf(c, l + 1) = EndOf(c, l) + c[l + 1].w
    BY <2>2, EndSteps
  <2>4. c[k + i] = p[i]
    <3>1. i \in 1..n
      BY <1>4, <1>5, <1>1
    <3> QED  BY <3>1 DEF n, Stand
  <2> QED  BY <2>1, <2>2, <2>3, <2>4
<1>11. p[i].w \in Nat
  <2>1. i \in 1..n
    BY <1>1, <1>4, <1>5
  <2> QED  BY <2>1 DEF AreCells, n
<1> QED  BY <1>2, <1>4, <1>8, <1>9, <1>10, <1>11

\* The cells of p stand in c from the offset at on.
Sits(p, c, at) ==
    /\ AreCells(p) /\ AreCells(c)
    /\ \E k \in Nat : Stand(p, c, k) /\ EndOf(c, k) = at

LEMMA SitsEnds ==
    ASSUME NEW c, NEW p, NEW at, Sits(p, c, at)
    PROVE  \E k \in Nat : /\ Stand(p, c, k) /\ EndOf(c, k) = at
                          /\ k + Len(p) <= Len(c)
                          /\ \A i \in 1..Len(p) : c[k + i] = p[i]
                          /\ \A i \in 0..Len(p) : EndOf(c, k + i) = at + EndOf(p, i)
<1>1. AreCells(p) /\ AreCells(c)
  BY DEF Sits
<1>2. PICK k \in Nat : Stand(p, c, k) /\ EndOf(c, k) = at
  BY DEF Sits
<1>3. \A i \in 0..Len(p) : EndOf(c, k + i) = EndOf(c, k) + EndOf(p, i)
  BY <1>1, <1>2, EndsInside
<1> QED  BY <1>2, <1>3 DEF Stand

LEMMA SitsInside ==
    ASSUME NEW c, NEW p, NEW q, NEW at, NEW off, Sits(p, c, at), Sits(q, p, off)
    PROVE  Sits(q, c, at + off)
<1>1. AreCells(p) /\ AreCells(c) /\ AreCells(q)
  BY DEF Sits
<1>2. Len(p) \in Nat /\ Len(c) \in Nat /\ Len(q) \in Nat
  BY <1>1 DEF AreCells
<1>3. PICK k \in Nat : /\ Stand(p, c, k) /\ EndOf(c, k) = at
                       /\ k + Len(p) <= Len(c)
                       /\ \A i \in 1..Len(p) : c[k + i] = p[i]
                       /\ \A i \in 0..Len(p) : EndOf(c, k + i) = at + EndOf(p, i)
  BY SitsEnds
<1>4. PICK l \in Nat : /\ Stand(q, p, l) /\ EndOf(p, l) = off
                       /\ l + Len(q) <= Len(p)
                       /\ \A i \in 1..Len(q) : p[l + i] = q[i]
  BY SitsEnds
<1>5. l \in 0..Len(p)
  BY <1>2, <1>4
<1>6. EndOf(c, k + l) = at + off
  BY <1>3, <1>4, <1>5
<1>7. k + l \in Nat /\ (k + l) + Len(q) <= Len(c)
  BY <1>2, <1>3, <1>4
<1>8. ASSUME NEW i \in 1..Len(q)
      PROVE  c[(k + l) + i] = q[i]
  <2>1. PICK j : j = l + i
    OBVIOUS
  <2>2. j \in 1..Len(p) /\ (k + l) + i = k + j
    BY <1>2, <1>4, <2>1
  <2>3. p[j] = q[i] /\ c[k + j] = p[j]
    BY <1>3, <1>4, <2>1, <2>2
  <2> QED  BY <2>2, <2>3
<1>9. Stand(q, c, k + l)
  BY <1>7, <1>8 DEF Stand
<1> QED  BY <1>1, <1>6, <1>7, <1>9 DEF Sits

\* A cell is found at its offset, inside the region.
LEMMA SitsLaidOut ==
    ASSUME NEW c, NEW p, NEW at, Sits(p, c, at), NEW i \in 1..Len(p)
    PROVE  /\ at + EndOf(p, i - 1) \in DOMAIN LayOut(c)
           /\ LayOut(c)[at + EndOf(p, i - 1)] = p[i]
           /\ at + EndOf(p, i - 1) + p[i].w = at + EndOf(p, i)
           /\ at + EndOf(p, Len(p)) <= RegionSize(c)
           /\ at \in Nat /\ EndOf(p, i - 1) \in Nat /\ EndOf(p, i) \in Nat
<1>1. AreCells(p) /\ AreCells(c) /\ Len(p) \in Nat /\ Len(c) \in Nat
  BY DEF Sits, AreCells
<1>2. PICK k \in Nat : /\ EndOf(c, k) = at
                       /\ k + Len(p) <= Len(c)
                       /\ \A j \in 1..Len(p) : c[k + j] = p[j]
                       /\ \A j \in 0..Len(p) : EndOf(c, k + j) = at + EndOf(p, j)
  BY SitsEnds
<1>3. PICK h : h = i - 1
  OBVIOUS
<1>4. h \in 0..(Len(p) - 1) /\ h + 1 = i /\ h \in 0..Len(p) /\ i \in 0..Len(p) /\ Len(p) \in 0..Len(p)
  BY <1>1, <1>3
<1>5. EndOf(c, k + h) = at + EndOf(p, h) /\ EndOf(c, k + Len(p)) = at + EndOf(p, Len(p))
  BY <1>2, <1>4
<1>6. c[k + i] = p[i]
  BY <1>2
<1>7. at + EndOf(p, h) \in DOMAIN LayOut(c) /\ LayOut(c)[at + EndOf(p, h)] = p[i]
  <2>1. PICK m : m = k + i
    OBVIOUS
  <2>2. m \in 1..Len(c) /\ m - 1 = k + h
    BY <1>1, <1>2, <1>4, <2>1
  <2>3. EndOf(c, m - 1) \in DOMAIN LayOut(c) /\ LayOut(c)[EndOf(c, m - 1)] = c[m]
    BY <1>1, <2>2, LaidOut
  <2> QED  BY <1>5, <1>6, <2>1, <2>2, <2>3
<1>8. at \in Nat
  <2>1. k \in 0..Len(c)
    BY <1>1, <1>2
  <2> QED  BY <1>1, <1>2, <2>1, EndSteps
<1>9. EndOf(p, h) \in Nat /\ EndOf(p, i) \in Nat /\ EndOf(p, i) = EndOf(p, h) + p[i].w
  <2>1. EndOf(p, h + 1) = EndOf(p, h) + p[h + 1].w
    BY <1>1, <1>4, EndSteps
  <2>2. EndOf(p, h) \in Nat /\ EndOf(p, i) \in Nat
    BY <1>1, <1>4, EndSteps
  <2> QED  BY <1>4, <2>1, <2>2
<1>10. p[i].w \in Nat
  BY <1>1 DEF AreCells
<1>11. EndOf(c, k + Len(p)) <= RegionSize(c)
  <2>1. RegionSize(c) = EndOf(c, Len(c))
    BY <1>1, LaidOut
  <2>2. PICK m : m = k + Len(p)
    OBVIOUS
  <2>3. m \in 0..Len(c) /\ Len(c) \in 0..Len(c)
    BY <1>1, <1>2, <2>2
  <2>4. CASE m = Len(c)
    <3>1. EndOf(c, m) \in Nat
      BY <1>1, <2>3, EndSteps
    <3> QED  BY <2>1, <2>2, <2>4, <3>1
  <2>5. CASE m < Len(c)
    <3>1. EndOf(c, m) + c[m + 1].w <= EndOf(c, Len(c)) /\ EndOf(c, m) \in Nat /\ EndOf(c, Len(c)) \in Nat
      BY <1>1, <2>3, <2>5, EndSteps
    <3>2. c[m + 1].w \in Nat
      <4>1. m + 1 \in 1..Len(c)
        BY <1>1, <2>3, <2>5
      <4> QED  BY <1>1, <4>1 DEF AreCells
    <3> QED  BY <2>1, <2>2, <3>1, <3>2
  <2> QED  BY <1>1, <2>3, <2>4, <2>5
<1> QED  BY <1>3, <1>5, <1>7, <1>8, <1>9, <1>10, <1>11

Cell == [kind : {"header", "num", "newline"}, v : Seq(Nat), w : Nat \ {0}]

LEMMA CellSequence ==
    ASSUME NEW c \in Seq(Cell)
    PROVE  AreCells(c)
<1>1. PICK S : S = Cell
  OBVIOUS
<1>2. c \in Seq(S) /\ \A x \in S : x.w \in Nat \ {0}
  BY <1>1 DEF Cell
<1>3. Len(c) \in Nat /\ DOMAIN c = 1..Len(c) /\ \A i \in 1..Len(c) : c[i] \in S
  BY <1>2, ElementOfSeq, LenProperties
<1> QED  BY <1>2, <1>3 DEF AreCells

\* The cells of a, then those of b.
LEMMA OneThenTheOther ==
    ASSUME NEW a \in Seq(Cell), NEW b \in Seq(Cell)
    PROVE  /\ a \o b \in Seq(Cell)
           /\ Sits(a, a \o b, 0)
           /\ Sits(b, a \o b, RegionSize(a))
           /\ RegionSize(a \o b) = RegionSize(a) + RegionSize(b)
           /\ RegionSize(a) \in Nat
<1> DEFINE c == a \o b
<1>1. /\ c \in Seq(Cell) /\ Len(c) = Len(a) + Len(b)
      /\ \A i \in 1..Len(a) : c[i] = a[i]
      /\ \A i \in (Len(a) + 1)..Len(c) : c[i] = b[i - Len(a)]
  <2>1. PICK S : S = Cell
    OBVIOUS
  <2>2. a \in Seq(S) /\ b \in Seq(S)
    BY <2>1
  <2>3. /\ c \in Seq(S) /\ Len(c) = Len(a) + Len(b)
        /\ \A i \in 1..Len(a) : c[i] = a[i]
        /\ \A i \in (Len(a) + 1)..Len(c) : c[i] = b[i - Len(a)]
    BY <2>2, ConcatProperties
  <2> QED  BY <2>1, <2>3
<1> HIDE DEF c
<1>2. AreCells(a) /\ AreCells(b) /\ AreCells(c)
  BY <1>1, CellSequence
<1>3. Len(a) \in Nat /\ Len(b) \in Nat /\ Len(c) \in Nat
  BY <1>2 DEF AreCells
<1>4. EndOf(c, 0) = 0 /\ EndOf(a, 0) = 0
  BY <1>2, EndSteps
<1>5. Stand(a, c, 0)
  BY <1>1, <1>3 DEF Stand
<1>6. Stand(b, c, Len(a))
  <2>1. ASSUME NEW i \in 1..Len(b)
        PROVE  c[Len(a) + i] = b[i]
    <3>1. PICK j : j = Len(a) + i
      OBVIOUS
    <3>2. j \in (Len(a) + 1)..Len(c) /\ j - Len(a) = i
      BY <1>1, <1>3, <3>1
    <3> QED  BY <1>1, <3>1, <3>2
  <2> QED  BY <1>1, <1>3, <2>1 DEF Stand
<1>7. \A i \in 0..Len(a) : EndOf(c, 0 + i) = EndOf(c, 0) + EndOf(a, i)
  BY <1>2, <1>5, EndsInside
<1>8. \A i \in 0..Len(b) : EndOf(c, Len(a) + i) = EndOf(c, Len(a)) + EndOf(b, i)
  BY <1>2, <1>6, EndsInside
<1>9. RegionSize(a) = EndOf(a, Len(a)) /\ RegionSize(b) = EndOf(b, Len(b)) /\ RegionSize(c) = EndOf(c, Len(c))
  BY <1>2, LaidOut
<1>10. EndOf(a, Len(a)) \in Nat
  BY <1>2, <1>3, EndSteps
<1>11. EndOf(c, Len(a)) = RegionSize(a)
  <2>1. PICK m : m = Len(a)
    OBVIOUS
  <2>2. m \in 0..Len(a) /\ 0 + m = m /\ EndOf(a, m) \in Nat
    BY <1>3, <1>10, <2>1
  <2>3. EndOf(c, m) = EndOf(c, 0) + EndOf(a, m)
    BY <1>7, <2>2
  <2> QED  BY <1>4, <1>9, <2>1, <2>2, <2>3
<1>12. RegionSize(c) = RegionSize(a) + RegionSize(b)
  <2>1. PICK m : m = Len(b)
    OBVIOUS
  <2>2. m \in 0..Len(b) /\ Len(a) + m = Len(c)
    BY <1>1, <1>3, <2>1
  <2>3. EndOf(c, Len(a) + m) = EndOf(c, Len(a)) + EndOf(b, m)
    BY <1>8, <2>2
  <2> QED  BY <1>9, <1>11, <2>1, <2>2, <2>3
<1>13. Sits(a, c, 0)
  BY <1>2, <1>4, <1>5 DEF Sits
<1>14. Sits(b, c, RegionSize(a))
  BY <1>2, <1>3, <1>6, <1>11 DEF Sits
<1> QED  BY <1>1, <1>9, <1>10, <1>12, <1>13, <1>14 DEF c

\* Pieces joined: each stands behind the sizes of those before it.
LEMMA PiecesSit ==
    ASSUME NEW s \in Seq(Seq(Cell)), NEW f \in [1..Len(s) -> Nat],
           \A i \in 1..Len(s) : RegionSize(s[i]) = f[i]
    PROVE  /\ FlattenSeq(s) \in Seq(Cell)
           /\ RegionSize(FlattenSeq(s)) = Written(f, Len(s))
           /\ \A i \in 1..Len(s) : Sits(s[i], FlattenSeq(s), Written(f, i - 1))
<1> DEFINE n == Len(s)
           B == {i \in 0..n : RegionSize(Joined(s, i)) # Written(f, i)}
<1>1. n \in Nat /\ \A i \in 1..n : s[i] \in Seq(Cell)
  <2>1. PICK S : S = Seq(Cell)
    OBVIOUS
  <2>2. s \in Seq(S)
    BY <2>1
  <2>3. Len(s) \in Nat /\ \A i \in 1..Len(s) : s[i] \in S
    BY <2>2, ElementOfSeq, LenProperties
  <2> QED  BY <2>1, <2>3
<1>2. /\ \A i \in 0..n : Joined(s, i) \in Seq(Cell)
      /\ \A i \in 0..n : i < n => Joined(s, i + 1) = Joined(s, i) \o s[i + 1]
  BY JoinedStep
<1>3. /\ Written(f, 0) = 0
      /\ \A k \in 0..n : Written(f, k) \in Nat
      /\ \A k \in 0..(n - 1) : Written(f, k + 1) = Written(f, k) + f[k + 1]
  BY <1>1, WrittenSteps
<1>4. RegionSize(Joined(s, 0)) = 0
  <2>1. Joined(s, 0) = << >> /\ Joined(s, 0) \in Seq(Cell)
    BY <1>1, <1>2 DEF Joined
  <2>2. AreCells(<< >>) /\ Len(<< >>) = 0
    BY <2>1, CellSequence
  <2> QED  BY <2>1, <2>2, LaidOut, EndSteps
<1>5. B = {}
  <2> SUFFICES ASSUME B # {} PROVE FALSE
    OBVIOUS
  <2>1. PICK i \in B : \A j \in B : i <= j
    <3>1. B \in SUBSET Nat
      BY <1>1
    <3> HIDE DEF B
    <3> QED  BY <3>1, LeastNumber
  <2>2. i \in 0..n /\ RegionSize(Joined(s, i)) # Written(f, i)
    OBVIOUS
  <2> HIDE DEF n
  <2>3. i # 0
    BY <1>3, <1>4, <2>2
  <2>4. PICK h : h = i - 1
    OBVIOUS
  <2>5. h \in 0..n /\ ~(i <= h) /\ h + 1 = i /\ h \in 0..(n - 1) /\ h < n /\ i \in 1..n
    BY <1>1, <2>2, <2>3, <2>4
  <2>6. RegionSize(Joined(s, h)) = Written(f, h)
    BY <2>1, <2>5
  <2>7. Joined(s, i) = Joined(s, h) \o s[i] /\ Joined(s, h) \in Seq(Cell) /\ s[i] \in Seq(Cell)
    BY <1>1, <1>2, <2>5
  <2>8. RegionSize(Joined(s, i)) = RegionSize(Joined(s, h)) + RegionSize(s[i])
    BY <2>7, OneThenTheOther
  <2>9. Written(f, i) = Written(f, h) + f[i]
    BY <1>3, <2>5
  <2>10. RegionSize(s[i]) = f[i]
    BY <2>5 DEF n
  <2> QED  BY <2>2, <2>6, <2>8, <2>9, <2>10
<1>6. \A i \in 0..n : RegionSize(Joined(s, i)) = Written(f, i)
  BY <1>5
<1>7. FlattenSeq(s) = Joined(s, n) /\ n \in 0..n
  BY <1>1, JoinedAll
<1>8. FlattenSeq(s) \in Seq(Cell) /\ RegionSize(FlattenSeq(s)) = Written(f, n)
  BY <1>2, <1>6, <1>7
<1>9. ASSUME NEW i \in 1..n
      PROVE  Sits(s[i], FlattenSeq(s), Written(f, i - 1))
  <2>1. PICK h : h = i - 1
    OBVIOUS
  <2>2. h \in 0..n /\ h + 1 = i /\ h < n /\ i \in 0..n
    BY <1>1, <2>1
  <2> DEFINE a == Joined(s, h)
             b == Joined(s, i)
             c == FlattenSeq(s)
  <2>3. b = a \o s[i] /\ a \in Seq(Cell) /\ b \in Seq(Cell) /\ s[i] \in Seq(Cell)
    BY <1>1, <1>2, <2>2
  <2>4. Sits(s[i], b, Written(f, h))
    BY <1>6, <2>2, <2>3, OneThenTheOther
  <2>5. Begins(b, c)
    BY <2>2, JoinedBegins
  <2> HIDE DEF a, b, c
  <2>6. AreCells(b) /\ AreCells(c)
    BY <1>8, <2>3, CellSequence DEF c
  <2>7. Sits(b, c, 0)
    <3>1. Stand(b, c, 0)
      <4>1. Len(b) \in Nat
        BY <2>6 DEF AreCells
      <4> QED  BY <2>5, <4>1 DEF Begins, Stand
    <3>2. EndOf(c, 0) = 0
      BY <2>6, EndSteps
    <3> QED  BY <2>6, <3>1, <3>2 DEF Sits
  <2>8. Sits(s[i], c, 0 + Written(f, h))
    BY <2>4, <2>7, SitsInside
  <2>9. 0 + Written(f, h) = Written(f, h)
    BY <1>3, <2>2
  <2> QED  BY <2>1, <2>8, <2>9 DEF c
<1> QED  BY <1>8, <1>9

\* No cell begins inside another one.
Apart(region) ==
    \A at \in DOMAIN region :
        /\ at \in Nat /\ region[at].w \in Nat \ {0}
        /\ \A x \in DOMAIN region : at < x => at + region[at].w <= x

LEMMA LaidOutApart ==
    ASSUME NEW c, AreCells(c)
    PROVE  Apart(LayOut(c))
<1> DEFINE r == LayOut(c)
           n == Len(c)
<1>1. n \in Nat /\ \A i \in 1..n : c[i].w \in Nat \ {0}
  BY DEF AreCells
<1>2. /\ \A i \in 1..n : EndOf(c, i - 1) \in DOMAIN r /\ r[EndOf(c, i - 1)] = c[i]
      /\ \A at \in DOMAIN r : \E i \in 1..n : at = EndOf(c, i - 1)
  BY LaidOut
<1>3. /\ \A i \in 0..n : EndOf(c, i) \in Nat
      /\ \A i, j \in 0..n : i < j => EndOf(c, i) + c[i + 1].w <= EndOf(c, j)
  BY EndSteps
<1> HIDE DEF r, n
<1>4. ASSUME NEW at \in DOMAIN r
      PROVE  /\ at \in Nat /\ r[at].w \in Nat \ {0}
             /\ \A x \in DOMAIN r : at < x => at + r[at].w <= x
  <2>1. PICK i \in 1..n : at = EndOf(c, i - 1)
    BY <1>2
  <2>2. PICK h : h = i - 1
    OBVIOUS
  <2>3. h \in 0..n /\ h + 1 = i /\ at = EndOf(c, h) /\ at \in Nat
    BY <1>1, <1>3, <2>1, <2>2
  <2>4. r[at] = c[i] /\ c[i].w \in Nat \ {0}
    BY <1>1, <1>2, <2>1
  <2>5. ASSUME NEW x \in DOMAIN r, at < x
        PROVE  at + c[i].w <= x
    <3>1. PICK j \in 1..n : x = EndOf(c, j - 1)
      BY <1>2
    <3>2. PICK k : k = j - 1
      OBVIOUS
    <3>3. k \in 0..n /\ k + 1 = j /\ x = EndOf(c, k) /\ x \in Nat
      BY <1>1, <1>3, <3>1, <3>2
    <3>4. CASE h < k
      <4>1. EndOf(c, h) + c[h + 1].w <= EndOf(c, k)
        BY <1>3, <2>3, <3>3, <3>4
      <4> QED  BY <2>3, <3>3, <4>1
    <3>5. CASE k < h
      <4>1. EndOf(c, k) + c[k + 1].w <= EndOf(c, h)
        BY <1>3, <2>3, <3>3, <3>5
      <4>2. c[k + 1].w \in Nat
        BY <1>1, <3>3
      <4>3. x <= at
        BY <2>3, <3>3, <4>1, <4>2
      <4> QED  BY <2>3, <2>5, <3>3, <4>3
    <3>6. CASE h = k
      BY <2>3, <2>5, <3>3, <3>6
    <3> QED  BY <1>1, <2>3, <3>3, <3>4, <3>5, <3>6
  <2> QED  BY <2>3, <2>4, <2>5
<1> QED  BY <1>4 DEF Apart, r

-----------------------------------------------------------------------------
(* The cells of a posting list                                              *)

\* Documents in order, and in each the locations.
Ascending(posts) ==
    \A i, j \in DOMAIN posts : i < j =>
        \/ posts[i].doc < posts[j].doc
        \/ posts[i].doc = posts[j].doc /\ posts[i].loc < posts[j].loc

ArePosts(posts) == /\ posts \in Seq([doc : Nat \ {0}, loc : Nat \ {0}])
                   /\ Ascending(posts)

\* A number that ReadUtf8 gives back: it fits, and Unicode does not set it aside.
Carried(v) == v <= Utf8Limits[6] /\ ~IsReplaced(v)

AreCarried(posts) ==
    \A i \in DOMAIN posts : /\ Carried(LocDelta(posts, i))
                            /\ NewDoc(posts, i) => Carried(posts[i].doc - LastDoc(posts, i))

LEMMA PostsAre ==
    ASSUME NEW posts, ArePosts(posts)
    PROVE  /\ Len(posts) \in Nat /\ DOMAIN posts = 1..Len(posts)
           /\ \A i \in 1..Len(posts) : /\ posts[i].doc \in Nat \ {0} /\ posts[i].loc \in Nat \ {0}
                                       /\ posts[i] = [doc |-> posts[i].doc, loc |-> posts[i].loc]
<1>1. PICK S : S = [doc : Nat \ {0}, loc : Nat \ {0}]
  OBVIOUS
<1>2. posts \in Seq(S)
  BY <1>1 DEF ArePosts
<1>3. Len(posts) \in Nat /\ DOMAIN posts = 1..Len(posts) /\ \A i \in 1..Len(posts) : posts[i] \in S
  BY <1>2, ElementOfSeq, LenProperties
<1>4. \A x \in S : /\ x.doc \in Nat \ {0} /\ x.loc \in Nat \ {0}
                   /\ x = [doc |-> x.doc, loc |-> x.loc]
  BY <1>1
<1> QED  BY <1>3, <1>4

\* What the gaps before a post are.
LEMMA GapsAre ==
    ASSUME NEW posts, ArePosts(posts), NEW i \in 1..Len(posts)
    PROVE  /\ LastDoc(posts, i) \in Nat
           /\ LocDelta(posts, i) \in Nat \ {0}
           /\ NewDoc(posts, i) => /\ posts[i].doc - LastDoc(posts, i) \in Nat \ {0}
                                  /\ LocDelta(posts, i) = posts[i].loc
           /\ ~NewDoc(posts, i) => /\ i # 1
                                   /\ posts[i].doc = LastDoc(posts, i)
                                   /\ posts[i].loc = posts[i - 1].loc + LocDelta(posts, i)
<1>1. /\ Len(posts) \in Nat /\ DOMAIN posts = 1..Len(posts)
      /\ \A k \in 1..Len(posts) : posts[k].doc \in Nat \ {0} /\ posts[k].loc \in Nat \ {0}
  BY PostsAre
<1>2. CASE i = 1
  <2>1. LastDoc(posts, i) = 0 /\ posts[i].doc \in Nat \ {0} /\ posts[i].loc \in Nat \ {0}
    BY <1>1, <1>2 DEF LastDoc
  <2>2. NewDoc(posts, i)
    BY <2>1 DEF NewDoc
  <2>3. LocDelta(posts, i) = posts[i].loc
    BY <2>1, <2>2 DEF LocDelta
  <2> QED  BY <2>1, <2>2, <2>3
<1>3. CASE i # 1
  <2>1. PICK h : h = i - 1
    OBVIOUS
  <2>2. h \in 1..Len(posts) /\ h < i
    BY <1>1, <1>3, <2>1
  <2>3. LastDoc(posts, i) = posts[h].doc
    BY <1>3, <2>1 DEF LastDoc
  <2>4. \/ posts[h].doc < posts[i].doc
        \/ posts[h].doc = posts[i].doc /\ posts[h].loc < posts[i].loc
    BY <1>1, <2>2 DEF ArePosts, Ascending
  <2>5. /\ posts[h].doc \in Nat /\ posts[h].loc \in Nat
        /\ posts[i].doc \in Nat /\ posts[i].loc \in Nat \ {0}
    BY <1>1, <2>2
  <2>6. NewDoc(posts, i) <=> posts[i].doc > posts[h].doc
    BY <2>3 DEF NewDoc
  <2>7. LocDelta(posts, i) = posts[i].loc - (IF NewDoc(posts, i) THEN 0 ELSE posts[h].loc)
    BY <2>1 DEF LocDelta
  <2>8. CASE NewDoc(posts, i)
    BY <1>3, <2>3, <2>5, <2>6, <2>7, <2>8
  <2>9. CASE ~NewDoc(posts, i)
    <3>1. posts[h].doc = posts[i].doc /\ posts[h].loc < posts[i].loc
      BY <2>4, <2>5, <2>6, <2>9
    <3>2. LocDelta(posts, i) = posts[i].loc - posts[h].loc
      BY <2>7, <2>9
    <3> QED  BY <1>3, <2>1, <2>3, <2>5, <2>9, <3>1, <3>2
  <2> QED  BY <2>8, <2>9
<1> QED  BY <1>2, <1>3

LEMMA OneCell ==
    ASSUME NEW x \in Cell
    PROVE  <<x>> \in Seq(Cell) /\ RegionSize(<<x>>) = x.w /\ Len(<<x>>) = 1 /\ EndOf(<<x>>, 0) = 0
<1>1. x.w \in Nat \ {0}
  BY DEF Cell
<1>2. <<x>> \in Seq(Cell) /\ Len(<<x>>) = 1 /\ <<x>>[1] = x
  OBVIOUS
<1>3. AreCells(<<x>>)
  BY <1>2, CellSequence
<1>4. RegionSize(<<x>>) = EndOf(<<x>>, 1) /\ EndOf(<<x>>, 0) = 0
  BY <1>2, <1>3, LaidOut, EndSteps
<1>5. EndOf(<<x>>, 0 + 1) = EndOf(<<x>>, 0) + <<x>>[0 + 1].w
  <2>1. PICK c : c = <<x>>
    OBVIOUS
  <2>2. 0 \in 0..(Len(c) - 1) /\ AreCells(c)
    BY <1>2, <1>3, <2>1
  <2>3. EndOf(c, 0 + 1) = EndOf(c, 0) + c[0 + 1].w
    BY <2>2, EndSteps
  <2> QED  BY <2>1, <2>3
<1> QED  BY <1>1, <1>2, <1>4, <1>5

LEMMA NumberCell ==
    ASSUME NEW v, Codable(v)
    PROVE  Number(v) \in Cell /\ Number(v).w = SizeOfUtf8(v) /\ SizeOfUtf8(v) \in Nat \ {0}
<1> DEFINE n == SizeOfUtf8(v)
           b == WriteUtf8(v)
<1>1. /\ n \in 1..6 /\ Len(b) = n /\ DOMAIN b = 1..n /\ b = [i \in 1..n |-> b[i]]
      /\ b[1] = IF n = 1 THEN v ELSE Marks[n] + (v \div Place[n])
      /\ \A i \in 2..n : b[i] = 128 + ((v \div Place[n - i + 1]) % 64)
  BY BytesWritten
<1>2. v \in Nat /\ v <= Utf8Limits[n]
  BY SizeFits DEF Codable
<1>3. b = [i \in 1..n |-> b[i]]
  BY <1>1
<1> HIDE DEF n, b
<1>4. ASSUME NEW i \in 1..n
      PROVE  b[i] \in Nat
  <2>1. CASE i = 1 /\ n = 1
    BY <1>1, <1>2, <2>1
  <2>2. CASE i = 1 /\ n # 1
    <3>1. n \in 2..6
      BY <1>1, <2>2
    <3>2. (v \div Place[n]) \in Nat
      BY <1>2, <3>1, HighBits
    <3>3. Marks[n] \in Nat
      BY <3>1 DEF Marks
    <3> QED  BY <1>1, <2>2, <3>2, <3>3
  <2>3. CASE i # 1
    <3>1. PICK k : k = n - i + 1
      OBVIOUS
    <3>2. i \in 2..n /\ k \in 1..5
      BY <1>1, <2>3, <3>1
    <3>3. PICK q : q = v \div Place[k]
      OBVIOUS
    <3>4. q \in Nat
      BY <1>2, <3>2, <3>3, Shifted
    <3>5. q % 64 \in 0..63
      BY <3>4, Shift
    <3>6. b[i] = 128 + (q % 64)
      BY <1>1, <3>1, <3>2, <3>3
    <3> QED  BY <3>5, <3>6
  <2> QED  BY <2>1, <2>2, <2>3
<1>5. b \in Seq(Nat)
  <2>1. b \in [1..n -> Nat]
    BY <1>3, <1>4
  <2> QED  BY <1>1, <2>1, SeqDef
<1>6. Number(v) = [kind |-> "num", v |-> b, w |-> n]
  BY <1>1 DEF Number, b
<1> QED  BY <1>1, <1>5, <1>6 DEF Cell, n

LEMMA PairJoined ==
    ASSUME NEW S, NEW x \in S, NEW y \in S
    PROVE  <<x, y>> = <<x>> \o <<y>>
<1> DEFINE a == <<x>>
           b == <<y>>
           c == <<x, y>>
           d == a \o b
<1>1. /\ a \in Seq(S) /\ b \in Seq(S) /\ c \in Seq(S)
      /\ Len(a) = 1 /\ Len(b) = 1 /\ Len(c) = 2
      /\ a[1] = x /\ b[1] = y /\ c[1] = x /\ c[2] = y
  OBVIOUS
<1> HIDE DEF a, b, c
<1>2. d \in Seq(S) /\ Len(d) = 2 /\ d[1] = x /\ d[2] = y
  <2>1. PICK e : e = d
    OBVIOUS
  <2>2. a \in Seq(S) /\ b \in Seq(S)
    BY <1>1
  <2>3. /\ e \in Seq(S) /\ Len(e) = Len(a) + Len(b)
        /\ \A i \in 1..Len(a) + Len(b) : e[i] = IF i <= Len(a) THEN a[i] ELSE b[i - Len(a)]
    BY <2>1, <2>2, ConcatProperties, Zenon
  <2>4. \A i \in 1..2 : e[i] = IF i <= 1 THEN a[i] ELSE b[i - 1]
    BY <1>1, <2>3
  <2>5. e[1] = x
    BY <1>1, <2>4
  <2>6. e[2] = y
    BY <1>1, <2>4
  <2>7. Len(e) = 2
    BY <1>1, <2>3
  <2> QED  BY <2>1, <2>3, <2>5, <2>6, <2>7
<1> HIDE DEF d
<1>3. Len(c) = Len(d) /\ \A i \in 1..Len(c) : c[i] = d[i]
  BY <1>1, <1>2
<1>4. c = d
  BY <1>1, <1>2, <1>3, SeqEqual
<1> QED  BY <1>4 DEF a, b, c, d

LEMMA ThreeCells ==
    ASSUME NEW x \in Cell, NEW y \in Cell, NEW z \in Cell, NEW c, c = <<x, y>> \o <<z>>
    PROVE  /\ c \in Seq(Cell) /\ RegionSize(c) = x.w + y.w + z.w
           /\ Sits(<<x>>, c, 0) /\ Sits(<<y>>, c, x.w) /\ Sits(<<z>>, c, x.w + y.w)
<1> DEFINE a == <<x>>
           b == <<y>>
           d == <<z>>
           ab == a \o b
<1>1. c = ab \o d
  BY PairJoined
<1>2. /\ a \in Seq(Cell) /\ b \in Seq(Cell) /\ d \in Seq(Cell)
      /\ RegionSize(a) = x.w /\ RegionSize(b) = y.w /\ RegionSize(d) = z.w
  BY OneCell
<1>3. x.w \in Nat /\ y.w \in Nat /\ z.w \in Nat
  BY DEF Cell
<1> HIDE DEF a, b, d
<1>4. /\ ab \in Seq(Cell) /\ Sits(a, ab, 0) /\ Sits(b, ab, x.w) /\ RegionSize(ab) = x.w + y.w
  BY <1>2, OneThenTheOther
<1> HIDE DEF ab
<1>5. /\ c \in Seq(Cell) /\ Sits(ab, c, 0) /\ Sits(d, c, x.w + y.w) /\ RegionSize(c) = (x.w + y.w) + z.w
  <2>1. ab \in Seq(Cell) /\ d \in Seq(Cell)
    BY <1>2, <1>4
  <2>2. /\ ab \o d \in Seq(Cell) /\ Sits(ab, ab \o d, 0)
        /\ Sits(d, ab \o d, RegionSize(ab)) /\ RegionSize(ab \o d) = RegionSize(ab) + RegionSize(d)
    BY <2>1, OneThenTheOther
  <2> QED  BY <1>1, <1>2, <1>4, <2>2, Zenon
<1>6. Sits(a, c, 0 + 0) /\ Sits(b, c, 0 + x.w)
  BY <1>4, <1>5, SitsInside
<1>7. 0 + 0 = 0 /\ 0 + x.w = x.w
  BY <1>3
<1> QED  BY <1>5, <1>6, <1>7 DEF a, b, d

LEMMA CellFound ==
    ASSUME NEW c, NEW x \in Cell, NEW at, Sits(<<x>>, c, at)
    PROVE  at \in Nat /\ at \in DOMAIN LayOut(c) /\ LayOut(c)[at] = x
<1>1. PICK p : p = <<x>>
  OBVIOUS
<1>2. 1 \in 1..Len(p) /\ p[1] = x /\ EndOf(p, 0) = 0 /\ 1 - 1 = 0
  BY <1>1, OneCell
<1>3. /\ at + EndOf(p, 1 - 1) \in DOMAIN LayOut(c)
      /\ LayOut(c)[at + EndOf(p, 1 - 1)] = p[1] /\ at \in Nat
  BY <1>1, <1>2, SitsLaidOut
<1> QED  BY <1>2, <1>3

\* At an offset stands a cell that reads as the number v and is w bytes wide.
NumberAt(r, at, v, w) == /\ at \in DOMAIN r
                         /\ r[at].w = w /\ w \in Nat \ {0}
                         /\ ReadUtf8(r[at].v) = v

LEMMA NumberFound ==
    ASSUME NEW c, NEW v, Codable(v), ~IsReplaced(v), NEW at, Sits(<<Number(v)>>, c, at)
    PROVE  NumberAt(LayOut(c), at, v, SizeOfUtf8(v))
<1>1. PICK x : x = Number(v)
  OBVIOUS
<1>2. x \in Cell /\ x.w = SizeOfUtf8(v) /\ SizeOfUtf8(v) \in Nat \ {0}
  BY <1>1, NumberCell
<1>3. x.v = WriteUtf8(v)
  BY <1>1 DEF Number
<1>4. ReadUtf8(x.v) = v
  BY <1>3, WrittenIsRead
<1>5. at \in DOMAIN LayOut(c) /\ LayOut(c)[at] = x
  BY <1>1, <1>2, CellFound
<1> QED  BY <1>2, <1>4, <1>5 DEF NumberAt

LEMMA ZeroIsCodable == Codable(0) /\ ~IsReplaced(0) /\ SizeOfUtf8(0) = 1
<1>1. 0 \in Nat /\ 0 <= Utf8Limits[6] /\ ~IsReplaced(0)
  BY Limits, SMT DEF IsReplaced
<1>2. SizeOfUtf8(0) = 1
  <2>1. PICK n : n = SizeOfUtf8(0)
    OBVIOUS
  <2>2. n \in 1..6 /\ \A m \in 1..(n - 1) : 0 > Utf8Limits[m]
    BY <1>1, <2>1, SizeFits
  <2>3. ~(0 > Utf8Limits[1])
    BY Limits, SMT
  <2>4. ~(1 \in 1..(n - 1))
    BY <2>2, <2>3
  <2> QED  BY <2>1, <2>2, <2>4
<1> QED  BY <1>1, <1>2 DEF Codable

\* The number that says where post i is, and for a new document its gap before it.
PostAt(r, P, i, at) ==
    IF NewDoc(P, i)
    THEN \E w \in Nat \ {0} :
            /\ NumberAt(r, at, 0, 1)
            /\ NumberAt(r, at + 1, P[i].doc - LastDoc(P, i), w)
            /\ NumberAt(r, at + 1 + w, LocDelta(P, i), PostSize(P, i) - (1 + w))
    ELSE NumberAt(r, at, LocDelta(P, i), PostSize(P, i))

LEMMA PostCellsAre ==
    ASSUME NEW P, ArePosts(P), AreCarried(P), NEW i \in 1..Len(P)
    PROVE  /\ PostCells(P, i) \in Seq(Cell)
           /\ RegionSize(PostCells(P, i)) = PostSize(P, i) /\ PostSize(P, i) \in Nat \ {0}
           /\ \A c, at : Sits(PostCells(P, i), c, at) => PostAt(LayOut(c), P, i, at)
<1> DEFINE l == LocDelta(P, i)
           g == P[i].doc - LastDoc(P, i)
<1>0. i \in DOMAIN P
  BY PostsAre
<1>1. Codable(l) /\ ~IsReplaced(l) /\ (NewDoc(P, i) => Codable(g) /\ ~IsReplaced(g))
  BY <1>0, GapsAre DEF AreCarried, Carried, Codable
<1>2. /\ Number(l) \in Cell /\ Number(l).w = SizeOfUtf8(l) /\ SizeOfUtf8(l) \in Nat \ {0}
  BY <1>1, NumberCell
<1> HIDE DEF l, g
<1>3. CASE ~NewDoc(P, i)
  <2>1. PostCells(P, i) = <<Number(l)>>
    <3>1. PostCells(P, i) = << >> \o <<Number(l)>>
      BY <1>3 DEF PostCells, l
    <3>2. << >> \o <<Number(l)>> = <<Number(l)>>
      OBVIOUS
    <3> QED  BY <3>1, <3>2
  <2>2. PostSize(P, i) = SizeOfUtf8(l)
    <3>1. PostSize(P, i) = 0 + SizeOfUtf8(l)
      BY <1>3 DEF PostSize, l
    <3> QED  BY <1>2, <3>1
  <2>3. PostCells(P, i) \in Seq(Cell) /\ RegionSize(PostCells(P, i)) = PostSize(P, i)
    BY <1>2, <2>1, <2>2, OneCell
  <2>4. ASSUME NEW c, NEW at, Sits(PostCells(P, i), c, at)
        PROVE  PostAt(LayOut(c), P, i, at)
    <3>1. NumberAt(LayOut(c), at, l, SizeOfUtf8(l))
      BY <1>1, <2>1, <2>4, NumberFound
    <3> QED  BY <1>3, <2>2, <3>1 DEF PostAt, l
  <2> QED  BY <1>2, <2>2, <2>3, <2>4
<1>4. CASE NewDoc(P, i)
  <2>1. PICK x, y, z : x = Number(0) /\ y = Number(g) /\ z = Number(l)
    OBVIOUS
  <2>2. /\ x \in Cell /\ y \in Cell /\ z \in Cell
        /\ x.w = 1 /\ y.w = SizeOfUtf8(g) /\ z.w = SizeOfUtf8(l)
        /\ SizeOfUtf8(g) \in Nat \ {0}
    <3>1. x \in Cell /\ x.w = 1
      BY <2>1, NumberCell, ZeroIsCodable
    <3>2. y \in Cell /\ y.w = SizeOfUtf8(g) /\ SizeOfUtf8(g) \in Nat \ {0}
      BY <1>1, <1>4, <2>1, NumberCell
    <3> QED  BY <1>2, <2>1, <3>1, <3>2
  <2>3. PostCells(P, i) = <<x, y>> \o <<z>>
    BY <1>4, <2>1 DEF PostCells, l, g
  <2>4. /\ PostCells(P, i) \in Seq(Cell) /\ RegionSize(PostCells(P, i)) = x.w + y.w + z.w
        /\ Sits(<<x>>, PostCells(P, i), 0) /\ Sits(<<y>>, PostCells(P, i), x.w)
        /\ Sits(<<z>>, PostCells(P, i), x.w + y.w)
    BY <2>2, <2>3, ThreeCells
  <2>5. PostSize(P, i) = (1 + SizeOfUtf8(g)) + SizeOfUtf8(l)
    BY <1>4 DEF PostSize, l, g
  <2>6. RegionSize(PostCells(P, i)) = PostSize(P, i) /\ PostSize(P, i) \in Nat \ {0}
    BY <1>2, <2>2, <2>4, <2>5
  <2>7. ASSUME NEW c, NEW at, Sits(PostCells(P, i), c, at)
        PROVE  PostAt(LayOut(c), P, i, at)
    <3>1. at \in Nat
      <4>1. AreCells(c) /\ AreCells(PostCells(P, i))
        BY <2>7 DEF Sits
      <4>2. PICK k \in Nat : EndOf(c, k) = at /\ k + Len(PostCells(P, i)) <= Len(c)
        BY <2>7, SitsEnds
      <4>3. k \in 0..Len(c)
        BY <4>1, <4>2 DEF AreCells
      <4> QED  BY <4>1, <4>2, <4>3, EndSteps
    <3>2. Sits(<<x>>, c, at + 0) /\ Sits(<<y>>, c, at + x.w) /\ Sits(<<z>>, c, at + (x.w + y.w))
      BY <2>4, <2>7, SitsInside
    <3>3. at + 0 = at /\ at + x.w = at + 1 /\ at + (x.w + y.w) = at + 1 + SizeOfUtf8(g)
          /\ PostSize(P, i) - (1 + SizeOfUtf8(g)) = SizeOfUtf8(l)
      BY <1>2, <2>2, <2>5, <3>1
    <3>4. NumberAt(LayOut(c), at, 0, 1)
      BY <2>1, <3>2, <3>3, ZeroIsCodable, NumberFound
    <3>5. NumberAt(LayOut(c), at + 1, g, SizeOfUtf8(g))
      BY <1>1, <1>4, <2>1, <3>2, <3>3, NumberFound
    <3>6. NumberAt(LayOut(c), at + 1 + SizeOfUtf8(g), l, SizeOfUtf8(l))
      BY <1>1, <2>1, <3>2, <3>3, NumberFound
    <3> QED  BY <1>4, <2>2, <3>3, <3>4, <3>5, <3>6 DEF PostAt, l, g
  <2> QED  BY <2>4, <2>6, <2>7
<1> QED  BY <1>3, <1>4

Sizes(P) == [i \in DOMAIN P |-> PostSize(P, i)]

LEMMA SizesAre ==
    ASSUME NEW P, ArePosts(P), AreCarried(P)
    PROVE  /\ Len(P) \in Nat /\ Sizes(P) \in [1..Len(P) -> Nat]
           /\ \A i \in 1..Len(P) : Sizes(P)[i] = PostSize(P, i) /\ Sizes(P)[i] \in Nat \ {0}
           /\ ListSize(P) = HeaderSize + Written(Sizes(P), Len(P)) + 1
           /\ \A i \in 0..Len(P) : Written(Sizes(P), i) \in Nat
           /\ ListSize(P) \in Nat \ {0}
<1>1. Len(P) \in Nat /\ DOMAIN P = 1..Len(P)
  BY PostsAre
<1>2. \A i \in 1..Len(P) : Sizes(P)[i] = PostSize(P, i) /\ PostSize(P, i) \in Nat \ {0}
  BY <1>1, PostCellsAre DEF Sizes
<1>3. Sizes(P) \in [1..Len(P) -> Nat]
  BY <1>1, <1>2 DEF Sizes
<1>4. \A i \in 0..Len(P) : Written(Sizes(P), i) \in Nat
  BY <1>1, <1>3, WrittenSteps
<1>5. ListSize(P) = HeaderSize + Written(Sizes(P), Len(P)) + 1
  <2>1. [j \in 1..Len(P) |-> Sizes(P)[j]] = [i \in DOMAIN P |-> PostSize(P, i)]
    BY <1>1 DEF Sizes
  <2> QED  BY <2>1 DEF ListSize, Written
<1>6. Written(Sizes(P), Len(P)) \in Nat
  BY <1>1, <1>4
<1> QED  BY <1>1, <1>2, <1>3, <1>4, <1>5, <1>6 DEF HeaderSize

\* The list of posts P, of nd documents, stands in the region from at on.
ListAt(r, P, nd, at) ==
    /\ at \in Nat /\ at \in DOMAIN r
    /\ r[at].kind = "header" /\ r[at].v = <<Len(P), nd>>
    /\ \A i \in 1..Len(P) : PostAt(r, P, i, at + HeaderSize + Written(Sizes(P), i - 1))

LEMMA PostsSit ==
    ASSUME NEW P, ArePosts(P), AreCarried(P)
    PROVE  LET F == FlattenSeq([i \in DOMAIN P |-> PostCells(P, i)])
           IN  /\ F \in Seq(Cell)
               /\ RegionSize(F) = Written(Sizes(P), Len(P))
               /\ \A i \in 1..Len(P) : Sits(PostCells(P, i), F, Written(Sizes(P), i - 1))
<1>1. PICK s : s = [i \in DOMAIN P |-> PostCells(P, i)]
  OBVIOUS
<1>2. PICK f, n : f = Sizes(P) /\ n = Len(P)
  OBVIOUS
<1>3. n \in Nat /\ DOMAIN P = 1..n
  BY <1>2, PostsAre
<1>4. \A i \in 1..n : s[i] = PostCells(P, i) /\ s[i] \in Seq(Cell) /\ RegionSize(s[i]) = f[i]
  BY <1>1, <1>2, <1>3, PostCellsAre DEF Sizes
<1>5. s \in [1..n -> Seq(Cell)]
  BY <1>1, <1>3, <1>4
<1>6. s \in Seq(Seq(Cell)) /\ Len(s) = n
  <2>1. PICK S : S = Seq(Cell)
    OBVIOUS
  <2>2. s \in [1..n -> S]
    BY <1>5, <2>1
  <2>3. s \in Seq(S) /\ Len(s) = n
    BY <1>3, <2>2, FunctionIsSeq
  <2> QED  BY <2>1, <2>3
<1>7. f \in [1..Len(s) -> Nat] /\ \A i \in 1..Len(s) : RegionSize(s[i]) = f[i]
  BY <1>2, <1>4, <1>6, SizesAre
<1>8. /\ FlattenSeq(s) \in Seq(Cell)
      /\ RegionSize(FlattenSeq(s)) = Written(f, Len(s))
      /\ \A i \in 1..Len(s) : Sits(s[i], FlattenSeq(s), Written(f, i - 1))
  BY <1>6, <1>7, PiecesSit
<1> QED  BY <1>1, <1>2, <1>4, <1>6, <1>8

LEMMA HeaderCell ==
    ASSUME NEW n \in Nat, NEW nd \in Nat
    PROVE  /\ [kind |-> "header", v |-> <<n, nd>>, w |-> HeaderSize] \in Cell
           /\ [kind |-> "newline", v |-> <<10>>, w |-> 1] \in Cell
<1>1. <<n, nd>> \in Seq(Nat) /\ <<10>> \in Seq(Nat)
  OBVIOUS
<1> QED  BY <1>1 DEF Cell, HeaderSize

LEMMA ListCellsAre ==
    ASSUME NEW e, ArePosts(e.posts), AreCarried(e.posts), e.n_docs \in Nat
    PROVE  /\ ListCells(e) \in Seq(Cell)
           /\ RegionSize(ListCells(e)) = ListSize(e.posts)
           /\ \A c, at : Sits(ListCells(e), c, at) =>
                 /\ ListAt(LayOut(c), e.posts, e.n_docs, at)
                 /\ at + ListSize(e.posts) <= RegionSize(c)
<1> DEFINE P == e.posts
           F == FlattenSeq([i \in DOMAIN P |-> PostCells(P, i)])
           L == ListCells(e)
<1>1. PICK h, nl, n : /\ h = [kind |-> "header", v |-> <<Len(P), e.n_docs>>, w |-> HeaderSize]
                      /\ nl = [kind |-> "newline", v |-> <<10>>, w |-> 1]
                      /\ n = Len(P)
  OBVIOUS
<1>2. L = (<<h>> \o F) \o <<nl>>
  BY <1>1 DEF ListCells
<1>3. n \in Nat /\ h \in Cell /\ nl \in Cell /\ h.w = HeaderSize /\ nl.w = 1
  BY <1>1, PostsAre, HeaderCell
<1>4. /\ F \in Seq(Cell)
      /\ RegionSize(F) = Written(Sizes(P), n)
      /\ \A i \in 1..n : Sits(PostCells(P, i), F, Written(Sizes(P), i - 1))
  BY <1>1, PostsSit
<1> HIDE DEF F
<1>5. PICK a, b, hf : a = <<h>> /\ b = <<nl>> /\ hf = a \o F
  OBVIOUS
<1>6. /\ a \in Seq(Cell) /\ b \in Seq(Cell) /\ RegionSize(a) = HeaderSize /\ RegionSize(b) = 1
  BY <1>3, <1>5, OneCell
<1>7. /\ hf \in Seq(Cell) /\ Sits(a, hf, 0) /\ Sits(F, hf, HeaderSize)
      /\ RegionSize(hf) = HeaderSize + Written(Sizes(P), n)
  <2>1. PICK G : G = F
    OBVIOUS
  <2>2. /\ a \o G \in Seq(Cell) /\ Sits(a, a \o G, 0) /\ Sits(G, a \o G, RegionSize(a))
        /\ RegionSize(a \o G) = RegionSize(a) + RegionSize(G)
    BY <1>4, <1>6, <2>1, OneThenTheOther
  <2> QED  BY <1>4, <1>5, <1>6, <2>1, <2>2
<1> HIDE DEF L
<1>8. /\ L \in Seq(Cell) /\ Sits(hf, L, 0)
      /\ RegionSize(L) = RegionSize(hf) + RegionSize(b)
  <2>1. /\ hf \o b \in Seq(Cell) /\ Sits(hf, hf \o b, 0)
        /\ RegionSize(hf \o b) = RegionSize(hf) + RegionSize(b)
    BY <1>6, <1>7, OneThenTheOther
  <2> QED  BY <1>2, <1>5, <2>1
<1>9. RegionSize(L) = ListSize(P)
  BY <1>1, <1>6, <1>7, <1>8, SizesAre
<1>10. ASSUME NEW c, NEW at, Sits(L, c, at)
       PROVE  ListAt(LayOut(c), P, e.n_docs, at) /\ at + ListSize(P) <= RegionSize(c)
  <2>1. Sits(hf, c, at + 0)
    BY <1>8, <1>10, SitsInside
  <2>2. Sits(a, c, (at + 0) + 0) /\ Sits(F, c, (at + 0) + HeaderSize)
    BY <1>7, <2>1, SitsInside
  <2>3. AreCells(L) /\ Len(L) \in Nat /\ RegionSize(L) = EndOf(L, Len(L))
    BY <1>8, CellSequence, LaidOut DEF AreCells
  <2>4. at \in Nat /\ at + RegionSize(L) <= RegionSize(c)
    <3>1. Len(L) # 0
      <4>1. EndOf(L, 0) = 0
        BY <2>3, EndSteps
      <4> QED  BY <1>9, <2>3, <4>1, SizesAre
    <3>2. 1 \in 1..Len(L)
      BY <2>3, <3>1
    <3> QED  BY <1>10, <2>3, <3>2, SitsLaidOut
  <2>5. (at + 0) + 0 = at /\ (at + 0) + HeaderSize = at + HeaderSize
    BY <2>4 DEF HeaderSize
  <2>6. at \in DOMAIN LayOut(c) /\ LayOut(c)[at] = h
    BY <1>3, <1>5, <2>2, <2>5, CellFound
  <2>7. ASSUME NEW i \in 1..n
        PROVE  PostAt(LayOut(c), P, i, at + HeaderSize + Written(Sizes(P), i - 1))
    <3>1. Sits(PostCells(P, i), c, at + HeaderSize + Written(Sizes(P), i - 1))
      BY <1>4, <2>2, <2>5, SitsInside
    <3> QED  BY <1>1, <3>1, PostCellsAre
  <2> QED  BY <1>1, <1>9, <2>4, <2>6, <2>7 DEF ListAt
<1> QED  BY <1>8, <1>9, <1>10 DEF L

-----------------------------------------------------------------------------
(* The search in the dictionary                                             *)

\* The bytes of w are the same signed and unsigned.
Plain(w) == CharSigned => \A i \in DOMAIN w : w[i] <= 127

LEMMA PlainBytes ==
    ASSUME NEW w \in Word, Plain(w)
    PROVE  /\ Len(w) \in Nat /\ DOMAIN w = 1..Len(w)
           /\ \A i \in 1..Len(w) : w[i] \in 1..255 /\ charAt(w, i) = w[i]
           /\ \A i \in Nat \ {0} : i > Len(w) => charAt(w, i) = 0
<1>1. Len(w) \in Nat /\ DOMAIN w = 1..Len(w)
  BY DEF Word
<1>2. ASSUME NEW i \in 1..Len(w)
      PROVE  w[i] \in 1..255 /\ charAt(w, i) = w[i]
  <2>1. i \in Nat \ {0} /\ i <= Len(w)
    BY <1>1
  <2>2. w[i] \in 1..255 /\ charAt(w, i) = AsChar(w[i])
    BY <2>1, BytesDiffer
  <2>3. CASE CharSigned
    <3>1. w[i] <= 127
      BY <1>1, <2>3 DEF Plain
    <3>2. ~(w[i] > 127)
      <4>1. \A b \in 1..255 : b <= 127 => ~(b > 127)
        OBVIOUS
      <4> QED  BY <2>2, <3>1, <4>1
    <3>3. AsChar(w[i]) = w[i]
      BY <3>2 DEF AsChar
    <3> QED  BY <2>2, <3>3
  <2>4. CASE ~CharSigned
    <3>1. AsChar(w[i]) = w[i]
      BY <2>4 DEF AsChar
    <3> QED  BY <2>2, <3>1
  <2> QED  BY <2>3, <2>4
<1> QED  BY <1>1, <1>2, BytesDiffer

LEMMA LesserLength ==
    ASSUME NEW m \in Nat, NEW n \in Nat
    PROVE  Min({m, n}) \in Nat /\ \A i \in Nat : i <= Min({m, n}) <=> i <= m /\ i <= n
<1>1. CASE m <= n
  <2>1. m \in {m, n} /\ \A y \in {m, n} : m <= y
    BY <1>1
  <2>2. \A x \in {m, n} : (\A y \in {m, n} : x <= y) => x = m
    BY <1>1
  <2>3. Min({m, n}) = m
    BY <2>1, <2>2 DEF Min
  <2> QED  BY <1>1, <2>3
<1>2. CASE n < m
  <2>1. n \in {m, n} /\ \A y \in {m, n} : n <= y
    BY <1>2
  <2>2. \A x \in {m, n} : (\A y \in {m, n} : x <= y) => x = n
    BY <1>2
  <2>3. Min({m, n}) = n
    BY <2>1, <2>2 DEF Min
  <2> QED  BY <1>2, <2>3
<1> QED  BY <1>1, <1>2

LEMMA MemcmpSorts ==
    ASSUME NEW v \in Word, NEW w \in Word, Plain(v), Plain(w), MemcmpBefore(v, w)
    PROVE  SortsBefore(v, w)
<1>1. /\ Len(v) \in Nat /\ \A i \in 1..Len(v) : v[i] \in 1..255 /\ charAt(v, i) = v[i]
      /\ Len(w) \in Nat /\ \A i \in 1..Len(w) : w[i] \in 1..255 /\ charAt(w, i) = w[i]
      /\ \A i \in Nat \ {0} : i > Len(v) => charAt(v, i) = 0
  BY PlainBytes
<1>2. CASE \E i \in 1..Min({Len(v), Len(w)}) : v[i] < w[i] /\ \A j \in 1..(i - 1) : v[j] = w[j]
  <2>0. PICK m : m = Min({Len(v), Len(w)})
    OBVIOUS
  <2>1. PICK i \in 1..m : v[i] < w[i] /\ \A j \in 1..(i - 1) : v[j] = w[j]
    BY <1>2, <2>0
  <2>2. m \in Nat /\ \A k \in Nat : k <= m <=> k <= Len(v) /\ k <= Len(w)
    BY <1>1, <2>0, LesserLength
  <2>3. i \in 1..Len(v) /\ i \in 1..Len(w) /\ i \in Nat \ {0}
    BY <1>1, <2>1, <2>2
  <2>4. \A j \in 1..(i - 1) : charAt(v, j) = charAt(w, j)
    <3> SUFFICES ASSUME NEW j \in 1..(i - 1) PROVE charAt(v, j) = charAt(w, j)
      OBVIOUS
    <3>1. j \in 1..Len(v) /\ j \in 1..Len(w)
      BY <1>1, <2>3
    <3> QED  BY <1>1, <2>1, <3>1
  <2>5. charAt(v, i) < charAt(w, i)
    <3>1. charAt(v, i) = v[i] /\ charAt(w, i) = w[i]
      BY <1>1, <2>3
    <3> QED  BY <2>1, <3>1
  <2> QED  BY <2>3, <2>4, <2>5, BeforeDiffers DEF Differ
<1>3. CASE Len(v) < Len(w) /\ SubSeq(w, 1, Len(v)) = v
  <2>1. PICK i : i = Len(v) + 1
    OBVIOUS
  <2>2. i \in 1..Len(w) /\ i \in Nat \ {0} /\ i > Len(v) /\ i - 1 = Len(v)
    BY <1>1, <1>3, <2>1
  <2>3. \A j \in 1..Len(v) : v[j] = w[j]
    <3>1. PICK S : S = 1..255
      OBVIOUS
    <3>2. w \in Seq(S) /\ 1 \in 1..(Len(w) + 1) /\ Len(v) \in 0..Len(w)
      BY <1>1, <1>3, <3>1 DEF Word
    <3>3. PICK n : n = Len(v)
      OBVIOUS
    <3>4. \A j \in 1..n : SubSeq(w, 1, n)[j] = w[j]
      BY <1>1, <1>3, <3>2, <3>3
    <3> QED  BY <1>3, <3>3, <3>4
  <2>4. \A j \in 1..(i - 1) : charAt(v, j) = charAt(w, j)
    <3> SUFFICES ASSUME NEW j \in 1..(i - 1) PROVE charAt(v, j) = charAt(w, j)
      OBVIOUS
    <3>1. j \in 1..Len(v) /\ j \in 1..Len(w)
      BY <1>1, <2>2
    <3> QED  BY <1>1, <2>3, <3>1
  <2>5. charAt(v, i) < charAt(w, i)
    <3>1. charAt(v, i) = 0
      BY <1>1, <2>2
    <3>2. charAt(w, i) \in 1..255
      BY <1>1, <2>2
    <3> QED  BY <3>1, <3>2
  <2> QED  BY <2>2, <2>4, <2>5, BeforeDiffers DEF Differ
<1> QED  BY <1>2, <1>3 DEF MemcmpBefore

LEMMA SortsMemcmp ==
    ASSUME NEW v \in Word, NEW w \in Word, Plain(v), Plain(w), SortsBefore(v, w)
    PROVE  MemcmpBefore(v, w)
<1>1. /\ Len(v) \in Nat /\ \A k \in 1..Len(v) : v[k] \in 1..255 /\ charAt(v, k) = v[k]
      /\ Len(w) \in Nat /\ \A k \in 1..Len(w) : w[k] \in 1..255 /\ charAt(w, k) = w[k]
      /\ \A k \in Nat \ {0} : k > Len(v) => charAt(v, k) = 0
      /\ \A k \in Nat \ {0} : k > Len(w) => charAt(w, k) = 0
  BY PlainBytes
<1>2. PICK i : Differ(v, w, i)
  BY BeforeDiffers
<1>3. /\ i \in Nat \ {0} /\ charAt(v, i) < charAt(w, i)
      /\ \A j \in 1..(i - 1) : charAt(v, j) = charAt(w, j)
  BY <1>2 DEF Differ
<1>4. i <= Len(w)
  <2> SUFFICES ASSUME i > Len(w) PROVE FALSE
    BY <1>1, <1>3
  <2>1. charAt(w, i) = 0
    BY <1>1, <1>3
  <2>2. charAt(v, i) \in Nat
    <3>1. CASE i > Len(v)
      BY <1>1, <1>3, <3>1
    <3>2. CASE ~(i > Len(v))
      <4>1. i \in 1..Len(v)
        BY <1>1, <1>3, <3>2
      <4>2. v[i] \in 1..255 /\ charAt(v, i) = v[i]
        BY <1>1, <4>1, Zenon
      <4>3. \A b \in 1..255 : b \in Nat
        OBVIOUS
      <4> QED  BY <4>2, <4>3
    <3> QED  BY <3>1, <3>2
  <2> QED  BY <1>3, <2>1, <2>2
<1>5. \A j \in 1..(i - 1) : j \in 1..Len(v) /\ j \in 1..Len(w) /\ v[j] = w[j]
  <2> SUFFICES ASSUME NEW j \in 1..(i - 1) PROVE j \in 1..Len(v) /\ j \in 1..Len(w) /\ v[j] = w[j]
    OBVIOUS
  <2>1. j \in 1..Len(w) /\ j \in Nat \ {0}
    BY <1>1, <1>3, <1>4
  <2>2. charAt(v, j) = w[j] /\ w[j] \in 1..255
    BY <1>1, <1>3, <2>1
  <2>3. ~(j > Len(v))
    <3> SUFFICES ASSUME j > Len(v) PROVE FALSE
      OBVIOUS
    <3>1. charAt(v, j) = 0
      BY <1>1, <2>1
    <3> QED  BY <2>2, <3>1
  <2>4. j \in 1..Len(v)
    BY <1>1, <2>1, <2>3
  <2> QED  BY <1>1, <2>1, <2>2, <2>4
<1>6. CASE i <= Len(v)
  <2>1. i \in 1..Len(v) /\ i \in 1..Len(w)
    BY <1>1, <1>3, <1>4, <1>6
  <2>2. v[i] < w[i]
    <3>1. charAt(v, i) = v[i] /\ charAt(w, i) = w[i]
      BY <1>1, <2>1
    <3> QED  BY <1>3, <3>1
  <2>3. i \in 1..Min({Len(v), Len(w)})
    <3>1. PICK m : m = Min({Len(v), Len(w)})
      OBVIOUS
    <3>2. m \in Nat /\ \A k \in Nat : k <= m <=> k <= Len(v) /\ k <= Len(w)
      BY <1>1, <3>1, LesserLength
    <3>3. i <= m
      BY <1>1, <1>3, <2>1, <3>2
    <3> QED  BY <1>3, <3>1, <3>2, <3>3
  <2> QED  BY <1>5, <2>2, <2>3 DEF MemcmpBefore
<1>7. CASE i > Len(v)
  <2>1. i = Len(v) + 1
    <3> SUFFICES ASSUME i # Len(v) + 1 PROVE FALSE
      OBVIOUS
    <3>1. PICK j : j = Len(v) + 1
      OBVIOUS
    <3>2. j \in 1..(i - 1) /\ ~(j \in 1..Len(v))
      BY <1>1, <1>3, <1>7, <3>1
    <3> QED  BY <1>5, <3>2
  <2>2. Len(v) < Len(w)
    BY <1>1, <1>4, <2>1
  <2>3. SubSeq(w, 1, Len(v)) = v
    <3>1. PICK S, n, u : S = 1..255 /\ n = Len(v) /\ u = SubSeq(w, 1, n)
      OBVIOUS
    <3>2. w \in Seq(S) /\ v \in Seq(S)
      BY <3>1 DEF Word
    <3>3. u \in Seq(S) /\ Len(u) = n /\ \A j \in 1..n : u[j] = w[j]
      BY <1>1, <2>2, <3>1, <3>2
    <3>4. \A j \in 1..n : w[j] = v[j]
      BY <1>1, <1>5, <2>1, <3>1
    <3>5. u = v
      BY <3>1, <3>2, <3>3, <3>4, SeqEqual
    <3> QED  BY <3>1, <3>5
  <2> QED  BY <2>2, <2>3 DEF MemcmpBefore
<1> QED  BY <1>1, <1>3, <1>6, <1>7

\* One turn of the search.
Narrowed(li, word, range) ==
    LET mid == range.lo + ((range.hi - range.lo) \div 2)
        e   == li.dict[mid].word
    IN  IF range.lo >= range.hi \/ range.found # 0 THEN range
        ELSE IF e = word THEN [ range EXCEPT !.found = mid ]
        ELSE IF MemcmpBefore(e, word) THEN [ range EXCEPT !.lo = mid + 1 ]
        ELSE [ range EXCEPT !.hi = mid ]

Whole(li) == [lo |-> 1, hi |-> Len(li.dict) + 1, found |-> 0]

\* g is the recursive function of lookup, of m turns.
SearchEq(g, li, word, m) ==
    g = [k \in 0..m |-> IF k = 0 THEN Narrowed(li, word, Whole(li)) ELSE Narrowed(li, word, g[k - 1])]

Search(li, word, m) == CHOOSE g : SearchEq(g, li, word, m)

LEMMA LookupUnfolds ==
    ASSUME NEW li, NEW word
    PROVE  lookup(li, word) = Search(li, word, Len(li.dict))[Len(li.dict)].found
BY DEF lookup, Search, SearchEq, Narrowed, Whole

LEMMA SearchExists ==
    ASSUME NEW li, NEW word, NEW m \in Nat
    PROVE  SearchEq(Search(li, word, m), li, word, m)
<1> DEFINE Missing == {k \in Nat : ~ \E g : SearchEq(g, li, word, k)}
<1>1. Missing = {}
  <2> SUFFICES ASSUME Missing # {} PROVE FALSE
    OBVIOUS
  <2>1. PICK k \in Missing : \A j \in Missing : k <= j
    <3>1. Missing \in SUBSET Nat
      OBVIOUS
    <3> HIDE DEF Missing
    <3> QED  BY <3>1, LeastNumber
  <2>2. k \in Nat /\ ~ \E g : SearchEq(g, li, word, k)
    OBVIOUS
  <2>3. CASE k = 0
    <3> DEFINE h == [i \in 0..0 |-> Narrowed(li, word, Whole(li))]
    <3>1. SearchEq(h, li, word, 0)
      BY DEF SearchEq
    <3> QED  BY <2>2, <2>3, <3>1
  <2>4. CASE k # 0
    <3>1. k - 1 \in Nat /\ k - 1 \notin Missing
      BY <2>1, <2>2, <2>4
    <3>2. PICK g : SearchEq(g, li, word, k - 1)
      BY <3>1
    <3> DEFINE last == Narrowed(li, word, g[k - 1])
               h == [i \in 0..k |-> IF i = k THEN last ELSE g[i]]
    <3>3. \A i \in 0..(k - 1) : h[i] = g[i]
      BY <2>2
    <3>4. h[k] = last
      BY <2>2
    <3>5. \A i \in 0..(k - 1) :
            g[i] = IF i = 0 THEN Narrowed(li, word, Whole(li)) ELSE Narrowed(li, word, g[i - 1])
      BY <3>2 DEF SearchEq
    <3>6. h = [i \in 0..k |-> h[i]]
      OBVIOUS
    <3>7. k - 1 \in 0..(k - 1)
      BY <2>2, <2>4
    <3>8. h[k - 1] = g[k - 1]
      BY <3>3, <3>7
    <3> HIDE DEF h
    <3>9. ASSUME NEW i \in 0..k
          PROVE  h[i] = IF i = 0 THEN Narrowed(li, word, Whole(li)) ELSE Narrowed(li, word, h[i - 1])
      <4>1. CASE i = k
        BY <2>4, <3>4, <3>8, <4>1
      <4>2. CASE i # k
        <5>1. i \in 0..(k - 1)
          BY <2>2, <4>2
        <5>2. i # 0 => i - 1 \in 0..(k - 1)
          BY <2>2, <5>1
        <5>3. i # 0 => h[i - 1] = g[i - 1]
          BY <3>3, <5>2
        <5>4. h[i] = g[i]
          BY <3>3, <5>1
        <5> QED  BY <3>5, <5>1, <5>3, <5>4
      <4> QED  BY <4>1, <4>2
    <3>10. SearchEq(h, li, word, k)
      BY <3>6, <3>9 DEF SearchEq
    <3> QED  BY <2>2, <3>10
  <2> QED  BY <2>3, <2>4
<1>2. \E g : SearchEq(g, li, word, m)
  BY <1>1
<1> QED  BY <1>2 DEF Search

\* What is left of n entries after k turns.
Left(range, n, k) ==
    /\ range = [lo |-> range.lo, hi |-> range.hi, found |-> range.found]
    /\ range.lo \in 1..(n + 1) /\ range.hi \in 1..(n + 1) /\ range.found \in 0..n
    /\ range.found = 0 => range.lo >= range.hi \/ range.hi - range.lo <= n - k

LEMMA Halved ==
    ASSUME NEW lo \in Nat, NEW hi \in Nat, lo < hi
    PROVE  lo + ((hi - lo) \div 2) \in lo..(hi - 1)
<1>1. PICK d : d = hi - lo
  OBVIOUS
<1>2. d \in Nat \ {0} /\ hi = lo + d
  BY <1>1
<1>3. (d \div 2) \in 0..(d - 1)
  BY <1>2
<1> QED  BY <1>1, <1>2, <1>3

\* What a turn does.
Turns(li, word, range) ==
    /\ (range.lo >= range.hi \/ range.found # 0) => Narrowed(li, word, range) = range
    /\ ~(range.lo >= range.hi \/ range.found # 0) =>
          \E mid \in range.lo..(range.hi - 1) :
             \/ li.dict[mid].word = word /\ Narrowed(li, word, range).found = mid
             \/ /\ li.dict[mid].word # word /\ MemcmpBefore(li.dict[mid].word, word)
                /\ Narrowed(li, word, range) = [lo |-> mid + 1, hi |-> range.hi, found |-> 0]
             \/ /\ li.dict[mid].word # word /\ ~MemcmpBefore(li.dict[mid].word, word)
                /\ Narrowed(li, word, range) = [lo |-> range.lo, hi |-> mid, found |-> 0]

LEMMA Narrows ==
    ASSUME NEW li, NEW word, NEW n \in Nat, NEW k \in Nat, NEW range, Left(range, n, k)
    PROVE  /\ Left(Narrowed(li, word, range), n, k + 1)
           /\ Turns(li, word, range)
<1>1. PICK lo, hi, found : lo = range.lo /\ hi = range.hi /\ found = range.found
  OBVIOUS
<1>2. /\ range = [lo |-> lo, hi |-> hi, found |-> found]
      /\ lo \in 1..(n + 1) /\ hi \in 1..(n + 1) /\ found \in 0..n
      /\ found = 0 => lo >= hi \/ hi - lo <= n - k
  BY <1>1 DEF Left
<1>3. CASE lo >= hi \/ found # 0
  <2>1. Narrowed(li, word, range) = range
    BY <1>1, <1>3 DEF Narrowed
  <2>2. Left(range, n, k + 1)
    BY <1>1, <1>2, <1>3 DEF Left
  <2> QED  BY <1>1, <1>3, <2>1, <2>2 DEF Turns
<1>4. CASE ~(lo >= hi \/ found # 0)
  <2>1. lo < hi /\ found = 0 /\ hi - lo <= n - k
    BY <1>2, <1>4
  <2>2. PICK mid : mid = lo + ((hi - lo) \div 2)
    OBVIOUS
  <2>3. mid \in lo..(hi - 1)
    BY <1>2, <2>1, <2>2, Halved
  <2>4. PICK e : e = li.dict[mid].word
    OBVIOUS
  <2>5. Narrowed(li, word, range) = IF e = word THEN [range EXCEPT !.found = mid]
                                    ELSE IF MemcmpBefore(e, word) THEN [range EXCEPT !.lo = mid + 1]
                                    ELSE [range EXCEPT !.hi = mid]
    BY <1>1, <1>4, <2>2, <2>4 DEF Narrowed
  <2>6. /\ [range EXCEPT !.found = mid] = [lo |-> lo, hi |-> hi, found |-> mid]
        /\ [range EXCEPT !.lo = mid + 1] = [lo |-> mid + 1, hi |-> hi, found |-> 0]
        /\ [range EXCEPT !.hi = mid] = [lo |-> lo, hi |-> mid, found |-> 0]
    BY <1>2, <2>1
  <2>7. Left([lo |-> lo, hi |-> hi, found |-> mid], n, k + 1)
    BY <1>2, <2>1, <2>3 DEF Left
  <2>8. Left([lo |-> mid + 1, hi |-> hi, found |-> 0], n, k + 1)
    BY <1>2, <2>1, <2>3 DEF Left
  <2>9. Left([lo |-> lo, hi |-> mid, found |-> 0], n, k + 1)
    BY <1>2, <2>1, <2>3 DEF Left
  <2>10. CASE e = word
    <3>1. Narrowed(li, word, range) = [lo |-> lo, hi |-> hi, found |-> mid]
      BY <2>5, <2>6, <2>10
    <3>2. Narrowed(li, word, range).found = mid
      BY <3>1
    <3> QED  BY <1>1, <1>4, <2>3, <2>4, <2>7, <2>10, <3>1, <3>2 DEF Turns
  <2>11. CASE e # word /\ MemcmpBefore(e, word)
    <3>1. Narrowed(li, word, range) = [lo |-> mid + 1, hi |-> hi, found |-> 0]
      BY <2>5, <2>6, <2>11
    <3> QED  BY <1>1, <1>4, <2>3, <2>4, <2>8, <2>11, <3>1 DEF Turns
  <2>12. CASE e # word /\ ~MemcmpBefore(e, word)
    <3>1. Narrowed(li, word, range) = [lo |-> lo, hi |-> mid, found |-> 0]
      BY <2>5, <2>6, <2>12
    <3> QED  BY <1>1, <1>4, <2>3, <2>4, <2>9, <2>12, <3>1 DEF Turns
  <2> QED  BY <2>10, <2>11, <2>12
<1> QED  BY <1>3, <1>4

LEMMA SearchTurns ==
    ASSUME NEW li, NEW word, NEW n \in Nat, Len(li.dict) = n
    PROVE  LET g == Search(li, word, n)
           IN  /\ g[0] = Narrowed(li, word, Whole(li))
               /\ \A k \in 0..(n - 1) : g[k + 1] = Narrowed(li, word, g[k])
               /\ Left(Whole(li), n, 0)
               /\ \A k \in 0..n : Left(g[k], n, k + 1)
<1>1. PICK g : g = Search(li, word, n)
  OBVIOUS
<1>2. g = [k \in 0..n |-> IF k = 0 THEN Narrowed(li, word, Whole(li)) ELSE Narrowed(li, word, g[k - 1])]
  BY <1>1, SearchExists DEF SearchEq
<1>3. g[0] = Narrowed(li, word, Whole(li))
  <2>1. 0 \in 0..n
    OBVIOUS
  <2> QED  BY <1>2, <2>1
<1>4. \A k \in 0..(n - 1) : g[k + 1] = Narrowed(li, word, g[k])
  <2> SUFFICES ASSUME NEW k \in 0..(n - 1) PROVE g[k + 1] = Narrowed(li, word, g[k])
    OBVIOUS
  <2>1. k + 1 \in 0..n /\ k + 1 # 0 /\ (k + 1) - 1 = k
    OBVIOUS
  <2> QED  BY <1>2, <2>1
<1>5. Left(Whole(li), n, 0)
  <2>1. Whole(li) = [lo |-> 1, hi |-> n + 1, found |-> 0]
    BY DEF Whole
  <2> QED  BY <2>1 DEF Left
<1>6. \A k \in 0..n : Left(g[k], n, k + 1)
  <2> DEFINE B == {k \in 0..n : ~Left(g[k], n, k + 1)}
  <2> SUFFICES ASSUME B # {} PROVE FALSE
    OBVIOUS
  <2>1. PICK k \in B : \A j \in B : k <= j
    <3>1. B \in SUBSET Nat
      OBVIOUS
    <3> HIDE DEF B
    <3> QED  BY <3>1, LeastNumber
  <2>2. k \in 0..n /\ ~Left(g[k], n, k + 1)
    OBVIOUS
  <2>3. k # 0
    <3> SUFFICES ASSUME k = 0 PROVE FALSE
      OBVIOUS
    <3>1. Left(Narrowed(li, word, Whole(li)), n, 0 + 1)
      <4>1. 0 \in Nat
        OBVIOUS
      <4> QED  BY <1>5, <4>1, Narrows
    <3> QED  BY <1>3, <2>2, <3>1
  <2>4. PICK h : h = k - 1
    OBVIOUS
  <2>5. h \in 0..(n - 1) /\ h \in 0..n /\ h \in Nat /\ ~(k <= h) /\ h + 1 = k
    BY <2>2, <2>3, <2>4
  <2>6. Left(g[h], n, h + 1) /\ g[k] = Narrowed(li, word, g[h])
    BY <1>4, <2>1, <2>5
  <2>7. Left(Narrowed(li, word, g[h]), n, (h + 1) + 1)
    <3>1. h + 1 \in Nat
      BY <2>5
    <3> QED  BY <2>6, <3>1, Narrows
  <2> QED  BY <2>2, <2>5, <2>6, <2>7
<1> QED  BY <1>1, <1>3, <1>4, <1>5, <1>6

LEMMA LookupInside ==
    ASSUME NEW li, NEW word, Len(li.dict) \in Nat
    PROVE  lookup(li, word) \in 0..Len(li.dict)
<1>1. PICK n, g : n = Len(li.dict) /\ g = Search(li, word, n)
  OBVIOUS
<1>2. n \in 0..n
  BY <1>1
<1>3. Left(g[n], n, n + 1)
  BY <1>1, <1>2, SearchTurns
<1>4. lookup(li, word) = g[n].found
  BY <1>1, LookupUnfolds
<1> QED  BY <1>1, <1>3, <1>4 DEF Left

\* The word has the place t in the dictionary, in the order of memcmp.
Placed(li, word, t) ==
    /\ Len(li.dict) \in Nat /\ t \in 1..Len(li.dict)
    /\ li.dict[t].word = word
    /\ \A i \in 1..Len(li.dict) : /\ i # t => li.dict[i].word # word
                                  /\ i < t => MemcmpBefore(li.dict[i].word, word)
                                  /\ i > t => ~MemcmpBefore(li.dict[i].word, word)

\* t is still to be found, or found.
Tracks(range, t) == IF range.found = 0 THEN range.lo <= t /\ t < range.hi ELSE range.found = t

LEMMA TrackKept ==
    ASSUME NEW li, NEW word, NEW t, Placed(li, word, t), NEW k \in Nat, NEW range,
           Left(range, Len(li.dict), k), Tracks(range, t)
    PROVE  Tracks(Narrowed(li, word, range), t)
<1>1. PICK n, lo, hi : n = Len(li.dict) /\ lo = range.lo /\ hi = range.hi
  OBVIOUS
<1>2. n \in Nat /\ lo \in 1..(n + 1) /\ hi \in 1..(n + 1) /\ t \in 1..n
  BY <1>1 DEF Left, Placed
<1>2a. Turns(li, word, range)
  <2>1. Left(range, n, k)
    BY <1>1
  <2> QED  BY <1>2, <2>1, Narrows
<1>3. CASE lo >= hi \/ range.found # 0
  <2>1. Narrowed(li, word, range) = range
    <3>1. range.lo >= range.hi \/ range.found # 0
      BY <1>1, <1>3
    <3> QED  BY <1>2a, <3>1 DEF Turns
  <2> QED  BY <2>1
<1>4. CASE ~(lo >= hi \/ range.found # 0)
  <2>1. lo <= t /\ t < hi
    BY <1>1, <1>4 DEF Tracks
  <2>2. PICK mid \in range.lo..(range.hi - 1) :
                    \/ li.dict[mid].word = word /\ Narrowed(li, word, range).found = mid
                    \/ /\ li.dict[mid].word # word /\ MemcmpBefore(li.dict[mid].word, word)
                       /\ Narrowed(li, word, range) = [lo |-> mid + 1, hi |-> range.hi, found |-> 0]
                    \/ /\ li.dict[mid].word # word /\ ~MemcmpBefore(li.dict[mid].word, word)
                       /\ Narrowed(li, word, range) = [lo |-> range.lo, hi |-> mid, found |-> 0]
    <3>1. ~(range.lo >= range.hi \/ range.found # 0)
      BY <1>1, <1>4
    <3> QED  BY <1>2a, <3>1 DEF Turns
  <2>3. mid \in 1..n
    BY <1>1, <1>2
  <2>4. /\ mid # t => li.dict[mid].word # word
        /\ mid < t => MemcmpBefore(li.dict[mid].word, word)
        /\ mid > t => ~MemcmpBefore(li.dict[mid].word, word)
        /\ li.dict[t].word = word
    BY <1>1, <2>3 DEF Placed
  <2>5. CASE li.dict[mid].word = word /\ Narrowed(li, word, range).found = mid
    <3>1. mid = t /\ t # 0
      BY <1>2, <2>4, <2>5
    <3> QED  BY <2>5, <3>1 DEF Tracks
  <2>6. CASE /\ li.dict[mid].word # word /\ MemcmpBefore(li.dict[mid].word, word)
             /\ Narrowed(li, word, range) = [lo |-> mid + 1, hi |-> range.hi, found |-> 0]
    <3>1. mid # t /\ ~(mid > t)
      BY <2>4, <2>6
    <3>2. mid + 1 <= t
      BY <1>2, <2>3, <3>1
    <3> QED  BY <1>1, <2>1, <2>6, <3>2 DEF Tracks
  <2>7. CASE /\ li.dict[mid].word # word /\ ~MemcmpBefore(li.dict[mid].word, word)
             /\ Narrowed(li, word, range) = [lo |-> range.lo, hi |-> mid, found |-> 0]
    <3>1. mid # t /\ ~(mid < t)
      BY <2>4, <2>7
    <3>2. t < mid
      BY <1>2, <2>3, <3>1
    <3> QED  BY <1>1, <2>1, <2>7, <3>2 DEF Tracks
  <2> QED  BY <2>2, <2>5, <2>6, <2>7
<1> QED  BY <1>3, <1>4

LEMMA LookupPlaced ==
    ASSUME NEW li, NEW word, NEW t, Placed(li, word, t)
    PROVE  lookup(li, word) = t
<1>1. PICK n, g : n = Len(li.dict) /\ g = Search(li, word, n)
  OBVIOUS
<1>2. n \in Nat /\ t \in 1..n
  BY <1>1 DEF Placed
<1>3. /\ g[0] = Narrowed(li, word, Whole(li))
      /\ \A k \in 0..(n - 1) : g[k + 1] = Narrowed(li, word, g[k])
      /\ Left(Whole(li), n, 0)
      /\ \A k \in 0..n : Left(g[k], n, k + 1)
  BY <1>1, <1>2, SearchTurns
<1>4. Tracks(Whole(li), t)
  <2>1. Whole(li) = [lo |-> 1, hi |-> n + 1, found |-> 0]
    BY <1>1 DEF Whole
  <2> QED  BY <1>2, <2>1 DEF Tracks
<1>5. Tracks(g[0], t)
  <2>1. 0 \in Nat
    OBVIOUS
  <2> QED  BY <1>1, <1>3, <1>4, <2>1, TrackKept
<1>6. \A k \in 0..n : Tracks(g[k], t)
  <2> DEFINE B == {k \in 0..n : ~Tracks(g[k], t)}
  <2> SUFFICES ASSUME B # {} PROVE FALSE
    OBVIOUS
  <2>1. PICK k \in B : \A j \in B : k <= j
    <3>1. B \in SUBSET Nat
      OBVIOUS
    <3> HIDE DEF B
    <3> QED  BY <3>1, LeastNumber
  <2>2. k \in 0..n /\ ~Tracks(g[k], t)
    OBVIOUS
  <2>3. PICK h : h = k - 1
    OBVIOUS
  <2>4. k # 0
    BY <1>5, <2>2
  <2>5. h \in 0..(n - 1) /\ h \in 0..n /\ h + 1 \in Nat /\ ~(k <= h) /\ h + 1 = k
    BY <1>2, <2>2, <2>3, <2>4
  <2>6. Tracks(g[h], t) /\ Left(g[h], n, h + 1) /\ g[k] = Narrowed(li, word, g[h])
    BY <1>3, <2>1, <2>5
  <2>7. Tracks(Narrowed(li, word, g[h]), t)
    BY <1>1, <2>5, <2>6, TrackKept
  <2> QED  BY <2>2, <2>6, <2>7
<1>7. n \in 0..n
  BY <1>2
<1>8. Left(g[n], n, n + 1) /\ Tracks(g[n], t)
  BY <1>3, <1>6, <1>7
<1>9. g[n].found # 0
  <2> SUFFICES ASSUME g[n].found = 0 PROVE FALSE
    OBVIOUS
  <2>1. PICK lo, hi : lo = g[n].lo /\ hi = g[n].hi
    OBVIOUS
  <2>2. lo <= t /\ t < hi
    BY <1>8, <2>1 DEF Tracks
  <2>3. lo \in 1..(n + 1) /\ hi \in 1..(n + 1) /\ (lo >= hi \/ hi - lo <= n - (n + 1))
    BY <1>8, <2>1 DEF Left
  <2> QED  BY <1>2, <2>2, <2>3
<1>10. g[n].found = t
  BY <1>8, <1>9 DEF Tracks
<1> QED  BY <1>1, <1>10, LookupUnfolds

\* The dictionary of S is in memory, and no byte of its words changes its place
\* in the order by its sign.
Searchable(li, S, n, e) ==
    /\ Dictionary(e, S, n)
    /\ \A w \in S : Plain(w)
    /\ Len(li.dict) = n
    /\ \A i \in 1..n : li.dict[i].word = e[i]

\* The binary search by memcmp finds every word where radix_sort has put it, if
\* no byte changes its place in the order by its sign.
THEOREM LookupFinds ==
    ASSUME NEW li, NEW S, NEW n, NEW e, Searchable(li, S, n, e), NEW t \in 1..n
    PROVE  lookup(li, e[t]) = t
<1>1. /\ n \in Nat /\ DOMAIN e = 1..n /\ InOrder(e)
      /\ \A i \in 1..n : e[i] \in Word /\ Plain(e[i])
      /\ Len(li.dict) = n /\ \A i \in 1..n : li.dict[i].word = e[i]
  BY DEF Dictionary, Searchable
<1>2. ASSUME NEW i \in 1..n
      PROVE  /\ i # t => e[i] # e[t]
             /\ i < t => MemcmpBefore(e[i], e[t])
             /\ i > t => ~MemcmpBefore(e[i], e[t])
  <2>1. /\ i < t => SortsBefore(e[i], e[t])
        /\ t < i => SortsBefore(e[t], e[i])
    BY <1>1 DEF InOrder
  <2>2. CASE i < t
    <3>1. SortsBefore(e[i], e[t])
      BY <2>1, <2>2
    <3>2. MemcmpBefore(e[i], e[t]) /\ e[i] # e[t]
      BY <1>1, <3>1, SortsMemcmp, BeforeIsStrict
    <3> QED  BY <1>1, <2>2, <3>2
  <2>3. CASE t < i
    <3>1. SortsBefore(e[t], e[i])
      BY <2>1, <2>3
    <3>2. e[i] # e[t] /\ ~SortsBefore(e[i], e[t])
      BY <1>1, <3>1, BeforeIsStrict
    <3>3. ~MemcmpBefore(e[i], e[t])
      BY <1>1, <3>2, MemcmpSorts
    <3> QED  BY <1>1, <2>3, <3>2, <3>3
  <2>4. CASE i = t
    BY <1>1, <2>4
  <2> QED  BY <1>1, <2>2, <2>3, <2>4
<1>3. Placed(li, e[t], t)
  BY <1>1, <1>2 DEF Placed
<1> QED  BY <1>3, LookupPlaced

-----------------------------------------------------------------------------
(* The posting region of a file                                             *)

\* The words can be searched for and their gaps can be written.
Sound(idx) ==
    /\ DOMAIN idx \in SUBSET Word /\ IsFiniteSet(DOMAIN idx)
    /\ \A w \in DOMAIN idx : HasSlot(w) => /\ ArePosts(idx[w].posts) /\ AreCarried(idx[w].posts)
                                           /\ idx[w].n_docs \in Nat
                                           /\ Plain(w)

\* Every list is where the dictionary says.
RegionHolds(region, size, at, e, idx) ==
    /\ Apart(region) /\ size \in Nat
    /\ \A k \in DOMAIN e :
          /\ ListAt(region, idx[e[k]].posts, idx[e[k]].n_docs, at[k])
          /\ at[k] + ListSize(idx[e[k]].posts) <= size

LEMMA ListsSit ==
    ASSUME NEW idx, Sound(idx)
    PROVE  LET e     == sort_entries(idx)
               cells == FlattenSeq([i \in DOMAIN e |-> ListCells(idx[e[i]])])
           IN  RegionHolds(LayOut(cells), RegionSize(cells), posting_list_locations(e, idx), e, idx)
<1>1. PICK e, s : e = sort_entries(idx) /\ s = [i \in DOMAIN e |-> ListCells(idx[e[i]])]
  OBVIOUS
<1>2. PICK n : Dictionary(e, {w \in DOMAIN idx : HasSlot(w)}, n)
  BY <1>1, EntriesAreDictionary DEF Sound
<1>3. /\ n \in Nat /\ DOMAIN e = 1..n
      /\ \A i \in 1..n : e[i] \in DOMAIN idx /\ HasSlot(e[i])
  BY <1>2 DEF Dictionary
<1>4. \A i \in 1..n : /\ ArePosts(idx[e[i]].posts) /\ AreCarried(idx[e[i]].posts)
                      /\ idx[e[i]].n_docs \in Nat
  BY <1>3 DEF Sound
<1>5. PICK f : f = [j \in 1..n |-> ListSize(idx[e[j]].posts)]
  OBVIOUS
<1>6. \A i \in 1..n : f[i] = ListSize(idx[e[i]].posts) /\ f[i] \in Nat
  BY <1>4, <1>5, SizesAre
<1>7. f \in [1..n -> Nat]
  BY <1>5, <1>6
<1>8. \A i \in 1..n : s[i] = ListCells(idx[e[i]])
  BY <1>1, <1>3
<1>9. \A i \in 1..n : s[i] \in Seq(Cell) /\ RegionSize(s[i]) = f[i]
  BY <1>4, <1>6, <1>8, ListCellsAre
<1>10. s \in Seq(Seq(Cell)) /\ Len(s) = n
  <2>1. PICK S : S = Seq(Cell)
    OBVIOUS
  <2>2. s \in [1..n -> S]
    BY <1>1, <1>3, <1>9, <2>1
  <2>3. s \in Seq(S) /\ Len(s) = n
    BY <1>3, <2>2, FunctionIsSeq
  <2> QED  BY <2>1, <2>3
<1>11. PICK c : c = FlattenSeq(s)
  OBVIOUS
<1>12. /\ c \in Seq(Cell)
       /\ \A i \in 1..n : Sits(s[i], c, Written(f, i - 1))
  BY <1>7, <1>9, <1>10, <1>11, PiecesSit
<1>13. AreCells(c) /\ Apart(LayOut(c))
  BY <1>12, CellSequence, LaidOutApart
<1>14. RegionSize(c) \in Nat
  <2>1. RegionSize(c) = EndOf(c, Len(c)) /\ Len(c) \in 0..Len(c)
    BY <1>13, LaidOut DEF AreCells
  <2> QED  BY <1>13, <2>1, EndSteps
<1>15. PICK at : at = posting_list_locations(e, idx)
  OBVIOUS
<1>16. ASSUME NEW k \in 1..n
       PROVE  at[k] = Written(f, k - 1)
  <2>1. at[k] = Sum([j \in 1..(k - 1) |-> ListSize(idx[e[j]].posts)])
    BY <1>3, <1>15 DEF posting_list_locations
  <2>2. \A j \in 1..(k - 1) : j \in 1..n /\ f[j] = ListSize(idx[e[j]].posts)
    BY <1>3, <1>6
  <2>3. [j \in 1..(k - 1) |-> ListSize(idx[e[j]].posts)] = [j \in 1..(k - 1) |-> f[j]]
    BY <2>2
  <2> QED  BY <2>1, <2>3 DEF Written
<1>17. ASSUME NEW k \in 1..n
       PROVE  /\ ListAt(LayOut(c), idx[e[k]].posts, idx[e[k]].n_docs, at[k])
              /\ at[k] + ListSize(idx[e[k]].posts) <= RegionSize(c)
  <2>1. PICK x, o : x = idx[e[k]] /\ o = at[k]
    OBVIOUS
  <2>2. ArePosts(x.posts) /\ AreCarried(x.posts) /\ x.n_docs \in Nat
    BY <1>4, <2>1
  <2>3. Sits(ListCells(x), c, o)
    BY <1>8, <1>12, <1>16, <2>1
  <2>4. ListAt(LayOut(c), x.posts, x.n_docs, o) /\ o + ListSize(x.posts) <= RegionSize(c)
    BY <2>2, <2>3, ListCellsAre
  <2> QED  BY <2>1, <2>4
<1>18. RegionHolds(LayOut(c), RegionSize(c), at, e, idx)
  BY <1>3, <1>13, <1>14, <1>17 DEF RegionHolds
<1> QED  BY <1>1, <1>11, <1>15, <1>18

-----------------------------------------------------------------------------
(* The reader of a list                                                     *)

Fields == {"region", "size", "start", "at", "n_posts", "n_docs", "posts_consumed",
           "doc_offset", "loc_offset", "has_pending", "over", "out"}

\* A reader that stands at a place, after c posts and at d and l, nothing pending.
Cursor(s, li, at, n, nd, c, d, l) ==
    /\ DOMAIN s = Fields
    /\ s.region = li.region /\ s.size = li.size
    /\ s.at = at /\ s.n_posts = n /\ s.n_docs = nd
    /\ s.posts_consumed = c /\ s.doc_offset = d /\ s.loc_offset = l
    /\ ~s.has_pending /\ ~s.over

LEMMA NumberRead ==
    ASSUME NEW s, NEW at \in Nat, NEW v, NEW w, NumberAt(s.region, at, v, w), s.size \in Nat
    PROVE  IF at + w <= s.size THEN InRegion(s, at) /\ ReadAt(s, at) = v /\ After(s, at) = at + w
                               ELSE ~InRegion(s, at) /\ ReadAt(s, at) = 0 /\ After(s, at) = at + 1
<1>1. at \in DOMAIN s.region /\ s.region[at].w = w /\ ReadUtf8(s.region[at].v) = v
  BY DEF NumberAt
<1>2. CASE at + w <= s.size
  <2>1. InRegion(s, at)
    BY <1>1, <1>2 DEF InRegion
  <2> QED  BY <1>1, <1>2, <2>1 DEF ReadAt, After
<1>3. CASE ~(at + w <= s.size)
  <2>1. ~InRegion(s, at)
    BY <1>1, <1>3 DEF InRegion
  <2> QED  BY <1>3, <2>1 DEF ReadAt, After
<1> QED  BY <1>2, <1>3

LEMMA DecodesSame ==
    ASSUME NEW li, NEW at \in Nat, NEW n \in Nat, NEW nd, NEW c \in Nat, NEW d \in Nat, NEW l \in Nat,
           NEW s, Cursor(s, li, at, n, nd, c, d, l), li.size \in Nat,
           c # n, at < li.size, InRegion(s, at), ReadAt(s, at) \in Nat \ {0}
    PROVE  /\ Cursor(advance(s), li, After(s, at), n, nd, c + 1, d, l + ReadAt(s, at))
           /\ advance(s).out = [doc |-> d, loc |-> l + ReadAt(s, at)]
<1>1. /\ ~s.has_pending /\ s.posts_consumed = c /\ s.n_posts = n /\ s.at = at /\ s.size = li.size
      /\ ~(s.at >= s.size)
  BY DEF Cursor
<1>2. PICK first, second : first = ReadAt(s, at) /\ second = After(s, at)
  OBVIOUS
<1>3. PICK same : same = [ [ s EXCEPT !.posts_consumed = @ + 1 ] EXCEPT !.at = second, !.loc_offset = @ + first ]
  OBVIOUS
<1>4. first > 0
  BY <1>2
<1>5. advance(s) = [ same EXCEPT !.out = Here(same), !.over = @ \/ ~InRegion(s, at) ]
  BY <1>1, <1>2, <1>3, <1>4 DEF advance, advance_base, WalkedOff, With
<1>6. Cursor(same, li, second, n, nd, c + 1, d, l + first)
  BY <1>3 DEF Cursor, Fields
<1>7. Here(same) = [doc |-> d, loc |-> l + first]
  BY <1>6 DEF Here, Cursor
<1>8. PICK h, t : h = Here(same) /\ t = [ same EXCEPT !.out = h, !.over = @ \/ ~InRegion(s, at) ]
  OBVIOUS
<1>9. Cursor(t, li, second, n, nd, c + 1, d, l + first) /\ t.out = h
  BY <1>6, <1>8 DEF Cursor, Fields
<1> QED  BY <1>2, <1>5, <1>7, <1>8, <1>9

LEMMA DecodesNext ==
    ASSUME NEW li, NEW at \in Nat, NEW n \in Nat, NEW nd, NEW c \in Nat, NEW d \in Nat, NEW l \in Nat,
           NEW s, Cursor(s, li, at, n, nd, c, d, l), li.size \in Nat,
           c # n, at < li.size, ReadAt(s, at) = 0,
           NEW second, second = After(s, at), NEW third, third = After(s, second)
    PROVE  /\ InRegion(s, at) /\ InRegion(s, third) =>
                 /\ Cursor(advance(s), li, After(s, third), n, nd, c + 1, d + ReadAt(s, second), ReadAt(s, third))
                 /\ advance(s).out = [doc |-> d + ReadAt(s, second), loc |-> ReadAt(s, third)]
           /\ ~InRegion(s, at) \/ ~InRegion(s, third) => advance(s).over
<1>1. /\ ~s.has_pending /\ s.posts_consumed = c /\ s.n_posts = n /\ s.at = at /\ s.size = li.size
      /\ ~(s.at >= s.size)
  BY DEF Cursor
<1>2. PICK fourth, gap, loc : /\ fourth = After(s, third) /\ gap = ReadAt(s, second)
                              /\ loc = ReadAt(s, third)
  OBVIOUS
<1>3. PICK next : next = [ [ s EXCEPT !.posts_consumed = @ + 1 ] EXCEPT
                             !.at = fourth, !.doc_offset = @ + gap, !.loc_offset = loc,
                             !.over = @ \/ ~InRegion(s, third) ]
  OBVIOUS
<1>4. ~(ReadAt(s, at) > 0)
  OBVIOUS
<1>5. advance(s) = [ next EXCEPT !.out = Here(next), !.over = @ \/ ~InRegion(s, at) ]
  BY <1>1, <1>2, <1>3, <1>4 DEF advance, advance_base, WalkedOff, With
<1>6. PICK h, t : h = Here(next) /\ t = [ next EXCEPT !.out = h, !.over = @ \/ ~InRegion(s, at) ]
  OBVIOUS
<1>7. CASE InRegion(s, at) /\ InRegion(s, third)
  <2>1. Cursor(next, li, fourth, n, nd, c + 1, d + gap, loc)
    BY <1>3, <1>7 DEF Cursor, Fields
  <2>2. h = [doc |-> d + gap, loc |-> loc]
    BY <1>6, <2>1 DEF Here, Cursor
  <2>3. Cursor(t, li, fourth, n, nd, c + 1, d + gap, loc) /\ t.out = h
    BY <1>6, <1>7, <2>1 DEF Cursor, Fields
  <2> QED  BY <1>2, <1>5, <1>6, <1>7, <2>2, <2>3
<1>8. CASE ~(InRegion(s, at) /\ InRegion(s, third))
  <2>1. "over" \in DOMAIN next /\ (~InRegion(s, third) => next.over)
    BY <1>3 DEF Cursor, Fields
  <2>2. t.over
    BY <1>6, <1>8, <2>1
  <2> QED  BY <1>5, <1>6, <1>8, <2>2
<1> QED  BY <1>7, <1>8

\* The list of the posts P is in the region, as far as the region goes.
Stored(li, P, nd, b) ==
    /\ ArePosts(P) /\ AreCarried(P) /\ nd \in Nat
    /\ Apart(li.region) /\ li.size \in Nat
    /\ ListAt(li.region, P, nd, b)

\* Where the first k posts end.
PostEnd(P, b, k) == b + HeaderSize + Written(Sizes(P), k)

\* k posts are read.
Stands(s, li, P, nd, b, k) ==
    Cursor(s, li, PostEnd(P, b, k), Len(P), nd, k,
           IF k = 0 THEN 0 ELSE P[k].doc, IF k = 0 THEN 0 ELSE P[k].loc)

LEMMA PostEndsRise ==
    ASSUME NEW li, NEW P, NEW nd, NEW b, Stored(li, P, nd, b)
    PROVE  /\ Len(P) \in Nat
           /\ \A k \in 0..Len(P) : PostEnd(P, b, k) \in Nat
           /\ \A k \in 0..(Len(P) - 1) : /\ PostEnd(P, b, k + 1) = PostEnd(P, b, k) + PostSize(P, k + 1)
                                         /\ PostSize(P, k + 1) \in Nat \ {0}
<1>1. ArePosts(P) /\ AreCarried(P) /\ b \in Nat
  BY DEF Stored, ListAt
<1>2. PICK f, n : f = Sizes(P) /\ n = Len(P)
  OBVIOUS
<1>3. /\ n \in Nat /\ f \in [1..n -> Nat]
      /\ \A i \in 1..n : f[i] = PostSize(P, i) /\ f[i] \in Nat \ {0}
      /\ \A i \in 0..n : Written(f, i) \in Nat
  BY <1>1, <1>2, SizesAre
<1>4. \A k \in 0..(n - 1) : Written(f, k + 1) = Written(f, k) + f[k + 1]
  BY <1>3, WrittenSteps
<1>5. \A k \in 0..n : PostEnd(P, b, k) = b + 14 + Written(f, k)
  BY <1>2 DEF PostEnd, HeaderSize
<1>6. ASSUME NEW k \in 0..(n - 1)
      PROVE  /\ PostEnd(P, b, k + 1) = PostEnd(P, b, k) + PostSize(P, k + 1)
             /\ PostSize(P, k + 1) \in Nat \ {0}
  <2>1. k \in 0..n /\ k + 1 \in 0..n /\ k + 1 \in 1..n
    BY <1>3
  <2>2. f[k + 1] = PostSize(P, k + 1) /\ f[k + 1] \in Nat \ {0}
    BY <1>3, <2>1
  <2>3. Written(f, k) \in Nat /\ Written(f, k + 1) = Written(f, k) + f[k + 1]
    BY <1>3, <1>4, <2>1
  <2> QED  BY <1>1, <1>5, <2>1, <2>2, <2>3
<1>7. \A k \in 0..n : PostEnd(P, b, k) \in Nat
  BY <1>1, <1>3, <1>5
<1> QED  BY <1>2, <1>3, <1>6, <1>7

\* Reading a post of a document already begun.
LEMMA FetchesSame ==
    ASSUME NEW li, NEW P, NEW nd, NEW b, Stored(li, P, nd, b), NEW i \in 1..Len(P), ~NewDoc(P, i),
           NEW k, k = i - 1, NEW s, Stands(s, li, P, nd, b, k), PostEnd(P, b, k) < li.size
    PROVE  IF PostEnd(P, b, i) <= li.size
           THEN Stands(advance(s), li, P, nd, b, i) /\ advance(s).out = P[i]
           ELSE advance(s).over
<1>1. ArePosts(P) /\ AreCarried(P) /\ li.size \in Nat
  BY DEF Stored
<1>2. Len(P) \in Nat /\ i \in Nat /\ k + 1 = i /\ k \in 0..(Len(P) - 1) /\ k \in 0..Len(P)
  BY <1>1, PostsAre
<1>3. PICK at, w, l, n : at = PostEnd(P, b, k) /\ w = PostSize(P, i) /\ l = LocDelta(P, i) /\ n = Len(P)
  OBVIOUS
<1>4. at \in Nat /\ PostEnd(P, b, i) = at + w /\ w \in Nat \ {0}
  BY <1>2, <1>3, PostEndsRise
<1>5. /\ l \in Nat \ {0} /\ i # 1
      /\ P[i].doc = LastDoc(P, i)
      /\ P[i].loc = P[i - 1].loc + l
  BY <1>1, <1>3, GapsAre
<1>6. k # 0 /\ k \in 1..Len(P) /\ LastDoc(P, i) = P[k].doc
  BY <1>2, <1>5 DEF LastDoc
<1>7. PICK d, m : d = P[k].doc /\ m = P[k].loc
  OBVIOUS
<1>8. d \in Nat /\ m \in Nat /\ P[i].doc = d /\ P[i].loc = m + l /\ P[i] = [doc |-> d, loc |-> m + l]
  <2>1. d \in Nat /\ m \in Nat
    BY <1>1, <1>6, <1>7, PostsAre
  <2>2. P[i] = [doc |-> P[i].doc, loc |-> P[i].loc]
    BY <1>1, PostsAre
  <2>3. P[i].doc = d /\ P[i].loc = m + l
    BY <1>5, <1>6, <1>7
  <2> QED  BY <2>1, <2>2, <2>3
<1>9. Cursor(s, li, at, n, nd, k, d, m)
  BY <1>3, <1>6, <1>7 DEF Stands
<1>10. NumberAt(s.region, at, l, w) /\ s.size = li.size /\ s.region = li.region
  <2>1. PostAt(li.region, P, i, PostEnd(P, b, k))
    BY DEF Stored, ListAt, PostEnd
  <2>2. NumberAt(li.region, at, l, w)
    BY <1>3, <2>1 DEF PostAt
  <2> QED  BY <1>9, <2>2 DEF Cursor
<1>11. CASE at + w <= li.size
  <2>1. InRegion(s, at) /\ ReadAt(s, at) = l /\ After(s, at) = at + w
    BY <1>1, <1>4, <1>10, <1>11, NumberRead
  <2>2. k # n /\ k \in Nat /\ n \in Nat /\ at < li.size
    BY <1>2, <1>3
  <2>3. /\ Cursor(advance(s), li, After(s, at), n, nd, k + 1, d, m + ReadAt(s, at))
        /\ advance(s).out = [doc |-> d, loc |-> m + ReadAt(s, at)]
    <3>1. ReadAt(s, at) \in Nat \ {0}
      BY <1>5, <2>1
    <3>2. at \in Nat /\ d \in Nat /\ m \in Nat /\ li.size \in Nat
      BY <1>1, <1>4, <1>8
    <3> QED  BY <1>9, <2>1, <2>2, <3>1, <3>2, DecodesSame
  <2>4. Cursor(advance(s), li, PostEnd(P, b, i), n, nd, i, d, m + l) /\ advance(s).out = P[i]
    BY <1>2, <1>4, <1>8, <2>1, <2>3
  <2>5. Stands(advance(s), li, P, nd, b, i)
    <3>1. i # 0
      BY <1>2
    <3> QED  BY <1>3, <1>8, <2>4, <3>1 DEF Stands
  <2> QED  BY <1>4, <1>11, <2>4, <2>5
<1>12. CASE ~(at + w <= li.size)
  <2>1. ~InRegion(s, at) /\ ReadAt(s, at) = 0
    BY <1>1, <1>4, <1>10, <1>12, NumberRead
  <2>2. k # n /\ k \in Nat /\ n \in Nat /\ at < li.size
    BY <1>2, <1>3
  <2>3. PICK second : second = After(s, at)
    OBVIOUS
  <2>4. PICK third : third = After(s, second)
    OBVIOUS
  <2>5. advance(s).over
    BY <1>1, <1>4, <1>8, <1>9, <2>1, <2>2, <2>3, <2>4, DecodesNext
  <2> QED  BY <1>4, <1>12, <2>5
<1> QED  BY <1>11, <1>12

\* Reading the first post of a document.
LEMMA FetchesNew ==
    ASSUME NEW li, NEW P, NEW nd, NEW b, Stored(li, P, nd, b), NEW i \in 1..Len(P), NewDoc(P, i),
           NEW k, k = i - 1, NEW s, Stands(s, li, P, nd, b, k), PostEnd(P, b, k) < li.size
    PROVE  IF PostEnd(P, b, i) <= li.size
           THEN Stands(advance(s), li, P, nd, b, i) /\ advance(s).out = P[i]
           ELSE advance(s).over
<1>1. ArePosts(P) /\ AreCarried(P) /\ li.size \in Nat /\ Apart(li.region)
  BY DEF Stored
<1>2. Len(P) \in Nat /\ i \in Nat /\ k + 1 = i /\ k \in 0..(Len(P) - 1) /\ k \in 0..Len(P) /\ k \in Nat
  BY <1>1, PostsAre
<1>3. PICK at, l, g, n : /\ at = PostEnd(P, b, k) /\ l = LocDelta(P, i) /\ n = Len(P)
                         /\ g = P[i].doc - LastDoc(P, i)
  OBVIOUS
<1>4. at \in Nat /\ PostEnd(P, b, i) = at + PostSize(P, i) /\ PostSize(P, i) \in Nat \ {0}
  BY <1>2, <1>3, PostEndsRise
<1>5. /\ l \in Nat \ {0} /\ g \in Nat \ {0} /\ LastDoc(P, i) \in Nat
      /\ P[i].loc = l /\ P[i].doc \in Nat
      /\ P[i] = [doc |-> P[i].doc, loc |-> P[i].loc]
  BY <1>1, <1>3, GapsAre, PostsAre
<1>6. PICK d, m : d = (IF k = 0 THEN 0 ELSE P[k].doc) /\ m = (IF k = 0 THEN 0 ELSE P[k].loc)
  OBVIOUS
<1>7. d = LastDoc(P, i) /\ d \in Nat /\ m \in Nat
  <2>1. CASE k = 0
    <3>1. i = 1
      BY <1>2, <2>1
    <3> QED  BY <1>6, <2>1, <3>1 DEF LastDoc
  <2>2. CASE k # 0
    <3>1. i # 1 /\ k \in 1..Len(P)
      BY <1>2, <2>2
    <3>2. P[k].loc \in Nat
      BY <1>1, <3>1, PostsAre
    <3> QED  BY <1>5, <1>6, <2>2, <3>1, <3>2 DEF LastDoc
  <2> QED  BY <2>1, <2>2
<1>8. Cursor(s, li, at, n, nd, k, d, m)
  BY <1>3, <1>6 DEF Stands
<1>9. s.size = li.size /\ s.region = li.region
  BY <1>8 DEF Cursor
<1>10. PICK w \in Nat \ {0} : /\ NumberAt(li.region, at, 0, 1)
                              /\ NumberAt(li.region, at + 1, g, w)
                              /\ NumberAt(li.region, at + 1 + w, l, PostSize(P, i) - (1 + w))
  <2>1. PostAt(li.region, P, i, PostEnd(P, b, k))
    BY DEF Stored, ListAt, PostEnd
  <2> QED  BY <1>3, <2>1 DEF PostAt
<1>11. PICK v : v = PostSize(P, i) - (1 + w)
  OBVIOUS
<1>12. v \in Nat \ {0} /\ PostEnd(P, b, i) = at + 1 + w + v
  <2>1. v \in Nat \ {0}
    BY <1>10, <1>11 DEF NumberAt
  <2> QED  BY <1>4, <1>11, <2>1
<1>13. InRegion(s, at) /\ ReadAt(s, at) = 0 /\ After(s, at) = at + 1
  <2>1. at + 1 <= s.size
    BY <1>1, <1>3, <1>4, <1>9
  <2> QED  BY <1>1, <1>4, <1>9, <1>10, <2>1, NumberRead
<1>14. k # n /\ n \in Nat /\ at < li.size
  BY <1>2, <1>3
<1>15. PICK second, third : second = at + 1 /\ third = After(s, second)
  OBVIOUS
<1>16. second \in Nat /\ second = After(s, at)
  BY <1>4, <1>13, <1>15
<1>17. /\ InRegion(s, third) =>
            /\ Cursor(advance(s), li, After(s, third), n, nd, k + 1, d + ReadAt(s, second), ReadAt(s, third))
            /\ advance(s).out = [doc |-> d + ReadAt(s, second), loc |-> ReadAt(s, third)]
       /\ ~InRegion(s, third) => advance(s).over
  BY <1>1, <1>2, <1>4, <1>7, <1>8, <1>13, <1>14, <1>15, <1>16, DecodesNext
<1>18. NumberAt(s.region, second, g, w)
  BY <1>9, <1>10, <1>15
<1>19. CASE second + w <= s.size
  <2>1. ReadAt(s, second) = g /\ third = second + w
    BY <1>1, <1>9, <1>15, <1>16, <1>18, <1>19, NumberRead
  <2>2. third \in Nat /\ NumberAt(s.region, third, l, v) /\ PostEnd(P, b, i) = third + v
    <3>1. third = at + 1 + w /\ third \in Nat
      BY <1>4, <1>15, <2>1
    <3> QED  BY <1>9, <1>10, <1>11, <1>12, <3>1
  <2>3. CASE third + v <= s.size
    <3>1. InRegion(s, third) /\ ReadAt(s, third) = l /\ After(s, third) = third + v
      BY <1>1, <1>9, <2>2, <2>3, NumberRead
    <3>2. /\ Cursor(advance(s), li, third + v, n, nd, k + 1, d + g, l)
          /\ advance(s).out = [doc |-> d + g, loc |-> l]
      BY <1>17, <2>1, <3>1
    <3>3. d + g = P[i].doc /\ l = P[i].loc
      BY <1>3, <1>5, <1>7
    <3>4. advance(s).out = P[i]
      BY <1>5, <3>2, <3>3
    <3>5. Cursor(advance(s), li, PostEnd(P, b, i), n, nd, i, P[i].doc, P[i].loc)
      BY <1>2, <2>2, <3>2, <3>3
    <3>6. i # 0
      BY <1>2
    <3>7. Stands(advance(s), li, P, nd, b, i)
      BY <1>3, <3>5, <3>6 DEF Stands
    <3>8. PostEnd(P, b, i) <= li.size
      BY <1>9, <2>2, <2>3
    <3> QED  BY <3>4, <3>7, <3>8
  <2>4. CASE ~(third + v <= s.size)
    <3>1. ~InRegion(s, third)
      BY <1>1, <1>9, <2>2, <2>4, NumberRead
    <3>2. ~(PostEnd(P, b, i) <= li.size)
      BY <1>9, <2>2, <2>4
    <3> QED  BY <1>17, <3>1, <3>2
  <2> QED  BY <2>3, <2>4
<1>20. CASE ~(second + w <= s.size)
  <2>1. third = second + 1
    BY <1>1, <1>9, <1>15, <1>16, <1>18, <1>20, NumberRead
  <2>2. ~InRegion(s, third)
    <3> SUFFICES ASSUME third \in DOMAIN s.region, third + s.region[third].w <= s.size PROVE FALSE
      BY DEF InRegion
    <3>1. second \in DOMAIN s.region /\ s.region[second].w = w
      BY <1>18 DEF NumberAt
    <3>2. second < third
      BY <1>16, <2>1
    <3>3. second + w <= third
      BY <1>1, <1>9, <3>1, <3>2 DEF Apart
    <3>4. s.region[third].w \in Nat
      BY <1>1, <1>9 DEF Apart
    <3> QED  BY <1>1, <1>9, <1>16, <1>20, <2>1, <3>3, <3>4
  <2>3. ~(PostEnd(P, b, i) <= li.size)
    BY <1>1, <1>4, <1>9, <1>12, <1>15, <1>20
  <2> QED  BY <1>17, <2>2, <2>3
<1> QED  BY <1>19, <1>20

\* One call of advance: the next post if it is whole, the end where the region
\* ends with a post, and otherwise a read past the end.
LEMMA Fetches ==
    ASSUME NEW li, NEW P, NEW nd, NEW b, Stored(li, P, nd, b), NEW k \in 0..Len(P),
           NEW s, Stands(s, li, P, nd, b, k)
    PROVE  IF k < Len(P) /\ PostEnd(P, b, k + 1) <= li.size
           THEN Stands(advance(s), li, P, nd, b, k + 1) /\ advance(s).out = P[k + 1]
           ELSE IF k = Len(P) \/ li.size <= PostEnd(P, b, k)
           THEN advance(s).out = NoPost /\ ~advance(s).over /\ advance(s).n_docs = nd
           ELSE advance(s).over
<1>1. li.size \in Nat /\ Len(P) \in Nat /\ PostEnd(P, b, k) \in Nat
  BY PostEndsRise DEF Stored
<1>2. /\ DOMAIN s = Fields
      /\ s.at = PostEnd(P, b, k) /\ s.size = li.size /\ s.n_posts = Len(P) /\ s.n_docs = nd
      /\ s.posts_consumed = k /\ ~s.has_pending /\ ~s.over
  BY DEF Stands, Cursor
<1>3. CASE k = Len(P)
  <2>1. advance(s) = [s EXCEPT !.out = NoPost]
    BY <1>2, <1>3 DEF advance, advance_base
  <2> QED  BY <1>1, <1>2, <1>3, <2>1 DEF Fields
<1>4. CASE k # Len(P) /\ li.size <= PostEnd(P, b, k)
  <2>1. advance(s) = [s EXCEPT !.posts_consumed = s.n_posts, !.out = NoPost]
    <3>1. WalkedOff(s)
      BY <1>1, <1>2, <1>4 DEF WalkedOff
    <3> QED  BY <1>2, <1>4, <3>1 DEF advance, advance_base
  <2>2. advance(s).out = NoPost /\ ~advance(s).over /\ advance(s).n_docs = nd
    BY <1>2, <2>1 DEF Fields
  <2>3. k < Len(P) => ~(PostEnd(P, b, k + 1) <= li.size)
    <3> SUFFICES ASSUME k < Len(P) PROVE ~(PostEnd(P, b, k + 1) <= li.size)
      OBVIOUS
    <3>1. k \in 0..(Len(P) - 1)
      BY <1>1
    <3>2. PostEnd(P, b, k + 1) = PostEnd(P, b, k) + PostSize(P, k + 1) /\ PostSize(P, k + 1) \in Nat \ {0}
      BY <3>1, PostEndsRise
    <3> QED  BY <1>1, <1>4, <3>2
  <2> QED  BY <1>4, <2>2, <2>3
<1>5. CASE k # Len(P) /\ ~(li.size <= PostEnd(P, b, k))
  <2>1. PICK i : i = k + 1
    OBVIOUS
  <2>2. i \in 1..Len(P) /\ k = i - 1 /\ k < Len(P)
    BY <1>1, <1>5, <2>1
  <2>3. PostEnd(P, b, k) < li.size
    BY <1>1, <1>5
  <2>4. IF PostEnd(P, b, i) <= li.size
        THEN Stands(advance(s), li, P, nd, b, i) /\ advance(s).out = P[i]
        ELSE advance(s).over
    BY <2>2, <2>3, FetchesSame, FetchesNew
  <2> QED  BY <1>5, <2>1, <2>2, <2>4
<1> QED  BY <1>3, <1>4, <1>5

-----------------------------------------------------------------------------
(* Reading a whole list                                                     *)

\* One turn of the walk of ReadAll.
Taken(t) ==
    IF t.ended THEN t
    ELSE LET post == advance(t.reader)
         IN  IF post.out.doc = 0 \/ post.over THEN [ t EXCEPT !.reader = post, !.ended = TRUE ]
             ELSE [ t EXCEPT !.reader = post, !.posts = Append(@, post.out) ]

NoneRead(s) == [ reader |-> s, ended |-> FALSE, posts |-> << >> ]

\* g is the recursive function of ReadAll, of m turns.
ReadEq(g, s, m) == g = [k \in 0..m |-> IF k = 0 THEN NoneRead(s) ELSE Taken(g[k - 1])]

ReadTurns(s, m) == CHOOSE g : ReadEq(g, s, m)

LEMMA ReadAllUnfolds ==
    ASSUME NEW s
    PROVE  ReadAll(s) = ReadTurns(s, s.n_posts + 1)[s.n_posts + 1]
BY DEF ReadAll, With, ReadTurns, ReadEq, Taken, NoneRead

LEMMA ReadTurnsExist ==
    ASSUME NEW s, NEW m \in Nat
    PROVE  ReadEq(ReadTurns(s, m), s, m)
<1> DEFINE Missing == {k \in Nat : ~ \E g : ReadEq(g, s, k)}
<1>1. Missing = {}
  <2> SUFFICES ASSUME Missing # {} PROVE FALSE
    OBVIOUS
  <2>1. PICK k \in Missing : \A j \in Missing : k <= j
    <3>1. Missing \in SUBSET Nat
      OBVIOUS
    <3> HIDE DEF Missing
    <3> QED  BY <3>1, LeastNumber
  <2>2. k \in Nat /\ ~ \E g : ReadEq(g, s, k)
    OBVIOUS
  <2>3. CASE k = 0
    <3> DEFINE h == [i \in 0..0 |-> NoneRead(s)]
    <3>1. ReadEq(h, s, 0)
      BY DEF ReadEq
    <3> QED  BY <2>2, <2>3, <3>1
  <2>4. CASE k # 0
    <3>1. k - 1 \in Nat /\ k - 1 \notin Missing
      BY <2>1, <2>2, <2>4
    <3>2. PICK g : ReadEq(g, s, k - 1)
      BY <3>1
    <3> DEFINE last == Taken(g[k - 1])
               h == [i \in 0..k |-> IF i = k THEN last ELSE g[i]]
    <3>3. \A i \in 0..(k - 1) : h[i] = g[i]
      BY <2>2
    <3>4. h[k] = last
      BY <2>2
    <3>5. \A i \in 0..(k - 1) : g[i] = IF i = 0 THEN NoneRead(s) ELSE Taken(g[i - 1])
      BY <3>2 DEF ReadEq
    <3>6. h = [i \in 0..k |-> h[i]]
      OBVIOUS
    <3>7. k - 1 \in 0..(k - 1)
      BY <2>2, <2>4
    <3>8. h[k - 1] = g[k - 1]
      BY <3>3, <3>7
    <3> HIDE DEF h
    <3>9. ASSUME NEW i \in 0..k
          PROVE  h[i] = IF i = 0 THEN NoneRead(s) ELSE Taken(h[i - 1])
      <4>1. CASE i = k
        BY <2>4, <3>4, <3>8, <4>1
      <4>2. CASE i # k
        <5>1. i \in 0..(k - 1)
          BY <2>2, <4>2
        <5>2. i # 0 => i - 1 \in 0..(k - 1)
          BY <2>2, <5>1
        <5>3. i # 0 => h[i - 1] = g[i - 1]
          BY <3>3, <5>2
        <5>4. h[i] = g[i]
          BY <3>3, <5>1
        <5> QED  BY <3>5, <5>1, <5>3, <5>4
      <4> QED  BY <4>1, <4>2
    <3>10. ReadEq(h, s, k)
      BY <3>6, <3>9 DEF ReadEq
    <3> QED  BY <2>2, <3>10
  <2> QED  BY <2>3, <2>4
<1>2. \E g : ReadEq(g, s, m)
  BY <1>1
<1> QED  BY <1>2 DEF ReadTurns

\* m posts fit in the region, and no more.
Fit(li, P, b, m) ==
    /\ m \in 0..Len(P)
    /\ \A k \in 0..(m - 1) : PostEnd(P, b, k + 1) <= li.size
    /\ m = Len(P) \/ ~(PostEnd(P, b, m + 1) <= li.size)

\* The walk has read k posts and goes on, or has ended after m.
Underway(t, li, P, nd, b, k) ==
    /\ DOMAIN t = {"reader", "ended", "posts"} /\ ~t.ended
    /\ Stands(t.reader, li, P, nd, b, k)
    /\ t.posts = SubSeq(P, 1, k)

Finished(t, li, P, nd, b, m) ==
    /\ t.ended
    /\ t.posts = SubSeq(P, 1, m)
    /\ m = Len(P) \/ li.size <= PostEnd(P, b, m) => ~t.reader.over /\ t.reader.n_docs = nd

LEMMA SomeFit ==
    ASSUME NEW li, NEW P, NEW nd, NEW b, Stored(li, P, nd, b)
    PROVE  \E m : Fit(li, P, b, m)
<1>1. Len(P) \in Nat
  BY PostEndsRise
<1> DEFINE B == {k \in 0..Len(P) : k = Len(P) \/ ~(PostEnd(P, b, k + 1) <= li.size)}
<1>2. PICK m \in B : \A j \in B : m <= j
  <2>1. B \in SUBSET Nat /\ Len(P) \in B
    BY <1>1
  <2> HIDE DEF B
  <2> QED  BY <2>1, LeastNumber
<1>3. ASSUME NEW k \in 0..(m - 1)
      PROVE  PostEnd(P, b, k + 1) <= li.size
  <2>1. k \in 0..Len(P) /\ ~(m <= k)
    BY <1>1
  <2>2. k \notin B
    BY <1>2, <2>1
  <2> QED  BY <2>1, <2>2
<1>4. m \in 0..Len(P) /\ (m = Len(P) \/ ~(PostEnd(P, b, m + 1) <= li.size))
  OBVIOUS
<1>5. Fit(li, P, b, m)
  BY <1>3, <1>4 DEF Fit
<1> QED  BY <1>5

LEMMA OneMore ==
    ASSUME NEW S, NEW P \in Seq(S), NEW k \in 0..(Len(P) - 1)
    PROVE  SubSeq(P, 1, k + 1) = Append(SubSeq(P, 1, k), P[k + 1])
<1>1. PICK n : n = k + 1
  OBVIOUS
<1>2. 1 \in 1..Len(P) /\ n \in 1..Len(P) /\ n - 1 = k
  BY <1>1
<1>3. SubSeq(P, 1, n) = SubSeq(P, 1, n - 1) \o <<P[n]>>
  BY <1>2, SubSeqRecursiveSecond
<1>4. SubSeq(P, 1, k) \in Seq(S) /\ P[n] \in S
  <2>1. k \in Int /\ 1 \in Int /\ \A i \in 1..k : P[i] \in S
    OBVIOUS
  <2>2. SubSeq(P, 1, k) \in Seq(S)
    BY <2>1, SubSeqProperties
  <2> QED  BY <1>2, <2>2
<1>5. SubSeq(P, 1, k) \o <<P[n]>> = Append(SubSeq(P, 1, k), P[n])
  BY <1>4
<1> QED  BY <1>1, <1>2, <1>3, <1>5

LEMMA TakesNext ==
    ASSUME NEW li, NEW P, NEW nd, NEW b, Stored(li, P, nd, b), NEW m, Fit(li, P, b, m),
           NEW k \in 0..m, NEW t, Underway(t, li, P, nd, b, k)
    PROVE  /\ k < m => Underway(Taken(t), li, P, nd, b, k + 1)
           /\ k = m => Finished(Taken(t), li, P, nd, b, m)
<1>1. Len(P) \in Nat /\ m \in 0..Len(P) /\ ArePosts(P)
  BY PostEndsRise DEF Fit, Stored
<1>2. PICK s, post : s = t.reader /\ post = advance(s)
  OBVIOUS
<1>3. k \in 0..Len(P) /\ Stands(s, li, P, nd, b, k)
  BY <1>1, <1>2 DEF Underway
<1>4. Taken(t) = IF post.out.doc = 0 \/ post.over THEN [ t EXCEPT !.reader = post, !.ended = TRUE ]
                 ELSE [ t EXCEPT !.reader = post, !.posts = Append(@, post.out) ]
  BY <1>2 DEF Taken, Underway
<1>5. CASE k < m
  <2>1. k \in 0..(m - 1) /\ k < Len(P) /\ k + 1 \in 1..Len(P) /\ k \in 0..(Len(P) - 1)
    BY <1>1, <1>5
  <2>2. PostEnd(P, b, k + 1) <= li.size
    BY <2>1 DEF Fit
  <2>3. Stands(post, li, P, nd, b, k + 1) /\ post.out = P[k + 1]
    BY <1>2, <1>3, <2>1, <2>2, Fetches
  <2>4. post.out.doc # 0
    <3>1. PICK i : i = k + 1
      OBVIOUS
    <3>2. P[i].doc \in Nat \ {0}
      BY <1>1, <2>1, <3>1, PostsAre
    <3> QED  BY <2>3, <3>1, <3>2
  <2>5. ~post.over
    BY <2>3 DEF Stands, Cursor
  <2>6. Taken(t) = [ t EXCEPT !.reader = post, !.posts = Append(@, post.out) ]
    BY <1>4, <2>4, <2>5
  <2>7. SubSeq(P, 1, k + 1) = Append(SubSeq(P, 1, k), P[k + 1])
    BY <1>1, <2>1, OneMore DEF ArePosts
  <2>8. /\ DOMAIN Taken(t) = {"reader", "ended", "posts"} /\ ~Taken(t).ended
        /\ Taken(t).reader = post /\ Taken(t).posts = Append(t.posts, post.out)
    BY <2>6 DEF Underway
  <2>9. Underway(Taken(t), li, P, nd, b, k + 1)
    BY <2>3, <2>7, <2>8 DEF Underway
  <2> QED  BY <1>5, <2>9
<1>6. CASE k = m
  <2>1. k < Len(P) => ~(PostEnd(P, b, k + 1) <= li.size)
    BY <1>1, <1>6 DEF Fit
  <2>2. IF k = Len(P) \/ li.size <= PostEnd(P, b, k)
        THEN post.out = NoPost /\ ~post.over /\ post.n_docs = nd
        ELSE post.over
    BY <1>2, <1>3, <2>1, Fetches
  <2>3. post.out.doc = 0 \/ post.over
    BY <2>2 DEF NoPost
  <2>4. Taken(t) = [ t EXCEPT !.reader = post, !.ended = TRUE ]
    BY <1>4, <2>3
  <2>5. Taken(t).ended /\ Taken(t).reader = post /\ Taken(t).posts = t.posts
    BY <2>4 DEF Underway
  <2>6. Finished(Taken(t), li, P, nd, b, m)
    BY <1>6, <2>2, <2>5 DEF Finished, Underway
  <2> QED  BY <1>6, <2>6
<1> QED  BY <1>5, <1>6

LEMMA FinishedStays ==
    ASSUME NEW li, NEW P, NEW nd, NEW b, NEW m, NEW t, Finished(t, li, P, nd, b, m)
    PROVE  Taken(t) = t
BY DEF Taken, Finished

LEMMA ReadsList ==
    ASSUME NEW li, NEW P, NEW nd, NEW b, Stored(li, P, nd, b), NEW m, Fit(li, P, b, m),
           NEW s, Stands(s, li, P, nd, b, 0)
    PROVE  Finished(ReadAll(s), li, P, nd, b, m)
<1>1. PICK n, g : n = Len(P) + 1 /\ g = ReadTurns(s, n)
  OBVIOUS
<1>2. Len(P) \in Nat /\ n \in Nat /\ m \in 0..Len(P) /\ ArePosts(P)
  BY <1>1, PostEndsRise DEF Fit, Stored
<1>3. g = [k \in 0..n |-> IF k = 0 THEN NoneRead(s) ELSE Taken(g[k - 1])]
  <2>1. ReadEq(g, s, n)
    BY <1>1, <1>2, ReadTurnsExist
  <2> QED  BY <2>1 DEF ReadEq
<1>4. g[0] = NoneRead(s)
  <2>1. 0 \in 0..n
    BY <1>2
  <2> QED  BY <1>3, <2>1
<1>5. \A k \in 0..(n - 1) : g[k + 1] = Taken(g[k])
  <2> SUFFICES ASSUME NEW k \in 0..(n - 1) PROVE g[k + 1] = Taken(g[k])
    OBVIOUS
  <2>1. k + 1 \in 0..n /\ k + 1 # 0 /\ (k + 1) - 1 = k
    BY <1>2
  <2> QED  BY <1>3, <2>1
<1>6. Underway(g[0], li, P, nd, b, 0)
  <2>1. /\ DOMAIN NoneRead(s) = {"reader", "ended", "posts"} /\ ~NoneRead(s).ended
        /\ NoneRead(s).reader = s /\ NoneRead(s).posts = << >>
    BY DEF NoneRead
  <2>2. SubSeq(P, 1, 0) = << >>
    BY SubSeqEmpty
  <2> QED  BY <1>4, <2>1, <2>2 DEF Underway
<1> DEFINE Good(k) == IF k <= m THEN Underway(g[k], li, P, nd, b, k) ELSE Finished(g[k], li, P, nd, b, m)
           B == {k \in 0..n : ~Good(k)}
<1>7. B = {}
  <2> SUFFICES ASSUME B # {} PROVE FALSE
    OBVIOUS
  <2>1. PICK k \in B : \A j \in B : k <= j
    <3>1. B \in SUBSET Nat
      OBVIOUS
    <3> HIDE DEF B
    <3> QED  BY <3>1, LeastNumber
  <2>2. k \in 0..n /\ ~Good(k)
    OBVIOUS
  <2>3. k # 0
    BY <1>2, <1>6, <2>2
  <2>4. PICK h : h = k - 1
    OBVIOUS
  <2>5. h \in 0..(n - 1) /\ h \in 0..n /\ h \in Nat /\ ~(k <= h) /\ h + 1 = k
    BY <1>2, <2>2, <2>3, <2>4
  <2>6. Good(h) /\ g[k] = Taken(g[h])
    BY <1>5, <2>1, <2>5
  <2>7. CASE h < m
    <3>1. Underway(g[h], li, P, nd, b, h) /\ h \in 0..m /\ k <= m
      BY <1>2, <2>5, <2>6, <2>7
    <3>2. Underway(g[k], li, P, nd, b, k)
      BY <2>5, <2>6, <2>7, <3>1, TakesNext
    <3> QED  BY <2>2, <3>1, <3>2
  <2>8. CASE h = m
    <3>1. Underway(g[h], li, P, nd, b, h) /\ h \in 0..m /\ ~(k <= m)
      BY <1>2, <2>5, <2>6, <2>8
    <3>2. Finished(g[k], li, P, nd, b, m)
      BY <2>5, <2>6, <2>8, <3>1, TakesNext
    <3> QED  BY <2>2, <3>1, <3>2
  <2>9. CASE ~(h <= m)
    <3>1. Finished(g[h], li, P, nd, b, m) /\ ~(k <= m)
      BY <1>2, <2>5, <2>6, <2>9
    <3>2. Finished(g[k], li, P, nd, b, m)
      BY <2>6, <3>1, FinishedStays
    <3> QED  BY <2>2, <3>1, <3>2
  <2> QED  BY <1>2, <2>5, <2>7, <2>8, <2>9
<1>8. Finished(g[n], li, P, nd, b, m)
  <2>1. n \in 0..n /\ ~(n <= m)
    BY <1>1, <1>2
  <2> QED  BY <1>7, <2>1
<1>9. ReadAll(s) = g[n]
  <2>1. s.n_posts + 1 = n
    BY <1>1 DEF Stands, Cursor
  <2> QED  BY <1>1, <2>1, ReadAllUnfolds
<1> QED  BY <1>8, <1>9

LEMMA PostEndsApart ==
    ASSUME NEW li, NEW P, NEW nd, NEW b, Stored(li, P, nd, b), NEW i \in 0..Len(P), NEW j \in 0..Len(P), i < j
    PROVE  /\ PostEnd(P, b, i) \in Nat /\ PostEnd(P, b, j) \in Nat
           /\ PostEnd(P, b, i) < PostEnd(P, b, j)
<1>1. ArePosts(P) /\ AreCarried(P) /\ b \in Nat
  BY DEF Stored, ListAt
<1>2. PICK f, n : f = Sizes(P) /\ n = Len(P)
  OBVIOUS
<1>3. /\ n \in Nat /\ f \in [1..n -> Nat]
      /\ \A k \in 1..n : f[k] \in Nat \ {0}
      /\ \A k \in 0..n : Written(f, k) \in Nat
  BY <1>1, <1>2, SizesAre
<1>4. Written(f, i) + f[i + 1] <= Written(f, j)
  BY <1>2, <1>3, WrittenRises
<1>5. i + 1 \in 1..n
  BY <1>2, <1>3
<1>6. f[i + 1] \in Nat \ {0} /\ Written(f, i) \in Nat /\ Written(f, j) \in Nat
  BY <1>2, <1>3, <1>5
<1>7. PostEnd(P, b, i) = b + 14 + Written(f, i) /\ PostEnd(P, b, j) = b + 14 + Written(f, j)
  BY <1>2 DEF PostEnd, HeaderSize
<1> QED  BY <1>1, <1>4, <1>6, <1>7

\* A list takes at least a byte for each post.
LEMMA ListsAreLong ==
    ASSUME NEW li, NEW P, NEW nd, NEW b, Stored(li, P, nd, b)
    PROVE  /\ Len(P) \in Nat /\ b \in Nat
           /\ PostEnd(P, b, 0) = b + HeaderSize
           /\ PostEnd(P, b, Len(P)) = b + ListSize(P) - 1
           /\ b + HeaderSize + Len(P) <= PostEnd(P, b, Len(P))
<1>1. ArePosts(P) /\ AreCarried(P) /\ b \in Nat
  BY DEF Stored, ListAt
<1>2. PICK f, n : f = Sizes(P) /\ n = Len(P)
  OBVIOUS
<1>3. /\ n \in Nat /\ f \in [1..n -> Nat]
      /\ \A i \in 1..n : f[i] \in Nat \ {0}
      /\ \A i \in 0..n : Written(f, i) \in Nat
      /\ ListSize(P) = HeaderSize + Written(f, n) + 1
  BY <1>1, <1>2, SizesAre
<1>4. /\ Written(f, 0) = 0
      /\ \A k \in 0..(n - 1) : Written(f, k + 1) = Written(f, k) + f[k + 1]
  BY <1>3, WrittenSteps
<1> DEFINE B == {k \in 0..n : ~(k <= Written(f, k))}
<1>5. B = {}
  <2> SUFFICES ASSUME B # {} PROVE FALSE
    OBVIOUS
  <2>1. PICK k \in B : \A j \in B : k <= j
    <3>1. B \in SUBSET Nat
      OBVIOUS
    <3> HIDE DEF B
    <3> QED  BY <3>1, LeastNumber
  <2>2. k \in 0..n /\ ~(k <= Written(f, k)) /\ k # 0
    BY <1>4
  <2>3. PICK h : h = k - 1
    OBVIOUS
  <2>4. h \in 0..(n - 1) /\ h \in 0..n /\ ~(k <= h) /\ k = h + 1 /\ h + 1 \in 1..n
    BY <1>3, <2>2, <2>3
  <2>5. h <= Written(f, h)
    BY <2>1, <2>4
  <2>6. /\ Written(f, k) = Written(f, h) + f[h + 1]
        /\ f[h + 1] \in Nat \ {0} /\ Written(f, h) \in Nat
    BY <1>3, <1>4, <2>4
  <2> QED  BY <2>2, <2>4, <2>5, <2>6
<1>6. n \in 0..n /\ Written(f, n) \in Nat
  BY <1>3
<1>7. n <= Written(f, n)
  BY <1>5, <1>6
<1>8. PostEnd(P, b, 0) = b + 14 + Written(f, 0) /\ PostEnd(P, b, n) = b + 14 + Written(f, n)
  BY <1>2 DEF PostEnd, HeaderSize
<1>9. PostEnd(P, b, 0) = b + HeaderSize
  BY <1>1, <1>4, <1>8 DEF HeaderSize
<1>10. PostEnd(P, b, n) = b + ListSize(P) - 1 /\ b + HeaderSize + n <= PostEnd(P, b, n)
  BY <1>1, <1>3, <1>6, <1>7, <1>8 DEF HeaderSize
<1> QED  BY <1>1, <1>2, <1>3, <1>9, <1>10

LEMMA ClosedReadsNothing ==
    ASSUME NEW li
    PROVE  LET read == ReadAll(Closed(li))
           IN  read.posts = << >> /\ ~read.reader.over
<1>1. PICK s : s = Closed(li)
  OBVIOUS
<1>2. /\ DOMAIN s = Fields
      /\ s.n_posts = 0 /\ s.posts_consumed = 0 /\ ~s.has_pending /\ ~s.over
  BY <1>1 DEF Closed, Fields
<1>3. PICK g : g = ReadTurns(s, 1)
  OBVIOUS
<1>4. g = [k \in 0..1 |-> IF k = 0 THEN NoneRead(s) ELSE Taken(g[k - 1])]
  <2>1. ReadEq(g, s, 1)
    BY <1>3, ReadTurnsExist
  <2> QED  BY <2>1 DEF ReadEq
<1>5. g[0] = NoneRead(s) /\ g[1] = Taken(g[0])
  BY <1>4
<1>6. advance(s) = [s EXCEPT !.out = NoPost]
  BY <1>2 DEF advance, advance_base
<1>7. advance(s).out.doc = 0 /\ ~advance(s).over
  BY <1>2, <1>6 DEF NoPost, Fields
<1>8. PICK t : t = NoneRead(s)
  OBVIOUS
<1>9. t.reader = s /\ ~t.ended /\ t.posts = << >> /\ DOMAIN t = {"reader", "ended", "posts"}
  BY <1>8 DEF NoneRead
<1>10. Taken(t) = [t EXCEPT !.reader = advance(s), !.ended = TRUE]
  BY <1>7, <1>9 DEF Taken
<1>11. Taken(t).posts = << >> /\ Taken(t).reader = advance(s)
  BY <1>9, <1>10
<1>12. ReadAll(s) = g[1]
  <2>1. s.n_posts + 1 = 1
    BY <1>2
  <2> QED  BY <1>3, <2>1, ReadAllUnfolds
<1> QED  BY <1>1, <1>5, <1>7, <1>8, <1>11, <1>12

\* The constructor, on a list that is in the region.
LEMMA Opens ==
    ASSUME NEW li, NEW word, NEW k, k = lookup(li, word), k # 0,
           NEW b, b = li.dict[k].posting_offset, NEW P, NEW nd, Stored(li, P, nd, b)
    PROVE  IF b + HeaderSize + Len(P) <= li.size
           THEN Stands(IndexStreamReader(word, li), li, P, nd, b, 0)
           ELSE IndexStreamReader(word, li) = Closed(li)
<1>1. /\ b \in DOMAIN li.region /\ li.region[b].kind = "header" /\ li.region[b].v = <<Len(P), nd>>
      /\ li.size \in Nat
  BY DEF Stored, ListAt
<1>2. Len(P) \in Nat /\ b \in Nat /\ PostEnd(P, b, 0) = b + HeaderSize /\ HeaderSize = 14
  BY ListsAreLong DEF HeaderSize
<1>3. li.region[b].v[1] = Len(P) /\ li.region[b].v[2] = nd
  <2>1. PICK n : n = Len(P)
    OBVIOUS
  <2>2. <<n, nd>>[1] = n /\ <<n, nd>>[2] = nd
    OBVIOUS
  <2> QED  BY <1>1, <2>1, <2>2, Zenon
<1>4. PICK s : s = [ Closed(li) EXCEPT !.start = b, !.at = b + HeaderSize, !.n_posts = Len(P), !.n_docs = nd ]
  OBVIOUS
<1>5. IndexStreamReader(word, li) =
        IF b + HeaderSize > li.size THEN Closed(li)
        ELSE IF Len(P) > li.size - (b + HeaderSize) THEN Closed(li) ELSE s
  BY <1>1, <1>3, <1>4 DEF IndexStreamReader
<1>6. CASE b + HeaderSize + Len(P) <= li.size
  <2>1. ~(b + HeaderSize > li.size) /\ ~(Len(P) > li.size - (b + HeaderSize))
    <3>1. PICK z, n : z = li.size /\ n = Len(P)
      OBVIOUS
    <3>2. z \in Nat /\ n \in Nat /\ b \in Nat /\ b + 14 + n <= z
      BY <1>1, <1>2, <1>6, <3>1
    <3>3. ~(b + 14 > z) /\ ~(n > z - (b + 14))
      BY <3>2
    <3> QED  BY <1>2, <3>1, <3>3
  <2>2. IndexStreamReader(word, li) = s
    BY <1>5, <2>1
  <2>3. Cursor(s, li, b + HeaderSize, Len(P), nd, 0, 0, 0)
    BY <1>4 DEF Closed, Cursor, Fields
  <2>4. Stands(s, li, P, nd, b, 0)
    BY <1>2, <2>3 DEF Stands
  <2> QED  BY <1>6, <2>2, <2>4
<1>7. CASE ~(b + HeaderSize + Len(P) <= li.size)
  <2>1. b + HeaderSize > li.size \/ Len(P) > li.size - (b + HeaderSize)
    <3>1. PICK z, n : z = li.size /\ n = Len(P)
      OBVIOUS
    <3>2. z \in Nat /\ n \in Nat /\ b \in Nat /\ ~(b + 14 + n <= z)
      BY <1>1, <1>2, <1>7, <3>1
    <3>3. b + 14 > z \/ n > z - (b + 14)
      BY <3>2
    <3> QED  BY <1>2, <3>1, <3>3
  <2> QED  BY <1>5, <1>7, <2>1
<1> QED  BY <1>6, <1>7

WordRead(word, li) == ReadAll(IndexStreamReader(word, li))

EndsIn(P, b, size) == b + ListSize(P) <= size

\* A list that is whole is read whole.
LEMMA ReadsWhole ==
    ASSUME NEW li, NEW word, NEW k, k = lookup(li, word), k # 0,
           NEW b, b = li.dict[k].posting_offset, NEW P, NEW nd, Stored(li, P, nd, b),
           EndsIn(P, b, li.size)
    PROVE  /\ WordRead(word, li).posts = P
           /\ WordRead(word, li).reader.n_docs = nd
           /\ ~WordRead(word, li).reader.over
<1>1. /\ Len(P) \in Nat /\ b \in Nat
      /\ PostEnd(P, b, Len(P)) = b + ListSize(P) - 1
      /\ b + HeaderSize + Len(P) <= PostEnd(P, b, Len(P))
      /\ li.size \in Nat /\ HeaderSize = 14
  BY ListsAreLong DEF HeaderSize, Stored
<1>2. ListSize(P) \in Nat /\ b + ListSize(P) <= li.size
  BY SizesAre DEF Stored, EndsIn
<1>3. PICK s : s = IndexStreamReader(word, li)
  OBVIOUS
<1>4. Stands(s, li, P, nd, b, 0)
  <2>1. b + HeaderSize + Len(P) <= li.size
    <3>1. PICK z, e, h : z = li.size /\ e = PostEnd(P, b, Len(P)) /\ h = b + HeaderSize + Len(P)
      OBVIOUS
    <3>2. PICK l : l = ListSize(P)
      OBVIOUS
    <3>3. z \in Nat /\ b \in Nat /\ l \in Nat /\ e = b + l - 1 /\ h <= e /\ b + l <= z
      BY <1>1, <1>2, <3>1, <3>2
    <3>4. h \in Nat
      BY <1>1, <3>1
    <3> QED  BY <3>1, <3>3, <3>4
  <2> QED  BY <1>3, <2>1, Opens
<1>5. Fit(li, P, b, Len(P))
  <2>1. ASSUME NEW i \in 0..(Len(P) - 1)
        PROVE  PostEnd(P, b, i + 1) <= li.size
    <3>1. PICK j : j = i + 1
      OBVIOUS
    <3>2. j \in 0..Len(P) /\ Len(P) \in 0..Len(P)
      BY <1>1, <3>1
    <3>3. CASE j = Len(P)
      BY <1>1, <1>2, <3>1, <3>3
    <3>4. CASE j # Len(P)
      <4>1. j < Len(P)
        BY <1>1, <3>2, <3>4
      <4>2. PostEnd(P, b, j) \in Nat /\ PostEnd(P, b, j) < PostEnd(P, b, Len(P))
        BY <3>2, <4>1, PostEndsApart
      <4>3. PICK z, e, l, x : z = li.size /\ e = PostEnd(P, b, Len(P)) /\ l = ListSize(P) /\ x = PostEnd(P, b, j)
        OBVIOUS
      <4>4. z \in Nat /\ b \in Nat /\ l \in Nat /\ e = b + l - 1 /\ b + l <= z /\ x \in Nat /\ x < e
        BY <1>1, <1>2, <4>2, <4>3
      <4>5. x <= z
        BY <4>4
      <4> QED  BY <3>1, <4>3, <4>5
    <3> QED  BY <3>3, <3>4
  <2>2. Len(P) \in 0..Len(P)
    BY <1>1
  <2> QED  BY <2>1, <2>2 DEF Fit
<1>6. Finished(ReadAll(s), li, P, nd, b, Len(P))
  BY <1>4, <1>5, ReadsList
<1>7. SubSeq(P, 1, Len(P)) = P
  <2>1. PICK S : P \in Seq(S)
    BY DEF Stored, ArePosts
  <2> QED  BY <2>1, SubSeqFull
<1> QED  BY <1>3, <1>6, <1>7 DEF Finished, WordRead

\* What is read of P when the region ends anywhere: posts from its start, and
\* nothing beyond the end if that is where a post ends.
ReadsPrefix(read, P, b, size) ==
    /\ IsPrefix(read.posts, P)
    /\ read.reader.over => size \notin {PostEnd(P, b, n) : n \in 0..Len(P)}

LEMMA StartIsPrefix ==
    ASSUME NEW S, NEW P \in Seq(S), NEW m \in 0..Len(P)
    PROVE  IsPrefix(SubSeq(P, 1, m), P)
<1>1. m \in Int /\ 1 \in Int /\ \A i \in 1..m : P[i] \in S
  OBVIOUS
<1>2. PICK q : q = SubSeq(P, 1, m)
  OBVIOUS
<1>3. q \in Seq(S) /\ Len(q) = m
  BY <1>1, <1>2, SubSeqProperties
<1>4. SubSeq(q, 1, Len(q)) = q
  BY <1>3, SubSeqFull
<1>5. Len(q) <= Len(P) /\ SubSeq(q, 1, Len(q)) = SubSeq(P, 1, Len(q))
  BY <1>2, <1>3, <1>4
<1> QED  BY <1>2, <1>5 DEF IsPrefix

LEMMA NothingIsPrefix ==
    ASSUME NEW read, read.posts = << >>, ~read.reader.over, NEW P, ArePosts(P), NEW b, NEW size
    PROVE  ReadsPrefix(read, P, b, size)
<1>1. PICK S : P \in Seq(S)
  BY DEF ArePosts
<1>2. 0 \in 0..Len(P)
  BY <1>1
<1>3. IsPrefix(SubSeq(P, 1, 0), P)
  BY <1>1, <1>2, StartIsPrefix
<1>4. SubSeq(P, 1, 0) = << >>
  BY SubSeqEmpty
<1> QED  BY <1>3, <1>4 DEF ReadsPrefix

\* A list that may be cut yields a prefix.
LEMMA ReadsCut ==
    ASSUME NEW li, NEW word, NEW k, k = lookup(li, word), k # 0,
           NEW b, b = li.dict[k].posting_offset, NEW P, NEW nd, Stored(li, P, nd, b)
    PROVE  ReadsPrefix(WordRead(word, li), P, b, li.size)
<1>1. Len(P) \in Nat /\ ArePosts(P) /\ li.size \in Nat
  BY ListsAreLong DEF Stored
<1>2. PICK s : s = IndexStreamReader(word, li)
  OBVIOUS
<1>3. CASE b + HeaderSize + Len(P) <= li.size
  <2>1. Stands(s, li, P, nd, b, 0)
    BY <1>2, <1>3, Opens
  <2>2. PICK m : Fit(li, P, b, m)
    BY SomeFit
  <2>3. Finished(ReadAll(s), li, P, nd, b, m)
    BY <2>1, <2>2, ReadsList
  <2>4. m \in 0..Len(P)
    BY <2>2 DEF Fit
  <2>5. IsPrefix(SubSeq(P, 1, m), P)
    BY <1>1, <2>4, StartIsPrefix DEF ArePosts
  <2>6. ASSUME NEW n \in 0..Len(P), li.size = PostEnd(P, b, n)
        PROVE  ~ReadAll(s).reader.over
    <3>1. CASE m = Len(P) \/ li.size <= PostEnd(P, b, m)
      BY <2>3, <3>1 DEF Finished
    <3>2. CASE ~(m = Len(P) \/ li.size <= PostEnd(P, b, m))
      <4>1. m + 1 \in 0..Len(P) /\ ~(PostEnd(P, b, m + 1) <= li.size)
        BY <1>1, <2>2, <2>4, <3>2 DEF Fit
      <4>2. PICK h : h = m + 1
        OBVIOUS
      <4>3. CASE n < m
        <5>1. PostEnd(P, b, m) \in Nat /\ PostEnd(P, b, n) < PostEnd(P, b, m)
          BY <2>4, <4>3, PostEndsApart
        <5> QED  BY <1>1, <2>6, <3>2, <5>1
      <4>4. CASE n = m
        BY <1>1, <2>6, <3>2, <4>4
      <4>5. CASE n = h
        BY <1>1, <2>6, <4>1, <4>2, <4>5
      <4>6. CASE n > h
        <5>1. PostEnd(P, b, h) \in Nat /\ PostEnd(P, b, h) < PostEnd(P, b, n)
          BY <4>1, <4>2, <4>6, PostEndsApart
        <5> QED  BY <1>1, <2>6, <4>1, <4>2, <5>1
      <4> QED  BY <1>1, <2>4, <4>2, <4>3, <4>4, <4>5, <4>6
    <3> QED  BY <3>1, <3>2
  <2> QED  BY <1>2, <2>3, <2>5, <2>6 DEF ReadsPrefix, WordRead, Finished
<1>4. CASE ~(b + HeaderSize + Len(P) <= li.size)
  <2>1. s = Closed(li)
    BY <1>2, <1>4, Opens
  <2> QED  BY <1>1, <1>2, <2>1, ClosedReadsNothing, NothingIsPrefix DEF WordRead
<1> QED  BY <1>3, <1>4

-----------------------------------------------------------------------------
(* Reading a file back                                                      *)

\* The file has the sections that persist writes for idx.
Sections(file, idx) ==
    LET e     == sort_entries(idx)
        cells == FlattenSeq([i \in DOMAIN e |-> ListCells(idx[e[i]])])
    IN  /\ file.dict = [i \in DOMAIN e |-> [word |-> e[i], posting_offset |-> posting_list_locations(e, idx)[i]]]
        /\ file.region = LayOut(cells)
        /\ file.size = RegionSize(cells)

Slotted(idx) == {w \in DOMAIN idx : HasSlot(w)}

\* Every entry of the dictionary leads to the list of its word.
LeadsToLists(dict, region, size, idx, e, n) ==
    /\ Dictionary(e, Slotted(idx), n)
    /\ Len(dict) = n /\ DOMAIN dict = 1..n /\ dict = [i \in 1..n |-> dict[i]]
    /\ Apart(region) /\ size \in Nat
    /\ \A k \in 1..n :
          /\ dict[k].word = e[k]
          /\ ListAt(region, idx[e[k]].posts, idx[e[k]].n_docs, dict[k].posting_offset)
          /\ dict[k].posting_offset + ListSize(idx[e[k]].posts) <= size

LEMMA SectionsLead ==
    ASSUME NEW file, NEW idx, Sound(idx), Sections(file, idx)
    PROVE  \E e, n : LeadsToLists(file.dict, file.region, file.size, idx, e, n)
<1>1. PICK e : e = sort_entries(idx)
  OBVIOUS
<1>2. PICK n : Dictionary(e, Slotted(idx), n)
  BY <1>1, EntriesAreDictionary DEF Sound, Slotted
<1>3. n \in Nat /\ DOMAIN e = 1..n
  BY <1>2 DEF Dictionary
<1>4. PICK cells, at : /\ cells = FlattenSeq([i \in DOMAIN e |-> ListCells(idx[e[i]])])
                       /\ at = posting_list_locations(e, idx)
  OBVIOUS
<1>5. RegionHolds(LayOut(cells), RegionSize(cells), at, e, idx)
  BY <1>1, <1>4, ListsSit
<1>6. /\ file.dict = [i \in 1..n |-> [word |-> e[i], posting_offset |-> at[i]]]
      /\ file.region = LayOut(cells) /\ file.size = RegionSize(cells)
  BY <1>1, <1>3, <1>4 DEF Sections
<1>7. PICK d : d = file.dict
  OBVIOUS
<1>8. DOMAIN d = 1..n /\ \A k \in 1..n : d[k].word = e[k] /\ d[k].posting_offset = at[k]
  BY <1>6, <1>7
<1>9. Len(d) = n /\ d = [i \in 1..n |-> d[i]]
  <2>1. PICK T : T = {d[k] : k \in 1..n}
    OBVIOUS
  <2>2. d = [i \in 1..n |-> d[i]]
    BY <1>6, <1>7
  <2>3. d \in [1..n -> T]
    BY <2>1, <2>2
  <2> QED  BY <1>3, <2>2, <2>3, FunctionIsSeq
<1>10. ASSUME NEW k \in 1..n
       PROVE  /\ d[k].word = e[k]
              /\ ListAt(LayOut(cells), idx[e[k]].posts, idx[e[k]].n_docs, d[k].posting_offset)
              /\ d[k].posting_offset + ListSize(idx[e[k]].posts) <= RegionSize(cells)
  BY <1>3, <1>5, <1>8 DEF RegionHolds
<1>11. LeadsToLists(d, LayOut(cells), RegionSize(cells), idx, e, n)
  BY <1>2, <1>5, <1>8, <1>9, <1>10 DEF LeadsToLists, RegionHolds
<1> QED  BY <1>6, <1>7, <1>11

\* The place of a word in a dictionary that is loaded whole.
LEMMA WordFound ==
    ASSUME NEW li, NEW idx, Sound(idx), NEW region, NEW size, NEW e, NEW n,
           LeadsToLists(li.dict, region, size, idx, e, n), NEW t \in 1..n
    PROVE  lookup(li, e[t]) = t /\ t # 0
<1>1. PICK S : S = Slotted(idx)
  OBVIOUS
<1>2. Dictionary(e, S, n) /\ Len(li.dict) = n /\ \A i \in 1..n : li.dict[i].word = e[i]
  BY <1>1 DEF LeadsToLists
<1>3. \A w \in S : Plain(w)
  BY <1>1 DEF Sound, Slotted
<1>4. lookup(li, e[t]) = t
  <2>1. Searchable(li, S, n, e)
    BY <1>2, <1>3 DEF Searchable
  <2> QED  BY <2>1, LookupFinds
<1>5. n \in Nat
  BY <1>2 DEF Dictionary
<1> QED  BY <1>4, <1>5

LEMMA WordHasPlace ==
    ASSUME NEW idx, NEW dict, NEW region, NEW size, NEW e, NEW n,
           LeadsToLists(dict, region, size, idx, e, n), NEW w \in Slotted(idx)
    PROVE  \E t \in 1..n : e[t] = w
BY DEF LeadsToLists, Dictionary

\* The list of the t-th word, in a region of any size.
LEMMA ListStored ==
    ASSUME NEW li, NEW idx, Sound(idx), NEW dict, NEW size, NEW e, NEW n,
           LeadsToLists(dict, li.region, size, idx, e, n), NEW t \in 1..n, li.size \in Nat
    PROVE  Stored(li, idx[e[t]].posts, idx[e[t]].n_docs, dict[t].posting_offset)
<1>1. e[t] \in DOMAIN idx /\ HasSlot(e[t])
  BY DEF LeadsToLists, Dictionary, Slotted
<1>2. PICK x : x = idx[e[t]]
  OBVIOUS
<1>3. ArePosts(x.posts) /\ AreCarried(x.posts) /\ x.n_docs \in Nat
  BY <1>1, <1>2 DEF Sound
<1>4. Apart(li.region) /\ ListAt(li.region, x.posts, x.n_docs, dict[t].posting_offset)
  BY <1>2 DEF LeadsToLists
<1> QED  BY <1>2, <1>3, <1>4 DEF Stored

LEMMA WholeFileReadsBack ==
    ASSUME NEW file, NEW idx, Sound(idx), Sections(file, idx), file.cut.part = "whole", NEW w \in Slotted(idx)
    PROVE  LET read == WordRead(w, LoadedIndex(file))
           IN  /\ read.posts = idx[w].posts
               /\ read.reader.n_docs = idx[w].n_docs
               /\ ~read.reader.over
<1>1. PICK li : li = LoadedIndex(file)
  OBVIOUS
<1>2. li.dict = file.dict /\ li.region = file.region /\ li.size = file.size
  BY <1>1 DEF LoadedIndex
<1>3. PICK e, n : LeadsToLists(li.dict, li.region, li.size, idx, e, n)
  BY <1>2, SectionsLead
<1>4. PICK t \in 1..n : e[t] = w
  BY <1>3, WordHasPlace
<1>5. lookup(li, w) = t /\ t # 0
  <2>1. lookup(li, e[t]) = t /\ t # 0
    BY <1>3, WordFound
  <2> QED  BY <1>4, <2>1
<1>6. PICK b, P, nd : b = li.dict[t].posting_offset /\ P = idx[w].posts /\ nd = idx[w].n_docs
  OBVIOUS
<1>7. Stored(li, P, nd, b)
  <2>1. li.size \in Nat
    BY <1>3 DEF LeadsToLists
  <2> QED  BY <1>3, <1>4, <1>6, <2>1, ListStored
<1>8. EndsIn(P, b, li.size)
  BY <1>3, <1>4, <1>6 DEF LeadsToLists, EndsIn
<1>9. /\ WordRead(w, li).posts = P
      /\ WordRead(w, li).reader.n_docs = nd
      /\ ~WordRead(w, li).reader.over
  BY <1>5, <1>6, <1>7, <1>8, ReadsWhole
<1> QED  BY <1>1, <1>6, <1>9

\* Where a killed writer may have stopped.
IsCut(file) ==
    \/ file.cut.part \in {"urls", "toc"}
    \/ file.cut.part = "dict" /\ file.cut.at \in 0..Len(file.dict)
    \/ file.cut.part = "region" /\ file.cut.at \in Nat

\* Without a posting region no list is opened.
LEMMA NoRegionReadsNothing ==
    ASSUME NEW li, NEW word, li.size = 0, Len(li.dict) \in Nat,
           \A k \in 1..Len(li.dict) : li.dict[k].posting_offset \in Nat
    PROVE  WordRead(word, li).posts = << >> /\ ~WordRead(word, li).reader.over
<1>1. PICK k : k = lookup(li, word)
  OBVIOUS
<1>2. k \in 0..Len(li.dict)
  BY <1>1, LookupInside
<1>3. IndexStreamReader(word, li) = Closed(li)
  <2>1. CASE k = 0
    BY <1>1, <2>1 DEF IndexStreamReader
  <2>2. CASE k # 0
    <3>1. li.dict[k].posting_offset \in Nat
      BY <1>2, <2>2
    <3>2. li.dict[k].posting_offset + HeaderSize > li.size
      BY <3>1 DEF HeaderSize
    <3> QED  BY <1>1, <2>2, <3>2 DEF IndexStreamReader
  <2> QED  BY <2>1, <2>2
<1> QED  BY <1>3, ClosedReadsNothing DEF WordRead

LEMMA CutFileReadsPrefix ==
    ASSUME NEW file, NEW idx, Sound(idx), Sections(file, idx), IsCut(file), NEW w \in Slotted(idx),
           NEW t \in DOMAIN file.dict, file.dict[t].word = w
    PROVE  ReadsPrefix(WordRead(w, LoadedIndex(file)), idx[w].posts, file.dict[t].posting_offset,
                       LoadedIndex(file).size)
<1>1. PICK li : li = LoadedIndex(file)
  OBVIOUS
<1>2. PICK e, n : LeadsToLists(file.dict, file.region, file.size, idx, e, n)
  BY SectionsLead
<1>3. /\ t \in 1..n /\ e[t] = w /\ Len(file.dict) = n /\ n \in Nat /\ DOMAIN file.dict = 1..n
      /\ \A k \in 1..n : file.dict[k].posting_offset \in Nat
  BY <1>2 DEF LeadsToLists, Dictionary, ListAt
<1>4. li.region = file.region
  BY <1>1 DEF LoadedIndex
<1>5. PICK b, P, nd : b = file.dict[t].posting_offset /\ P = idx[w].posts /\ nd = idx[w].n_docs
  OBVIOUS
<1>6. li.size \in Nat => Stored(li, P, nd, b)
  BY <1>2, <1>3, <1>4, <1>5, ListStored
<1>7. CASE li.size = 0 /\ Len(li.dict) \in Nat /\ \A k \in 1..Len(li.dict) : li.dict[k].posting_offset \in Nat
  <2>1. WordRead(w, li).posts = << >> /\ ~WordRead(w, li).reader.over
    BY <1>7, NoRegionReadsNothing
  <2>2. ArePosts(P)
    BY <1>6, <1>7 DEF Stored
  <2> QED  BY <1>1, <1>5, <2>1, <2>2, NothingIsPrefix
<1>8. CASE li.dict = file.dict /\ li.size \in Nat
  <2>1. LeadsToLists(li.dict, file.region, file.size, idx, e, n)
    BY <1>2, <1>8
  <2>2. lookup(li, w) = t /\ t # 0
    <3>1. lookup(li, e[t]) = t /\ t # 0
      BY <1>3, <2>1, WordFound
    <3> QED  BY <1>3, <3>1
  <2>3. ReadsPrefix(WordRead(w, li), P, b, li.size)
    BY <1>5, <1>6, <1>8, <2>2, ReadsCut
  <2> QED  BY <1>1, <1>5, <2>3
<1>9. CASE file.cut.part \in {"urls", "toc"}
  <2>1. li.size = 0 /\ li.dict = << >>
    BY <1>1, <1>9 DEF LoadedIndex
  <2> QED  BY <1>7, <2>1
<1>10. CASE file.cut.part = "dict" /\ file.cut.at \in 0..Len(file.dict)
  <2>1. PICK m : m = file.cut.at
    OBVIOUS
  <2>2. li.size = 0 /\ li.dict = SubSeq(file.dict, 1, m) /\ m \in 0..n
    BY <1>1, <1>3, <1>10, <2>1 DEF LoadedIndex
  <2>3. PICK T : T = {file.dict[k] : k \in 1..n}
    OBVIOUS
  <2>4. m \in Int /\ 1 \in Int /\ \A k \in 1..m : file.dict[k] \in T
    BY <1>3, <2>2, <2>3
  <2>5. PICK q : q = SubSeq(file.dict, 1, m)
    OBVIOUS
  <2>6. q \in Seq(T) /\ Len(q) = m /\ \A k \in 1..m : q[k] = file.dict[k]
    <3>1. /\ q \in Seq(T)
          /\ Len(q) = IF 1 <= m THEN m - 1 + 1 ELSE 0
          /\ \A k \in 1..(m - 1 + 1) : q[k] = file.dict[1 + k - 1]
      BY <2>4, <2>5, SubSeqProperties
    <3>2. m \in Nat /\ m - 1 + 1 = m /\ Len(q) = m
      BY <1>3, <2>2, <3>1
    <3>3. \A k \in 1..m : 1 + k - 1 = k
      BY <3>2
    <3> QED  BY <3>1, <3>2, <3>3
  <2>7. \A k \in 1..m : q[k].posting_offset \in Nat
    <3>1. \A k \in 1..m : k \in 1..n
      BY <1>3, <2>2
    <3> QED  BY <1>3, <2>6, <3>1
  <2> QED  BY <1>7, <2>2, <2>5, <2>6, <2>7
<1>11. CASE file.cut.part = "region" /\ file.cut.at \in Nat
  <2>1. li.dict = file.dict /\ li.size = file.cut.at
    BY <1>1, <1>11 DEF LoadedIndex
  <2> QED  BY <1>8, <1>11, <2>1
<1> QED  BY <1>9, <1>10, <1>11 DEF IsCut

\* Sums along the dictionary are sums over its words.
LEMMA SumOverWords ==
    ASSUME NEW e, NEW S, NEW n, Dictionary(e, S, n), NEW G \in [S -> Nat]
    PROVE  Sum([k \in 1..n |-> G[e[k]]]) = SumFunctionOnSet(G, S)
<1>1. /\ n \in Nat /\ \A k \in 1..n : e[k] \in S
      /\ DOMAIN e = 1..n /\ InOrder(e) /\ S \in SUBSET Word
  BY DEF Dictionary
<1>2. \A i, j \in 1..n : i < j => e[i] # e[j]
  <2> SUFFICES ASSUME NEW i \in 1..n, NEW j \in 1..n, i < j PROVE e[i] # e[j]
    OBVIOUS
  <2>1. SortsBefore(e[i], e[j])
    BY <1>1 DEF InOrder
  <2>2. e[i] \in Word /\ e[j] \in Word
    BY <1>1
  <2> QED  BY <2>1, <2>2, BeforeIsStrict
<1>3. PICK f : f = [k \in 1..n |-> G[e[k]]]
  OBVIOUS
<1>4. f \in [1..n -> Nat] /\ \A k \in 1..n : f[k] = G[e[k]]
  BY <1>1, <1>3
<1>5. /\ Upto(f, 0) = 0
      /\ \A k \in 0..n : Upto(f, k) \in Nat
      /\ \A k \in 0..(n - 1) : Upto(f, k + 1) = Upto(f, k) + f[k + 1]
  BY <1>1, <1>4, UptoSteps
<1> DEFINE W(k) == {e[i] : i \in 1..k}
           B == {k \in 0..n : ~(IsFiniteSet(W(k)) /\ Upto(f, k) = SumFunctionOnSet(G, W(k)))}
<1>6. B = {}
  <2> SUFFICES ASSUME B # {} PROVE FALSE
    OBVIOUS
  <2>1. PICK k \in B : \A j \in B : k <= j
    <3>1. B \in SUBSET Nat
      BY <1>1
    <3> HIDE DEF B
    <3> QED  BY <3>1, LeastNumber
  <2>2. k \in 0..n
    OBVIOUS
  <2>3. CASE k = 0
    <3>1. W(0) = {}
      OBVIOUS
    <3>2. IsFiniteSet({}) /\ SumFunctionOnSet(G, {}) = 0
      BY FS_EmptySet, SumStep
    <3> HIDE DEF W
    <3> QED  BY <1>5, <2>3, <3>1, <3>2
  <2>4. CASE k # 0
    <3>1. PICK h : h = k - 1
      OBVIOUS
    <3>2. h \in 0..n /\ h \in 0..(n - 1) /\ k = h + 1 /\ ~(k <= h) /\ k \in 1..n
      BY <1>1, <2>2, <2>4, <3>1
    <3>3. IsFiniteSet(W(h)) /\ Upto(f, h) = SumFunctionOnSet(G, W(h))
      BY <2>1, <3>2
    <3>4. W(k) = W(h) \cup {e[k]}
      BY <3>2
    <3>5. e[k] \in S \ W(h) /\ W(h) \in SUBSET S
      BY <1>1, <1>2, <3>2
    <3>6. Upto(f, k) = Upto(f, h) + G[e[k]]
      BY <1>4, <1>5, <3>2
    <3> HIDE DEF W
    <3>7. SumFunctionOnSet(G, W(h) \cup {e[k]}) = SumFunctionOnSet(G, W(h)) + G[e[k]]
      BY <3>3, <3>5, SumGrows
    <3>8. IsFiniteSet(W(h) \cup {e[k]})
      BY <3>3, FS_AddElement
    <3> QED  BY <3>3, <3>4, <3>6, <3>7, <3>8
  <2> QED  BY <2>3, <2>4
<1>7. W(n) = S
  BY DEF Dictionary
<1>8. Upto(f, n) = SumFunctionOnSet(G, W(n))
  <2>1. n \in 0..n
    BY <1>1
  <2> QED  BY <1>6, <2>1
<1>9. Sum(f) = Upto(f, n)
  BY <1>1, <1>4, SumIsOverIndices DEF Upto
<1> HIDE DEF W
<1> QED  BY <1>3, <1>7, <1>8, <1>9

LEMMA CountsAllPosts ==
    ASSUME NEW file, NEW idx, Sound(idx), Sections(file, idx), file.cut.part = "whole"
    PROVE  total_words(LoadedIndex(file)) =
             SumFunctionOnSet([w \in Slotted(idx) |-> Len(idx[w].posts)], Slotted(idx))
<1>1. PICK li : li = LoadedIndex(file)
  OBVIOUS
<1>2. li.dict = file.dict /\ li.region = file.region /\ li.size = file.size
  BY <1>1 DEF LoadedIndex
<1>3. PICK e, n : LeadsToLists(li.dict, li.region, li.size, idx, e, n)
  BY <1>2, SectionsLead
<1>4. /\ Dictionary(e, Slotted(idx), n) /\ DOMAIN li.dict = 1..n /\ li.size \in Nat
      /\ \A t \in 1..n : li.dict[t].word = e[t]
  BY <1>3 DEF LeadsToLists
<1>5. PICK S : S = Slotted(idx)
  OBVIOUS
<1>6. PICK G : G = [w \in S |-> Len(idx[w].posts)]
  OBVIOUS
<1>7. \A w \in S : G[w] = Len(idx[w].posts) /\ G[w] \in Nat
  <2> SUFFICES ASSUME NEW w \in S PROVE Len(idx[w].posts) \in Nat
    BY <1>6
  <2>1. ArePosts(idx[w].posts)
    BY <1>5 DEF Sound, Slotted
  <2> QED  BY <2>1, PostsAre
<1>8. G \in [S -> Nat]
  BY <1>6, <1>7
<1>9. ASSUME NEW t \in 1..n
      PROVE  n_posts(li, li.dict[t].word) = G[e[t]]
  <2>1. li.dict[t].word = e[t] /\ lookup(li, e[t]) = t /\ t # 0
    <3>1. lookup(li, e[t]) = t /\ t # 0
      BY <1>3, WordFound
    <3> QED  BY <1>4, <3>1
  <2>2. PICK b, P, nd : b = li.dict[t].posting_offset /\ P = idx[e[t]].posts /\ nd = idx[e[t]].n_docs
    OBVIOUS
  <2>3. Stored(li, P, nd, b)
    BY <1>3, <1>4, <2>2, ListStored
  <2>4. b + ListSize(P) <= li.size
    BY <1>3, <2>2 DEF LeadsToLists
  <2>5. /\ b \in Nat /\ Len(P) \in Nat /\ ListSize(P) \in Nat
        /\ b + 14 + Len(P) <= b + ListSize(P) - 1
    BY <2>3, ListsAreLong, SizesAre DEF HeaderSize, Stored
  <2>6. ~(b + 8 > li.size)
    BY <1>4, <2>4, <2>5
  <2>7. b \in DOMAIN li.region /\ li.region[b].kind = "header" /\ li.region[b].v = <<Len(P), nd>>
    BY <2>3 DEF Stored, ListAt
  <2>8. n_posts(li, e[t]) = Len(P)
    BY <2>1, <2>2, <2>6, <2>7 DEF n_posts
  <2>9. e[t] \in S
    BY <1>4, <1>5 DEF Dictionary
  <2> QED  BY <1>7, <2>1, <2>2, <2>8, <2>9
<1>10. total_words(li) = Sum([t \in 1..n |-> G[e[t]]])
  <2>1. [t \in DOMAIN li.dict |-> n_posts(li, li.dict[t].word)] = [t \in 1..n |-> G[e[t]]]
    BY <1>4, <1>9
  <2> QED  BY <2>1 DEF total_words
<1>11. Sum([t \in 1..n |-> G[e[t]]]) = SumFunctionOnSet(G, S)
  BY <1>4, <1>5, <1>8, SumOverWords
<1> QED  BY <1>1, <1>5, <1>6, <1>10, <1>11
=============================================================================
