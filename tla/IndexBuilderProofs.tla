------------------------- MODULE IndexBuilderProofs -------------------------
(***************************************************************************)
(* Proofs about the index builder, for every set of inputs, every chunk     *)
(* limit and every moment of a kill: what a chunk holds in memory and on     *)
(* disk names its own documents and counts them right.                       *)
(*                                                                         *)
(* The inductive invariant says of the words in memory what Consistent says  *)
(* (Held), and of the files that each was written from such words.  Inside   *)
(* one document the loop of index_file keeps more (Reading): the locations   *)
(* given out so far and the words already met in it.  The loop is a          *)
(* recursive function; induction on its argument takes a smallest            *)
(* counterexample.                                                          *)
(***************************************************************************)
EXTENDS ChunkReadBack, IndexChunkProofs

IsList(s) == s \in Seq({s[i] : i \in DOMAIN s})

Docs(e) == {e.posts[i].doc : i \in DOMAIN e.posts}

Posts(n) == [doc : 1..n, loc : Nat \ {0}]

\* What is indexed of documents 1..n.
Held(idx, n) ==
    /\ DOMAIN idx \in SUBSET Word /\ IsFiniteSet(DOMAIN idx)
    /\ \A w \in DOMAIN idx : /\ idx[w].posts \in Seq(Posts(n))
                             /\ Ascending(idx[w].posts)
                             /\ idx[w].n_docs = Cardinality(Docs(idx[w]))
    /\ \A v, w \in DOMAIN idx :
          \A i \in DOMAIN idx[v].posts, j \in DOMAIN idx[w].posts :
             idx[v].posts[i] = idx[w].posts[j] => v = w /\ i = j

\* In the middle of document d.
Reading(s, d) ==
    /\ Held(s.index, d)
    /\ s.loc \in Nat
    /\ s.word_set = {w \in DOMAIN s.index : d \in Docs(s.index[w])}
    /\ \A w \in DOMAIN s.index : \A i \in DOMAIN s.index[w].posts :
          s.index[w].posts[i].doc = d => s.index[w].posts[i].loc <= s.loc

Shape ==
    /\ input \in Seq(Lines) /\ rest \in Seq(Lines)
    /\ phase \in {"indexing", "full", "last", "done", "killed"}
    /\ curr_doc_ \in Nat \ {0} /\ docs_in_chunk_ \in Nat /\ posts_bytes_ \in Nat
    /\ restarts \in Nat /\ restarts <= MaxRestarts
    /\ phase = "killed" => restarts < MaxRestarts
    /\ IsList(urls) /\ Len(urls) = curr_doc_ - 1

\* The file of what was indexed, whole or cut short.
Persisted(file, idx) ==
    \E k \in Cuts(persist(idx, file.urls)) \cup {[part |-> "whole", at |-> 0]} :
        file = [persist(idx, file.urls) EXCEPT !.cut = k]

Chunked ==
    /\ Held(index, curr_doc_ - 1)
    /\ IsList(files) /\ IsList(log) /\ Len(files) = Len(log)
    /\ \A c \in DOMAIN files : /\ IsList(files[c].urls)
                               /\ Held(log[c], Len(files[c].urls))
                               /\ Persisted(files[c], log[c])

IInv == Shape /\ Chunked

-----------------------------------------------------------------------------
(* Sequences                                                                *)

\* FirstOf returns a line of that kind or the place behind the last line.
LEMMA FirstOfPlace ==
    ASSUME NEW lines \in Seq(Lines), NEW from \in Nat, NEW kind
    PROVE  LET p == FirstOf(lines, from, kind)
           IN  \/ p = Len(lines) + 1
               \/ p \in from..Len(lines) /\ lines[p].kind = kind
<1> DEFINE hits == {i \in from..Len(lines) : lines[i].kind = kind}
<1>1. CASE hits = {}
  BY <1>1 DEF FirstOf
<1>2. CASE hits # {}
  <2>1. \E n \in hits : \A m \in hits : n <= m
    <3>1. hits \in SUBSET Nat
      OBVIOUS
    <3> HIDE DEF hits
    <3> QED  BY <1>2, <3>1, LeastNumber
  <2>2. Min(hits) \in hits
    <3> HIDE DEF hits
    <3> QED  BY <2>1 DEF Min
  <2> QED  BY <1>2, <2>2 DEF FirstOf
<1> QED  BY <1>1, <1>2

LEMMA Appended ==
    ASSUME NEW s, IsList(s), NEW x
    PROVE  /\ IsList(Append(s, x))
           /\ Len(Append(s, x)) = Len(s) + 1
           /\ DOMAIN Append(s, x) = 1..(Len(s) + 1) /\ DOMAIN s = 1..Len(s) /\ Len(s) \in Nat
           /\ \A i \in DOMAIN s : Append(s, x)[i] = s[i]
           /\ Append(s, x)[Len(s) + 1] = x
<1> DEFINE S == {s[i] : i \in DOMAIN s}
           t == Append(s, x)
<1>1. s \in Seq(S \cup {x})
  <2>1. s \in Seq(S)
    BY DEF IsList
  <2> HIDE DEF S
  <2> QED  BY <2>1
<1>2. /\ t \in Seq(S \cup {x}) /\ Len(t) = Len(s) + 1
      /\ \A i \in 1..Len(s) : t[i] = s[i]
      /\ t[Len(s) + 1] = x
  <2> HIDE DEF S
  <2> QED  BY <1>1, AppendProperties
<1>3. DOMAIN t = 1..(Len(s) + 1) /\ DOMAIN s = 1..Len(s) /\ Len(s) \in Nat
  <2> HIDE DEF S
  <2> QED  BY <1>1, <1>2
<1>4. IsList(t)
  <2> HIDE DEF t, S
  <2>1. \A i \in 1..Len(t) : t[i] \in {t[j] : j \in DOMAIN t}
    BY <1>2, <1>3
  <2> QED  BY <1>2, <2>1, SeqDef DEF IsList
<1> QED  BY <1>2, <1>3, <1>4

LEMMA Concatenated ==
    ASSUME NEW s, NEW t, IsList(s), IsList(t)
    PROVE  IsList(s \o t) /\ Len(s \o t) = Len(s) + Len(t)
<1> DEFINE S == {s[i] : i \in DOMAIN s} \cup {t[i] : i \in DOMAIN t}
           u == s \o t
<1>1. s \in Seq(S) /\ t \in Seq(S)
  BY SeqDef DEF IsList
<1>2. u \in Seq(S) /\ Len(u) = Len(s) + Len(t)
  <2> HIDE DEF S
  <2> QED  BY <1>1, ConcatProperties
<1>3. Len(u) \in Nat /\ DOMAIN u = 1..Len(u)
  BY <1>2, LenProperties
<1>4. IsList(u)
  <2> HIDE DEF u, S
  <2>1. u \in [1..Len(u) -> {u[j] : j \in DOMAIN u}]
    BY <1>2, <1>3
  <2> QED  BY <1>3, <2>1, SeqDef DEF IsList
<1> QED  BY <1>2, <1>4

-----------------------------------------------------------------------------
(* Reading a document                                                       *)

LEMMA FinitelyManyDocs ==
    ASSUME NEW n \in Nat, NEW e, e.posts \in Seq(Posts(n))
    PROVE  Docs(e) \subseteq 1..n /\ IsFiniteSet(Docs(e))
<1>1. \A i \in DOMAIN e.posts : e.posts[i].doc \in 1..n
  <2>1. \A i \in DOMAIN e.posts : e.posts[i] \in Posts(n)
    OBVIOUS
  <2> QED  BY <2>1 DEF Posts
<1>2. Docs(e) \subseteq 1..n
  BY <1>1 DEF Docs
<1>3. IsFiniteSet(1..n)
  BY FS_Interval
<1> QED  BY <1>2, <1>3, FS_Subset

\* What is indexed of documents 1..n is so of any more documents without words.
LEMMA HeldLonger ==
    ASSUME NEW n \in Nat, NEW m \in Nat, n <= m, NEW idx, Held(idx, n)
    PROVE  Held(idx, m)
<1>1. Posts(n) \subseteq Posts(m)
  <2>1. 1..n \subseteq 1..m
    OBVIOUS
  <2> QED  BY <2>1 DEF Posts
<1>2. \A w \in DOMAIN idx : idx[w].posts \in Seq(Posts(m))
  BY <1>1, SeqMonotonic DEF Held
<1> QED  BY <1>2 DEF Held

LEMMA NothingHeld ==
    ASSUME NEW n \in Nat
    PROVE  Held(<< >>, n)
BY FS_EmptySet DEF Held

\* One word more of document d.
LEMMA AddWordKeepsReading ==
    ASSUME NEW d \in Nat \ {0}, NEW s, Reading(s, d), NEW w \in Word
    PROVE  Reading(AddWord(s, d, w), d)
<1> DEFINE e == Entry(s.index, w)
           p == [doc |-> d, loc |-> s.loc + 1]
           t == AddWord(s, d, w)
           new == t.index[w]
<1>0. /\ s.loc \in Nat
      /\ s.word_set = {v \in DOMAIN s.index : d \in Docs(s.index[v])}
      /\ \A v \in DOMAIN s.index : \A i \in DOMAIN s.index[v].posts :
            s.index[v].posts[i].doc = d => s.index[v].posts[i].loc <= s.loc
      /\ Held(s.index, d)
  BY DEF Reading
<1>1. /\ e.posts \in Seq(Posts(d))
      /\ Ascending(e.posts)
      /\ e.n_docs = Cardinality(Docs(e))
      /\ d \in Docs(e) <=> w \in s.word_set
      /\ w \notin DOMAIN s.index => e.posts = << >>
      /\ w \in DOMAIN s.index => e = s.index[w]
  <2>1. CASE w \in DOMAIN s.index
    BY <1>0, <2>1 DEF Entry, Held
  <2>2. CASE w \notin DOMAIN s.index
    <3>1. e.posts = << >> /\ e.n_docs = 0 /\ DOMAIN e.posts = {}
      BY <2>2 DEF Entry, NoPosts
    <3>2. Docs(e) = {}
      BY <3>1 DEF Docs
    <3>3. << >> \in Seq(Posts(d)) /\ Ascending(<< >>)
      BY EmptySeq DEF Ascending
    <3> QED  BY <1>0, <2>2, <3>1, <3>2, <3>3, FS_EmptySet
  <2> QED  BY <2>1, <2>2
<1>2. /\ t.loc = s.loc + 1
      /\ t.word_set = s.word_set \cup {w}
      /\ DOMAIN t.index = DOMAIN s.index \cup {w}
      /\ \A v \in DOMAIN s.index : v # w => t.index[v] = s.index[v]
      /\ new.posts = Append(e.posts, p)
      /\ new.n_docs = e.n_docs + (IF w \in s.word_set THEN 0 ELSE 1)
  BY DEF AddWord
<1>3. p \in Posts(d)
  BY <1>0 DEF Posts
<1> HIDE DEF e, t, new
<1>4. /\ new.posts \in Seq(Posts(d))
      /\ DOMAIN new.posts = 1..(Len(e.posts) + 1) /\ DOMAIN e.posts = 1..Len(e.posts)
      /\ Len(e.posts) \in Nat
      /\ \A i \in 1..Len(e.posts) : new.posts[i] = e.posts[i]
      /\ new.posts[Len(e.posts) + 1] = p
  <2> HIDE DEF p
  <2> QED  BY <1>1, <1>2, <1>3, AppendProperties
<1>5. Docs(new) = Docs(e) \cup {d}
  <2>1. d \in Docs(new)
    <3>1. Len(e.posts) + 1 \in DOMAIN new.posts /\ new.posts[Len(e.posts) + 1].doc = d
      BY <1>4
    <3> QED  BY <3>1 DEF Docs
  <2>2. Docs(e) \subseteq Docs(new)
    BY <1>4 DEF Docs
  <2>3. ASSUME NEW i \in DOMAIN new.posts
        PROVE  new.posts[i].doc \in Docs(e) \cup {d}
    <3>1. CASE i = Len(e.posts) + 1
      BY <1>4, <3>1
    <3>2. CASE i # Len(e.posts) + 1
      <4>1. i \in DOMAIN e.posts
        BY <1>4, <3>2
      <4> QED  BY <1>4, <4>1 DEF Docs
    <3> QED  BY <3>1, <3>2
  <2>4. Docs(new) \subseteq Docs(e) \cup {d}
    BY <2>3 DEF Docs
  <2> QED  BY <2>1, <2>2, <2>4
<1>6. new.n_docs = Cardinality(Docs(new))
  <2>1. IsFiniteSet(Docs(e))
    BY <1>1, FinitelyManyDocs
  <2>2. Cardinality(Docs(e)) \in Nat
    BY <2>1, FS_CardinalityType
  <2>3. CASE d \in Docs(e)
    <3>1. Docs(new) = Docs(e) /\ w \in s.word_set
      BY <1>1, <1>5, <2>3
    <3> QED  BY <1>1, <1>2, <2>2, <3>1
  <2>4. CASE d \notin Docs(e)
    <3>1. w \notin s.word_set
      BY <1>1, <2>4
    <3>2. Cardinality(Docs(new)) = Cardinality(Docs(e)) + 1
      BY <1>5, <2>1, <2>4, FS_AddElement
    <3> QED  BY <1>1, <1>2, <3>1, <3>2
  <2> QED  BY <2>3, <2>4
\* A post of the chunk was there before, under the same word and number, or is p.
<1>7. \A v \in DOMAIN t.index : \A i \in DOMAIN t.index[v].posts :
          \/ v = w /\ i = Len(e.posts) + 1 /\ t.index[v].posts[i] = p
          \/ /\ v \in DOMAIN s.index
             /\ i \in DOMAIN s.index[v].posts
             /\ t.index[v].posts[i] = s.index[v].posts[i]
  <2> SUFFICES ASSUME NEW v \in DOMAIN t.index, NEW i \in DOMAIN t.index[v].posts
               PROVE  \/ v = w /\ i = Len(e.posts) + 1 /\ t.index[v].posts[i] = p
                      \/ /\ v \in DOMAIN s.index
                         /\ i \in DOMAIN s.index[v].posts
                         /\ t.index[v].posts[i] = s.index[v].posts[i]
    OBVIOUS
  <2>1. CASE v # w
    BY <1>2, <2>1
  <2>2. CASE v = w
    <3>1. t.index[v] = new /\ i \in DOMAIN new.posts
      BY <2>2 DEF new
    <3>2. CASE i = Len(e.posts) + 1
      BY <1>4, <2>2, <3>1, <3>2
    <3>3. CASE i # Len(e.posts) + 1
      <4>1. i \in DOMAIN e.posts /\ new.posts[i] = e.posts[i]
        BY <1>4, <3>1, <3>3
      <4>2. w \in DOMAIN s.index
        <5> SUFFICES ASSUME w \notin DOMAIN s.index PROVE FALSE
          OBVIOUS
        <5>1. e.posts = << >>
          BY <1>1
        <5> QED  BY <4>1, <5>1
      <4> QED  BY <1>1, <2>2, <3>1, <4>1, <4>2
    <3> QED  BY <3>2, <3>3
  <2> QED  BY <2>1, <2>2
\* The location of p is a new one of its document.
<1>8. \A v \in DOMAIN s.index : \A i \in DOMAIN s.index[v].posts : s.index[v].posts[i] # p
  <2> SUFFICES ASSUME NEW v \in DOMAIN s.index, NEW i \in DOMAIN s.index[v].posts,
                      s.index[v].posts[i] = p
               PROVE  FALSE
    OBVIOUS
  <2>1. s.loc + 1 <= s.loc
    BY <1>0
  <2> QED  BY <1>0, <2>1
\* And it lies behind the others of w.
<1>12. Ascending(new.posts)
  <2> SUFFICES ASSUME NEW i \in DOMAIN new.posts, NEW j \in DOMAIN new.posts, i < j
               PROVE  \/ new.posts[i].doc < new.posts[j].doc
                      \/ new.posts[i].doc = new.posts[j].doc /\ new.posts[i].loc < new.posts[j].loc
    BY DEF Ascending
  <2>1. i \in DOMAIN e.posts /\ new.posts[i] = e.posts[i]
    BY <1>4
  <2>2. CASE j # Len(e.posts) + 1
    <3>1. j \in DOMAIN e.posts /\ new.posts[j] = e.posts[j]
      BY <1>4, <2>2
    <3> QED  BY <1>1, <2>1, <3>1 DEF Ascending
  <2>3. CASE j = Len(e.posts) + 1
    <3>1. new.posts[j].doc = d /\ new.posts[j].loc = s.loc + 1
      BY <1>4, <2>3
    <3>2. e.posts[i].doc \in 1..d /\ e.posts[i].loc \in Nat
      <4>1. e.posts[i] \in Posts(d)
        BY <1>1, <2>1
      <4> QED  BY <4>1 DEF Posts
    <3>3. e.posts[i].doc = d => e.posts[i].loc <= s.loc
      <4>1. w \in DOMAIN s.index
        <5> SUFFICES ASSUME w \notin DOMAIN s.index PROVE FALSE
          OBVIOUS
        <5>1. e.posts = << >>
          BY <1>1
        <5> QED  BY <2>1, <5>1
      <4> QED  BY <1>0, <1>1, <2>1, <4>1
    <3> QED  BY <1>0, <2>1, <3>1, <3>2, <3>3
  <2> QED  BY <2>2, <2>3
<1>9. Held(t.index, d)
  <2>0. DOMAIN t.index \in SUBSET Word /\ IsFiniteSet(DOMAIN t.index)
    <3>1. DOMAIN s.index \in SUBSET Word /\ IsFiniteSet(DOMAIN s.index)
      BY <1>0 DEF Held
    <3>2. DOMAIN t.index = DOMAIN s.index \cup {w}
      BY <1>2
    <3>3. IsFiniteSet(DOMAIN s.index \cup {w})
      BY <3>1, FS_AddElement
    <3> QED  BY <3>1, <3>2, <3>3
  <2>1. \A v \in DOMAIN t.index : /\ t.index[v].posts \in Seq(Posts(d))
                                  /\ Ascending(t.index[v].posts)
                                  /\ t.index[v].n_docs = Cardinality(Docs(t.index[v]))
    <3> SUFFICES ASSUME NEW v \in DOMAIN t.index
                 PROVE  /\ t.index[v].posts \in Seq(Posts(d))
                        /\ Ascending(t.index[v].posts)
                        /\ t.index[v].n_docs = Cardinality(Docs(t.index[v]))
      OBVIOUS
    <3>1. CASE v = w
      BY <1>4, <1>6, <1>12, <3>1 DEF new
    <3>2. CASE v # w
      BY <1>0, <1>2, <3>2 DEF Held
    <3> QED  BY <3>1, <3>2
  <2>2. ASSUME NEW u \in DOMAIN t.index, NEW v \in DOMAIN t.index,
               NEW i \in DOMAIN t.index[u].posts, NEW j \in DOMAIN t.index[v].posts,
               t.index[u].posts[i] = t.index[v].posts[j]
        PROVE  u = v /\ i = j
    <3>1. CASE t.index[u].posts[i] = p
      <4>1. u = w /\ i = Len(e.posts) + 1
        BY <1>7, <1>8, <3>1
      <4>2. t.index[v].posts[j] = p
        BY <2>2, <3>1
      <4>3. v = w /\ j = Len(e.posts) + 1
        BY <1>7, <1>8, <4>2
      <4> QED  BY <4>1, <4>3
    <3>2. CASE t.index[u].posts[i] # p
      <4>1. /\ u \in DOMAIN s.index /\ i \in DOMAIN s.index[u].posts
            /\ t.index[u].posts[i] = s.index[u].posts[i]
        BY <1>7, <3>2
      <4>2. /\ v \in DOMAIN s.index /\ j \in DOMAIN s.index[v].posts
            /\ t.index[v].posts[j] = s.index[v].posts[j]
        BY <1>7, <2>2, <3>2
      <4>3. s.index[u].posts[i] = s.index[v].posts[j]
        BY <2>2, <4>1, <4>2
      <4>4. \A x, y \in DOMAIN s.index :
              \A k \in DOMAIN s.index[x].posts, m \in DOMAIN s.index[y].posts :
                 s.index[x].posts[k] = s.index[y].posts[m] => x = y /\ k = m
        BY <1>0 DEF Held
      <4> QED  BY <4>1, <4>2, <4>3, <4>4
    <3> QED  BY <3>1, <3>2
  <2> QED  BY <2>0, <2>1, <2>2 DEF Held
<1>10. t.word_set = {v \in DOMAIN t.index : d \in Docs(t.index[v])}
  <2>1. w \in DOMAIN t.index /\ d \in Docs(t.index[w])
    BY <1>2, <1>5 DEF new
  <2>2. \A v \in DOMAIN t.index \ {w} :
            v \in DOMAIN s.index /\ t.index[v] = s.index[v]
    BY <1>2
  <2> QED  BY <1>0, <1>2, <2>1, <2>2
<1>11. \A v \in DOMAIN t.index : \A i \in DOMAIN t.index[v].posts :
          t.index[v].posts[i].doc = d => t.index[v].posts[i].loc <= t.loc
  <2> SUFFICES ASSUME NEW v \in DOMAIN t.index, NEW i \in DOMAIN t.index[v].posts,
                      t.index[v].posts[i].doc = d
               PROVE  t.index[v].posts[i].loc <= t.loc
    OBVIOUS
  <2>1. CASE t.index[v].posts[i] = p
    BY <1>0, <1>2, <2>1
  <2>2. CASE t.index[v].posts[i] # p
    <3>1. /\ v \in DOMAIN s.index /\ i \in DOMAIN s.index[v].posts
          /\ t.index[v].posts[i] = s.index[v].posts[i]
      BY <1>7, <2>2
    <3>2. s.index[v].posts[i].loc <= s.loc
      BY <1>0, <3>1
    <3>3. s.index[v].posts[i].loc \in Nat
      <4>1. s.index[v].posts \in Seq(Posts(d))
        BY <1>0, <3>1 DEF Held
      <4>2. s.index[v].posts[i] \in Posts(d)
        BY <3>1, <4>1
      <4> QED  BY <4>2 DEF Posts
    <3> QED  BY <1>0, <1>2, <3>1, <3>2, <3>3
  <2> QED  BY <2>1, <2>2
<1> QED  BY <1>0, <1>2, <1>9, <1>10, <1>11 DEF Reading, t

-----------------------------------------------------------------------------
(* The loop of index_file over the lines of a document                      *)

\* g is the recursive function of AddDocument, on the first m lines.
ReadsEq(g, idx, doc, lines, m) ==
    g = [i \in 0..m |-> IF i = 0 THEN [index |-> idx, word_set |-> {}, loc |-> 0]
                        ELSE IF IsWord(lines[i]) THEN AddWord(g[i - 1], doc, lines[i].word)
                        ELSE g[i - 1]]

Reads(idx, doc, lines, m) == CHOOSE g : ReadsEq(g, idx, doc, lines, m)

LEMMA AddDocumentUnfolds ==
    ASSUME NEW idx, NEW doc, NEW lines
    PROVE  AddDocument(idx, doc, lines) = Reads(idx, doc, lines, Len(lines))[Len(lines)]
BY DEF AddDocument, Reads, ReadsEq

LEMMA ReadsExist ==
    ASSUME NEW idx, NEW doc, NEW lines, NEW m \in Nat
    PROVE  ReadsEq(Reads(idx, doc, lines, m), idx, doc, lines, m)
<1> DEFINE Missing == {k \in Nat : ~ \E g : ReadsEq(g, idx, doc, lines, k)}
<1>1. Missing = {}
  <2> SUFFICES ASSUME Missing # {} PROVE FALSE
    OBVIOUS
  <2>1. PICK k \in Missing : \A j \in Missing : k <= j
    <3>1. Missing \in SUBSET Nat
      OBVIOUS
    <3> HIDE DEF Missing
    <3> QED  BY <3>1, LeastNumber
  <2>2. k \in Nat /\ ~ \E g : ReadsEq(g, idx, doc, lines, k)
    OBVIOUS
  <2>3. CASE k = 0
    <3> DEFINE h == [i \in 0..0 |-> [index |-> idx, word_set |-> {}, loc |-> 0]]
    <3>1. ReadsEq(h, idx, doc, lines, 0)
      BY DEF ReadsEq
    <3> QED  BY <2>2, <2>3, <3>1
  <2>4. CASE k # 0
    <3>1. k - 1 \in Nat /\ k - 1 \notin Missing
      BY <2>1, <2>2, <2>4
    <3>2. PICK g : ReadsEq(g, idx, doc, lines, k - 1)
      BY <3>1
    <3> DEFINE last == IF IsWord(lines[k]) THEN AddWord(g[k - 1], doc, lines[k].word)
                                           ELSE g[k - 1]
               h == [i \in 0..k |-> IF i = k THEN last ELSE g[i]]
    <3>3. \A i \in 0..(k - 1) : h[i] = g[i]
      BY <2>2
    <3>4. h[k] = last
      BY <2>2
    <3>5. \A i \in 0..(k - 1) :
            g[i] = IF i = 0 THEN [index |-> idx, word_set |-> {}, loc |-> 0]
                   ELSE IF IsWord(lines[i]) THEN AddWord(g[i - 1], doc, lines[i].word)
                   ELSE g[i - 1]
      BY <3>2 DEF ReadsEq
    <3>6. h = [i \in 0..k |-> h[i]]
      OBVIOUS
    <3>7. k - 1 \in 0..(k - 1)
      BY <2>2, <2>4
    <3>8. h[k - 1] = g[k - 1]
      BY <3>3, <3>7
    <3> HIDE DEF h
    <3>9. ASSUME NEW i \in 0..k
          PROVE  h[i] = IF i = 0 THEN [index |-> idx, word_set |-> {}, loc |-> 0]
                        ELSE IF IsWord(lines[i]) THEN AddWord(h[i - 1], doc, lines[i].word)
                        ELSE h[i - 1]
      <4>1. CASE i = k
        BY <2>4, <3>4, <3>8, <4>1
      <4>2. CASE i # k
        <5>1. i \in 0..(k - 1)
          BY <2>2, <4>2
        <5>2. i # 0 => i - 1 \in 0..(k - 1)
          BY <2>2, <5>1
        <5>3. h[i] = g[i] /\ (i # 0 => h[i - 1] = g[i - 1])
          BY <3>3, <5>1, <5>2
        <5> QED  BY <3>5, <5>1, <5>3
      <4> QED  BY <4>1, <4>2
    <3>10. ReadsEq(h, idx, doc, lines, k)
      BY <3>6, <3>9 DEF ReadsEq
    <3> QED  BY <2>2, <3>10
  <2> QED  BY <2>3, <2>4
<1> QED  BY <1>1 DEF Reads

\* The loop keeps what is indexed consistent; one document more is in it.
LEMMA AddDocumentHolds ==
    ASSUME NEW n \in Nat, NEW idx, Held(idx, n), NEW lines \in Seq(Lines)
    PROVE  Reading(AddDocument(idx, n + 1, lines), n + 1)
<1> DEFINE d == n + 1
           g == Reads(idx, d, lines, Len(lines))
           Wrong == {i \in 0..Len(lines) : ~Reading(g[i], d)}
<1>0. Len(lines) \in Nat /\ \A i \in 1..Len(lines) : IsWord(lines[i]) => lines[i].word \in Word
  <2>1. Len(lines) \in Nat /\ \A i \in 1..Len(lines) : lines[i] \in Lines
    OBVIOUS
  <2>2. \A x \in Lines : IsWord(x) => x.word \in Word
    BY DEF Lines, IsWord, Word
  <2> QED  BY <2>1, <2>2
<1>1. \A i \in 0..Len(lines) :
         g[i] = IF i = 0 THEN [index |-> idx, word_set |-> {}, loc |-> 0]
                ELSE IF IsWord(lines[i]) THEN AddWord(g[i - 1], d, lines[i].word)
                ELSE g[i - 1]
  <2>1. ReadsEq(g, idx, d, lines, Len(lines))
    BY <1>0, ReadsExist
  <2> HIDE DEF g
  <2> QED  BY <2>1 DEF ReadsEq
<1> HIDE DEF g
<1>2. Reading([index |-> idx, word_set |-> {}, loc |-> 0], d)
  <2>1. Held(idx, d)
    BY HeldLonger
  <2>2. \A w \in DOMAIN idx : Docs(idx[w]) \subseteq 1..n
    BY FinitelyManyDocs DEF Held
  <2>3. {w \in DOMAIN idx : d \in Docs(idx[w])} = {}
    BY <2>2
  <2>4. \A w \in DOMAIN idx : \A i \in DOMAIN idx[w].posts : idx[w].posts[i].doc # d
    BY <2>3 DEF Docs
  <2> QED  BY <2>1, <2>3, <2>4 DEF Reading
<1>3. Wrong = {}
  <2> SUFFICES ASSUME Wrong # {} PROVE FALSE
    OBVIOUS
  <2>1. PICK i \in Wrong : \A j \in Wrong : i <= j
    <3>1. Wrong \in SUBSET Nat
      OBVIOUS
    <3> HIDE DEF Wrong
    <3> QED  BY <3>1, LeastNumber
  <2>2. i \in 0..Len(lines) /\ ~Reading(g[i], d)
    OBVIOUS
  <2>3. i # 0
    BY <1>1, <1>2, <2>2
  <2>4. i - 1 \in 0..Len(lines) /\ i - 1 \notin Wrong /\ i \in 1..Len(lines)
    BY <1>0, <2>1, <2>2, <2>3
  <2>5. Reading(g[i - 1], d)
    BY <2>4
  <2>6. IsWord(lines[i]) => Reading(AddWord(g[i - 1], d, lines[i].word), d)
    BY <1>0, <2>4, <2>5, AddWordKeepsReading
  <2> QED  BY <1>1, <2>2, <2>3, <2>5, <2>6
<1>4. Len(lines) \in 0..Len(lines)
  BY <1>0
<1>5. Reading(g[Len(lines)], d)
  BY <1>3, <1>4
<1> QED  BY <1>5, AddDocumentUnfolds DEF g

-----------------------------------------------------------------------------
(* The invariant                                                            *)

LEMMA EmptyLists ==
    /\ IsList(<< >>) /\ Len(<< >>) = 0
    /\ DOMAIN << >> = {}
BY SeqDef DEF IsList

LEMMA InitEstablishes == Init => IInv
<1> SUFFICES ASSUME Init PROVE IInv
  OBVIOUS
<1>1. Shape
  BY EmptyLists, InputsAssumption, IndexBuilderAssumption DEF Init, Shape
<1>2. Held(<< >>, 0)
  BY NothingHeld
<1>3. Chunked
  BY <1>2, EmptyLists DEF Init, Chunked
<1> QED  BY <1>1, <1>3 DEF IInv

\* What is left of the input after some line of it.
LEMMA UnreadIsInput ==
    ASSUME NEW lines \in Seq(Lines), NEW from \in Nat \ {0}
    PROVE  Unread(lines, from) \in Seq(Lines)
<1>1. Len(lines) \in Nat /\ \A i \in from..Len(lines) : lines[i] \in Lines
  OBVIOUS
<1> QED  BY <1>1, SubSeqProperties DEF Unread

LEMMA HeaderPlace ==
    ASSUME NEW lines \in Seq(Lines)
    PROVE  Header(lines) \in Nat \ {0} /\ Len(lines) \in Nat
<1>1. Len(lines) \in Nat
  OBVIOUS
<1> QED  BY <1>1, FirstOfPlace DEF Header

\* Writing a chunk file adds one whose words name its own documents.
LEMMA WritingKeeps ==
    ASSUME IInv, NEW file, file.urls = urls, Persisted(file, index),
           files' = Append(files, file), log' = Append(log, index)
    PROVE  /\ IsList(files') /\ IsList(log') /\ Len(files') = Len(log')
           /\ \A c \in DOMAIN files' : /\ IsList(files'[c].urls)
                                       /\ Held(log'[c], Len(files'[c].urls))
                                       /\ Persisted(files'[c], log'[c])
<1>1. /\ IsList(files') /\ IsList(log') /\ Len(files') = Len(log')
      /\ DOMAIN files' = 1..(Len(files) + 1) /\ DOMAIN files = 1..Len(files)
      /\ Len(files) \in Nat /\ Len(files) = Len(log) /\ DOMAIN log = DOMAIN files
      /\ \A c \in DOMAIN files : files'[c] = files[c] /\ log'[c] = log[c]
      /\ files'[Len(files) + 1] = file /\ log'[Len(files) + 1] = index
  <2>1. IsList(files) /\ IsList(log) /\ Len(files) = Len(log)
    BY DEF IInv, Chunked
  <2>2. /\ IsList(files') /\ Len(files') = Len(files) + 1
        /\ DOMAIN files' = 1..(Len(files) + 1) /\ DOMAIN files = 1..Len(files)
        /\ Len(files) \in Nat
        /\ \A c \in DOMAIN files : files'[c] = files[c]
        /\ files'[Len(files) + 1] = file
    BY <2>1, Appended
  <2>3. /\ IsList(log') /\ Len(log') = Len(log) + 1 /\ DOMAIN log = 1..Len(log)
        /\ \A c \in DOMAIN log : log'[c] = log[c]
        /\ log'[Len(log) + 1] = index
    BY <2>1, Appended
  <2> QED  BY <2>1, <2>2, <2>3
<1>2. ASSUME NEW c \in DOMAIN files'
      PROVE  IsList(files'[c].urls) /\ Held(log'[c], Len(files'[c].urls)) /\ Persisted(files'[c], log'[c])
  <2>1. CASE c = Len(files) + 1
    <3>1. files'[c] = file /\ log'[c] = index
      BY <1>1, <2>1
    <3>2. IsList(urls) /\ Held(index, Len(urls))
      BY DEF IInv, Shape, Chunked
    <3> QED  BY <3>1, <3>2
  <2>2. CASE c # Len(files) + 1
    <3>1. c \in DOMAIN files /\ files'[c] = files[c] /\ log'[c] = log[c]
      BY <1>1, <2>2
    <3> QED  BY <3>1 DEF IInv, Chunked
  <2> QED  BY <2>1, <2>2
<1> QED  BY <1>1, <1>2

LEMMA PersistedWhole ==
    ASSUME NEW idx, NEW us
    PROVE  LET file == persist(idx, us) IN file.urls = us /\ Persisted(file, idx)
<1> DEFINE file == persist(idx, us)
           k == [part |-> "whole", at |-> 0]
<1>1. file.urls = us
  BY DEF persist
<1>2. file = [file EXCEPT !.cut = k]
  BY DEF persist
<1> HIDE DEF file
<1>3. Persisted(file, idx)
  <2>1. persist(idx, file.urls) = file
    BY <1>1 DEF file
  <2> QED  BY <1>2, <2>1 DEF Persisted
<1> QED  BY <1>1, <1>3 DEF file

LEMMA PersistedCut ==
    ASSUME NEW idx, NEW us, NEW c \in Cuts(persist(idx, us))
    PROVE  LET file == [persist(idx, us) EXCEPT !.cut = c] IN file.urls = us /\ Persisted(file, idx)
<1> DEFINE file == [persist(idx, us) EXCEPT !.cut = c]
<1>1. file.urls = us
  BY DEF persist
<1>2. file = [persist(idx, us) EXCEPT !.cut = c]
  OBVIOUS
<1> HIDE DEF file
<1> QED  BY <1>1, <1>2 DEF Persisted, file

LEMMA ResetKeeps ==
    ASSUME reset_chunk
    PROVE  /\ IsList(urls') /\ Len(urls') = curr_doc_' - 1
           /\ Held(index', curr_doc_' - 1)
           /\ curr_doc_' \in Nat \ {0} /\ docs_in_chunk_' \in Nat /\ posts_bytes_' \in Nat
<1>1. Held(<< >>, 0)
  BY NothingHeld
<1> QED  BY <1>1, EmptyLists DEF reset_chunk

LEMMA StepKeeps == IInv /\ [Next]_vars => IInv'
<1> SUFFICES ASSUME IInv, [Next]_vars PROVE IInv'
  OBVIOUS
<1>0. Shape /\ Chunked
  BY DEF IInv
<1>1. CASE FillDocuments
  <2> DEFINE n == Head(rest).n
             fillers == [i \in 1..n |-> "filler"]
  <2>1. n \in Nat
    <3>1. Head(rest) \in Lines
      BY <1>0, <1>1 DEF Shape, FillDocuments
    <3> QED  BY <1>1, <3>1 DEF FillDocuments, Lines
  <2>2. IsList(fillers) /\ Len(fillers) = n
    <3> HIDE DEF n
    <3>1. fillers \in Seq({fillers[i] : i \in DOMAIN fillers})
      <4>1. fillers \in [1..n -> {fillers[i] : i \in DOMAIN fillers}]
        OBVIOUS
      <4> QED  BY <2>1, <4>1, SeqDef
    <3> QED  BY <2>1, <3>1 DEF IsList
  <2>3. IsList(urls') /\ Len(urls') = curr_doc_' - 1
    <3>1. urls' = urls \o fillers /\ curr_doc_' = curr_doc_ + n
      BY <1>1 DEF FillDocuments
    <3>2. IsList(urls) /\ Len(urls) = curr_doc_ - 1 /\ curr_doc_ \in Nat
      BY <1>0 DEF Shape
    <3> HIDE DEF n, fillers
    <3>3. IsList(urls \o fillers) /\ Len(urls \o fillers) = Len(urls) + Len(fillers)
      BY <2>2, <3>2, Concatenated
    <3> QED  BY <2>1, <2>2, <3>1, <3>2, <3>3
  <2>4. rest' \in Seq(Lines)
    BY <1>0, <1>1 DEF Shape, FillDocuments
  <2>5. Shape'
    <3>1. /\ curr_doc_' = curr_doc_ + n /\ docs_in_chunk_' = docs_in_chunk_ + n
          /\ UNCHANGED << input, posts_bytes_, phase, restarts >>
      BY <1>1 DEF FillDocuments
    <3> HIDE DEF n
    <3> QED  BY <1>0, <2>1, <2>3, <2>4, <3>1 DEF Shape
  <2>6. Held(index', curr_doc_' - 1)
    <3>1. /\ index' = index /\ curr_doc_' = curr_doc_ + n
          /\ curr_doc_ \in Nat \ {0} /\ Held(index, curr_doc_ - 1)
      BY <1>0, <1>1 DEF Shape, Chunked, FillDocuments
    <3> HIDE DEF n
    <3>2. curr_doc_ - 1 \in Nat /\ curr_doc_' - 1 \in Nat /\ curr_doc_ - 1 <= curr_doc_' - 1
      BY <2>1, <3>1
    <3> QED  BY <3>1, <3>2, HeldLonger
  <2>7. Chunked'
    BY <1>0, <1>1, <2>6 DEF Chunked, FillDocuments
  <2> QED  BY <2>5, <2>7 DEF IInv
<1>2. CASE IndexDocument
  <2> DEFINE h     == Header(rest)
             end   == FirstOf(rest, h + 2, "enddoc")
             lines == SubSeq(rest, h + 2, end - 1)
             read  == AddDocument(index, curr_doc_, lines)
  <2>1. /\ h \in Nat \ {0} /\ Len(rest) \in Nat
        /\ end = Len(rest) + 1 \/ end \in (h + 2)..Len(rest)
        /\ rest \in Seq(Lines) /\ h + 1 <= Len(rest)
    <3>1. rest \in Seq(Lines) /\ h + 1 <= Len(rest)
      BY <1>0, <1>2 DEF Shape, IndexDocument
    <3>2. h \in Nat \ {0} /\ Len(rest) \in Nat
      BY <3>1, HeaderPlace
    <3> HIDE DEF h
    <3>3. end = Len(rest) + 1 \/ end \in (h + 2)..Len(rest)
      BY <3>1, <3>2, FirstOfPlace
    <3> QED  BY <3>1, <3>2, <3>3
  <2>2. lines \in Seq(Lines) /\ rest' \in Seq(Lines)
    <3>1. rest' = Unread(rest, end + 1)
      BY <1>2 DEF IndexDocument
    <3> HIDE DEF h, end
    <3>2. end \in Nat /\ h + 2 \in Int /\ end - 1 \in Int
          /\ \A i \in (h + 2)..(end - 1) : rest[i] \in Lines
      <4>1. \A i \in 1..Len(rest) : rest[i] \in Lines
        BY <2>1
      <4> QED  BY <2>1, <4>1
    <3>3. lines \in Seq(Lines)
      BY <3>2, SubSeqProperties
    <3>4. rest' \in Seq(Lines)
      <4>1. end + 1 \in Nat \ {0} /\ rest \in Seq(Lines)
        BY <2>1, <3>2
      <4> HIDE DEF lines
      <4> QED  BY <3>1, <4>1, UnreadIsInput
    <3> QED  BY <3>3, <3>4
  <2>3. /\ index' = read.index /\ curr_doc_' = curr_doc_ + 1
        /\ urls' = Append(urls, rest[h + 1].word)
        /\ docs_in_chunk_' = docs_in_chunk_ + 1
        /\ posts_bytes_' = posts_bytes_ + PostBytes * read.loc
        /\ phase' \in {"full", "indexing"} /\ phase = "indexing"
        /\ UNCHANGED << input, files, restarts, log >>
    <3> HIDE DEF lines, h, end
    <3> QED  BY <1>2 DEF IndexDocument, h, end, lines
  <2>4. /\ curr_doc_ \in Nat \ {0} /\ docs_in_chunk_ \in Nat /\ posts_bytes_ \in Nat
        /\ IsList(urls) /\ Len(urls) = curr_doc_ - 1
        /\ Held(index, curr_doc_ - 1)
    BY <1>0 DEF Shape, Chunked
  <2> HIDE DEF h, end, lines
  <2>5. Reading(read, curr_doc_)
    <3>1. curr_doc_ - 1 \in Nat /\ (curr_doc_ - 1) + 1 = curr_doc_
      BY <2>4
    <3>2. Reading(AddDocument(index, (curr_doc_ - 1) + 1, lines), (curr_doc_ - 1) + 1)
      BY <2>2, <2>4, <3>1, AddDocumentHolds
    <3> QED  BY <3>1, <3>2
  <2> HIDE DEF read
  <2>6. Held(index', curr_doc_' - 1) /\ read.loc \in Nat
    <3>1. curr_doc_' - 1 = curr_doc_
      BY <2>3, <2>4
    <3> QED  BY <2>3, <2>5, <3>1 DEF Reading
  <2>7. IsList(urls') /\ Len(urls') = curr_doc_' - 1
    BY <2>3, <2>4, Appended
  <2>8. posts_bytes_' \in Nat
    BY <2>3, <2>4, <2>6 DEF PostBytes
  <2>9. Shape'
    <3>1. input' \in Seq(Lines) /\ restarts' \in Nat /\ restarts' <= MaxRestarts
      BY <1>0, <2>3 DEF Shape
    <3>2. curr_doc_' \in Nat \ {0} /\ docs_in_chunk_' \in Nat
      BY <2>3, <2>4
    <3>3. phase' \in {"indexing", "full", "last", "done", "killed"} /\ phase' # "killed"
      BY <2>3
    <3> QED  BY <2>2, <2>7, <2>8, <3>1, <3>2, <3>3 DEF Shape
  <2>10. Chunked'
    BY <1>0, <2>3, <2>6 DEF Chunked
  <2> QED  BY <2>9, <2>10 DEF IInv
<1>3. CASE SkipDocument
  <2>1. rest' \in Seq(Lines)
    <3>1. rest \in Seq(Lines) /\ rest' = Unread(rest, Header(rest) + 2)
      BY <1>0, <1>3 DEF Shape, SkipDocument
    <3>2. Header(rest) + 2 \in Nat \ {0}
      BY <3>1, HeaderPlace
    <3> QED  BY <3>1, <3>2, UnreadIsInput
  <2>2. Shape'
    BY <1>0, <1>3, <2>1 DEF Shape, SkipDocument
  <2>3. Chunked'
    BY <1>0, <1>3 DEF Chunked, SkipDocument
  <2> QED  BY <2>2, <2>3 DEF IInv
<1>4. CASE Finish
  <2>1. Shape'
    BY <1>0, <1>4, EmptySeq DEF Shape, Finish
  <2>2. Chunked'
    BY <1>0, <1>4 DEF Chunked, Finish
  <2> QED  BY <2>1, <2>2 DEF IInv
<1>5. CASE flush
  <2>1. reset_chunk /\ UNCHANGED << input, rest, restarts >> /\ phase' \in {"done", "indexing"}
    BY <1>5 DEF flush
  <2>2. Shape'
    BY <1>0, <2>1, ResetKeeps DEF Shape
  <2>3. CASE files' = Append(files, persist(index, urls)) /\ log' = Append(log, index)
    <3>1. persist(index, urls).urls = urls /\ Persisted(persist(index, urls), index)
      BY PersistedWhole
    <3>2. /\ IsList(files') /\ IsList(log') /\ Len(files') = Len(log')
          /\ \A c \in DOMAIN files' : /\ IsList(files'[c].urls)
                                      /\ Held(log'[c], Len(files'[c].urls))
                                      /\ Persisted(files'[c], log'[c])
      BY <2>3, <3>1, WritingKeeps
    <3> QED  BY <2>1, <2>2, <3>2, ResetKeeps DEF IInv, Chunked
  <2>4. CASE UNCHANGED << files, log >>
    <3>1. Chunked'
      BY <1>0, <2>1, <2>4, ResetKeeps DEF Chunked
    <3> QED  BY <2>2, <3>1 DEF IInv
  <2> QED  BY <1>5, <2>3, <2>4 DEF flush
<1>6. CASE Kill
  <2>1. reset_chunk /\ UNCHANGED << input, files, restarts, log >>
        /\ phase' = "killed" /\ rest' = << >> /\ restarts < MaxRestarts
    BY <1>6 DEF Kill, Killable, ForgetMemory
  <2>2. Shape'
    BY <1>0, <2>1, ResetKeeps, EmptySeq DEF Shape
  <2>3. Chunked'
    BY <1>0, <2>1, ResetKeeps DEF Chunked
  <2> QED  BY <2>2, <2>3 DEF IInv
<1>7. CASE KillInPersist
  <2>1. reset_chunk /\ UNCHANGED << input, restarts >>
        /\ phase' = "killed" /\ rest' = << >> /\ restarts < MaxRestarts
    BY <1>7 DEF KillInPersist, Killable, ForgetMemory
  <2>2. Shape'
    BY <1>0, <2>1, ResetKeeps, EmptySeq DEF Shape
  <2>3. PICK c \in Cuts(persist(index, urls)) : files' = Append(files, [persist(index, urls) EXCEPT !.cut = c])
    BY <1>7 DEF KillInPersist
  <2>4. log' = Append(log, index)
    BY <1>7 DEF KillInPersist
  <2>5. LET file == [persist(index, urls) EXCEPT !.cut = c] IN file.urls = urls /\ Persisted(file, index)
    BY PersistedCut
  <2>6. /\ IsList(files') /\ IsList(log') /\ Len(files') = Len(log')
        /\ \A k \in DOMAIN files' : /\ IsList(files'[k].urls)
                                    /\ Held(log'[k], Len(files'[k].urls))
                                    /\ Persisted(files'[k], log'[k])
    BY <2>3, <2>4, <2>5, WritingKeeps
  <2> QED  BY <2>1, <2>2, <2>6, ResetKeeps DEF IInv, Chunked
<1>8. CASE Restart
  <2>1. Shape'
    BY <1>0, <1>8, IndexBuilderAssumption DEF Shape, Restart
  <2>2. Chunked'
    BY <1>0, <1>8 DEF Chunked, Restart
  <2> QED  BY <2>1, <2>2 DEF IInv
<1>9. CASE UNCHANGED vars
  <2>1. Shape'
    BY <1>0, <1>9 DEF Shape, vars
  <2>2. Chunked'
    BY <1>0, <1>9 DEF Chunked, vars
  <2> QED  BY <2>1, <2>2 DEF IInv
<1> QED  BY <1>1, <1>2, <1>3, <1>4, <1>5, <1>6, <1>7, <1>8, <1>9 DEF Next, Stopped

LEMMA Invariance == Spec => []IInv
BY InitEstablishes, StepKeeps, PTL DEF Spec

-----------------------------------------------------------------------------
(* The properties                                                           *)

LEMMA HeldIsConsistent ==
    ASSUME NEW n \in Nat, NEW idx, Held(idx, n), NEW us, IsList(us), Len(us) = n
    PROVE  Consistent(idx, us)
<1> DEFINE occurrences == UNION {{<<w, i>> : i \in DOMAIN idx[w].posts} : w \in DOMAIN idx}
           at(o) == idx[o[1]].posts[o[2]]
<1>1. DOMAIN us = 1..n
  <2> DEFINE S == {us[i] : i \in DOMAIN us}
  <2>1. us \in Seq(S)
    BY DEF IsList
  <2> HIDE DEF S
  <2> QED  BY <2>1
<1>2. \A o \in occurrences : /\ o = <<o[1], o[2]>>
                             /\ o[1] \in DOMAIN idx /\ o[2] \in DOMAIN idx[o[1]].posts
  OBVIOUS
<1>3. \A w \in DOMAIN idx : \A i \in DOMAIN idx[w].posts : idx[w].posts[i] \in Posts(n)
  BY DEF Held
<1>4. \A o \in occurrences : at(o).doc \in DOMAIN us
  <2> HIDE DEF occurrences
  <2> QED  BY <1>1, <1>2, <1>3 DEF Posts
<1>5. \A o, q \in occurrences : at(o) = at(q) => o = q
  <2> HIDE DEF occurrences
  <2> SUFFICES ASSUME NEW o \in occurrences, NEW q \in occurrences, at(o) = at(q)
               PROVE  o = q
    OBVIOUS
  <2>1. o[1] = q[1] /\ o[2] = q[2]
    BY <1>2 DEF Held
  <2> QED  BY <1>2, <2>1
<1>6. \A w \in DOMAIN idx :
        idx[w].n_docs = Cardinality({idx[w].posts[i].doc : i \in DOMAIN idx[w].posts})
  BY DEF Held, Docs
<1> QED  BY <1>4, <1>5, <1>6 DEF Consistent

\* The fields of a worker have their types: whatever was read, every post in
\* memory is of a document numbered so far, at a location that is not 0 (the
\* value by which the chunk file marks a new document), and the history of
\* chunks stays in step with the files (index_file, flush, persist).
THEOREM BuilderTypeOK == Spec => []TypeOK
<1>1. IInv => TypeOK
  <2> SUFFICES ASSUME IInv PROVE TypeOK
    OBVIOUS
  <2>1. Shape /\ Chunked
    BY DEF IInv
  <2>2. \A w \in DOMAIN index : \A i \in DOMAIN index[w].posts :
           index[w].posts[i] \in Posts(curr_doc_ - 1)
    BY <2>1 DEF Chunked, Held
  <2>3. \A w \in DOMAIN index : \A i \in DOMAIN index[w].posts :
           index[w].posts[i].doc \in 1..(curr_doc_ - 1) /\ index[w].posts[i].loc \in Nat \ {0}
    BY <2>2 DEF Posts
  <2>4. restarts \in 0..MaxRestarts
    BY <2>1, IndexBuilderAssumption DEF Shape
  <2> QED  BY <2>1, <2>3, <2>4 DEF TypeOK, Shape, Chunked
<1> QED  BY <1>1, Invariance, PTL

\* In memory and in every chunk file, whole or cut by a kill, a post names a
\* document whose URL is in the same chunk, no location of a document is held
\* twice, and the document count of a word is the number of documents it is in
\* (index_file with its word_set, reset_chunk, the numbering from 1 on).
THEOREM BuilderChunksConsistent == Spec => []ChunksConsistent
<1>1. IInv => ChunksConsistent
  <2> SUFFICES ASSUME IInv PROVE ChunksConsistent
    OBVIOUS
  <2>1. Shape /\ Chunked
    BY DEF IInv
  <2>2. Consistent(index, urls)
    <3>1. curr_doc_ - 1 \in Nat /\ IsList(urls) /\ Len(urls) = curr_doc_ - 1
          /\ Held(index, curr_doc_ - 1)
      BY <2>1 DEF Shape, Chunked
    <3> QED  BY <3>1, HeldIsConsistent
  <2>3. ASSUME NEW c \in DOMAIN files
        PROVE  Consistent(log[c], files[c].urls)
    <3>1. IsList(files[c].urls) /\ Held(log[c], Len(files[c].urls))
      BY <2>1 DEF Chunked
    <3>2. Len(files[c].urls) \in Nat
      BY <3>1, Appended
    <3> QED  BY <3>1, <3>2, HeldIsConsistent
  <2> QED  BY <2>2, <2>3 DEF ChunksConsistent
<1> QED  BY <1>1, Invariance, PTL

LEMMA PersistedParts ==
    ASSUME NEW file, NEW idx, Persisted(file, idx)
    PROVE  /\ file.toc = dict_offsets(sort_entries(idx))
           /\ Sections(file, idx)
           /\ file.cut.part = "whole" \/ IsCut(file)
<1>1. PICK p : p = persist(idx, file.urls)
  OBVIOUS
<1>2. PICK k \in Cuts(p) \cup {[part |-> "whole", at |-> 0]} : file = [p EXCEPT !.cut = k]
  BY <1>1 DEF Persisted
<1>3. DOMAIN p = {"urls", "toc", "dict", "region", "size", "cut"}
  BY <1>1 DEF persist
<1>4. p.toc = dict_offsets(sort_entries(idx)) /\ Sections(p, idx)
  BY <1>1 DEF persist, Sections
<1>5. /\ file.toc = p.toc /\ file.dict = p.dict /\ file.region = p.region /\ file.size = p.size
      /\ file.cut = k
  BY <1>2, <1>3
<1>6. Sections(file, idx)
  BY <1>4, <1>5 DEF Sections
<1>7. k.part = "whole" \/ IsCut(file)
  <2>1. CASE k = [part |-> "whole", at |-> 0]
    BY <2>1
  <2>2. CASE k \in Cuts(p)
    <3>1. \/ k.part \in {"urls", "toc"}
          \/ k.part = "dict" /\ k.at \in 0..Len(p.dict)
          \/ k.part = "region" /\ k.at \in Nat
      BY <2>2 DEF Cuts
    <3> QED  BY <1>5, <3>1 DEF IsCut
  <2> QED  BY <1>2, <2>1, <2>2
<1> QED  BY <1>4, <1>5, <1>6, <1>7

\* In every chunk file, the entries of the dictionary from the offset of a slot
\* up to that of the next slot in use are exactly the words that begin with the
\* character of that slot, so that an unused slot reads as an empty range: the
\* order of radix_sort, the widths of the entries and the fill of unused slots
\* in persist fit together, for words of any bytes.
THEOREM BuilderTocBracketsWords == Spec => []TocBracketsWords
<1>1. IInv => TocBracketsWords
  <2> SUFFICES ASSUME IInv, NEW c \in DOMAIN files
               PROVE  Brackets(files[c].toc, [k \in DOMAIN files[c].dict |-> files[c].dict[k].word])
    BY DEF TocBracketsWords, Brackets
  <2> DEFINE idx == log[c]
             e   == sort_entries(idx)
  <2>1. Held(idx, Len(files[c].urls)) /\ Persisted(files[c], idx)
    BY DEF IInv, Chunked
  <2>2. PICK n : Dictionary(e, {w \in DOMAIN idx : HasSlot(w)}, n)
    <3>1. DOMAIN idx \in SUBSET Word /\ IsFiniteSet(DOMAIN idx)
      BY <2>1 DEF Held
    <3> QED  BY <3>1, EntriesAreDictionary
  <2>3. Brackets(dict_offsets(e), e)
    BY <2>2, TableBrackets
  <2>4. files[c].toc = dict_offsets(e)
        /\ files[c].dict = [i \in DOMAIN e |-> [word |-> e[i],
                                                posting_offset |-> posting_list_locations(e, idx)[i]]]
    <3>1. files[c].toc = dict_offsets(sort_entries(idx)) /\ Sections(files[c], idx)
      BY <2>1, PersistedParts
    <3> QED  BY <3>1 DEF Sections
  <2>5. [k \in DOMAIN files[c].dict |-> files[c].dict[k].word] = e
    <3>1. e = [k \in DOMAIN e |-> e[k]]
      BY <2>2 DEF Dictionary
    <3> HIDE DEF e, idx
    <3> QED  BY <2>4, <3>1
  <2> QED  BY <2>3, <2>4, <2>5
<1> QED  BY <1>1, Invariance, PTL

-----------------------------------------------------------------------------
(* Reading the chunk files back                                             *)

\* The gaps between the posts are numbers that lib/utf8.h carries, and no byte
\* of a word is above 127 where char is signed.
Readable(idx) == \A w \in DOMAIN idx : Indexable(w) => AreCarried(idx[w].posts) /\ Plain(w)

LEMMA HeldIsSound ==
    ASSUME NEW n \in Nat, NEW idx, Held(idx, n), Readable(idx)
    PROVE  Sound(idx)
<1>1. ASSUME NEW w \in DOMAIN idx
      PROVE  ArePosts(idx[w].posts) /\ idx[w].n_docs \in Nat
  <2>1. /\ idx[w].posts \in Seq(Posts(n)) /\ Ascending(idx[w].posts)
        /\ idx[w].n_docs = Cardinality(Docs(idx[w]))
    BY DEF Held
  <2>2. Posts(n) \subseteq [doc : Nat \ {0}, loc : Nat \ {0}]
    BY DEF Posts
  <2>3. idx[w].posts \in Seq([doc : Nat \ {0}, loc : Nat \ {0}])
    BY <2>1, <2>2, SeqMonotonic
  <2>4. IsFiniteSet(Docs(idx[w]))
    BY <2>1, FinitelyManyDocs
  <2> QED  BY <2>1, <2>3, <2>4, FS_CardinalityType DEF ArePosts
<1>2. \A w \in DOMAIN idx : HasSlot(w) => AreCarried(idx[w].posts) /\ Plain(w)
  BY DEF Readable, Indexable, HasSlot
<1> QED  BY <1>1, <1>2 DEF Sound, Held

LEMMA ChunkIsSound ==
    ASSUME IInv, NEW c \in DOMAIN files, Readable(log[c])
    PROVE  /\ Sound(log[c]) /\ Sections(files[c], log[c])
           /\ files[c].cut.part = "whole" \/ IsCut(files[c])
<1>1. IsList(files[c].urls) /\ Held(log[c], Len(files[c].urls)) /\ Persisted(files[c], log[c])
  BY DEF IInv, Chunked
<1>2. Len(files[c].urls) \in Nat
  BY <1>1, LenProperties DEF IsList
<1> QED  BY <1>1, <1>2, HeldIsSound, PersistedParts

\* Of every whole chunk file, a stream reader returns exactly what was indexed
\* under each word, post by post, with its document count and without a read
\* beyond the end, and the file counts as many words as were indexed: for every
\* input whose gaps lib/utf8.h carries and whose words both orders agree on.
THEOREM BuilderWordsReadBack ==
    Spec => []((\A c \in DOMAIN files : Readable(log[c])) => WordsReadBack)
<1>1. IInv => ((\A c \in DOMAIN files : Readable(log[c])) => WordsReadBack)
  <2> SUFFICES ASSUME IInv, \A c \in DOMAIN files : Readable(log[c]), NEW c \in DOMAIN files, IsWhole(c)
               PROVE  /\ \A w \in DOMAIN log[c] : Indexable(w) =>
                            /\ Stream(c, w).posts = log[c][w].posts
                            /\ Stream(c, w).reader.n_docs = log[c][w].n_docs
                            /\ ~Stream(c, w).reader.over
                      /\ LET words == {w \in DOMAIN log[c] : Indexable(w)}
                         IN  total_words(Chunks[c]) =
                               SumFunctionOnSet([w \in words |-> Len(log[c][w].posts)], words)
    BY DEF WordsReadBack
  <2>1. PICK file, idx : file = files[c] /\ idx = log[c]
    OBVIOUS
  <2>2. Sound(idx) /\ Sections(file, idx) /\ file.cut.part = "whole"
    BY <2>1, ChunkIsSound DEF IsWhole
  <2>3. Chunks[c] = LoadedIndex(file)
    BY <2>1 DEF Chunks, recover_index_chunks
  <2>4. Slotted(idx) = {w \in DOMAIN log[c] : Indexable(w)}
    BY <2>1 DEF Slotted, HasSlot, Indexable
  <2>5. ASSUME NEW w \in DOMAIN log[c], Indexable(w)
        PROVE  /\ Stream(c, w).posts = log[c][w].posts
               /\ Stream(c, w).reader.n_docs = log[c][w].n_docs
               /\ ~Stream(c, w).reader.over
    <3>1. w \in Slotted(idx)
      BY <2>4, <2>5
    <3>2. Stream(c, w) = WordRead(w, LoadedIndex(file))
      BY <2>3 DEF Stream, WordRead
    <3>3. /\ WordRead(w, LoadedIndex(file)).posts = idx[w].posts
          /\ WordRead(w, LoadedIndex(file)).reader.n_docs = idx[w].n_docs
          /\ ~WordRead(w, LoadedIndex(file)).reader.over
      BY <2>2, <3>1, WholeFileReadsBack
    <3> QED  BY <2>1, <3>2, <3>3
  <2>6. total_words(LoadedIndex(file)) =
          SumFunctionOnSet([w \in Slotted(idx) |-> Len(idx[w].posts)], Slotted(idx))
    BY <2>2, CountsAllPosts
  <2> QED  BY <2>1, <2>3, <2>4, <2>5, <2>6
<1> QED  BY <1>1, Invariance, PTL

\* Of a chunk file that a kill has cut anywhere, a stream reader returns for each
\* word a prefix of what was indexed, and it reads beyond the end only where the
\* end goes through a post: under the same condition on the input.
THEOREM BuilderCutChunksArePrefixes ==
    Spec => []((\A c \in DOMAIN files : Readable(log[c])) => CutChunksArePrefixes)
<1>1. IInv => ((\A c \in DOMAIN files : Readable(log[c])) => CutChunksArePrefixes)
  <2> SUFFICES ASSUME IInv, \A c \in DOMAIN files : Readable(log[c]), NEW c \in DOMAIN files, ~IsWhole(c),
                      NEW w \in DOMAIN log[c], Indexable(w)
               PROVE  /\ IsPrefix(Stream(c, w).posts, log[c][w].posts)
                      /\ Stream(c, w).reader.over => Chunks[c].size \notin PostEnds(c, w)
    BY DEF CutChunksArePrefixes
  <2>1. PICK file, idx : file = files[c] /\ idx = log[c]
    OBVIOUS
  <2>2. Sound(idx) /\ Sections(file, idx) /\ IsCut(file)
    BY <2>1, ChunkIsSound DEF IsWhole
  <2>3. Chunks[c] = LoadedIndex(file) /\ Stream(c, w) = WordRead(w, LoadedIndex(file))
    BY <2>1 DEF Chunks, recover_index_chunks, Stream, WordRead
  <2>4. w \in Slotted(idx)
    BY <2>1 DEF Slotted, HasSlot, Indexable
  <2>5. PICK t : t = CHOOSE i \in DOMAIN file.dict : file.dict[i].word = w
    OBVIOUS
  <2>6. t \in DOMAIN file.dict /\ file.dict[t].word = w
    <3>1. PICK e, n : LeadsToLists(file.dict, file.region, file.size, idx, e, n)
      BY <2>2, SectionsLead
    <3>2. PICK i \in 1..n : e[i] = w
      BY <2>4, <3>1, WordHasPlace
    <3>3. i \in DOMAIN file.dict /\ file.dict[i].word = w
      BY <3>1, <3>2 DEF LeadsToLists
    <3> QED  BY <2>5, <3>3
  <2>7. PICK P, b : P = idx[w].posts /\ b = file.dict[t].posting_offset
    OBVIOUS
  <2>8. ReadsPrefix(WordRead(w, LoadedIndex(file)), P, b, LoadedIndex(file).size)
    BY <2>2, <2>4, <2>6, <2>7, CutFileReadsPrefix
  <2>9. PostEnds(c, w) = {PostEnd(P, b, n) : n \in 0..Len(P)}
    <3>1. ArePosts(P)
      BY <2>2, <2>4, <2>7 DEF Sound, Slotted
    <3>2. Len(P) \in Nat /\ DOMAIN P = 1..Len(P)
      BY <3>1, PostsAre
    <3>3. ASSUME NEW n \in 0..Len(P)
          PROVE  PostEnd(P, b, n) = b + HeaderSize + Sum([j \in 1..n |-> PostSize(P, j)])
      <4>1. \A j \in 1..n : j \in DOMAIN P /\ Sizes(P)[j] = PostSize(P, j)
        BY <3>2 DEF Sizes
      <4>2. [j \in 1..n |-> Sizes(P)[j]] = [j \in 1..n |-> PostSize(P, j)]
        BY <4>1
      <4> QED  BY <4>2 DEF PostEnd, Written
    <3>4. PostEnds(c, w) = {b + HeaderSize + Sum([j \in 1..n |-> PostSize(P, j)]) : n \in 0..Len(P)}
      BY <2>1, <2>5, <2>7 DEF PostEnds
    <3> QED  BY <3>3, <3>4
  <2> QED  BY <2>1, <2>3, <2>7, <2>8, <2>9 DEF ReadsPrefix
<1> QED  BY <1>1, Invariance, PTL
=============================================================================
