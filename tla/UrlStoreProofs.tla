--------------------------- MODULE UrlStoreProofs ---------------------------
(***************************************************************************)
(* Proofs about the URL store, for every set of URLs, anchors and handlers,  *)
(* every division into shards and every sequence of batches, with persists   *)
(* and kills at any moment.                                                *)
(*                                                                         *)
(* Each layer is an inductive invariant that may use those before it:      *)
(*   Shape      types, and what the program counters say of the data       *)
(*   Locked     who holds which shard, and what is known of its URL        *)
(*   Dictionary anchor ids in memory and on disk                           *)
(*   Counted    the cap against the URLs stored, in memory and on disk     *)
(*   Handed     the one way of a URL to the frontier                       *)
(*   Sighted    which anchors may be counted for a URL                      *)
(*   Once       each request of a batch is merged once                     *)
(*   Tallied    the counts of a URL against what was merged into it          *)
(***************************************************************************)
EXTENDS UrlStore, SequenceProofs, SequenceTheorems, FiniteSetTheorems, TLAPS

Info    == [num : Nat, seed : Nat]
Freqs   == UNION {[D -> Nat] : D \in SUBSET Nat}
Records == [url : Urls, info : Info, freqs : Freqs, crawled : BOOLEAN]
Phases  == {"idle", "lookup", "add", "anchors", "push"}

\* A file of finitely many records, at most one for each URL.
IsFile(f) ==
    /\ f \in [anchors : Seq(Anchors), recs : SUBSET Records]
    /\ IsFiniteSet(f.recs)
    /\ \A r, s \in f.recs : r.url = s.url => r = s

\* A handler's indices are at their start whenever it is not using them.
Rewound ==
    \A h \in Handlers : /\ hpc[h] = "idle" => pos[h] = 1
                        /\ hpc[h] # "anchors" => apos[h] = 1 /\ ~fresh[h]

Shape ==
    /\ TypeOK
    /\ freqs \in [Urls -> Freqs]
    /\ toId \in [DOMAIN toId -> Nat]
    /\ IsFiniteSet(known)
    /\ IsFile(tmp) /\ IsFile(disk)
    /\ \A r \in tmp.recs : Shard[r.url] < written
    /\ Rewound

\* In updateUrl, with the shard's mutex held.
Held == {"add", "anchors"}

\* Two handlers never hold one shard, and under its mutex a handler knows
\* whether its URL is stored.
Locked ==
    /\ \A g, h \in Handlers :
           /\ hpc[g] \in Held /\ hpc[h] \in Held
           /\ Shard[Current(g).url] = Shard[Current(h).url]
           => g = h
    /\ \A h \in Handlers : /\ hpc[h] = "add" => Current(h).url \notin known
                           /\ hpc[h] = "anchors" => Current(h).url \in known

\* Anchors written to a file keep their place in the dictionary, and until the
\* file has been read back their text.
StartsTexts(anchors) == \A i \in DOMAIN anchors : i <= Len(texts) /\ texts[i] = anchors[i]

Dictionary == DictionaryInverse /\ StartsTexts(tmp.anchors) /\ DiskDictionaryIsPrefix

Adders == {h \in Handlers : hpc[h] = "add"}

\* Whoever will still add a URL saw room for it.
Counted ==
    /\ \A r \in tmp.recs \cup disk.recs : r.url \in known
    /\ unique = Cardinality(known)
    /\ unique + Cardinality(Adders) <= MaxStoreUrls + Cardinality(Handlers) - 1

\* The frontier and the handlers' bucket_targets, as one family of sequences.
Frontier == CHOOSE c : c \notin Handlers
Carriers == Handlers \cup {Frontier}
Line(c, p) == IF c \in Handlers THEN targets[c][p] ELSE frontier[p]

\* A URL is in one line once, or still being added, and stored in either case.
Handed ==
    /\ \A c \in Carriers : \A p \in Levels : /\ IsInjective(Line(c, p))
                                            /\ Range(Line(c, p)) \subseteq known
    /\ \A c, d \in Carriers : \A p, q \in Levels :
           c # d \/ p # q => Range(Line(c, p)) \cap Range(Line(d, q)) = {}
    /\ \A h \in Handlers : fresh[h] =>
           \A c \in Carriers : \A p \in Levels : Current(h).url \notin Range(Line(c, p))
    /\ \A h \in Handlers : hpc[h] = "add" \/ fresh[h] => Current(h).prio \in Levels
    /\ crashes = 0 =>
           \A u \in known : \/ \E c \in Carriers : \E p \in Levels : u \in Range(Line(c, p))
                            \/ \E h \in Handlers : fresh[h] /\ Current(h).url = u

\* The sighting whose anchors are being counted was merged before.
Sighted ==
    /\ \A h \in Handlers : hpc[h] = "anchors" => <<job[h], pos[h]>> \in applied[Current(h).url]
    /\ IdsMeanTheirTexts

\* A batch is one handler's, and a request of it is merged into its URL once,
\* when the handler is at it.
Once ==
    /\ \A g, h \in Handlers : job[g] = job[h] /\ job[g] # 0 => g = h
    /\ \A h \in Handlers : job[h] \notin inbox
    /\ \A u \in Urls : IsFiniteSet(applied[u])
    /\ \A u \in Urls : \A jp \in applied[u] :
           /\ jp \in Sightings /\ u \in known /\ jp[1] \notin inbox
           /\ \A h \in Handlers : job[h] = jp[1] =>
                  jp[2] < pos[h] \/ (jp[2] = pos[h] /\ hpc[h] = "anchors")
    /\ \A u \in Urls \ known : DOMAIN freqs[u] = {}

\* An anchor of a merged sighting that its handler has yet to count.
Pending(o) == \E h \in Handlers : /\ hpc[h] = "anchors" /\ o[1] = <<job[h], pos[h]>>
                                  /\ o[2] >= apos[h]

Tally(u, a) == {o \in Occurrences(applied[u], a) : ~Pending(o)}

\* MergesAreExact, with the anchors counted so far for those seen.
Tallied ==
    crashes = 0 =>
        \A u \in known :
            /\ info[u].num = SumOf(applied[u])
            /\ \A jp \in applied[u] : info[u].seed <= Sighting(jp).seed
            /\ \E jp \in applied[u] : info[u].seed = Sighting(jp).seed
            /\ \A id \in DOMAIN freqs[u] : freqs[u][id] <= Cardinality(Tally(u, texts[id + 1]))

-----------------------------------------------------------------------------
(* First layer.                                                            *)

LEMMA CurrentTyped ==
    ASSUME TypeOK, NEW h \in Handlers, hpc[h] \in {"lookup", "add", "anchors"}
    PROVE  /\ job[h] \in Jobs /\ pos[h] \in DOMAIN Batches[job[h]]
           /\ Current(h) \in Request
           /\ Current(h).url \in Urls /\ Current(h).anchors \in Seq(Anchors)
           /\ Current(h).seed \in Nat /\ Current(h).num \in Nat
           /\ Current(h).prio \in 0..PriorityBuckets
           /\ Shard[Current(h).url] \in Shards
<1>1. job[h] \in Jobs /\ pos[h] \in DOMAIN Batches[job[h]]
  BY DEF TypeOK
<1>2. Batches[job[h]] \in Seq(Request)
  BY <1>1, StoreAssumption
<1>3. Current(h) \in Request
  BY <1>1, <1>2, ElementOfSeq DEF Current
<1> QED  BY <1>1, <1>3, StoreAssumption DEF Request

LEMMA EmptyFileIsFile == IsFile(EmptyFile)
BY FS_EmptySet DEF IsFile, EmptyFile

LEMMA ShapeInit == Init => Shape
<1> SUFFICES ASSUME Init PROVE Shape
  OBVIOUS
<1> USE DEF Init
<1>1. TypeOK
  BY StoreAssumption DEF TypeOK, NoInfo, NoAnchors, NoTargets, Levels
<1>2. freqs \in [Urls -> Freqs]
  <2>1. NoAnchors \in [{} -> Nat]
    BY DEF NoAnchors
  <2> QED  BY <2>1 DEF Freqs
<1>3. IsFiniteSet(known) /\ IsFile(tmp) /\ IsFile(disk) /\ tmp.recs = {}
  BY FS_EmptySet, EmptyFileIsFile DEF EmptyFile
<1> QED  BY <1>1, <1>2, <1>3 DEF Shape, Rewound

LEMMA ShapeReceive ==
    ASSUME Shape, NEW h \in Handlers, Receive(h)
    PROVE  Shape'
<1> USE DEF Receive, Goto, memory, dict, persist, Shape
<1>1. PICK j \in inbox : /\ inbox' = inbox \ {j}
                         /\ job' = [job EXCEPT ![h] = j]
                         /\ hpc' = [hpc EXCEPT ![h] = IF Batches[j] = <<>> THEN "push" ELSE "lookup"]
  OBVIOUS
<1>2. j \in Jobs /\ j # 0 /\ Batches[j] \in Seq(Request)
  BY StoreAssumption DEF TypeOK
<1>3. Batches[j] # <<>> => 1 \in DOMAIN Batches[j]
  BY <1>2, EmptySeq, LenProperties
<1>4. TypeOK'
  BY <1>1, <1>2, <1>3 DEF TypeOK, Rewound
<1>5. Rewound'
  BY <1>1, <1>2 DEF TypeOK, Rewound
<1> QED  BY <1>4, <1>5

\* A handler that is done with a request has another one to look up, or pushes.
LEMMA AdvanceFacts ==
    ASSUME Shape, NEW h \in Handlers, hpc[h] \in {"lookup", "anchors"}, Advance(h)
    PROVE  /\ pos' \in [Handlers -> Nat \ {0}] /\ pos'[h] = pos[h] + 1
           /\ hpc' \in [Handlers -> Phases] /\ hpc'[h] \in {"lookup", "push"}
           /\ hpc'[h] = "lookup" => pos'[h] \in DOMAIN Batches[job[h]]
           /\ \A g \in Handlers \ {h} : pos'[g] = pos[g] /\ hpc'[g] = hpc[g]
           /\ job[h] # 0
<1>1. /\ job[h] \in Jobs /\ job[h] # 0 /\ Batches[job[h]] \in Seq(Request)
      /\ pos[h] \in DOMAIN Batches[job[h]]
  BY CurrentTyped, StoreAssumption DEF Shape
<1>2. Len(Batches[job[h]]) \in Nat /\ DOMAIN Batches[job[h]] = 1..Len(Batches[job[h]])
  BY <1>1, LenProperties
<1>3. pos \in [Handlers -> Nat \ {0}] /\ hpc \in [Handlers -> Phases]
  BY DEF Shape, TypeOK, Phases
<1> QED  BY <1>1, <1>2, <1>3 DEF Advance, Goto, Phases

LEMMA ShapeLookup ==
    ASSUME Shape, NEW h \in Handlers, LookupKnown(h) \/ LookupReject(h) \/ LookupNew(h)
    PROVE  Shape'
<1> DEFINE r == Current(h)
<1>1. hpc[h] = "lookup" /\ job[h] \in Jobs /\ pos[h] \in DOMAIN Batches[job[h]]
  BY CurrentTyped DEF LookupKnown, LookupReject, LookupNew, Shape
<1>2. r.url \in Urls /\ r.seed \in Nat /\ r.num \in Nat
  BY <1>1, CurrentTyped DEF Shape
<1>a. LookupReject(h) =>
          /\ pos' \in [Handlers -> Nat \ {0}] /\ pos'[h] = pos[h] + 1
          /\ hpc' \in [Handlers -> Phases] /\ hpc'[h] \in {"lookup", "push"}
          /\ hpc'[h] = "lookup" => pos'[h] \in DOMAIN Batches[job[h]]
          /\ \A g \in Handlers \ {h} : pos'[g] = pos[g] /\ hpc'[g] = hpc[g]
          /\ job[h] # 0
  BY <1>1, AdvanceFacts DEF LookupReject
<1> HIDE DEF r
<1> USE DEF memory, dict, persist, Shape
<1>3. CASE LookupKnown(h)
  <2>1. info' = [info EXCEPT ![r.url].num = @ + r.num, ![r.url].seed = MinOf(@, r.seed)]
        /\ hpc' = [hpc EXCEPT ![h] = "anchors"]
        /\ applied' = [applied EXCEPT ![r.url] = @ \cup {<<job[h], pos[h]>>}]
    BY <1>3 DEF LookupKnown, r, Goto
  <2>2. info' \in [Urls -> [num : Nat, seed : Nat]]
    <3>1. info \in [Urls -> [num : Nat, seed : Nat]]
      BY DEF TypeOK
    <3>2. info[r.url].num + r.num \in Nat /\ MinOf(info[r.url].seed, r.seed) \in Nat
      BY <1>2, <3>1 DEF MinOf
    <3> QED  BY <1>2, <2>1, <3>1, <3>2
  <2>3. applied' \in [Urls -> SUBSET (Jobs \X Nat)]
    BY <1>1, <1>2, <2>1 DEF TypeOK
  <2> QED  BY <1>1, <1>3, <2>1, <2>2, <2>3 DEF LookupKnown, TypeOK, Rewound
<1>4. CASE LookupReject(h)
  <2>0. UNCHANGED <<known, info, freqs, crawled, unique, toId, texts, inbox, job, apos, fresh,
                    targets, frontier, ppc, written, tmp, disk, crashes, applied>>
    BY <1>4 DEF LookupReject
  <2>1. TypeOK'
    BY <1>4, <1>a, <2>0 DEF TypeOK, Phases
  <2>2. Rewound'
    BY <1>1, <1>4, <1>a, <2>0 DEF Rewound
  <2> QED  BY <2>0, <2>1, <2>2
<1>5. CASE LookupNew(h)
  BY <1>1, <1>5 DEF LookupNew, Goto, TypeOK, Rewound
<1> QED  BY <1>3, <1>4, <1>5

LEMMA ShapeAdd ==
    ASSUME Shape, NEW h \in Handlers, Add(h)
    PROVE  Shape'
<1> USE DEF memory, dict, persist, Shape
<1>1. hpc[h] = "add" /\ job[h] \in Jobs /\ pos[h] \in DOMAIN Batches[job[h]]
  BY CurrentTyped DEF Add
<1> DEFINE r == Current(h)
<1>2. r.url \in Urls /\ r.seed \in Nat /\ r.num \in Nat
  BY <1>1, CurrentTyped
<1>3. /\ unique' = unique + 1
      /\ known' = known \cup {r.url}
      /\ info' = [info EXCEPT ![r.url] = [num |-> r.num, seed |-> r.seed]]
      /\ applied' = [applied EXCEPT ![r.url] = @ \cup {<<job[h], pos[h]>>}]
      /\ fresh' = [fresh EXCEPT ![h] = TRUE]
      /\ hpc' = [hpc EXCEPT ![h] = "anchors"]
      /\ UNCHANGED <<freqs, crawled, dict, inbox, job, pos, apos, targets, frontier, persist, crashes>>
  BY DEF Add, Goto
<1> HIDE DEF r
<1>4. IsFiniteSet(known')
  BY <1>3, FS_AddElement
<1>5. applied' \in [Urls -> SUBSET (Jobs \X Nat)]
  BY <1>1, <1>2, <1>3 DEF TypeOK
<1>6. TypeOK'
  <2>1. /\ known' \in SUBSET Urls /\ unique' \in Nat
        /\ info' \in [Urls -> [num : Nat, seed : Nat]] /\ crawled' \subseteq known'
    BY <1>2, <1>3 DEF TypeOK
  <2>2. /\ hpc' \in [Handlers -> {"idle", "lookup", "add", "anchors", "push"}]
        /\ fresh' \in [Handlers -> BOOLEAN]
    BY <1>3 DEF TypeOK
  <2>3. \A g \in Handlers :
           /\ hpc'[g] = "idle" <=> job'[g] = 0
           /\ hpc'[g] \in {"lookup", "add", "anchors"} => pos'[g] \in DOMAIN Batches[job'[g]]
    BY <1>1, <1>3 DEF TypeOK
  <2> QED  BY <1>3, <1>5, <2>1, <2>2, <2>3 DEF TypeOK
<1>7. Rewound'
  BY <1>1, <1>3 DEF Rewound, TypeOK
<1> QED  BY <1>1, <1>3, <1>4, <1>6, <1>7

\* A URL's counters after one anchor was counted.
LEMMA CountTyped ==
    ASSUME Shape, NEW h \in Handlers, NEW u \in Urls, NEW id \in Nat, CountAnchor(h, u, id)
    PROVE  /\ freqs' \in [Urls -> Freqs]
           /\ \A v \in Urls \ {u} : freqs'[v] = freqs[v]
           /\ DOMAIN freqs'[u] = DOMAIN freqs[u] \cup {id}
           /\ \A k \in DOMAIN freqs[u] \ {id} : freqs'[u][k] = freqs[u][k]
           /\ freqs'[u][id] = IF fresh[h] THEN 1
                              ELSE IF id \in DOMAIN freqs[u] THEN freqs[u][id] + 1 ELSE 1
           /\ DOMAIN freqs[u] \subseteq Nat
<1> DEFINE old == IF id \in DOMAIN freqs[u] THEN freqs[u][id] ELSE 0
           new == IF fresh[h] THEN 1 ELSE old + 1
           put == [x \in DOMAIN freqs[u] \cup {id} |-> IF x = id THEN new ELSE freqs[u][x]]
<1>1. freqs \in [Urls -> Freqs] /\ freqs[u] \in Freqs
  BY DEF Shape
<1>2. PICK D \in SUBSET Nat : freqs[u] \in [D -> Nat]
  BY <1>1 DEF Freqs
<1>3. freqs' = [freqs EXCEPT ![u] = put]
  BY DEF CountAnchor, Put
<1>4. new \in Nat
  BY <1>2
<1>5. put \in [D \cup {id} -> Nat] /\ D \cup {id} \in SUBSET Nat
  BY <1>2, <1>4
<1>6. put \in Freqs
  BY <1>5 DEF Freqs
<1>7. /\ DOMAIN put = DOMAIN freqs[u] \cup {id} /\ DOMAIN freqs[u] \subseteq Nat
      /\ \A k \in DOMAIN freqs[u] \ {id} : put[k] = freqs[u][k]
  BY <1>2
<1>8. put[id] = IF fresh[h] THEN 1 ELSE IF id \in DOMAIN freqs[u] THEN freqs[u][id] + 1 ELSE 1
  BY SMT
<1> HIDE DEF put
<1> QED  BY <1>1, <1>3, <1>6, <1>7, <1>8

\* What one turn of the loop over the anchors does to URL and dictionary.
AnchorStep(h, u, a) ==
    \/ /\ a \in DOMAIN toId /\ CountAnchor(h, u, toId[a]) /\ UNCHANGED dict
    \/ UNCHANGED <<freqs, dict>>
    \/ a \notin DOMAIN toId /\ NewId(h, u, a)

LEMMA AnchorCases ==
    ASSUME Shape, NEW h \in Handlers, Anchor(h)
    PROVE  /\ hpc[h] = "anchors" /\ apos[h] \in DOMAIN Current(h).anchors
           /\ Current(h).anchors[apos[h]] \in Anchors
           /\ apos' = [apos EXCEPT ![h] = apos[h] + 1]
           /\ AnchorStep(h, Current(h).url, Current(h).anchors[apos[h]])
           /\ UNCHANGED <<known, info, crawled, unique, inbox, job, hpc, pos, fresh,
                          targets, frontier, persist, crashes, applied>>
<1>1. hpc[h] = "anchors" /\ Current(h).anchors \in Seq(Anchors) /\ apos[h] \in Nat \ {0}
  BY CurrentTyped DEF Anchor, Shape, TypeOK
<1>2. apos[h] \in DOMAIN Current(h).anchors
  BY <1>1, LenProperties DEF Anchor
<1>3. Current(h).anchors[apos[h]] \in Anchors
  BY <1>1, <1>2, ElementOfSeq
<1> QED  BY <1>1, <1>2, <1>3 DEF Anchor, AnchorStep

\* Counting an anchor touches only the URL that is being updated.
LEMMA AnchorOthers ==
    ASSUME Shape, NEW h \in Handlers, Anchor(h), NEW v \in Urls, v # Current(h).url
    PROVE  freqs'[v] = freqs[v]
<1>1. freqs \in [Urls -> Freqs]
  BY DEF Shape
<1> QED  BY <1>1 DEF Anchor, CountAnchor, NewId

LEMMA ShapeAnchor ==
    ASSUME Shape, NEW h \in Handlers, Anchor(h)
    PROVE  Shape'
<1> DEFINE u == Current(h).url
           a == Current(h).anchors[apos[h]]
<1>1. /\ hpc[h] = "anchors" /\ a \in Anchors
      /\ apos' = [apos EXCEPT ![h] = apos[h] + 1]
      /\ AnchorStep(h, u, a)
      /\ UNCHANGED <<known, info, crawled, unique, inbox, job, hpc, pos, fresh,
                     targets, frontier, persist, crashes, applied>>
  BY AnchorCases
<1>2. u \in Urls
  BY <1>1, CurrentTyped DEF Shape
<1> HIDE DEF u, a
<1>3. /\ freqs' \in [Urls -> Freqs]
      /\ toId' \in [DOMAIN toId' -> Nat] /\ DOMAIN toId' \subseteq Anchors
      /\ texts' \in Seq(Anchors)
  <2>1. /\ toId \in [DOMAIN toId -> Nat] /\ DOMAIN toId \subseteq Anchors
        /\ texts \in Seq(Anchors) /\ freqs \in [Urls -> Freqs]
    BY DEF Shape, TypeOK
  <2>2. CASE a \in DOMAIN toId /\ CountAnchor(h, u, toId[a]) /\ UNCHANGED dict
    BY <1>2, <2>1, <2>2, CountTyped DEF dict
  <2>3. CASE UNCHANGED <<freqs, dict>>
    BY <2>1, <2>3 DEF dict
  <2>4. CASE NewId(h, u, a)
    <3>1. Len(texts) \in Nat /\ Append(texts, a) \in Seq(Anchors)
      BY <1>1, <2>1, LenProperties, AppendProperties
    <3>2. toId' = [x \in DOMAIN toId \cup {a} |-> IF x = a THEN Len(texts) ELSE toId[x]]
      BY <2>4 DEF NewId, Put
    <3>3. freqs' \in [Urls -> Freqs]
      BY <1>2, <2>4, <3>1, CountTyped DEF NewId
    <3> QED  BY <1>1, <2>1, <2>4, <3>1, <3>2, <3>3 DEF NewId
  <2> QED  BY <1>1, <2>2, <2>3, <2>4 DEF AnchorStep
<1>4. ASSUME NEW v \in Urls
      PROVE  DOMAIN freqs'[v] \subseteq Nat /\ \A id \in DOMAIN freqs'[v] : freqs'[v][id] \in Nat
  <2>1. freqs'[v] \in Freqs
    BY <1>3
  <2>2. PICK D \in SUBSET Nat : freqs'[v] \in [D -> Nat]
    BY <2>1 DEF Freqs
  <2> QED  BY <2>2
<1>5. TypeOK'
  BY <1>1, <1>3, <1>4 DEF Shape, TypeOK, persist
<1> QED  BY <1>1, <1>3, <1>5 DEF Shape, Rewound, TypeOK, persist

\* EXCEPT changes nothing outside the domain; by Handed a priority without a
\* bucket does not occur here.
LEMMA ShapeUnlock ==
    ASSUME Shape, NEW h \in Handlers, Unlock(h)
    PROVE  Shape'
<1>1. /\ hpc[h] = "anchors" /\ job[h] \in Jobs /\ Current(h).url \in Urls
      /\ Current(h).prio \in 0..PriorityBuckets
  BY CurrentTyped DEF Unlock, Shape
<1>2. /\ pos' \in [Handlers -> Nat \ {0}] /\ pos'[h] = pos[h] + 1
      /\ hpc' \in [Handlers -> Phases] /\ hpc'[h] \in {"lookup", "push"}
      /\ hpc'[h] = "lookup" => pos'[h] \in DOMAIN Batches[job[h]]
      /\ \A g \in Handlers \ {h} : pos'[g] = pos[g] /\ hpc'[g] = hpc[g]
      /\ job[h] # 0
  BY <1>1, AdvanceFacts DEF Unlock
<1>3. /\ UNCHANGED <<known, info, freqs, crawled, unique, toId, texts, inbox, job, frontier,
                      ppc, written, tmp, disk, crashes, applied>>
      /\ apos' = [apos EXCEPT ![h] = 1] /\ fresh' = [fresh EXCEPT ![h] = FALSE]
  BY DEF Unlock, memory, dict, persist
<1>4. targets' \in [Handlers -> [Levels -> Seq(Urls)]]
  <2>1. targets \in [Handlers -> [Levels -> Seq(Urls)]] /\ targets[h] \in [Levels -> Seq(Urls)]
    BY DEF Shape, TypeOK
  <2>2. \A p \in Levels : Append(targets[h][p], Current(h).url) \in Seq(Urls)
    BY <1>1, <2>1, AppendProperties
  <2> QED  BY <2>1, <2>2 DEF Unlock
<1> USE DEF Shape
<1>5. TypeOK'
  <2>1. /\ apos' \in [Handlers -> Nat \ {0}] /\ fresh' \in [Handlers -> BOOLEAN]
        /\ UNCHANGED <<known, info, freqs, crawled, unique, toId, texts, inbox, job, frontier,
                       ppc, written, tmp, disk, crashes, applied>>
    BY <1>3 DEF TypeOK
  <2> QED  BY <1>2, <1>4, <2>1 DEF TypeOK, Phases
<1>6. Rewound'
  BY <1>1, <1>2, <1>3 DEF Rewound, TypeOK
<1> QED  BY <1>3, <1>5, <1>6

LEMMA ShapePush ==
    ASSUME Shape, NEW h \in Handlers, Push(h)
    PROVE  Shape'
<1> USE DEF memory, dict, persist, Shape
<1>1. PICK p \in Levels : /\ frontier' = [frontier EXCEPT ![p] = @ \o targets[h][p]]
                          /\ targets' = [targets EXCEPT ![h][p] = <<>>]
  BY DEF Push
<1>2. frontier \in [Levels -> Seq(Urls)] /\ targets \in [Handlers -> [Levels -> Seq(Urls)]]
  BY DEF TypeOK
<1>3. frontier[p] \o targets[h][p] \in Seq(Urls) /\ <<>> \in Seq(Urls)
  BY <1>2, ConcatProperties, EmptySeq
<1>4. /\ frontier' \in [Levels -> Seq(Urls)]
      /\ targets' \in [Handlers -> [Levels -> Seq(Urls)]]
  BY <1>1, <1>2, <1>3
<1>5. TypeOK'
  BY <1>4 DEF TypeOK, Push
<1> QED  BY <1>5 DEF Push, Rewound

LEMMA ShapeFinish ==
    ASSUME Shape, NEW h \in Handlers, Finish(h)
    PROVE  Shape'
<1> USE DEF memory, dict, persist, Shape
<1>1. /\ hpc[h] = "push"
      /\ job' = [job EXCEPT ![h] = 0] /\ pos' = [pos EXCEPT ![h] = 1]
      /\ hpc' = [hpc EXCEPT ![h] = "idle"]
  BY DEF Finish, Goto
<1>2. TypeOK'
  BY <1>1 DEF TypeOK, Finish
<1> QED  BY <1>1, <1>2 DEF Finish, Rewound, TypeOK

LEMMA ShapeMarkCrawled ==
    ASSUME Shape, NEW u \in Urls, MarkCrawled(u)
    PROVE  Shape'
BY DEF MarkCrawled, Shape, TypeOK, Rewound, dict, handling, persist

-----------------------------------------------------------------------------
(* The file.                                                               *)

LEMMA RecordTyped ==
    ASSUME Shape, NEW u \in known
    PROVE  /\ Record(u) \in Records /\ Record(u).url = u /\ Record(u).info = info[u]
           /\ Record(u).freqs = freqs[u] /\ Record(u).crawled = (u \in crawled)
BY DEF Record, Records, Shape, TypeOK, Info

\* Writing a shard keeps one record for each URL: no shard is written twice.
LEMMA FileGrows ==
    ASSUME Shape, PersistShard
    PROVE  /\ IsFile(tmp') /\ tmp'.anchors = tmp.anchors
           /\ \A r \in tmp'.recs : /\ Shard[r.url] < written'
                                   /\ r.url \in {s.url : s \in tmp.recs} \cup known
           /\ \A r \in tmp'.recs \ tmp.recs : r.url \in known /\ r = Record(r.url)
<1> DEFINE here == {v \in known : Shard[v] = written}
           more == {Record(u) : u \in here}
<1>1. /\ tmp' = [tmp EXCEPT !.recs = @ \cup more] /\ written' = written + 1
      /\ written \in Nat
  BY DEF PersistShard, Shape, TypeOK
<1>2. /\ tmp \in [anchors : Seq(Anchors), recs : SUBSET Records] /\ IsFiniteSet(tmp.recs)
      /\ \A r, s \in tmp.recs : r.url = s.url => r = s
      /\ \A r \in tmp.recs : Shard[r.url] < written
  BY DEF Shape, IsFile
<1>3. IsFiniteSet(more)
  <2>1. IsFiniteSet(here)
    BY FS_Subset DEF Shape
  <2>2. [u \in here |-> Record(u)] \in Surjection(here, more)
    BY DEF Surjection
  <2> QED  BY <2>1, <2>2, FS_Surjection
<1>4. \A r \in more : r \in Records /\ r.url \in known /\ r = Record(r.url) /\ Shard[r.url] = written
  BY RecordTyped
<1>5. tmp' \in [anchors : Seq(Anchors), recs : SUBSET Records]
      /\ tmp'.recs = tmp.recs \cup more /\ tmp'.anchors = tmp.anchors
  <2>1. more \subseteq Records
    BY <1>4
  <2> HIDE DEF more, here
  <2> QED  BY <1>1, <1>2, <2>1
<1>6. IsFiniteSet(tmp'.recs)
  <2> HIDE DEF more
  <2>1. IsFiniteSet(tmp.recs) /\ IsFiniteSet(more)
    BY <1>2, <1>3
  <2>2. IsFiniteSet(tmp.recs \cup more)
    BY <2>1, FS_Union
  <2> QED  BY <1>5, <2>2
<1>7. \A r \in tmp'.recs : Shard[r.url] < written'
  <2>1. \A r \in Records : Shard[r.url] \in Int
    BY StoreAssumption DEF Records, Shards
  <2> QED  BY <1>1, <1>2, <1>4, <1>5, <2>1
<1>8. \A r, s \in tmp'.recs : r.url = s.url => r = s
  BY <1>1, <1>2, <1>4, <1>5
<1> HIDE DEF more, here
<1> QED  BY <1>4, <1>5, <1>6, <1>7, <1>8 DEF IsFile

LEMMA ShapePersist ==
    ASSUME Shape, Persist
    PROVE  Shape'
<1>1. CASE PersistAnchors
  <2>1. IsFile(tmp') /\ tmp'.recs = {}
    BY <1>1, FS_EmptySet DEF PersistAnchors, IsFile, Shape, TypeOK
  <2>2. TypeOK'
    BY <1>1, StoreAssumption DEF PersistAnchors, Shape, TypeOK, memory, dict, handling
  <2> QED  BY <1>1, <2>1, <2>2 DEF PersistAnchors, Shape, Rewound, memory, dict, handling
<1>2. CASE PersistShard
  <2>1. IsFile(tmp') /\ \A r \in tmp'.recs : Shard[r.url] < written'
    BY <1>2, FileGrows
  <2>3. ppc' = ppc /\ written' \in 0..NumShards
    BY <1>2, StoreAssumption DEF PersistShard, Shape, TypeOK
  <2>4. UNCHANGED <<memory, dict, inbox, handling, frontier, crashes, applied>>
    BY <1>2 DEF PersistShard
  <2>2. TypeOK'
    BY <2>3, <2>4 DEF Shape, TypeOK, memory, dict, handling
  <2> QED  BY <1>2, <2>1, <2>2 DEF PersistShard, Shape, Rewound, memory, dict, handling
<1>3. CASE PersistRename
  <2>1. IsFile(tmp') /\ tmp'.recs = {} /\ IsFile(disk')
    BY <1>3, EmptyFileIsFile DEF PersistRename, Shape, EmptyFile
  <2>2. TypeOK'
    BY <1>3, StoreAssumption DEF PersistRename, Shape, TypeOK, memory, dict, handling
  <2> QED  BY <1>3, <2>1, <2>2 DEF PersistRename, Shape, Rewound, memory, dict, handling
<1> QED  BY <1>1, <1>2, <1>3 DEF Persist

\* What a restart finds in the file, URL by URL.
LEMMA ReadBack ==
    ASSUME Shape, Restart
    PROVE  /\ known' = {r.url : r \in disk.recs} /\ known' \subseteq Urls
           /\ IsFiniteSet(known') /\ unique' = Cardinality(known') /\ unique' \in Nat
           /\ crawled' \subseteq known'
           /\ info' \in [Urls -> Info] /\ freqs' \in [Urls -> Freqs]
           /\ \A r \in disk.recs : info'[r.url] = r.info /\ freqs'[r.url] = r.freqs
           /\ \A u \in Urls \ known' : freqs'[u] = NoAnchors
<1> DEFINE recs == disk.recs
           Of(u) == CHOOSE r \in recs : r.url = u
<1>1. /\ recs \subseteq Records /\ IsFiniteSet(recs)
      /\ \A r, s \in recs : r.url = s.url => r = s
  BY DEF Shape, IsFile
<1>2. /\ known' = {r.url : r \in recs}
      /\ info' = [u \in Urls |-> IF u \in known' THEN Of(u).info ELSE NoInfo]
      /\ freqs' = [u \in Urls |-> IF u \in known' THEN Of(u).freqs ELSE NoAnchors]
      /\ crawled' = {r.url : r \in {r \in recs : r.crawled}}
      /\ unique' = Cardinality(recs)
  BY DEF Restart
<1> HIDE DEF recs
<1>3. \A r \in recs : Of(r.url) = r
  BY <1>1
<1>4. \A u \in known' : Of(u) \in recs /\ Of(u).url = u
  BY <1>2, <1>3
<1>5. \A r \in recs : r.url \in Urls /\ r.info \in Info /\ r.freqs \in Freqs
  BY <1>1 DEF Records
<1>6. known' \subseteq Urls /\ crawled' \subseteq known'
  BY <1>2, <1>5
<1>7. NoInfo \in Info /\ NoAnchors \in Freqs
  <2>1. NoAnchors \in [{} -> Nat]
    BY DEF NoAnchors
  <2> QED  BY <2>1 DEF Freqs, NoInfo, Info
<1>8. info' \in [Urls -> Info] /\ freqs' \in [Urls -> Freqs]
  <2> HIDE DEF Of
  <2>1. \A u \in known' : Of(u).info \in Info /\ Of(u).freqs \in Freqs
    BY <1>4, <1>5
  <2> QED  BY <1>2, <1>7, <2>1
<1>9. IsFiniteSet(known') /\ unique' = Cardinality(known') /\ unique' \in Nat
  <2> DEFINE key == [r \in recs |-> r.url]
  <2>1. key \in Bijection(recs, known')
    BY <1>1, <1>2 DEF Bijection, Injection, Surjection, IsInjective
  <2> QED  BY <1>1, <1>2, <2>1, FS_Bijection, FS_CardinalityType DEF ExistsBijection
<1>10. \A r \in recs : info'[r.url] = r.info /\ freqs'[r.url] = r.freqs
  <2> HIDE DEF Of
  <2> QED  BY <1>2, <1>3, <1>5
<1>11. \A u \in Urls \ known' : freqs'[u] = NoAnchors
  BY <1>2
<1> QED  BY <1>2, <1>6, <1>8, <1>9, <1>10, <1>11 DEF recs

\* Where a text stands in a sequence that it occurs in.
LEMMA LastPlaceFacts ==
    ASSUME NEW s \in Seq(Anchors), NEW a, \E i \in DOMAIN s : s[i] = a
    PROVE  LastPlace(s, a) \in DOMAIN s /\ s[LastPlace(s, a)] = a
<1>1. Len(s) \in Nat /\ DOMAIN s = 1..Len(s)
  BY LenProperties
<1> DEFINE Behind == {Len(s) - i : i \in {k \in DOMAIN s : s[k] = a}}
<1>2. Behind \in SUBSET Nat /\ Behind # {}
  BY <1>1
<1>3. PICK n \in Behind : \A m \in Behind : n <= m
  BY <1>2, LeastNumber
<1>4. PICK i \in DOMAIN s : s[i] = a /\ n = Len(s) - i
  BY <1>3
<1>5. ASSUME NEW k \in DOMAIN s, s[k] = a PROVE k <= i
  <2>1. Len(s) - k \in Behind
    BY <1>5
  <2>2. n <= Len(s) - k
    BY <1>3, <2>1
  <2> QED  BY <1>1, <1>4, <2>2
<1> QED  BY <1>4, <1>5 DEF LastPlace

\* What readFromFile makes of the anchors in the file.
LEMMA AnchorsReadFacts ==
    ASSUME Shape
    PROVE  /\ AnchorsRead \in Seq(Anchors) /\ disk.anchors \in Seq(Anchors)
           /\ DOMAIN AnchorsRead = DOMAIN disk.anchors
           /\ \A i \in DOMAIN disk.anchors : /\ disk.anchors[i] \in Anchors
                                             /\ AnchorsRead[i] = Cut[disk.anchors[i]]
<1>1. disk.anchors \in Seq(Anchors)
  BY DEF Shape, IsFile
<1>2. /\ Len(disk.anchors) \in Nat /\ DOMAIN disk.anchors = 1..Len(disk.anchors)
      /\ \A i \in DOMAIN disk.anchors : disk.anchors[i] \in Anchors
  BY <1>1, LenProperties, ElementOfSeq
<1>3. AnchorsRead \in [1..Len(disk.anchors) -> Anchors]
  BY <1>2, StoreAssumption DEF AnchorsRead
<1>4. AnchorsRead \in Seq(Anchors)
  BY <1>2, <1>3, FunctionIsSeq
<1> QED  BY <1>1, <1>2, <1>4 DEF AnchorsRead

LEMMA RestartIdle ==
    ASSUME Restart, NEW h \in Handlers
    PROVE  /\ job'[h] = 0 /\ hpc'[h] = "idle" /\ pos'[h] = 1 /\ apos'[h] = 1
           /\ fresh'[h] = FALSE /\ targets'[h] = NoTargets
BY DEF Restart

LEMMA ShapeRestart ==
    ASSUME Shape, Restart
    PROVE  Shape'
<1>1. /\ known' \subseteq Urls /\ IsFiniteSet(known') /\ crawled' \subseteq known'
      /\ unique' \in Nat /\ info' \in [Urls -> Info] /\ freqs' \in [Urls -> Freqs]
  BY ReadBack
<1>2. \A u \in Urls : /\ DOMAIN freqs'[u] \subseteq Nat
                      /\ \A id \in DOMAIN freqs'[u] : freqs'[u][id] \in Nat
  <2> SUFFICES ASSUME NEW u \in Urls
               PROVE  /\ DOMAIN freqs'[u] \subseteq Nat
                      /\ \A id \in DOMAIN freqs'[u] : freqs'[u][id] \in Nat
    OBVIOUS
  <2>1. freqs'[u] \in Freqs
    BY <1>1
  <2>2. PICK D \in SUBSET Nat : freqs'[u] \in [D -> Nat]
    BY <2>1 DEF Freqs
  <2> QED  BY <2>2
<1>3. /\ texts' \in Seq(Anchors)
      /\ toId' \in [DOMAIN toId' -> Nat] /\ DOMAIN toId' \subseteq Anchors
  <2>1. texts' = AnchorsRead /\ texts' \in Seq(Anchors)
    BY AnchorsReadFacts DEF Restart
  <2>2. \A i \in DOMAIN texts' : i \in Nat \ {0} /\ texts'[i] \in Anchors
    BY <2>1, LenProperties, ElementOfSeq
  <2>3. toId' = [a \in {texts'[i] : i \in DOMAIN texts'} |-> LastPlace(texts', a) - 1]
    BY DEF Restart
  <2>4. \A a \in {texts'[i] : i \in DOMAIN texts'} : LastPlace(texts', a) \in DOMAIN texts'
    BY <2>1, LastPlaceFacts
  <2> QED  BY <2>1, <2>2, <2>3, <2>4
<1>4. \A h \in Handlers : NoTargets \in [Levels -> Seq(Urls)]
  BY EmptySeq DEF NoTargets
<1>5. TypeOK'
  <2>1. /\ inbox' \subseteq Jobs /\ crashes' \in 0..MaxCrashes
        /\ frontier' \in [Levels -> Seq(Urls)] /\ ppc' = "idle" /\ written' = 0
        /\ applied' \in [Urls -> SUBSET (Jobs \X Nat)]
    BY EmptySeq, StoreAssumption DEF Restart, NoTargets, Shape, TypeOK
  <2>2. /\ job' \in [Handlers -> Jobs \cup {0}]
        /\ hpc' \in [Handlers -> {"idle", "lookup", "add", "anchors", "push"}]
        /\ pos' \in [Handlers -> Nat \ {0}] /\ apos' \in [Handlers -> Nat \ {0}]
        /\ fresh' \in [Handlers -> BOOLEAN]
        /\ targets' \in [Handlers -> [Levels -> Seq(Urls)]]
    BY <1>4 DEF Restart
  <2>3. written' \in 0..NumShards
    BY <2>1, StoreAssumption
  <2> QED  BY <1>1, <1>2, <1>3, <2>1, <2>2, <2>3, RestartIdle DEF TypeOK, Info
<1>6. IsFile(tmp') /\ tmp'.recs = {} /\ IsFile(disk')
  BY EmptyFileIsFile DEF Restart, Shape, EmptyFile
<1> QED  BY <1>1, <1>3, <1>5, <1>6, RestartIdle DEF Shape, Rewound

LEMMA ShapeStutter ==
    ASSUME Shape, UNCHANGED vars
    PROVE  Shape'
BY DEF vars, memory, dict, handling, persist, Shape, TypeOK, Rewound, IsFile

LEMMA ShapeNext ==
    ASSUME Shape, [Next]_vars
    PROVE  Shape'
<1>1. ASSUME NEW h \in Handlers, Handle(h)
      PROVE  Shape'
  BY <1>1, ShapeReceive, ShapeLookup, ShapeAdd, ShapeAnchor, ShapeUnlock, ShapePush, ShapeFinish
     DEF Handle
<1> QED  BY <1>1, ShapeMarkCrawled, ShapePersist, ShapeRestart, ShapeStutter DEF Next

LEMMA ShapeSpec == Spec => []Shape
BY ShapeInit, ShapeNext, PTL DEF Spec

\* Every variable keeps its type, a handler stays inside its batch, and a URL is
\* marked crawled only while it is stored (batch_manage_frontier_and_update_url,
\* updateUrl, persist, readFromFile).
THEOREM StoreTypeOK == Spec => []TypeOK
<1>1. Shape => TypeOK
  BY DEF Shape
<1> QED  BY <1>1, ShapeSpec, PTL

-----------------------------------------------------------------------------
(* Second layer: the shards' mutexes.                                      *)

\* A handler's step leaves the other handlers where they are.
LEMMA HandlerFrame ==
    ASSUME Shape, NEW h \in Handlers, Handle(h), NEW g \in Handlers, g # h
    PROVE  /\ job'[g] = job[g] /\ hpc'[g] = hpc[g] /\ pos'[g] = pos[g] /\ apos'[g] = apos[g]
           /\ fresh'[g] = fresh[g] /\ targets'[g] = targets[g]
           /\ Current(g)' = Current(g)
<1> SUFFICES /\ job'[g] = job[g] /\ hpc'[g] = hpc[g] /\ pos'[g] = pos[g] /\ apos'[g] = apos[g]
             /\ fresh'[g] = fresh[g] /\ targets'[g] = targets[g]
  BY DEF Current
<1>0. /\ job \in [Handlers -> Jobs \cup {0}]
      /\ hpc \in [Handlers -> {"idle", "lookup", "add", "anchors", "push"}]
      /\ pos \in [Handlers -> Nat \ {0}] /\ apos \in [Handlers -> Nat \ {0}]
      /\ fresh \in [Handlers -> BOOLEAN]
      /\ targets \in [Handlers -> [Levels -> Seq(Urls)]]
  BY DEF Shape, TypeOK
<1>1. CASE Receive(h)
  BY <1>0, <1>1 DEF Receive, Goto
<1>2. CASE LookupKnown(h) \/ LookupNew(h) \/ Add(h)
  BY <1>0, <1>2 DEF LookupKnown, LookupNew, Add, Goto
<1>3. CASE LookupReject(h)
  BY <1>0, <1>3 DEF LookupReject, Advance, Goto
<1>4. CASE Anchor(h)
  BY <1>0, <1>4 DEF Anchor
<1>5. CASE Unlock(h)
  BY <1>0, <1>5 DEF Unlock, Advance, Goto
<1>6. CASE Push(h)
  BY <1>0, <1>6 DEF Push
<1>7. CASE Finish(h)
  BY <1>0, <1>7 DEF Finish, Goto
<1> QED  BY <1>1, <1>2, <1>3, <1>4, <1>5, <1>6, <1>7 DEF Handle

\* A handler enters updateUrl with the mutex free, and only Add stores a URL.
LEMMA HolderStep ==
    ASSUME Shape, Locked, NEW h \in Handlers, Handle(h)
    PROVE  /\ hpc'[h] \in Held =>
                  /\ job'[h] = job[h] /\ pos'[h] = pos[h] /\ Current(h)' = Current(h)
                  /\ \/ hpc[h] \in Held
                     \/ hpc[h] = "lookup" /\ ~ShardLocked(Shard[Current(h).url])
           /\ hpc'[h] = "add" => Current(h).url \notin known /\ known' = known
           /\ hpc'[h] = "anchors" => Current(h).url \in known'
           /\ known' = known \/ (hpc[h] = "add" /\ known' = known \cup {Current(h).url})
<1>0. hpc \in [Handlers -> {"idle", "lookup", "add", "anchors", "push"}]
  BY DEF Shape, TypeOK
<1> USE DEF Held, memory
<1>1. CASE Receive(h)
  BY <1>0, <1>1 DEF Receive, Goto
<1>2. CASE LookupKnown(h)
  BY <1>0, <1>2 DEF LookupKnown, Goto, Current
<1>3. CASE LookupNew(h)
  BY <1>0, <1>3 DEF LookupNew, Goto, Current
<1>4. CASE Add(h)
  BY <1>0, <1>4 DEF Add, Goto, Current
<1>5. CASE LookupReject(h)
  BY <1>0, <1>5 DEF LookupReject, Advance, Goto
<1>6. CASE Anchor(h)
  BY <1>0, <1>6 DEF Anchor, Current, Locked
<1>7. CASE Unlock(h)
  BY <1>0, <1>7 DEF Unlock, Advance, Goto
<1>8. CASE Push(h) \/ Finish(h)
  BY <1>0, <1>8 DEF Push, Finish, Goto
<1> QED  BY <1>1, <1>2, <1>3, <1>4, <1>5, <1>6, <1>7, <1>8 DEF Handle

LEMMA LockedInit == Init => Locked
BY DEF Init, Locked, Held

LEMMA LockedHandle ==
    ASSUME Shape, Locked, NEW h \in Handlers, Handle(h)
    PROVE  Locked'
<1> USE HolderStep, HandlerFrame
<1>1. \A g \in Handlers \ {h} : hpc[g] \in Held /\ hpc'[h] \in Held =>
                                Shard[Current(g).url] # Shard[Current(h).url]
  <2> SUFFICES ASSUME NEW g \in Handlers \ {h}, hpc[g] \in Held, hpc'[h] \in Held
               PROVE  Shard[Current(g).url] # Shard[Current(h).url]
    OBVIOUS
  <2>1. CASE hpc[h] \in Held
    BY <2>1 DEF Locked
  <2>2. CASE ~ShardLocked(Shard[Current(h).url])
    BY <2>2 DEF ShardLocked, Held
  <2> QED  BY <2>1, <2>2
<1>2. ASSUME NEW f \in Handlers, NEW g \in Handlers, hpc'[f] \in Held, hpc'[g] \in Held,
             Shard[Current(f)'.url] = Shard[Current(g)'.url]
      PROVE  f = g
  <2>1. CASE f # h /\ g # h
    BY <1>2, <2>1 DEF Locked
  <2>2. CASE f = h \/ g = h
    BY <1>1, <1>2, <2>2
  <2> QED  BY <2>1, <2>2
<1>3. ASSUME NEW g \in Handlers, hpc'[g] = "add"
      PROVE  Current(g)'.url \notin known'
  <2>1. CASE g = h
    BY <1>3, <2>1 DEF Held
  <2>2. CASE g # h
    <3>1. hpc[g] = "add" /\ Current(g)' = Current(g) /\ Current(g).url \notin known
      BY <1>3, <2>2 DEF Locked
    <3>2. hpc[h] = "add" => Current(g).url # Current(h).url
      BY <2>2, <3>1 DEF Locked, Held
    <3> QED  BY <3>1, <3>2
  <2> QED  BY <2>1, <2>2
<1>4. ASSUME NEW g \in Handlers, hpc'[g] = "anchors"
      PROVE  Current(g)'.url \in known'
  <2>1. CASE g = h
    BY <1>4, <2>1 DEF Held
  <2>2. CASE g # h
    BY <1>4, <2>2 DEF Locked
  <2> QED  BY <2>1, <2>2
<1> QED  BY <1>2, <1>3, <1>4 DEF Locked

\* A step that is no handler's leaves the handlers alone or stops them all.
LEMMA OtherSteps ==
    ASSUME Shape, (\E u \in Urls : MarkCrawled(u)) \/ Persist \/ UNCHANGED vars
    PROVE  /\ UNCHANGED <<known, info, freqs, unique, toId, texts, inbox, job, hpc, pos, apos,
                          fresh, targets, frontier, crashes, applied>>
           /\ \A h \in Handlers : Current(h)' = Current(h)
<1>1. UNCHANGED <<known, info, freqs, unique, toId, texts, inbox, job, hpc, pos, apos,
                  fresh, targets, frontier, crashes, applied>>
  BY DEF MarkCrawled, Persist, PersistAnchors, PersistShard, PersistRename, vars, memory,
         dict, handling, persist
<1> QED  BY <1>1 DEF Current

LEMMA LockedNext ==
    ASSUME Shape, Locked, [Next]_vars
    PROVE  Locked'
<1>1. CASE (\E u \in Urls : MarkCrawled(u)) \/ Persist \/ UNCHANGED vars
  <2>1. /\ known' = known /\ hpc' = hpc
        /\ \A h \in Handlers : Current(h)' = Current(h)
    BY <1>1, OtherSteps
  <2> QED  BY <2>1 DEF Locked
<1>2. CASE Restart
  BY <1>2, RestartIdle DEF Locked, Held
<1> QED  BY <1>1, <1>2, LockedHandle DEF Next

LEMMA LockedSpec == Spec => [](Shape /\ Locked)
<1>1. Init => Shape /\ Locked
  BY ShapeInit, LockedInit
<1>2. Shape /\ Locked /\ [Next]_vars => (Shape /\ Locked)'
  BY ShapeNext, LockedNext
<1> QED  BY <1>1, <1>2, PTL DEF Spec

-----------------------------------------------------------------------------
(* Third layer: the anchor dictionary, in memory and on disk.              *)

\* Giving a new text the next id keeps the dictionary's two sides inverse.
LEMMA NewIdKeeps ==
    ASSUME Shape, Dictionary, NEW a \in Anchors, a \notin DOMAIN toId,
           toId' = Put(toId, a, Len(texts)), texts' = Append(texts, a)
    PROVE  /\ DictionaryInverse'
           /\ Len(texts') = Len(texts) + 1
           /\ \A i \in DOMAIN texts : i \in DOMAIN texts' /\ texts'[i] = texts[i]
<1>1. texts \in Seq(Anchors) /\ toId \in [DOMAIN toId -> Nat]
  BY DEF Shape, TypeOK
<1>2. /\ Len(texts) \in Nat /\ Len(texts') = Len(texts) + 1
      /\ DOMAIN texts = 1..Len(texts) /\ DOMAIN texts' = 1..(Len(texts) + 1)
      /\ \A i \in 1..Len(texts) : texts'[i] = texts[i]
      /\ texts'[Len(texts) + 1] = a
  BY <1>1, AppendProperties, LenProperties
<1>3. /\ DOMAIN toId' = DOMAIN toId \cup {a} /\ toId'[a] = Len(texts)
      /\ \A b \in DOMAIN toId : toId'[b] = toId[b]
  BY <1>1 DEF Put
<1>4. \A b \in DOMAIN toId : /\ toId[b] \in Nat /\ toId[b] < Len(texts)
                             /\ texts[toId[b] + 1] = b /\ toId[b] + 1 \in 1..Len(texts)
  BY <1>1, <1>2 DEF Dictionary, DictionaryInverse
<1>5. \A i \in DOMAIN texts : /\ texts[i] \in DOMAIN toId
                              /\ Whole(texts[i]) => toId[texts[i]] = i - 1
  BY DEF Dictionary, DictionaryInverse
<1>6. \A b \in DOMAIN toId' : toId'[b] < Len(texts') /\ texts'[toId'[b] + 1] = b
  BY <1>2, <1>3, <1>4
<1>7. ASSUME NEW i \in DOMAIN texts'
      PROVE  texts'[i] \in DOMAIN toId' /\ (Whole(texts'[i]) => toId'[texts'[i]] = i - 1)
  <2>1. CASE i = Len(texts) + 1
    BY <1>2, <1>3, <2>1
  <2>2. CASE i # Len(texts) + 1
    <3>1. i \in DOMAIN texts /\ texts'[i] = texts[i]
      BY <1>2, <2>2
    <3>2. texts[i] \in DOMAIN toId /\ (Whole(texts[i]) => toId[texts[i]] = i - 1)
      BY <1>5, <3>1
    <3> QED  BY <1>3, <3>1, <3>2
  <2> QED  BY <2>1, <2>2
<1>8. \A i \in DOMAIN texts : i \in DOMAIN texts' /\ texts'[i] = texts[i]
  BY <1>2
<1>9. DictionaryInverse'
  BY <1>6, <1>7 DEF DictionaryInverse
<1> QED  BY <1>2, <1>8, <1>9

LEMMA DictionaryAnchor ==
    ASSUME Shape, Dictionary, NEW h \in Handlers, Anchor(h)
    PROVE  Dictionary'
<1> DEFINE a == Current(h).anchors[apos[h]]
<1>1. /\ a \in Anchors /\ AnchorStep(h, Current(h).url, a)
      /\ tmp' = tmp /\ disk' = disk
  BY AnchorCases DEF persist
<1> HIDE DEF a
<1>2. CASE UNCHANGED dict
  BY <1>1, <1>2 DEF dict, Dictionary, DictionaryInverse, DiskDictionaryIsPrefix, StartsTexts
<1>3. CASE a \notin DOMAIN toId /\ NewId(h, Current(h).url, a)
  <2>1. /\ DictionaryInverse' /\ Len(texts') = Len(texts) + 1
        /\ \A i \in DOMAIN texts : i \in DOMAIN texts' /\ texts'[i] = texts[i]
    <3>1. toId' = Put(toId, a, Len(texts)) /\ texts' = Append(texts, a)
      BY <1>3 DEF NewId
    <3>2. a \in Anchors /\ a \notin DOMAIN toId
      BY <1>1, <1>3
    <3> QED  BY <3>1, <3>2, NewIdKeeps
  <2>2. texts \in Seq(Anchors) /\ tmp.anchors \in Seq(Anchors) /\ disk.anchors \in Seq(Anchors)
    BY DEF Shape, TypeOK, IsFile
  <2>3. \A i \in DOMAIN tmp.anchors : i <= Len(texts') /\ texts'[i] = tmp.anchors[i]
    BY <2>1, <2>2, LenProperties DEF Dictionary, StartsTexts
  <2>4. DiskDictionaryIsPrefix'
    BY <1>1, <2>1, <2>2, LenProperties DEF Dictionary, DiskDictionaryIsPrefix
  <2> QED  BY <1>1, <2>1, <2>3, <2>4 DEF Dictionary, StartsTexts
<1> QED  BY <1>1, <1>2, <1>3 DEF AnchorStep, dict

\* The file's anchors are distinct as long as they are whole, so that
\* readFromFile gets back their ids.
LEMMA DictionaryRestart ==
    ASSUME Shape, Dictionary, Restart
    PROVE  Dictionary'
<1>1. /\ texts' = AnchorsRead /\ disk' = disk /\ tmp' = EmptyFile
      /\ toId' = [a \in {texts'[i] : i \in DOMAIN texts'} |-> LastPlace(texts', a) - 1]
  BY DEF Restart
<1>2. /\ texts' \in Seq(Anchors) /\ Len(texts') \in Nat /\ DOMAIN texts' = 1..Len(texts')
      /\ texts \in Seq(Anchors) /\ Len(texts) \in Nat /\ DOMAIN texts = 1..Len(texts)
  BY <1>1, AnchorsReadFacts, LenProperties DEF Shape, TypeOK
<1>3. \A i \in DOMAIN texts' :
          /\ i \in DOMAIN disk.anchors /\ disk.anchors[i] \in Anchors
          /\ texts'[i] = Cut[disk.anchors[i]]
  BY <1>1, AnchorsReadFacts
<1>4. ASSUME NEW i \in DOMAIN texts', NEW k \in DOMAIN texts',
             texts'[i] = texts'[k], Whole(texts'[i])
      PROVE  i = k
  <2> DEFINE t == texts'[i]
  <2>1. disk.anchors[i] = t /\ disk.anchors[k] = t /\ Cut[t] = t
    BY <1>3, <1>4 DEF Whole
  <2>2. i \in DOMAIN disk.anchors /\ k \in DOMAIN disk.anchors
    BY <1>3
  <2>3. /\ i <= Len(texts) /\ texts[i] = t
        /\ k <= Len(texts) /\ texts[k] = t
    BY <2>1, <2>2 DEF Dictionary, DiskDictionaryIsPrefix
  <2>a. \A n \in DOMAIN texts : Whole(texts[n]) => toId[texts[n]] = n - 1
    BY Zenon DEF Dictionary, DictionaryInverse
  <2>b. i \in DOMAIN texts /\ k \in DOMAIN texts
    BY <1>2, <2>3
  <2>c. Whole(texts[i]) /\ Whole(texts[k])
    BY <1>4, <2>3, Zenon
  <2>d. toId[texts[i]] = i - 1 /\ toId[texts[k]] = k - 1
    BY <2>a, <2>b, <2>c, Zenon
  <2>4. toId[t] = i - 1 /\ toId[t] = k - 1
    BY <2>3, <2>d
  <2> QED  BY <1>2, <2>4
<1>5. ASSUME NEW i \in DOMAIN texts'
      PROVE  /\ texts'[i] \in DOMAIN toId'
             /\ LastPlace(texts', texts'[i]) \in DOMAIN texts'
             /\ texts'[LastPlace(texts', texts'[i])] = texts'[i]
             /\ toId'[texts'[i]] = LastPlace(texts', texts'[i]) - 1
  <2>1. \E k \in DOMAIN texts' : texts'[k] = texts'[i]
    OBVIOUS
  <2> QED  BY <1>1, <1>2, <2>1, LastPlaceFacts
<1>6. \A b \in DOMAIN toId' : \E i \in DOMAIN texts' : b = texts'[i]
  BY <1>1
<1>7. \A b \in DOMAIN toId' : toId'[b] < Len(texts') /\ texts'[toId'[b] + 1] = b
  <2> TAKE b \in DOMAIN toId'
  <2>1. PICK i \in DOMAIN texts' : b = texts'[i]
    BY <1>6
  <2>2. PICK k \in DOMAIN texts' : texts'[k] = b /\ toId'[b] = k - 1
    BY <1>5, <2>1
  <2> QED  BY <1>2, <2>2
<1>8. \A i \in DOMAIN texts' : /\ texts'[i] \in DOMAIN toId'
                               /\ Whole(texts'[i]) => toId'[texts'[i]] = i - 1
  BY <1>4, <1>5
<1>9. DictionaryInverse'
  BY <1>7, <1>8 DEF DictionaryInverse
<1>10. DiskDictionaryIsPrefix'
  BY <1>1, <1>2, AnchorsReadFacts DEF DiskDictionaryIsPrefix
<1>11. DOMAIN tmp'.anchors = {}
  BY <1>1 DEF EmptyFile
<1> QED  BY <1>9, <1>10, <1>11 DEF Dictionary, StartsTexts

LEMMA DictionaryPersist ==
    ASSUME Shape, Dictionary, Persist
    PROVE  Dictionary'
<1>1. /\ texts' = texts /\ toId' = toId
      /\ tmp'.anchors = texts \/ tmp'.anchors = tmp.anchors \/ tmp'.anchors = <<>>
      /\ disk'.anchors = tmp.anchors \/ disk'.anchors = disk.anchors
  <2>1. CASE PersistShard
    BY <2>1, FileGrows DEF PersistShard, dict
  <2> QED  BY <2>1 DEF Persist, PersistAnchors, PersistRename, dict, EmptyFile
<1>2. \A i \in DOMAIN texts : i <= Len(texts)
  BY LenProperties DEF Shape, TypeOK
<1>3. DictionaryInverse'
  BY <1>1 DEF Dictionary, DictionaryInverse
<1>4. \A i \in DOMAIN tmp'.anchors : i <= Len(texts) /\ texts[i] = tmp'.anchors[i]
  BY <1>1, <1>2 DEF Dictionary, StartsTexts
<1>5. DiskDictionaryIsPrefix'
  BY <1>1 DEF Dictionary, StartsTexts, DiskDictionaryIsPrefix
<1> QED  BY <1>1, <1>3, <1>4, <1>5 DEF Dictionary, StartsTexts

LEMMA DictionaryNext ==
    ASSUME Shape, Dictionary, [Next]_vars
    PROVE  Dictionary'
<1>1. CASE UNCHANGED <<toId, texts, tmp, disk>>
  BY <1>1 DEF Dictionary, DictionaryInverse, DiskDictionaryIsPrefix, StartsTexts
<1>2. ASSUME NEW h \in Handlers, Handle(h)
      PROVE  UNCHANGED <<toId, texts, tmp, disk>> \/ Anchor(h)
  BY <1>2 DEF Handle, Receive, LookupKnown, LookupReject, LookupNew, Add, Unlock, Push, Finish,
              dict, persist
<1>3. (\E u \in Urls : MarkCrawled(u)) \/ UNCHANGED vars => UNCHANGED <<toId, texts, tmp, disk>>
  BY DEF MarkCrawled, vars, dict, persist
<1> QED  BY <1>1, <1>2, <1>3, DictionaryAnchor, DictionaryPersist, DictionaryRestart DEF Next

LEMMA DictionarySpec == Spec => [](Shape /\ Locked /\ Dictionary)
<1>1. Init => Dictionary
  BY DEF Init, Dictionary, DictionaryInverse, DiskDictionaryIsPrefix, StartsTexts, EmptyFile
<1>2. Shape /\ Dictionary /\ [Next]_vars => Dictionary'
  BY DictionaryNext
<1> QED  BY <1>1, <1>2, LockedSpec, PTL DEF Spec

\* However handlers in different shards interleave their calls of findAnchorId,
\* and whatever a restart reads back, anchor_to_id and id_to_anchor stay
\* inverse to each other, but for the texts that readFromFile makes of longer
\* ones: of those several may be alike, and one of them is found.
THEOREM StoreDictionaryInverse == Spec => []DictionaryInverse
<1>1. Dictionary => DictionaryInverse
  BY DEF Dictionary
<1> QED  BY <1>1, DictionarySpec, PTL

\* The ids in urlstore.txt mean in memory what they meant when they were
\* written, or the front of it once it was read back: persist copies the
\* dictionary before the records, and only appends happen to it afterwards.
THEOREM StoreDiskDictionaryIsPrefix == Spec => []DiskDictionaryIsPrefix
<1>1. Dictionary => DiskDictionaryIsPrefix
  BY DEF Dictionary
<1> QED  BY <1>1, DictionarySpec, PTL

-----------------------------------------------------------------------------
(* Fourth layer: the cap on stored URLs.                                   *)

LEMMA CountedInit == Init => Counted
<1> SUFFICES ASSUME Init PROVE Counted
  OBVIOUS
<1>1. Adders = {} /\ known = {} /\ unique = 0 /\ tmp.recs = {} /\ disk.recs = {}
  BY DEF Init, Adders, EmptyFile
<1>2. Cardinality({}) = 0 /\ Cardinality(Handlers) \in Nat /\ Cardinality(Handlers) # 0
  BY StoreAssumption, FS_EmptySet, FS_CardinalityType
<1> QED  BY <1>1, <1>2, StoreAssumption DEF Counted

LEMMA AddersFinite ==
    /\ IsFiniteSet(Adders) /\ Cardinality(Adders) \in Nat
    /\ Cardinality(Handlers) \in Nat /\ Cardinality(Adders) <= Cardinality(Handlers)
<1>1. IsFiniteSet(Handlers) /\ Adders \subseteq Handlers
  BY StoreAssumption DEF Adders
<1> QED  BY <1>1, FS_Subset, FS_CardinalityType

\* The cap was read before and is compared with the adders that saw it.
LEMMA CountedHandle ==
    ASSUME Shape, Locked, Counted, NEW h \in Handlers, Handle(h)
    PROVE  Counted'
<1> DEFINE size == Cardinality(Adders)
           cap  == MaxStoreUrls + Cardinality(Handlers) - 1
<1>0. /\ unique \in Nat /\ unique = Cardinality(known) /\ unique + size <= cap
      /\ IsFiniteSet(known) /\ size \in Nat /\ cap \in Int
  BY StoreAssumption, AddersFinite DEF Shape, TypeOK, Counted
<1>1. \A g \in Handlers \ {h} : hpc'[g] = hpc[g]
  BY HandlerFrame
<1>2. /\ UNCHANGED <<tmp, disk>> /\ known \subseteq known'
      /\ \A r \in tmp'.recs \cup disk'.recs : r.url \in known'
  BY HolderStep DEF Handle, Receive, LookupKnown, LookupReject, LookupNew, Add, Anchor, Unlock,
                    Push, Finish, persist, memory, Counted
<1>3. CASE hpc'[h] # "add" /\ hpc[h] # "add"
  <2>1. Adders' = Adders
    BY <1>1, <1>3 DEF Adders
  <2>2. known' = known /\ unique' = unique
    BY <1>3, HolderStep DEF Handle, Receive, LookupKnown, LookupReject, LookupNew, Add, Anchor,
                            Unlock, Push, Finish, memory
  <2> QED  BY <1>0, <1>2, <2>1, <2>2 DEF Counted
<1>4. CASE hpc'[h] = "add"
  <2>1. /\ hpc[h] = "lookup" /\ known' = known /\ unique' = unique /\ unique < MaxStoreUrls
    <3>1. hpc \in [Handlers -> Phases]
      BY DEF Shape, TypeOK, Phases
    <3>2. LookupNew(h)
      BY <1>4, <3>1 DEF Handle, Receive, LookupKnown, LookupReject, Add, Anchor, Unlock, Push,
                        Finish, Advance, Goto, Phases
    <3>3. MaxStoreUrls \in Nat
      BY StoreAssumption
    <3> QED  BY <1>0, <3>2, <3>3 DEF LookupNew, Rejected, memory
  <2>2. /\ Cardinality(Adders') \in Nat /\ Cardinality(Adders') <= Cardinality(Handlers)
        /\ Cardinality(Handlers) \in Nat
    <3>1. IsFiniteSet(Handlers) /\ Adders' \subseteq Handlers
      BY StoreAssumption DEF Adders
    <3> QED  BY <3>1, FS_Subset, FS_CardinalityType
  <2>3. unique' + Cardinality(Adders') <= cap
    BY <1>0, <2>1, <2>2, StoreAssumption
  <2> QED  BY <1>0, <1>2, <2>1, <2>3 DEF Counted
<1>5. CASE hpc[h] = "add"
  <2>1. Add(h)
    BY <1>5 DEF Handle, Receive, LookupKnown, LookupReject, LookupNew, Anchor, Unlock, Push, Finish
  <2>2. /\ unique' = unique + 1 /\ known' = known \cup {Current(h).url}
        /\ Current(h).url \notin known /\ hpc'[h] = "anchors"
    BY <1>5, <2>1 DEF Add, Goto, Locked, Shape, TypeOK
  <2>3. Cardinality(known') = unique + 1
    BY <1>0, <2>2, FS_AddElement
  <2>4. Adders' = Adders \ {h} /\ h \in Adders
    BY <1>1, <1>5, <2>2 DEF Adders
  <2>5. Cardinality(Adders') = size - 1
    BY <2>4, AddersFinite, FS_RemoveElement
  <2> QED  BY <1>0, <1>2, <2>2, <2>3, <2>5 DEF Counted
<1> QED  BY <1>3, <1>4, <1>5

\* A restart keeps at most what was stored: every record on disk is of a URL
\* that is in memory.
LEMMA CountedRestart ==
    ASSUME Shape, Counted, Restart
    PROVE  Counted'
<1>1. /\ known' = {r.url : r \in disk.recs} /\ unique' = Cardinality(known')
      /\ unique' \in Nat
  BY ReadBack
<1>2. known' \subseteq known /\ \A r \in tmp'.recs \cup disk'.recs : r.url \in known'
  BY <1>1 DEF Counted, Restart, EmptyFile
<1>3. unique' <= unique
  BY <1>1, <1>2, FS_Subset DEF Shape, Counted
<1>4. Adders' = {}
  BY RestartIdle DEF Adders
<1>5. Cardinality(Adders') = 0
  BY <1>4, FS_EmptySet
<1> QED  BY <1>1, <1>2, <1>3, <1>5, AddersFinite, StoreAssumption DEF Counted, Shape, TypeOK

LEMMA CountedNext ==
    ASSUME Shape, Locked, Counted, [Next]_vars
    PROVE  Counted'
<1>1. CASE (\E u \in Urls : MarkCrawled(u)) \/ Persist \/ UNCHANGED vars
  <2>1. known' = known /\ unique' = unique /\ hpc' = hpc
    BY <1>1, OtherSteps
  <2>2. Adders' = Adders
    BY <2>1 DEF Adders
  <2>3. \A r \in tmp'.recs \cup disk'.recs : r.url \in known
    <3>1. CASE PersistShard
      BY <3>1, FileGrows DEF PersistShard, Counted
    <3> QED  BY <1>1, <3>1 DEF MarkCrawled, Persist, PersistAnchors, PersistRename, vars, persist,
                               EmptyFile, Counted
  <2> QED  BY <2>1, <2>2, <2>3 DEF Counted
<1> QED  BY <1>1, CountedHandle, CountedRestart DEF Next

LEMMA CountedSpec == Spec => [](Shape /\ Locked /\ Counted)
<1>1. Init => Counted
  BY CountedInit
<1>2. Shape /\ Locked /\ Counted /\ [Next]_vars => Counted'
  BY CountedNext
<1> QED  BY <1>1, <1>2, LockedSpec, PTL DEF Spec

\* unique_url_count is the number of URLs in the shards, although handlers of
\* different shards read it in updateUrl and raise it in addUrl_unlocked without
\* a common lock; it passes MAX_STORE_URLS by less than one URL per handler.
THEOREM StoreStaysBounded == Spec => []StoreBounded
<1>1. Shape /\ Counted => StoreBounded
  BY AddersFinite, StoreAssumption DEF Shape, TypeOK, Counted, StoreBounded
<1> QED  BY <1>1, CountedSpec, PTL

-----------------------------------------------------------------------------
(* Fifth layer: the way to the frontier.                                   *)

LEMMA FrontierApart == Frontier \notin Handlers
<1>1. \E c : c \notin Handlers
  BY NoSetContainsEverything
<1> QED  BY <1>1 DEF Frontier

LEMMA LineTyped ==
    ASSUME TypeOK, NEW c \in Carriers, NEW p \in Levels
    PROVE  Line(c, p) \in Seq(Urls)
BY DEF TypeOK, Line

\* What appending and concatenating do to a sequence without repetitions.
LEMMA AppendFacts ==
    ASSUME NEW S, NEW s \in Seq(S), NEW x \in S
    PROVE  /\ Range(Append(s, x)) = Range(s) \cup {x}
           /\ IsInjective(s) /\ x \notin Range(s) => IsInjective(Append(s, x))
<1>1. /\ Len(s) \in Nat /\ DOMAIN s = 1..Len(s)
      /\ DOMAIN Append(s, x) = 1..(Len(s) + 1)
      /\ \A i \in 1..Len(s) : Append(s, x)[i] = s[i]
      /\ Append(s, x)[Len(s) + 1] = x
  BY AppendProperties, LenProperties
<1>2. Range(Append(s, x)) = Range(s) \cup {x}
  <2>1. ASSUME NEW y \in Range(Append(s, x))
        PROVE  y \in Range(s) \cup {x}
    BY <1>1, <2>1 DEF Range
  <2>2. ASSUME NEW y \in Range(s) \cup {x}
        PROVE  y \in Range(Append(s, x))
    <3>1. CASE y = x
      BY <1>1, <3>1 DEF Range
    <3>2. CASE y \in Range(s)
      <4>1. PICK i \in 1..Len(s) : s[i] = y
        BY <1>1, <3>2 DEF Range
      <4>2. i \in 1..(Len(s) + 1) /\ Append(s, x)[i] = y
        BY <1>1, <4>1
      <4> QED  BY <1>1, <4>2 DEF Range
    <3> QED  BY <3>1, <3>2
  <2> QED  BY <2>1, <2>2
<1>3. IsInjective(s) /\ x \notin Range(s) => IsInjective(Append(s, x))
  <2> SUFFICES ASSUME IsInjective(s), x \notin Range(s),
                      NEW i \in 1..(Len(s) + 1), NEW k \in 1..(Len(s) + 1),
                      Append(s, x)[i] = Append(s, x)[k]
               PROVE  i = k
    BY <1>1 DEF IsInjective
  <2>1. \A n \in 1..Len(s) : s[n] # x
    BY <1>1 DEF Range
  <2> QED  BY <1>1, <2>1 DEF IsInjective
<1> QED  BY <1>2, <1>3

LEMMA ConcatFacts ==
    ASSUME NEW S, NEW s \in Seq(S), NEW t \in Seq(S)
    PROVE  /\ Range(s \o t) = Range(s) \cup Range(t)
           /\ IsInjective(s) /\ IsInjective(t) /\ Range(s) \cap Range(t) = {}
                  => IsInjective(s \o t)
<1> DEFINE m == Len(s)
           n == Len(t)
<1>1. /\ m \in Nat /\ DOMAIN s = 1..m /\ n \in Nat /\ DOMAIN t = 1..n
      /\ DOMAIN (s \o t) = 1..(m + n)
      /\ \A i \in 1..(m + n) : (s \o t)[i] = IF i <= m THEN s[i] ELSE t[i - m]
  BY ConcatProperties, LenProperties
<1> HIDE DEF m, n
<1>2. \A i \in 1..(m + n) : \/ i \in 1..m /\ (s \o t)[i] = s[i]
                            \/ i - m \in 1..n /\ (s \o t)[i] = t[i - m]
  BY <1>1
<1>3. \A i \in 1..m : i \in 1..(m + n) /\ (s \o t)[i] = s[i]
  BY <1>1
<1>4. \A i \in 1..n : i + m \in 1..(m + n) /\ (s \o t)[i + m] = t[i]
  BY <1>1
<1>5. Range(s \o t) = Range(s) \cup Range(t)
  <2>1. ASSUME NEW y \in Range(s \o t)
        PROVE  y \in Range(s) \cup Range(t)
    BY <1>1, <1>2, <2>1 DEF Range
  <2>2. ASSUME NEW y \in Range(s) \cup Range(t)
        PROVE  y \in Range(s \o t)
    <3>1. CASE y \in Range(s)
      BY <1>1, <1>3, <3>1 DEF Range
    <3>2. CASE y \in Range(t)
      <4>1. PICK i \in 1..n : t[i] = y
        BY <1>1, <3>2 DEF Range
      <4>2. i + m \in DOMAIN (s \o t) /\ (s \o t)[i + m] = y
        BY <1>1, <1>4, <4>1
      <4> QED  BY <4>2 DEF Range
    <3> QED  BY <2>2, <3>1, <3>2
  <2> QED  BY <2>1, <2>2
<1>6. IsInjective(s) /\ IsInjective(t) /\ Range(s) \cap Range(t) = {} => IsInjective(s \o t)
  <2> SUFFICES ASSUME IsInjective(s), IsInjective(t), Range(s) \cap Range(t) = {},
                      NEW i \in 1..(m + n), NEW k \in 1..(m + n), (s \o t)[i] = (s \o t)[k]
               PROVE  i = k
    BY <1>1 DEF IsInjective
  <2>1. \A a \in 1..m : \A b \in 1..n : s[a] # t[b]
    BY <1>1 DEF Range
  <2>2. CASE i \in 1..m /\ (s \o t)[i] = s[i]
    <3>1. k \in 1..m /\ (s \o t)[k] = s[k]
      BY <1>2, <2>1, <2>2
    <3> QED  BY <1>1, <2>2, <3>1 DEF IsInjective
  <2>3. CASE i - m \in 1..n /\ (s \o t)[i] = t[i - m]
    <3>1. k - m \in 1..n /\ (s \o t)[k] = t[k - m]
      BY <1>2, <2>1, <2>3
    <3>2. i - m = k - m
      BY <1>1, <2>3, <3>1 DEF IsInjective
    <3> QED  BY <1>1, <3>2
  <2> QED  BY <1>2, <2>2, <2>3
<1> QED  BY <1>5, <1>6

\* Handlers between two updates of what HandedOverOnce speaks of.
LEMMA HandedQuiet ==
    ASSUME Shape, Locked, Handed, NEW h \in Handlers, Handle(h),
           UNCHANGED <<known, fresh, targets, frontier>>
    PROVE  Handed'
<1>1. crashes' = crashes
  BY DEF Handle, Receive, LookupKnown, LookupReject, LookupNew, Add, Anchor, Unlock, Push, Finish
<1>2. \A c \in Carriers : \A p \in Levels : Line(c, p)' = Line(c, p)
  BY DEF Line
<1>3. \A g \in Handlers : fresh[g] => Current(g)' = Current(g) /\ hpc'[g] = "anchors"
  <2>1. Shape'
    BY ShapeNext DEF Next
  <2>2. \A g \in Handlers : fresh'[g] => hpc'[g] = "anchors"
    BY <2>1 DEF Shape, Rewound
  <2> QED  BY <2>2, HandlerFrame, HolderStep DEF Held
<1>4. ASSUME NEW g \in Handlers, hpc'[g] = "add"
      PROVE  Current(g)'.prio \in Levels
  <2>1. CASE g # h
    BY <1>4, <2>1, HandlerFrame DEF Handed
  <2>2. CASE g = h
    <3>1. hpc \in [Handlers -> Phases]
      BY DEF Shape, TypeOK, Phases
    <3>2. LookupNew(h)
      BY <1>4, <2>2, <3>1 DEF Handle, Receive, LookupKnown, LookupReject, Add, Anchor, Unlock,
                              Push, Finish, Advance, Goto, Phases
    <3>3. Current(h).prio \in 0..PriorityBuckets /\ Current(h).prio # PriorityBuckets
      BY <3>2, CurrentTyped DEF LookupNew, Rejected, Shape
    <3>4. Current(h)' = Current(h)
      BY <3>2 DEF LookupNew, Current
    <3> QED  BY <2>2, <3>3, <3>4, StoreAssumption DEF Levels
  <2> QED  BY <2>1, <2>2
<1> QED  BY <1>1, <1>2, <1>3, <1>4 DEF Handed

LEMMA HandedAdd ==
    ASSUME Shape, Locked, Handed, NEW h \in Handlers, Add(h)
    PROVE  Handed'
<1> DEFINE u == Current(h).url
<1>1. /\ known' = known \cup {u} /\ fresh' = [fresh EXCEPT ![h] = TRUE]
      /\ hpc[h] = "add" /\ hpc' = [hpc EXCEPT ![h] = "anchors"]
      /\ UNCHANGED <<targets, frontier, crashes, job, pos>>
  BY DEF Add, Goto
<1>2. u \notin known /\ Current(h).prio \in Levels
  BY <1>1 DEF Locked, Handed
<1>3. \A c \in Carriers : \A p \in Levels : Line(c, p)' = Line(c, p)
  BY <1>1 DEF Line
<1>4. \A g \in Handlers : Current(g)' = Current(g)
  BY <1>1 DEF Current
<1>5. /\ fresh'[h] = TRUE /\ hpc'[h] = "anchors"
      /\ \A g \in Handlers \ {h} : fresh'[g] = fresh[g] /\ hpc'[g] = hpc[g]
  BY <1>1 DEF Shape, TypeOK
<1> HIDE DEF u
<1>6. \A c \in Carriers : \A p \in Levels : /\ IsInjective(Line(c, p))' /\ u \notin Range(Line(c, p))
                                            /\ Range(Line(c, p))' \subseteq known'
  BY <1>1, <1>2, <1>3 DEF Handed
<1>7. \A c, d \in Carriers : \A p, q \in Levels :
          c # d \/ p # q => Range(Line(c, p))' \cap Range(Line(d, q))' = {}
  BY <1>3 DEF Handed
<1>8. \A g \in Handlers : fresh'[g] =>
          \A c \in Carriers : \A p \in Levels : Current(g)'.url \notin Range(Line(c, p))'
  BY <1>3, <1>4, <1>5, <1>6 DEF Handed, u
<1>9. \A g \in Handlers : hpc'[g] = "add" \/ fresh'[g] => Current(g)'.prio \in Levels
  BY <1>2, <1>4, <1>5 DEF Handed
<1>10. ASSUME crashes' = 0, NEW v \in known'
       PROVE  \/ \E c \in Carriers : \E p \in Levels : v \in Range(Line(c, p))'
              \/ \E g \in Handlers : fresh'[g] /\ Current(g)'.url = v
  BY <1>1, <1>3, <1>4, <1>5, <1>10 DEF Handed, u
<1> QED  BY <1>6, <1>7, <1>8, <1>9, <1>10 DEF Handed

\* A URL leaves updateUrl for the end of its bucket's line.
LEMMA HandedUnlock ==
    ASSUME Shape, Locked, Handed, NEW h \in Handlers, Unlock(h), fresh[h]
    PROVE  Handed'
<1>0. PICK u \in known, b \in Levels : u = Current(h).url /\ b = Current(h).prio
  BY DEF Unlock, Handed, Locked
<1>1. /\ hpc[h] = "anchors" /\ u \in Urls
      /\ known' = known /\ frontier' = frontier /\ crashes' = crashes
      /\ targets' = [targets EXCEPT ![h][b] = Append(@, u)]
      /\ targets \in [Handlers -> [Levels -> Seq(Urls)]]
      /\ fresh' = [fresh EXCEPT ![h] = FALSE] /\ fresh \in [Handlers -> BOOLEAN]
  BY <1>0 DEF Unlock, memory, Shape, TypeOK
<1>2. \A c \in Carriers : \A p \in Levels :
          u \notin Range(Line(c, p)) /\ Line(c, p) \in Seq(Urls)
  BY <1>0, LineTyped DEF Handed, Shape
<1>3. /\ \A g \in Handlers : fresh'[g] <=> fresh[g] /\ g # h
      /\ \A g \in Handlers \ {h} : Current(g)' = Current(g) /\ hpc'[g] = hpc[g]
      /\ hpc'[h] # "add"
  <2>1. hpc'[h] \in {"lookup", "push"}
    BY <1>1, AdvanceFacts DEF Unlock
  <2> QED  BY <1>1, <2>1, HandlerFrame DEF Handle
<1>4. /\ h \in Carriers
      /\ Line(h, b)' = Append(Line(h, b), u)
      /\ \A c \in Carriers : \A p \in Levels : c # h \/ p # b => Line(c, p)' = Line(c, p)
  <2>1. targets'[h][b] = Append(targets[h][b], u)
    BY <1>1
  <2>2. \A g \in Handlers : \A p \in Levels : g # h \/ p # b => targets'[g][p] = targets[g][p]
    BY <1>1
  <2> QED  BY <1>1, <2>1, <2>2 DEF Line, Carriers
<1>5. /\ Range(Line(h, b)') = Range(Line(h, b)) \cup {u}
      /\ IsInjective(Line(h, b)')
  <2>1. IsInjective(Line(h, b)) /\ Line(h, b) \in Seq(Urls) /\ u \notin Range(Line(h, b)) /\ u \in Urls
    BY <1>1, <1>2, <1>4 DEF Handed
  <2> QED  BY <1>4, <2>1, AppendFacts
<1>6. \A c \in Carriers : \A p \in Levels :
          /\ Range(Line(c, p)') \subseteq Range(Line(c, p)) \cup {u}
          /\ u \in Range(Line(c, p)') => c = h /\ p = b
          /\ Range(Line(c, p)) \subseteq Range(Line(c, p)')
          /\ IsInjective(Line(c, p)')
  <2> TAKE c \in Carriers
  <2> TAKE p \in Levels
  <2>1. CASE c = h /\ p = b
    BY <1>5, <2>1
  <2>2. CASE c # h \/ p # b
    <3>1. Line(c, p)' = Line(c, p) /\ u \notin Range(Line(c, p)) /\ IsInjective(Line(c, p))
      BY <1>2, <1>4, <2>2 DEF Handed
    <3> QED  BY <2>2, <3>1
  <2> QED  BY <2>1, <2>2
<1>7. \A c \in Carriers : \A p \in Levels : Range(Line(c, p)') \subseteq known'
  BY <1>1, <1>6 DEF Handed
<1>8. \A c, d \in Carriers : \A p, q \in Levels :
          c # d \/ p # q => Range(Line(c, p)') \cap Range(Line(d, q)') = {}
  BY <1>6 DEF Handed
<1>9. ASSUME NEW g \in Handlers, fresh'[g], NEW c \in Carriers, NEW p \in Levels
      PROVE  Current(g)'.url \notin Range(Line(c, p)')
  <2>1. g # h /\ fresh[g] /\ hpc[g] = "anchors" /\ Current(g)' = Current(g)
    BY <1>3, <1>9 DEF Shape, Rewound
  <2>2. Current(g).url # u
    BY <1>0, <1>1, <2>1 DEF Locked, Held
  <2> QED  BY <1>6, <2>1, <2>2 DEF Handed
<1>10. \A g \in Handlers : hpc'[g] = "add" \/ fresh'[g] => Current(g)'.prio \in Levels
  BY <1>3 DEF Handed
<1>11. ASSUME crashes' = 0, NEW v \in known'
       PROVE  \/ \E c \in Carriers : \E p \in Levels : v \in Range(Line(c, p)')
              \/ \E g \in Handlers : fresh'[g] /\ Current(g)'.url = v
  <2>1. CASE v = u
    BY <1>1, <1>4, <1>5, <2>1
  <2>2. CASE v # u /\ \E g \in Handlers : fresh[g] /\ Current(g).url = v
    BY <1>0, <1>3, <2>2
  <2>3. CASE \E c \in Carriers : \E p \in Levels : v \in Range(Line(c, p))
    BY <1>6, <2>3
  <2>4. \/ \E c \in Carriers : \E p \in Levels : v \in Range(Line(c, p))
        \/ \E g \in Handlers : fresh[g] /\ Current(g).url = v
    BY <1>1, <1>11 DEF Handed
  <2> QED  BY <2>1, <2>2, <2>3, <2>4
<1> QED  BY <1>6, <1>7, <1>8, <1>9, <1>10, <1>11 DEF Handed

\* A whole line moves behind the frontier's.
LEMMA HandedPush ==
    ASSUME Shape, Locked, Handed, NEW h \in Handlers, Push(h)
    PROVE  Handed'
<1>1. PICK b \in Levels : /\ frontier' = [frontier EXCEPT ![b] = @ \o targets[h][b]]
                          /\ targets' = [targets EXCEPT ![h][b] = <<>>]
  BY DEF Push
<1>2. /\ known' = known /\ fresh' = fresh /\ hpc' = hpc /\ crashes' = crashes
      /\ \A g \in Handlers : Current(g)' = Current(g)
  BY DEF Push, memory, Current
<1>3. /\ frontier \in [Levels -> Seq(Urls)] /\ targets \in [Handlers -> [Levels -> Seq(Urls)]]
      /\ h \in Carriers /\ Frontier \in Carriers /\ Frontier # h
  BY FrontierApart DEF Shape, TypeOK, Carriers
<1>4. /\ Line(Frontier, b)' = Line(Frontier, b) \o Line(h, b)
      /\ Line(h, b)' = <<>>
      /\ \A c \in Carriers : \A p \in Levels :
             p # b \/ (c # h /\ c # Frontier) => Line(c, p)' = Line(c, p)
  BY <1>1, <1>3, FrontierApart DEF Line, Carriers
<1>5. /\ Range(Line(Frontier, b)') = Range(Line(Frontier, b)) \cup Range(Line(h, b))
      /\ IsInjective(Line(Frontier, b)')
  <2>1. /\ Line(Frontier, b) \in Seq(Urls) /\ Line(h, b) \in Seq(Urls)
        /\ IsInjective(Line(Frontier, b)) /\ IsInjective(Line(h, b))
        /\ Range(Line(Frontier, b)) \cap Range(Line(h, b)) = {}
    BY <1>3, LineTyped DEF Handed, Shape
  <2> QED  BY <1>4, <2>1, ConcatFacts
<1>6. Range(Line(h, b)') = {} /\ IsInjective(Line(h, b)')
  BY <1>4 DEF Range, IsInjective
<1>7. ASSUME NEW c \in Carriers, NEW p \in Levels
      PROVE  /\ IsInjective(Line(c, p)') /\ Range(Line(c, p)') \subseteq known'
             /\ \A v \in Range(Line(c, p)') : \/ v \in Range(Line(c, p)) /\ ~(c = h /\ p = b)
                                              \/ c = Frontier /\ p = b /\ v \in Range(Line(h, b))
  <2>1. CASE c = h /\ p = b
    BY <1>6, <2>1
  <2>2. CASE c = Frontier /\ p = b
    <3>1. Range(Line(Frontier, b)) \subseteq known /\ Range(Line(h, b)) \subseteq known
      BY <1>3 DEF Handed
    <3> QED  BY <1>2, <1>3, <1>5, <2>2, <3>1
  <2>3. CASE p # b \/ (c # h /\ c # Frontier)
    <3>1. Line(c, p)' = Line(c, p) /\ IsInjective(Line(c, p)) /\ Range(Line(c, p)) \subseteq known
      BY <1>4, <2>3 DEF Handed
    <3> QED  BY <1>2, <2>3, <3>1
  <2> QED  BY <2>1, <2>2, <2>3
<1>8. \A c, d \in Carriers : \A p, q \in Levels :
          c # d \/ p # q => Range(Line(c, p)') \cap Range(Line(d, q)') = {}
  BY <1>3, <1>7 DEF Handed
<1>9. \A c \in Carriers : \A p \in Levels : \A v \in Range(Line(c, p)) :
          \E d \in Carriers : \E q \in Levels : v \in Range(Line(d, q)')
  BY <1>3, <1>4, <1>5
<1>10. \A g \in Handlers : fresh'[g] =>
           \A c \in Carriers : \A p \in Levels : Current(g)'.url \notin Range(Line(c, p)')
  BY <1>2, <1>3, <1>7 DEF Handed
<1>11. \A g \in Handlers : hpc'[g] = "add" \/ fresh'[g] => Current(g)'.prio \in Levels
  BY <1>2 DEF Handed
<1>12. crashes' = 0 =>
           \A v \in known' : \/ \E c \in Carriers : \E p \in Levels : v \in Range(Line(c, p)')
                             \/ \E g \in Handlers : fresh'[g] /\ Current(g)'.url = v
  BY <1>2, <1>9 DEF Handed
<1> QED  BY <1>7, <1>8, <1>10, <1>11, <1>12 DEF Handed

LEMMA LinesEmpty ==
    ASSUME targets = [h \in Handlers |-> NoTargets], frontier = NoTargets,
           NEW c \in Carriers, NEW p \in Levels
    PROVE  IsInjective(Line(c, p)) /\ Range(Line(c, p)) = {}
<1>1. Line(c, p) = <<>>
  BY DEF Line, NoTargets
<1> QED  BY <1>1 DEF Range, IsInjective

LEMMA HandedInit == Init => Handed
<1> SUFFICES ASSUME Init PROVE Handed
  OBVIOUS
<1>1. \A c \in Carriers : \A p \in Levels : IsInjective(Line(c, p)) /\ Range(Line(c, p)) = {}
  BY LinesEmpty DEF Init
<1> QED  BY <1>1 DEF Init, Handed

LEMMA HandedRestart ==
    ASSUME Shape, Restart
    PROVE  Handed'
<1>1. \A c \in Carriers : \A p \in Levels : Line(c, p)' = <<>>
  BY DEF Restart, Line, NoTargets
<1>2. Range(<<>>) = {} /\ IsInjective(<<>>)
  BY DEF Range, IsInjective
<1>3. crashes' # 0
  BY DEF Restart, Shape, TypeOK
<1> QED  BY <1>1, <1>2, <1>3, RestartIdle DEF Handed

LEMMA HandedNext ==
    ASSUME Shape, Locked, Handed, [Next]_vars
    PROVE  Handed'
<1>1. ASSUME NEW h \in Handlers, Handle(h)
      PROVE  Handed'
  <2>1. CASE Unlock(h) /\ fresh[h]
    BY <2>1, HandedUnlock
  <2>2. CASE Unlock(h) /\ ~fresh[h]
    <3>1. UNCHANGED <<known, fresh, targets, frontier>>
      BY <2>2 DEF Unlock, memory, Shape, TypeOK
    <3> QED  BY <1>1, <3>1, HandedQuiet
  <2>3. CASE Receive(h) \/ LookupKnown(h) \/ LookupReject(h) \/ LookupNew(h) \/ Anchor(h) \/ Finish(h)
    <3>1. UNCHANGED <<known, fresh, targets, frontier>>
      BY <2>3 DEF Receive, LookupKnown, LookupReject, LookupNew, Anchor, Finish, memory
    <3> QED  BY <1>1, <3>1, HandedQuiet
  <2> QED  BY <1>1, <2>1, <2>2, <2>3, HandedAdd, HandedPush DEF Handle
<1>2. CASE (\E u \in Urls : MarkCrawled(u)) \/ Persist \/ UNCHANGED vars
  <2>1. /\ UNCHANGED <<known, hpc, fresh, targets, frontier, crashes>>
        /\ \A h \in Handlers : Current(h)' = Current(h)
    BY <1>2, OtherSteps
  <2>2. \A c \in Carriers : \A p \in Levels : Line(c, p)' = Line(c, p)
    BY <2>1 DEF Line
  <2> QED  BY <2>1, <2>2 DEF Handed
<1> QED  BY <1>1, <1>2, HandedRestart DEF Next

LEMMA HandedSpec == Spec => [](Shape /\ Locked /\ Handed)
<1>1. Shape /\ Locked /\ Handed /\ [Next]_vars => Handed'
  BY HandedNext
<1> QED  BY <1>1, HandedInit, LockedSpec, PTL DEF Spec

LEMMA RouteCases ==
    ASSUME NEW u, NEW x
    PROVE  x \in Routes(u) <=>
               \/ \E p \in Levels : \E i \in DOMAIN frontier[p] :
                      x = <<"frontier", p, i>> /\ frontier[p][i] = u
               \/ \E h \in Handlers : \E p \in Levels : \E i \in DOMAIN targets[h][p] :
                      x = <<h, p, i>> /\ targets[h][p][i] = u
               \/ \E h \in Handlers : /\ x = <<h, "adding", 0>>
                                      /\ hpc[h] = "anchors" /\ fresh[h] /\ Current(h).url = u
<1> DEFINE In(place, p, q) == {<<place, p, i>> : i \in {i \in DOMAIN q : q[i] = u}}
           Inside(place, f) == UNION {In(place, p, f[p]) : p \in Levels}
           Adding == {<<h, "adding", 0>> : h \in {h \in Handlers : /\ hpc[h] = "anchors" /\ fresh[h]
                                                                   /\ Current(h).url = u}}
<1>1. Routes(u) = Inside("frontier", frontier) \cup (UNION {Inside(h, targets[h]) : h \in Handlers})
                      \cup Adding
  BY DEF Routes
<1>2. ASSUME NEW place, NEW f
      PROVE  x \in Inside(place, f) <=>
                 \E p \in Levels : \E i \in DOMAIN f[p] : x = <<place, p, i>> /\ f[p][i] = u
  OBVIOUS
<1>3. x \in Adding <=> \E h \in Handlers : /\ x = <<h, "adding", 0>>
                                          /\ hpc[h] = "anchors" /\ fresh[h] /\ Current(h).url = u
  OBVIOUS
<1> HIDE DEF Inside, Adding
<1>4. x \in Routes(u) <=> \/ x \in Inside("frontier", frontier)
                         \/ (\E h \in Handlers : x \in Inside(h, targets[h]))
                         \/ x \in Adding
  BY <1>1
<1>5. x \in Inside("frontier", frontier) <=>
          \E p \in Levels : \E i \in DOMAIN frontier[p] :
              x = <<"frontier", p, i>> /\ frontier[p][i] = u
  BY <1>2
<1>6. \A h \in Handlers : x \in Inside(h, targets[h]) <=>
          \E p \in Levels : \E i \in DOMAIN targets[h][p] :
              x = <<h, p, i>> /\ targets[h][p][i] = u
  BY <1>2
<1> QED  BY <1>3, <1>4, <1>5, <1>6

\* Each entry of a line is one place of its URL.
LEMMA OneRoute ==
    ASSUME Shape, Locked, Handed, NEW u \in Urls, NEW x \in Routes(u), NEW y \in Routes(u)
    PROVE  x = y
<1> DEFINE InLine(z, c, p, i) == /\ z = <<IF c = Frontier THEN "frontier" ELSE c, p, i>>
                                 /\ i \in DOMAIN Line(c, p) /\ Line(c, p)[i] = u
           Adding(z, h) == z = <<h, "adding", 0>> /\ fresh[h] /\ hpc[h] = "anchors" /\ Current(h).url = u
<1>1. ASSUME NEW z \in Routes(u)
      PROVE  \/ \E c \in Carriers : \E p \in Levels : \E i \in DOMAIN Line(c, p) : InLine(z, c, p, i)
             \/ \E h \in Handlers : Adding(z, h)
  <2>1. CASE \E p \in Levels : \E i \in DOMAIN frontier[p] :
                 z = <<"frontier", p, i>> /\ frontier[p][i] = u
    BY <2>1, FrontierApart DEF Line, Carriers
  <2>2. CASE \E h \in Handlers : \E p \in Levels : \E i \in DOMAIN targets[h][p] :
                 z = <<h, p, i>> /\ targets[h][p][i] = u
    BY <2>2, FrontierApart DEF Line, Carriers
  <2> QED  BY <1>1, <2>1, <2>2, RouteCases
<1>2. ASSUME NEW c \in Carriers, NEW p \in Levels, NEW i, InLine(x, c, p, i),
             NEW d \in Carriers, NEW q \in Levels, NEW k, InLine(y, d, q, k)
      PROVE  x = y
  <2>1. u \in Range(Line(c, p)) /\ u \in Range(Line(d, q))
    BY <1>2 DEF Range
  <2>2. c = d /\ p = q
    BY <2>1 DEF Handed
  <2>3. i = k
    BY <1>2, <2>2 DEF Handed, IsInjective
  <2> QED  BY <1>2, <2>2, <2>3
<1>3. ASSUME NEW h \in Handlers, fresh[h], Current(h).url = u,
             NEW c \in Carriers, NEW p \in Levels, NEW i \in DOMAIN Line(c, p), Line(c, p)[i] = u
      PROVE  FALSE
  BY <1>3 DEF Handed, Range
<1>4. ASSUME NEW g \in Handlers, NEW h \in Handlers, Adding(x, g), Adding(y, h)
      PROVE  x = y
  BY <1>4 DEF Locked, Held
<1> QED  BY <1>1, <1>2, <1>3, <1>4

\* addUrl_unlocked runs under the shard's mutex, bucket_targets is the
\* handler's own and pushed under the buckets' locks: a URL that several
\* batches report at once is handed to the frontier once, and every stored URL
\* is there or on its way, until a restart forgets the buckets.
THEOREM StoreHandsOverOnce == Spec => []HandedOverOnce
<1>1. ASSUME Shape, Locked, Handed
      PROVE  HandedOverOnce
  <2> SUFFICES ASSUME NEW u \in Urls
               PROVE  /\ Cardinality(Routes(u)) <= 1
                      /\ crashes = 0 => (u \in known <=> Routes(u) # {})
    BY DEF HandedOverOnce
  <2>1. Cardinality(Routes(u)) <= 1
    <3>1. CASE Routes(u) = {}
      BY <3>1, FS_EmptySet
    <3>2. CASE Routes(u) # {}
      <4>1. PICK x \in Routes(u) : TRUE
        BY <3>2
      <4>2. Routes(u) = {x}
        BY <1>1, <4>1, OneRoute
      <4> QED  BY <4>2, FS_Singleton
    <3> QED  BY <3>1, <3>2
  <2>2. ASSUME NEW x \in Routes(u)
        PROVE  u \in known
    <3>1. CASE \E p \in Levels : \E i \in DOMAIN frontier[p] : frontier[p][i] = u
      <4>1. \E p \in Levels : u \in Range(Line(Frontier, p))
        BY <3>1, FrontierApart DEF Line, Range
      <4> QED  BY <1>1, <4>1 DEF Handed, Carriers
    <3>2. CASE \E h \in Handlers : \E p \in Levels : \E i \in DOMAIN targets[h][p] : targets[h][p][i] = u
      <4>1. \E h \in Handlers : \E p \in Levels : u \in Range(Line(h, p))
        BY <3>2 DEF Line, Range
      <4> QED  BY <1>1, <4>1 DEF Handed, Carriers
    <3>3. CASE \E h \in Handlers : hpc[h] = "anchors" /\ Current(h).url = u
      BY <1>1, <3>3 DEF Locked
    <3> QED  BY <2>2, <3>1, <3>2, <3>3, RouteCases
  <2>3. ASSUME crashes = 0, u \in known
        PROVE  Routes(u) # {}
    <3>1. CASE \E c \in Carriers : \E p \in Levels : u \in Range(Line(c, p))
      <4>1. PICK c \in Carriers, p \in Levels : u \in Range(Line(c, p))
        BY <3>1
      <4>2. PICK i \in DOMAIN Line(c, p) : Line(c, p)[i] = u
        BY <4>1 DEF Range
      <4>3. CASE c \in Handlers
        BY <4>2, <4>3, RouteCases DEF Line
      <4>4. CASE c \notin Handlers
        BY <4>2, <4>4, RouteCases DEF Line
      <4> QED  BY <4>3, <4>4
    <3>2. CASE \E h \in Handlers : fresh[h] /\ Current(h).url = u
      <4>1. PICK h \in Handlers : fresh[h] /\ Current(h).url = u
        BY <3>2
      <4>2. hpc[h] = "anchors"
        BY <1>1, <4>1 DEF Shape, Rewound
      <4> QED  BY <4>1, <4>2, RouteCases
    <3> QED  BY <1>1, <2>3, <3>1, <3>2 DEF Handed
  <2> QED  BY <2>1, <2>2, <2>3
<1> QED  BY <1>1, HandedSpec, PTL

-----------------------------------------------------------------------------
(* Sixth layer: whose texts a URL's anchor ids are.                        *)

\* What was merged into a URL stays merged, and entering the loop over the
\* anchors is what merges.
LEMMA AppliedGrows ==
    ASSUME Shape, NEW h \in Handlers, Handle(h)
    PROVE  /\ \A u \in Urls : applied[u] \subseteq applied'[u]
           /\ hpc'[h] = "anchors" =>
                  \/ <<job'[h], pos'[h]>> \in applied'[Current(h)'.url]
                  \/ hpc[h] = "anchors" /\ job'[h] = job[h] /\ pos'[h] = pos[h]
           /\ Anchor(h) \/ UNCHANGED <<freqs, texts, toId>>
<1>0. /\ hpc \in [Handlers -> Phases] /\ applied \in [Urls -> SUBSET (Jobs \X Nat)]
      /\ hpc[h] \in {"lookup", "add", "anchors"} => Current(h).url \in Urls
  BY CurrentTyped DEF Shape, TypeOK, Phases
<1> USE DEF memory, dict
<1>1. CASE LookupKnown(h)
  <2>1. /\ applied' = [applied EXCEPT ![Current(h).url] = @ \cup {<<job[h], pos[h]>>}]
        /\ job' = job /\ pos' = pos /\ Current(h).url \in Urls
    BY <1>0, <1>1 DEF LookupKnown
  <2> QED  BY <1>0, <1>1, <2>1 DEF LookupKnown, Current
<1>2. CASE Add(h)
  <2>1. /\ applied' = [applied EXCEPT ![Current(h).url] = @ \cup {<<job[h], pos[h]>>}]
        /\ job' = job /\ pos' = pos /\ Current(h).url \in Urls
    BY <1>0, <1>2 DEF Add
  <2> QED  BY <1>0, <1>2, <2>1 DEF Add, Current
<1>3. CASE Anchor(h)
  BY <1>3 DEF Anchor
<1>4. CASE Receive(h) \/ LookupReject(h) \/ LookupNew(h) \/ Unlock(h) \/ Push(h) \/ Finish(h)
  BY <1>0, <1>4 DEF Receive, LookupReject, LookupNew, Unlock, Push, Finish, Advance, Goto, Phases
<1> QED  BY <1>1, <1>2, <1>3, <1>4 DEF Handle

\* More sightings and a longer dictionary keep what the old ids mean.
LEMMA SightingsKept ==
    ASSUME NEW u \in Urls, applied[u] \subseteq applied'[u], NEW a
    PROVE  SightingsWith(u, a) \subseteq SightingsWith(u, a)'
BY DEF SightingsWith, Sighting

LEMMA SightedAnchor ==
    ASSUME Shape, Locked, Dictionary, Sighted, crashes = 0, NEW h \in Handlers, Anchor(h)
    PROVE  IdsMeanTheirTexts'
<1>0. PICK u \in Urls, a \in Anchors : u = Current(h).url /\ a = Current(h).anchors[apos[h]]
  BY AnchorCases, CurrentTyped DEF Shape
<1>1. /\ hpc[h] = "anchors" /\ apos[h] \in DOMAIN Current(h).anchors
      /\ AnchorStep(h, u, a) /\ applied' = applied
  BY <1>0, AnchorCases
<1>2. <<job[h], pos[h]>> \in SightingsWith(u, a)
  BY <1>0, <1>1 DEF Sighted, SightingsWith, Sighting, Current
<1>3. texts \in Seq(Anchors) /\ Len(texts) \in Nat /\ DOMAIN texts = 1..Len(texts)
  BY LenProperties DEF Shape, TypeOK
<1>4. \A v \in Urls : \A id \in DOMAIN freqs[v] :
          id \in Nat /\ id < Len(texts) /\ SightingsWith(v, texts[id + 1]) # {}
  BY DEF Sighted, IdsMeanTheirTexts, Shape, TypeOK
<1> SUFFICES ASSUME NEW v \in Urls, NEW id \in DOMAIN freqs'[v]
             PROVE  id < Len(texts') /\ SightingsWith(v, texts'[id + 1]) # {}
  BY <1>1 DEF IdsMeanTheirTexts, SightingsWith
<1>6. CASE UNCHANGED <<freqs, dict>>
  BY <1>4, <1>6 DEF dict
<1>7. CASE a \in DOMAIN toId /\ CountAnchor(h, u, toId[a]) /\ UNCHANGED dict
  <2>1. toId[a] \in Nat /\ toId[a] < Len(texts) /\ texts[toId[a] + 1] = a
    BY <1>7 DEF Dictionary, DictionaryInverse, Shape, TypeOK
  <2>2. id \in DOMAIN freqs[v] \/ (v = u /\ id = toId[a])
    BY <1>7, <2>1, CountTyped
  <2>3. id < Len(texts) /\ SightingsWith(v, texts[id + 1]) # {}
    BY <1>2, <1>4, <2>1, <2>2
  <2> QED  BY <1>7, <2>3 DEF dict
<1>8. CASE a \notin DOMAIN toId /\ NewId(h, u, a)
  <2>1. /\ texts' = Append(texts, a) /\ Len(texts') = Len(texts) + 1
        /\ texts'[Len(texts) + 1] = a
        /\ \A i \in 1..Len(texts) : texts'[i] = texts[i]
    BY <1>3, <1>8, AppendProperties DEF NewId
  <2>2. id \in DOMAIN freqs[v] \/ (v = u /\ id = Len(texts))
    BY <1>3, <1>8, CountTyped DEF NewId
  <2>3. CASE id \in DOMAIN freqs[v]
    <3>1. id \in Nat /\ id < Len(texts) /\ SightingsWith(v, texts[id + 1]) # {}
      BY <1>4, <2>3
    <3>2. id < Len(texts') /\ texts'[id + 1] = texts[id + 1]
      BY <1>3, <2>1, <3>1
    <3> QED  BY <3>1, <3>2
  <2>4. CASE v = u /\ id = Len(texts)
    <3>1. id < Len(texts') /\ texts'[id + 1] = a
      BY <1>3, <2>1, <2>4
    <3> QED  BY <1>2, <2>4, <3>1
  <2> QED  BY <2>2, <2>3, <2>4
<1> QED  BY <1>1, <1>6, <1>7, <1>8 DEF AnchorStep

LEMMA SightedNext ==
    ASSUME Shape, Locked, Dictionary, Sighted, [Next]_vars
    PROVE  Sighted'
<1>1. ASSUME NEW h \in Handlers, Handle(h)
      PROVE  Sighted'
  <2>1. ASSUME NEW g \in Handlers, hpc'[g] = "anchors"
        PROVE  <<job'[g], pos'[g]>> \in applied'[Current(g)'.url]
    <3>1. CASE g # h \/ (hpc[g] = "anchors" /\ job'[g] = job[g] /\ pos'[g] = pos[g])
      <4>1. hpc[g] = "anchors" /\ job'[g] = job[g] /\ pos'[g] = pos[g] /\ Current(g)' = Current(g)
        BY <1>1, <2>1, <3>1, HandlerFrame DEF Current
      <4>2. Current(g).url \in Urls /\ <<job[g], pos[g]>> \in applied[Current(g).url]
        BY <4>1, CurrentTyped DEF Sighted, Shape
      <4> QED  BY <1>1, <4>1, <4>2, AppliedGrows
    <3> QED  BY <1>1, <2>1, <3>1, AppliedGrows
  <2>2. CASE Anchor(h)
    <3>1. crashes' = crashes
      BY <2>2 DEF Anchor
    <3>2. crashes # 0 => IdsMeanTheirTexts'
      BY <3>1 DEF IdsMeanTheirTexts
    <3> QED  BY <2>1, <2>2, <3>2, SightedAnchor DEF Sighted
  <2>3. CASE UNCHANGED <<freqs, texts, toId>>
    <3>1. crashes' = crashes
      BY <1>1 DEF Handle, Receive, LookupKnown, LookupReject, LookupNew, Add, Anchor, Unlock,
                  Push, Finish
    <3>2. IdsMeanTheirTexts'
      BY <1>1, <2>3, <3>1, AppliedGrows, SightingsKept DEF Sighted, IdsMeanTheirTexts
    <3> QED  BY <2>1, <3>2 DEF Sighted
  <2> QED  BY <1>1, <2>2, <2>3, AppliedGrows
<1>2. CASE (\E u \in Urls : MarkCrawled(u)) \/ Persist \/ UNCHANGED vars
  <2>1. /\ UNCHANGED <<job, pos, hpc, freqs, texts, crashes, applied>>
        /\ \A h \in Handlers : Current(h)' = Current(h)
    BY <1>2, OtherSteps
  <2> QED  BY <2>1 DEF Sighted, IdsMeanTheirTexts, SightingsWith
<1>3. CASE Restart
  <2>1. crashes' # 0
    BY <1>3 DEF Restart, Shape, TypeOK
  <2> QED  BY <1>3, <2>1, RestartIdle DEF Sighted, IdsMeanTheirTexts
<1> QED  BY <1>1, <1>2, <1>3 DEF Next

LEMMA SightedSpec == Spec => [](Shape /\ Locked /\ Dictionary /\ Sighted)
<1>1. Init => Sighted
  BY DEF Init, Sighted, IdsMeanTheirTexts, NoAnchors
<1>2. Shape /\ Locked /\ Dictionary /\ Sighted /\ [Next]_vars => Sighted'
  BY SightedNext
<1> QED  BY <1>1, <1>2, DictionarySpec, PTL DEF Spec

\* findAnchorId is called between the merge of a sighting and the next request,
\* by handlers of several shards at once: whatever ids it hands out, an id that
\* updateUrl or addUrl_unlocked counts is of a text a link to that URL carried.
THEOREM StoreIdsMeanTheirTexts == Spec => []IdsMeanTheirTexts
<1>1. Sighted => IdsMeanTheirTexts
  BY DEF Sighted
<1> QED  BY <1>1, SightedSpec, PTL

-----------------------------------------------------------------------------
(* Seventh layer: each sighting once.                                      *)

LEMMA SightingTyped ==
    ASSUME NEW jp \in Sightings
    PROVE  /\ jp = <<jp[1], jp[2]>> /\ jp[1] \in Jobs /\ jp[2] \in DOMAIN Batches[jp[1]]
           /\ jp[2] \in Nat /\ Sighting(jp) \in Request
           /\ Sighting(jp).anchors \in Seq(Anchors) /\ Sighting(jp).num \in Nat
           /\ Sighting(jp).seed \in Nat
<1>1. /\ jp = <<jp[1], jp[2]>> /\ jp[1] \in Jobs /\ jp[2] \in DOMAIN Batches[jp[1]]
  BY DEF Sightings
<1>2. Batches[jp[1]] \in Seq(Request)
  BY <1>1, StoreAssumption
<1>3. jp[2] \in Nat
  BY <1>1, <1>2, LenProperties
<1>4. Sighting(jp) \in Request
  BY <1>1, <1>2, ElementOfSeq DEF Sighting
<1> QED  BY <1>1, <1>3, <1>4 DEF Request

Merges(h) == LookupKnown(h) \/ Add(h)

\* A merge is of the request the handler is at, which no URL has yet.
LEMMA MergeFacts ==
    ASSUME Shape, Locked, Once, NEW h \in Handlers, Merges(h)
    PROVE  /\ <<job[h], pos[h]>> \in Sightings
           /\ \A u \in Urls : <<job[h], pos[h]>> \notin applied[u]
           /\ Sighting(<<job[h], pos[h]>>) = Current(h) /\ Current(h).url \in Urls
           /\ applied'[Current(h).url] = applied[Current(h).url] \cup {<<job[h], pos[h]>>}
           /\ \A u \in Urls \ {Current(h).url} : applied'[u] = applied[u]
           /\ Current(h).url \in known' /\ known' = known \cup {Current(h).url}
           /\ hpc'[h] = "anchors"
           /\ UNCHANGED <<job, pos, apos, inbox, freqs, dict, crashes>>
<1>1. /\ hpc[h] \in {"lookup", "add"} /\ hpc' = [hpc EXCEPT ![h] = "anchors"]
      /\ applied' = [applied EXCEPT ![Current(h).url] = @ \cup {<<job[h], pos[h]>>}]
      /\ known' = known \cup {Current(h).url}
      /\ UNCHANGED <<job, pos, apos, inbox, freqs, dict, crashes>>
  <2>1. CASE LookupKnown(h)
    BY <2>1 DEF LookupKnown, Goto
  <2>2. CASE Add(h)
    BY <2>2 DEF Add, Goto
  <2> QED  BY <2>1, <2>2 DEF Merges
<1>2. /\ job[h] \in Jobs /\ pos[h] \in DOMAIN Batches[job[h]] /\ Current(h).url \in Urls
      /\ pos[h] \in Nat
  BY <1>1, CurrentTyped DEF Shape, TypeOK
<1>3. <<job[h], pos[h]>> \in Sightings
  BY <1>2 DEF Sightings
<1>4. \A u \in Urls : <<job[h], pos[h]>> \notin applied[u]
  BY <1>1, <1>2 DEF Once
<1>5. applied \in [Urls -> SUBSET (Jobs \X Nat)] /\ hpc \in [Handlers -> Phases]
  BY DEF Shape, TypeOK, Phases
<1> QED  BY <1>1, <1>2, <1>3, <1>4, <1>5 DEF Sighting, Current

LEMMA OnceMerge ==
    ASSUME Shape, Locked, Once, NEW h \in Handlers, Merges(h)
    PROVE  Once'
<1>0. PICK jq \in Sightings, v \in Urls : jq = <<job[h], pos[h]>> /\ v = Current(h).url
  BY MergeFacts
<1>1. /\ \A u \in Urls : jq \notin applied[u]
      /\ applied'[v] = applied[v] \cup {jq}
      /\ \A u \in Urls \ {v} : applied'[u] = applied[u]
      /\ v \in known' /\ known' = known \cup {v} /\ hpc'[h] = "anchors"
      /\ UNCHANGED <<job, pos, inbox, freqs>>
  BY <1>0, MergeFacts
<1>2. \A u \in Urls : IsFiniteSet(applied'[u])
  <2>1. \A u \in Urls : IsFiniteSet(applied[u])
    BY DEF Once
  <2>2. IsFiniteSet(applied[v] \cup {jq})
    BY <2>1, FS_AddElement
  <2> QED  BY <1>1, <2>1, <2>2
<1>3. \A g \in Handlers \ {h} : hpc'[g] = hpc[g]
  BY HandlerFrame DEF Handle, Merges
<1>4. job[h] # 0 /\ jq[1] = job[h] /\ jq[2] = pos[h] /\ jq[1] \notin inbox
  BY <1>0, SightingTyped, StoreAssumption DEF Once
<1>5. ASSUME NEW u \in Urls, NEW jp \in applied'[u]
      PROVE  /\ jp \in Sightings /\ u \in known' /\ jp[1] \notin inbox'
             /\ \A g \in Handlers : job'[g] = jp[1] =>
                    jp[2] < pos'[g] \/ (jp[2] = pos'[g] /\ hpc'[g] = "anchors")
  <2>1. CASE jp \in applied[u]
    BY <1>1, <1>3, <2>1 DEF Once
  <2>2. CASE jp = jq /\ u = v
    <3>1. \A g \in Handlers : job[g] = job[h] => g = h
      BY <1>4 DEF Once
    <3> QED  BY <1>1, <1>4, <2>2, <3>1
  <2> QED  BY <1>1, <1>5, <2>1, <2>2
<1>6. \A u \in Urls \ known' : DOMAIN freqs'[u] = {}
  BY <1>1 DEF Once
<1>7. /\ \A f, g \in Handlers : job'[f] = job'[g] /\ job'[f] # 0 => f = g
      /\ \A g \in Handlers : job'[g] \notin inbox'
  BY <1>1 DEF Once
<1> QED  BY <1>2, <1>5, <1>6, <1>7 DEF Once

LEMMA OnceReceive ==
    ASSUME Shape, Once, NEW h \in Handlers, Receive(h)
    PROVE  Once'
<1>1. PICK j \in inbox : /\ inbox' = inbox \ {j}
                         /\ job' = [job EXCEPT ![h] = j]
  BY DEF Receive
<1>2. /\ job'[h] = j /\ \A g \in Handlers \ {h} : job'[g] = job[g] /\ hpc'[g] = hpc[g]
      /\ pos' = pos /\ applied' = applied /\ known' = known /\ freqs' = freqs
  BY <1>1 DEF Receive, memory, Goto, Shape, TypeOK
<1> QED  BY <1>1, <1>2 DEF Once

\* A handler's other steps: on to the next request, or done with the batch.
LEMMA OnceOther ==
    ASSUME Shape, Locked, Once, NEW h \in Handlers,
           LookupReject(h) \/ LookupNew(h) \/ Anchor(h) \/ Unlock(h) \/ Push(h) \/ Finish(h)
    PROVE  Once'
<1>1. /\ UNCHANGED <<known, inbox, applied>>
      /\ \A g \in Handlers \ {h} : job'[g] = job[g] /\ hpc'[g] = hpc[g] /\ pos'[g] = pos[g]
  BY HandlerFrame DEF Handle, LookupReject, LookupNew, Anchor, Unlock, Push, Finish, memory
<1>2. 0 \notin inbox
  BY StoreAssumption DEF Shape, TypeOK
<1>3. job'[h] = job[h] \/ job'[h] = 0
  BY DEF LookupReject, LookupNew, Anchor, Unlock, Push, Finish, Shape, TypeOK
<1>4. ASSUME NEW u \in Urls, NEW jp \in applied[u], job'[h] = jp[1]
      PROVE  jp[2] < pos'[h] \/ (jp[2] = pos'[h] /\ hpc'[h] = "anchors")
  <2>0. jp[1] # 0 /\ jp[2] \in Nat /\ pos[h] \in Nat
    BY SightingTyped, StoreAssumption DEF Once, Shape, TypeOK
  <2>1. job[h] = jp[1]
    BY <1>3, <1>4, <2>0
  <2>2. CASE LookupReject(h) \/ Unlock(h)
    <3>1. pos'[h] = pos[h] + 1
      BY <2>2, AdvanceFacts DEF LookupReject, Unlock
    <3> QED  BY <2>0, <2>1, <3>1 DEF Once
  <2>3. CASE LookupNew(h) \/ Anchor(h) \/ Push(h)
    <3>1. hpc[h] = "anchors" => hpc'[h] = "anchors"
      BY <2>3 DEF LookupNew, Anchor, Push
    <3>2. pos' = pos
      BY <2>3 DEF LookupNew, Anchor, Push
    <3> QED  BY <2>1, <3>1, <3>2 DEF Once
  <2>4. CASE Finish(h)
    BY <1>4, <2>0, <2>4 DEF Finish, Shape, TypeOK
  <2> QED  BY <2>2, <2>3, <2>4
<1>5. \A u \in Urls \ known : DOMAIN freqs'[u] = {}
  <2>1. CASE Anchor(h)
    <3>1. Current(h).url \in known /\ Current(h).url \in Urls
      BY <2>1, CurrentTyped DEF Anchor, Locked, Shape
    <3>2. \A u \in Urls \ {Current(h).url} : freqs'[u] = freqs[u]
      BY <2>1, AnchorOthers, <3>1
    <3> QED  BY <3>1, <3>2 DEF Once
  <2>2. CASE freqs' = freqs
    BY <2>2 DEF Once
  <2> QED  BY <2>1, <2>2 DEF LookupReject, LookupNew, Unlock, Push, Finish, memory
<1> QED  BY <1>1, <1>2, <1>3, <1>4, <1>5 DEF Once

LEMMA OnceNext ==
    ASSUME Shape, Locked, Once, [Next]_vars
    PROVE  Once'
<1>1. ASSUME NEW h \in Handlers, Handle(h)
      PROVE  Once'
  BY <1>1, OnceMerge, OnceReceive, OnceOther DEF Handle, Merges
<1>2. CASE (\E u \in Urls : MarkCrawled(u)) \/ Persist \/ UNCHANGED vars
  <2>1. UNCHANGED <<known, job, pos, hpc, inbox, freqs, applied>>
    BY <1>2, OtherSteps
  <2> QED  BY <2>1 DEF Once
<1>3. CASE Restart
  <2>1. \A u \in Urls : applied'[u] = {} /\ IsFiniteSet(applied'[u])
    BY <1>3, FS_EmptySet DEF Restart
  <2>2. \A u \in Urls \ known' : DOMAIN freqs'[u] = {}
    BY <1>3, ReadBack DEF NoAnchors
  <2>3. inbox' = inbox /\ 0 \notin inbox
    BY <1>3, StoreAssumption DEF Restart, Shape, TypeOK
  <2> QED  BY <1>3, <2>1, <2>2, <2>3, RestartIdle DEF Once
<1> QED  BY <1>1, <1>2, <1>3 DEF Next

\* Finitely many links have finitely many words.
LEMMA WordsFinite ==
    ASSUME NEW A \in SUBSET Sightings, IsFiniteSet(A), NEW b
    PROVE  IsFiniteSet(Occurrences(A, b))
<1> DEFINE At(jp) == {k \in DOMAIN Sighting(jp).anchors : Sighting(jp).anchors[k] = b}
           Of(jp) == {<<jp, i>> : i \in At(jp)}
<1>1. ASSUME NEW jp \in A
      PROVE  IsFiniteSet(Of(jp))
  <2>1. /\ DOMAIN Sighting(jp).anchors = 1..Len(Sighting(jp).anchors)
        /\ Len(Sighting(jp).anchors) \in Nat
    BY SightingTyped, LenProperties
  <2>2. IsFiniteSet(At(jp))
    <3>1. IsFiniteSet(1..Len(Sighting(jp).anchors))
      BY <2>1, FS_Interval
    <3>2. At(jp) \in SUBSET (1..Len(Sighting(jp).anchors))
      BY <2>1
    <3> QED  BY <3>1, <3>2, FS_Subset
  <2>3. [i \in At(jp) |-> <<jp, i>>] \in Surjection(At(jp), Of(jp))
    BY DEF Surjection
  <2> QED  BY <2>2, <2>3, FS_Surjection
<1> HIDE DEF Of
<1>2. [jp \in A |-> Of(jp)] \in Surjection(A, {Of(jp) : jp \in A})
  BY DEF Surjection
<1>3. IsFiniteSet({Of(jp) : jp \in A})
  BY <1>2, FS_Surjection
<1>4. IsFiniteSet(UNION {Of(jp) : jp \in A})
  BY <1>1, <1>3, FS_UNION
<1> QED  BY <1>4 DEF Of, Occurrences

LEMMA TallyMember ==
    ASSUME NEW u, NEW b, NEW o
    PROVE  o \in Tally(u, b) <=>
               /\ \E jp \in applied[u] : \E i \in DOMAIN Sighting(jp).anchors :
                      o = <<jp, i>> /\ Sighting(jp).anchors[i] = b
               /\ ~Pending(o)
BY DEF Tally, Occurrences

\* What was counted or is no longer awaited stays so.
LEMMA TallyGrows ==
    ASSUME Shape, Locked, Once, NEW h \in Handlers, Handle(h), NEW u \in Urls, NEW b
    PROVE  Tally(u, b) \subseteq Tally(u, b)'
<1> SUFFICES ASSUME NEW o \in Tally(u, b)
             PROVE  o \in Tally(u, b)'
  OBVIOUS
<1>0. PICK jp \in applied[u] : \E i \in DOMAIN Sighting(jp).anchors :
          o = <<jp, i>> /\ Sighting(jp).anchors[i] = b
  BY TallyMember
<1>1. PICK i \in DOMAIN Sighting(jp).anchors : o = <<jp, i>> /\ Sighting(jp).anchors[i] = b
  BY <1>0
<1>2. ~Pending(o)
  BY TallyMember
<1>3. jp \in applied'[u]
  BY AppliedGrows
<1>4. jp \in Sightings /\ i \in Nat
  BY <1>1, SightingTyped, LenProperties DEF Once
<1>5. ASSUME NEW g \in Handlers, hpc'[g] = "anchors", jp = <<job'[g], pos'[g]>>, i >= apos'[g]
      PROVE  FALSE
  <2>1. CASE g # h
    BY <1>1, <1>2, <1>5, <2>1, HandlerFrame DEF Pending
  <2>2. CASE Merges(h) /\ g = h
    BY <1>5, <2>2, MergeFacts
  <2>3. CASE Anchor(h) /\ g = h
    <3>1. /\ hpc[h] = "anchors" /\ job' = job /\ pos' = pos /\ apos'[h] = apos[h] + 1
          /\ apos[h] \in Nat
      <4>1. apos \in [Handlers -> Nat \ {0}]
        BY DEF Shape, TypeOK
      <4> QED  BY <2>3, <4>1, AnchorCases
    <3> QED  BY <1>1, <1>2, <1>4, <1>5, <2>3, <3>1 DEF Pending
  <2>4. CASE g = h /\ ~Merges(h) /\ ~Anchor(h)
    <3>1. hpc \in [Handlers -> Phases]
      BY DEF Shape, TypeOK, Phases
    <3> QED  BY <1>5, <2>4, <3>1 DEF Handle, Merges, Receive, LookupReject, LookupNew, Unlock,
                                     Push, Finish, Advance, Goto, Phases
  <2> QED  BY <2>1, <2>2, <2>3, <2>4
<1>6. ~Pending(o)'
  BY <1>1, <1>5 DEF Pending
<1> QED  BY <1>1, <1>3, <1>6 DEF Tally, Occurrences

\* At an update of a stored URL its tallies are finite numbers that only grow.
LEMMA TallyCounts ==
    ASSUME Shape, Locked, Once, NEW h \in Handlers, Handle(h), NEW u \in Urls, NEW b
    PROVE  /\ IsFiniteSet(Tally(u, b)) /\ Cardinality(Tally(u, b)) \in Nat
           /\ IsFiniteSet(Tally(u, b)') /\ Cardinality(Tally(u, b)') \in Nat
           /\ Cardinality(Tally(u, b)) <= Cardinality(Tally(u, b)')
<1>1. Once'
  BY OnceNext DEF Next
<1>2. /\ applied[u] \in SUBSET Sightings /\ IsFiniteSet(applied[u])
      /\ applied'[u] \in SUBSET Sightings /\ IsFiniteSet(applied'[u])
  BY <1>1 DEF Once
<1>3. IsFiniteSet(Occurrences(applied[u], b)) /\ IsFiniteSet(Occurrences(applied'[u], b))
  BY <1>2, WordsFinite
<1>4. /\ Tally(u, b) \in SUBSET Occurrences(applied[u], b)
      /\ Tally(u, b)' \in SUBSET Occurrences(applied'[u], b)
  BY DEF Tally, Occurrences, Sighting
<1>5. IsFiniteSet(Tally(u, b)) /\ IsFiniteSet(Tally(u, b)')
  BY <1>3, <1>4, FS_Subset
<1>6. Tally(u, b) \in SUBSET Tally(u, b)'
  BY TallyGrows
<1> QED  BY <1>5, <1>6, FS_Subset, FS_CardinalityType

LEMMA EncountersTyped == Encounters \in [Sightings -> Nat]
BY SightingTyped DEF Encounters

\* A step that merges nothing and counts nothing.
LEMMA TalliedQuiet ==
    ASSUME Shape, Locked, Once, Dictionary, Sighted, Tallied, crashes = 0,
           NEW h \in Handlers, Handle(h), NEW u \in known,
           texts' = texts, info'[u] = info[u], applied'[u] = applied[u], freqs'[u] = freqs[u]
    PROVE  /\ info'[u].num = SumOf(applied'[u])
           /\ \A jp \in applied'[u] : info'[u].seed <= Sighting(jp).seed
           /\ \E jp \in applied'[u] : info'[u].seed = Sighting(jp).seed
           /\ \A id \in DOMAIN freqs'[u] : freqs'[u][id] <= Cardinality(Tally(u, texts[id + 1])')
<1>1. u \in Urls
  BY DEF Shape, TypeOK
<1>2. ASSUME NEW id \in DOMAIN freqs[u]
      PROVE  freqs[u][id] <= Cardinality(Tally(u, texts[id + 1])')
  <2>1. freqs[u][id] \in Nat /\ freqs[u][id] <= Cardinality(Tally(u, texts[id + 1]))
    BY <1>1, <1>2 DEF Tallied, Shape, TypeOK
  <2>2. PICK b : b = texts[id + 1]
    OBVIOUS
  <2>3. /\ Cardinality(Tally(u, b)) \in Nat /\ Cardinality(Tally(u, b)') \in Nat
        /\ Cardinality(Tally(u, b)) <= Cardinality(Tally(u, b)')
    BY <1>1, TallyCounts
  <2>4. Tally(u, texts[id + 1])' = Tally(u, b)'
    BY <2>2 DEF Tally
  <2> QED  BY <2>1, <2>2, <2>3, <2>4
<1> QED  BY <1>2 DEF Tallied

\* A sighting is merged: its encounters are added and its distance compared.
LEMMA TalliedMerge ==
    ASSUME Shape, Locked, Once, Dictionary, Sighted, Tallied, crashes = 0,
           NEW h \in Handlers, Merges(h)
    PROVE  Tallied'
<1>0. PICK jq \in Sightings, v \in Urls : jq = <<job[h], pos[h]>> /\ v = Current(h).url
  BY MergeFacts
<1>1. /\ jq \notin applied[v] /\ Sighting(jq) = Current(h)
      /\ applied'[v] = applied[v] \cup {jq}
      /\ \A u \in Urls \ {v} : applied'[u] = applied[u]
      /\ known' = known \cup {v} /\ freqs' = freqs /\ texts' = texts /\ crashes' = crashes
  BY <1>0, MergeFacts DEF dict
<1>2. Handle(h)
  BY DEF Handle, Merges
<1>3. /\ known \subseteq Urls /\ info \in [Urls -> [num : Nat, seed : Nat]]
      /\ Sighting(jq).num \in Nat /\ Sighting(jq).seed \in Nat
  BY SightingTyped DEF Shape, TypeOK
<1>4. \A u \in Urls \ {v} : info'[u] = info[u]
  BY <1>0, <1>3 DEF Merges, LookupKnown, Add
<1>5. SumOf(applied'[v]) = SumOf(applied[v]) + Sighting(jq).num /\ SumOf(applied[v]) \in Nat
  <2>1. applied[v] \in SUBSET Sightings /\ IsFiniteSet(applied[v]) /\ jq \in Sightings \ applied[v]
    BY <1>1 DEF Once
  <2>2. SumFunctionOnSet(Encounters, applied[v] \cup {jq})
            = SumFunctionOnSet(Encounters, applied[v]) + Encounters[jq]
    BY <2>1, EncountersTyped, SumGrows
  <2>3. SumFunctionOnSet(Encounters, applied[v]) \in Nat
    BY <2>1, EncountersTyped, SumIsNatural
  <2> QED  BY <1>1, <2>2, <2>3 DEF SumOf, Encounters
<1>6. /\ info'[v].num = SumOf(applied'[v])
      /\ \A jp \in applied'[v] : info'[v].seed <= Sighting(jp).seed
      /\ \E jp \in applied'[v] : info'[v].seed = Sighting(jp).seed
  <2>1. CASE LookupKnown(h)
    <3>1. /\ v \in known
          /\ info'[v].num = info[v].num + Sighting(jq).num
          /\ info'[v].seed = MinOf(info[v].seed, Sighting(jq).seed)
      BY <1>0, <1>1, <1>3, <2>1 DEF LookupKnown
    <3>2. /\ info[v].num = SumOf(applied[v])
          /\ \A jp \in applied[v] : info[v].seed <= Sighting(jp).seed
          /\ \E jp \in applied[v] : info[v].seed = Sighting(jp).seed
      BY <3>1 DEF Tallied
    <3>3. \A jp \in applied[v] : Sighting(jp).seed \in Nat
      BY SightingTyped DEF Once
    <3>4. info[v].seed \in Nat
      BY <1>3
    <3>5. info'[v].num = SumOf(applied'[v])
      BY <1>5, <3>1, <3>2
    <3> QED  BY <1>1, <1>3, <3>1, <3>2, <3>3, <3>4, <3>5 DEF MinOf
  <2>2. CASE Add(h)
    <3>1. /\ v \notin known
          /\ info'[v].num = Sighting(jq).num /\ info'[v].seed = Sighting(jq).seed
      BY <1>0, <1>1, <1>3, <2>2 DEF Add, Locked
    <3>2. applied[v] = {}
      BY <3>1 DEF Once
    <3>3. SumOf(applied[v]) = 0
      BY <3>2, SumStep, FS_EmptySet DEF SumOf
    <3> QED  BY <1>1, <1>3, <1>5, <3>1, <3>2, <3>3
  <2> QED  BY <2>1, <2>2 DEF Merges
<1>7. ASSUME NEW id \in DOMAIN freqs'[v]
      PROVE  freqs'[v][id] <= Cardinality(Tally(v, texts[id + 1])')
  <2>1. v \in known
    BY <1>1, <1>7 DEF Once
  <2>2. PICK b : b = texts[id + 1]
    OBVIOUS
  <2>3. freqs[v][id] \in Nat /\ freqs[v][id] <= Cardinality(Tally(v, b))
    BY <1>1, <1>7, <2>1, <2>2 DEF Tallied, Shape, TypeOK
  <2>4. /\ Cardinality(Tally(v, b)) \in Nat /\ Cardinality(Tally(v, b)') \in Nat
        /\ Cardinality(Tally(v, b)) <= Cardinality(Tally(v, b)')
    BY <1>2, TallyCounts
  <2>5. Tally(v, texts[id + 1])' = Tally(v, b)'
    BY <1>1, <2>2 DEF Tally
  <2> QED  BY <1>1, <2>3, <2>4, <2>5
<1>8. ASSUME NEW u \in known, u # v
      PROVE  /\ info'[u].num = SumOf(applied'[u])
             /\ \A jp \in applied'[u] : info'[u].seed <= Sighting(jp).seed
             /\ \E jp \in applied'[u] : info'[u].seed = Sighting(jp).seed
             /\ \A id \in DOMAIN freqs'[u] : freqs'[u][id] <= Cardinality(Tally(u, texts[id + 1])')
  <2>1. u \in Urls
    BY <1>3, <1>8
  <2> QED  BY <1>1, <1>2, <1>4, <1>8, <2>1, TalliedQuiet
<1>9. \A u \in known' : u = v \/ (u \in known /\ u # v)
  BY <1>1
<1> QED  BY <1>6, <1>7, <1>8, <1>9 DEF Tallied, SumOf, Sighting

\* The anchor counted now was awaited before and is not any more.
LEMMA AnchorTally ==
    ASSUME Shape, Locked, Once, Sighted, NEW h \in Handlers, Anchor(h),
           NEW u \in Urls, u = Current(h).url, NEW a, a = Current(h).anchors[apos[h]]
    PROVE  Cardinality(Tally(u, a)') >= Cardinality(Tally(u, a)) + 1
<1>0. PICK jq, o : jq = <<job[h], pos[h]>> /\ o = <<jq, apos[h]>>
  OBVIOUS
<1>1. /\ hpc[h] = "anchors" /\ apos[h] \in DOMAIN Current(h).anchors
      /\ apos' = [apos EXCEPT ![h] = apos[h] + 1] /\ apos[h] \in Nat
      /\ UNCHANGED <<job, pos, hpc, applied>>
  BY AnchorCases DEF Shape, TypeOK
<1>2. Handle(h)
  BY DEF Handle
<1>3. jq \in applied[u] /\ jq \in Sightings /\ Sighting(jq) = Current(h)
  BY <1>0, <1>1 DEF Sighted, Once, Sighting, Current
<1>4. Pending(o)
  BY <1>0, <1>1 DEF Pending
<1>5. ~Pending(o)'
  <2> SUFFICES ASSUME NEW g \in Handlers, jq = <<job[g], pos[g]>>, apos[h] >= apos'[g]
               PROVE  FALSE
    BY <1>0, <1>1 DEF Pending
  <2>1. job[g] = job[h] /\ job[h] # 0
    BY <1>0, <1>3, SightingTyped, StoreAssumption
  <2>2. g = h
    BY <2>1 DEF Once
  <2> QED  BY <1>1, <2>2 DEF Shape, TypeOK
<1>6. o \in Tally(u, a)' /\ o \notin Tally(u, a)
  <2>1. o \notin Tally(u, a)
    BY <1>4, TallyMember
  <2>2. o \in Occurrences(applied'[u], a)
    BY <1>0, <1>1, <1>3 DEF Occurrences
  <2> QED  BY <1>5, <2>1, <2>2 DEF Tally, Occurrences, Sighting
<1>7. /\ IsFiniteSet(Tally(u, a)) /\ Cardinality(Tally(u, a)) \in Nat
      /\ IsFiniteSet(Tally(u, a)')
  BY <1>2, TallyCounts
<1>8. Tally(u, a) \cup {o} \in SUBSET Tally(u, a)'
  BY <1>2, <1>6, TallyGrows
<1>9. Cardinality(Tally(u, a) \cup {o}) = Cardinality(Tally(u, a)) + 1
  BY <1>6, <1>7, FS_AddElement
<1>10. Cardinality(Tally(u, a) \cup {o}) <= Cardinality(Tally(u, a)')
  BY <1>7, <1>8, FS_Subset
<1>11. Cardinality(Tally(u, a)') \in Nat
  BY <1>7, FS_CardinalityType
<1> QED  BY <1>7, <1>9, <1>10, <1>11

LEMMA TalliedAnchor ==
    ASSUME Shape, Locked, Once, Dictionary, Sighted, Tallied, crashes = 0,
           NEW h \in Handlers, Anchor(h)
    PROVE  Tallied'
<1>0. PICK v \in Urls, a \in Anchors : v = Current(h).url /\ a = Current(h).anchors[apos[h]]
  BY AnchorCases, CurrentTyped DEF Shape
<1>1. /\ AnchorStep(h, v, a) /\ UNCHANGED <<known, info, applied, crashes>>
  BY <1>0, AnchorCases
<1>2. Handle(h)
  BY DEF Handle
<1>3. texts \in Seq(Anchors) /\ Len(texts) \in Nat /\ known \subseteq Urls
  BY LenProperties DEF Shape, TypeOK
<1>4. \A u \in Urls : \A id \in DOMAIN freqs[u] : id \in Nat /\ id < Len(texts) /\ freqs[u][id] \in Nat
  BY DEF Sighted, IdsMeanTheirTexts, Shape, TypeOK
<1>5. \A k \in Nat : k < Len(texts) => texts'[k + 1] = texts[k + 1]
  <2>1. CASE UNCHANGED dict
    BY <2>1 DEF dict
  <2>2. CASE NewId(h, v, a)
    <3>1. \A i \in 1..Len(texts) : texts'[i] = texts[i]
      BY <1>3, <2>2, AppendProperties DEF NewId
    <3> QED  BY <1>3, <3>1
  <2> QED  BY <1>1, <2>1, <2>2 DEF AnchorStep, dict
<1>6. ASSUME NEW u \in known, NEW id \in DOMAIN freqs[u]
      PROVE  freqs[u][id] <= Cardinality(Tally(u, texts[id + 1])')
  <2>1. u \in Urls /\ texts'[id + 1] = texts[id + 1]
    BY <1>3, <1>4, <1>5, <1>6
  <2>2. PICK b : b = texts[id + 1]
    OBVIOUS
  <2>3. /\ Cardinality(Tally(u, b)) \in Nat /\ Cardinality(Tally(u, b)') \in Nat
        /\ Cardinality(Tally(u, b)) <= Cardinality(Tally(u, b)')
    BY <1>2, <2>1, TallyCounts
  <2>4. freqs[u][id] \in Nat /\ freqs[u][id] <= Cardinality(Tally(u, b))
    BY <1>4, <1>6, <2>1, <2>2 DEF Tallied
  <2>5. Tally(u, texts[id + 1])' = Tally(u, b)'
    BY <2>1, <2>2 DEF Tally
  <2> QED  BY <2>3, <2>4, <2>5
<1>7. ASSUME NEW n \in Nat, texts'[n + 1] = a, CountAnchor(h, v, n),
             n \in DOMAIN freqs[v] => texts[n + 1] = a
      PROVE  \A u \in known : \A id \in DOMAIN freqs'[u] :
                 freqs'[u][id] <= Cardinality(Tally(u, texts[id + 1])')
  <2> SUFFICES ASSUME NEW u \in known, NEW id \in DOMAIN freqs'[u]
               PROVE  freqs'[u][id] <= Cardinality(Tally(u, texts[id + 1])')
    OBVIOUS
  <2>1. CASE u # v \/ id # n
    <3>1. id \in DOMAIN freqs[u] /\ freqs'[u][id] = freqs[u][id]
      BY <1>3, <1>7, <2>1, CountTyped
    <3> QED  BY <1>6, <3>1
  <2>2. CASE u = v /\ id = n
    <3>1. freqs'[v][n] = IF fresh[h] THEN 1 ELSE IF n \in DOMAIN freqs[v] THEN freqs[v][n] + 1 ELSE 1
      BY <1>7, CountTyped
    <3>2. Cardinality(Tally(v, a)') >= Cardinality(Tally(v, a)) + 1
      BY <1>0, AnchorTally
    <3>3. Cardinality(Tally(v, a)) \in Nat /\ Cardinality(Tally(v, a)') \in Nat
      BY <1>2, TallyCounts
    <3>4. n \in DOMAIN freqs[v] => freqs[v][n] \in Nat /\ freqs[v][n] <= Cardinality(Tally(v, a))
      BY <1>4, <1>7, <2>2 DEF Tallied
    <3>5. Tally(u, texts[id + 1])' = Tally(v, a)'
      BY <1>7, <2>2 DEF Tally
    <3>6. freqs'[v][n] <= Cardinality(Tally(v, a)')
      BY <3>1, <3>2, <3>3, <3>4
    <3> QED  BY <2>2, <3>5, <3>6
  <2> QED  BY <2>1, <2>2
<1>8. \A u \in known : \A id \in DOMAIN freqs'[u] :
          freqs'[u][id] <= Cardinality(Tally(u, texts[id + 1])')
  <2>1. CASE a \in DOMAIN toId /\ CountAnchor(h, v, toId[a]) /\ UNCHANGED dict
    <3>1. toId[a] \in Nat /\ texts[toId[a] + 1] = a
      BY <2>1 DEF Dictionary, DictionaryInverse, Shape, TypeOK
    <3> QED  BY <1>7, <2>1, <3>1 DEF dict
  <2>2. CASE UNCHANGED <<freqs, dict>>
    BY <1>6, <2>2
  <2>3. CASE NewId(h, v, a)
    <3>1. texts'[Len(texts) + 1] = a /\ CountAnchor(h, v, Len(texts))
      BY <1>3, <2>3, AppendProperties DEF NewId
    <3>2. Len(texts) \notin DOMAIN freqs[v]
      BY <1>3, <1>4
    <3> QED  BY <1>3, <1>7, <3>1, <3>2
  <2> QED  BY <1>1, <2>1, <2>2, <2>3 DEF AnchorStep
<1> QED  BY <1>1, <1>8 DEF Tallied, SumOf, Sighting

LEMMA TalliedNext ==
    ASSUME Shape, Locked, Once, Dictionary, Sighted, Tallied, [Next]_vars
    PROVE  Tallied'
<1>1. ASSUME NEW h \in Handlers, Handle(h), crashes = 0
      PROVE  Tallied'
  <2>1. CASE Receive(h) \/ LookupReject(h) \/ LookupNew(h) \/ Unlock(h) \/ Push(h) \/ Finish(h)
    <3>1. UNCHANGED <<known, info, freqs, texts, applied, crashes>>
      BY <2>1 DEF Receive, LookupReject, LookupNew, Unlock, Push, Finish, memory, dict
    <3>2. \A u \in known : /\ info'[u].num = SumOf(applied'[u])
                           /\ \A jp \in applied'[u] : info'[u].seed <= Sighting(jp).seed
                           /\ \E jp \in applied'[u] : info'[u].seed = Sighting(jp).seed
                           /\ \A id \in DOMAIN freqs'[u] :
                                  freqs'[u][id] <= Cardinality(Tally(u, texts[id + 1])')
      BY <1>1, <3>1, TalliedQuiet
    <3> QED  BY <3>1, <3>2 DEF Tallied, SumOf, Sighting
  <2> QED  BY <1>1, <2>1, TalliedMerge, TalliedAnchor DEF Handle, Merges
<1>2. ASSUME NEW h \in Handlers, Handle(h), crashes # 0
      PROVE  Tallied'
  <2>1. crashes' = crashes
    BY <1>2 DEF Handle, Receive, LookupKnown, LookupReject, LookupNew, Add, Anchor, Unlock,
                Push, Finish
  <2> QED  BY <1>2, <2>1 DEF Tallied
<1>3. CASE (\E u \in Urls : MarkCrawled(u)) \/ Persist \/ UNCHANGED vars
  <2>1. UNCHANGED <<known, info, freqs, texts, job, hpc, pos, apos, crashes, applied>>
    BY <1>3, OtherSteps
  <2>2. \A o : Pending(o)' <=> Pending(o)
    BY <2>1 DEF Pending
  <2>3. \A u, a : Tally(u, a)' = Tally(u, a)
    BY <2>1, <2>2 DEF Tally
  <2> QED  BY <2>1, <2>3 DEF Tallied
<1>4. CASE Restart
  <2>1. crashes' # 0
    BY <1>4 DEF Restart, Shape, TypeOK
  <2> QED  BY <2>1 DEF Tallied
<1> QED  BY <1>1, <1>2, <1>3, <1>4 DEF Next

LEMMA TalliedSpec == Spec => [](Once /\ Tallied)
<1>1. Init => Once /\ Tallied
  BY FS_EmptySet, StoreAssumption DEF Init, Once, Tallied, NoAnchors
<1>2. Shape /\ Locked /\ Dictionary /\ Sighted /\ Once /\ Tallied /\ [Next]_vars => (Once /\ Tallied)'
  BY OnceNext, TalliedNext
<1> QED  BY <1>1, <1>2, SightedSpec, PTL DEF Spec

\* updateUrl and addUrl_unlocked, called by any number of handlers for the same
\* URLs and anchors, lose no sighting and count none twice: num_encountered is
\* the sum of the sightings' counts, seed_distance their minimum, and an anchor's
\* counter at most the number of times the text was seen.
THEOREM StoreMergesAreExact == Spec => []MergesAreExact
<1>1. ASSUME Shape, Once, Tallied
      PROVE  MergesAreExact
  <2> SUFFICES ASSUME crashes = 0, NEW u \in known, NEW id \in DOMAIN freqs[u]
               PROVE  freqs[u][id] <= Cardinality(Occurrences(applied[u], texts[id + 1]))
    BY <1>1 DEF MergesAreExact, Tallied
  <2> DEFINE a == texts[id + 1]
  <2>1. u \in Urls /\ freqs[u][id] \in Nat /\ freqs[u][id] <= Cardinality(Tally(u, a))
    BY <1>1 DEF Shape, TypeOK, Tallied
  <2>2. applied[u] \in SUBSET Sightings /\ IsFiniteSet(applied[u])
    BY <1>1, <2>1 DEF Once
  <2>3. IsFiniteSet(Occurrences(applied[u], a)) /\ Tally(u, a) \in SUBSET Occurrences(applied[u], a)
    BY <2>2, WordsFinite DEF Tally
  <2>4. /\ Cardinality(Tally(u, a)) \in Nat /\ Cardinality(Occurrences(applied[u], a)) \in Nat
        /\ Cardinality(Tally(u, a)) <= Cardinality(Occurrences(applied[u], a))
    BY <2>3, FS_Subset, FS_CardinalityType
  <2> QED  BY <2>1, <2>4
<1> QED  BY <1>1, ShapeSpec, TalliedSpec, PTL
=============================================================================
