------------------------------- MODULE UrlStore -------------------------------
(***************************************************************************)
(* The URL store of one machine (url_store/url_store.h, url_store.cpp):    *)
(* the sharded map of every URL seen, the anchor-text dictionary shared by *)
(* the shards, the handlers that apply batches of sightings and push the   *)
(* new URLs to the frontier's buckets, the thread that persists the store, *)
(* and what a restart reads back.                                          *)
(*                                                                         *)
(* Locks.  A shard's mutex is held over the whole of updateUrl; two        *)
(* handlers in different shards interleave inside it, at the reads and     *)
(* writes of what they share: unique_url_count and the anchor dictionary.  *)
(* global_mtx covers single calls and is inside their steps.               *)
(*                                                                         *)
(* Abstracted: titles and text lengths (updateTitle, updateTitleLen,       *)
(* updateBodyLen overwrite one field of a known URL), domain_dist, which   *)
(* is merged exactly as seed_distance is, the metrics' counters            *)
(* (total_url_count, local and rpc counts), and what the file format does  *)
(* to oversized URLs and titles.                                           *)
(***************************************************************************)
EXTENDS Integers, Sequences, FiniteSets, FiniteSetsExt

CONSTANTS
    Urls,               \* lowercased URLs
    Anchors,            \* anchor texts
    Cut,                \* Cut[a]: the first URL_STORE_MAX_ANCHOR_TEXT_LEN bytes of a
    Handlers,           \* threads applying batches: RPC threads, local flushes
    NumShards,          \* URL_NUM_SHARDS
    Shard,              \* Shard[u]: hasher(u) % URL_NUM_SHARDS
    Nsfw,               \* the URLs is_nsfw_url rejects
    PriorityBuckets,    \* PRIORITY_BUCKETS; also the "never crawl" priority
    MaxStoreUrls,       \* MAX_STORE_URLS
    MaxAnchorsPerUrl,   \* MAX_ANCHORS_PER_URL
    Batches,            \* the batches that will arrive, each a sequence of
                        \* [url, anchors, seed, num, prio]
    MaxCrashes          \* bound: how often the process is killed and restarted

Levels == 0..(PriorityBuckets - 1)
Jobs   == DOMAIN Batches
Shards == 0..(NumShards - 1)

Request == [url : Urls, anchors : Seq(Anchors), seed : Nat, num : Nat,
            prio : 0..PriorityBuckets]

ASSUME StoreAssumption ==
    /\ Shard \in [Urls -> Shards]
    /\ Cut \in [Anchors -> Anchors] /\ \A a \in Anchors : Cut[Cut[a]] = Cut[a]
    /\ NumShards \in Nat \ {0}
    /\ IsFiniteSet(Handlers) /\ Handlers # {}
    /\ Nsfw \subseteq Urls
    /\ PriorityBuckets \in Nat \ {0}
    /\ MaxStoreUrls \in Nat
    /\ MaxAnchorsPerUrl \in Nat
    /\ MaxCrashes \in Nat
    /\ 0 \notin Jobs
    /\ \A j \in Jobs : Batches[j] \in Seq(Request)

VARIABLES
    known,      \* the keys of all shards' url_data
    info,       \* info[u]: num_encountered, seed_distance of a known URL
    freqs,      \* freqs[u]: anchor_freqs, a function from anchor ids to counts
    crawled,    \* the known URLs with crawled = true
    unique,     \* unique_url_count
    toId,       \* anchor_to_id, a function from a set of anchors to ids
    texts,      \* id_to_anchor; id i is texts[i + 1]
    inbox,      \* batches not yet received
    job,        \* job[h]: the batch h works on, 0 if idle
    hpc,        \* "idle", "lookup", "add", "anchors" or "push"
    pos, apos,  \* h's request in its batch, anchor in that request
    fresh,      \* is_new: the current URL was added by this request
    targets,    \* targets[h][p]: bucket_targets, not yet pushed
    frontier,   \* frontier[p]: what was pushed to DomainCarousel::buckets[p]
    ppc,        \* the persist thread: "idle" or "write"
    written,    \* how many shards it has written to urlstore_tmp.txt
    tmp,        \* urlstore_tmp.txt: the anchors and the URL records so far
    disk,       \* urlstore.txt
    crashes,
    applied     \* observer: the requests merged into u since the process started

memory   == <<known, info, freqs, crawled, unique>>
dict     == <<toId, texts>>
handling == <<job, hpc, pos, apos, fresh, targets>>
persist  == <<ppc, written, tmp, disk>>
vars == <<memory, dict, inbox, handling, frontier, persist, crashes, applied>>

-----------------------------------------------------------------------------
NoTargets  == [p \in Levels |-> <<>>]
EmptyFile  == [anchors |-> <<>>, recs |-> {}]
NoInfo     == [num |-> 0, seed |-> 0]
NoAnchors  == [id \in {} |-> 0]
MinOf(a, b) == IF a <= b THEN a ELSE b

Put(f, k, v) == [x \in DOMAIN f \cup {k} |-> IF x = k THEN v ELSE f[x]]

Current(h) == Batches[job[h]][pos[h]]      \* the request h is applying

\* The shard's mutex is held from the lookup to the end of updateUrl.
ShardLocked(s) == \E h \in Handlers : /\ hpc[h] \in {"add", "anchors"}
                                      /\ Shard[Current(h).url] = s

Init ==
    /\ known = {} /\ crawled = {} /\ unique = 0
    /\ info = [u \in Urls |-> NoInfo]
    /\ freqs = [u \in Urls |-> NoAnchors]
    /\ toId = [a \in {} |-> 0] /\ texts = <<>>
    /\ inbox = Jobs
    /\ job = [h \in Handlers |-> 0] /\ hpc = [h \in Handlers |-> "idle"]
    /\ pos = [h \in Handlers |-> 1] /\ apos = [h \in Handlers |-> 1]
    /\ fresh = [h \in Handlers |-> FALSE]
    /\ targets = [h \in Handlers |-> NoTargets]
    /\ frontier = NoTargets
    /\ ppc = "idle" /\ written = 0 /\ tmp = EmptyFile /\ disk = EmptyFile
    /\ crashes = 0
    /\ applied = [u \in Urls |-> {}]

-----------------------------------------------------------------------------
(* Applying a batch: batch_manage_frontier_and_update_url.                 *)

Goto(h, label) == hpc' = [hpc EXCEPT ![h] = label]

Receive(h) ==
    /\ hpc[h] = "idle"
    /\ \E j \in inbox :
           /\ inbox' = inbox \ {j}
           /\ job' = [job EXCEPT ![h] = j]
           /\ Goto(h, IF Batches[j] = <<>> THEN "push" ELSE "lookup")
    /\ UNCHANGED <<memory, dict, pos, apos, fresh, targets, frontier, persist, crashes, applied>>

\* Slip: `<=` for `<` in the loop over the requests.
AdvanceTooFar(h) ==
    /\ pos' = [pos EXCEPT ![h] = @ + 1]
    /\ Goto(h, IF pos[h] <= Len(Batches[job[h]]) THEN "lookup" ELSE "push")

\* The next request of the batch, or the push of what was new.
Advance(h) ==
    /\ pos' = [pos EXCEPT ![h] = @ + 1]
    /\ Goto(h, IF pos[h] < Len(Batches[job[h]]) THEN "lookup" ELSE "push")

\* Slip: `>` for `>=` against the cap.
RejectedLate(r) == r.prio = PriorityBuckets \/ r.url \in Nsfw \/ unique > MaxStoreUrls

Rejected(r) == r.prio = PriorityBuckets \/ r.url \in Nsfw \/ unique >= MaxStoreUrls

\* Slip: the larger distance wins.
LookupKnownFarthest(h) ==
    LET r == Current(h) IN
    /\ hpc[h] = "lookup" /\ ~ShardLocked(Shard[r.url])
    /\ r.url \in known
    /\ info' = [info EXCEPT ![r.url].num = @ + r.num,
                            ![r.url].seed = IF @ >= r.seed THEN @ ELSE r.seed]
    /\ applied' = [applied EXCEPT ![r.url] = @ \cup {<<job[h], pos[h]>>}]
    /\ Goto(h, "anchors")
    /\ UNCHANGED <<known, freqs, crawled, unique, dict, inbox, job, pos, apos,
                   fresh, targets, frontier, persist, crashes>>

\* Under the shard's mutex: a known URL is merged with the sighting, ...
LookupKnown(h) ==
    LET r == Current(h) IN
    /\ hpc[h] = "lookup" /\ ~ShardLocked(Shard[r.url])
    /\ r.url \in known
    /\ info' = [info EXCEPT ![r.url].num = @ + r.num,
                            ![r.url].seed = MinOf(@, r.seed)]
    /\ applied' = [applied EXCEPT ![r.url] = @ \cup {<<job[h], pos[h]>>}]
    /\ Goto(h, "anchors")
    /\ UNCHANGED <<known, freqs, crawled, unique, dict, inbox, job, pos, apos,
                   fresh, targets, frontier, persist, crashes>>

\* ... an unknown one is dropped if it can never be crawled or the store is
\* full, ...
LookupReject(h) ==
    LET r == Current(h) IN
    /\ hpc[h] = "lookup" /\ ~ShardLocked(Shard[r.url])
    /\ r.url \notin known /\ Rejected(r)
    /\ Advance(h)
    /\ UNCHANGED <<memory, dict, inbox, job, apos, fresh, targets, frontier,
                   persist, crashes, applied>>

\* Slip: the lookup does not wait for the shard's mutex.
LookupNewUnlocked(h) ==
    LET r == Current(h) IN
    /\ hpc[h] = "lookup"
    /\ r.url \notin known /\ ~Rejected(r)
    /\ Goto(h, "add")
    /\ UNCHANGED <<memory, dict, inbox, job, pos, apos, fresh, targets,
                   frontier, persist, crashes, applied>>

\* ... and otherwise it will be added; unique_url_count may grow meanwhile.
LookupNew(h) ==
    LET r == Current(h) IN
    /\ hpc[h] = "lookup" /\ ~ShardLocked(Shard[r.url])
    /\ r.url \notin known /\ ~Rejected(r)
    /\ Goto(h, "add")
    /\ UNCHANGED <<memory, dict, inbox, job, pos, apos, fresh, targets,
                   frontier, persist, crashes, applied>>

\* addUrl_unlocked, up to its loop over the anchors.
Add(h) ==
    LET r == Current(h) IN
    /\ hpc[h] = "add"
    /\ unique' = unique + 1
    /\ known' = known \cup {r.url}
    /\ info' = [info EXCEPT ![r.url] = [num |-> r.num, seed |-> r.seed]]
    /\ applied' = [applied EXCEPT ![r.url] = @ \cup {<<job[h], pos[h]>>}]
    /\ fresh' = [fresh EXCEPT ![h] = TRUE]
    /\ Goto(h, "anchors")
    /\ UNCHANGED <<freqs, crawled, dict, inbox, job, pos, apos, targets,
                   frontier, persist, crashes>>

\* findAnchorId gives the text its id, a new one if need be; the URL's counter
\* for that id is set to 1 by addUrl_unlocked and incremented by updateUrl.
CountAnchor(h, u, id) ==
    LET old == IF id \in DOMAIN freqs[u] THEN freqs[u][id] ELSE 0 IN
    freqs' = [freqs EXCEPT ![u] = Put(@, id, IF fresh[h] THEN 1 ELSE old + 1)]

\* Slip: the right-hand side of the assignment reads the size after insertion.
NewIdAfterInsert(h, u, a) ==
    /\ toId' = Put(toId, a, Len(texts) + 1)
    /\ texts' = Append(texts, a)
    /\ CountAnchor(h, u, Len(texts))

\* Slip: size() instead of size() - 1 is returned.
NewIdOffByOne(h, u, a) ==
    /\ toId' = Put(toId, a, Len(texts))
    /\ texts' = Append(texts, a)
    /\ CountAnchor(h, u, Len(texts) + 1)

\* A text that the dictionary does not know gets the next id.
NewId(h, u, a) ==
    /\ toId' = Put(toId, a, Len(texts))
    /\ texts' = Append(texts, a)
    /\ CountAnchor(h, u, Len(texts))

Anchor(h) ==
    LET r == Current(h)  u == r.url  a == r.anchors[apos[h]] IN
    /\ hpc[h] = "anchors" /\ apos[h] <= Len(r.anchors)
    /\ apos' = [apos EXCEPT ![h] = @ + 1]
    /\ IF a \in DOMAIN toId
       THEN CountAnchor(h, u, toId[a]) /\ UNCHANGED dict
       ELSE IF Cardinality(DOMAIN freqs[u]) >= MaxAnchorsPerUrl
            THEN UNCHANGED <<freqs, dict>>
            ELSE NewId(h, u, a)
    /\ UNCHANGED <<known, info, crawled, unique, inbox, job, hpc, pos, fresh,
                   targets, frontier, persist, crashes, applied>>

\* updateUrl returns and unlocks; a new URL is remembered for the frontier.
Unlock(h) ==
    LET r == Current(h) IN
    /\ hpc[h] = "anchors" /\ apos[h] > Len(r.anchors)
    /\ targets' = IF fresh[h]
                  THEN [targets EXCEPT ![h][r.prio] = Append(@, r.url)]
                  ELSE targets
    /\ apos' = [apos EXCEPT ![h] = 1]
    /\ fresh' = [fresh EXCEPT ![h] = FALSE]
    /\ Advance(h)
    /\ UNCHANGED <<memory, dict, inbox, job, frontier, persist, crashes, applied>>

\* Slip: only the first bucket is pushed.
PushFirstOnly(h) ==
    /\ hpc[h] = "push" /\ targets[h][0] # <<>>
    /\ frontier' = [frontier EXCEPT ![0] = @ \o targets[h][0]]
    /\ targets' = [targets EXCEPT ![h][0] = <<>>]
    /\ UNCHANGED <<memory, dict, inbox, job, hpc, pos, apos, fresh, persist,
                   crashes, applied>>

\* One lock acquisition per bucket: all of the batch's targets of priority p.
Push(h) ==
    /\ hpc[h] = "push"
    /\ \E p \in Levels :
           /\ targets[h][p] # <<>>
           /\ \A q \in Levels : q < p => targets[h][q] = <<>>
           /\ frontier' = [frontier EXCEPT ![p] = @ \o targets[h][p]]
           /\ targets' = [targets EXCEPT ![h][p] = <<>>]
    /\ UNCHANGED <<memory, dict, inbox, job, hpc, pos, apos, fresh, persist,
                   crashes, applied>>

Finish(h) ==
    /\ hpc[h] = "push" /\ targets[h] = NoTargets
    /\ job' = [job EXCEPT ![h] = 0]
    /\ pos' = [pos EXCEPT ![h] = 1]
    /\ Goto(h, "idle")
    /\ UNCHANGED <<memory, dict, inbox, apos, fresh, targets, frontier,
                   persist, crashes, applied>>

Handle(h) == \/ Receive(h) \/ LookupKnown(h) \/ LookupReject(h)
             \/ LookupNew(h) \/ Add(h) \/ Anchor(h) \/ Unlock(h) \/ Push(h)
             \/ Finish(h)

-----------------------------------------------------------------------------
(* A crawler worker has fetched a target of the frontier: markCrawled.     *)
MarkCrawled(u) ==
    /\ \E p \in Levels : \E i \in DOMAIN frontier[p] : frontier[p][i] = u
    /\ u \in known \ crawled /\ ~ShardLocked(Shard[u])
    /\ crawled' = crawled \cup {u}
    /\ UNCHANGED <<known, info, freqs, unique, dict, inbox, handling,
                   frontier, persist, crashes, applied>>

-----------------------------------------------------------------------------
(* persist(): the anchors are copied first, then the shards are written    *)
(* one at a time under their mutexes, then the file gets its final name.   *)
PersistAnchors ==
    /\ ppc = "idle"
    /\ ppc' = "write" /\ written' = 0
    /\ tmp' = [anchors |-> texts, recs |-> {}]
    /\ UNCHANGED <<memory, dict, inbox, handling, frontier, disk, crashes, applied>>

Record(u) == [url |-> u, info |-> info[u], freqs |-> freqs[u],
              crawled |-> u \in crawled]

PersistShard ==
    /\ ppc = "write" /\ written < NumShards /\ ~ShardLocked(written)
    /\ written' = written + 1
    /\ tmp' = [tmp EXCEPT !.recs = @ \cup {Record(u) : u \in {v \in known : Shard[v] = written}}]
    /\ UNCHANGED <<memory, dict, inbox, handling, frontier, ppc, disk, crashes, applied>>

PersistRename ==
    /\ ppc = "write" /\ written = NumShards
    /\ disk' = tmp
    /\ ppc' = "idle" /\ written' = 0 /\ tmp' = EmptyFile
    /\ UNCHANGED <<memory, dict, inbox, handling, frontier, crashes, applied>>

\* Slip: a text that was cut is not kept.
AnchorsReadDropping == SelectSeq(disk.anchors, LAMBDA a : Cut[a] = a)

\* The dictionary that readFromFile rebuilds: of a text that is too long, the
\* front.
AnchorsRead == [i \in DOMAIN disk.anchors |-> Cut[disk.anchors[i]]]

\* Where text a last stands in s.
LastPlace(s, a) == CHOOSE i \in DOMAIN s : s[i] = a /\ \A k \in DOMAIN s : s[k] = a => k <= i

\* The process is killed; the next one reads urlstore.txt (readFromFile) before
\* its handlers start.  Batches in progress and in-memory buckets are gone.
Restart ==
    /\ crashes < MaxCrashes
    /\ crashes' = crashes + 1
    /\ LET recs == disk.recs
           Of(u) == CHOOSE r \in recs : r.url = u
       IN  /\ known' = {r.url : r \in recs}
           /\ info' = [u \in Urls |-> IF u \in known' THEN Of(u).info ELSE NoInfo]
           /\ freqs' = [u \in Urls |-> IF u \in known' THEN Of(u).freqs ELSE NoAnchors]
           /\ crawled' = {r.url : r \in {r \in recs : r.crawled}}
           /\ unique' = Cardinality(recs)
    /\ texts' = AnchorsRead
    /\ toId' = [a \in {texts'[i] : i \in DOMAIN texts'} |-> LastPlace(texts', a) - 1]
    /\ job' = [h \in Handlers |-> 0] /\ hpc' = [h \in Handlers |-> "idle"]
    /\ pos' = [h \in Handlers |-> 1] /\ apos' = [h \in Handlers |-> 1]
    /\ fresh' = [h \in Handlers |-> FALSE]
    /\ targets' = [h \in Handlers |-> NoTargets]
    /\ frontier' = NoTargets
    /\ ppc' = "idle" /\ written' = 0 /\ tmp' = EmptyFile
    /\ applied' = [u \in Urls |-> {}]
    /\ UNCHANGED <<inbox, disk>>

Persist == PersistAnchors \/ PersistShard \/ PersistRename

Next == \/ \E h \in Handlers : Handle(h)
        \/ \E u \in Urls : MarkCrawled(u)
        \/ Persist
        \/ Restart

Spec == Init /\ [][Next]_vars

(* The handlers' threads and the persist thread are scheduled.  A handler    *)
(* waiting for a shard's mutex waits for finitely many others, so weak        *)
(* fairness is enough.                                                        *)
Fairness == WF_vars(Persist) /\ \A h \in Handlers : WF_vars(Handle(h))

FairSpec == Spec /\ Fairness

-----------------------------------------------------------------------------
(* Properties.                                                             *)

\* Every variable has its type; a handler's indices stay within its batch.
TypeOK ==
    /\ known \subseteq Urls /\ crawled \subseteq known
    /\ info \in [Urls -> [num : Nat, seed : Nat]]
    /\ \A u \in Urls : /\ DOMAIN freqs[u] \subseteq Nat
                       /\ \A id \in DOMAIN freqs[u] : freqs[u][id] \in Nat
    /\ unique \in Nat
    /\ DOMAIN toId \subseteq Anchors /\ \A a \in DOMAIN toId : toId[a] \in Nat
    /\ texts \in Seq(Anchors)
    /\ inbox \subseteq Jobs
    /\ job \in [Handlers -> Jobs \cup {0}]
    /\ hpc \in [Handlers -> {"idle", "lookup", "add", "anchors", "push"}]
    /\ pos \in [Handlers -> Nat \ {0}] /\ apos \in [Handlers -> Nat \ {0}]
    /\ \A h \in Handlers :
           /\ hpc[h] = "idle" <=> job[h] = 0
           /\ hpc[h] \in {"lookup", "add", "anchors"} =>
                  pos[h] \in DOMAIN Batches[job[h]]
    /\ fresh \in [Handlers -> BOOLEAN]
    /\ targets \in [Handlers -> [Levels -> Seq(Urls)]]
    /\ frontier \in [Levels -> Seq(Urls)]
    /\ ppc \in {"idle", "write"} /\ written \in 0..NumShards
    /\ crashes \in 0..MaxCrashes
    /\ applied \in [Urls -> SUBSET (Jobs \X Nat)]

\* No longer text is cut to t.
Whole(t) == \A a \in Anchors : Cut[a] = t => a = t

\* anchor_to_id and id_to_anchor are inverse to each other, whatever handlers
\* of different shards add to them and whatever a restart reads back; only a
\* text that readFromFile makes of a longer one may have several ids, and is
\* then found under one of them.
DictionaryInverse ==
    /\ \A a \in DOMAIN toId : toId[a] < Len(texts) /\ texts[toId[a] + 1] = a
    /\ \A i \in DOMAIN texts : /\ texts[i] \in DOMAIN toId
                               /\ Whole(texts[i]) => toId[texts[i]] = i - 1

Sighting(jp) == Batches[jp[1]][jp[2]]
Sightings == UNION {{j} \X DOMAIN Batches[j] : j \in Jobs}
Encounters == [jp \in Sightings |-> Sighting(jp).num]
SumOf(S) == SumFunctionOnSet(Encounters, S)
SightingsWith(u, a) ==
    {jp \in applied[u] : \E i \in DOMAIN Sighting(jp).anchors : Sighting(jp).anchors[i] = a}

\* Each time one of them has the text: a link may repeat a word.
Occurrences(S, a) ==
    UNION {{<<jp, i>> : i \in {k \in DOMAIN Sighting(jp).anchors : Sighting(jp).anchors[k] = a}}
           : jp \in S}

\* Until the process restarts, an id counted for a URL is the id of a text that
\* a link to that URL carried.
IdsMeanTheirTexts ==
    crashes = 0 =>
        \A u \in Urls : \A id \in DOMAIN freqs[u] :
            id < Len(texts) /\ SightingsWith(u, texts[id + 1]) # {}

\* The anchors on disk keep their ids: they are the beginning of the dictionary
\* in memory, before a restart and after it, when of a text too long to be read
\* back the front stands in its place.
DiskDictionaryIsPrefix ==
    \A i \in DOMAIN disk.anchors :
        i <= Len(texts) /\ texts[i] \in {disk.anchors[i], Cut[disk.anchors[i]]}

\* The places from which u will reach, or has reached, the frontier.
Routes(u) ==
    LET In(place, p, q) == {<<place, p, i>> : i \in {i \in DOMAIN q : q[i] = u}} IN
       (UNION {In("frontier", p, frontier[p]) : p \in Levels})
  \cup (UNION {UNION {In(h, p, targets[h][p]) : p \in Levels} : h \in Handlers})
  \cup {<<h, "adding", 0>> : h \in {h \in Handlers : /\ hpc[h] = "anchors" /\ fresh[h]
                                                     /\ Current(h).url = u}}

\* However many handlers see a URL at once, it is handed to the frontier once;
\* and until a restart every stored URL is handed over or about to be.
HandedOverOnce ==
    \A u \in Urls :
        /\ Cardinality(Routes(u)) <= 1
        /\ crashes = 0 => (u \in known <=> Routes(u) # {})

\* The cap on stored URLs is read and raised without a common lock: handlers in
\* different shards may overshoot it, by less than one URL each.
StoreBounded ==
    /\ unique = Cardinality(known)
    /\ unique <= MaxStoreUrls + Cardinality(Handlers) - 1

\* No sighting of a stored URL is lost or counted twice, by whichever handlers
\* they came: the encounters add up, the distance is the smallest one, and an
\* anchor is counted at most as often as it was seen.
MergesAreExact ==
    crashes = 0 =>
        \A u \in known :
            /\ info[u].num = SumOf(applied[u])
            /\ \A jp \in applied[u] : info[u].seed <= Sighting(jp).seed
            /\ \E jp \in applied[u] : info[u].seed = Sighting(jp).seed
            /\ \A id \in DOMAIN freqs[u] :
                   freqs[u][id] <= Cardinality(Occurrences(applied[u], texts[id + 1]))

\* A URL that was stored reaches its bucket, unless the process dies first.
NewUrlReachesFrontier ==
    \A u \in Urls :
        (crashes = 0 /\ u \in known) ~>
            (crashes > 0 \/ \E p \in Levels : \E i \in DOMAIN frontier[p] : frontier[p][i] = u)

\* lib/consts.h: MAX_ANCHORS_PER_URL is a "cap to prevent memory blowup from
\* urls with too many anchors"; updateUrl: "skip anchor text if url already has
\* max anchors".
AnchorsCapped == \A u \in Urls : Cardinality(DOMAIN freqs[u]) <= MaxAnchorsPerUrl

\* url_store.cpp, the file format: "Vector of anchor_texts (variable length)
\* seen to id mapping (index)"; for each URL "<anchor_text id> <times seen>".
IdsResolve == \A u \in Urls : \A id \in DOMAIN freqs[u] : id < Len(texts)
=============================================================================
