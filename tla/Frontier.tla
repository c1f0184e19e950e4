------------------------------- MODULE Frontier -------------------------------
(***************************************************************************)
(* The crawl frontier of one crawler process: the in-memory priority       *)
(* buckets, the domain carousel, the backoff queue, the feeder thread that *)
(* moves crawl targets from the former into the carousel, and the crawler  *)
(* worker threads that pull targets out of it.                             *)
(*                                                                         *)
(*   crawler/domain_carousel.h   buckets, carousel, one feeding pass       *)
(*   crawler/bucket_manager.h    backoff queue, the feeder's loop          *)
(*   crawler/crawler_worker.h    the workers' scan, pull and fetch         *)
(*                                                                         *)
(* Locks.  A bucket's lock is held for the whole drain of that bucket, so  *)
(* it is visible here (BucketFree).  A slot's lock protects one queue and  *)
(* one time stamp and is never held across a call that blocks, so its      *)
(* critical sections are single steps; what remains of the lock is that    *)
(* try_lock may fail.  The instrumentation thread try-locks every slot, so *)
(* a try_lock may fail at any moment.  backoff_lock is taken by the feeder *)
(* only (the instrumentation merely reads the length under it).            *)
(*                                                                         *)
(* Time.  The code stores steady_clock instants and compares differences   *)
(* in whole seconds.  The model stores the AGE of each instant in ticks    *)
(* (one tick = one second), saturating where the code can no longer tell   *)
(* ages apart, so that time is unbounded and the state finite.             *)
(***************************************************************************)
EXTENDS Integers, Sequences, FiniteSets

CONSTANTS
    Targets,          \* crawl targets; each URL is handed to the frontier once
    NoTarget,         \* "no target in hand"
    CarouselSize,     \* CRAWLER_CAROUSEL_SIZE
    ThreadpoolSize,   \* CRAWLER_THREADPOOL_SIZE
    PriorityBuckets,  \* PRIORITY_BUCKETS
    MaxQueueSize,     \* CRAWLER_MAX_QUEUE_SIZE
    Backoff,          \* CRAWLER_BACKOFF_SEC, in ticks
    MaxStall,         \* bound: ticks one retry pass of the feeder may last
    MaxRequests,      \* https_get's limit: requests one pull may lead to (5)
    Slot,             \* Slot[t]: hash_domain(t.domain) % CRAWLER_CAROUSEL_SIZE
    Level             \* Level[t]: the priority bucket t is enqueued into

Slots   == 0..(CarouselSize - 1)
Levels  == 0..(PriorityBuckets - 1)
Workers == 0..(ThreadpoolSize - 1)

\* The static_asserts of lib/consts.h: the workers' intervals tile the carousel.
ASSUME SizesAssumption ==
    /\ CarouselSize \in Nat \ {0}
    /\ ThreadpoolSize \in Nat \ {0}
    /\ CarouselSize % ThreadpoolSize = 0
    /\ CarouselSize >= ThreadpoolSize
    /\ PriorityBuckets \in Nat \ {0}
    /\ MaxQueueSize \in Nat \ {0}
    /\ Backoff \in Nat \ {0}
    /\ MaxStall \in Nat
    /\ MaxRequests \in Nat \ {0}

ASSUME TargetsAssumption ==
    /\ NoTarget \notin Targets
    /\ Slot \in [Targets -> Slots]
    /\ Level \in [Targets -> Levels]

VARIABLES
    bucket,    \* bucket[p]: DomainCarousel::buckets[p].urls
    queue,     \* queue[s]: carousel[s].targets
    sentAge,   \* sentAge[s]: age of carousel[s].request_last_sent
    backoff,   \* backoff_queue: entries [target, age of rejected_at]
    fpc,       \* the feeder: "scan", "drain", "now" or "retry"
    level,     \* the bucket the feeder looks at (and, draining, has locked)
    nowAge,    \* age of the feeder's `now` during a retry pass
    wpc,       \* a worker: "scan", "check" (robots and filters), "get", "answer"
    at,        \* carousel_index
    found,     \* found_any
    readyIn,   \* ticks until min_ready_time
    hand,      \* the worker's target, or NoTarget
    asked,     \* redirects + 1 in https_get: requests sent for that target
    fate,      \* what became of each target
    lastGet,   \* observer: age of the last request sent for a page of a slot
    prevGet    \* observer: age of the last one sent for the page before

feederVars  == <<fpc, level, nowAge>>
workerVars  == <<wpc, at, found, readyIn, hand, asked>>
observers   == <<lastGet, prevGet>>
vars == <<bucket, queue, sentAge, backoff, feederVars, workerVars, fate, observers>>

-----------------------------------------------------------------------------
(* The interval of the carousel a worker serves (spawn_crawler_workers).   *)
IntervalSize == CarouselSize \div ThreadpoolSize

LeftNotAdvanced(w) == IF w = 0 THEN 0 ELSE w * IntervalSize - 1   \* slip: left := right
Left(w)      == w * IntervalSize

RightExclusive(w) == Left(w) + IntervalSize - 2                   \* slip: < for <=
Right(w)     == Left(w) + IntervalSize - 1

MaxAge == Backoff + MaxStall     \* where a rejection's age saturates
NoWait == Backoff + 1            \* min_ready_time = time_point::max()

Min2(a, b) == IF a <= b THEN a ELSE b

\* The bucket's lock is held by the feeder from the moment it finds the bucket
\* populated until it has emptied it.
BucketFree(p) == ~(fpc = "drain" /\ level = p)

Outcomes == {"crawled", "skipped", "limited"}

Init ==
    /\ bucket = [p \in Levels |-> <<>>]
    /\ queue = [s \in Slots |-> <<>>]
    /\ sentAge = [s \in Slots |-> Backoff]
    /\ backoff = <<>>
    /\ fpc = "scan" /\ level = 0 /\ nowAge = 0
    /\ wpc = [w \in Workers |-> "scan"]
    /\ at = [w \in Workers |-> Left(w)]
    /\ found = [w \in Workers |-> FALSE]
    /\ readyIn = [w \in Workers |-> NoWait]
    /\ hand = [w \in Workers |-> NoTarget]
    /\ asked = [w \in Workers |-> 0]
    /\ fate = [t \in Targets |-> "unseen"]
    /\ lastGet = [s \in Slots |-> Backoff]
    /\ prevGet = [s \in Slots |-> Backoff]

-----------------------------------------------------------------------------
(* Producers: the seed list, the bucket files and the URL store push a     *)
(* target into its bucket under the bucket's lock.                         *)
Enqueue(t) ==
    /\ fate[t] = "unseen"
    /\ BucketFree(Level[t])
    /\ bucket' = [bucket EXCEPT ![Level[t]] = Append(@, t)]
    /\ fate' = [fate EXCEPT ![t] = "live"]
    /\ UNCHANGED <<queue, sentAge, backoff, feederVars, workerVars, observers>>

-----------------------------------------------------------------------------
(* The feeder, first half of its loop:                                     *)
(* feed_carousel_from_highest_priority_bucket.                             *)

\* Slip: the loop over the buckets runs one too far.
FeederSkipEmptyTooFar ==
    /\ fpc = "scan" /\ bucket[level] = <<>>
    /\ IF level + 1 <= PriorityBuckets
       THEN level' = level + 1 /\ fpc' = "scan"
       ELSE level' = 0 /\ fpc' = "now"
    /\ UNCHANGED <<bucket, queue, sentAge, backoff, nowAge, workerVars, fate, observers>>

\* This bucket is empty: unlock it and look at the next one; after the last
\* one the call returns -1.
FeederSkipEmpty ==
    /\ fpc = "scan" /\ bucket[level] = <<>>
    /\ IF level + 1 < PriorityBuckets
       THEN level' = level + 1 /\ fpc' = "scan"
       ELSE level' = 0 /\ fpc' = "now"
    /\ UNCHANGED <<bucket, queue, sentAge, backoff, nowAge, workerVars, fate, observers>>

\* This bucket is populated: keep its lock and drain it.
FeederChoose ==
    /\ fpc = "scan" /\ bucket[level] # <<>>
    /\ fpc' = "drain"
    /\ UNCHANGED <<bucket, queue, sentAge, backoff, level, nowAge, workerVars, fate, observers>>

\* Take the bucket's front; when that empties it the call returns.
PopFront ==
    /\ fpc = "drain"
    /\ bucket' = [bucket EXCEPT ![level] = Tail(@)]
    /\ IF Len(bucket[level]) = 1
       THEN fpc' = "now" /\ level' = 0
       ELSE UNCHANGED <<fpc, level>>

\* Slip: `<=` for `<` in the test for room.
FeederPlaceOneTooMany ==
    /\ PopFront
    /\ LET t == Head(bucket[level])  s == Slot[t] IN
           /\ Len(queue[s]) <= MaxQueueSize
           /\ queue' = [queue EXCEPT ![s] = Append(@, t)]
    /\ UNCHANGED <<sentAge, backoff, nowAge, workerVars, fate, observers>>

\* try_lock succeeds and the slot has room.
FeederPlace ==
    /\ PopFront
    /\ LET t == Head(bucket[level])  s == Slot[t] IN
           /\ Len(queue[s]) < MaxQueueSize
           /\ queue' = [queue EXCEPT ![s] = Append(@, t)]
    /\ UNCHANGED <<sentAge, backoff, nowAge, workerVars, fate, observers>>

\* The slot is full, or its lock is taken: note the rejection.
FeederDefer ==
    /\ PopFront
    /\ backoff' = Append(backoff, [target |-> Head(bucket[level]), age |-> 0])
    /\ UNCHANGED <<queue, sentAge, nowAge, workerVars, fate, observers>>

-----------------------------------------------------------------------------
(* The feeder, second half: the retry pass over the backoff queue.         *)

\* `now` is read once, before backoff_lock is taken.
FeederReadClock ==
    /\ fpc = "now"
    /\ fpc' = "retry" /\ nowAge' = 0
    /\ UNCHANGED <<bucket, queue, sentAge, backoff, level, workerVars, fate, observers>>

\* now - front.rejected_at >= CRAWLER_BACKOFF_SEC
Ripe(entry) == entry.age - nowAge >= Backoff

\* Slip: a refused entry keeps the stamp of its first rejection.
FeederRetryKeepsStamp ==
    /\ fpc = "retry" /\ backoff # <<>> /\ Ripe(Head(backoff))
    /\ LET t == Head(backoff).target  s == Slot[t] IN
           IF Len(queue[s]) < MaxQueueSize
           THEN /\ queue' = [queue EXCEPT ![s] = Append(@, t)]
                /\ backoff' = Tail(backoff)
           ELSE /\ backoff' = Append(Tail(backoff), Head(backoff))
                /\ UNCHANGED queue
    /\ UNCHANGED <<bucket, sentAge, feederVars, workerVars, fate, observers>>

\* Slip: push_target's result is ignored.
FeederRetryForgets ==
    /\ fpc = "retry" /\ backoff # <<>> /\ Ripe(Head(backoff))
    /\ LET t == Head(backoff).target  s == Slot[t] IN
           /\ queue' = IF Len(queue[s]) < MaxQueueSize
                       THEN [queue EXCEPT ![s] = Append(@, t)] ELSE queue
           /\ backoff' = Tail(backoff)
    /\ UNCHANGED <<bucket, sentAge, feederVars, workerVars, fate, observers>>

\* push_target: blocks for the slot's lock, refuses when the queue is full.
\* A refused entry goes to the back, stamped with the pass's `now`.
FeederRetry ==
    /\ fpc = "retry" /\ backoff # <<>> /\ Ripe(Head(backoff))
    /\ LET t == Head(backoff).target  s == Slot[t] IN
           IF Len(queue[s]) < MaxQueueSize
           THEN /\ queue' = [queue EXCEPT ![s] = Append(@, t)]
                /\ backoff' = Tail(backoff)
           ELSE /\ backoff' = Append(Tail(backoff), [target |-> t, age |-> nowAge])
                /\ UNCHANGED queue
    /\ UNCHANGED <<bucket, sentAge, feederVars, workerVars, fate, observers>>

\* Slip: `continue` for `break` at an entry that is too young.
FeederRestOnlyIfEmpty ==
    /\ fpc = "retry"
    /\ backoff = <<>>
    /\ fpc' = "scan" /\ nowAge' = 0
    /\ UNCHANGED <<bucket, queue, sentAge, backoff, level, workerVars, fate, observers>>

\* The queue is empty or its front is too young: end the pass, sleep 50ms.
FeederRest ==
    /\ fpc = "retry"
    /\ backoff # <<>> => ~Ripe(Head(backoff))
    /\ fpc' = "scan" /\ nowAge' = 0
    /\ UNCHANGED <<bucket, queue, sentAge, backoff, level, workerVars, fate, observers>>

Feeder == \/ FeederSkipEmpty \/ FeederChoose \/ FeederPlace \/ FeederDefer
          \/ FeederReadClock \/ FeederRetry \/ FeederRest

-----------------------------------------------------------------------------
(* A crawler worker.                                                       *)

Scanning(w) == wpc[w] = "scan" /\ at[w] <= Right(w)
NextSlot(w) == at' = [at EXCEPT ![w] = @ + 1]

\* The slot is empty, or its lock is taken.
WorkerSkip(w) ==
    /\ Scanning(w)
    /\ NextSlot(w)
    /\ UNCHANGED <<bucket, queue, sentAge, backoff, feederVars, wpc, found,
                   readyIn, hand, asked, fate, observers>>

\* The slot has work but was served less than CRAWLER_BACKOFF_SEC ago.
WorkerTooSoon(w) ==
    /\ Scanning(w)
    /\ queue[at[w]] # <<>> /\ sentAge[at[w]] < Backoff
    /\ readyIn' = [readyIn EXCEPT ![w] = Min2(@, Backoff - sentAge[at[w]])]
    /\ NextSlot(w)
    /\ UNCHANGED <<bucket, queue, sentAge, backoff, feederVars, wpc, found,
                   hand, asked, fate, observers>>

\* Slip: request_last_sent is not updated.
WorkerPullUnstamped(w) ==
    /\ Scanning(w)
    /\ queue[at[w]] # <<>> /\ sentAge[at[w]] >= Backoff
    /\ hand' = [hand EXCEPT ![w] = Head(queue[at[w]])]
    /\ queue' = [queue EXCEPT ![at[w]] = Tail(@)]
    /\ found' = [found EXCEPT ![w] = TRUE]
    /\ wpc' = [wpc EXCEPT ![w] = "check"]
    /\ UNCHANGED <<bucket, sentAge, backoff, feederVars, at, readyIn, asked, fate, observers>>

\* Pull the slot's front and stamp the slot, all under the slot's lock.
WorkerPull(w) ==
    /\ Scanning(w)
    /\ queue[at[w]] # <<>> /\ sentAge[at[w]] >= Backoff
    /\ hand' = [hand EXCEPT ![w] = Head(queue[at[w]])]
    /\ queue' = [queue EXCEPT ![at[w]] = Tail(@)]
    /\ sentAge' = [sentAge EXCEPT ![at[w]] = 0]
    /\ found' = [found EXCEPT ![w] = TRUE]
    /\ wpc' = [wpc EXCEPT ![w] = "check"]
    /\ UNCHANGED <<bucket, backoff, feederVars, at, readyIn, asked, fate, observers>>

Finish(w, outcome) ==
    /\ fate' = [fate EXCEPT ![hand[w]] = outcome]
    /\ hand' = [hand EXCEPT ![w] = NoTarget]
    /\ asked' = [asked EXCEPT ![w] = 0]
    /\ wpc' = [wpc EXCEPT ![w] = "scan"]
    /\ NextSlot(w)

\* Not https, NSFW, already crawled, or disallowed by robots.txt.
WorkerReject(w) ==
    /\ wpc[w] = "check"
    /\ Finish(w, "skipped")
    /\ UNCHANGED <<bucket, queue, sentAge, backoff, feederVars, found, readyIn, observers>>

\* The filters pass; fetching robots.txt on a cache miss may have taken long.
WorkerAllow(w) ==
    /\ wpc[w] = "check"
    /\ wpc' = [wpc EXCEPT ![w] = "get"]
    /\ UNCHANGED <<bucket, queue, sentAge, backoff, feederVars, at, found,
                   readyIn, hand, asked, fate, observers>>

\* https_get sends the first request of the page.
WorkerGet(w) ==
    /\ wpc[w] = "get"
    /\ wpc' = [wpc EXCEPT ![w] = "answer"]
    /\ asked' = [asked EXCEPT ![w] = 1]
    /\ prevGet' = [prevGet EXCEPT ![at[w]] = lastGet[at[w]]]
    /\ lastGet' = [lastGet EXCEPT ![at[w]] = 0]
    /\ UNCHANGED <<bucket, queue, sentAge, backoff, feederVars, at, found,
                   readyIn, hand, fate>>

\* A redirect is followed at once, with no look at a stamp or at robots.txt:
\* mostly to the same host and so the same slot, but it may lead anywhere.
WorkerFollow(w) ==
    /\ wpc[w] = "answer" /\ asked[w] < MaxRequests
    /\ asked' = [asked EXCEPT ![w] = @ + 1]
    /\ lastGet' = [lastGet EXCEPT ![at[w]] = 0]
    /\ UNCHANGED <<bucket, queue, sentAge, backoff, feederVars, wpc, at, found,
                   readyIn, hand, fate, prevGet>>

\* https_get returns.  Anything but 429 marks the URL crawled (a failed request
\* and one redirect too many as well); on 429 the worker continues with the
\* next slot.
WorkerAnswer(w) ==
    /\ wpc[w] = "answer"
    /\ \E outcome \in {"crawled", "limited"} : Finish(w, outcome)
    /\ UNCHANGED <<bucket, queue, sentAge, backoff, feederVars, found, readyIn, observers>>

\* End of the interval: rescan at once if anything was found, else sleep until
\* the earliest slot is ready (10 ms, below one tick, if none will be).
WorkerRescan(w) ==
    /\ wpc[w] = "scan" /\ at[w] > Right(w)
    /\ ~found[w] => readyIn[w] \in {0, NoWait}
    /\ at' = [at EXCEPT ![w] = Left(w)]
    /\ found' = [found EXCEPT ![w] = FALSE]
    /\ readyIn' = [readyIn EXCEPT ![w] = NoWait]
    /\ UNCHANGED <<bucket, queue, sentAge, backoff, feederVars, wpc, hand, asked, fate, observers>>

Worker(w) == \/ WorkerSkip(w) \/ WorkerTooSoon(w) \/ WorkerPull(w)
             \/ WorkerReject(w) \/ WorkerAllow(w) \/ WorkerGet(w)
             \/ WorkerFollow(w) \/ WorkerAnswer(w) \/ WorkerRescan(w)

-----------------------------------------------------------------------------
(* One second passes.  MaxStall bounds how long a retry pass may take.     *)
Older(ages, cap) == [s \in DOMAIN ages |-> Min2(ages[s] + 1, cap)]

Tick ==
    /\ fpc = "retry" => nowAge < MaxStall
    /\ nowAge' = IF fpc = "retry" THEN nowAge + 1 ELSE nowAge
    /\ sentAge' = Older(sentAge, Backoff)
    /\ lastGet' = Older(lastGet, Backoff)
    /\ prevGet' = Older(prevGet, Backoff)
    /\ backoff' = [i \in DOMAIN backoff |->
                     [backoff[i] EXCEPT !.age = Min2(@ + 1, MaxAge)]]
    /\ readyIn' = [w \in Workers |->
                     IF readyIn[w] \in 1..Backoff THEN readyIn[w] - 1 ELSE readyIn[w]]
    /\ UNCHANGED <<bucket, queue, fpc, level, wpc, at, found, hand, asked, fate>>

Next == \/ \E t \in Targets : Enqueue(t)
        \/ Feeder
        \/ \E w \in Workers : Worker(w)
        \/ Tick

Spec == Init /\ [][Next]_vars

(* Threads are scheduled and the clock runs; a worker's try_lock does not   *)
(* lose the race for a slot's lock for ever.  Producers owe nothing.        *)
Fairness == /\ WF_vars(Tick)
            /\ WF_vars(Feeder)
            /\ \A w \in Workers : WF_vars(Worker(w))
            /\ \A w \in Workers : SF_vars(WorkerPull(w))

FairSpec == Spec /\ Fairness

-----------------------------------------------------------------------------
(* Properties.                                                             *)

\* Every variable has its type.  (The length of a queue is QueueBounded.)
TypeOK ==
    /\ bucket \in [Levels -> Seq(Targets)]
    /\ queue \in [Slots -> Seq(Targets)]
    /\ sentAge \in [Slots -> 0..Backoff]
    /\ backoff \in Seq([target : Targets, age : 0..MaxAge])
    /\ fpc \in {"scan", "drain", "now", "retry"}
    /\ level \in Levels
    /\ nowAge \in 0..MaxStall
    /\ wpc \in [Workers -> {"scan", "check", "get", "answer"}]
    /\ \A w \in Workers : at[w] \in Left(w)..(Right(w) + 1)
    /\ at \in [Workers -> Nat]
    /\ found \in [Workers -> BOOLEAN]
    /\ readyIn \in [Workers -> 0..NoWait]
    /\ hand \in [Workers -> Targets \cup {NoTarget}]
    /\ asked \in [Workers -> 0..MaxRequests]
    /\ fate \in [Targets -> {"unseen", "live"} \cup Outcomes]
    /\ lastGet \in [Slots -> 0..Backoff]
    /\ prevGet \in [Slots -> 0..Backoff]

\* No slot's queue outgrows CRAWLER_MAX_QUEUE_SIZE, whichever of the feeder's
\* two paths (domain_carousel.h push_target, or the feeding pass) fills it.
QueueBounded == \A s \in Slots : Len(queue[s]) <= MaxQueueSize

\* The places that hold target t, one entry per copy.
Copies(t) ==
    LET In(place, i, q) == {<<place, i, n>> : n \in {n \in DOMAIN q : q[n] = t}} IN
       (UNION {In("bucket", p, bucket[p]) : p \in Levels})
  \cup (UNION {In("queue", s, queue[s]) : s \in Slots})
  \cup In("backoff", 0, [n \in DOMAIN backoff |-> backoff[n].target])
  \cup In("hand", 0, hand)

\* A target that was handed to the frontier and is not finished is in exactly
\* one place, and in none before and after: no hand-over between bucket, slot,
\* backoff queue and worker loses or doubles a target.
Conservation ==
    \A t \in Targets :
        Cardinality(Copies(t)) = IF fate[t] = "live" THEN 1 ELSE 0

\* The retry pass stops at the first entry that is too young (the `break` of
\* bucket_manager.h).  That skips nobody: no entry behind it is ripe.
BreakSkipsNobody ==
    fpc = "retry" => \A i \in DOMAIN backoff : Ripe(backoff[i]) => Ripe(backoff[1])

\* At most one worker at a time is busy with a target of a given slot, although
\* no lock is held while it fetches: the intervals are disjoint.
OneWorkerPerSlot ==
    \A v, w \in Workers :
        v # w /\ hand[v] # NoTarget /\ hand[w] # NoTarget => Slot[hand[v]] # Slot[hand[w]]

\* What a worker works on hashes to the slot it stands at, so the stamp it set
\* is the one of the domain it contacts.
HandIsFromSlot ==
    \A w \in Workers : wpc[w] # "scan" => hand[w] # NoTarget /\ Slot[hand[w]] = at[w]

\* The stamp is set at the pull, not at the GET, so the requests for two pages
\* of a slot may follow each other at once; those for a third may not: its
\* first comes CRAWLER_BACKOFF_SEC after the last one for the page before the
\* previous, whatever redirects either leads through (crawler_worker.h,
\* https_get).  How many requests one page takes, and those that redirects
\* from other slots bring, the carousel does not space.
NoThreePagesInABurst ==
    [][\A w \in Workers : WorkerGet(w) => prevGet[at[w]] >= Backoff]_vars

\* lib/consts.h: CRAWLER_BACKOFF_SEC is the "Time (seconds) to wait between
\* sending GET requests to URLs within the same domain carousel slot".  Not
\* even their first requests are, with redirects left aside.
GetsAreSpaced ==
    [][\A w \in Workers : WorkerGet(w) => lastGet[at[w]] >= Backoff]_vars

\* Every target handed to the frontier reaches a worker and is dealt with.
EveryTargetServed ==
    \A t \in Targets : fate[t] = "live" ~> fate[t] \in Outcomes

\* A retry pass, which holds backoff_lock throughout, ends: it stops at an entry
\* that is too young, and what it re-queues is too young for the rest of the pass.
RetryPassEnds == fpc = "retry" ~> fpc = "scan"
=============================================================================
