---------------------------- MODULE FrontierProofs ----------------------------
(***************************************************************************)
(* Proofs about the crawl frontier, for every carousel, pool, queue limit  *)
(* and set of targets that satisfies the assumptions of Frontier.          *)
(*                                                                         *)
(* Each layer of the argument is an inductive invariant that may use those *)
(* before it:                                                              *)
(*   Typed     TypeOK, with what the program counters say of the data      *)
(*   Placed    queues are bounded and hold their own slot's targets        *)
(*   Aged      the order of the ages in the backoff queue                  *)
(*   Spaced    how old the requests for a slot's last two pages are        *)
(*   Kept      the one place of a target that is not finished              *)
(***************************************************************************)
EXTENDS Frontier, SequenceTheorems, FiniteSetTheorems, TLAPS

(* Arithmetic of the workers' intervals. *)

LEMMA IntervalSizeFacts ==
    /\ IntervalSize \in Nat \ {0}
    /\ ThreadpoolSize * IntervalSize = CarouselSize
<1>1. IntervalSize \in Int /\ CarouselSize = (ThreadpoolSize * IntervalSize) + (CarouselSize % ThreadpoolSize)
  BY SizesAssumption DEF IntervalSize
<1>2. ThreadpoolSize * IntervalSize = CarouselSize
  BY <1>1, SizesAssumption
<1>3. IntervalSize > 0
  BY <1>1, <1>2, SizesAssumption
<1> QED  BY <1>1, <1>2, <1>3

\* A worker's interval is a non-empty part of the carousel.
LEMMA IntervalInCarousel ==
    ASSUME NEW w \in Workers
    PROVE  /\ Left(w) \in Slots
           /\ Right(w) \in Slots
           /\ Left(w) <= Right(w)
<1> DEFINE rest == ThreadpoolSize - 1 - w
<1>1. w \in Nat /\ rest \in Nat /\ ThreadpoolSize = w + 1 + rest
  BY SizesAssumption DEF Workers
<1>2. w * IntervalSize \in Nat /\ rest * IntervalSize \in Nat
  BY <1>1, IntervalSizeFacts
<1>3. CarouselSize = w * IntervalSize + IntervalSize + rest * IntervalSize
  BY <1>1, IntervalSizeFacts
<1> HIDE DEF rest
<1> QED  BY <1>2, <1>3, IntervalSizeFacts, SizesAssumption DEF Left, Right, Slots

\* Two workers' intervals do not meet.
LEMMA IntervalsDisjoint ==
    ASSUME NEW v \in Workers, NEW w \in Workers, v # w,
           NEW s \in Left(v)..Right(v)
    PROVE  s \notin Left(w)..Right(w)
<1>1. ASSUME NEW x \in Workers, NEW y \in Workers, x < y
      PROVE  Right(x) < Left(y)
  <2> DEFINE gap == y - 1 - x
  <2>1. x \in Nat /\ gap \in Nat /\ y = x + 1 + gap
    BY <1>1 DEF Workers
  <2>2. gap * IntervalSize \in Nat /\ x * IntervalSize \in Nat
    BY <2>1, IntervalSizeFacts
  <2>3. y * IntervalSize = x * IntervalSize + IntervalSize + gap * IntervalSize
    BY <2>1, IntervalSizeFacts
  <2> HIDE DEF gap
  <2> QED  BY <2>2, <2>3, IntervalSizeFacts DEF Left, Right
<1>2. v < w \/ w < v
  BY DEF Workers
<1>3. Right(v) < Left(w) \/ Right(w) < Left(v)
  BY <1>1, <1>2
<1>4. Left(v) \in Int /\ Right(v) \in Int /\ Left(w) \in Int /\ Right(w) \in Int
  BY IntervalInCarousel DEF Slots
<1> QED  BY <1>3, <1>4

-----------------------------------------------------------------------------
(* First layer: types.                                                     *)

\* A draining feeder has an entry to take, for nobody else takes from a bucket.
DrainHasWork == fpc = "drain" => bucket[level] # <<>>

\* A worker holds a target exactly while it is busy with it, and stands at a
\* slot of its interval meanwhile.
BusyOrScanning ==
    \A w \in Workers :
        IF wpc[w] = "scan" THEN hand[w] = NoTarget
                           ELSE hand[w] \in Targets /\ at[w] <= Right(w)

Typed == TypeOK /\ DrainHasWork /\ BusyOrScanning

\* Where a worker stands is a slot, as long as it is not past its interval.
LEMMA StandsAtSlot ==
    ASSUME TypeOK, NEW w \in Workers, at[w] <= Right(w)
    PROVE  at[w] \in Slots /\ at[w] \in Left(w)..Right(w)
<1>1. /\ at[w] \in Left(w)..(Right(w) + 1)
      /\ at[w] \in Nat
  BY DEF TypeOK
<1>2. Left(w) \in Slots /\ Right(w) \in Slots
  BY IntervalInCarousel
<1> QED  BY <1>1, <1>2, SizesAssumption DEF Slots

\* Taking the front of a non-empty queue of targets.
LEMMA HeadTailOfTargets ==
    ASSUME NEW q \in Seq(Targets), q # <<>>
    PROVE  /\ Head(q) \in Targets
           /\ Tail(q) \in Seq(Targets)
           /\ Len(q) \in Nat \ {0}
           /\ Len(Tail(q)) = Len(q) - 1
           /\ Len(q) # 1 => Tail(q) # <<>>
<1>1. /\ Head(q) \in Targets
      /\ Tail(q) \in Seq(Targets)
      /\ Len(Tail(q)) = Len(q) - 1
  BY HeadTailProperties
<1>2. Len(q) \in Nat \ {0}
  BY EmptySeq, LenProperties
<1>3. Len(q) # 1 => Len(Tail(q)) # 0
  BY <1>1, <1>2
<1> QED  BY <1>1, <1>2, <1>3, EmptySeq

LEMMA TypedInit == Init => Typed
<1> SUFFICES ASSUME Init PROVE Typed
  OBVIOUS
<1> USE SizesAssumption, TargetsAssumption
<1>1. \A w \in Workers : /\ Left(w) \in Nat /\ Right(w) \in Nat
                         /\ Left(w) <= Right(w)
                         /\ Left(w) \in Left(w)..(Right(w) + 1)
  BY IntervalInCarousel DEF Slots
<1>2. TypeOK
  BY <1>1 DEF Init, TypeOK, Slots, Levels, Outcomes, NoWait, MaxAge
<1>3. DrainHasWork /\ BusyOrScanning
  BY DEF Init, DrainHasWork, BusyOrScanning
<1> QED  BY <1>2, <1>3 DEF Typed

\* The entries of the backoff queue.
Entries == [target : Targets, age : 0..MaxAge]

LEMMA HeadTailOfEntries ==
    ASSUME NEW q \in Seq(Entries), q # <<>>
    PROVE  /\ Head(q) \in Entries
           /\ Head(q).target \in Targets
           /\ Head(q).age \in 0..MaxAge
           /\ Tail(q) \in Seq(Entries)
<1>1. Head(q) \in Entries /\ Tail(q) \in Seq(Entries)
  BY HeadTailProperties
<1> QED  BY <1>1 DEF Entries

\* Taking the front of the bucket being drained keeps the types of the feeder
\* and of the buckets.
LEMMA PopFrontTyped ==
    ASSUME Typed, PopFront
    PROVE  /\ Head(bucket[level]) \in Targets
           /\ bucket' \in [Levels -> Seq(Targets)]
           /\ fpc' \in {"scan", "drain", "now", "retry"}
           /\ level' \in Levels
           /\ DrainHasWork'
<1>1. level \in Levels /\ bucket \in [Levels -> Seq(Targets)] /\ fpc = "drain"
  BY DEF Typed, TypeOK, PopFront
<1>2. bucket[level] \in Seq(Targets) /\ bucket[level] # <<>>
  BY <1>1 DEF Typed, DrainHasWork
<1>3. /\ Head(bucket[level]) \in Targets
      /\ Tail(bucket[level]) \in Seq(Targets)
      /\ Len(bucket[level]) # 1 => Tail(bucket[level]) # <<>>
  BY <1>2, HeadTailOfTargets
<1>4. 0 \in Levels
  BY SizesAssumption DEF Levels
<1> QED  BY <1>1, <1>3, <1>4 DEF PopFront, DrainHasWork

LEMMA TypedEnqueue ==
    ASSUME Typed, NEW t \in Targets, Enqueue(t)
    PROVE  Typed'
<1>1. Level[t] \in Levels
  BY TargetsAssumption
<1>2. bucket[Level[t]] \in Seq(Targets)
  BY <1>1 DEF Typed, TypeOK
<1>3. Append(bucket[Level[t]], t) \in Seq(Targets)
  BY <1>2
<1>4. TypeOK'
  BY <1>3 DEF Typed, TypeOK, Enqueue, Outcomes, feederVars, workerVars, observers
<1>5. DrainHasWork'
  BY <1>1 DEF Typed, TypeOK, DrainHasWork, Enqueue, BucketFree, feederVars
<1>6. BusyOrScanning'
  BY DEF Typed, BusyOrScanning, Enqueue, workerVars
<1> QED  BY <1>4, <1>5, <1>6 DEF Typed

LEMMA TypedFeeder == Typed /\ Feeder => Typed'
<1> SUFFICES ASSUME Typed, Feeder PROVE Typed'
  OBVIOUS
<1> USE SizesAssumption, TargetsAssumption DEF feederVars, workerVars, observers
<1>1. CASE FeederSkipEmpty
  <2>a. /\ level' \in Levels /\ fpc' \in {"scan", "now"}
        /\ UNCHANGED <<bucket, queue, sentAge, backoff, nowAge, workerVars, fate, observers>>
    BY <1>1 DEF Typed, TypeOK, FeederSkipEmpty, Levels
  <2>1. TypeOK'
    BY <2>a DEF Typed, TypeOK
  <2>2. DrainHasWork' /\ BusyOrScanning'
    BY <1>1 DEF Typed, DrainHasWork, BusyOrScanning, FeederSkipEmpty
  <2> QED  BY <2>1, <2>2 DEF Typed
<1>2. CASE FeederChoose
  <2>1. TypeOK'
    BY <1>2 DEF Typed, TypeOK, FeederChoose
  <2>2. DrainHasWork' /\ BusyOrScanning'
    BY <1>2 DEF Typed, DrainHasWork, BusyOrScanning, FeederChoose
  <2> QED  BY <2>1, <2>2 DEF Typed
<1>3. CASE FeederPlace
  <2> DEFINE t == Head(bucket[level])
  <2>1. PopFront
    BY <1>3 DEF FeederPlace
  <2>2. t \in Targets /\ Slot[t] \in Slots
    BY <2>1, PopFrontTyped
  <2>3. Append(queue[Slot[t]], t) \in Seq(Targets)
    BY <2>2 DEF Typed, TypeOK
  <2>4. queue' \in [Slots -> Seq(Targets)]
    BY <1>3, <2>2, <2>3 DEF Typed, TypeOK, FeederPlace
  <2> HIDE DEF t
  <2>5. TypeOK'
    BY <1>3, <2>1, <2>4, PopFrontTyped DEF Typed, TypeOK, FeederPlace
  <2>6. DrainHasWork' /\ BusyOrScanning'
    BY <1>3, <2>1, PopFrontTyped DEF Typed, BusyOrScanning, FeederPlace
  <2> QED  BY <2>5, <2>6 DEF Typed
<1>4. CASE FeederDefer
  <2>1. PopFront
    BY <1>4 DEF FeederDefer
  <2>2. Head(bucket[level]) \in Targets
    BY <2>1, PopFrontTyped
  <2>3. [target |-> Head(bucket[level]), age |-> 0] \in [target : Targets, age : 0..MaxAge]
    BY <2>2 DEF MaxAge
  <2>4. backoff' \in Seq([target : Targets, age : 0..MaxAge])
    BY <1>4, <2>3 DEF Typed, TypeOK, FeederDefer
  <2>5. TypeOK'
    BY <1>4, <2>1, <2>4, PopFrontTyped DEF Typed, TypeOK, FeederDefer
  <2>6. DrainHasWork' /\ BusyOrScanning'
    BY <1>4, <2>1, PopFrontTyped DEF Typed, BusyOrScanning, FeederDefer
  <2> QED  BY <2>5, <2>6 DEF Typed
<1>5. CASE FeederReadClock
  <2>1. TypeOK'
    BY <1>5 DEF Typed, TypeOK, FeederReadClock
  <2>2. DrainHasWork' /\ BusyOrScanning'
    BY <1>5 DEF Typed, DrainHasWork, BusyOrScanning, FeederReadClock
  <2> QED  BY <2>1, <2>2 DEF Typed
<1>6. CASE FeederRetry
  <2> DEFINE t == Head(backoff).target
  <2>1. backoff \in Seq(Entries) /\ backoff # <<>>
    BY <1>6 DEF Typed, TypeOK, FeederRetry, Entries
  <2>2. t \in Targets /\ Slot[t] \in Slots /\ Tail(backoff) \in Seq(Entries)
    BY <2>1, HeadTailOfEntries
  <2>3. Append(queue[Slot[t]], t) \in Seq(Targets)
    BY <2>2 DEF Typed, TypeOK
  <2>4. queue' \in [Slots -> Seq(Targets)]
    BY <1>6, <2>2, <2>3 DEF Typed, TypeOK, FeederRetry
  <2>5. [target |-> t, age |-> nowAge] \in Entries
    BY <2>2 DEF Typed, TypeOK, Entries, MaxAge
  <2>6. Append(Tail(backoff), [target |-> t, age |-> nowAge]) \in Seq(Entries)
    BY <2>2, <2>5, AppendProperties
  <2>7. backoff' \in Seq(Entries)
    BY <1>6, <2>2, <2>6 DEF FeederRetry
  <2>8. backoff' \in Seq([target : Targets, age : 0..MaxAge])
    BY <2>7 DEF Entries
  <2>9. UNCHANGED <<bucket, sentAge, feederVars, workerVars, fate, observers>>
    BY <1>6 DEF FeederRetry
  <2>10. TypeOK'
    BY <2>4, <2>8, <2>9 DEF Typed, TypeOK
  <2>11. DrainHasWork' /\ BusyOrScanning'
    BY <1>6 DEF Typed, DrainHasWork, BusyOrScanning, FeederRetry
  <2> QED  BY <2>10, <2>11 DEF Typed
<1>7. CASE FeederRest
  <2>1. /\ fpc' = "scan" /\ nowAge' = 0
        /\ UNCHANGED <<bucket, queue, sentAge, backoff, level, workerVars, fate, observers>>
    BY <1>7 DEF FeederRest
  <2>2. TypeOK'
    BY <2>1 DEF Typed, TypeOK
  <2>3. DrainHasWork' /\ BusyOrScanning'
    BY <2>1 DEF Typed, DrainHasWork, BusyOrScanning
  <2> QED  BY <2>2, <2>3 DEF Typed
<1> QED  BY <1>1, <1>2, <1>3, <1>4, <1>5, <1>6, <1>7 DEF Feeder

\* Advancing a worker that is within its interval.
LEMMA NextSlotTyped ==
    ASSUME TypeOK, NEW w \in Workers, at[w] <= Right(w), NextSlot(w)
    PROVE  /\ at' \in [Workers -> Nat]
           /\ \A v \in Workers : at'[v] \in Left(v)..(Right(v) + 1)
<1>1. \A v \in Workers : /\ Left(v) \in Nat /\ Right(v) \in Nat
                         /\ at[v] \in Left(v)..(Right(v) + 1)
  BY IntervalInCarousel DEF TypeOK, Slots
<1> QED  BY <1>1 DEF TypeOK, NextSlot

LEMMA TypedWorker == Typed /\ (\E w \in Workers : Worker(w)) => Typed'
<1> SUFFICES ASSUME Typed, NEW w \in Workers, Worker(w) PROVE Typed'
  OBVIOUS
<1> USE DEF feederVars, workerVars, observers
<1>0. /\ Left(w) \in Nat /\ Right(w) \in Nat /\ Left(w) <= Right(w)
      /\ at[w] \in Left(w)..(Right(w) + 1)
  BY IntervalInCarousel DEF Typed, TypeOK, Slots
<1>1. CASE WorkerSkip(w)
  <2>3. at' \in [Workers -> Nat] /\ \A v \in Workers : at'[v] \in Left(v)..(Right(v) + 1)
    BY <1>1, NextSlotTyped DEF Typed, WorkerSkip, Scanning
  <2>4. UNCHANGED <<bucket, queue, sentAge, backoff, feederVars, wpc, found, readyIn,
                    hand, asked, fate, observers>>
    BY <1>1 DEF WorkerSkip
  <2>1. TypeOK'
    BY <2>3, <2>4 DEF Typed, TypeOK
  <2>2. DrainHasWork' /\ BusyOrScanning'
    BY <1>1 DEF Typed, TypeOK, DrainHasWork, BusyOrScanning, WorkerSkip, Scanning, NextSlot
  <2> QED  BY <2>1, <2>2 DEF Typed
<1>2. CASE WorkerTooSoon(w)
  <2>1. at[w] \in Slots
    BY <1>2, StandsAtSlot DEF Typed, WorkerTooSoon, Scanning
  <2>2. readyIn' \in [Workers -> 0..NoWait]
    BY <1>2, <2>1, SizesAssumption DEF Typed, TypeOK, WorkerTooSoon, Min2, NoWait
  <2>3. at' \in [Workers -> Nat] /\ \A v \in Workers : at'[v] \in Left(v)..(Right(v) + 1)
    BY <1>2, NextSlotTyped DEF Typed, WorkerTooSoon, Scanning
  <2>4. UNCHANGED <<bucket, queue, sentAge, backoff, feederVars, wpc, found, hand,
                    asked, fate, observers>>
    BY <1>2 DEF WorkerTooSoon
  <2>5. TypeOK'
    BY <2>2, <2>3, <2>4 DEF Typed, TypeOK
  <2>6. DrainHasWork' /\ BusyOrScanning'
    BY <1>2 DEF Typed, TypeOK, DrainHasWork, BusyOrScanning, WorkerTooSoon, Scanning, NextSlot
  <2> QED  BY <2>5, <2>6 DEF Typed
<1>3. CASE WorkerPull(w)
  <2>1. at[w] \in Slots /\ at[w] <= Right(w)
    BY <1>3, StandsAtSlot DEF Typed, WorkerPull, Scanning
  <2>2. queue[at[w]] \in Seq(Targets) /\ queue[at[w]] # <<>>
    BY <1>3, <2>1 DEF Typed, TypeOK, WorkerPull
  <2>3. Head(queue[at[w]]) \in Targets /\ Tail(queue[at[w]]) \in Seq(Targets)
    BY <2>2, HeadTailOfTargets
  <2>4. queue' \in [Slots -> Seq(Targets)] /\ sentAge' \in [Slots -> 0..Backoff]
    BY <1>3, <2>1, <2>3, SizesAssumption DEF Typed, TypeOK, WorkerPull
  <2>5. /\ hand' = [hand EXCEPT ![w] = Head(queue[at[w]])]
        /\ found' = [found EXCEPT ![w] = TRUE]
        /\ wpc' = [wpc EXCEPT ![w] = "check"]
        /\ UNCHANGED <<bucket, backoff, feederVars, at, readyIn, asked, fate, observers>>
    BY <1>3 DEF WorkerPull
  <2>6. TypeOK'
    BY <2>3, <2>4, <2>5 DEF Typed, TypeOK
  <2>7. DrainHasWork' /\ BusyOrScanning'
    BY <2>1, <2>3, <2>5 DEF Typed, TypeOK, DrainHasWork, BusyOrScanning
  <2> QED  BY <2>6, <2>7 DEF Typed
<1>4. ASSUME NEW outcome \in Outcomes, Finish(w, outcome), wpc[w] # "scan",
             UNCHANGED <<bucket, queue, sentAge, backoff, feederVars, found, readyIn, observers>>
      PROVE  Typed'
  <2>1. at[w] <= Right(w)
    BY <1>4 DEF Typed, BusyOrScanning
  <2>2. at' \in [Workers -> Nat] /\ \A v \in Workers : at'[v] \in Left(v)..(Right(v) + 1)
    BY <1>4, <2>1, NextSlotTyped DEF Typed, Finish
  <2>3. fate' \in [Targets -> {"unseen", "live"} \cup Outcomes]
    BY <1>4 DEF Typed, TypeOK, Finish
  <2>6. /\ hand' \in [Workers -> Targets \cup {NoTarget}]
        /\ wpc' \in [Workers -> {"scan", "check", "get", "answer"}]
        /\ asked' \in [Workers -> 0..MaxRequests]
    BY <1>4, SizesAssumption DEF Typed, TypeOK, Finish
  <2>4. TypeOK'
    BY <1>4, <2>2, <2>3, <2>6 DEF Typed, TypeOK
  <2>5. DrainHasWork' /\ BusyOrScanning'
    BY <1>4 DEF Typed, TypeOK, DrainHasWork, BusyOrScanning, Finish, NextSlot
  <2> QED  BY <2>4, <2>5 DEF Typed
<1>5. CASE WorkerReject(w)
  BY <1>4, <1>5 DEF Typed, TypeOK, WorkerReject, Outcomes
<1>6. CASE WorkerAllow(w)
  <2>1. TypeOK'
    BY <1>6 DEF Typed, TypeOK, WorkerAllow
  <2>2. DrainHasWork' /\ BusyOrScanning'
    BY <1>6 DEF Typed, TypeOK, DrainHasWork, BusyOrScanning, WorkerAllow
  <2> QED  BY <2>1, <2>2 DEF Typed
<1>7. CASE WorkerGet(w)
  <2>1. at[w] \in Slots
    BY <1>7, StandsAtSlot DEF Typed, BusyOrScanning, WorkerGet
  <2>2. lastGet' \in [Slots -> 0..Backoff] /\ prevGet' \in [Slots -> 0..Backoff]
    BY <1>7, <2>1, SizesAssumption DEF Typed, TypeOK, WorkerGet
  <2>3. asked' \in [Workers -> 0..MaxRequests]
    BY <1>7, SizesAssumption DEF Typed, TypeOK, WorkerGet
  <2>4. /\ wpc[w] = "get" /\ wpc' = [wpc EXCEPT ![w] = "answer"]
        /\ UNCHANGED <<bucket, queue, sentAge, backoff, feederVars, at, found,
                       readyIn, hand, fate>>
    BY <1>7 DEF WorkerGet
  <2>5. TypeOK'
    BY <2>2, <2>3, <2>4 DEF Typed, TypeOK
  <2>6. DrainHasWork' /\ BusyOrScanning'
    BY <2>4 DEF Typed, TypeOK, DrainHasWork, BusyOrScanning
  <2> QED  BY <2>5, <2>6 DEF Typed
<1>9. CASE WorkerFollow(w)
  <2>1. at[w] \in Slots
    BY <1>9, StandsAtSlot DEF Typed, BusyOrScanning, WorkerFollow
  <2>2. lastGet' \in [Slots -> 0..Backoff]
    BY <1>9, <2>1, SizesAssumption DEF Typed, TypeOK, WorkerFollow
  <2>3. asked' \in [Workers -> 0..MaxRequests]
    BY <1>9, SizesAssumption DEF Typed, TypeOK, WorkerFollow
  <2>4. UNCHANGED <<bucket, queue, sentAge, backoff, feederVars, wpc, at, found,
                    readyIn, hand, fate, prevGet>>
    BY <1>9 DEF WorkerFollow
  <2>5. TypeOK'
    BY <2>2, <2>3, <2>4 DEF Typed, TypeOK
  <2>6. DrainHasWork' /\ BusyOrScanning'
    BY <2>4 DEF Typed, DrainHasWork, BusyOrScanning
  <2> QED  BY <2>5, <2>6 DEF Typed
<1>10. CASE WorkerAnswer(w)
  BY <1>4, <1>10 DEF WorkerAnswer, Outcomes
<1>8. CASE WorkerRescan(w)
  <2>1. /\ wpc[w] = "scan"
        /\ at' = [at EXCEPT ![w] = Left(w)]
        /\ found' = [found EXCEPT ![w] = FALSE]
        /\ readyIn' = [readyIn EXCEPT ![w] = NoWait]
        /\ UNCHANGED <<bucket, queue, sentAge, backoff, feederVars, wpc, hand, asked, fate, observers>>
    BY <1>8 DEF WorkerRescan
  <2>2. NoWait \in 0..NoWait
    BY SizesAssumption DEF NoWait
  <2>5. at' \in [Workers -> Nat]
    BY <1>0, <2>1 DEF Typed, TypeOK
  <2>6. \A v \in Workers : at'[v] \in Left(v)..(Right(v) + 1)
    BY <1>0, <2>1 DEF Typed, TypeOK
  <2>7. found' \in [Workers -> BOOLEAN] /\ readyIn' \in [Workers -> 0..NoWait]
    BY <2>1, <2>2 DEF Typed, TypeOK
  <2>3. TypeOK'
    BY <2>1, <2>5, <2>6, <2>7 DEF Typed, TypeOK
  <2>4. DrainHasWork' /\ BusyOrScanning'
    BY <2>1 DEF Typed, TypeOK, DrainHasWork, BusyOrScanning
  <2> QED  BY <2>3, <2>4 DEF Typed
<1> QED  BY <1>1, <1>2, <1>3, <1>5, <1>6, <1>7, <1>8, <1>9, <1>10 DEF Worker

\* A second later every age is again in its range.
LEMMA OlderAges ==
    ASSUME NEW ages \in [Slots -> 0..Backoff]
    PROVE  /\ Older(ages, Backoff) \in [Slots -> 0..Backoff]
           /\ \A s \in Slots : Older(ages, Backoff)[s] = IF ages[s] < Backoff
                                                        THEN ages[s] + 1 ELSE Backoff
BY SizesAssumption DEF Older, Min2

LEMMA TypedTick == Typed /\ Tick => Typed'
<1> SUFFICES ASSUME Typed, Tick PROVE Typed'
  OBVIOUS
<1>1. /\ sentAge' \in [Slots -> 0..Backoff]
      /\ lastGet' \in [Slots -> 0..Backoff]
      /\ prevGet' \in [Slots -> 0..Backoff]
  BY OlderAges DEF Typed, TypeOK, Tick
<1>2. nowAge' \in 0..MaxStall
  BY SizesAssumption DEF Typed, TypeOK, Tick
<1>3. readyIn' \in [Workers -> 0..NoWait]
  BY SizesAssumption DEF Typed, TypeOK, Tick, NoWait
<1>4. backoff' \in Seq([target : Targets, age : 0..MaxAge])
  <2>1. backoff \in Seq(Entries) /\ DOMAIN backoff = 1..Len(backoff) /\ Len(backoff) \in Nat
    BY LenProperties DEF Typed, TypeOK, Entries
  <2>2. \A i \in 1..Len(backoff) : backoff[i] \in Entries
    BY <2>1, ElementOfSeq
  <2>3. \A i \in 1..Len(backoff) : backoff'[i] \in Entries
    <3> TAKE i \in 1..Len(backoff)
    <3>1. backoff'[i] = [backoff[i] EXCEPT !.age = Min2(@ + 1, MaxAge)]
      BY <2>1 DEF Tick
    <3>2. backoff[i].age \in 0..MaxAge /\ MaxAge \in Nat
      BY <2>2, SizesAssumption DEF Entries, MaxAge
    <3>3. Min2(backoff[i].age + 1, MaxAge) \in 0..MaxAge
      BY <3>2 DEF Min2
    <3> QED  BY <2>2, <3>1, <3>3 DEF Entries
  <2>4. backoff' = [i \in 1..Len(backoff) |-> backoff'[i]]
    BY <2>1 DEF Tick
  <2>5. backoff' \in Seq(Entries)
    BY <2>1, <2>3, <2>4, SeqDef
  <2> QED  BY <2>5 DEF Entries
<1>5. TypeOK'
  BY <1>1, <1>2, <1>3, <1>4 DEF Typed, TypeOK, Tick
<1>6. DrainHasWork' /\ BusyOrScanning'
  BY DEF Typed, DrainHasWork, BusyOrScanning, Tick
<1> QED  BY <1>5, <1>6 DEF Typed

LEMMA TypedNext == Typed /\ [Next]_vars => Typed'
<1> SUFFICES ASSUME Typed, [Next]_vars PROVE Typed'
  OBVIOUS
<1>1. CASE Next
  BY <1>1, TypedEnqueue, TypedFeeder, TypedWorker, TypedTick DEF Next
<1>2. CASE UNCHANGED vars
  BY <1>2 DEF Typed, TypeOK, DrainHasWork, BusyOrScanning,
              vars, feederVars, workerVars, observers
<1> QED  BY <1>1, <1>2

LEMMA AlwaysTyped == Spec => []Typed
BY TypedInit, TypedNext, PTL DEF Spec

\* Every variable always has its type: in particular no bucket, slot or
\* worker index leaves its range, whatever the interleaving.
THEOREM TypeCorrect == Spec => []TypeOK
<1>1. Typed => TypeOK
  BY DEF Typed
<1> QED  BY <1>1, AlwaysTyped, PTL

-----------------------------------------------------------------------------
(* Second layer: what sits in a slot's queue and in a worker's hand.       *)

\* A slot's queue holds targets of that slot only.
QueuesHoldOwn ==
    \A s \in Slots : \A i \in DOMAIN queue[s] : Slot[queue[s][i]] = s

Placed == QueueBounded /\ QueuesHoldOwn /\ HandIsFromSlot

\* Appending a slot's own target to a queue that has room.
LEMMA AppendOwn ==
    ASSUME Typed, Placed, NEW t \in Targets, Len(queue[Slot[t]]) < MaxQueueSize,
           queue' = [queue EXCEPT ![Slot[t]] = Append(@, t)]
    PROVE  QueueBounded' /\ QueuesHoldOwn'
<1> DEFINE q == queue[Slot[t]]
<1>1. Slot[t] \in Slots /\ queue \in [Slots -> Seq(Targets)]
  BY TargetsAssumption DEF Typed, TypeOK
<1>2. q \in Seq(Targets)
  BY <1>1
<1>3. /\ Len(Append(q, t)) = Len(q) + 1
      /\ DOMAIN q = 1..Len(q) /\ DOMAIN Append(q, t) = 1..Len(q) + 1
      /\ Len(q) \in Nat
      /\ \A i \in 1..Len(q) : Append(q, t)[i] = q[i]
      /\ Append(q, t)[Len(q) + 1] = t
  BY <1>2, AppendProperties, LenProperties
<1>4. queue'[Slot[t]] = Append(q, t) /\ \A s \in Slots \ {Slot[t]} : queue'[s] = queue[s]
  BY <1>1
<1>5. QueueBounded'
  BY <1>3, <1>4, SizesAssumption DEF Placed, QueueBounded
<1>6. QueuesHoldOwn'
  <2> SUFFICES ASSUME NEW s \in Slots, NEW i \in DOMAIN queue'[s]
               PROVE  Slot[queue'[s][i]] = s
    BY DEF QueuesHoldOwn
  <2>1. CASE s # Slot[t]
    BY <1>4, <2>1 DEF Placed, QueuesHoldOwn
  <2>2. CASE s = Slot[t] /\ i = Len(q) + 1
    BY <1>3, <1>4, <2>2
  <2>3. CASE s = Slot[t] /\ i # Len(q) + 1
    <3>1. i \in 1..Len(q)
      BY <1>3, <1>4, <2>3
    <3>2. Slot[q[i]] = s
      BY <1>1, <1>3, <2>3, <3>1 DEF Placed, QueuesHoldOwn
    <3> QED  BY <1>3, <1>4, <2>3, <3>1, <3>2
  <2> QED  BY <2>1, <2>2, <2>3
<1> QED  BY <1>5, <1>6

\* Taking the front of a slot's queue.
LEMMA PullOwn ==
    ASSUME Typed, Placed, NEW s \in Slots, queue[s] # <<>>,
           queue' = [queue EXCEPT ![s] = Tail(@)]
    PROVE  QueueBounded' /\ QueuesHoldOwn' /\ Slot[Head(queue[s])] = s
<1> DEFINE q == queue[s]
<1>1. q \in Seq(Targets) /\ queue \in [Slots -> Seq(Targets)]
  BY DEF Typed, TypeOK
<1>2. /\ Len(Tail(q)) = Len(q) - 1
      /\ Len(q) \in Nat \ {0}
      /\ Tail(q) \in Seq(Targets)
  BY <1>1, HeadTailOfTargets
<1>3. /\ DOMAIN q = 1..Len(q) /\ DOMAIN Tail(q) = 1..Len(q) - 1
      /\ \A i \in 1..Len(q) - 1 : Tail(q)[i] = q[i + 1]
      /\ Head(q) = q[1]
  BY <1>1, <1>2, HeadTailProperties, LenProperties
<1>4. queue'[s] = Tail(q) /\ \A r \in Slots \ {s} : queue'[r] = queue[r]
  BY <1>1
<1>5. QueueBounded'
  BY <1>2, <1>4, SizesAssumption DEF Placed, QueueBounded
<1>6. \A i \in 1..Len(q) : Slot[q[i]] = s
  BY <1>3 DEF Placed, QueuesHoldOwn
<1>7. \A i \in 1..Len(q) - 1 : Slot[Tail(q)[i]] = s
  BY <1>2, <1>3, <1>6
<1>8. QueuesHoldOwn'
  BY <1>3, <1>4, <1>7 DEF Placed, QueuesHoldOwn
<1> QED  BY <1>2, <1>3, <1>5, <1>6, <1>8

LEMMA PlacedInit == Init => Placed
BY SizesAssumption DEF Init, Placed, QueueBounded, QueuesHoldOwn, HandIsFromSlot, Slots

LEMMA PlacedNext == Typed /\ Placed /\ [Next]_vars => Placed'
<1> SUFFICES ASSUME Typed, Placed, [Next]_vars PROVE Placed'
  OBVIOUS
<1> USE DEF feederVars, workerVars, observers
<1>1. ASSUME UNCHANGED <<queue, wpc, at, hand>> PROVE Placed'
  BY <1>1 DEF Placed, QueueBounded, QueuesHoldOwn, HandIsFromSlot
<1>2. ASSUME NEW t \in Targets, Len(queue[Slot[t]]) < MaxQueueSize,
             queue' = [queue EXCEPT ![Slot[t]] = Append(@, t)],
             UNCHANGED <<wpc, at, hand>>
      PROVE  Placed'
  BY <1>2, AppendOwn DEF Placed, HandIsFromSlot
<1>3. ASSUME NEW t \in Targets, Enqueue(t) PROVE Placed'
  BY <1>1, <1>3 DEF Enqueue
<1>4. CASE FeederPlace
  <2>1. PopFront /\ Head(bucket[level]) \in Targets
    BY <1>4, PopFrontTyped DEF FeederPlace
  <2> QED  BY <1>2, <1>4, <2>1 DEF FeederPlace
<1>5. CASE FeederRetry
  <2>1. backoff \in Seq(Entries) /\ backoff # <<>>
    BY <1>5 DEF Typed, TypeOK, FeederRetry, Entries
  <2>2. Head(backoff).target \in Targets
    BY <2>1, HeadTailOfEntries
  <2> QED  BY <1>1, <1>2, <1>5, <2>2 DEF FeederRetry
<1>6. CASE FeederSkipEmpty \/ FeederChoose \/ FeederDefer \/ FeederReadClock \/ FeederRest
  BY <1>1, <1>6 DEF FeederSkipEmpty, FeederChoose, FeederDefer, FeederReadClock, FeederRest
<1>7. ASSUME NEW w \in Workers, WorkerPull(w) PROVE Placed'
  <2>1. at[w] \in Slots /\ queue[at[w]] # <<>>
    BY <1>7, StandsAtSlot DEF Typed, WorkerPull, Scanning
  <2>2. QueueBounded' /\ QueuesHoldOwn' /\ Slot[Head(queue[at[w]])] = at[w]
    BY <1>7, <2>1, PullOwn DEF WorkerPull
  <2>3. Head(queue[at[w]]) \in Targets
    BY <2>1, HeadTailOfTargets DEF Typed, TypeOK
  <2>4. HandIsFromSlot'
    BY <1>7, <2>2, <2>3, TargetsAssumption
       DEF Typed, TypeOK, Placed, HandIsFromSlot, WorkerPull
  <2> QED  BY <2>2, <2>4 DEF Placed
<1>8. ASSUME NEW w \in Workers, UNCHANGED queue,
             \A v \in Workers \ {w} : wpc'[v] = wpc[v] /\ at'[v] = at[v] /\ hand'[v] = hand[v],
             wpc'[w] # "scan" => /\ wpc[w] # "scan"
                                 /\ at'[w] = at[w] /\ hand'[w] = hand[w]
      PROVE  Placed'
  BY <1>8 DEF Placed, QueueBounded, QueuesHoldOwn, HandIsFromSlot
<1>9. ASSUME NEW w \in Workers,
             \/ WorkerSkip(w) \/ WorkerTooSoon(w) \/ WorkerReject(w)
             \/ WorkerAllow(w) \/ WorkerGet(w) \/ WorkerFollow(w) \/ WorkerAnswer(w)
             \/ WorkerRescan(w)
      PROVE  Placed'
  BY <1>8, <1>9 DEF Typed, TypeOK, Scanning, NextSlot, Finish, WorkerSkip, WorkerTooSoon,
                    WorkerReject, WorkerAllow, WorkerGet, WorkerFollow, WorkerAnswer, WorkerRescan
<1>10. CASE Tick
  BY <1>1, <1>10 DEF Tick
<1>11. CASE UNCHANGED vars
  BY <1>1, <1>11 DEF vars
<1> QED  BY <1>3, <1>4, <1>5, <1>6, <1>7, <1>9, <1>10, <1>11 DEF Next, Feeder, Worker

LEMMA AlwaysPlaced == Spec => []Placed
BY PlacedInit, PlacedNext, AlwaysTyped, PTL DEF Spec

\* No slot's queue outgrows its limit, although two code paths fill it, each
\* with a test of its own (domain_carousel.h push_target and feed_carousel...).
THEOREM QueuesAreBounded == Spec => []QueueBounded
<1>1. Placed => QueueBounded
  BY DEF Placed
<1> QED  BY <1>1, AlwaysPlaced, PTL

\* Two workers that are busy stand at different slots.
LEMMA BusyApart ==
    ASSUME Typed, NEW v \in Workers, NEW w \in Workers, v # w,
           wpc[v] # "scan", at[w] <= Right(w)
    PROVE  at[v] # at[w]
<1>1. at[v] \in Left(v)..Right(v) /\ at[w] \in Left(w)..Right(w)
  BY StandsAtSlot DEF Typed, BusyOrScanning
<1> QED  BY <1>1, IntervalsDisjoint

\* No two workers are ever busy with targets of the same slot, for any carousel
\* and pool whose sizes satisfy the static_asserts of lib/consts.h.
THEOREM SlotsHaveOneWorker == Spec => []OneWorkerPerSlot
<1>1. ASSUME Typed, Placed PROVE OneWorkerPerSlot
  <2> SUFFICES ASSUME NEW v \in Workers, NEW w \in Workers, v # w,
                      hand[v] # NoTarget, hand[w] # NoTarget
               PROVE  Slot[hand[v]] # Slot[hand[w]]
    BY DEF OneWorkerPerSlot
  <2>1. wpc[v] # "scan" /\ wpc[w] # "scan" /\ at[w] <= Right(w)
    BY <1>1 DEF Typed, BusyOrScanning
  <2>2. at[v] # at[w]
    BY <1>1, <2>1, BusyApart
  <2> QED  BY <1>1, <2>1, <2>2 DEF Placed, HandIsFromSlot
<1> QED  BY <1>1, AlwaysTyped, AlwaysPlaced, PTL

-----------------------------------------------------------------------------
(* Third layer: the backoff queue is ordered by age, the oldest in front,  *)
(* and holds nothing younger than the pass that looks at it.               *)
Aged ==
    /\ \A i, j \in DOMAIN backoff : i < j => backoff[i].age >= backoff[j].age
    /\ fpc = "retry" => \A i \in DOMAIN backoff : backoff[i].age >= nowAge

\* The indices and ages of the backoff queue.
LEMMA BackoffFacts ==
    ASSUME TypeOK
    PROVE  /\ backoff \in Seq(Entries)
           /\ Len(backoff) \in Nat
           /\ DOMAIN backoff = 1..Len(backoff)
           /\ \A i \in 1..Len(backoff) : backoff[i].age \in 0..MaxAge
           /\ nowAge \in 0..MaxStall
<1>1. backoff \in Seq(Entries) /\ nowAge \in 0..MaxStall
  BY DEF TypeOK, Entries
<1>2. \A i \in 1..Len(backoff) : backoff[i] \in Entries
  BY <1>1, ElementOfSeq
<1> QED  BY <1>1, <1>2, LenProperties DEF Entries

LEMMA AgedNext == Typed /\ Typed' /\ Aged /\ [Next]_vars => Aged'
<1> SUFFICES ASSUME Typed, Typed', Aged, [Next]_vars PROVE Aged'
  OBVIOUS
<1> USE DEF feederVars, workerVars, observers
<1>0. /\ backoff \in Seq(Entries)
      /\ Len(backoff) \in Nat
      /\ DOMAIN backoff = 1..Len(backoff)
      /\ \A i \in 1..Len(backoff) : backoff[i].age \in 0..MaxAge
      /\ nowAge \in 0..MaxStall
  BY BackoffFacts DEF Typed
<1>1. ASSUME UNCHANGED <<backoff, nowAge>>, fpc' = "retry" => fpc = "retry"
      PROVE  Aged'
  BY <1>1 DEF Aged
<1>2. CASE FeederDefer
  <2> DEFINE e == [target |-> Head(bucket[level]), age |-> 0]
  <2>1. PopFront /\ backoff' = Append(backoff, e) /\ fpc' # "retry"
    BY <1>2 DEF FeederDefer, PopFront
  <2>2. e \in Entries /\ e.age = 0
    BY <2>1, PopFrontTyped, SizesAssumption DEF Entries, MaxAge
  <2> HIDE DEF e
  <2>3. /\ DOMAIN backoff' = 1..Len(backoff) + 1
        /\ \A i \in 1..Len(backoff) : backoff'[i] = backoff[i]
        /\ backoff'[Len(backoff) + 1] = e
    BY <1>0, <2>1, <2>2, AppendProperties, LenProperties
  <2>4. ASSUME NEW i \in DOMAIN backoff', NEW j \in DOMAIN backoff', i < j
        PROVE  backoff'[i].age >= backoff'[j].age
    <3>1. i \in 1..Len(backoff) /\ backoff'[i] = backoff[i]
      BY <1>0, <2>3, <2>4
    <3>2. CASE j = Len(backoff) + 1
      BY <1>0, <2>2, <2>3, <3>1, <3>2
    <3>3. CASE j # Len(backoff) + 1
      BY <1>0, <2>3, <2>4, <3>1, <3>3 DEF Aged
    <3> QED  BY <3>2, <3>3
  <2> QED  BY <2>1, <2>4 DEF Aged
<1>3. CASE FeederReadClock
  BY <1>0, <1>3, SizesAssumption DEF FeederReadClock, Aged, MaxAge
<1>4. CASE FeederRetry
  <2> DEFINE e == [target |-> Head(backoff).target, age |-> nowAge]
             q == Tail(backoff)
  <2>1. /\ fpc = "retry" /\ UNCHANGED <<fpc, nowAge>> /\ backoff # <<>>
        /\ backoff' = q \/ backoff' = Append(q, e)
    BY <1>4 DEF FeederRetry
  <2>2. /\ q \in Seq(Entries)
        /\ Len(q) = Len(backoff) - 1
        /\ Len(backoff) \in Nat \ {0}
        /\ \A i \in 1..Len(q) : q[i] = backoff[i + 1]
    BY <1>0, <2>1, HeadTailProperties, EmptySeq
  <2>3. e.age = nowAge /\ e \in Entries
    <3>1. Head(backoff).target \in Targets
      BY <1>0, <2>1, HeadTailOfEntries
    <3>2. nowAge \in 0..MaxAge
      BY <1>0, SizesAssumption DEF MaxAge
    <3> QED  BY <3>1, <3>2 DEF Entries
  <2> HIDE DEF e, q
  <2>4. /\ DOMAIN q = 1..Len(q) /\ Len(q) \in Nat
        /\ \A i \in 1..Len(q) : q[i].age >= nowAge /\ q[i].age \in Int
        /\ \A i, j \in 1..Len(q) : i < j => q[i].age >= q[j].age
    <3>1. DOMAIN q = 1..Len(q) /\ Len(q) \in Nat
      BY <2>2, LenProperties
    <3>2. \A i \in 1..Len(q) : q[i] = backoff[i + 1] /\ i + 1 \in 1..Len(backoff)
      BY <2>2, <3>1
    <3>3. \A i \in 1..Len(backoff) : backoff[i].age >= nowAge /\ backoff[i].age \in Int
      BY <1>0, <2>1 DEF Aged
    <3>4. ASSUME NEW i \in 1..Len(q), NEW j \in 1..Len(q), i < j
          PROVE  q[i].age >= q[j].age
      <4>1. i + 1 \in DOMAIN backoff /\ j + 1 \in DOMAIN backoff /\ i + 1 < j + 1
        BY <1>0, <3>1, <3>2, <3>4
      <4>2. backoff[i + 1].age >= backoff[j + 1].age
        BY <4>1 DEF Aged
      <4> QED  BY <3>2, <4>2
    <3> QED  BY <3>1, <3>2, <3>3, <3>4
  <2>5. /\ DOMAIN Append(q, e) = 1..Len(q) + 1
        /\ \A i \in 1..Len(q) : Append(q, e)[i] = q[i]
        /\ Append(q, e)[Len(q) + 1] = e
    BY <2>2, <2>3, AppendProperties, LenProperties
  <2>6. CASE backoff' = q
    BY <2>1, <2>4, <2>6 DEF Aged
  <2>7. CASE backoff' = Append(q, e)
    <3>1. \A i \in DOMAIN backoff' : backoff'[i].age >= nowAge /\ backoff'[i].age \in Int
      BY <1>0, <2>3, <2>4, <2>5, <2>7
    <3>2. ASSUME NEW i \in DOMAIN backoff', NEW j \in DOMAIN backoff', i < j
          PROVE  backoff'[i].age >= backoff'[j].age
      <4>1. i \in 1..Len(q) /\ backoff'[i] = q[i]
        BY <2>4, <2>5, <2>7, <3>2
      <4>2. CASE j = Len(q) + 1
        BY <2>3, <2>4, <2>5, <2>7, <4>1, <4>2
      <4>3. CASE j # Len(q) + 1
        BY <2>4, <2>5, <2>7, <3>2, <4>1, <4>3
      <4> QED  BY <4>2, <4>3
    <3> QED  BY <2>1, <3>1, <3>2 DEF Aged
  <2> QED  BY <2>1, <2>6, <2>7
<1>5. CASE FeederRest
  BY <1>5 DEF FeederRest, Aged
<1>6. CASE FeederSkipEmpty \/ FeederChoose \/ FeederPlace
  BY <1>1, <1>6 DEF FeederSkipEmpty, FeederChoose, FeederPlace, PopFront
<1>7. ASSUME NEW t \in Targets, Enqueue(t) PROVE Aged'
  BY <1>1, <1>7 DEF Enqueue
<1>8. ASSUME NEW w \in Workers, Worker(w) PROVE Aged'
  BY <1>1, <1>8 DEF Worker, WorkerSkip, WorkerTooSoon, WorkerPull, WorkerReject,
                    WorkerAllow, WorkerGet, WorkerFollow, WorkerAnswer, WorkerRescan
<1>9. CASE Tick
  <2>1. /\ DOMAIN backoff' = DOMAIN backoff
        /\ \A i \in DOMAIN backoff :
              backoff'[i] = [backoff[i] EXCEPT !.age = Min2(@ + 1, MaxAge)]
        /\ fpc' = fpc /\ nowAge' = IF fpc = "retry" THEN nowAge + 1 ELSE nowAge
        /\ fpc = "retry" => nowAge < MaxStall
    BY <1>9 DEF Tick
  <2>2. \A i \in DOMAIN backoff :
            backoff'[i].age = IF backoff[i].age < MaxAge THEN backoff[i].age + 1 ELSE MaxAge
    <3> TAKE i \in DOMAIN backoff
    <3>1. backoff[i] \in Entries /\ backoff[i].age \in 0..MaxAge
      BY <1>0, ElementOfSeq
    <3>2. backoff'[i].age = Min2(backoff[i].age + 1, MaxAge)
      BY <2>1, <3>1 DEF Entries
    <3> QED  BY <3>1, <3>2, SizesAssumption DEF Min2, MaxAge
  <2>3. ASSUME NEW i \in DOMAIN backoff', NEW j \in DOMAIN backoff', i < j
        PROVE  backoff'[i].age >= backoff'[j].age
    <3>1. backoff[i].age \in 0..MaxAge /\ backoff[j].age \in 0..MaxAge
      BY <1>0, <2>1
    <3>2. backoff[i].age >= backoff[j].age
      BY <2>1, <2>3 DEF Aged
    <3>3. MaxAge \in Nat
      BY SizesAssumption DEF MaxAge
    <3> QED  BY <2>1, <2>2, <3>1, <3>2, <3>3
  <2>4. fpc' = "retry" => \A i \in DOMAIN backoff' : backoff'[i].age >= nowAge'
    BY <1>0, <2>1, <2>2, SizesAssumption DEF Aged, MaxAge
  <2> QED  BY <2>3, <2>4 DEF Aged
<1>10. CASE UNCHANGED vars
  BY <1>1, <1>10 DEF vars
<1> QED  BY <1>2, <1>3, <1>4, <1>5, <1>6, <1>7, <1>8, <1>9, <1>10 DEF Next, Feeder

\* The `break` of the retry pass (bucket_manager.h) skips no ripe entry: the
\* queue is ordered by age, because every entry is stamped when it is appended.
THEOREM BreakIsSafe == Spec => []BreakSkipsNobody
<1>1. Init => Aged
  BY DEF Init, Aged
<1>2. ASSUME Typed, Aged PROVE BreakSkipsNobody
  <2>1. /\ DOMAIN backoff = 1..Len(backoff) /\ Len(backoff) \in Nat
        /\ \A i \in 1..Len(backoff) : backoff[i].age \in 0..MaxAge
        /\ nowAge \in 0..MaxStall
    BY <1>2, BackoffFacts DEF Typed
  <2>2. \A i \in DOMAIN backoff : 1 \in DOMAIN backoff /\ backoff[1].age >= backoff[i].age
    BY <1>2, <2>1 DEF Aged
  <2> QED  BY <2>1, <2>2, SizesAssumption DEF BreakSkipsNobody, Ripe
<1>3. Spec => []Aged
  BY <1>1, AgedNext, AlwaysTyped, PTL DEF Spec
<1> QED  BY <1>2, <1>3, AlwaysTyped, PTL

-----------------------------------------------------------------------------
(* Fourth layer: how old a slot's stamp and the requests for its last two   *)
(* pages are.  Until a worker has sent the first request for its page, none *)
(* but those for its predecessor's is as young as the stamp it set.         *)
BeforeGet == {"check", "get"}

Spaced ==
    /\ \A s \in Slots : prevGet[s] >= sentAge[s]
    /\ \A w \in Workers : wpc[w] \in BeforeGet =>
           prevGet[at[w]] >= Backoff /\ lastGet[at[w]] >= sentAge[at[w]]

LEMMA SpacedNext == Typed /\ Spaced /\ [Next]_vars => Spaced'
<1> SUFFICES ASSUME Typed, Spaced, [Next]_vars PROVE Spaced'
  OBVIOUS
<1> USE DEF feederVars, workerVars, observers
<1>0. /\ \A s \in Slots : /\ sentAge[s] \in 0..Backoff
                          /\ lastGet[s] \in 0..Backoff
                          /\ prevGet[s] \in 0..Backoff
      /\ \A w \in Workers : wpc[w] # "scan" => at[w] <= Right(w) /\ at[w] \in Slots
      /\ Backoff \in Nat
  BY StandsAtSlot, SizesAssumption DEF Typed, TypeOK, BusyOrScanning
<1>1. ASSUME UNCHANGED <<sentAge, lastGet, prevGet>>,
             \A v \in Workers : wpc'[v] \in BeforeGet => wpc[v] \in BeforeGet /\ at'[v] = at[v]
      PROVE  Spaced'
  BY <1>1 DEF Spaced
<1>2. ASSUME NEW w \in Workers, WorkerPull(w) PROVE Spaced'
  <2> DEFINE s == at[w]
  <2>1. /\ wpc[w] = "scan" /\ s <= Right(w) /\ sentAge[s] >= Backoff
        /\ sentAge' = [sentAge EXCEPT ![s] = 0]
        /\ wpc' = [wpc EXCEPT ![w] = "check"]
        /\ UNCHANGED <<at, lastGet, prevGet>>
    BY <1>2 DEF WorkerPull, Scanning
  <2>2. s \in Slots
    BY <2>1, StandsAtSlot DEF Typed
  <2>3. /\ sentAge'[s] = 0 /\ prevGet[s] >= Backoff /\ lastGet[s] >= 0
        /\ \A r \in Slots \ {s} : sentAge'[r] = sentAge[r]
    BY <1>0, <2>1, <2>2 DEF Typed, TypeOK, Spaced
  <2>4. \A r \in Slots : prevGet'[r] >= sentAge'[r]
    BY <1>0, <2>1, <2>2, <2>3 DEF Spaced
  <2>5. ASSUME NEW v \in Workers, wpc'[v] \in BeforeGet
        PROVE  prevGet'[at'[v]] >= Backoff /\ lastGet'[at'[v]] >= sentAge'[at'[v]]
    <3>1. CASE v = w
      BY <2>1, <2>3, <3>1
    <3>2. CASE v # w
      <4>1. wpc[v] \in BeforeGet /\ wpc[v] # "scan"
        BY <2>1, <2>5, <3>2 DEF Typed, TypeOK, BeforeGet
      <4>2. at[v] # s /\ at[v] \in Slots
        BY <1>0, <2>1, <3>2, <4>1, BusyApart
      <4> QED  BY <2>1, <2>3, <4>1, <4>2 DEF Spaced
    <3> QED  BY <3>1, <3>2
  <2> QED  BY <2>4, <2>5 DEF Spaced
<1>3. ASSUME NEW w \in Workers, WorkerGet(w) PROVE Spaced'
  <2> DEFINE s == at[w]
  <2>1. /\ wpc[w] = "get" /\ wpc' = [wpc EXCEPT ![w] = "answer"]
        /\ prevGet' = [prevGet EXCEPT ![s] = lastGet[s]]
        /\ lastGet' = [lastGet EXCEPT ![s] = 0]
        /\ UNCHANGED <<sentAge, at>>
    BY <1>3 DEF WorkerGet
  <2>2. s \in Slots /\ s <= Right(w) /\ lastGet[s] >= sentAge[s]
    BY <1>0, <2>1 DEF Spaced, BeforeGet
  <2>3. \A r \in Slots : prevGet'[r] >= sentAge'[r]
    BY <2>1, <2>2 DEF Typed, TypeOK, Spaced
  <2>4. ASSUME NEW v \in Workers, wpc'[v] \in BeforeGet
        PROVE  prevGet'[at'[v]] >= Backoff /\ lastGet'[at'[v]] >= sentAge'[at'[v]]
    <3>1. v # w /\ wpc[v] \in BeforeGet /\ wpc[v] # "scan" /\ at'[v] = at[v]
      BY <2>1, <2>4 DEF Typed, TypeOK, BeforeGet
    <3>2. at[v] # s /\ at[v] \in Slots
      BY <1>0, <2>2, <3>1, BusyApart
    <3>3. prevGet'[at[v]] = prevGet[at[v]] /\ lastGet'[at[v]] = lastGet[at[v]]
      BY <2>1, <3>2 DEF Typed, TypeOK
    <3> QED  BY <2>1, <3>1, <3>3 DEF Spaced
  <2> QED  BY <2>3, <2>4 DEF Spaced
<1>4. ASSUME NEW w \in Workers,
             \/ WorkerSkip(w) \/ WorkerTooSoon(w) \/ WorkerReject(w)
             \/ WorkerAllow(w) \/ WorkerAnswer(w) \/ WorkerRescan(w)
      PROVE  Spaced'
  BY <1>1, <1>4 DEF Typed, TypeOK, Scanning, NextSlot, Finish, WorkerSkip, WorkerTooSoon,
                    WorkerReject, WorkerAllow, WorkerAnswer, WorkerRescan, BeforeGet
<1>9. ASSUME NEW w \in Workers, WorkerFollow(w) PROVE Spaced'
  <2> DEFINE s == at[w]
  <2>1. /\ wpc[w] = "answer" /\ lastGet' = [lastGet EXCEPT ![s] = 0]
        /\ UNCHANGED <<sentAge, prevGet, wpc, at>>
    BY <1>9 DEF WorkerFollow
  <2>2. s \in Slots
    BY <1>0, <2>1
  <2>3. ASSUME NEW v \in Workers, wpc[v] \in BeforeGet PROVE lastGet'[at[v]] = lastGet[at[v]]
    <3>1. v # w /\ wpc[v] # "scan" /\ wpc[w] # "scan"
      BY <2>1, <2>3 DEF BeforeGet
    <3>2. at[v] # s /\ at[v] \in Slots
      BY <1>0, <2>2, <3>1, BusyApart
    <3> QED  BY <2>1, <3>2 DEF Typed, TypeOK
  <2> QED  BY <2>1, <2>3 DEF Spaced
<1>5. CASE Tick
  <2>1. \A s \in Slots :
            /\ sentAge'[s] = IF sentAge[s] < Backoff THEN sentAge[s] + 1 ELSE Backoff
            /\ lastGet'[s] = IF lastGet[s] < Backoff THEN lastGet[s] + 1 ELSE Backoff
            /\ prevGet'[s] = IF prevGet[s] < Backoff THEN prevGet[s] + 1 ELSE Backoff
    BY <1>5, OlderAges DEF Tick, Typed, TypeOK
  <2>2. UNCHANGED <<wpc, at>>
    BY <1>5 DEF Tick
  <2>3. \A s \in Slots : prevGet'[s] >= sentAge'[s]
    BY <1>0, <2>1 DEF Spaced
  <2>4. ASSUME NEW v \in Workers, wpc'[v] \in BeforeGet
        PROVE  prevGet'[at'[v]] >= Backoff /\ lastGet'[at'[v]] >= sentAge'[at'[v]]
    <3>1. at'[v] = at[v] /\ at[v] \in Slots
      BY <1>0, <2>2, <2>4 DEF BeforeGet
    <3>2. prevGet[at[v]] >= Backoff /\ lastGet[at[v]] >= sentAge[at[v]]
      BY <2>2, <2>4 DEF Spaced
    <3> QED  BY <1>0, <2>1, <3>1, <3>2
  <2> QED  BY <2>3, <2>4 DEF Spaced
<1>6. CASE Feeder
  BY <1>1, <1>6 DEF Feeder, FeederSkipEmpty, FeederChoose, FeederPlace, FeederDefer,
                    FeederReadClock, FeederRetry, FeederRest
<1>7. ASSUME NEW t \in Targets, Enqueue(t) PROVE Spaced'
  BY <1>1, <1>7 DEF Enqueue
<1>8. CASE UNCHANGED vars
  BY <1>1, <1>8 DEF vars
<1> QED  BY <1>2, <1>3, <1>4, <1>5, <1>6, <1>7, <1>8, <1>9 DEF Next, Worker

\* Stamping the slot at the pull, before the filters and robots.txt, still
\* keeps the requests for three pages of a slot, each with all its redirects,
\* from falling within CRAWLER_BACKOFF_SEC.
THEOREM NoBurstOfThree == Spec => NoThreePagesInABurst
<1>1. Init => Spaced
  BY SizesAssumption DEF Init, Spaced, BeforeGet
<1>2. Spec => []Spaced
  BY <1>1, SpacedNext, AlwaysTyped, PTL DEF Spec
<1>3. Spaced => [\A w \in Workers : WorkerGet(w) => prevGet[at[w]] >= Backoff]_vars
  BY DEF Spaced, BeforeGet, WorkerGet
<1> QED  BY <1>2, <1>3, PTL DEF NoThreePagesInABurst

-----------------------------------------------------------------------------
(* Fifth layer: where a live target is.  Its bucket and its slot are fixed, *)
(* so it can be in four lines only: that bucket, that slot's queue, the     *)
(* backoff queue and the workers' hands.                                   *)

\* The line q holds t nowhere; the line q holds t exactly once.
None(q, t) == \A n \in DOMAIN q : q[n] # t
Once(q, t) == \E n \in DOMAIN q : q[n] = t /\ \A m \in DOMAIN q : q[m] = t => m = n

\* The targets of a sequence of entries; those that wait in the backoff queue.
TargetsOf(q) == [n \in DOMAIN q |-> q[n].target]
Waiting == TargetsOf(backoff)

\* A bucket holds targets of its own priority only.
BucketsHoldOwn ==
    \A p \in Levels : \A n \in DOMAIN bucket[p] : Level[bucket[p][n]] = p

\* Lines b, q, o and h hold t once between them if it is live, else not at all.
OnceBetween(live, b, q, o, h, t) ==
    IF live
    THEN \/ Once(b, t) /\ None(q, t) /\ None(o, t) /\ None(h, t)
         \/ None(b, t) /\ Once(q, t) /\ None(o, t) /\ None(h, t)
         \/ None(b, t) /\ None(q, t) /\ Once(o, t) /\ None(h, t)
         \/ None(b, t) /\ None(q, t) /\ None(o, t) /\ Once(h, t)
    ELSE None(b, t) /\ None(q, t) /\ None(o, t) /\ None(h, t)

KeptOnce ==
    \A t \in Targets :
        OnceBetween(fate[t] = "live", bucket[Level[t]], queue[Slot[t]], Waiting, hand, t)

Kept == BucketsHoldOwn /\ KeptOnce

\* Appending to a line.
LEMMA AppendLine ==
    ASSUME NEW S, NEW q \in Seq(S), NEW e \in S, NEW t
    PROVE  /\ e = t /\ None(q, t) => Once(Append(q, e), t)
           /\ e # t => /\ None(q, t) => None(Append(q, e), t)
                       /\ Once(q, t) => Once(Append(q, e), t)
<1>1. /\ Len(q) \in Nat
      /\ DOMAIN q = 1..Len(q)
      /\ DOMAIN Append(q, e) = 1..Len(q) + 1
      /\ \A i \in 1..Len(q) : Append(q, e)[i] = q[i]
      /\ Append(q, e)[Len(q) + 1] = e
  BY AppendProperties, LenProperties
<1>2. \A i \in DOMAIN Append(q, e) : i \in DOMAIN q \/ i = Len(q) + 1
  BY <1>1
<1>3. \A i \in DOMAIN q : i \in DOMAIN Append(q, e) /\ Append(q, e)[i] = q[i]
  BY <1>1
<1>4. Len(q) + 1 \in DOMAIN Append(q, e)
  BY <1>1
<1> QED  BY <1>1, <1>2, <1>3, <1>4 DEF None, Once

\* Taking the front of a line.
LEMMA TailLine ==
    ASSUME NEW S, NEW q \in Seq(S), q # <<>>, NEW t
    PROVE  /\ Head(q) = t => /\ ~None(q, t)
                             /\ Once(q, t) => None(Tail(q), t)
           /\ Head(q) # t => /\ None(q, t) => None(Tail(q), t)
                             /\ Once(q, t) => Once(Tail(q), t)
<1>1. /\ Len(q) \in Nat \ {0}
      /\ DOMAIN q = 1..Len(q)
      /\ DOMAIN Tail(q) = 1..Len(q) - 1
      /\ \A i \in 1..Len(q) - 1 : Tail(q)[i] = q[i + 1]
      /\ Head(q) = q[1]
  BY HeadTailProperties, EmptySeq, LenProperties
<1>2. \A i \in DOMAIN Tail(q) : i + 1 \in DOMAIN q /\ i + 1 # 1 /\ Tail(q)[i] = q[i + 1]
  BY <1>1
<1>3. 1 \in DOMAIN q
  BY <1>1
<1>4. ASSUME Head(q) # t, Once(q, t) PROVE Once(Tail(q), t)
  <2>1. PICK n \in DOMAIN q : q[n] = t /\ \A m \in DOMAIN q : q[m] = t => m = n
    BY <1>4 DEF Once
  <2>2. n # 1
    BY <1>1, <1>4, <2>1
  <2>3. n - 1 \in DOMAIN Tail(q) /\ Tail(q)[n - 1] = t
    BY <1>1, <2>1, <2>2
  <2>4. ASSUME NEW m \in DOMAIN Tail(q), Tail(q)[m] = t PROVE m = n - 1
    BY <1>1, <1>2, <2>1, <2>4
  <2> QED  BY <2>3, <2>4 DEF Once
<1>5. ASSUME Head(q) = t, Once(q, t) PROVE None(Tail(q), t)
  BY <1>1, <1>2, <1>3, <1>5 DEF Once, None
<1>6. None(q, t) => None(Tail(q), t)
  BY <1>2 DEF None
<1> QED  BY <1>1, <1>3, <1>4, <1>5, <1>6 DEF None

\* The targets of the backoff queue follow its entries.
LEMMA TargetsFollow ==
    ASSUME NEW q \in Seq(Entries)
    PROVE  /\ TargetsOf(q) \in Seq(Targets)
           /\ \A e \in Entries : TargetsOf(Append(q, e)) = Append(TargetsOf(q), e.target)
           /\ q # <<>> => /\ TargetsOf(q) # <<>>
                          /\ Head(TargetsOf(q)) = Head(q).target
                          /\ TargetsOf(Tail(q)) = Tail(TargetsOf(q))
<1>1. ASSUME NEW r \in Seq(Entries)
      PROVE  /\ Len(r) \in Nat /\ DOMAIN r = 1..Len(r)
             /\ TargetsOf(r) = [i \in 1..Len(r) |-> r[i].target]
             /\ TargetsOf(r) \in Seq(Targets) /\ Len(TargetsOf(r)) = Len(r)
  <2>1. Len(r) \in Nat /\ DOMAIN r = 1..Len(r)
    BY LenProperties
  <2>2. \A i \in 1..Len(r) : r[i] \in Entries
    BY ElementOfSeq
  <2>3. \A e \in Entries : e.target \in Targets
    BY DEF Entries
  <2>4. TargetsOf(r) = [i \in 1..Len(r) |-> r[i].target]
    BY <2>1 DEF TargetsOf
  <2> QED  BY <2>1, <2>2, <2>3, <2>4
<1>2. TargetsOf(q) = [i \in 1..Len(q) |-> q[i].target] /\ Len(q) \in Nat
  BY <1>1
<1>3. TargetsOf(q) \in Seq(Targets) /\ Len(TargetsOf(q)) = Len(q)
  BY <1>1
<1>4. ASSUME NEW e \in Entries
      PROVE  TargetsOf(Append(q, e)) = Append(TargetsOf(q), e.target)
  <2>1. /\ DOMAIN Append(q, e) = 1..Len(q) + 1
        /\ \A i \in 1..Len(q) : Append(q, e)[i] = q[i]
        /\ Append(q, e)[Len(q) + 1] = e
    BY AppendProperties, LenProperties
  <2>2. e.target \in Targets
    BY DEF Entries
  <2>3. Append(TargetsOf(q), e.target)
          = [i \in 1..Len(q) + 1 |-> IF i = Len(q) + 1 THEN e.target ELSE TargetsOf(q)[i]]
    BY <1>3, <2>2
  <2>4. \A i \in 1..Len(q) + 1 : i # Len(q) + 1 => i \in 1..Len(q)
    BY <1>1
  <2>5. TargetsOf(Append(q, e)) = [i \in 1..Len(q) + 1 |-> Append(q, e)[i].target]
    BY <2>1 DEF TargetsOf
  <2>6. \A i \in 1..Len(q) + 1 :
            Append(q, e)[i].target = IF i = Len(q) + 1 THEN e.target ELSE TargetsOf(q)[i]
    BY <1>2, <2>1, <2>4
  <2> QED  BY <2>3, <2>5, <2>6
<1>5. ASSUME q # <<>>
      PROVE  /\ TargetsOf(q) # <<>>
             /\ Head(TargetsOf(q)) = Head(q).target
             /\ TargetsOf(Tail(q)) = Tail(TargetsOf(q))
  <2>1. /\ Len(q) \in Nat \ {0}
        /\ DOMAIN Tail(q) = 1..Len(q) - 1
        /\ \A i \in 1..Len(q) - 1 : Tail(q)[i] = q[i + 1]
        /\ Head(q) = q[1]
    BY <1>5, HeadTailProperties, EmptySeq, LenProperties
  <2>2. TargetsOf(q) # <<>>
    BY <1>3, <2>1, EmptySeq
  <2>3. Head(TargetsOf(q)) = TargetsOf(q)[1]
    BY <1>3, <2>2
  <2>4. /\ Tail(TargetsOf(q)) \in Seq(Targets)
        /\ Len(Tail(TargetsOf(q))) = Len(q) - 1
        /\ \A i \in 1..Len(q) - 1 : Tail(TargetsOf(q))[i] = TargetsOf(q)[i + 1]
    BY <1>3, <2>2, HeadTailProperties
  <2>5. Tail(q) \in Seq(Entries) /\ Len(Tail(q)) = Len(q) - 1
    BY <1>5, HeadTailProperties
  <2>6. /\ TargetsOf(Tail(q)) \in Seq(Targets) /\ Len(TargetsOf(Tail(q))) = Len(q) - 1
        /\ \A i \in 1..Len(q) - 1 : TargetsOf(Tail(q))[i] = Tail(q)[i].target
    BY <1>1, <2>5
  <2>7. \A i \in 1..Len(q) - 1 : TargetsOf(q)[i + 1] = Tail(q)[i].target
    BY <1>2, <2>1
  <2>8. TargetsOf(Tail(q)) = Tail(TargetsOf(q))
    BY <2>4, <2>6, <2>7, SeqEqual
  <2>9. 1 \in 1..Len(q)
    BY <2>1
  <2> QED  BY <1>2, <2>1, <2>2, <2>3, <2>8, <2>9
<1> QED  BY <1>3, <1>4, <1>5

\* A line that gains or loses other targets only.
Stays(q, r, t) == (None(q, t) => None(r, t)) /\ (Once(q, t) => Once(r, t))

LEMMA OnceExcludesNone ==
    ASSUME NEW q, NEW t, Once(q, t)
    PROVE  ~None(q, t)
BY DEF Once, None

LEMMA StaysOnce ==
    ASSUME NEW live, NEW t, NEW b, NEW q, NEW o, NEW h, NEW c, NEW r, NEW p, NEW i,
           OnceBetween(live, b, q, o, h, t),
           Stays(b, c, t), Stays(q, r, t), Stays(o, p, t), Stays(h, i, t)
    PROVE  OnceBetween(live, c, r, p, i, t)
BY DEF OnceBetween, Stays

\* The lines' types.
LEMMA LinesTyped ==
    ASSUME Typed
    PROVE  /\ bucket \in [Levels -> Seq(Targets)]
           /\ queue \in [Slots -> Seq(Targets)]
           /\ backoff \in Seq(Entries)
           /\ Waiting \in Seq(Targets)
           /\ hand \in [Workers -> Targets \cup {NoTarget}]
           /\ fate \in [Targets -> {"unseen", "live"} \cup Outcomes]
           /\ \A t \in Targets : Level[t] \in Levels /\ Slot[t] \in Slots
<1>1. backoff \in Seq(Entries)
  BY DEF Typed, TypeOK, Entries
<1> QED  BY <1>1, TargetsFollow, TargetsAssumption DEF Typed, TypeOK, Waiting

\* A target nobody moves.
LEMMA KeptStill ==
    ASSUME KeptOnce, NEW t \in Targets, fate'[t] = "live" <=> fate[t] = "live",
           Stays(bucket[Level[t]], bucket'[Level[t]], t),
           Stays(queue[Slot[t]], queue'[Slot[t]], t),
           Stays(Waiting, Waiting', t), Stays(hand, hand', t)
    PROVE  OnceBetween(fate'[t] = "live", bucket'[Level[t]], queue'[Slot[t]], Waiting', hand', t)
<1>1. OnceBetween(fate[t] = "live", bucket[Level[t]], queue[Slot[t]], Waiting, hand, t)
  BY DEF KeptOnce
<1>2. OnceBetween(fate[t] = "live", bucket'[Level[t]], queue'[Slot[t]], Waiting', hand', t)
  BY <1>1, StaysOnce
<1> QED  BY <1>2 DEF OnceBetween

LEMMA SameStays ==
    ASSUME NEW q, NEW r, NEW t, q = r
    PROVE  Stays(q, r, t)
BY DEF Stays

\* A bucket after an append or a removal at its front.
LEMMA BucketAppend ==
    ASSUME Typed, BucketsHoldOwn, NEW x \in Targets,
           bucket' = [bucket EXCEPT ![Level[x]] = Append(@, x)]
    PROVE  /\ BucketsHoldOwn'
           /\ None(bucket[Level[x]], x) => Once(bucket'[Level[x]], x)
           /\ \A t \in Targets \ {x} : Stays(bucket[Level[t]], bucket'[Level[t]], t)
<1> DEFINE q == bucket[Level[x]]
<1>1. /\ q \in Seq(Targets) /\ bucket'[Level[x]] = Append(q, x)
      /\ \A p \in Levels \ {Level[x]} : bucket'[p] = bucket[p]
      /\ \A t \in Targets : Level[t] \in Levels
  BY LinesTyped
<1>2. /\ DOMAIN q = 1..Len(q) /\ DOMAIN Append(q, x) = 1..Len(q) + 1
      /\ Len(q) \in Nat
      /\ \A i \in 1..Len(q) : Append(q, x)[i] = q[i]
      /\ Append(q, x)[Len(q) + 1] = x
  BY <1>1, AppendProperties, LenProperties
<1>3. ASSUME NEW p \in Levels, NEW n \in DOMAIN bucket'[p]
      PROVE  Level[bucket'[p][n]] = p
  <2>1. CASE p # Level[x]
    BY <1>1, <2>1 DEF BucketsHoldOwn
  <2>2. CASE p = Level[x] /\ n = Len(q) + 1
    BY <1>1, <1>2, <2>2
  <2>3. CASE p = Level[x] /\ n # Len(q) + 1
    <3>1. n \in DOMAIN q /\ bucket'[p][n] = q[n]
      BY <1>1, <1>2, <2>3
    <3> QED  BY <2>3, <3>1 DEF BucketsHoldOwn
  <2> QED  BY <2>1, <2>2, <2>3
<1>4. None(q, x) => Once(Append(q, x), x)
  BY <1>1, AppendLine
<1>5. ASSUME NEW t \in Targets \ {x}
      PROVE  Stays(bucket[Level[t]], bucket'[Level[t]], t)
  <2>1. Stays(q, Append(q, x), t)
    BY <1>1, AppendLine DEF Stays
  <2>2. CASE Level[t] = Level[x]
    BY <1>1, <2>1, <2>2
  <2>3. CASE Level[t] # Level[x]
    BY <1>1, <2>3, SameStays
  <2> QED  BY <2>2, <2>3
<1> QED  BY <1>1, <1>3, <1>4, <1>5 DEF BucketsHoldOwn

LEMMA BucketTail ==
    ASSUME Typed, BucketsHoldOwn, NEW p \in Levels, bucket[p] # <<>>,
           bucket' = [bucket EXCEPT ![p] = Tail(@)]
    PROVE  LET x == Head(bucket[p])
           IN  /\ x \in Targets /\ Level[x] = p
               /\ BucketsHoldOwn'
               /\ ~None(bucket[p], x)
               /\ Once(bucket[p], x) => None(bucket'[p], x)
               /\ \A t \in Targets \ {x} : Stays(bucket[Level[t]], bucket'[Level[t]], t)
<1> DEFINE q == bucket[p]
           x == Head(q)
<1>1. /\ q \in Seq(Targets) /\ q # <<>> /\ bucket'[p] = Tail(q)
      /\ \A r \in Levels \ {p} : bucket'[r] = bucket[r]
      /\ \A t \in Targets : Level[t] \in Levels
  BY LinesTyped
<1>2. /\ Len(Tail(q)) = Len(q) - 1 /\ Len(q) \in Nat \ {0} /\ x \in Targets
      /\ DOMAIN q = 1..Len(q) /\ DOMAIN Tail(q) = 1..Len(q) - 1
      /\ \A i \in 1..Len(q) - 1 : Tail(q)[i] = q[i + 1]
      /\ x = q[1]
  BY <1>1, HeadTailOfTargets, HeadTailProperties, LenProperties
<1>3. Level[x] = p
  BY <1>2 DEF BucketsHoldOwn
<1>4. ASSUME NEW r \in Levels, NEW n \in DOMAIN bucket'[r]
      PROVE  Level[bucket'[r][n]] = r
  <2>1. CASE r # p
    BY <1>1, <2>1 DEF BucketsHoldOwn
  <2>2. CASE r = p
    <3>1. bucket'[r] = Tail(q)
      BY <1>1, <2>2
    <3>2. n \in 1..Len(q) - 1
      BY <1>2, <3>1
    <3>3. Len(q) \in Nat /\ n \in Int
      BY <1>2, <3>2
    <3>4. n + 1 \in 1..Len(q)
      BY <3>2, <3>3
    <3>5. Tail(q)[n] = q[n + 1]
      BY <1>2, <3>2
    <3> QED  BY <1>2, <2>2, <3>1, <3>4, <3>5 DEF BucketsHoldOwn
  <2> QED  BY <2>1, <2>2
<1>5. ~None(q, x) /\ (Once(q, x) => None(Tail(q), x))
  BY <1>1, TailLine
<1>6. ASSUME NEW t \in Targets \ {x}
      PROVE  Stays(bucket[Level[t]], bucket'[Level[t]], t)
  <2>1. Stays(q, Tail(q), t)
    BY <1>1, TailLine DEF Stays
  <2>2. CASE Level[t] = p
    BY <1>1, <2>1, <2>2
  <2>3. CASE Level[t] # p
    BY <1>1, <2>3, SameStays
  <2> QED  BY <2>2, <2>3
<1> QED  BY <1>1, <1>2, <1>3, <1>4, <1>5, <1>6 DEF BucketsHoldOwn

\* A slot's queue after an append or a pull.
LEMMA QueueAppend ==
    ASSUME Typed, NEW x \in Targets,
           queue' = [queue EXCEPT ![Slot[x]] = Append(@, x)]
    PROVE  /\ None(queue[Slot[x]], x) => Once(queue'[Slot[x]], x)
           /\ \A t \in Targets \ {x} : Stays(queue[Slot[t]], queue'[Slot[t]], t)
<1> DEFINE q == queue[Slot[x]]
<1>1. /\ q \in Seq(Targets) /\ queue'[Slot[x]] = Append(q, x)
      /\ \A s \in Slots \ {Slot[x]} : queue'[s] = queue[s]
      /\ \A t \in Targets : Slot[t] \in Slots
  BY LinesTyped
<1>2. None(q, x) => Once(Append(q, x), x)
  BY <1>1, AppendLine
<1>3. ASSUME NEW t \in Targets \ {x}
      PROVE  Stays(queue[Slot[t]], queue'[Slot[t]], t)
  <2>1. Stays(q, Append(q, x), t)
    BY <1>1, AppendLine DEF Stays
  <2>2. CASE Slot[t] = Slot[x]
    BY <1>1, <2>1, <2>2
  <2>3. CASE Slot[t] # Slot[x]
    BY <1>1, <2>3, SameStays
  <2> QED  BY <2>2, <2>3
<1> QED  BY <1>1, <1>2, <1>3

LEMMA QueueTail ==
    ASSUME Typed, Placed, NEW s \in Slots, queue[s] # <<>>,
           queue' = [queue EXCEPT ![s] = Tail(@)]
    PROVE  LET x == Head(queue[s])
           IN  /\ x \in Targets /\ Slot[x] = s
               /\ ~None(queue[s], x)
               /\ Once(queue[s], x) => None(queue'[s], x)
               /\ \A t \in Targets \ {x} : Stays(queue[Slot[t]], queue'[Slot[t]], t)
<1> DEFINE q == queue[s]
           x == Head(q)
<1>1. /\ q \in Seq(Targets) /\ q # <<>> /\ queue'[s] = Tail(q)
      /\ \A r \in Slots \ {s} : queue'[r] = queue[r]
      /\ \A t \in Targets : Slot[t] \in Slots
  BY LinesTyped
<1>2. x \in Targets /\ Slot[x] = s
  BY <1>1, HeadTailOfTargets, PullOwn
<1>3. ~None(q, x) /\ (Once(q, x) => None(Tail(q), x))
  BY <1>1, TailLine
<1>4. ASSUME NEW t \in Targets \ {x}
      PROVE  Stays(queue[Slot[t]], queue'[Slot[t]], t)
  <2>1. Stays(q, Tail(q), t)
    BY <1>1, TailLine DEF Stays
  <2>2. CASE Slot[t] = s
    BY <1>1, <2>1, <2>2
  <2>3. CASE Slot[t] # s
    BY <1>1, <2>3, SameStays
  <2> QED  BY <2>2, <2>3
<1> QED  BY <1>1, <1>2, <1>3, <1>4

LEMMA KeptEnqueue ==
    ASSUME Typed, Kept, NEW x \in Targets, Enqueue(x)
    PROVE  Kept'
<1>1. /\ bucket' = [bucket EXCEPT ![Level[x]] = Append(@, x)]
      /\ fate[x] = "unseen" /\ fate' = [fate EXCEPT ![x] = "live"]
      /\ UNCHANGED <<queue, backoff, hand>>
  BY DEF Enqueue, workerVars
<1>2. /\ BucketsHoldOwn'
      /\ None(bucket[Level[x]], x) => Once(bucket'[Level[x]], x)
      /\ \A t \in Targets \ {x} : Stays(bucket[Level[t]], bucket'[Level[t]], t)
  BY <1>1, BucketAppend DEF Kept
<1>3. Waiting' = Waiting
  BY <1>1 DEF Waiting
<1>4. ASSUME NEW t \in Targets
      PROVE  OnceBetween(fate'[t] = "live", bucket'[Level[t]], queue'[Slot[t]],
                         Waiting', hand', t)
  <2>1. CASE t = x
    <3>1. /\ None(bucket[Level[x]], x) /\ None(queue[Slot[x]], x)
          /\ None(Waiting, x) /\ None(hand, x)
      BY <1>1 DEF Kept, KeptOnce, OnceBetween
    <3>2. fate'[x] = "live"
      BY <1>1, LinesTyped
    <3> QED  BY <1>1, <1>2, <1>3, <2>1, <3>1, <3>2 DEF OnceBetween
  <2>2. CASE t # x
    <3>1. fate'[t] = fate[t]
      BY <1>1, <2>2, LinesTyped
    <3>2. /\ Stays(bucket[Level[t]], bucket'[Level[t]], t)
          /\ Stays(queue[Slot[t]], queue'[Slot[t]], t)
          /\ Stays(Waiting, Waiting', t) /\ Stays(hand, hand', t)
      BY <1>1, <1>2, <1>3, <2>2, SameStays
    <3> QED  BY <3>1, <3>2, KeptStill DEF Kept
  <2> QED  BY <2>1, <2>2
<1> QED  BY <1>2, <1>4 DEF Kept, KeptOnce

\* The bucket the feeder drains.
LEMMA PopFrontLine ==
    ASSUME Typed, Kept, PopFront
    PROVE  LET x == Head(bucket[level])
           IN  /\ x \in Targets /\ Level[x] = level
               /\ BucketsHoldOwn'
               /\ ~None(bucket[level], x)
               /\ Once(bucket[level], x) => None(bucket'[level], x)
               /\ \A t \in Targets \ {x} : Stays(bucket[Level[t]], bucket'[Level[t]], t)
<1>1. /\ level \in Levels /\ bucket[level] # <<>>
      /\ bucket' = [bucket EXCEPT ![level] = Tail(@)]
  BY DEF Typed, TypeOK, DrainHasWork, PopFront
<1> QED  BY <1>1, BucketTail DEF Kept

LEMMA KeptPlace ==
    ASSUME Typed, Kept, FeederPlace
    PROVE  Kept'
<1>1. PopFront
  BY DEF FeederPlace
<1>2. PICK x \in Targets :
          /\ Level[x] = level /\ x = Head(bucket[level])
          /\ BucketsHoldOwn'
          /\ ~None(bucket[level], x)
          /\ Once(bucket[level], x) => None(bucket'[level], x)
          /\ \A t \in Targets \ {x} : Stays(bucket[Level[t]], bucket'[Level[t]], t)
  BY <1>1, PopFrontLine
<1>3. /\ queue' = [queue EXCEPT ![Slot[x]] = Append(@, x)]
      /\ UNCHANGED <<backoff, hand, fate>>
  BY <1>2 DEF FeederPlace, workerVars
<1>4. /\ None(queue[Slot[x]], x) => Once(queue'[Slot[x]], x)
      /\ \A t \in Targets \ {x} : Stays(queue[Slot[t]], queue'[Slot[t]], t)
  BY <1>3, QueueAppend
<1>5. Waiting' = Waiting
  BY <1>3 DEF Waiting
<1>6. ASSUME NEW t \in Targets
      PROVE  OnceBetween(fate'[t] = "live", bucket'[Level[t]], queue'[Slot[t]],
                         Waiting', hand', t)
  <2>1. CASE t = x
    <3>1. /\ fate[x] = "live" /\ Once(bucket[Level[x]], x) /\ None(queue[Slot[x]], x)
          /\ None(Waiting, x) /\ None(hand, x)
      BY <1>2, OnceExcludesNone DEF Kept, KeptOnce, OnceBetween
    <3> QED  BY <1>2, <1>3, <1>4, <1>5, <2>1, <3>1 DEF OnceBetween
  <2>2. CASE t # x
    <3>1. /\ Stays(bucket[Level[t]], bucket'[Level[t]], t)
          /\ Stays(queue[Slot[t]], queue'[Slot[t]], t)
          /\ Stays(Waiting, Waiting', t) /\ Stays(hand, hand', t)
      BY <1>2, <1>3, <1>4, <1>5, <2>2, SameStays
    <3> QED  BY <1>3, <3>1, KeptStill DEF Kept
  <2> QED  BY <2>1, <2>2
<1> QED  BY <1>2, <1>6 DEF Kept, KeptOnce

LEMMA KeptDefer ==
    ASSUME Typed, Kept, FeederDefer
    PROVE  Kept'
<1>1. PopFront
  BY DEF FeederDefer
<1>2. PICK x \in Targets :
          /\ Level[x] = level /\ x = Head(bucket[level])
          /\ BucketsHoldOwn'
          /\ ~None(bucket[level], x)
          /\ Once(bucket[level], x) => None(bucket'[level], x)
          /\ \A t \in Targets \ {x} : Stays(bucket[Level[t]], bucket'[Level[t]], t)
  BY <1>1, PopFrontLine
<1>3. /\ backoff' = Append(backoff, [target |-> x, age |-> 0])
      /\ UNCHANGED <<queue, hand, fate>>
  BY <1>2 DEF FeederDefer, workerVars
<1>4. [target |-> x, age |-> 0] \in Entries
  BY SizesAssumption DEF Entries, MaxAge
<1>5. Waiting' = Append(Waiting, x)
  BY <1>3, <1>4, LinesTyped, TargetsFollow DEF Waiting
<1>6. /\ None(Waiting, x) => Once(Waiting', x)
      /\ \A t \in Targets \ {x} : Stays(Waiting, Waiting', t)
  BY <1>5, LinesTyped, AppendLine DEF Stays
<1>7. ASSUME NEW t \in Targets
      PROVE  OnceBetween(fate'[t] = "live", bucket'[Level[t]], queue'[Slot[t]],
                         Waiting', hand', t)
  <2>1. CASE t = x
    <3>1. /\ fate[x] = "live" /\ Once(bucket[Level[x]], x) /\ None(queue[Slot[x]], x)
          /\ None(Waiting, x) /\ None(hand, x)
      BY <1>2, OnceExcludesNone DEF Kept, KeptOnce, OnceBetween
    <3> QED  BY <1>2, <1>3, <1>6, <2>1, <3>1 DEF OnceBetween
  <2>2. CASE t # x
    <3>1. /\ Stays(bucket[Level[t]], bucket'[Level[t]], t)
          /\ Stays(queue[Slot[t]], queue'[Slot[t]], t)
          /\ Stays(Waiting, Waiting', t) /\ Stays(hand, hand', t)
      BY <1>2, <1>3, <1>6, <2>2, SameStays
    <3> QED  BY <1>3, <3>1, KeptStill DEF Kept
  <2> QED  BY <2>1, <2>2
<1> QED  BY <1>2, <1>7 DEF Kept, KeptOnce

LEMMA KeptRetry ==
    ASSUME Typed, Kept, FeederRetry
    PROVE  Kept'
<1>1. /\ backoff \in Seq(Entries) /\ backoff # <<>>
      /\ Waiting \in Seq(Targets) /\ nowAge \in 0..MaxAge
  <2>1. nowAge \in 0..MaxStall /\ backoff # <<>>
    BY DEF FeederRetry, Typed, TypeOK
  <2>2. nowAge \in 0..MaxAge
    BY <2>1, SizesAssumption DEF MaxAge
  <2> QED  BY <2>1, <2>2, LinesTyped
<1>2. PICK x \in Targets : x = Head(backoff).target
  BY <1>1, HeadTailOfEntries
<1>3. /\ UNCHANGED <<bucket, hand, fate>>
      /\ \/ /\ queue' = [queue EXCEPT ![Slot[x]] = Append(@, x)]
            /\ backoff' = Tail(backoff)
         \/ /\ backoff' = Append(Tail(backoff), [target |-> x, age |-> nowAge])
            /\ UNCHANGED queue
  BY <1>2 DEF FeederRetry, workerVars
<1>4. /\ Waiting # <<>> /\ Head(Waiting) = x
      /\ TargetsOf(Tail(backoff)) = Tail(Waiting)
      /\ Tail(backoff) \in Seq(Entries) /\ Tail(Waiting) \in Seq(Targets)
  BY <1>1, <1>2, TargetsFollow, HeadTailOfEntries, HeadTailOfTargets DEF Waiting
<1>5. /\ ~None(Waiting, x) /\ (Once(Waiting, x) => None(Tail(Waiting), x))
      /\ \A t \in Targets \ {x} : Stays(Waiting, Tail(Waiting), t)
  BY <1>1, <1>4, TailLine DEF Stays
<1>6. /\ fate[x] = "live" /\ None(bucket[Level[x]], x) /\ None(queue[Slot[x]], x)
      /\ Once(Waiting, x) /\ None(hand, x)
  BY <1>5, OnceExcludesNone DEF Kept, KeptOnce, OnceBetween
<1>7. BucketsHoldOwn'
  BY <1>3 DEF Kept, BucketsHoldOwn
<1>8. CASE /\ queue' = [queue EXCEPT ![Slot[x]] = Append(@, x)]
           /\ backoff' = Tail(backoff)
  <2>1. Waiting' = Tail(Waiting)
    BY <1>4, <1>8 DEF Waiting
  <2>2. /\ Once(queue'[Slot[x]], x)
        /\ \A t \in Targets \ {x} : Stays(queue[Slot[t]], queue'[Slot[t]], t)
    BY <1>6, <1>8, QueueAppend
  <2>3. ASSUME NEW t \in Targets
        PROVE  OnceBetween(fate'[t] = "live", bucket'[Level[t]], queue'[Slot[t]],
                           Waiting', hand', t)
    <3>1. CASE t = x
      BY <1>3, <1>5, <1>6, <2>1, <2>2, <3>1 DEF OnceBetween
    <3>2. CASE t # x
      <4>1. /\ Stays(bucket[Level[t]], bucket'[Level[t]], t)
            /\ Stays(queue[Slot[t]], queue'[Slot[t]], t)
            /\ Stays(Waiting, Waiting', t) /\ Stays(hand, hand', t)
        BY <1>3, <1>5, <2>1, <2>2, <3>2, SameStays
      <4> QED  BY <1>3, <4>1, KeptStill DEF Kept
    <3> QED  BY <3>1, <3>2
  <2> QED  BY <1>7, <2>3 DEF Kept, KeptOnce
<1>9. CASE /\ backoff' = Append(Tail(backoff), [target |-> x, age |-> nowAge])
           /\ UNCHANGED queue
  <2>1. [target |-> x, age |-> nowAge] \in Entries
    BY <1>1 DEF Entries
  <2>2. Waiting' = Append(Tail(Waiting), x)
    BY <1>4, <1>9, <2>1, TargetsFollow DEF Waiting
  <2>3. /\ None(Tail(Waiting), x) => Once(Waiting', x)
        /\ \A t \in Targets \ {x} : Stays(Tail(Waiting), Waiting', t)
    BY <1>4, <2>2, AppendLine DEF Stays
  <2>4. ASSUME NEW t \in Targets
        PROVE  OnceBetween(fate'[t] = "live", bucket'[Level[t]], queue'[Slot[t]],
                           Waiting', hand', t)
    <3>1. CASE t = x
      BY <1>3, <1>5, <1>6, <1>9, <2>3, <3>1 DEF OnceBetween
    <3>2. CASE t # x
      <4>1. Stays(Waiting, Waiting', t)
        BY <1>5, <2>3, <3>2 DEF Stays
      <4>2. /\ Stays(bucket[Level[t]], bucket'[Level[t]], t)
            /\ Stays(queue[Slot[t]], queue'[Slot[t]], t) /\ Stays(hand, hand', t)
        BY <1>3, <1>9, SameStays
      <4> QED  BY <1>3, <4>1, <4>2, KeptStill DEF Kept
    <3> QED  BY <3>1, <3>2
  <2> QED  BY <1>7, <2>4 DEF Kept, KeptOnce
<1> QED  BY <1>3, <1>8, <1>9

LEMMA KeptPull ==
    ASSUME Typed, Placed, Kept, NEW w \in Workers, WorkerPull(w)
    PROVE  Kept'
<1>1. at[w] \in Slots /\ queue[at[w]] # <<>> /\ hand[w] = NoTarget
  BY StandsAtSlot DEF Typed, BusyOrScanning, WorkerPull, Scanning
<1>2. queue' = [queue EXCEPT ![at[w]] = Tail(@)]
  BY DEF WorkerPull
<1>3. PICK x \in Targets :
          /\ x = Head(queue[at[w]]) /\ Slot[x] = at[w]
          /\ ~None(queue[at[w]], x)
          /\ Once(queue[at[w]], x) => None(queue'[at[w]], x)
          /\ \A t \in Targets \ {x} : Stays(queue[Slot[t]], queue'[Slot[t]], t)
  BY <1>1, <1>2, QueueTail
<1>4. /\ hand' = [hand EXCEPT ![w] = x]
      /\ UNCHANGED <<bucket, backoff, fate>>
  BY <1>3 DEF WorkerPull
<1>5. Waiting' = Waiting /\ BucketsHoldOwn'
  BY <1>4 DEF Waiting, Kept, BucketsHoldOwn
<1>6. /\ DOMAIN hand = Workers /\ DOMAIN hand' = Workers /\ hand'[w] = x
      /\ \A v \in Workers \ {w} : hand'[v] = hand[v]
  BY <1>4, LinesTyped
<1>7. None(hand, x) => Once(hand', x)
  BY <1>6 DEF None, Once
<1>8. ASSUME NEW t \in Targets \ {x} PROVE Stays(hand, hand', t)
  BY <1>1, <1>6, TargetsAssumption DEF None, Once, Stays
<1>9. ASSUME NEW t \in Targets
      PROVE  OnceBetween(fate'[t] = "live", bucket'[Level[t]], queue'[Slot[t]],
                         Waiting', hand', t)
  <2>1. CASE t = x
    <3>1. /\ fate[x] = "live" /\ None(bucket[Level[x]], x) /\ Once(queue[Slot[x]], x)
          /\ None(Waiting, x) /\ None(hand, x)
      BY <1>3, OnceExcludesNone DEF Kept, KeptOnce, OnceBetween
    <3> QED  BY <1>3, <1>4, <1>5, <1>7, <2>1, <3>1 DEF OnceBetween
  <2>2. CASE t # x
    <3>1. /\ Stays(bucket[Level[t]], bucket'[Level[t]], t)
          /\ Stays(queue[Slot[t]], queue'[Slot[t]], t)
          /\ Stays(Waiting, Waiting', t) /\ Stays(hand, hand', t)
      BY <1>3, <1>4, <1>5, <1>8, <2>2, SameStays
    <3> QED  BY <1>4, <3>1, KeptStill DEF Kept
  <2> QED  BY <2>1, <2>2
<1> QED  BY <1>5, <1>9 DEF Kept, KeptOnce

LEMMA KeptFinish ==
    ASSUME Typed, Kept, NEW w \in Workers, wpc[w] # "scan",
           NEW outcome \in Outcomes, Finish(w, outcome),
           UNCHANGED <<bucket, queue, backoff>>
    PROVE  Kept'
<1>1. PICK x \in Targets : x = hand[w]
  BY DEF Typed, BusyOrScanning
<1>2. /\ fate' = [fate EXCEPT ![x] = outcome]
      /\ hand' = [hand EXCEPT ![w] = NoTarget]
  BY <1>1 DEF Finish
<1>3. Waiting' = Waiting /\ BucketsHoldOwn'
  BY DEF Waiting, Kept, BucketsHoldOwn
<1>4. /\ DOMAIN hand = Workers /\ DOMAIN hand' = Workers /\ hand'[w] = NoTarget
      /\ \A v \in Workers \ {w} : hand'[v] = hand[v]
  BY <1>2, LinesTyped
<1>5. ~None(hand, x) /\ (Once(hand, x) => None(hand', x))
  BY <1>1, <1>4, TargetsAssumption DEF None, Once
<1>6. ASSUME NEW t \in Targets \ {x} PROVE Stays(hand, hand', t)
  BY <1>1, <1>4, TargetsAssumption DEF None, Once, Stays
<1>7. fate'[x] # "live" /\ \A t \in Targets \ {x} : fate'[t] = fate[t]
  BY <1>2, LinesTyped DEF Outcomes
<1>8. ASSUME NEW t \in Targets
      PROVE  OnceBetween(fate'[t] = "live", bucket'[Level[t]], queue'[Slot[t]],
                         Waiting', hand', t)
  <2>1. CASE t = x
    <3>1. /\ None(bucket[Level[x]], x) /\ None(queue[Slot[x]], x)
          /\ None(Waiting, x) /\ Once(hand, x)
      BY <1>5, OnceExcludesNone DEF Kept, KeptOnce, OnceBetween
    <3> QED  BY <1>3, <1>5, <1>7, <2>1, <3>1 DEF OnceBetween
  <2>2. CASE t # x
    <3>1. /\ Stays(bucket[Level[t]], bucket'[Level[t]], t)
          /\ Stays(queue[Slot[t]], queue'[Slot[t]], t)
          /\ Stays(Waiting, Waiting', t) /\ Stays(hand, hand', t)
      BY <1>3, <1>6, <2>2, SameStays
    <3> QED  BY <1>7, <2>2, <3>1, KeptStill DEF Kept
  <2> QED  BY <2>1, <2>2
<1> QED  BY <1>3, <1>8 DEF Kept, KeptOnce

LEMMA KeptTick ==
    ASSUME Typed, Kept, Tick
    PROVE  Kept'
<1>1. /\ UNCHANGED <<bucket, queue, hand, fate>>
      /\ DOMAIN backoff' = DOMAIN backoff
      /\ \A i \in DOMAIN backoff :
            backoff'[i] = [backoff[i] EXCEPT !.age = Min2(@ + 1, MaxAge)]
  BY DEF Tick
<1>2. \A i \in DOMAIN backoff : backoff[i] \in Entries
  BY LinesTyped, ElementOfSeq, LenProperties
<1>3. \A i \in DOMAIN backoff : backoff'[i].target = backoff[i].target
  BY <1>1, <1>2 DEF Entries
<1>4. Waiting' = Waiting
  BY <1>1, <1>3 DEF Waiting, TargetsOf
<1> QED  BY <1>1, <1>4 DEF Kept, KeptOnce, BucketsHoldOwn

LEMMA KeptInit == Init => Kept
<1> SUFFICES ASSUME Init PROVE Kept
  OBVIOUS
<1>1. \A t \in Targets : Level[t] \in Levels /\ Slot[t] \in Slots /\ t # NoTarget
  BY TargetsAssumption
<1>2. ASSUME NEW t \in Targets
      PROVE  /\ fate[t] # "live" /\ bucket[Level[t]] = <<>> /\ queue[Slot[t]] = <<>>
             /\ DOMAIN Waiting = {} /\ None(hand, t)
  BY <1>1 DEF Init, Waiting, TargetsOf, None
<1>3. DOMAIN <<>> = {}
  OBVIOUS
<1>4. KeptOnce
  BY <1>2, <1>3 DEF KeptOnce, OnceBetween, None
<1>5. BucketsHoldOwn
  BY <1>3 DEF Init, BucketsHoldOwn
<1> QED  BY <1>4, <1>5 DEF Kept

LEMMA KeptNext == Typed /\ Placed /\ Kept /\ [Next]_vars => Kept'
<1> SUFFICES ASSUME Typed, Placed, Kept, [Next]_vars PROVE Kept'
  OBVIOUS
<1> USE DEF feederVars, workerVars, observers
<1>1. ASSUME UNCHANGED <<bucket, queue, backoff, hand, fate>> PROVE Kept'
  BY <1>1 DEF Kept, KeptOnce, BucketsHoldOwn, Waiting
<1>2. ASSUME NEW t \in Targets, Enqueue(t) PROVE Kept'
  BY <1>2, KeptEnqueue
<1>3. CASE FeederPlace
  BY <1>3, KeptPlace
<1>4. CASE FeederDefer
  BY <1>4, KeptDefer
<1>5. CASE FeederRetry
  BY <1>5, KeptRetry
<1>6. CASE FeederSkipEmpty \/ FeederChoose \/ FeederReadClock \/ FeederRest
  BY <1>1, <1>6 DEF FeederSkipEmpty, FeederChoose, FeederReadClock, FeederRest
<1>7. ASSUME NEW w \in Workers, WorkerPull(w) PROVE Kept'
  BY <1>7, KeptPull
<1>8. ASSUME NEW w \in Workers, WorkerReject(w) \/ WorkerAnswer(w) PROVE Kept'
  <2>1. /\ wpc[w] # "scan" /\ UNCHANGED <<bucket, queue, backoff>>
        /\ \E outcome \in Outcomes : Finish(w, outcome)
    BY <1>8 DEF WorkerReject, WorkerAnswer, Outcomes
  <2> QED  BY <2>1, KeptFinish
<1>9. ASSUME NEW w \in Workers,
             \/ WorkerSkip(w) \/ WorkerTooSoon(w) \/ WorkerAllow(w)
             \/ WorkerGet(w) \/ WorkerFollow(w) \/ WorkerRescan(w)
      PROVE  Kept'
  BY <1>1, <1>9 DEF WorkerSkip, WorkerTooSoon, WorkerAllow, WorkerGet, WorkerFollow, WorkerRescan
<1>10. CASE Tick
  BY <1>10, KeptTick
<1>11. CASE UNCHANGED vars
  BY <1>1, <1>11 DEF vars
<1> QED  BY <1>2, <1>3, <1>4, <1>5, <1>6, <1>7, <1>8, <1>9, <1>10, <1>11
         DEF Next, Feeder, Worker

\* Where a copy of a target can be.
LEMMA CopyCases ==
    ASSUME Typed, Placed, Kept, NEW t \in Targets, NEW c
    PROVE  c \in Copies(t) <=>
               \/ \E n \in DOMAIN bucket[Level[t]] :
                      bucket[Level[t]][n] = t /\ c = <<"bucket", Level[t], n>>
               \/ \E n \in DOMAIN queue[Slot[t]] :
                      queue[Slot[t]][n] = t /\ c = <<"queue", Slot[t], n>>
               \/ \E n \in DOMAIN Waiting : Waiting[n] = t /\ c = <<"backoff", 0, n>>
               \/ \E n \in DOMAIN hand : hand[n] = t /\ c = <<"hand", 0, n>>
<1>1. \A p \in Levels : \A n \in DOMAIN bucket[p] : bucket[p][n] = t => p = Level[t]
  BY DEF Kept, BucketsHoldOwn
<1>2. \A s \in Slots : \A n \in DOMAIN queue[s] : queue[s][n] = t => s = Slot[t]
  BY DEF Placed, QueuesHoldOwn
<1>3. Level[t] \in Levels /\ Slot[t] \in Slots
  BY LinesTyped
<1>4. DOMAIN Waiting = DOMAIN backoff /\ \A n \in DOMAIN backoff : Waiting[n] = backoff[n].target
  BY DEF Waiting, TargetsOf
<1>5. c \in Copies(t) <=>
          \/ \E p \in Levels : c \in {<<"bucket", p, n>> : n \in {n \in DOMAIN bucket[p] : bucket[p][n] = t}}
          \/ \E s \in Slots : c \in {<<"queue", s, n>> : n \in {n \in DOMAIN queue[s] : queue[s][n] = t}}
          \/ c \in {<<"backoff", 0, n>> : n \in {n \in DOMAIN Waiting : Waiting[n] = t}}
          \/ c \in {<<"hand", 0, n>> : n \in {n \in DOMAIN hand : hand[n] = t}}
  BY DEF Copies, Waiting, TargetsOf
<1>6. (\E p \in Levels : c \in {<<"bucket", p, n>> : n \in {n \in DOMAIN bucket[p] : bucket[p][n] = t}})
      <=> \E n \in DOMAIN bucket[Level[t]] :
              bucket[Level[t]][n] = t /\ c = <<"bucket", Level[t], n>>
  BY <1>1, <1>3
<1>7. (\E s \in Slots : c \in {<<"queue", s, n>> : n \in {n \in DOMAIN queue[s] : queue[s][n] = t}})
      <=> \E n \in DOMAIN queue[Slot[t]] :
              queue[Slot[t]][n] = t /\ c = <<"queue", Slot[t], n>>
  BY <1>2, <1>3
<1> QED  BY <1>5, <1>6, <1>7

\* The whole frontier: a target that was handed to it and is not finished is in
\* exactly one bucket, slot, backoff entry or hand; any other target is in none.
THEOREM NothingLostOrDoubled == Spec => []Conservation
<1>1. ASSUME Typed, Placed, Kept PROVE Conservation
  <2> SUFFICES ASSUME NEW t \in Targets
               PROVE  Cardinality(Copies(t)) = IF fate[t] = "live" THEN 1 ELSE 0
    BY DEF Conservation
  <2> DEFINE b == bucket[Level[t]]
             q == queue[Slot[t]]
  <2>1. OnceBetween(fate[t] = "live", b, q, Waiting, hand, t)
    BY <1>1 DEF Kept, KeptOnce
  <2>2. \A c : c \in Copies(t) <=>
               \/ \E n \in DOMAIN b : b[n] = t /\ c = <<"bucket", Level[t], n>>
               \/ \E n \in DOMAIN q : q[n] = t /\ c = <<"queue", Slot[t], n>>
               \/ \E n \in DOMAIN Waiting : Waiting[n] = t /\ c = <<"backoff", 0, n>>
               \/ \E n \in DOMAIN hand : hand[n] = t /\ c = <<"hand", 0, n>>
    BY <1>1, CopyCases
  <2> HIDE DEF b, q
  <2>3. CASE fate[t] # "live"
    <3>1. Copies(t) = {}
      BY <2>1, <2>2, <2>3 DEF OnceBetween, None
    <3> QED  BY <2>3, <3>1, FS_EmptySet
  <2>4. CASE fate[t] = "live"
    <3>1. \E c : Copies(t) = {c}
      <4>1. CASE Once(b, t) /\ None(q, t) /\ None(Waiting, t) /\ None(hand, t)
        <5>1. PICK n \in DOMAIN b : b[n] = t /\ \A m \in DOMAIN b : b[m] = t => m = n
          BY <4>1 DEF Once
        <5>2. \A c : c \in Copies(t) <=> c = <<"bucket", Level[t], n>>
          BY <2>2, <4>1, <5>1 DEF None
        <5>3. Copies(t) = {<<"bucket", Level[t], n>>}
          BY <5>2
        <5> QED  BY <5>3
      <4>2. CASE None(b, t) /\ Once(q, t) /\ None(Waiting, t) /\ None(hand, t)
        <5>1. PICK n \in DOMAIN q : q[n] = t /\ \A m \in DOMAIN q : q[m] = t => m = n
          BY <4>2 DEF Once
        <5>2. \A c : c \in Copies(t) <=> c = <<"queue", Slot[t], n>>
          BY <2>2, <4>2, <5>1 DEF None
        <5>3. Copies(t) = {<<"queue", Slot[t], n>>}
          BY <5>2
        <5> QED  BY <5>3
      <4>3. CASE None(b, t) /\ None(q, t) /\ Once(Waiting, t) /\ None(hand, t)
        <5>1. PICK n \in DOMAIN Waiting : Waiting[n] = t /\ \A m \in DOMAIN Waiting : Waiting[m] = t => m = n
          BY <4>3 DEF Once
        <5>2. \A c : c \in Copies(t) <=> c = <<"backoff", 0, n>>
          BY <2>2, <4>3, <5>1 DEF None
        <5>3. Copies(t) = {<<"backoff", 0, n>>}
          BY <5>2
        <5> QED  BY <5>3
      <4>4. CASE None(b, t) /\ None(q, t) /\ None(Waiting, t) /\ Once(hand, t)
        <5>1. PICK n \in DOMAIN hand : hand[n] = t /\ \A m \in DOMAIN hand : hand[m] = t => m = n
          BY <4>4 DEF Once
        <5>2. \A c : c \in Copies(t) <=> c = <<"hand", 0, n>>
          BY <2>2, <4>4, <5>1 DEF None
        <5>3. Copies(t) = {<<"hand", 0, n>>}
          BY <5>2
        <5> QED  BY <5>3
      <4> QED  BY <2>1, <2>4, <4>1, <4>2, <4>3, <4>4 DEF OnceBetween
    <3> QED  BY <2>4, <3>1, FS_Singleton
  <2> QED  BY <2>3, <2>4
<1>2. Spec => []Kept
  BY KeptInit, KeptNext, AlwaysTyped, AlwaysPlaced, PTL DEF Spec
<1> QED  BY <1>1, <1>2, AlwaysTyped, AlwaysPlaced, PTL
=============================================================================
