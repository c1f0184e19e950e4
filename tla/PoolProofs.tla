------------------------------ MODULE PoolProofs ------------------------------
(***************************************************************************)
(* Proofs about the joinable thread pool and handle_query, for any finite  *)
(* sets of callers and workers and any numbers of chunks and queries.      *)
(*                                                                         *)
(* No single property is inductive, so the argument is layered:            *)
(*   Shape             types, and what the program counters say            *)
(*   GroupsCountTasks  each wait group's count is exact                    *)
(*   Fresh             a query id has one owner, then none                 *)
(*   Kept              no submitted chunk is lost (Accounted)              *)
(* ReturnedIsComplete and NoLostWakeUp are inductive relative to these.    *)
(***************************************************************************)
EXTENDS WaitGroupPool, SequenceTheorems, FunctionTheorems, FiniteSetTheorems, TLAPS

(* Counting the tasks of a query in a queue.                               *)
Idx(q, id) == {i \in DOMAIN q : q[i].id = id}

One(b) == IF b THEN 1 ELSE 0

LEMMA IdxFinite ==
    ASSUME NEW q \in Seq(Task), NEW id
    PROVE  /\ IsFiniteSet(Idx(q, id))
           /\ Cardinality(Idx(q, id)) \in Nat
<1>1. Len(q) \in Nat /\ DOMAIN q = 1..Len(q)
  OBVIOUS
<1>2. IsFiniteSet(1..Len(q))
  BY <1>1, FS_Interval
<1>3. Idx(q, id) \in SUBSET (1..Len(q))
  BY <1>1 DEF Idx
<1>4. IsFiniteSet(Idx(q, id))
  BY <1>2, <1>3, FS_Subset
<1> QED  BY <1>4, FS_CardinalityType

LEMMA IdxAppend ==
    ASSUME NEW q \in Seq(Task), NEW e \in Task, NEW id
    PROVE  Cardinality(Idx(Append(q, e), id)) = Cardinality(Idx(q, id)) + One(e.id = id)
<1> DEFINE n == Len(q) + 1
<1>1. /\ Len(q) \in Nat /\ DOMAIN q = 1..Len(q) /\ DOMAIN Append(q, e) = 1..n
      /\ Append(q, e)[n] = e
      /\ \A i \in 1..Len(q) : Append(q, e)[i] = q[i]
  OBVIOUS
<1>2. n \notin Idx(q, id)
  BY <1>1 DEF Idx
<1>3. CASE e.id = id
  <2>1. Idx(Append(q, e), id) = Idx(q, id) \cup {n}
    BY <1>1, <1>3 DEF Idx
  <2>2. Cardinality(Idx(q, id) \cup {n}) = Cardinality(Idx(q, id)) + 1
    BY <1>2, IdxFinite, FS_AddElement
  <2> QED  BY <1>3, <2>1, <2>2 DEF One
<1>4. CASE e.id # id
  <2>1. Idx(Append(q, e), id) = Idx(q, id)
    BY <1>1, <1>4 DEF Idx
  <2> QED  BY <1>4, <2>1, IdxFinite DEF One
<1> QED  BY <1>3, <1>4

LEMMA IdxTail ==
    ASSUME NEW q \in Seq(Task), q # <<>>, NEW id
    PROVE  Cardinality(Idx(q, id)) = Cardinality(Idx(Tail(q), id)) + One(Head(q).id = id)
<1> DEFINE rest == Idx(q, id) \ {1}
           Shift == [i \in Idx(Tail(q), id) |-> i + 1]
<1>1. /\ Len(q) \in Nat \ {0} /\ DOMAIN q = 1..Len(q)
      /\ Tail(q) \in Seq(Task) /\ DOMAIN Tail(q) = 1..(Len(q) - 1)
      /\ \A i \in 1..(Len(q) - 1) : Tail(q)[i] = q[i + 1]
      /\ Head(q) = q[1]
  <2>1. /\ Tail(q) \in Seq(Task) /\ Len(Tail(q)) = Len(q) - 1
        /\ \A i \in 1..Len(Tail(q)) : Tail(q)[i] = q[i + 1]
    BY HeadTailProperties
  <2> QED  BY <2>1
<1>2. \A i \in Idx(Tail(q), id) : i \in 1..(Len(q) - 1) /\ i + 1 \in rest
  BY <1>1 DEF Idx
<1>3. \A j \in rest : j - 1 \in Idx(Tail(q), id) /\ j \in Int
  BY <1>1 DEF Idx
<1>4. Shift \in Bijection(Idx(Tail(q), id), rest)
  <2>1. Shift \in [Idx(Tail(q), id) -> rest]
    BY <1>2
  <2>2. \A a, b \in Idx(Tail(q), id) : Shift[a] = Shift[b] => a = b
    BY <1>2
  <2>3. \A j \in rest : \E i \in Idx(Tail(q), id) : Shift[i] = j
    <3> TAKE j \in rest
    <3>1. j - 1 \in Idx(Tail(q), id) /\ Shift[j - 1] = j
      BY <1>3
    <3> QED  BY <3>1
  <2> HIDE DEF Shift, rest
  <2> QED  BY <2>1, <2>2, <2>3, Fun_IsBij
<1>5. Cardinality(rest) = Cardinality(Idx(Tail(q), id))
  <2> HIDE DEF Shift, rest
  <2>1. ExistsBijection(Idx(Tail(q), id), rest)
    BY <1>4, Fun_ExistsBij
  <2>2. IsFiniteSet(Idx(Tail(q), id))
    BY <1>1, IdxFinite
  <2> QED  BY <2>1, <2>2, FS_Bijection
<1>6. Cardinality(rest) = Cardinality(Idx(q, id)) - One(Head(q).id = id)
  <2>1. 1 \in Idx(q, id) <=> Head(q).id = id
    BY <1>1 DEF Idx
  <2>2. IsFiniteSet(Idx(q, id)) /\ Cardinality(Idx(q, id)) \in Nat
    BY IdxFinite
  <2>3. Cardinality(rest) = IF 1 \in Idx(q, id) THEN Cardinality(Idx(q, id)) - 1
                                                ELSE Cardinality(Idx(q, id))
    BY <2>2, FS_RemoveElement
  <2> HIDE DEF rest
  <2> QED  BY <2>1, <2>2, <2>3 DEF One
<1>7. Cardinality(Idx(q, id)) \in Nat
  BY IdxFinite
<1> QED  BY <1>5, <1>6, <1>7 DEF One

(* Counting the workers that hold a task of a query.                       *)
Holders(f, id) == {w \in Workers : \E t \in f[w] : t.id = id}

LEMMA HoldersFinite ==
    ASSUME NEW f, NEW id
    PROVE  /\ IsFiniteSet(Holders(f, id))
           /\ Cardinality(Holders(f, id)) \in Nat
<1>1. Holders(f, id) \in SUBSET Workers
  BY DEF Holders
<1>2. IsFiniteSet(Holders(f, id))
  BY <1>1, FS_Subset, PoolAssumption
<1> QED  BY <1>2, FS_CardinalityType

\* Worker w, which held nothing in f, holds t in g.
LEMMA HoldersTake ==
    ASSUME NEW f, NEW g, NEW w \in Workers, NEW t, NEW id,
           f[w] = {}, g[w] = {t}, \A v \in Workers \ {w} : g[v] = f[v]
    PROVE  Cardinality(Holders(g, id)) = Cardinality(Holders(f, id)) + One(t.id = id)
<1>1. w \notin Holders(f, id)
  BY DEF Holders
<1>2. CASE t.id = id
  <2>1. Holders(g, id) = Holders(f, id) \cup {w}
    BY <1>2 DEF Holders
  <2> QED  BY <1>1, <1>2, <2>1, HoldersFinite, FS_AddElement DEF One
<1>3. CASE t.id # id
  <2>1. Holders(g, id) = Holders(f, id)
    BY <1>3 DEF Holders
  <2> QED  BY <1>3, <2>1, HoldersFinite DEF One
<1> QED  BY <1>2, <1>3

-----------------------------------------------------------------------------
(* First part: types (a pending count is only an integer here), and what   *)
(* the program counters say of the data.                                   *)
Shape ==
    /\ tasks \in Seq(Task)
    /\ DOMAIN waitgroups \subseteq Qids
    /\ \A id \in DOMAIN waitgroups : waitgroups[id] \in Int
    /\ exit_flag \in BOOLEAN
    /\ next_query_id \in 0..MaxQueries
    /\ wpc \in [Workers -> {"loop", "asleep", "run", "done", "signal", "gone"}]
    /\ wtask \in [Workers -> SUBSET Task]
    /\ \A w \in Workers : IF wpc[w] \in {"run", "done"} THEN \E t \in Task : wtask[w] = {t}
                                                        ELSE wtask[w] = {}
    /\ cpc \in [Callers -> {"idle", "submit", "notify", "join", "asleep"}]
    /\ qid \in [Callers -> Qids \cup {NoQid}]
    /\ \A c \in Callers : cpc[c] = "idle" <=> qid[c] = NoQid
    /\ sent \in [Callers -> 0..NumChunks]
    /\ \A c \in Callers : /\ cpc[c] = "idle" => sent[c] = 0
                          /\ cpc[c] = "submit" => sent[c] < NumChunks
                          /\ cpc[c] \in {"join", "asleep"} => sent[c] = NumChunks
    /\ collected \in [Qids -> SUBSET Chunks] /\ failed \in [Qids -> SUBSET Chunks]
    /\ returned \subseteq Qids

LEMMA ShapeInit == Init => Shape
<1> SUFFICES ASSUME Init PROVE Shape
  OBVIOUS
<1>1. tasks \in Seq(Task) /\ DOMAIN waitgroups = {}
  BY DEF Init
<1>2. /\ wpc = [w \in Workers |-> "loop"] /\ wtask = [w \in Workers |-> {}]
      /\ cpc = [c \in Callers |-> "idle"] /\ qid = [c \in Callers |-> NoQid]
      /\ sent = [c \in Callers |-> 0]
      /\ collected = [q \in Qids |-> {}] /\ failed = [q \in Qids |-> {}]
      /\ exit_flag = FALSE /\ next_query_id = 0 /\ returned = {}
  BY DEF Init
<1>3. 0 \in 0..MaxQueries /\ 0 \in 0..NumChunks
  BY PoolAssumption
<1>4. /\ \A w \in Workers : wpc[w] = "loop" /\ wtask[w] = {}
      /\ \A c \in Callers : cpc[c] = "idle" /\ qid[c] = NoQid /\ sent[c] = 0
  BY <1>2
<1> QED  BY <1>1, <1>2, <1>3, <1>4 DEF Shape

\* The wait group of a caller's query is set to any integer.
LEMMA AssignShape ==
    ASSUME Shape, NEW id \in Qids, NEW n \in Int
    PROVE  /\ DOMAIN Assign(id, n) = DOMAIN waitgroups \cup {id}
           /\ DOMAIN Assign(id, n) \subseteq Qids
           /\ \A i \in DOMAIN Assign(id, n) : Assign(id, n)[i] \in Int
BY DEF Shape, Assign

LEMMA ShapeNext == Shape /\ [Next]_vars => Shape'
<1> SUFFICES ASSUME Shape, [Next]_vars PROVE Shape'
  OBVIOUS
<1> USE PoolAssumption DEF poolVars, workerVars, callerVars, results, GotoC, GotoW
<1>1. ASSUME NEW c \in Callers, Start(c) PROVE Shape'
  <2>1. /\ next_query_id \in Qids /\ next_query_id # NoQid
        /\ next_query_id + 1 \in 0..MaxQueries
    BY <1>1 DEF Start, Shape, Qids, NoQid
  <2>2. /\ cpc[c] = "idle" /\ sent[c] = 0
        /\ UNCHANGED <<tasks, waitgroups, exit_flag, wpc, wtask, sent, collected, failed, returned>>
        /\ next_query_id' = next_query_id + 1
        /\ qid' = [qid EXCEPT ![c] = next_query_id]
        /\ cpc' = [cpc EXCEPT ![c] = IF NumChunks = 0 THEN "join" ELSE "submit"]
    BY <1>1 DEF Start, Shape
  <2> QED  BY <2>1, <2>2 DEF Shape
<1>2. ASSUME NEW c \in Callers, Submit(c) PROVE Shape'
  <2>1. /\ cpc[c] = "submit" /\ qid[c] \in Qids /\ sent[c] \in 0..NumChunks /\ sent[c] < NumChunks
        /\ UNCHANGED <<exit_flag, wpc, wtask, next_query_id, qid, returned, collected, failed>>
        /\ tasks' = Append(tasks, [id |-> qid[c], chunk |-> sent[c] + 1])
        /\ sent' = [sent EXCEPT ![c] = @ + 1]
        /\ cpc' = [cpc EXCEPT ![c] = "notify"]
        /\ waitgroups' = Assign(qid[c], Pending(qid[c]) + 1)
    BY <1>2 DEF Submit, Shape
  <2>2. [id |-> qid[c], chunk |-> sent[c] + 1] \in Task
    BY <2>1 DEF Task, Chunks
  <2>3. tasks' \in Seq(Task)
    BY <2>1, <2>2 DEF Shape
  <2>4. Pending(qid[c]) + 1 \in Int
    BY DEF Shape, Pending, Present
  <2>5. /\ DOMAIN waitgroups' \subseteq Qids
        /\ \A i \in DOMAIN waitgroups' : waitgroups'[i] \in Int
    BY <2>1, <2>4, AssignShape
  <2>6. sent' \in [Callers -> 0..NumChunks]
    BY <2>1 DEF Shape
  <2> QED  BY <2>1, <2>3, <2>5, <2>6 DEF Shape
<1>3. ASSUME NEW c \in Callers, NotifyOne(c) PROVE Shape'
  <2>1. /\ cpc[c] = "notify" /\ sent[c] \in 0..NumChunks
        /\ cpc' = [cpc EXCEPT ![c] = IF sent[c] = NumChunks THEN "join" ELSE "submit"]
        /\ UNCHANGED <<tasks, waitgroups, exit_flag, wtask, next_query_id, qid, sent, returned,
                       collected, failed>>
    BY <1>3 DEF NotifyOne, Shape
  <2>2. \/ UNCHANGED wpc
        \/ \E w \in Workers : wpc[w] = "asleep" /\ wpc' = [wpc EXCEPT ![w] = "loop"]
    BY <1>3 DEF NotifyOne
  <2>3. /\ wpc' \in [Workers -> {"loop", "asleep", "run", "done", "signal", "gone"}]
        /\ \A w \in Workers : wpc'[w] \in {"run", "done"} <=> wpc[w] \in {"run", "done"}
    BY <2>2 DEF Shape
  <2>4. /\ cpc' \in [Callers -> {"idle", "submit", "notify", "join", "asleep"}]
        /\ \A d \in Callers : (cpc'[d] = "idle" <=> cpc[d] = "idle")
        /\ cpc'[c] = "submit" => sent[c] < NumChunks
        /\ cpc'[c] \in {"join", "asleep"} => sent[c] = NumChunks
        /\ \A d \in Callers \ {c} : cpc'[d] = cpc[d]
    BY <2>1 DEF Shape
  <2> QED  BY <2>1, <2>3, <2>4 DEF Shape
<1>4. ASSUME NEW c \in Callers, JoinWait(c) PROVE Shape'
  BY <1>4 DEF JoinWait, Shape
<1>5. ASSUME NEW c \in Callers, JoinReturn(c) PROVE Shape'
  <2>1. /\ cpc[c] = "join" /\ qid[c] \in Qids
        /\ UNCHANGED <<tasks, exit_flag, wpc, wtask, next_query_id, collected, failed>>
        /\ waitgroups' = Erase(qid[c])
        /\ returned' = returned \cup {qid[c]}
        /\ qid' = [qid EXCEPT ![c] = NoQid]
        /\ sent' = [sent EXCEPT ![c] = 0]
        /\ cpc' = [cpc EXCEPT ![c] = "idle"]
    BY <1>5 DEF JoinReturn, Shape
  <2>2. /\ DOMAIN waitgroups' \subseteq Qids
        /\ \A i \in DOMAIN waitgroups' : waitgroups'[i] \in Int
    BY <2>1 DEF Shape, Erase
  <2> QED  BY <2>1, <2>2 DEF Shape
<1>6. ASSUME NEW w \in Workers, WorkerWait(w) \/ WorkerExit(w) PROVE Shape'
  BY <1>6 DEF WorkerWait, WorkerExit, Shape
<1>7. ASSUME NEW w \in Workers, Take(w) PROVE Shape'
  <2>1. /\ wpc[w] = "loop" /\ tasks # <<>>
        /\ wtask' = [wtask EXCEPT ![w] = {Head(tasks)}]
        /\ tasks' = Tail(tasks)
        /\ wpc' = [wpc EXCEPT ![w] = "run"]
        /\ UNCHANGED <<waitgroups, exit_flag, next_query_id, cpc, qid, sent, returned,
                       collected, failed>>
    BY <1>7 DEF Take
  <2>2. Head(tasks) \in Task /\ tasks' \in Seq(Task)
    BY <2>1, HeadTailProperties DEF Shape
  <2> QED  BY <2>1, <2>2 DEF Shape
<1>8. ASSUME NEW w \in Workers, Run(w) PROVE Shape'
  <2>1. /\ wpc[w] = "run" /\ wpc' = [wpc EXCEPT ![w] = "done"]
        /\ UNCHANGED <<tasks, waitgroups, exit_flag, wtask, next_query_id, cpc, qid, sent, returned>>
    BY <1>8 DEF Run
  <2>2. PICK t \in wtask[w] :
            \/ collected' = [collected EXCEPT ![t.id] = @ \cup {t.chunk}] /\ UNCHANGED failed
            \/ failed' = [failed EXCEPT ![t.id] = @ \cup {t.chunk}] /\ UNCHANGED collected
    BY <1>8 DEF Run
  <2>3. t.id \in Qids /\ t.chunk \in Chunks
    BY <2>2 DEF Shape, Task
  <2>4. collected' \in [Qids -> SUBSET Chunks] /\ failed' \in [Qids -> SUBSET Chunks]
    <3>1. \A f \in [Qids -> SUBSET Chunks] :
              [f EXCEPT ![t.id] = @ \cup {t.chunk}] \in [Qids -> SUBSET Chunks]
      BY <2>3
    <3>2. collected \in [Qids -> SUBSET Chunks] /\ failed \in [Qids -> SUBSET Chunks]
      BY DEF Shape
    <3> QED  BY <2>2, <3>1, <3>2
  <2> QED  BY <2>1, <2>4 DEF Shape
<1>9. ASSUME NEW w \in Workers, Decrement(w) PROVE Shape'
  <2>1. /\ wpc[w] = "done" /\ wpc' = [wpc EXCEPT ![w] = "signal"]
        /\ wtask' = [wtask EXCEPT ![w] = {}]
        /\ waitgroups' = [id \in DOMAIN waitgroups |->
                             IF \E t \in wtask[w] : t.id = id
                             THEN waitgroups[id] - 1 ELSE waitgroups[id]]
        /\ UNCHANGED <<tasks, exit_flag, next_query_id, cpc, qid, sent, returned,
                       collected, failed>>
    BY <1>9 DEF Decrement
  <2>2. /\ DOMAIN waitgroups' \subseteq Qids
        /\ \A i \in DOMAIN waitgroups' : waitgroups'[i] \in Int
    BY <2>1 DEF Shape
  <2> QED  BY <2>1, <2>2 DEF Shape
<1>10. ASSUME NEW w \in Workers, NotifyJoiners(w) PROVE Shape'
  BY <1>10 DEF NotifyJoiners, Shape
<1>11. CASE Shutdown
  BY <1>11 DEF Shutdown, Shape
<1>12. CASE WakeUp
  <2>1. CASE \E w \in Workers : wpc[w] = "asleep" /\ GotoW(w, "loop") /\ UNCHANGED <<poolVars, wtask, callerVars, results>>
    BY <2>1 DEF Shape
  <2>2. CASE \E c \in Callers : /\ cpc[c] = "asleep" /\ GotoC(c, "join")
                               /\ UNCHANGED <<poolVars, workerVars, next_query_id, qid, sent, returned, results>>
    BY <2>2 DEF Shape
  <2> QED  BY <1>12, <2>1, <2>2 DEF WakeUp
<1>13. CASE UNCHANGED vars
  BY <1>13 DEF vars, Shape
<1> QED  BY <1>1, <1>2, <1>3, <1>4, <1>5, <1>6, <1>7, <1>8, <1>9, <1>10, <1>11, <1>12, <1>13
          DEF Next, Caller, Worker

LEMMA AlwaysShape == Spec => []Shape
BY ShapeInit, ShapeNext, PTL DEF Spec

-----------------------------------------------------------------------------
(* Second part: GroupsCountTasks itself, in terms of the two counts.       *)
LEMMA CountsDef ==
    GroupsCountTasks <=>
    \A id \in Qids : Pending(id) = Cardinality(Idx(tasks, id)) + Cardinality(Holders(wtask, id))
BY DEF GroupsCountTasks, Queued, Running, Idx, Holders

LEMMA CountsNat ==
    ASSUME Shape, NEW id
    PROVE  /\ Cardinality(Idx(tasks, id)) \in Nat
           /\ Cardinality(Holders(wtask, id)) \in Nat
BY IdxFinite, HoldersFinite DEF Shape

\* A group at zero has no task, queued or running.
LEMMA ZeroIsEmpty ==
    ASSUME Shape, GroupsCountTasks, NEW id \in Qids, Pending(id) = 0
    PROVE  Queued(id) = {} /\ Running(id) = {}
<1>1. Cardinality(Idx(tasks, id)) = 0 /\ Cardinality(Holders(wtask, id)) = 0
  BY CountsDef, CountsNat
<1>2. Idx(tasks, id) = {} /\ Holders(wtask, id) = {}
  BY <1>1, IdxFinite, HoldersFinite, FS_EmptySet DEF Shape
<1> QED  BY <1>2 DEF Queued, Running, Idx, Holders

LEMMA CountsInit == Init => GroupsCountTasks
<1> SUFFICES ASSUME Init PROVE GroupsCountTasks
  OBVIOUS
<1>1. DOMAIN waitgroups = {} /\ tasks = <<>> /\ wtask = [w \in Workers |-> {}]
  BY DEF Init
<1>2. \A id \in Qids : Queued(id) = {} /\ Running(id) = {}
  BY <1>1 DEF Queued, Running
<1>3. \A id \in Qids : Pending(id) = 0
  BY <1>1 DEF Pending, Present
<1> QED  BY <1>2, <1>3, FS_EmptySet DEF GroupsCountTasks

LEMMA CountsNext == Shape /\ GroupsCountTasks /\ [Next]_vars => GroupsCountTasks'
<1> SUFFICES ASSUME Shape, GroupsCountTasks, [Next]_vars,
                    NEW id \in Qids
             PROVE  (Pending(id) = Cardinality(Idx(tasks, id)) + Cardinality(Holders(wtask, id)))'
  BY CountsDef DEF GroupsCountTasks, Queued, Running, Idx, Holders
<1> USE DEF poolVars, workerVars, callerVars, results, GotoC, GotoW
<1>0. /\ Pending(id) = Cardinality(Idx(tasks, id)) + Cardinality(Holders(wtask, id))
      /\ Cardinality(Idx(tasks, id)) \in Nat /\ Cardinality(Holders(wtask, id)) \in Nat
  BY CountsDef, CountsNat
<1>1. ASSUME UNCHANGED <<tasks, waitgroups, wtask>>
      PROVE  (Pending(id) = Cardinality(Idx(tasks, id)) + Cardinality(Holders(wtask, id)))'
  BY <1>0, <1>1 DEF Pending, Present
<1>2. ASSUME NEW c \in Callers, Submit(c)
      PROVE  (Pending(id) = Cardinality(Idx(tasks, id)) + Cardinality(Holders(wtask, id)))'
  <2> DEFINE e == [id |-> qid[c], chunk |-> sent[c] + 1]
  <2>1. /\ cpc[c] = "submit" /\ qid[c] \in Qids /\ sent[c] \in 0..NumChunks /\ sent[c] < NumChunks
        /\ wtask' = wtask /\ tasks' = Append(tasks, e)
        /\ waitgroups' = Assign(qid[c], Pending(qid[c]) + 1)
    BY <1>2 DEF Submit, Shape
  <2>2. e \in Task /\ e.id = qid[c]
    BY <2>1, PoolAssumption DEF Task, Chunks
  <2>3. Cardinality(Idx(tasks', id)) = Cardinality(Idx(tasks, id)) + One(qid[c] = id)
    BY <2>1, <2>2, IdxAppend DEF Shape
  <2>4. Pending(id)' = Pending(id) + One(qid[c] = id)
    BY <1>0, <2>1 DEF Pending, Present, Assign, One
  <2> QED  BY <1>0, <2>1, <2>3, <2>4 DEF One
<1>3. ASSUME NEW c \in Callers, JoinReturn(c)
      PROVE  (Pending(id) = Cardinality(Idx(tasks, id)) + Cardinality(Holders(wtask, id)))'
  <2>1. /\ Pending(qid[c]) = 0 /\ waitgroups' = Erase(qid[c])
        /\ UNCHANGED <<tasks, wtask>>
    BY <1>3 DEF JoinReturn
  <2>2. Pending(id)' = Pending(id)
    BY <2>1 DEF Pending, Present, Erase
  <2> QED  BY <1>0, <2>1, <2>2
<1>4. ASSUME NEW w \in Workers, Take(w)
      PROVE  (Pending(id) = Cardinality(Idx(tasks, id)) + Cardinality(Holders(wtask, id)))'
  <2>1. /\ wpc[w] = "loop" /\ tasks # <<>> /\ tasks' = Tail(tasks)
        /\ wtask' = [wtask EXCEPT ![w] = {Head(tasks)}] /\ waitgroups' = waitgroups
    BY <1>4 DEF Take
  <2>2. /\ tasks \in Seq(Task) /\ wtask \in [Workers -> SUBSET Task] /\ wtask[w] = {}
    BY <2>1 DEF Shape
  <2>3. Head(tasks) \in Task
    BY <2>1, <2>2, HeadTailProperties
  <2>4. Cardinality(Idx(tasks, id)) = Cardinality(Idx(tasks', id)) + One(Head(tasks).id = id)
    BY <2>1, <2>2, IdxTail
  <2>5. Cardinality(Holders(wtask', id)) = Cardinality(Holders(wtask, id)) + One(Head(tasks).id = id)
    <3>1. wtask'[w] = {Head(tasks)} /\ \A v \in Workers \ {w} : wtask'[v] = wtask[v]
      BY <2>1, <2>2
    <3> QED  BY <2>2, <3>1, HoldersTake
  <2>6. tasks' \in Seq(Task)
    BY <2>1, <2>2, HeadTailProperties
  <2>7. Cardinality(Idx(tasks', id)) \in Nat /\ Pending(id)' = Pending(id)
    BY <2>1, <2>6, IdxFinite DEF Pending, Present
  <2> QED  BY <1>0, <2>4, <2>5, <2>7 DEF One
<1>5. ASSUME NEW w \in Workers, Decrement(w)
      PROVE  (Pending(id) = Cardinality(Idx(tasks, id)) + Cardinality(Holders(wtask, id)))'
  <2>1. /\ wpc[w] = "done" /\ tasks' = tasks /\ wtask' = [wtask EXCEPT ![w] = {}]
        /\ waitgroups' = [i \in DOMAIN waitgroups |->
                             IF \E t \in wtask[w] : t.id = i
                             THEN waitgroups[i] - 1 ELSE waitgroups[i]]
    BY <1>5 DEF Decrement
  <2>2. PICK t \in Task : wtask[w] = {t}
    BY <2>1 DEF Shape
  <2>3. Cardinality(Holders(wtask, id)) = Cardinality(Holders(wtask', id)) + One(t.id = id)
    <3>1. wtask'[w] = {} /\ \A v \in Workers \ {w} : wtask[v] = wtask'[v]
      BY <2>1 DEF Shape
    <3> DEFINE f == wtask'
               g == wtask
    <3>2. f[w] = {} /\ g[w] = {t} /\ \A v \in Workers \ {w} : g[v] = f[v]
      BY <2>2, <3>1
    <3> HIDE DEF f, g
    <3>3. Cardinality(Holders(g, id)) = Cardinality(Holders(f, id)) + One(t.id = id)
      BY <3>2, HoldersTake
    <3> QED  BY <3>3 DEF f, g
  <2>4. Cardinality(Holders(wtask', id)) \in Nat
    BY HoldersFinite
  <2>5. t.id = id => id \in DOMAIN waitgroups
    BY <1>0, <2>3, <2>4 DEF Pending, Present, One
  <2>6. \A i \in DOMAIN waitgroups :
            waitgroups'[i] = IF t.id = i THEN waitgroups[i] - 1 ELSE waitgroups[i]
    BY <2>1, <2>2
  <2>7. Pending(id)' = Pending(id) - One(t.id = id)
    BY <1>0, <2>1, <2>5, <2>6 DEF Pending, Present, One
  <2> QED  BY <1>0, <2>1, <2>3, <2>4, <2>7 DEF One
<1>6. ASSUME \/ \E c \in Callers : Start(c) \/ NotifyOne(c) \/ JoinWait(c)
             \/ \E w \in Workers : WorkerWait(w) \/ WorkerExit(w) \/ Run(w) \/ NotifyJoiners(w)
             \/ Shutdown \/ WakeUp \/ UNCHANGED vars
      PROVE  UNCHANGED <<tasks, waitgroups, wtask>>
  BY <1>6 DEF Start, NotifyOne, JoinWait, WorkerWait, WorkerExit, Run, NotifyJoiners, Shutdown,
              WakeUp, vars
<1> QED  BY <1>1, <1>2, <1>3, <1>4, <1>5, <1>6 DEF Next, Caller, Worker

\* The wait groups never lose count: what join waits for is exactly the tasks
\* of its query that are queued or running, thrown tasks included.
THEOREM CountsAreExact == Spec => []GroupsCountTasks
BY AlwaysShape, CountsInit, CountsNext, PTL DEF Spec

\* Every variable keeps its type; a pending count is never negative.
THEOREM PoolTyped == Spec => []TypeOK
<1>1. ASSUME Shape, GroupsCountTasks PROVE TypeOK
  <2>1. ASSUME NEW id \in DOMAIN waitgroups PROVE waitgroups[id] \in Nat
    <3>1. id \in Qids /\ Pending(id) = waitgroups[id]
      BY <1>1, <2>1 DEF Shape, Pending, Present
    <3> QED  BY <1>1, <3>1, CountsDef, CountsNat
  <2> QED  BY <1>1, <2>1 DEF Shape, TypeOK
<1> QED  BY <1>1, AlwaysShape, CountsAreExact, PTL

-----------------------------------------------------------------------------
(* Third part: an id is given out once.                                    *)
Fresh ==
    /\ \A c \in Callers : qid[c] < next_query_id
    /\ \A c, d \in Callers : c # d /\ qid[c] = qid[d] => qid[c] = NoQid
    /\ \A q \in returned : q < next_query_id /\ \A c \in Callers : qid[c] # q

LEMMA FreshInit == Init => Fresh
BY DEF Init, Fresh, NoQid

LEMMA FreshNext == Shape /\ Fresh /\ [Next]_vars => Fresh'
<1> SUFFICES ASSUME Shape, Fresh, [Next]_vars PROVE Fresh'
  OBVIOUS
<1> USE DEF poolVars, workerVars, callerVars, results, GotoC, GotoW
<1>0. /\ next_query_id \in Nat
      /\ \A c \in Callers : qid[c] \in Int /\ (qid[c] = NoQid \/ qid[c] \in Nat)
      /\ \A q \in returned : q \in Nat
  BY PoolAssumption DEF Shape, Qids, NoQid
<1>1. ASSUME NEW c \in Callers, Start(c) PROVE Fresh'
  <2>1. /\ next_query_id' = next_query_id + 1 /\ returned' = returned
        /\ qid' = [qid EXCEPT ![c] = next_query_id]
    BY <1>1 DEF Start
  <2>2. qid'[c] = next_query_id /\ \A d \in Callers \ {c} : qid'[d] = qid[d]
    BY <2>1 DEF Shape
  <2>3. \A d \in Callers : qid'[d] < next_query_id'
    BY <1>0, <2>1, <2>2 DEF Fresh
  <2>4. ASSUME NEW d \in Callers, NEW e \in Callers, d # e, qid'[d] = qid'[e]
        PROVE  qid'[d] = NoQid
    BY <1>0, <2>2, <2>4 DEF Fresh
  <2>5. ASSUME NEW q \in returned'
        PROVE  q < next_query_id' /\ \A d \in Callers : qid'[d] # q
    BY <1>0, <2>1, <2>2, <2>5 DEF Fresh
  <2> QED  BY <2>3, <2>4, <2>5 DEF Fresh
<1>2. ASSUME NEW c \in Callers, JoinReturn(c) PROVE Fresh'
  <2>1. /\ next_query_id' = next_query_id /\ returned' = returned \cup {qid[c]}
        /\ qid' = [qid EXCEPT ![c] = NoQid] /\ cpc[c] = "join"
    BY <1>2 DEF JoinReturn
  <2>2. qid'[c] = NoQid /\ \A d \in Callers \ {c} : qid'[d] = qid[d]
    BY <2>1 DEF Shape
  <2>3. qid[c] # NoQid /\ NoQid < next_query_id
    BY <1>0, <2>1 DEF Shape, NoQid
  <2>4. \A d, e \in Callers : d # e /\ qid'[d] = qid'[e] => qid'[d] = NoQid
    BY <2>2 DEF Fresh
  <2>5. ASSUME NEW q \in returned'
        PROVE  q < next_query_id' /\ \A d \in Callers : qid'[d] # q
    <3>1. CASE q \in returned
      BY <1>0, <2>1, <2>2, <3>1 DEF Fresh, NoQid
    <3>2. CASE q = qid[c]
      BY <2>1, <2>2, <2>3, <3>2 DEF Fresh
    <3> QED  BY <2>1, <3>1, <3>2
  <2> QED  BY <2>1, <2>2, <2>3, <2>4, <2>5 DEF Fresh
<1>3. CASE UNCHANGED <<next_query_id, qid, returned>>
  BY <1>3 DEF Fresh
<1>4. ASSUME \/ \E c \in Callers : Submit(c) \/ NotifyOne(c) \/ JoinWait(c)
             \/ \E w \in Workers : Worker(w)
             \/ Shutdown \/ WakeUp \/ UNCHANGED vars
      PROVE  UNCHANGED <<next_query_id, qid, returned>>
  BY <1>4 DEF Submit, NotifyOne, JoinWait, Worker, WorkerWait, WorkerExit, Take, Run, Decrement,
              NotifyJoiners, Shutdown, WakeUp, vars
<1> QED  BY <1>1, <1>2, <1>3, <1>4 DEF Next, Caller

LEMMA AlwaysFresh == Spec => []Fresh
BY AlwaysShape, FreshInit, FreshNext, PTL DEF Spec

-----------------------------------------------------------------------------
(* Fourth part: a chunk that was submitted has answered or failed, or its  *)
(* task is in the queue, or a worker is about to run it.                   *)
Accounted(q, k) ==
    \/ k \in collected[q] \cup failed[q]
    \/ \E i \in DOMAIN tasks : tasks[i].id = q /\ tasks[i].chunk = k
    \/ \E w \in Workers : wpc[w] = "run" /\ \E t \in wtask[w] : t.id = q /\ t.chunk = k

Kept == \A c \in Callers : \A k \in 1..sent[c] : cpc[c] # "idle" => Accounted(qid[c], k)

\* No step loses a chunk.
LEMMA AccountedStays ==
    ASSUME Shape, [Next]_vars, NEW q \in Qids, NEW k, Accounted(q, k)
    PROVE  Accounted(q, k)'
<1> USE DEF poolVars, workerVars, callerVars, results, GotoC, GotoW
<1>1. ASSUME collected' = collected, failed' = failed, tasks' = tasks, wtask' = wtask,
             \A w \in Workers : wpc[w] = "run" => wpc'[w] = "run"
      PROVE  Accounted(q, k)'
  BY <1>1 DEF Accounted
<1>2. ASSUME NEW c \in Callers, Submit(c) PROVE Accounted(q, k)'
  <2>1. /\ UNCHANGED <<collected, failed, wtask, wpc>>
        /\ tasks' = Append(tasks, [id |-> qid[c], chunk |-> sent[c] + 1])
    BY <1>2 DEF Submit
  <2>2. \A i \in DOMAIN tasks : i \in DOMAIN tasks' /\ tasks'[i] = tasks[i]
    <3>1. tasks \in Seq(Task)
      BY DEF Shape
    <3> QED  BY <2>1, <3>1
  <2> QED  BY <2>1, <2>2 DEF Accounted
<1>3. ASSUME NEW w \in Workers, Take(w) PROVE Accounted(q, k)'
  <2>1. /\ UNCHANGED <<collected, failed>> /\ tasks' = Tail(tasks) /\ tasks # <<>>
        /\ wtask' = [wtask EXCEPT ![w] = {Head(tasks)}]
        /\ wpc[w] = "loop" /\ wpc' = [wpc EXCEPT ![w] = "run"]
    BY <1>3 DEF Take
  <2>2. /\ wtask'[w] = {Head(tasks)} /\ wpc'[w] = "run"
        /\ \A v \in Workers \ {w} : wtask'[v] = wtask[v] /\ wpc'[v] = wpc[v]
    BY <2>1 DEF Shape
  <2>3. CASE k \in collected[q] \cup failed[q]
    BY <2>1, <2>3 DEF Accounted
  <2>4. CASE \E i \in DOMAIN tasks : tasks[i].id = q /\ tasks[i].chunk = k
    <3>1. PICK i \in DOMAIN tasks : tasks[i].id = q /\ tasks[i].chunk = k
      BY <2>4
    <3>2. /\ tasks \in Seq(Task) /\ Len(tasks) \in Nat /\ DOMAIN tasks = 1..Len(tasks)
          /\ Head(tasks) = tasks[1]
      BY <2>1 DEF Shape
    <3>3. /\ tasks' \in Seq(Task) /\ Len(tasks') = Len(tasks) - 1
          /\ \A j \in 1..Len(tasks') : tasks'[j] = tasks[j + 1]
      BY <2>1, <3>2, HeadTailProperties
    <3>4. CASE i = 1
      BY <2>2, <3>1, <3>2, <3>4 DEF Accounted
    <3>5. CASE i # 1
      <4>1. i - 1 \in DOMAIN tasks' /\ tasks'[i - 1] = tasks[i]
        BY <3>1, <3>2, <3>3, <3>5
      <4> QED  BY <3>1, <4>1 DEF Accounted
    <3> QED  BY <3>4, <3>5
  <2>5. CASE \E v \in Workers : wpc[v] = "run" /\ \E t \in wtask[v] : t.id = q /\ t.chunk = k
    <3>1. \A v \in Workers : wpc[v] = "run" => wpc'[v] = "run" /\ wtask'[v] = wtask[v]
      BY <2>1, <2>2
    <3> QED  BY <2>5, <3>1 DEF Accounted
  <2> QED  BY <2>3, <2>4, <2>5 DEF Accounted
<1>4. ASSUME NEW w \in Workers, Run(w) PROVE Accounted(q, k)'
  <2>1. /\ UNCHANGED <<tasks, wtask>> /\ wpc[w] = "run" /\ wpc' = [wpc EXCEPT ![w] = "done"]
    BY <1>4 DEF Run
  <2>2. PICK t \in wtask[w] :
            \/ collected' = [collected EXCEPT ![t.id] = @ \cup {t.chunk}] /\ UNCHANGED failed
            \/ failed' = [failed EXCEPT ![t.id] = @ \cup {t.chunk}] /\ UNCHANGED collected
    BY <1>4 DEF Run
  <2>3. wtask[w] = {t}
    BY <2>1, <2>2 DEF Shape
  <2>4. /\ collected[q] \subseteq collected'[q] /\ failed[q] \subseteq failed'[q]
        /\ t.id = q => t.chunk \in collected'[q] \cup failed'[q]
    BY <2>2 DEF Shape
  <2>5. \A v \in Workers : wpc[v] = "run" /\ v # w => wpc'[v] = "run"
    BY <2>1 DEF Shape
  <2> QED  BY <2>1, <2>3, <2>4, <2>5 DEF Accounted
<1>5. ASSUME NEW w \in Workers, Decrement(w) PROVE Accounted(q, k)'
  <2>1. /\ UNCHANGED <<collected, failed, tasks>> /\ wpc[w] = "done"
        /\ wtask' = [wtask EXCEPT ![w] = {}] /\ wpc' = [wpc EXCEPT ![w] = "signal"]
    BY <1>5 DEF Decrement
  <2>2. \A v \in Workers : wpc[v] = "run" => wpc'[v] = "run" /\ wtask'[v] = wtask[v]
    BY <2>1 DEF Shape
  <2> QED  BY <2>1, <2>2 DEF Accounted
<1>6. ASSUME \/ \E c \in Callers : Start(c) \/ NotifyOne(c) \/ JoinWait(c) \/ JoinReturn(c)
             \/ \E w \in Workers : WorkerWait(w) \/ WorkerExit(w) \/ NotifyJoiners(w)
             \/ Shutdown \/ WakeUp \/ UNCHANGED vars
      PROVE  /\ collected' = collected /\ failed' = failed /\ tasks' = tasks /\ wtask' = wtask
             /\ \A w \in Workers : wpc[w] = "run" => wpc'[w] = "run"
  BY <1>6 DEF Shape, Start, NotifyOne, JoinWait, JoinReturn, WorkerWait, WorkerExit, NotifyJoiners,
              Shutdown, WakeUp, vars
<1> QED  BY <1>1, <1>2, <1>3, <1>4, <1>5, <1>6 DEF Next, Caller, Worker

LEMMA KeptInit == Init => Kept
BY DEF Init, Kept

LEMMA KeptNext == Shape /\ Kept /\ [Next]_vars => Kept'
<1> SUFFICES ASSUME Shape, Kept, [Next]_vars,
                    NEW c \in Callers, NEW k \in 1..sent'[c], cpc'[c] # "idle"
             PROVE  Accounted(qid[c], k)'
  BY DEF Kept
<1> USE DEF poolVars, workerVars, callerVars, results, GotoC, GotoW
<1>1. CASE Start(c)
  <2>1. sent'[c] = 0
    BY <1>1 DEF Start, Shape
  <2> QED  BY <2>1
<1>2. CASE Submit(c) /\ k = sent[c] + 1
  <2>1. /\ qid' = qid
        /\ tasks' = Append(tasks, [id |-> qid[c], chunk |-> sent[c] + 1])
    BY <1>2 DEF Submit
  <2>2. \E i \in DOMAIN tasks' : tasks'[i].id = qid[c] /\ tasks'[i].chunk = k
    <3>1. tasks \in Seq(Task)
      BY DEF Shape
    <3>2. /\ Len(tasks) + 1 \in DOMAIN tasks'
          /\ tasks'[Len(tasks) + 1] = [id |-> qid[c], chunk |-> sent[c] + 1]
      BY <2>1, <3>1
    <3> QED  BY <1>2, <3>2
  <2> QED  BY <2>1, <2>2 DEF Accounted
<1>3. CASE Submit(c) /\ k # sent[c] + 1
  <2>1. qid' = qid /\ cpc[c] = "submit" /\ sent'[c] = sent[c] + 1 /\ sent[c] \in 0..NumChunks
    BY <1>3 DEF Submit, Shape
  <2>2. k \in 1..sent[c] /\ qid[c] \in Qids
    <3>1. qid[c] \in Qids
      BY <2>1 DEF Shape
    <3>2. k \in 1..(sent[c] + 1) /\ sent[c] \in Int
      BY <2>1, PoolAssumption
    <3> QED  BY <1>3, <3>1, <3>2
  <2>3. Accounted(qid[c], k)
    BY <2>1, <2>2 DEF Kept
  <2> QED  BY <2>1, <2>2, <2>3, AccountedStays
<1>4. CASE qid'[c] = qid[c] /\ sent'[c] = sent[c] /\ cpc[c] # "idle"
  <2>1. Accounted(qid[c], k) /\ qid[c] \in Qids
    BY <1>4 DEF Kept, Shape
  <2>2. \A q \in Qids : Accounted(q, k) => Accounted(q, k)'
    BY AccountedStays
  <2> QED  BY <1>4, <2>1, <2>2 DEF Accounted
<1>5. ASSUME ~Start(c), ~Submit(c)
      PROVE  qid'[c] = qid[c] /\ sent'[c] = sent[c] /\ cpc[c] # "idle"
  <2>1. ASSUME NEW d \in Callers, d # c, Caller(d)
        PROVE  qid'[c] = qid[c] /\ sent'[c] = sent[c] /\ cpc'[c] = cpc[c]
    BY <2>1 DEF Caller, Start, Submit, NotifyOne, JoinWait, JoinReturn, Shape
  <2>2. NotifyOne(c) \/ JoinWait(c)
        => qid'[c] = qid[c] /\ sent'[c] = sent[c] /\ cpc[c] # "idle"
    BY DEF NotifyOne, JoinWait
  <2>3. ~JoinReturn(c)
    BY DEF JoinReturn, Shape
  <2>4. ASSUME \/ \E w \in Workers : Worker(w)
               \/ Shutdown \/ WakeUp \/ UNCHANGED vars
        PROVE  qid'[c] = qid[c] /\ sent'[c] = sent[c] /\ cpc[c] # "idle"
    BY <2>4 DEF Shape, Worker, WorkerWait, WorkerExit, Take, Run, Decrement, NotifyJoiners,
                Shutdown, WakeUp, vars
  <2> QED  BY <1>5, <2>1, <2>2, <2>3, <2>4 DEF Next, Caller
<1> QED  BY <1>1, <1>2, <1>3, <1>4, <1>5

LEMMA AlwaysKept == Spec => []Kept
BY AlwaysShape, KeptInit, KeptNext, PTL DEF Spec

-----------------------------------------------------------------------------
(* A query that has returned: nothing of it is left, and nothing comes.    *)
LEMMA ReturnedInit == Init => ReturnedIsComplete
BY DEF Init, ReturnedIsComplete

LEMMA ReturnedNext ==
    Shape /\ GroupsCountTasks /\ Fresh /\ Kept /\ ReturnedIsComplete /\ [Next]_vars
    => ReturnedIsComplete'
<1> SUFFICES ASSUME Shape, GroupsCountTasks, Fresh, Kept, ReturnedIsComplete, [Next]_vars,
                    NEW q \in returned'
             PROVE  /\ (Queued(q) = {} /\ Running(q) = {})'
                    /\ (collected[q] \cup failed[q] = Chunks)'
  BY DEF ReturnedIsComplete
<1> USE DEF poolVars, workerVars, callerVars, results, GotoC, GotoW
<1>1. ASSUME q \in Qids, Queued(q) = {}, Running(q) = {}, \A c \in Callers : ~Submit(c)
      PROVE  (Queued(q) = {} /\ Running(q) = {})'
  <2>1. ASSUME tasks' = tasks, \A w \in Workers : wtask'[w] \subseteq wtask[w]
        PROVE  (Queued(q) = {} /\ Running(q) = {})'
    BY <1>1, <2>1 DEF Queued, Running
  <2>2. ASSUME NEW w \in Workers, Take(w) PROVE (Queued(q) = {} /\ Running(q) = {})'
    <3>1. /\ tasks # <<>> /\ tasks' = Tail(tasks) /\ tasks \in Seq(Task)
          /\ wtask' = [wtask EXCEPT ![w] = {Head(tasks)}]
      BY <2>2 DEF Take, Shape
    <3>2. /\ tasks' \in Seq(Task) /\ Len(tasks') = Len(tasks) - 1
          /\ \A j \in 1..Len(tasks') : tasks'[j] = tasks[j + 1]
      BY <3>1, HeadTailProperties
    <3>3. \A i \in DOMAIN tasks : tasks[i].id # q
      BY <1>1 DEF Queued
    <3>4. Head(tasks).id # q
      BY <3>1, <3>3
    <3>5. \A j \in DOMAIN tasks' : tasks'[j].id # q
      BY <3>1, <3>2, <3>3
    <3>6. \A v \in Workers : \A t \in wtask'[v] : t.id # q
      BY <1>1, <3>1, <3>4 DEF Running, Shape
    <3> QED  BY <3>5, <3>6 DEF Queued, Running
  <2>3. ASSUME \A w \in Workers : ~Take(w)
        PROVE  tasks' = tasks /\ \A w \in Workers : wtask'[w] \subseteq wtask[w]
    BY <1>1, <2>3 DEF Shape, Next, Caller, Worker, Start, NotifyOne, JoinWait, JoinReturn, WorkerWait,
              WorkerExit, Run, Decrement, NotifyJoiners, Shutdown, WakeUp, vars
  <2> QED  BY <2>1, <2>2, <2>3
<1>2. ASSUME q \in Qids, collected[q] \cup failed[q] = Chunks
      PROVE  (collected[q] \cup failed[q] = Chunks)'
  <2>1. collected[q] \subseteq collected'[q] /\ failed[q] \subseteq failed'[q]
    <3>1. ASSUME NEW w \in Workers, Run(w)
          PROVE  collected[q] \subseteq collected'[q] /\ failed[q] \subseteq failed'[q]
      <4>1. PICK t \in wtask[w] :
                \/ collected' = [collected EXCEPT ![t.id] = @ \cup {t.chunk}] /\ UNCHANGED failed
                \/ failed' = [failed EXCEPT ![t.id] = @ \cup {t.chunk}] /\ UNCHANGED collected
        BY <3>1 DEF Run
      <4>2. collected \in [Qids -> SUBSET Chunks] /\ failed \in [Qids -> SUBSET Chunks]
        BY DEF Shape
      <4>3. collected'[q] = collected[q] \/ collected'[q] = collected[q] \cup {t.chunk}
        BY <1>2, <4>1, <4>2
      <4>4. failed'[q] = failed[q] \/ failed'[q] = failed[q] \cup {t.chunk}
        BY <1>2, <4>1, <4>2
      <4> QED  BY <4>3, <4>4
    <3>2. ASSUME \A w \in Workers : ~Run(w) PROVE collected' = collected /\ failed' = failed
      BY <3>2 DEF Next, Caller, Worker, Start, Submit, NotifyOne, JoinWait, JoinReturn, WorkerWait,
                  WorkerExit, Take, Decrement, NotifyJoiners, Shutdown, WakeUp, vars
    <3> QED  BY <3>1, <3>2
  <2>2. collected'[q] \subseteq Chunks /\ failed'[q] \subseteq Chunks
    BY <1>2, ShapeNext DEF Shape
  <2> QED  BY <1>2, <2>1, <2>2
<1>3. CASE q \in returned
  <2>1. q \in Qids /\ Queued(q) = {} /\ Running(q) = {} /\ collected[q] \cup failed[q] = Chunks
    BY <1>3 DEF Shape, ReturnedIsComplete
  <2>2. ASSUME NEW c \in Callers, Submit(c) PROVE (Queued(q) = {} /\ Running(q) = {})'
    <3>1. /\ tasks' = Append(tasks, [id |-> qid[c], chunk |-> sent[c] + 1]) /\ wtask' = wtask
          /\ tasks \in Seq(Task)
      BY <2>2 DEF Submit, Shape
    <3>2. qid[c] # q
      BY <1>3 DEF Fresh
    <3>3. \A i \in DOMAIN tasks : tasks[i].id # q
      BY <2>1 DEF Queued
    <3>4. \A i \in DOMAIN tasks' : tasks'[i].id # q
      BY <3>1, <3>2, <3>3
    <3> QED  BY <2>1, <3>1, <3>4 DEF Queued, Running
  <2> QED  BY <1>1, <1>2, <2>1, <2>2
<1>4. CASE q \notin returned
  <2>1. PICK c \in Callers : JoinReturn(c) /\ q = qid[c]
    BY <1>4 DEF Next, Caller, Worker, Start, Submit, NotifyOne, JoinWait, JoinReturn, WorkerWait,
                WorkerExit, Take, Run, Decrement, NotifyJoiners, Shutdown, WakeUp, vars
  <2>2. /\ cpc[c] = "join" /\ Pending(q) = 0 /\ q \in Qids /\ sent[c] = NumChunks
        /\ UNCHANGED <<tasks, wtask, wpc, collected, failed>>
    BY <2>1 DEF JoinReturn, Shape
  <2>3. Queued(q) = {} /\ Running(q) = {}
    BY <2>2, ZeroIsEmpty
  <2>4. \A k \in Chunks : k \in collected[q] \cup failed[q]
    <3> TAKE k \in Chunks
    <3>1. Accounted(q, k)
      BY <2>1, <2>2 DEF Kept, Chunks
    <3> QED  BY <2>3, <3>1 DEF Accounted, Queued, Running
  <2>5. collected[q] \subseteq Chunks /\ failed[q] \subseteq Chunks
    BY <2>2 DEF Shape
  <2> QED  BY <2>2, <2>3, <2>4, <2>5 DEF Queued, Running
<1> QED  BY <1>3, <1>4

\* When handle_query returns, its AST and collector, on its stack, are no
\* longer reachable from any task, and every chunk has answered or failed.
THEOREM JoinIsSafe == Spec => []ReturnedIsComplete
BY AlwaysShape, CountsAreExact, AlwaysFresh, AlwaysKept, ReturnedInit, ReturnedNext, PTL DEF Spec

-----------------------------------------------------------------------------
LEMMA WakeUpInit == Init => NoLostWakeUp
BY DEF Init, NoLostWakeUp

LEMMA WakeUpNext == Shape /\ Fresh /\ NoLostWakeUp /\ [Next]_vars => NoLostWakeUp'
<1> SUFFICES ASSUME Shape, Fresh, NoLostWakeUp, [Next]_vars,
                    NEW c \in Callers, cpc'[c] = "asleep"
             PROVE  (Pending(qid[c]) # 0 \/ \E w \in Workers : wpc[w] = "signal")'
  BY DEF NoLostWakeUp
<1> USE DEF poolVars, workerVars, callerVars, results, GotoC, GotoW
<1>1. CASE cpc[c] # "asleep"
  <2>0. cpc \in [Callers -> {"idle", "submit", "notify", "join", "asleep"}]
    BY DEF Shape
  <2>a. ASSUME NEW d \in Callers, Caller(d)
        PROVE  JoinWait(c)
    BY <1>1, <2>0, <2>a DEF Caller, Start, Submit, NotifyOne, JoinWait, JoinReturn
  <2>b. ASSUME NEW w \in Workers, Worker(w)
        PROVE  cpc' = cpc \/ \A d \in Callers : cpc'[d] = "asleep" => cpc[d] = "asleep"
    BY <2>0, <2>b DEF Worker, WorkerWait, WorkerExit, Take, Run, Decrement, NotifyJoiners
  <2>c. ASSUME Shutdown \/ WakeUp \/ UNCHANGED vars
        PROVE  \A d \in Callers : cpc'[d] = "asleep" => cpc[d] = "asleep"
    BY <2>0, <2>c DEF Shutdown, WakeUp, vars
  <2>1. JoinWait(c)
    BY <1>1, <2>a, <2>b, <2>c DEF Next
  <2> QED  BY <2>1 DEF JoinWait, Pending, Present
<1>2. CASE cpc[c] = "asleep"
  <2>0. /\ Pending(qid[c]) # 0 \/ \E w \in Workers : wpc[w] = "signal"
        /\ qid[c] \in Qids
    BY <1>2 DEF NoLostWakeUp, Shape
  <2>1. ASSUME qid'[c] = qid[c], waitgroups' = waitgroups,
               \A w \in Workers : wpc[w] = "signal" => wpc'[w] = "signal"
        PROVE  (Pending(qid[c]) # 0 \/ \E w \in Workers : wpc[w] = "signal")'
    BY <2>0, <2>1 DEF Pending, Present
  <2>2. ASSUME NEW d \in Callers, Submit(d)
        PROVE  (Pending(qid[c]) # 0 \/ \E w \in Workers : wpc[w] = "signal")'
    <3>1. /\ cpc[d] = "submit" /\ qid' = qid /\ wpc' = wpc
          /\ waitgroups' = Assign(qid[d], Pending(qid[d]) + 1)
      BY <2>2 DEF Submit
    <3>2. qid[d] # qid[c]
      BY <1>2, <2>0, <3>1 DEF Fresh, Shape
    <3>3. Pending(qid[c])' = Pending(qid[c])
      BY <3>1, <3>2 DEF Pending, Present, Assign
    <3> QED  BY <2>0, <3>1, <3>3
  <2>3. ASSUME NEW d \in Callers, JoinReturn(d)
        PROVE  (Pending(qid[c]) # 0 \/ \E w \in Workers : wpc[w] = "signal")'
    <3>1. /\ cpc[d] = "join" /\ qid' = [qid EXCEPT ![d] = NoQid] /\ wpc' = wpc
          /\ waitgroups' = Erase(qid[d])
      BY <2>3 DEF JoinReturn
    <3>2. qid[d] # qid[c] /\ qid'[c] = qid[c]
      BY <1>2, <2>0, <3>1 DEF Fresh, Shape
    <3>3. Pending(qid[c])' = Pending(qid[c])
      BY <3>1, <3>2 DEF Pending, Present, Erase
    <3> QED  BY <2>0, <3>1, <3>3
  <2>4. ASSUME NEW w \in Workers, Decrement(w)
        PROVE  (Pending(qid[c]) # 0 \/ \E v \in Workers : wpc[v] = "signal")'
    BY <2>4 DEF Decrement, Shape
  <2>5. ASSUME NEW w \in Workers, NotifyJoiners(w) PROVE FALSE
    BY <1>2, <2>5 DEF NotifyJoiners
  <2>6. ASSUME \/ \E d \in Callers : Start(d) \/ NotifyOne(d) \/ JoinWait(d)
               \/ \E w \in Workers : WorkerWait(w) \/ WorkerExit(w) \/ Take(w) \/ Run(w)
               \/ Shutdown \/ WakeUp \/ UNCHANGED vars
        PROVE  /\ qid'[c] = qid[c] /\ waitgroups' = waitgroups
               /\ \A w \in Workers : wpc[w] = "signal" => wpc'[w] = "signal"
    <3>1. ASSUME NEW d \in Callers, Start(d)
          PROVE  /\ qid'[c] = qid[c] /\ waitgroups' = waitgroups /\ wpc' = wpc
      BY <1>2, <3>1 DEF Start, Shape
    <3> QED  BY <2>6, <3>1 DEF Shape, NotifyOne, JoinWait, WorkerWait, WorkerExit, Take, Run,
                               Shutdown, WakeUp, vars
  <2> QED  BY <2>1, <2>2, <2>3, <2>4, <2>5, <2>6 DEF Next, Caller, Worker
<1> QED  BY <1>1, <1>2

\* join never sleeps through the last decrement of its group, although the
\* notification is sent after the mutex is released.
THEOREM NobodySleepsOn == Spec => []NoLostWakeUp
BY AlwaysShape, AlwaysFresh, WakeUpInit, WakeUpNext, PTL DEF Spec
=============================================================================
