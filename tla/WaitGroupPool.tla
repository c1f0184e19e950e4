---------------------------- MODULE WaitGroupPool ----------------------------
(***************************************************************************)
(* The joinable thread pool with named wait groups                         *)
(* (lib/joinable_thread_pool.h) under its one user, the index manager's    *)
(* scatter and gather of a query over the index chunks                     *)
(* (index_manager/index_manager.h, handle_query).                          *)
(*                                                                         *)
(* Everything the pool does under its mutex m is one step.  The condition  *)
(* variables are explicit: a thread that finds its predicate false goes to *)
(* sleep in the step that releases m, and runs again only when notified    *)
(* (or spuriously, WakeUp); notifications are sent after m is released and *)
(* are steps of their own.  exit_flag is set by the destructor, when no    *)
(* caller is left.                                                         *)
(***************************************************************************)
EXTENDS Integers, Sequences, FiniteSets

CONSTANTS
    Callers,      \* threads in handle_query (the index server's pool)
    Workers,      \* the pool's threads
    NumChunks,    \* number of loaded index chunks
    MaxQueries    \* bound: queries ever started; qids are 0..MaxQueries - 1

Qids   == 0..(MaxQueries - 1)
Chunks == 1..NumChunks
NoQid  == -1

ASSUME PoolAssumption ==
    /\ MaxQueries \in Nat /\ NumChunks \in Nat
    /\ IsFiniteSet(Callers) /\ IsFiniteSet(Workers)

Task == [id : Qids, chunk : Chunks]

VARIABLES
    tasks,         \* the queue of tagged tasks
    waitgroups,    \* a function from the ids present to their pending counts
    exit_flag,
    next_query_id,
    wpc,           \* worker: "loop", "asleep", "run", "done", "signal", "gone"
    wtask,         \* worker: the task it took (a set: empty or one task)
    cpc,           \* caller: "idle", "submit", "notify", "join", "asleep"
    qid,           \* caller: its query
    sent,          \* caller: chunks submitted so far
    collected,     \* collected[q]: the chunks whose pages are in q's collector
    failed,        \* failed[q]: the chunks whose task threw
    returned       \* the queries whose handle_query has returned

poolVars   == <<tasks, waitgroups, exit_flag>>
workerVars == <<wpc, wtask>>
callerVars == <<next_query_id, cpc, qid, sent, returned>>
results    == <<collected, failed>>
vars == <<poolVars, workerVars, callerVars, results>>

Init ==
    /\ tasks = <<>> /\ waitgroups = [id \in {} |-> 0] /\ exit_flag = FALSE
    /\ next_query_id = 0
    /\ wpc = [w \in Workers |-> "loop"] /\ wtask = [w \in Workers |-> {}]
    /\ cpc = [c \in Callers |-> "idle"] /\ qid = [c \in Callers |-> NoQid]
    /\ sent = [c \in Callers |-> 0]
    /\ collected = [q \in Qids |-> {}] /\ failed = [q \in Qids |-> {}]
    /\ returned = {}

-----------------------------------------------------------------------------
(* A caller: handle_query.                                                 *)
Present(id) == id \in DOMAIN waitgroups
Pending(id) == IF Present(id) THEN waitgroups[id] ELSE 0
Assign(id, n) == [i \in DOMAIN waitgroups \cup {id} |-> IF i = id THEN n ELSE waitgroups[i]]
Erase(id)     == [i \in DOMAIN waitgroups \ {id} |-> waitgroups[i]]

GotoC(c, label) == cpc' = [cpc EXCEPT ![c] = label]
GotoW(w, label) == wpc' = [wpc EXCEPT ![w] = label]

\* The query is parsed; it gets an id of its own (fetch_add).
Start(c) ==
    /\ cpc[c] = "idle" /\ next_query_id < MaxQueries /\ ~exit_flag
    /\ qid' = [qid EXCEPT ![c] = next_query_id]
    /\ next_query_id' = next_query_id + 1
    /\ GotoC(c, IF NumChunks = 0 THEN "join" ELSE "submit")
    /\ UNCHANGED <<poolVars, workerVars, sent, results, returned>>

\* Slip: the group is set to one instead of incremented.
SubmitAssignsOne(c) ==
    /\ cpc[c] = "submit"
    /\ tasks' = Append(tasks, [id |-> qid[c], chunk |-> sent[c] + 1])
    /\ sent' = [sent EXCEPT ![c] = @ + 1]
    /\ waitgroups' = Assign(qid[c], 1)
    /\ GotoC(c, "notify")
    /\ UNCHANGED <<exit_flag, workerVars, next_query_id, qid, returned, results>>

\* submit, under m.
Submit(c) ==
    /\ cpc[c] = "submit"
    /\ tasks' = Append(tasks, [id |-> qid[c], chunk |-> sent[c] + 1])
    /\ sent' = [sent EXCEPT ![c] = @ + 1]
    /\ waitgroups' = Assign(qid[c], Pending(qid[c]) + 1)
    /\ GotoC(c, "notify")
    /\ UNCHANGED <<exit_flag, workerVars, next_query_id, qid, returned, results>>

\* worker_cv.notify_one(): one of the sleeping workers, if any, wakes up.
NotifyOne(c) ==
    /\ cpc[c] = "notify"
    /\ GotoC(c, IF sent[c] = NumChunks THEN "join" ELSE "submit")
    /\ IF \E w \in Workers : wpc[w] = "asleep"
       THEN \E w \in Workers : wpc[w] = "asleep" /\ GotoW(w, "loop")
       ELSE UNCHANGED wpc
    /\ UNCHANGED <<poolVars, wtask, next_query_id, qid, sent, returned, results>>

\* join: the predicate is false, so sleep on join_cv.
JoinWait(c) ==
    /\ cpc[c] = "join" /\ Pending(qid[c]) # 0
    /\ GotoC(c, "asleep")
    /\ UNCHANGED <<poolVars, workerVars, next_query_id, qid, sent, returned, results>>

\* Slip: join returns when one task is left.
JoinReturnEarly(c) ==
    /\ cpc[c] = "join" /\ Pending(qid[c]) <= 1
    /\ waitgroups' = Erase(qid[c])
    /\ returned' = returned \cup {qid[c]}
    /\ qid' = [qid EXCEPT ![c] = NoQid]
    /\ sent' = [sent EXCEPT ![c] = 0]
    /\ GotoC(c, "idle")
    /\ UNCHANGED <<tasks, exit_flag, workerVars, next_query_id, results>>

\* join: the group is absent or at zero.  It is erased, the collector is taken,
\* sorted and cut, and handle_query returns.
JoinReturn(c) ==
    /\ cpc[c] = "join" /\ Pending(qid[c]) = 0
    /\ waitgroups' = Erase(qid[c])
    /\ returned' = returned \cup {qid[c]}
    /\ qid' = [qid EXCEPT ![c] = NoQid]
    /\ sent' = [sent EXCEPT ![c] = 0]
    /\ GotoC(c, "idle")
    /\ UNCHANGED <<tasks, exit_flag, workerVars, next_query_id, results>>

Caller(c) == Start(c) \/ Submit(c) \/ NotifyOne(c) \/ JoinWait(c) \/ JoinReturn(c)

-----------------------------------------------------------------------------
(* A worker: worker_loop.                                                  *)
WorkerWait(w) ==
    /\ wpc[w] = "loop" /\ ~exit_flag /\ tasks = <<>>
    /\ GotoW(w, "asleep")
    /\ UNCHANGED <<poolVars, wtask, callerVars, results>>

\* On exit the queue is drained first.
WorkerExit(w) ==
    /\ wpc[w] = "loop" /\ exit_flag /\ tasks = <<>>
    /\ GotoW(w, "gone")
    /\ UNCHANGED <<poolVars, wtask, callerVars, results>>

Take(w) ==
    /\ wpc[w] = "loop" /\ tasks # <<>>
    /\ wtask' = [wtask EXCEPT ![w] = {Head(tasks)}]
    /\ tasks' = Tail(tasks)
    /\ GotoW(w, "run")
    /\ UNCHANGED <<waitgroups, exit_flag, callerVars, results>>

\* Slip: an exception leaves worker_loop.
RunUncaught(w) ==
    /\ wpc[w] = "run"
    /\ \E t \in wtask[w] :
           \/ /\ collected' = [collected EXCEPT ![t.id] = @ \cup {t.chunk}]
              /\ GotoW(w, "done") /\ UNCHANGED failed
           \/ /\ failed' = [failed EXCEPT ![t.id] = @ \cup {t.chunk}]
              /\ GotoW(w, "gone") /\ UNCHANGED collected
    /\ UNCHANGED <<poolVars, wtask, callerVars>>

\* tt.fn(): the chunk's pages go to the query's collector, or the task throws
\* and that is ignored; then, under m, the group is decremented if present.
\* The task touches only its own chunk and the collector, so its effect and
\* the decrement are two steps.
Run(w) ==
    /\ wpc[w] = "run"
    /\ \E t \in wtask[w] :
           \/ collected' = [collected EXCEPT ![t.id] = @ \cup {t.chunk}] /\ UNCHANGED failed
           \/ failed' = [failed EXCEPT ![t.id] = @ \cup {t.chunk}] /\ UNCHANGED collected
    /\ GotoW(w, "done")
    /\ UNCHANGED <<poolVars, wtask, callerVars>>

\* Slip: the group is decremented after the task and again after the catch.
DecrementTwice(w) ==
    /\ wpc[w] = "done"
    /\ waitgroups' = [id \in DOMAIN waitgroups |->
                         IF \E t \in wtask[w] : t.id = id
                         THEN waitgroups[id] - 2 ELSE waitgroups[id]]
    /\ wtask' = [wtask EXCEPT ![w] = {}]
    /\ GotoW(w, "signal")
    /\ UNCHANGED <<tasks, exit_flag, callerVars, results>>

\* Slip: join_cv is not notified.
DecrementSilently(w) ==
    /\ wpc[w] = "done"
    /\ waitgroups' = [id \in DOMAIN waitgroups |->
                         IF \E t \in wtask[w] : t.id = id
                         THEN waitgroups[id] - 1 ELSE waitgroups[id]]
    /\ wtask' = [wtask EXCEPT ![w] = {}]
    /\ GotoW(w, "loop")
    /\ UNCHANGED <<tasks, exit_flag, callerVars, results>>

Decrement(w) ==
    /\ wpc[w] = "done"
    /\ waitgroups' = [id \in DOMAIN waitgroups |->
                         IF \E t \in wtask[w] : t.id = id
                         THEN waitgroups[id] - 1 ELSE waitgroups[id]]
    /\ wtask' = [wtask EXCEPT ![w] = {}]
    /\ GotoW(w, "signal")
    /\ UNCHANGED <<tasks, exit_flag, callerVars, results>>

\* join_cv.notify_all(): every sleeping caller looks at its group again.
NotifyJoiners(w) ==
    /\ wpc[w] = "signal"
    /\ GotoW(w, "loop")
    /\ cpc' = [c \in Callers |-> IF cpc[c] = "asleep" THEN "join" ELSE cpc[c]]
    /\ UNCHANGED <<poolVars, wtask, next_query_id, qid, sent, returned, results>>

Worker(w) == \/ WorkerWait(w) \/ WorkerExit(w) \/ Take(w) \/ Run(w)
             \/ Decrement(w) \/ NotifyJoiners(w)

-----------------------------------------------------------------------------
(* The destructor sets exit_flag and notifies all workers; the manager is  *)
(* destroyed when no caller is inside handle_query.                        *)

\* Slip: sleeping workers are not notified.
ShutdownSilently ==
    /\ ~exit_flag /\ \A c \in Callers : cpc[c] = "idle"
    /\ exit_flag' = TRUE
    /\ UNCHANGED <<tasks, waitgroups, workerVars, callerVars, results>>

Shutdown ==
    /\ ~exit_flag /\ \A c \in Callers : cpc[c] = "idle"
    /\ exit_flag' = TRUE
    /\ wpc' = [w \in Workers |-> IF wpc[w] = "asleep" THEN "loop" ELSE wpc[w]]
    /\ UNCHANGED <<tasks, waitgroups, wtask, callerVars, results>>

\* A condition variable may wake a waiter for no reason.
WakeUp ==
    \/ /\ \E w \in Workers : wpc[w] = "asleep" /\ GotoW(w, "loop")
       /\ UNCHANGED <<poolVars, wtask, callerVars, results>>
    \/ /\ \E c \in Callers : cpc[c] = "asleep" /\ GotoC(c, "join")
       /\ UNCHANGED <<poolVars, workerVars, next_query_id, qid, sent, returned, results>>

Next == \/ \E c \in Callers : Caller(c)
        \/ \E w \in Workers : Worker(w)
        \/ Shutdown
        \/ WakeUp

Spec == Init /\ [][Next]_vars

(* Threads are scheduled.  Nothing is assumed of spurious wake-ups, nor     *)
(* that the manager is ever destroyed.                                      *)
Fairness == /\ \A c \in Callers : WF_vars(Submit(c) \/ NotifyOne(c) \/ JoinWait(c) \/ JoinReturn(c))
            /\ \A w \in Workers : WF_vars(Worker(w))

FairSpec == Spec /\ Fairness

-----------------------------------------------------------------------------
(* Properties.                                                             *)

\* Every variable has its type.
TypeOK ==
    /\ tasks \in Seq(Task)
    /\ DOMAIN waitgroups \subseteq Qids /\ \A id \in DOMAIN waitgroups : waitgroups[id] \in Nat
    /\ exit_flag \in BOOLEAN
    /\ next_query_id \in 0..MaxQueries
    /\ wpc \in [Workers -> {"loop", "asleep", "run", "done", "signal", "gone"}]
    /\ wtask \in [Workers -> SUBSET Task]
    /\ cpc \in [Callers -> {"idle", "submit", "notify", "join", "asleep"}]
    /\ qid \in [Callers -> Qids \cup {NoQid}]
    /\ sent \in [Callers -> 0..NumChunks]
    /\ collected \in [Qids -> SUBSET Chunks] /\ failed \in [Qids -> SUBSET Chunks]
    /\ returned \subseteq Qids

Queued(id)  == {i \in DOMAIN tasks : tasks[i].id = id}
Running(id) == {w \in Workers : \E t \in wtask[w] : t.id = id}

\* A wait group counts exactly the tasks of its id that are queued or running;
\* a group that is gone has none.
GroupsCountTasks ==
    \A id \in Qids : Pending(id) = Cardinality(Queued(id)) + Cardinality(Running(id))

\* Once handle_query has returned, no task of that query is left that could
\* still touch the query's AST and collector, which lived on its stack; and
\* every chunk has answered or failed, so no page is missing from the result.
ReturnedIsComplete ==
    \A q \in returned :
        /\ Queued(q) = {} /\ Running(q) = {}
        /\ collected[q] \cup failed[q] = Chunks

\* Nobody sleeps through a notification: a caller asleep on its group has tasks
\* left, or a worker is about to wake it.
NoLostWakeUp ==
    \A c \in Callers : cpc[c] = "asleep" =>
        Pending(qid[c]) # 0 \/ \E w \in Workers : wpc[w] = "signal"

\* Every query returns, whatever other queries do and even if tasks throw.
QueryReturns == \A q \in Qids : (next_query_id > q) ~> (q \in returned)

\* When the pool is destroyed its threads all end.
WorkersEnd == exit_flag ~> \A w \in Workers : wpc[w] = "gone"
=============================================================================
