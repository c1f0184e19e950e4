------------------------------ MODULE Serving -------------------------------
(***************************************************************************)
(* A search request from the browser to the page it gets: the threads of the  *)
(* HTML server (htmlserver/main.cpp), the fan-out of the query handler         *)
(* (query/query_handler.h), the index server of every machine and the          *)
(* connections to it (query/index_server.h, lib/rpc_listener.h), and how a      *)
(* machine answers from its chunks (index_manager/index_manager.h).            *)
(*                                                                         *)
(* One machine, Self, is followed as it serves browsers; the others answer its *)
(* queries and may die.  Thread pools (lib/thread_pool.h) are queues with a     *)
(* bound on the tasks taken from them and not yet finished.                   *)
(***************************************************************************)
EXTENDS RpcWire, HttpFront, QuickSort

CONSTANTS Requests, Machines, Self,
          Sent,                     \* what a browser may send: texts
          Hits,                     \* Hits[m][term]: for each chunk, its pages
          Understood,               \* the terms parse_query_tree takes
          HTMLSERVER_THREADS,
          QUERY_HANDLER_THREADS,    \* NUM_MACHINES in the code
          INDEX_SERVER_NUM_THREADS,
          RANKED_ON_EACH, NUM_RESULTS_RETURN,
          MaxDeaths,                \* bound on machines that die
          MaxPauses,                \* bound on the reads of one answer that time out
          Unset                     \* a promise without a value

ASSUME ServingAssumption ==
    /\ Self \in Machines
    /\ {HTMLSERVER_THREADS, QUERY_HANDLER_THREADS, INDEX_SERVER_NUM_THREADS} \subseteq Nat \ {0}
    /\ RANKED_ON_EACH \in U32 /\ NUM_RESULTS_RETURN \in 0..RANKED_ON_EACH
    /\ IsFiniteSet(Machines) /\ MaxPauses \in Nat

ASSUME SentAssumption == Sent \subseteq Seq(0..255)      \* texts are bytes

ASSUME HitsAssumption ==
    /\ Hits \in [ Machines -> [ Understood -> Seq(Seq(LeanPage)) ] ]
    /\ Unset \notin Seq(LeanPage)

VARIABLES sent,         \* what the browser of a request sends
          htmlQueue,    \* requests accepted and not yet taken by a thread
          stage,        \* of a request: "new", "waiting", "gathering", "done"
          taskQueue,    \* the query handler's pool: <<request, machine>> not yet taken
          task,         \* task[r][m]: "none", "queued", "local", "remote", "done"
          promise,      \* promise[r][m]: the pages the task delivers
          arrived,      \* arrived[m]: requests whose query text machine m has received
          serverQueue,  \* serverQueue[m]: the index server's pool, requests not yet taken
          serving,      \* serving[m]: requests being answered by its threads
          stream,       \* stream[r][m]: the pages whose bytes m has written to its connection
          results,      \* of a request: what the query handler returned
          reply,        \* of a request: what the browser got
          up,           \* machines alive
          lossy         \* machines whose connection may pause inside an answer

front  == << sent, htmlQueue, stage, results, reply >>
tasks  == << taskQueue, task, promise >>
server == << arrived, serverQueue, serving, stream >>
faults == << up, lossy >>
vars   == << front, tasks, server, faults >>

PerMachine(v) == [ r \in Requests |-> [ m \in Machines |-> v ] ]

Init ==
    /\ sent \in [ Requests -> Sent ]
    /\ stage = [ r \in Requests |-> "new" ] /\ htmlQueue = << >>
    /\ results = [ r \in Requests |-> Unset ] /\ reply = [ r \in Requests |-> Unset ]
    /\ taskQueue = << >> /\ task = PerMachine("none") /\ promise = PerMachine(Unset)
    /\ arrived = [ m \in Machines |-> {} ] /\ serverQueue = [ m \in Machines |-> << >> ]
    /\ serving = [ m \in Machines |-> {} ] /\ stream = PerMachine(Unset)
    /\ up = Machines /\ lossy \in SUBSET (Machines \ {Self})

-----------------------------------------------------------------------------
(* Scores, and what a machine finds                                          *)

Better(p, q) == \/ p.score[1] > q.score[1]
                \/ p.score[1] = q.score[1] /\ p.score[2] > q.score[2]

(* lib/algorithm.h's sort, which compares numbers here: how many pages are     *)
(* worse.                                                                   *)
Sorted(pages) ==
    LET worse(p) == Cardinality({ i \in DOMAIN pages : Better(p, pages[i]) })
        order    == sort([ i \in DOMAIN pages |-> [ score |-> worse(pages[i]), page |-> pages[i] ] ])
    IN  [ i \in DOMAIN order |-> order[i].page ]

Cut(pages, n) == SubSeq(pages, 1, Min({n, Len(pages)}))

(* The orders in which chunks may deliver.                                   *)
Orders(m, term) == SetToSeqs(DOMAIN Hits[m][term])

(* Slip: the pages are cut to size as they come, then sorted.                *)
CutThenSort ==
    [ m \in Machines |-> [ term \in Understood |->
        { Sorted(Cut(FlattenSeq([ i \in DOMAIN o |-> Hits[m][term][o[i]] ]), RANKED_ON_EACH)) : o \in Orders(m, term) } ] ]

(* handle_query: the chunks append to one vector in any order, which is then   *)
(* sorted and cut.  Every answer it may give.                                *)
handle_query ==
    [ m \in Machines |-> [ term \in Understood |->
        { Cut(Sorted(FlattenSeq([ i \in DOMAIN o |-> Hits[m][term][o[i]] ])), RANKED_ON_EACH) : o \in Orders(m, term) } ] ]

-----------------------------------------------------------------------------
(* The HTML server                                                          *)

(* handle_client, up to the branch: what the server makes of a text.          *)
HandleClient ==
    [ text \in Sent |->
        LET path == parse_path(read_request(text))
        IN  [ path  |-> path,
              term  |-> remove_special_chars(parse_query_term(path)),
              reply |-> IF read_request(text) = << >> THEN "closed" ELSE Reply(path) ] ]

Path(r)     == HandleClient[sent[r]].path
Term(r)     == HandleClient[sent[r]].term
IsSearch(r) == HandleClient[sent[r]].reply = "search"

Accept(r) ==
    /\ stage[r] = "new"
    /\ stage' = [ stage EXCEPT ![r] = "waiting" ] /\ htmlQueue' = Append(htmlQueue, r)
    /\ UNCHANGED << sent, results, reply, tasks, server, faults >>

HtmlThreadFree == Cardinality({ r \in Requests : stage[r] = "gathering" }) < HTMLSERVER_THREADS

(* A request that is no search is answered, or just closed, by the thread that *)
(* took it.  So is a query that does not parse, with no results.              *)
TakeOther ==
    /\ HtmlThreadFree /\ htmlQueue # << >>
    /\ LET r == Head(htmlQueue)
       IN  /\ ~(IsSearch(r) /\ Term(r) \in Understood)
           /\ results' = IF IsSearch(r) THEN [ results EXCEPT ![r] = << >> ] ELSE results
           /\ reply' = [ reply EXCEPT ![r] = IF IsSearch(r) THEN ShowPage(Path(r), << >>)
                                             ELSE HandleClient[sent[r]].reply ]
           /\ stage' = [ stage EXCEPT ![r] = "done" ]
    /\ htmlQueue' = Tail(htmlQueue)
    /\ UNCHANGED << sent, tasks, server, faults >>

(* get_results: one task per machine into the pool, in the order of machines;  *)
(* the tasks of another request may come between them, which only the order    *)
(* in which requests are taken decides here.                                 *)
MachineOrder == SetToSeq(Machines)

TakeSearch ==
    /\ HtmlThreadFree /\ htmlQueue # << >>
    /\ LET r == Head(htmlQueue)
       IN  /\ IsSearch(r) /\ Term(r) \in Understood
           /\ stage' = [ stage EXCEPT ![r] = "gathering" ]
           /\ taskQueue' = taskQueue \o [ i \in DOMAIN MachineOrder |-> << r, MachineOrder[i] >> ]
           /\ task' = [ task EXCEPT ![r] = [ m \in Machines |-> "queued" ] ]
    /\ htmlQueue' = Tail(htmlQueue)
    /\ UNCHANGED << sent, results, reply, promise, server, faults >>

(* Slip: the joined hits are cut to size and never sorted.                   *)
FirstOf(all) == Cut(all, NUM_RESULTS_RETURN)

(* All futures are there, in whatever order they came: the hits are joined in  *)
(* the order of machines, sorted and cut ...                                 *)
BestOf(all) == Cut(Sorted(all), NUM_RESULTS_RETURN)

(* ... and the page is written.                                             *)
Gather(r) ==
    /\ stage[r] = "gathering" /\ \A m \in Machines : promise[r][m] # Unset
    /\ LET best == BestOf(FlattenSeq([ i \in DOMAIN MachineOrder |-> promise[r][MachineOrder[i]] ]))
       IN  /\ results' = [ results EXCEPT ![r] = best ]
           /\ reply' = [ reply EXCEPT ![r] = ShowPage(Path(r), best) ]
    /\ stage' = [ stage EXCEPT ![r] = "done" ]
    /\ UNCHANGED << sent, htmlQueue, tasks, server, faults >>

-----------------------------------------------------------------------------
(* The query handler's pool                                                 *)

Deliver(r, m, pages) ==
    /\ promise' = [ promise EXCEPT ![r][m] = pages ]
    /\ task' = [ task EXCEPT ![r][m] = "done" ]

Running == { x \in Requests \X Machines : task[x[1]][x[2]] \in {"local", "remote"} }

QueryThreadFree == taskQueue # << >> /\ Cardinality(Running) < QUERY_HANDLER_THREADS

(* The own index is asked through the index server's pool, without a socket.   *)
StartLocal ==
    /\ QueryThreadFree /\ Head(taskQueue)[2] = Self
    /\ LET r == Head(taskQueue)[1]
       IN  /\ task' = [ task EXCEPT ![r][Self] = "local" ]
           /\ serverQueue' = [ serverQueue EXCEPT ![Self] = Append(@, r) ]
    /\ taskQueue' = Tail(taskQueue)
    /\ UNCHANGED << front, promise, arrived, serving, stream, faults >>

(* connect_to_host and send_string to another machine                         *)
StartRemote ==
    /\ QueryThreadFree
    /\ LET r == Head(taskQueue)[1]
           m == Head(taskQueue)[2]
       IN  /\ m # Self /\ m \in up
           /\ task' = [ task EXCEPT ![r][m] = "remote" ]
           /\ arrived' = [ arrived EXCEPT ![m] = @ \cup {r} ]
    /\ taskQueue' = Tail(taskQueue)
    /\ UNCHANGED << front, promise, serverQueue, serving, stream, faults >>

(* No connection within its timeout, or none at all: no hits.                *)
ConnectFails ==
    /\ QueryThreadFree /\ Head(taskQueue)[2] # Self
    /\ Deliver(Head(taskQueue)[1], Head(taskQueue)[2], << >>)
    /\ taskQueue' = Tail(taskQueue)
    /\ UNCHANGED << front, server, faults >>

(* What reading an answer may yield: all of it; what came before the end, when  *)
(* the machine died over it; and, when reads ran into their timeout, whatever   *)
(* the reads that follow make of the bytes from there.                       *)
Answers == UNION { handle_query[m][term] : m \in Machines, term \in Understood }

Received(pages, n, pauses) == recv_query_data(Opened(SubSeq(send_query_response(pages), 1, n), pauses))

Pauses(n) == { {} } \cup { Range(at) : at \in [ 1..MaxPauses -> 0..(n - 1) ] }

Readings ==
    [ x \in { << pages, died, paused >> : pages \in Answers, died \in BOOLEAN, paused \in BOOLEAN } |->
        LET all == Len(send_query_response(x[1]))
        IN  { Received(x[1], n, p) : n \in IF x[2] THEN 0..all ELSE { all },
                                     p \in IF x[3] THEN Pauses(all) ELSE { {} } } ]

ReadAnswer(r, m) ==
    /\ task[r][m] = "remote" /\ stream[r][m] # Unset
    /\ \E pages \in Readings[<< stream[r][m], m \notin up, m \in lossy >>] : Deliver(r, m, pages)
    /\ UNCHANGED << front, taskQueue, server, faults >>

(* The count did not come within the receive timeout, or the connection broke. *)
AnswerTimesOut(r, m) ==
    /\ task[r][m] = "remote"
    /\ Deliver(r, m, << >>)
    /\ UNCHANGED << front, taskQueue, server, faults >>

-----------------------------------------------------------------------------
(* The index servers.  Their listener hands a connection to a thread of its    *)
(* own pool, which reads the query and passes it to the query pool.           *)

ReceiveQuery(m, r) ==
    /\ m \in up /\ r \in arrived[m]
    /\ arrived' = [ arrived EXCEPT ![m] = @ \ {r} ]
    /\ serverQueue' = [ serverQueue EXCEPT ![m] = Append(@, r) ]
    /\ UNCHANGED << front, tasks, serving, stream, faults >>

(* Slip: queries are answered by the pool whose threads wait for the answers.  *)
SharedThreadFree(m) ==
    Cardinality(serving[m]) + (IF m = Self THEN Cardinality(Running) ELSE 0) < QUERY_HANDLER_THREADS

ServerThreadFree(m) == Cardinality(serving[m]) < INDEX_SERVER_NUM_THREADS

TakeQuery(m) ==
    /\ m \in up /\ serverQueue[m] # << >> /\ ServerThreadFree(m)
    /\ serving' = [ serving EXCEPT ![m] = @ \cup { Head(serverQueue[m]) } ]
    /\ serverQueue' = [ serverQueue EXCEPT ![m] = Tail(@) ]
    /\ UNCHANGED << front, tasks, arrived, stream, faults >>

(* The answer goes into the promise of local_retrieve, or onto the connection,  *)
(* whether the reader is still there or not.                                 *)
AnswerQuery(m, r) ==
    /\ m \in up /\ r \in serving[m]
    /\ serving' = [ serving EXCEPT ![m] = @ \ {r} ]
    /\ \E pages \in handle_query[m][Term(r)] :
         IF m = Self THEN Deliver(r, m, pages) /\ UNCHANGED stream
         ELSE stream' = [ stream EXCEPT ![r][m] = pages ] /\ UNCHANGED << task, promise >>
    /\ UNCHANGED << front, taskQueue, arrived, serverQueue, faults >>

(* handle_query throws.  Asked locally the exception passes through the future  *)
(* to the task, which delivers no hits.                                      *)
QueryThrows(r) ==
    /\ r \in serving[Self]
    /\ serving' = [ serving EXCEPT ![Self] = @ \ {r} ]
    /\ Deliver(r, Self, << >>)
    /\ UNCHANGED << front, taskQueue, arrived, serverQueue, stream, faults >>

(* Another machine dies: by an exception in a pool thread, which nothing        *)
(* catches there, or in any other way.                                       *)
MachineDies(m) ==
    /\ m \in up \ {Self} /\ Cardinality(Machines \ up) < MaxDeaths
    /\ up' = up \ {m}
    /\ arrived' = [ arrived EXCEPT ![m] = {} ] /\ serving' = [ serving EXCEPT ![m] = {} ]
    /\ serverQueue' = [ serverQueue EXCEPT ![m] = << >> ]
    /\ UNCHANGED << front, tasks, stream, lossy >>

(* A listener's poll runs into its second and it looks again.                *)
Poll == UNCHANGED vars

Html    == TakeOther \/ TakeSearch \/ \E r \in Requests : Gather(r)
Handler == StartLocal \/ StartRemote \/ ConnectFails
Remote  == \E r \in Requests, m \in Machines : ReadAnswer(r, m) \/ AnswerTimesOut(r, m)
Servers == \E m \in Machines : TakeQuery(m) \/ \E r \in Requests : ReceiveQuery(m, r) \/ AnswerQuery(m, r)

Next == \/ \E r \in Requests : Accept(r) \/ QueryThrows(r)
        \/ Html \/ Handler \/ Remote \/ Servers
        \/ \E m \in Machines : MachineDies(m)
        \/ Poll

(* Threads run: the listener accepts, a free thread takes what is queued, the   *)
(* own index answers, and a read on a connection ends, if only by its timeout.  *)
(* Nothing is assumed of the other machines.  Each condition names the one      *)
(* variable in which the step it is about shows; no other action of Next makes  *)
(* that change, so it is fairness of the action.                             *)
Accepted(r)   == stage[r] = "new" /\ stage' = [ stage EXCEPT ![r] = "waiting" ]
Dequeued      == HtmlThreadFree /\ htmlQueue # << >> /\ htmlQueue' = Tail(htmlQueue)
Replied(r)    == /\ stage[r] = "gathering" /\ \A m \in Machines : promise[r][m] # Unset
                 /\ stage' = [ stage EXCEPT ![r] = "done" ]
Started       == QueryThreadFree /\ taskQueue' = Tail(taskQueue)
Ended(r, m)   == task[r][m] = "remote" /\ task' = [ task EXCEPT ![r][m] = "done" ]
ServerStarted == /\ serverQueue[Self] # << >> /\ ServerThreadFree(Self)
                 /\ serverQueue' = [ serverQueue EXCEPT ![Self] = Tail(@) ]
ServerEnded(r) == r \in serving[Self] /\ serving' = [ serving EXCEPT ![Self] = @ \ {r} ]

Fairness ==
    /\ WF_htmlQueue(Dequeued) /\ WF_taskQueue(Started) /\ WF_serverQueue(ServerStarted)
    /\ \A r \in Requests : WF_stage(Accepted(r)) /\ WF_stage(Replied(r)) /\ WF_serving(ServerEnded(r))
    /\ \A r \in Requests, m \in Machines \ {Self} : WF_task(Ended(r, m))

Spec == Init /\ [][Next]_vars /\ Fairness

-----------------------------------------------------------------------------
(* Properties                                                               *)

AllHits(m, term) == FlattenSeq(Hits[m][term])

NoQuery(text) == HandleClient[text].reply # "search" \/ HandleClient[text].term \notin Understood

HitsFor(text, m) == AllHits(m, HandleClient[text].term)

SG == INSTANCE ScatterGather
      WITH Order <- MachineOrder, Each <- RANKED_ON_EACH, Limit <- NUM_RESULTS_RETURN,
           Offers <- HitsFor, Rejected <- NoQuery,
           part <- promise, answer <- results, question <- sent, weak <- lossy

(* Whatever the threads, timeouts and failures, the service behaves as the      *)
(* abstract scatter and gather: each machine contributes once and never          *)
(* changes it, broken or late answers contribute a part or nothing, and the      *)
(* answer is the best of what was contributed (query_handler.h:99).            *)
ImplementsScatterGather == SG!Spec

(* When every machine delivered all it had to, the answer is the best of all     *)
(* pages in all chunks of all machines: the two cuts, to RANKED_ON_EACH at each  *)
(* machine (index_manager.h:119) and to NUM_RESULTS_RETURN (query_handler.h:104), *)
(* lose nothing that belongs in it.                                          *)
BestOverall ==
    \A r \in Requests :
        LET all == FlattenSeq([ i \in DOMAIN MachineOrder |-> AllHits(MachineOrder[i], Term(r)) ])
        IN  /\ stage[r] = "done" /\ ~NoQuery(sent[r]) /\ lossy = {}
            /\ \A m \in Machines : Len(promise[r][m]) = Min({ RANKED_ON_EACH, Len(AllHits(m, Term(r))) })
            => SG!IsBestOf(results[r], all, NUM_RESULTS_RETURN)

(* Following Next from the first page shows every result once, in order, and     *)
(* Previous leads back; every linked page asks the same query (main.cpp:139).   *)
Follows(path, all) ==
    LET shows    == ShowPage(path, all)
        leads(link, step) == /\ parse_query_term(link) = parse_query_term(path)
                             /\ get_page_number(link) = get_page_number(path) + step
    IN  /\ \A i \in DOMAIN shows.next : leads(shows.next[i], 1) /\ shows.shown # << >>
        /\ \A i \in DOMAIN shows.prev : leads(shows.prev[i], -1)
        /\ shows.prev = << >> => IsPrefix(shows.shown, all)

PagesCoverResults ==
    \A r \in Requests : stage[r] = "done" /\ IsSearch(r) =>
        LET base    == BaseUrl(Path(r))
            n       == (Len(results[r]) + PAGE_SIZE - 1) \div PAGE_SIZE
            page(i) == ShowPage(PageUrl(base, i), results[r])
        IN  /\ Follows(Path(r), results[r])
            /\ \A i \in 1..n : (page(i).next # << >>) = (i < n)
            /\ FlattenSeq([ i \in 1..n |-> page(i).shown ]) = results[r]
            /\ reply[r] = ShowPage(Path(r), results[r])

(* Every request is answered or closed, also when machines die, answers come     *)
(* late or never, and more requests wait than there are threads: no thread       *)
(* waits for ever for work that waits for a thread (index_server.h:62).        *)
EveryRequestAnswered == \A r \in Requests : <>(stage[r] = "done")
=============================================================================
