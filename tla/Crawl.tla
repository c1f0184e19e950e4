-------------------------------- MODULE Crawl --------------------------------
(***************************************************************************)
(* The crawl of several machines: the way of a URL from a page one machine      *)
(* fetched to the frontier of the machine its hash names, and from there to the  *)
(* next fetch (crawler/crawler_worker.h, network_util.h, bucket_manager.h,       *)
(* lib/rpc_crawler.h, parser/url_buffers.h, url_store/url_store.cpp).            *)
(*                                                                         *)
(* One worker stands for those of a machine.  What the workers do to each other  *)
(* in the carousel, its full slots and the time between two requests are in      *)
(* Frontier: here a worker takes any target.  What threads do inside the store,   *)
(* and how its file is written, is in UrlStore: here it is saved in one step.    *)
(***************************************************************************)
EXTENDS UrlBuffers, Robots, Bags

CONSTANTS
    NUM_MACHINES, PRIORITY_BUCKETS,
    SEED_LIST,                  \* a sequence of URLs
    OwnerOf, PriorityOf,        \* the URL hash and the score, as functions of a URL
    MaxSeedDistance,            \* links farther from the seeds are scored too low to keep
    STARTUP_BATCH_SIZE, BATCH_SIZE, STARTUP_SENDS,
    Web,                        \* Web[host][path]: what a server answers
    Mortal,                     \* bound: the machines that save their state and may be killed
    MaxFaults, MaxSaves,        \* bounds: failures of any kind, kills among them; rounds of persist
    Means                       \* for the properties: the URL a spelling of a link stands for

Machines == 1..NUM_MACHINES
Levels   == 0..(PRIORITY_BUCKETS - 1)

ASSUME CrawlAssumption ==
    /\ {NUM_MACHINES, PRIORITY_BUCKETS, STARTUP_BATCH_SIZE, BATCH_SIZE} \subseteq Nat \ {0}
    /\ Mortal \subseteq Machines
    /\ {MaxSeedDistance, STARTUP_SENDS, MaxFaults, MaxSaves} \subseteq Nat

Wire == INSTANCE RpcWire WITH MAX_STRING <- MAX_URL

VARIABLES
    buckets,    \* [machine][level]: a sequence of targets
    carousel,   \* [machine]: a bag of targets
    hand,       \* [machine]: the target its worker fetches, or nothing
    robots,     \* [machine]: its worker's robots.txt cache
    store,      \* [machine]: lower case URL to seed and domain distance, crawled
    outbound,   \* [machine][machine]: update requests not yet sent
    num_sent,   \* [machine], up to STARTUP_SENDS
    wire,       \* a bag of [from, to, reqs]: batches on their way
    files,      \* [machine][level]: the targets written, or being written, to a file
    round,      \* [machine]: half steps of the persist thread; odd inside a file
    saved,      \* [machine]: the store's file
    life, faults,
    reloaded,   \* observer: URLs a machine found in its bucket files
    fetched     \* observer: a bag of page requests made

frontier == << buckets, carousel, hand, robots >>
outgoing == << outbound, num_sent, wire >>
disk     == << files, round, saved >>
vars     == << frontier, outgoing, store, disk, life, faults, reloaded, fetched >>

Nobody == << >>

-----------------------------------------------------------------------------
(* https_get: the fifth answer is the last.                                  *)

Reply(at) == IF at.host \in DOMAIN Web /\ at.path \in DOMAIN Web[at.host] THEN Web[at.host][at.path]
             ELSE [ k |-> "gone" ]

Redirected(at, location) ==
    LET slash == FirstIndex(location, {"/"}, 9)
    IN  CASE StartsWith(location, "https://") ->
               [ host |-> SubSeq(location, 9, slash - 1), path |-> From(location, slash + 1) ]
          [] StartsWith(location, "/") -> [ at EXCEPT !.path = From(location, 2) ]
          [] OTHER                     -> [ at EXCEPT !.path = location ]

(* The places asked one after the other: the robots.txt of those behind the first *)
(* is not looked at.                                                         *)
Trail(host, path) ==
    LET follow(asked, i) == With(Reply(Last(asked)), LAMBDA r :
            IF r.k = "moved" THEN Append(asked, Redirected(Last(asked), r.location)) ELSE asked)
    IN  FoldLeft(follow, << [ host |-> host, path |-> path ] >>, << 1, 2, 3, 4 >>)

https_get(host, path) ==
    LET last == Reply(Last(Trail(host, path)))
    IN  IF last.k = "moved" THEN [ k |-> "gone" ] ELSE last

Path(url)  == From(url, Len(Scheme(url)) + Len(extract_host(url)) + 1)
Page(url)  == https_get(extract_host(url), From(Path(url), 2))
Requests(url) == Trail(extract_host(url), From(Path(url), 2))
File(host) == LET reply == https_get(host, "robots.txt") IN IF reply.k = "robots" THEN reply.file ELSE << >>

-----------------------------------------------------------------------------
(* Targets and their place in a bucket file, in the byte order of the machine.   *)

Target(url, s, d) == [ domain |-> extract_domain(url), url |-> url, seed_distance |-> s, domain_dist |-> d ]

LittleEndian(n, k) == [ i \in 1..k |-> (n \div 256^(i - 1)) % 256 ]
Value(bytes)       == FoldRight(LAMBDA b, n : 256 * n + b, bytes, 0)
Letters(s)         == [ i \in 1..Len(s) |-> Char(s, i) ]

serialize_crawl_target(t) ==
    LittleEndian(Len(t.domain), 4) \o Letters(t.domain) \o LittleEndian(Len(t.url), 4) \o Letters(t.url)
        \o LittleEndian(t.seed_distance, 2) \o LittleEndian(t.domain_dist, 2)

(* From offset at: whether a whole record is there, where it ends, and what has   *)
(* been filled in of the target, which begins empty.                          *)
deserialize_crawl_target(buf, at) ==
    LET room(i, k) == i + k <= Len(buf)
        part(i, k) == SubSeq(buf, i + 1, i + k)
        len(i)     == Value(part(i, 4))
        url        == at + 4 + len(at)
        dists      == url + 4 + len(url)
        hasDomain  == room(at, 4) /\ room(at + 4, len(at))
        hasUrl     == hasDomain /\ room(url, 4) /\ room(url + 4, len(url))
        whole      == hasUrl /\ room(dists, 4)
    IN  [ whole  |-> whole,
          next   |-> IF whole THEN dists + 4 ELSE Len(buf),
          target |-> [ domain        |-> IF hasDomain THEN Text(part(at + 4, len(at))) ELSE "",
                       url           |-> IF hasUrl THEN Text(part(url + 4, len(url))) ELSE "",
                       seed_distance |-> IF whole THEN Value(part(dists, 2)) ELSE 0,
                       domain_dist   |-> IF whole THEN Value(part(dists + 2, 2)) ELSE 0 ] ]

Serialized(targets) == FlattenSeq([ i \in DOMAIN targets |-> serialize_crawl_target(targets[i]) ])

(* Slip: a record that ends where the file ends is taken for a torn one.         *)
LastRecordTorn(buf) ==
    LET from[at \in 0..Len(buf)] ==
            IF at = Len(buf) THEN << >>
            ELSE With(deserialize_crawl_target(buf, at),
                      LAMBDA r : IF r.whole /\ r.next < Len(buf) THEN << r.target >> \o from[r.next] ELSE << >>)
    IN  from[0]

load_disk_bucket(buf) ==
    LET from[at \in 0..Len(buf)] ==
            IF at = Len(buf) THEN << >>
            ELSE With(deserialize_crawl_target(buf, at),
                      LAMBDA r : IF r.whole THEN << r.target >> \o from[r.next] ELSE << >>)
    IN  from[0]

-----------------------------------------------------------------------------
(* The store and the frontier take an update; here is a machine's              *)
(* [store, buckets].  The store's own limits are in UrlStore.                 *)

get_destination_machine_from_url(url) == OwnerOf[url]

get_priority_bucket(url, s) == IF s > MaxSeedDistance THEN PRIORITY_BUCKETS ELSE PriorityOf[url]

AddToStore(here, key, r, p) ==
    [ store   |-> here.store @@ (key :> [ seed |-> r.seed_list_url_hops, domain |-> r.seed_list_domain_hops,
                                          crawled |-> FALSE ]),
      buckets |-> [ here.buckets EXCEPT
                        ![p] = Append(@, Target(r.url, r.seed_list_url_hops, r.seed_list_domain_hops)) ] ]

update_url(here, r) ==
    LET key == lowercase_url(r.url)
        p   == get_priority_bucket(r.url, r.seed_list_url_hops)
    IN  CASE key \in DOMAIN here.store ->
               [ here EXCEPT !.store[key].seed   = Min({@, r.seed_list_url_hops}),
                             !.store[key].domain = Min({@, r.seed_list_domain_hops}) ]
          [] key \notin DOMAIN here.store /\ p \in Levels /\ ~is_nsfw_url(key) -> AddToStore(here, key, r, p)
          [] OTHER -> here

(* A batch, read off the wire as it was written to it.                         *)
Spelled(r) == [ r EXCEPT !.url = Letters(@), !.anchor_text = [ i \in DOMAIN @ |-> Letters(@[i]) ] ]
Joined(r)  == [ r EXCEPT !.url = Text(@), !.anchor_text = [ i \in DOMAIN @ |-> Text(@[i]) ] ]

Received(reqs) ==
    LET bytes == Wire!send_batch_urlstore_update([ i \in DOMAIN reqs |-> Spelled(reqs[i]) ])
        read  == Wire!recv_batch_urlstore_update(Wire!Opened(bytes, {}))
    IN  IF read.fd.ok THEN [ i \in DOMAIN read.val |-> Joined(read.val[i]) ] ELSE << >>

-----------------------------------------------------------------------------
(* OutboundUrlBuffer; from is [store, buckets, outbound, num_sent, wire] of m.   *)

Full(from, n) ==
    \/ Len(from.outbound[n]) >= BATCH_SIZE
    \/ Len(from.outbound[n]) >= STARTUP_BATCH_SIZE /\ from.num_sent < STARTUP_SENDS

flush(m, from, n) ==
    LET reqs  == from.outbound[n]
        here  == [ store |-> from.store, buckets |-> from.buckets ]
        after == IF n = m THEN FoldLeft(update_url, here, reqs) ELSE here
    IN  [ store |-> after.store, buckets |-> after.buckets, outbound |-> [ from.outbound EXCEPT ![n] = << >> ],
          num_sent |-> Min({from.num_sent + 1, STARTUP_SENDS}),
          wire |-> IF n = m THEN from.wire ELSE from.wire (+) SetToBag({[ from |-> m, to |-> n, reqs |-> reqs ]}) ]

add_url(m, from, r) ==
    LET n     == get_destination_machine_from_url(r.url)
        added == [ from EXCEPT !.outbound[n] = Append(@, r) ]
    IN  IF Full(added, n) THEN flush(m, added, n) ELSE added

(* One batch of links: machine by machine, in the order found.                *)
pass_rpcs(m, from, reqs) ==
    LET to(n) == SelectSeq(reqs, LAMBDA r : get_destination_machine_from_url(r.url) = n)
    IN  FoldLeft(LAMBDA s, r : add_url(m, s, r), from, FlattenSeq([ n \in Machines |-> to(n) ]))

(* The requests a page leads to, batch by batch, for the pages a crawl can see.  *)
Crawlable == { u \in DOMAIN OwnerOf : Page(u).k = "page" }

Read == [ u \in Crawlable |-> [ s \in 0..MaxHops |-> [ d \in 0..s |->
            parse_page(Page(u).tokens, u, s, d) ] ] ]

Made == [ u \in Crawlable |-> [ s \in 0..MaxHops |-> [ d \in 0..s |->
            With(Read[u][s][d].batches, LAMBDA texts : [ i \in DOMAIN texts |-> add_urls(texts[i]) ]) ] ] ]

-----------------------------------------------------------------------------
(* The constructor's seeds                                                    *)
Seeds(m) ==
    LET own == SelectSeq(SEED_LIST, LAMBDA u : get_destination_machine_from_url(u) = m)
    IN  [ i \in DOMAIN own |-> Target(own[i], 0, 0) ]

Started(m, content) == [ p \in Levels |-> (IF p = 0 THEN Seeds(m) ELSE << >>) \o content[p] ]

NoTargets == [ p \in Levels |-> << >> ]
NoBatch   == [ n \in Machines |-> << >> ]

Init ==
    /\ buckets = [ m \in Machines |-> Started(m, NoTargets) ] /\ carousel = [ m \in Machines |-> EmptyBag ]
    /\ hand = [ m \in Machines |-> Nobody ] /\ robots = [ m \in Machines |-> << >> ]
    /\ store = [ m \in Machines |-> << >> ] /\ outbound = [ m \in Machines |-> NoBatch ]
    /\ num_sent = [ m \in Machines |-> 0 ] /\ wire = EmptyBag
    /\ files = [ m \in Machines |-> NoTargets ] /\ round = [ m \in Machines |-> 0 ]
    /\ saved = [ m \in Machines |-> << >> ] /\ life = [ m \in Machines |-> 0 ] /\ faults = 0
    /\ reloaded = [ m \in Machines |-> {} ] /\ fetched = EmptyBag

(* The feeder moves all of the best bucket that holds anything.               *)
Feed(m) ==
    \E p \in Levels :
        /\ buckets[m][p] # << >> /\ \A q \in 0..(p - 1) : buckets[m][q] = << >>
        /\ carousel' = [ carousel EXCEPT ![m] =
               FoldLeft(LAMBDA bag, t : bag (+) SetToBag({t}), @, buckets[m][p]) ]
        /\ buckets' = [ buckets EXCEPT ![m][p] = << >> ]
        /\ UNCHANGED << hand, robots, outgoing, store, disk, life, faults, reloaded, fetched >>

Fault(happens) == faults' = faults + (IF happens THEN 1 ELSE 0) /\ faults' <= MaxFaults

Crawled(m, url) == LET key == lowercase_url(url) IN key \in DOMAIN store[m] /\ store[m][key].crawled

(* A worker takes a target, and lets it go if it is not to be fetched.           *)
Take(m, t) ==
    /\ hand[m] = Nobody /\ BagIn(t, carousel[m])
    /\ carousel' = [ carousel EXCEPT ![m] = @ (-) SetToBag({t}) ]
    /\ UNCHANGED << buckets, outgoing, store, disk, life, reloaded, fetched >>

Skip(m, t) ==
    /\ Take(m, t)
    /\ Scheme(t.url) # "https://" \/ is_nsfw_url(t.url) \/ Crawled(m, t.url)
    /\ UNCHANGED << hand, robots, faults >>

(* The robots.txt is fetched, in vain or not, if the cache does not hold it.     *)
CheckRobots(m, t) ==
    /\ Take(m, t)
    /\ Scheme(t.url) = "https://" /\ ~is_nsfw_url(t.url) /\ ~Crawled(m, t.url)
    /\ LET host == extract_host(t.url)
       IN  \E fails \in BOOLEAN :
             /\ fails => ~Cached(robots[m], host) /\ File(host) # << >>
             /\ Fault(fails)
             /\ robots' = [ robots EXCEPT ![m] = Use(@, host, IF fails THEN << >> ELSE File(host)) ]
    /\ hand' = [ hand EXCEPT ![m] = IF Allowed(robots'[m], Path(t.url)) THEN << t >> ELSE Nobody ]

(* The observer: the requests made for a target, and what was known of the       *)
(* robots.txt of the first one's host.                                        *)
Asked(m, t, trail) ==
    [ at |-> m, life |-> life[m], url |-> t.url, trail |-> trail, robots |-> Head(robots[m]).file # << >>,
      found |-> t.url \notin Range(SEED_LIST) \cup reloaded[m] ]

MarkCrawled(st, url) ==
    LET key == lowercase_url(url) IN IF key \in DOMAIN st THEN [ st EXCEPT ![key].crawled = TRUE ] ELSE st

Troubles == { [ k |-> "gone" ], [ k |-> "busy" ] }

(* 429 leaves the URL unmarked; thin pages and errors are not read.           *)
AfterAnswer(m, t, reply) ==
    With([ store |-> IF reply.k = "busy" THEN store[m] ELSE MarkCrawled(store[m], t.url),
           buckets |-> buckets[m], outbound |-> outbound[m], num_sent |-> num_sent[m], wire |-> wire ],
         LAMBDA from :
             IF reply.k # "page" THEN from
             ELSE FoldLeft(LAMBDA s, reqs : pass_rpcs(m, s, reqs), from,
                           Made[t.url][t.seed_distance][t.domain_dist]))

(* The answer is there, or the connection failed or the server was busy, at the    *)
(* first request or where it was redirected to.                              *)
Get(m) ==
    /\ hand' = [ hand EXCEPT ![m] = Nobody ]
    /\ \E t \in Range(hand[m]) : \E reply \in { Page(t.url) } \cup Troubles : \E n \in DOMAIN Requests(t.url) :
         /\ Fault(reply # Page(t.url))
         /\ reply = Page(t.url) => n = Len(Requests(t.url))
         /\ fetched' = fetched (+) SetToBag({Asked(m, t, SubSeq(Requests(t.url), 1, n))})
         /\ \E after \in { AfterAnswer(m, t, reply) } :
              /\ store' = [ store EXCEPT ![m] = after.store ]
              /\ buckets' = [ buckets EXCEPT ![m] = after.buckets ]
              /\ outbound' = [ outbound EXCEPT ![m] = after.outbound ]
              /\ num_sent' = [ num_sent EXCEPT ![m] = after.num_sent ]
              /\ wire' = after.wire
    /\ UNCHANGED << carousel, robots, disk, life, reloaded >>

(* client_handler at the other end, or a connection that failed.              *)
Deliver(b) ==
    \E after \in { FoldLeft(update_url, [ store |-> store[b.to], buckets |-> buckets[b.to] ], Received(b.reqs)) } :
        /\ wire' = wire (-) SetToBag({b})
        /\ store' = [ store EXCEPT ![b.to] = after.store ]
        /\ buckets' = [ buckets EXCEPT ![b.to] = after.buckets ]
        /\ UNCHANGED << carousel, hand, robots, outbound, num_sent, disk, life, faults, reloaded, fetched >>

Lose(b) ==
    /\ Fault(TRUE)
    /\ wire' = wire (-) SetToBag({b})
    /\ UNCHANGED << frontier, outbound, num_sent, store, disk, life, reloaded, fetched >>

(* persist_buckets: a bucket is copied under its lock, then its file is cut to    *)
(* nothing and written; the next bucket may have changed in the meantime.  A      *)
(* bound: nothing is written once no kill can follow.                          *)
Writing(m) == round[m] % 2 = 1
Level(m)   == (round[m] \div 2) % PRIORITY_BUCKETS

BeginFile(m) ==
    /\ m \in Mortal /\ faults < MaxFaults /\ ~Writing(m) /\ round[m] < 2 * PRIORITY_BUCKETS * MaxSaves
    /\ files' = [ files EXCEPT ![m][Level(m)] = buckets[m][Level(m)] ]
    /\ round' = [ round EXCEPT ![m] = @ + 1 ]
    /\ UNCHANGED << frontier, outgoing, store, saved, life, faults, reloaded, fetched >>

EndFile(m) ==
    /\ Writing(m)
    /\ round' = [ round EXCEPT ![m] = @ + 1 ]
    /\ UNCHANGED << frontier, outgoing, store, files, saved, life, faults, reloaded, fetched >>

(* Once in the model, at any time.                                           *)
SaveStore(m) ==
    /\ m \in Mortal /\ faults < MaxFaults /\ saved[m] = << >> /\ store[m] # << >>
    /\ saved' = [ saved EXCEPT ![m] = store[m] ]
    /\ UNCHANGED << frontier, outgoing, store, files, round, life, faults, reloaded, fetched >>

(* What load_disk_buckets can find: the file being written holds any part of its   *)
(* text from the front.                                                      *)
Reloads(m) ==
    LET whole    == [ p \in Levels |-> Serialized(files[m][p]) ]
        complete == [ p \in Levels |-> load_disk_bucket(whole[p]) ]
    IN  IF ~Writing(m) THEN { complete }
        ELSE { [ complete EXCEPT ![Level(m)] = found ] :
               found \in { load_disk_bucket(SubSeq(whole[Level(m)], 1, cut)) : cut \in 0..Len(whole[Level(m)]) } }

(* The process is killed and starts again; batches on their way may get lost.    *)
Kill(m) ==
    /\ m \in Mortal /\ Fault(TRUE)
    /\ \E content \in Reloads(m) :
         /\ buckets' = [ buckets EXCEPT ![m] = Started(m, content) ]
         /\ files' = [ files EXCEPT ![m] = content ]
         /\ reloaded' = [ reloaded EXCEPT ![m] = UNION { { t.url : t \in Range(content[p]) } : p \in Levels } ]
    /\ \E lost \in SUBSET { b \in BagToSet(wire) : m \in {b.from, b.to} } : wire' = wire (-) SetToBag(lost)
    /\ carousel' = [ carousel EXCEPT ![m] = EmptyBag ] /\ hand' = [ hand EXCEPT ![m] = Nobody ]
    /\ robots' = [ robots EXCEPT ![m] = << >> ] /\ store' = [ store EXCEPT ![m] = saved[m] ]
    /\ outbound' = [ outbound EXCEPT ![m] = NoBatch ] /\ num_sent' = [ num_sent EXCEPT ![m] = 0 ]
    /\ round' = [ round EXCEPT ![m] = 0 ] /\ life' = [ life EXCEPT ![m] = @ + 1 ]
    /\ UNCHANGED << saved, fetched >>

Next ==
    \/ \E m \in Machines : Feed(m) \/ Get(m) \/ BeginFile(m) \/ EndFile(m) \/ SaveStore(m) \/ Kill(m)
    \/ \E m \in Machines : \E t \in BagToSet(carousel[m]) : Skip(m, t) \/ CheckRobots(m, t)
    \/ \E b \in BagToSet(wire) : Deliver(b) \/ Lose(b)

Spec == Init /\ [][Next]_vars

-----------------------------------------------------------------------------
(* What a page, a link and a robots.txt mean, said without the code's ways.     *)

SiteOf(url)       == CHOOSE host \in DOMAIN Web : StartsWith(url, "https://" \o host \o "/")
Absolute(u, link) == IF StartsWith(link, "/") THEN "https://" \o SiteOf(u) \o link ELSE link
Leaps(u, v)       == IF SiteOf(u) # SiteOf(v) THEN 1 ELSE 0

(* What is outside the sections that are skipped.                             *)
Hidden(tokens, i) ==
    \E j \in 1..i : /\ tokens[j].k = "section" /\ ~tokens[j].closing
                    /\ \A n \in j..(i - 1) : tokens[n] # [ tokens[j] EXCEPT !.closing = TRUE ]

Shown(tokens) ==
    LET at == SelectSeq([ i \in DOMAIN tokens |-> i ], LAMBDA i : ~Hidden(tokens, i))
    IN  [ i \in DOMAIN at |-> tokens[at[i]] ]

Seen(u) == Shown(Page(u).tokens)

(* The tags of a page that link to something.                                 *)
IsLink(u, t) == t.k \in {"a", "embed"} /\ t.url # None /\ Absolute(u, t.url) \in DOMAIN Means
Meant(url)   == IF url \in DOMAIN Means THEN Means[url] ELSE url
LinkOf(u, t) == Means[Absolute(u, t.url)]

(* Walks[n]: <<url, domain changes>> at the end of a walk of n links from a seed. *)
Step(w) == { << LinkOf(w[1], t), w[2] + Leaps(w[1], LinkOf(w[1], t)) >> : t \in { x \in Range(Seen(w[1])) : IsLink(w[1], x) } }

Walks[n \in 0..(MaxSeedDistance + 1)] ==
    IF n = 0 THEN { << u, 0 >> : u \in Range(SEED_LIST) }
    ELSE UNION { Step(w) : w \in { x \in Walks[n - 1] : x[1] \in Crawlable } }

Walked == UNION { { << w[1], n, w[2] >> : w \in Walks[n] } : n \in 0..(MaxSeedDistance + 1) }

(* The words of tokens a..b, one per token: that is what Plain sees to.          *)
WordsIn(tokens, a, b) ==
    LET ws == SelectSeq(SubSeq(tokens, a, b), LAMBDA t : t.k = "word") IN [ i \in DOMAIN ws |-> Lower(ws[i].w) ]

NextAnchor(tokens, i) == Min({ j \in DOMAIN tokens : j > i /\ tokens[j].k = "a" } \cup { Len(tokens) + 1 })

(* No two words touch, every link is closed before the next one begins.          *)
Plain(tokens) ==
    /\ \A i \in DOMAIN tokens :
         /\ tokens[i].k \in {"word", "break", "entity", "title", "discard", "base", "comment", "a"}
         /\ tokens[i].k = "break" => ~tokens[i].closing
         /\ tokens[i].k = "word" => i < Len(tokens) /\ tokens[i + 1].k # "word"
         /\ tokens[i].k = "a" /\ ~tokens[i].closing =>
                /\ tokens[i].url # None /\ NextAnchor(tokens, i) <= Len(tokens)
                /\ tokens[NextAnchor(tokens, i)].closing
    /\ SafeEnd(tokens) = Len(tokens)

(* How the links of a page lie in the batches of text its buffer was handed over  *)
(* in: how many begin in a batch, and whether a batch begins, behind its header of  *)
(* eight pieces, with the rest of the text of a link of the batch before.        *)
LinkTags(tokens) == SelectSeq(tokens, LAMBDA t : t.k = "a" /\ t.url # None)
Targets(u, tokens) == { Absolute(u, t.url) : t \in Range(LinkTags(tokens)) }

BeginIn(u, tokens, batch) == Len(SelectSeq(batch, LAMBDA s : s \in Targets(u, tokens)))
Torn(u, tokens, batch)    == Len(batch) > 8 /\ batch[9] \notin Targets(u, tokens) \cup {NL, EndDoc}

Spelt(reqs) == [ i \in DOMAIN reqs |-> [ reqs[i] EXCEPT !.url = Meant(@) ] ]

LinesOf(t) == CASE t.k = "word"  -> << Lower(t.w), NL >>
                [] t.k = "title" -> << IF t.closing THEN "</title>" ELSE "<title>", NL >>
                [] OTHER         -> << >>

(* What should have been sent of the links from..to of a page, in their order, and  *)
(* what should have been written of its words.                               *)
LinksMeant(u, tokens, s, d, from, to) ==
    LET tags  == SelectSeq([ i \in DOMAIN tokens |-> i ], LAMBDA i : tokens[i].k = "a" /\ tokens[i].url # None)
        links == SelectSeq(SubSeq(tags, from, to), LAMBDA i : IsLink(u, tokens[i]))
        meant(i) == [ url |-> LinkOf(u, tokens[i]), anchor_text |-> WordsIn(tokens, i, NextAnchor(tokens, i)),
                      num_encountered |-> 1, seed_list_url_hops |-> s + 1,
                      seed_list_domain_hops |-> d + Leaps(u, LinkOf(u, tokens[i])) ]
    IN  [ i \in DOMAIN links |-> meant(links[i]) ]

WordsMeant(u, tokens) ==
    << "<doc>", NL, Lower(u), NL >> \o FlattenSeq([ i \in DOMAIN tokens |-> LinesOf(tokens[i]) ]) \o << EndDoc, NL >>

TitleEnd(tokens) == LET tags == { i \in DOMAIN tokens : tokens[i].k = "title" } IN Max({0} \cup tags)

(* The requests sent are those meant; of the last one, if it was cut, the front of *)
(* its text.                                                                *)
Agree(sent, meant, cut) ==
    /\ Len(sent) = Len(meant)
    /\ \A i \in DOMAIN sent :
         /\ [ sent[i] EXCEPT !.anchor_text = << >> ] = [ meant[i] EXCEPT !.anchor_text = << >> ]
         /\ IF cut /\ i = Len(sent) THEN IsPrefix(sent[i].anchor_text, meant[i].anchor_text)
                                   ELSE sent[i].anchor_text = meant[i].anchor_text

(* A batch that begins with a link, or with none, has all its links sent.  One    *)
(* that begins with the rest of a text need not: add_urls takes the rest for a    *)
(* URL, drops it, and with it the next line, the URL of a link.                 *)
LinksRead(u, s, d, tokens, batches) ==
    \A b \in DOMAIN batches :
        LET before == FoldLeft(LAMBDA n, text : n + BeginIn(u, tokens, text), 0, SubSeq(batches, 1, b - 1))
            meant  == LinksMeant(u, tokens, s, d, before + 1, before + BeginIn(u, tokens, batches[b]))
            cut    == b < Len(batches) /\ Torn(u, tokens, batches[b + 1])
            sent   == Spelt(Made[u][s][d][b])
        IN  IF ~Torn(u, tokens, batches[b]) THEN Agree(sent, meant, cut)
            ELSE \E some \in SUBSET DOMAIN meant :
                   Agree(sent, [ i \in 1..Cardinality(some) |-> meant[SetToSortSeq(some, <)[i]] ], cut)

ReadRight(u, s, d, tokens, read) ==
    Plain(tokens) /\ read.whole =>
        /\ LinksRead(u, s, d, tokens, read.batches)
        /\ read.words = WordsMeant(u, tokens)
        /\ read.eod = Len(WordsIn(tokens, 1, Len(tokens)))
        /\ read.eot = Len(WordsIn(tokens, 1, TitleEnd(tokens)))

RightlyRead == { u \in Crawlable : With(Seen(u), LAMBDA tokens :
                     \A s \in 0..MaxHops : \A d \in 0..s : ReadRight(u, s, d, tokens, Read[u][s][d])) }

(* A pattern of a robots.txt: where the path can be after each of its characters. *)
Positions(pattern, path) ==
    FoldLeft(LAMBDA at, i :
                 IF Char(pattern, i) = "*" THEN { k \in 0..Len(path) : \E j \in at : j <= k }
                 ELSE { j + 1 : j \in { x \in at : x < Len(path) /\ Char(path, x + 1) = Char(pattern, i) } },
             {0}, [ i \in 1..Len(pattern) |-> i ])

Covers(pattern, path) ==
    IF EndsIn(pattern, "$") THEN Len(path) \in Positions(SubSeq(pattern, 1, Len(pattern) - 1), path)
    ELSE Positions(pattern, path) # {}

Weight(pattern) == 2 * Cardinality({ i \in 1..Len(pattern) : Char(pattern, i) \notin {"*", "$"} })
                   + (IF EndsIn(pattern, "$") THEN 1 ELSE 0)

(* The lines for us: after an agent line that names us, with no directive and then  *)
(* another agent line in between.                                            *)
ForUs(file, i) ==
    \E j \in 1..(i - 1) :
        /\ file[j].key = "user-agent" /\ file[j].arg \in AGENT_NAMES \cup {"*"}
        /\ ~\E k \in j..i, l \in j..i : /\ k < l /\ file[l].key = "user-agent"
                                        /\ file[k].key \in {"allow", "disallow", "crawl-delay"}

Permits(file, path) ==
    LET said(key) == { i \in DOMAIN file : file[i].key = key /\ ForUs(file, i) /\ Covers(file[i].arg, path) }
    IN  \A i \in said("disallow") : \E j \in said("allow") : Weight(file[j].arg) >= Weight(file[i].arg)

Places    == { [ host |-> SiteOf(u), path |-> From(Path(u), 2) ] : u \in DOMAIN OwnerOf }
Permitted == { at \in Places : Permits(File(at.host), "/" \o at.path) }

-----------------------------------------------------------------------------
(* Properties                                                               *)

(* Of a fetched page that is read to its end, and has words set apart by single    *)
(* marks and links that do not overlap, the words written are its words.  The     *)
(* updates sent are its links with their texts as long as the buffer of links,    *)
(* whenever it is full, is handed over between two links (parser.h parse_page,    *)
(* word_array.h, url_buffers.h).  When it is handed over inside a link, the rest  *)
(* of that link's text is lost and links behind it in the next batch may be; no   *)
(* link gets another's text or distance, and the batches after that are whole.   *)
PageReadBack == \A f \in BagToSet(fetched) : f.url \in Crawlable => f.url \in RightlyRead

(* The first request of a fetch is never one that the robots.txt of its host,     *)
(* when it could be had, forbids by the most specific line of all records that    *)
(* name the crawler or *, allow winning a tie (RobotsManager.h:27).  It says       *)
(* nothing of the requests that follow a redirect: https_get looks at no          *)
(* robots.txt, and they do reach what is forbidden.                              *)
RobotsObeyed == \A f \in BagToSet(fetched) : f.robots => Head(f.trail) \in Permitted

(* The distances of every target and update, wherever it is, are those of a walk   *)
(* along links from a seed, although they went through text, a wire and a file.   *)
HopsAreTrue ==
    LET targets(m)  == BagToSet(carousel[m]) \cup Range(hand[m])
                       \cup UNION { Range(buckets[m][p]) \cup Range(files[m][p]) : p \in Levels }
        requests(m) == UNION { Range(outbound[m][n]) : n \in Machines }
    IN  /\ \A m \in Machines : \A t \in targets(m) : << Meant(t.url), t.seed_distance, t.domain_dist >> \in Walked
        /\ \A r \in UNION ({ requests(m) : m \in Machines } \cup { Range(b.reqs) : b \in BagToSet(wire) }) :
             << Meant(r.url), r.seed_list_url_hops, r.seed_list_domain_hops >> \in Walked

(* A page found through a link is asked for once in the life of one machine, the   *)
(* one its URL belongs to, however links spell it (normalize_url, the hash,       *)
(* updateUrl's is_new, markCrawled).                                         *)
FetchedOnceByOwner ==
    \A a \in { f \in BagToSet(fetched) : f.found } :
        /\ CopiesIn(a, fetched) = 1 /\ a.at = OwnerOf[Meant(a.url)]
        /\ \A b \in BagToSet(fetched) :
             b.found /\ b.life = a.life /\ Meant(b.url) = Meant(a.url) => b = a

(* A restart takes up what the bucket files held, or the front of what a file      *)
(* would have held that was being written, target by target and no torn one       *)
(* (bucket_manager.h persist_buckets, load_disk_buckets).                     *)
ReloadIsPrefix ==
    [][ \A m \in Machines : life'[m] # life[m] =>
          \A p \in Levels :
              LET back == SubSeq(buckets'[m][p], Len(Started(m, NoTargets)[p]) + 1, Len(buckets'[m][p]))
              IN  IF Writing(m) /\ p = Level(m) THEN IsPrefix(back, files[m][p]) ELSE back = files[m][p] ]_vars
=============================================================================
