------------------------------ MODULE RpcWire -------------------------------
(***************************************************************************)
(* Messages between machines (lib/rpc_common.h, rpc_query_handler.h,          *)
(* rpc_urlstore.h, rpc_crawler.h).  Nothing delimits a message: a sender       *)
(* writes fields one behind the other and the reader reads the same fields.    *)
(*                                                                         *)
(* A connection, as its reader sees it, is                                   *)
(*   [bytes, pos, pauses, ok]                                              *)
(* bytes until the peer closed, how many were read, the offsets at which the   *)
(* next byte came later than the socket's SO_RCVTIMEO, and whether the last    *)
(* read succeeded.  A timed out read keeps what it consumed and the           *)
(* connection stays readable.                                              *)
(***************************************************************************)
EXTENDS Integers, Sequences, FiniteSets, SequencesExt, FiniteSetsExt

CONSTANT MAX_STRING     \* longest string recv_string takes: 16 MiB in the code

(* uint32_t                                                                 *)
U32 == { n \in Nat : n \div 16777216 < 256 }

ASSUME RpcWireAssumption == MAX_STRING \in U32

-----------------------------------------------------------------------------
(* Senders.  A double is its bit pattern, two words of 32 bits.              *)

send_u32(n)    == << (n \div 16777216) % 256, (n \div 65536) % 256, (n \div 256) % 256, n % 256 >>
send_u16(n)    == << (n \div 256) % 256, n % 256 >>
send_string(s) == send_u32(Len(s)) \o s
send_double(d) == send_u32(d[1]) \o send_u32(d[2])

(* A count, then the items.                                                 *)
Counted(items, Bytes(_)) == send_u32(Len(items)) \o FlattenSeq([ i \in DOMAIN items |-> Bytes(items[i]) ])

send_query_response(pages) ==
    Counted(pages, LAMBDA p : send_string(p.title) \o send_string(p.url) \o send_double(p.score))

(* Slip: the two distances are written in the other order.                   *)
DistancesSwapped(reqs) ==
    Counted(reqs, LAMBDA r : send_string(r.url) \o Counted(r.anchor_text, send_string)
                             \o send_u32(r.num_encountered)
                             \o send_u16(r.seed_list_domain_hops) \o send_u16(r.seed_list_url_hops))

send_batch_urlstore_update(reqs) ==
    Counted(reqs, LAMBDA r : send_string(r.url) \o Counted(r.anchor_text, send_string)
                             \o send_u32(r.num_encountered)
                             \o send_u16(r.seed_list_url_hops) \o send_u16(r.seed_list_domain_hops))

send_batch_urlstore_data_request(urls) == Counted(urls, send_string)

(* anchors: the pairs <<id, freq>> of anchor_freqs in iteration order.        *)
send_batch_urlstore_data_response(resps) ==
    Counted(resps, LAMBDA d : Counted(d.anchors, LAMBDA a : send_u32(a[1]) \o send_u32(a[2]))
                              \o send_u32(d.num_encountered) \o send_u16(d.seed_distance)
                              \o send_u16(d.domain_dist) \o send_u16(d.eot) \o send_u16(d.eod))

send_batch_crawl_target_request(targets) ==
    Counted(targets, LAMBDA t : send_string(t.domain) \o send_string(t.url)
                                \o send_u16(t.seed_distance) \o send_u16(t.domain_dist))

-----------------------------------------------------------------------------
(* Readers                                                                  *)

Opened(bytes, pauses) == [ bytes |-> bytes, pos |-> 0, pauses |-> pauses, ok |-> TRUE ]

(* recv until len bytes are there; a pause or the end of the stream makes it    *)
(* fail, after the bytes before it have been taken.                          *)
recv_exact(fd, len) ==
    LET waits == { p \in fd.pauses : fd.pos <= p /\ p < fd.pos + len }
        stop  == IF waits = {} THEN fd.pos + len ELSE Min(waits)
    IN  IF stop > Len(fd.bytes) THEN [ fd EXCEPT !.pos = Len(fd.bytes), !.ok = FALSE ]
        ELSE [ fd EXCEPT !.pos = stop, !.pauses = @ \ { stop }, !.ok = (waits = {}) ]

Taken(fd, after) == SubSeq(fd.bytes, fd.pos + 1, after.pos)

(* Network byte order.                                                      *)
Half(bytes) == 256 * bytes[1] + bytes[2]
Word(bytes) == 16777216 * bytes[1] + 65536 * bytes[2] + 256 * bytes[3] + bytes[4]

(* Every reader returns [fd, val]; val means something when fd.ok.            *)
Read(fd, val) == [ fd |-> fd, val |-> val ]

(* Use of a value worked out once.                                          *)
With(val, Use(_)) == Use(val)

(* A field of len bytes.                                                    *)
Field(fd, len, Means(_)) ==
    With(recv_exact(fd, len), LAMBDA after : Read(after, IF after.ok THEN Means(Taken(fd, after)) ELSE << >>))

recv_u32(fd) == Field(fd, 4, Word)
recv_u16(fd) == Field(fd, 2, Half)

recv_double(fd) == Field(fd, 8, LAMBDA bits : << Word(SubSeq(bits, 1, 4)), Word(SubSeq(bits, 5, 8)) >>)

recv_string(fd) ==
    With(recv_u32(fd), LAMBDA len :
        IF ~len.fd.ok THEN Read(len.fd, << >>)
        ELSE IF len.val > MAX_STRING THEN Read([ len.fd EXCEPT !.ok = FALSE ], << >>)
        ELSE Field(len.fd, len.val, LAMBDA text : text))

(* Items one after the other, giving up at the first that fails.              *)
Listed(fd, n, One(_)) ==
    FoldLeft(LAMBDA r, i : LET item == One(r.fd)
                           IN  IF r.fd.ok THEN Read(item.fd, Append(r.val, item.val)) ELSE r,
             Read(fd, << >>), [ i \in 1..n |-> i ])

Batch(fd, One(_)) ==
    With(recv_u32(fd), LAMBDA n : IF n.fd.ok THEN Listed(n.fd, n.val, One) ELSE Read(n.fd, << >>))

(* The next field, not read when the one before failed.                       *)
Then(r, Next(_)) == IF r.fd.ok THEN Next(r.fd) ELSE r

recv_update(fd) ==
    With(recv_string(fd), LAMBDA url :
    With(Then(url, LAMBDA f : Batch(f, recv_string)), LAMBDA anchors :
    With(Then(anchors, recv_u32), LAMBDA num :
    With(Then(num, recv_u16), LAMBDA hops :
    With(Then(hops, recv_u16), LAMBDA domains :
        Read(domains.fd, [ url |-> url.val, anchor_text |-> anchors.val, num_encountered |-> num.val,
                           seed_list_url_hops |-> hops.val, seed_list_domain_hops |-> domains.val ]))))))

recv_batch_urlstore_update(fd)       == Batch(fd, recv_update)
recv_batch_urlstore_data_request(fd) == Batch(fd, recv_string)

recv_anchor_data(fd) ==
    With(recv_u32(fd), LAMBDA id : With(Then(id, recv_u32), LAMBDA freq : Read(freq.fd, << id.val, freq.val >>)))

recv_url_data(fd) ==
    With(Batch(fd, recv_anchor_data), LAMBDA anchors :
    With(Then(anchors, recv_u32), LAMBDA num :
    With(Then(num, recv_u16), LAMBDA seed :
    With(Then(seed, recv_u16), LAMBDA domain :
    With(Then(domain, recv_u16), LAMBDA eot :
    With(Then(eot, recv_u16), LAMBDA eod :
        Read(eod.fd, [ anchors |-> anchors.val, num_encountered |-> num.val, seed_distance |-> seed.val,
                       domain_dist |-> domain.val, eot |-> eot.val, eod |-> eod.val ])))))))

recv_batch_urlstore_data_response(fd) == Batch(fd, recv_url_data)

recv_crawl_target(fd) ==
    With(recv_string(fd), LAMBDA domain :
    With(Then(domain, recv_string), LAMBDA url :
    With(Then(url, recv_u16), LAMBDA seed :
    With(Then(seed, recv_u16), LAMBDA dist :
        Read(dist.fd, [ domain |-> domain.val, url |-> url.val,
                        seed_distance |-> seed.val, domain_dist |-> dist.val ])))))

recv_batch_crawl_target_request(fd) == Batch(fd, recv_crawl_target)

-----------------------------------------------------------------------------
(* The answer to a query, read by the machine that asked.  A failed field does  *)
(* not end the loop: all three fields of every announced page are read, and a   *)
(* page is kept when its three reads succeeded.                              *)

LeanPage == LET text == { s \in Seq(0..255) : Len(s) <= MAX_STRING }
            IN  [ title : text, url : text, score : U32 \X U32 ]

Page(title, url, score) == [ title |-> title, url |-> url, score |-> score ]

recv_page(r) ==
    LET title == recv_string(r.fd)
        url   == recv_string(title.fd)
        score == recv_double(url.fd)
        whole == title.fd.ok /\ url.fd.ok /\ score.fd.ok
    IN  Read(score.fd, IF whole THEN Append(r.val, Page(title.val, url.val, score.val)) ELSE r.val)

recv_query_data(fd) ==
    LET n == recv_u32(fd)
        upto[i \in 0..n.val] == IF i = 0 THEN Read(n.fd, << >>) ELSE recv_page(upto[i - 1])
    IN  IF n.fd.ok THEN upto[n.val].val ELSE << >>
=============================================================================
