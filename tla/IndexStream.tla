---------------------------- MODULE IndexStream -----------------------------
(***************************************************************************)
(* IndexStreamReader (index_chunk/isr.h, isr.cpp): a cursor over one word's  *)
(* posting list in a loaded chunk.  An operation that returns a post yields  *)
(* the reader's next state with the post in its field out.                  *)
(***************************************************************************)
EXTENDS IndexChunk

NoPost == [ doc |-> 0, loc |-> 0 ]

(* A value that is used several times, given a name.                        *)
With(val, Use(_)) == Use(val)

(* over records that a read went beyond the end of the region: what it       *)
(* returned is then arbitrary.                                              *)
Closed(li) ==
    [ region |-> li.region, size |-> li.size, start |-> 0, at |-> 0, n_posts |-> 0, n_docs |-> 0,
      posts_consumed |-> 0, doc_offset |-> 0, loc_offset |-> 0,
      has_pending |-> FALSE, over |-> FALSE, out |-> NoPost ]

(* The constructor: the header must lie inside the region, and cannot        *)
(* promise more posts than bytes are left.                                  *)
IndexStreamReader(word, li) ==
    LET k  == lookup(li, word)
        at == li.dict[k].posting_offset
        header == li.region[at]
    IN  IF k = 0 THEN Closed(li)
        ELSE IF at + HeaderSize > li.size \/ at \notin DOMAIN li.region THEN Closed(li)
        ELSE IF header.kind # "header" THEN Closed(li)
        ELSE IF header.v[1] > li.size - (at + HeaderSize) THEN Closed(li)
        ELSE [ Closed(li) EXCEPT !.start = at, !.at = at + HeaderSize,
                                 !.n_posts = header.v[1], !.n_docs = header.v[2] ]

reset(s) == [ s EXCEPT !.at = s.start, !.posts_consumed = 0, !.doc_offset = 0,
                       !.loc_offset = 0, !.has_pending = FALSE, !.out = NoPost ]

Here(s) == [ doc |-> s.doc_offset, loc |-> s.loc_offset ]

(* One ReadUtf8 at the cursor, with no bound.                               *)
InRegion(s, at) == at \in DOMAIN s.region /\ at + s.region[at].w <= s.size

ReadAt(s, at) == IF InRegion(s, at) THEN ReadUtf8(s.region[at].v) ELSE 0

After(s, at) == at + (IF InRegion(s, at) THEN s.region[at].w ELSE 1)

(* Slip: no check against the end of the region.                            *)
WalkedOffNever(s) == FALSE

WalkedOff(s) == s.at >= s.size

(* Decode the next post.  A leading 0 marks a new document: its number and   *)
(* the first location follow.                                               *)
advance_base(s) ==
    LET first  == ReadAt(s, s.at)
        second == After(s, s.at)
        third  == After(s, second)
        t      == [ s EXCEPT !.posts_consumed = @ + 1 ]
        same   == [ t EXCEPT !.at = second, !.loc_offset = @ + first ]
        next   == [ t EXCEPT !.at = After(s, third),
                             !.doc_offset = @ + ReadAt(s, second),
                             !.loc_offset = ReadAt(s, third),
                             !.over = @ \/ ~InRegion(s, third) ]
    IN  IF s.posts_consumed = s.n_posts THEN [ s EXCEPT !.out = NoPost ]
        ELSE IF WalkedOff(s) THEN [ s EXCEPT !.posts_consumed = s.n_posts, !.out = NoPost ]
        ELSE With(IF first > 0 THEN same ELSE next,
                  LAMBDA post : [ post EXCEPT !.out = Here(post), !.over = @ \/ ~InRegion(s, s.at) ])

advance(s) ==
    IF s.has_pending THEN [ s EXCEPT !.has_pending = FALSE, !.out = Here(s) ]
                     ELSE advance_base(s)

(* First post at or after doc; a pending post is served or walked past.  No   *)
(* loop here calls advance_base more often than there are posts, and once more. *)
advance_to(s, doc) ==
    LET stands(t) == t.reader.doc_offset >= doc \/ t.ended
        walked(t) == [ reader |-> t, ended |-> t.out.doc = 0 ]
        walk[k \in 0..(s.n_posts + 1)] ==
            IF k = 0 THEN [ reader |-> [ s EXCEPT !.has_pending = FALSE ], ended |-> FALSE ]
            ELSE With(walk[k - 1], LAMBDA t : IF stands(t) THEN t ELSE walked(advance_base(t.reader)))
    IN  With(walk[s.n_posts + 1],
             LAMBDA t : IF t.ended THEN t.reader ELSE [ t.reader EXCEPT !.out = Here(t.reader) ])

advance_to_next_doc(s) == advance_to(s, s.doc_offset + 1)

(* All locations in the current document.  The post that ends the walk belongs *)
(* to the next document and is kept as pending.                              *)
Collected(s) ==
    LET met(t, post) ==
            CASE post.out.doc = 0 -> [ t EXCEPT !.reader = post, !.ended = TRUE ]
              [] post.out.doc = s.doc_offset -> [ t EXCEPT !.reader = post, !.found = Append(@, post.out.loc) ]
              [] OTHER -> [ t EXCEPT !.reader = [ post EXCEPT !.has_pending = TRUE ], !.ended = TRUE ]
        walk[k \in 0..(s.n_posts + 1)] ==
            IF k = 0 THEN [ reader |-> [ s EXCEPT !.has_pending = FALSE ], ended |-> FALSE, found |-> << s.loc_offset >> ]
            ELSE With(walk[k - 1], LAMBDA t : IF t.ended THEN t ELSE met(t, advance_base(t.reader)))
    IN  walk[s.n_posts + 1]

(* Slip: the overshoot is not kept as pending.                              *)
collect_and_forget(s) ==
    With(Collected(s), LAMBDA c : << [ c.reader EXCEPT !.has_pending = FALSE ], c.found >>)

collect_positions_in_current_doc(s) == With(Collected(s), LAMBDA c : << c.reader, c.found >>)

(* The whole list, post by post, as a caller of advance reads it.            *)
ReadAll(s) ==
    LET met(t, post) == IF post.out.doc = 0 \/ post.over THEN [ t EXCEPT !.reader = post, !.ended = TRUE ]
                        ELSE [ t EXCEPT !.reader = post, !.posts = Append(@, post.out) ]
        read[k \in 0..(s.n_posts + 1)] ==
            IF k = 0 THEN [ reader |-> s, ended |-> FALSE, posts |-> << >> ]
            ELSE With(read[k - 1], LAMBDA t : IF t.ended THEN t ELSE met(t, advance(t.reader)))
    IN  read[s.n_posts + 1]
=============================================================================
