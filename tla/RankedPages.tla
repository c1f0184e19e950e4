---------------------------- MODULE RankedPages -----------------------------
(***************************************************************************)
(* How ranked pages are kept and combined: the bounded buffer and the merge  *)
(* of index_chunk/ranked_buffer.h, and the vector that tasks append to under  *)
(* a lock (lib/atomic_vector.h).  A page is [url, score]; the buffer is a       *)
(* sequence, best first.                                                    *)
(***************************************************************************)
EXTENDS QuickSort, FiniteSets, SequencesExt, FiniteSetsExt

CONSTANT CAPACITY       \* RankedBuffer::CAPACITY

ASSUME RankedPagesAssumption == CAPACITY \in Nat \ {0}

-----------------------------------------------------------------------------
(* RankedBuffer                                                             *)

(* Slip: a full buffer drops its best page instead of its worst.             *)
MakeRoomAtFront(pages) == IF Len(pages) = CAPACITY THEN Tail(pages) ELSE pages

MakeRoom(pages) == IF Len(pages) = CAPACITY THEN Front(pages) ELSE pages

(* The new page stops behind the last page that scores no less.              *)
insert(pages, page) ==
    LET room  == MakeRoom(pages)
        ahead == { i \in DOMAIN room : room[i].score >= page.score }
        k     == IF ahead = {} THEN 0 ELSE Max(ahead)
    IN  IF Len(pages) = CAPACITY /\ page.score <= pages[CAPACITY].score THEN pages
        ELSE SubSeq(room, 1, k) \o << page >> \o SubSeq(room, k + 1, Len(room))

drain_into(docs, buffer) == FoldLeft(insert, buffer, docs)

(* Take, cap times, the best head of the buffers, the first of equals.       *)
RECURSIVE merge_top_pages(_, _)
merge_top_pages(buffers, cap) ==
    LET live == { i \in DOMAIN buffers : buffers[i] # << >> }
        best == CHOOSE i \in live :
                    /\ \A j \in live : Head(buffers[j]).score <= Head(buffers[i]).score
                    /\ \A j \in live : j < i => Head(buffers[j]).score < Head(buffers[i]).score
    IN  IF cap = 0 \/ live = {} THEN << >>
        ELSE << Head(buffers[best]) >> \o merge_top_pages([ buffers EXCEPT ![best] = Tail(@) ], cap - 1)

-----------------------------------------------------------------------------
(* atomic_vector: one lock around each operation                            *)

append(v, other) == v \o other
append_move(v, other) == v \o other
take(v) == [ taken |-> v, left |-> << >> ]
=============================================================================
