---------------------------- MODULE ChunkReadBack ----------------------------
(***************************************************************************)
(* The chunk files of the indexer, read back by the stream readers of the    *)
(* query servers, which load whatever chunk files there are.                *)
(***************************************************************************)
EXTENDS IndexBuilder, IndexStream

(* recover_index_chunks: the chunk files 0, 1, ... up to the first missing.  *)
recover_index_chunks == [ c \in DOMAIN files |-> LoadedIndex(files[c]) ]

-----------------------------------------------------------------------------
(* Properties                                                               *)

Chunks == recover_index_chunks

Indexable(w) == w # << >> /\ w[1] \in Letters \cup Digits

Stream(c, w) == ReadAll(IndexStreamReader(w, Chunks[c]))

IsWhole(c) == files[c].cut.part = "whole"

(* Whatever was indexed under a word is read back from the chunk file: the   *)
(* sizes of the first pass of persist, the bytes of the second, the search   *)
(* in the dictionary and the decoder of the stream fit together.            *)
WordsReadBack ==
    \A c \in DOMAIN files : IsWhole(c) =>
        /\ \A w \in DOMAIN log[c] : Indexable(w) =>
              LET read == Stream(c, w)
              IN  read.posts = log[c][w].posts /\ read.reader.n_docs = log[c][w].n_docs /\ ~read.reader.over
        /\ LET words == { w \in DOMAIN log[c] : Indexable(w) }
           IN  total_words(Chunks[c]) = SumFunctionOnSet([ w \in words |-> Len(log[c][w].posts) ], words)

(* A chunk file cut short by a kill yields, for every word, a prefix of what *)
(* was indexed, and the reader runs past the end of the file only if the cut *)
(* goes through a post (the walk-off guard of advance_base sees no further).  *)
PostEnds(c, w) ==
    LET posts == log[c][w].posts
        k     == CHOOSE i \in DOMAIN files[c].dict : files[c].dict[i].word = w
    IN  { files[c].dict[k].posting_offset + HeaderSize + Sum([ j \in 1..n |-> PostSize(posts, j) ])
            : n \in 0..Len(posts) }

CutChunksArePrefixes ==
    \A c \in DOMAIN files : ~IsWhole(c) =>
        \A w \in DOMAIN log[c] : Indexable(w) =>
            LET read == Stream(c, w)
            IN  /\ IsPrefix(read.posts, log[c][w].posts)
                /\ read.reader.over => Chunks[c].size \notin PostEnds(c, w)
=============================================================================
