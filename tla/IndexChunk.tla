----------------------------- MODULE IndexChunk -----------------------------
(***************************************************************************)
(* The chunk file of the index: how IndexChunk::persist lays it out         *)
(* (index/Index.cpp), how LoadedIndex finds its way back into it            *)
(* (index_chunk/chunk_manager.h) and how numbers are written in it          *)
(* (lib/utf8.h).                                                            *)
(*                                                                         *)
(* A word is the tuple of its bytes: the sort that writes the dictionary    *)
(* and the search that reads it compare bytes, each in its own way.  The    *)
(* posting region is a function from byte offsets to cells: a cell is what  *)
(* one write puts at an offset, with its width in bytes.  The reader only   *)
(* knows an offset; if the offsets drift apart it finds no cell there.      *)
(***************************************************************************)
EXTENDS Integers, Sequences, FiniteSets, SequencesExt, FiniteSetsExt, Functions

CONSTANT CharSigned     \* is plain char signed on the build's platform?

ASSUME CharSignedAssumption == CharSigned \in BOOLEAN

-----------------------------------------------------------------------------
(* lib/utf8.h                                                               *)

ReplacementCharacter == 65533

Utf8Limits == << 127, 2047, 65535, 2097151, 67108863, 2147483647 >>

SizeOfUtf8(c) ==
    IF c > Utf8Limits[6] THEN 2
                         ELSE CHOOSE n \in 1..6 : /\ c <= Utf8Limits[n]
                                                  /\ \A m \in 1..(n - 1) : c > Utf8Limits[m]

(* What the last byte but k counts.                                          *)
Place == << 1, 64, 64 * 64, 64 * 64 * 64, 64 * 64 * 64 * 64, 64 * 64 * 64 * 64 * 64 >>

(* The first byte carries the length and the high bits, each further byte   *)
(* six bits; c above 31 bits is written as the replacement character.       *)
WriteUtf8(c) ==
    LET v == IF c > Utf8Limits[6] THEN ReplacementCharacter ELSE c
        n == SizeOfUtf8(v)
    IN  [ i \in 1..n |-> IF n = 1 THEN v
                         ELSE IF i = 1 THEN << 0, 192, 224, 240, 248, 252 >>[n] + (v \div Place[n])
                         ELSE 128 + ((v \div Place[n - i + 1]) % 64) ]

IsReplaced(v) == \/ v \in 55296..57343
                 \/ v \in 64976..65007
                 \/ v \in {65534, 65535}

(* What ReadUtf8 returns for a well-formed sequence of bytes: the value they *)
(* spell, unless it is overlong or one of the values Unicode sets aside.    *)
ReadUtf8(bytes) ==
    LET n == Len(bytes)
        lead  == << 1, 32, 16, 8, 4, 2 >>[n]
        high  == IF n = 1 THEN bytes[1] ELSE bytes[1] % lead
        value[i \in 1..n] == IF i = 1 THEN high ELSE 64 * value[i - 1] + (bytes[i] % 64)
        v     == value[n]
    IN  IF (n > 1 /\ v <= Utf8Limits[n - 1]) \/ IsReplaced(v) THEN ReplacementCharacter ELSE v

-----------------------------------------------------------------------------
(* The order of the dictionary                                              *)

Letters == 97..122
Digits  == 48..57

AsChar(b) == IF CharSigned /\ b > 127 THEN b - 256 ELSE b

charAt(w, i) == IF i > Len(w) THEN 0 ELSE AsChar(w[i])

(* radix_sort compares byte by byte with charAt, past the end a 0.          *)
SortsBefore(v, w) ==
    \E i \in 1..(1 + Max({Len(v), Len(w)})) :
        /\ charAt(v, i) < charAt(w, i)
        /\ \A j \in 1..(i - 1) : charAt(v, j) = charAt(w, j)

(* lookup compares with memcmp, then by length.                             *)
MemcmpBefore(v, w) ==
    \/ \E i \in 1..Min({Len(v), Len(w)}) : /\ v[i] < w[i]
                                           /\ \A j \in 1..(i - 1) : v[j] = w[j]
    \/ Len(v) < Len(w) /\ SubSeq(w, 1, Len(v)) = v

radix_sort(words) ==
    CHOOSE seq \in SetToSeqs(words) : \A i, j \in DOMAIN seq : i < j => SortsBefore(seq[i], seq[j])

(* Only words that begin with a letter or a digit have a slot in the table. *)
sort_entries(index) ==
    radix_sort({ w \in DOMAIN index : w # << >> /\ w[1] \in Letters \cup Digits })

-----------------------------------------------------------------------------
(* persist: postings                                                        *)
(* index[w] is [posts |-> << [doc, loc], ... >>, n_docs |-> Nat].           *)

Sum(seq) == FoldLeft(LAMBDA a, b : a + b, 0, seq)

LastDoc(posts, i) == IF i = 1 THEN 0 ELSE posts[i - 1].doc

NewDoc(posts, i) == posts[i].doc > LastDoc(posts, i)

LocDelta(posts, i) ==
    posts[i].loc - (IF NewDoc(posts, i) THEN 0 ELSE posts[i - 1].loc)

(* Slip: the flag byte before a new document is not counted.                 *)
PostSizeUnflagged(posts, i) ==
    (IF NewDoc(posts, i) THEN SizeOfUtf8(posts[i].doc - LastDoc(posts, i)) ELSE 0)
        + SizeOfUtf8(LocDelta(posts, i))

(* First pass: the bytes a post will take.                                  *)
PostSize(posts, i) ==
    (IF NewDoc(posts, i) THEN 1 + SizeOfUtf8(posts[i].doc - LastDoc(posts, i)) ELSE 0)
        + SizeOfUtf8(LocDelta(posts, i))

HeaderSize == 14        \* 8 bytes, a space, 4 bytes, a newline

ListSize(posts) == HeaderSize + Sum([ i \in DOMAIN posts |-> PostSize(posts, i) ]) + 1

posting_list_locations(entries, index) ==
    [ i \in DOMAIN entries |-> Sum([ j \in 1..(i - 1) |-> ListSize(index[entries[j]].posts) ]) ]

(* Second pass: the cells written, in order.                                *)
Number(v) == [ kind |-> "num", v |-> WriteUtf8(v), w |-> Len(WriteUtf8(v)) ]

PostCells(posts, i) ==
    (IF NewDoc(posts, i) THEN << Number(0), Number(posts[i].doc - LastDoc(posts, i)) >> ELSE << >>)
        \o << Number(LocDelta(posts, i)) >>

ListCells(entry) ==
    << [ kind |-> "header", v |-> << Len(entry.posts), entry.n_docs >>, w |-> HeaderSize ] >>
        \o FlattenSeq([ i \in DOMAIN entry.posts |-> PostCells(entry.posts, i) ])
        \o << [ kind |-> "newline", v |-> << 10 >>, w |-> 1 ] >>

(* Cells laid end to end: the file from the start of the posting region.    *)
LayOut(cells) ==
    LET end[i \in 0..Len(cells)] == IF i = 0 THEN 0 ELSE end[i - 1] + cells[i].w
    IN  [ at \in { end[i - 1] : i \in DOMAIN cells } |-> cells[CHOOSE i \in DOMAIN cells : end[i - 1] = at] ]

RegionSize(cells) == Sum([ i \in DOMAIN cells |-> cells[i].w ])

-----------------------------------------------------------------------------
(* persist: dictionary and table of contents                                *)

Slots == [ i \in 1..36 |-> IF i <= 26 THEN 96 + i ELSE 21 + i ]   \* 'a'..'z', '0'..'9'

DictEntrySize(w) == Len(w) + 1 + 8 + 1

EntryOffset(entries, i) == Sum([ j \in 1..(i - 1) |-> DictEntrySize(entries[j]) ])

(* Slip: an empty slot is left at the end of the dictionary.                 *)
dict_offsets_unfilled(entries) ==
    [ s \in 1..36 |->
        LET own == { i \in DOMAIN entries : entries[i][1] = Slots[s] }
        IN  EntryOffset(entries, IF own = {} THEN Len(entries) + 1 ELSE Min(own)) ]

(* A slot's offset is that of its first word; an empty slot takes that of   *)
(* the next greater slot in use, the last ones the end of the dictionary.   *)
dict_offsets(entries) ==
    [ s \in 1..36 |->
        LET following == { i \in DOMAIN entries : entries[i][1] >= Slots[s] }
        IN  EntryOffset(entries, IF following = {} THEN Len(entries) + 1 ELSE Min(following)) ]

(* The whole file.  cut is what is on disk of it: [part |-> "whole"] or the  *)
(* section in which a killed writer stopped and how far it got.             *)
persist(index, urls) ==
    LET entries == sort_entries(index)
        at      == posting_list_locations(entries, index)
        cells   == FlattenSeq([ i \in DOMAIN entries |-> ListCells(index[entries[i]]) ])
    IN  [ urls   |-> urls,
          toc    |-> dict_offsets(entries),
          dict   |-> [ i \in DOMAIN entries |-> [ word |-> entries[i], posting_offset |-> at[i] ] ],
          region |-> LayOut(cells),
          size   |-> RegionSize(cells),
          cut    |-> [ part |-> "whole", at |-> 0 ] ]

-----------------------------------------------------------------------------
(* LoadedIndex                                                              *)

(* What the constructor makes of a file, whole or cut: no URLs unless their  *)
(* table is complete, the dictionary entries that are complete, and a        *)
(* posting region that ends where the file ends.                            *)
LoadedIndex(file) ==
    LET part == file.cut.part
        at   == file.cut.at
    IN  [ urls   |-> IF part = "urls" THEN << >> ELSE file.urls,
          dict   |-> CASE part \in {"urls", "toc"} -> << >>
                       [] part = "dict"  -> SubSeq(file.dict, 1, at)
                       [] OTHER -> file.dict,
          region |-> file.region,
          size   |-> CASE part \in {"urls", "toc", "dict"} -> 0
                       [] part = "region" -> at
                       [] OTHER -> file.size ]

(* The binary search over the dictionary: the entries lo..hi-1 remain.      *)
lookup(li, word) ==
    LET step(range) ==
            LET mid == range.lo + ((range.hi - range.lo) \div 2)
                e   == li.dict[mid].word
            IN  IF range.lo >= range.hi \/ range.found # 0 THEN range
                ELSE IF e = word THEN [ range EXCEPT !.found = mid ]
                ELSE IF MemcmpBefore(e, word) THEN [ range EXCEPT !.lo = mid + 1 ]
                ELSE [ range EXCEPT !.hi = mid ]
        search[k \in 0..Len(li.dict)] ==
            IF k = 0 THEN step([ lo |-> 1, hi |-> Len(li.dict) + 1, found |-> 0 ])
                     ELSE step(search[k - 1])
    IN  search[Len(li.dict)].found

get_url(li, doc) ==
    IF doc = 0 \/ doc > Len(li.urls) THEN "<invalid-doc>" ELSE li.urls[doc]

(* What a reader finds of a word: the count its list header promises.       *)
n_posts(li, word) ==
    LET k  == lookup(li, word)
        at == li.dict[k].posting_offset
    IN  IF k = 0 THEN 0
        ELSE IF at + 8 > li.size \/ at \notin DOMAIN li.region THEN 0
        ELSE IF li.region[at].kind = "header" THEN li.region[at].v[1] ELSE 0

total_words(li) == Sum([ k \in DOMAIN li.dict |-> n_posts(li, li.dict[k].word) ])
=============================================================================
