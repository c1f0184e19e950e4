---------------------------- MODULE IndexBuilder ----------------------------
(***************************************************************************)
(* One worker of the indexer (index/main.cpp, index/Index.cpp): it reads a   *)
(* parser output file document by document into memory, writes a chunk file  *)
(* when the chunk is full and once more at the end, and may be killed at any *)
(* point, also inside a write.  A restart reads the input from the start     *)
(* again and appends chunks after those it finds.  The query servers load    *)
(* whatever chunk files there are.                                          *)
(*                                                                         *)
(* A line of the input is a record: kind "doc", "enddoc" and "title" are the *)
(* tags, "blank" an empty line, "text" anything else; each has its word, and *)
(* whether there is a space or a tab in it.  No byte of a word is 0: fgets   *)
(* and strlen end the line there.  A "fill" stands for n whole documents none *)
(* of which has a text line: what matters of them is that they number on.    *)
(***************************************************************************)
EXTENDS IndexChunk

CONSTANTS Inputs,                \* the input files to choose from
          DOCS_PER_INDEX_CHUNK,  \* documents after which a chunk is written
          CHUNK_MEM_BUDGET,      \* bytes of posts after which a chunk is written
          MaxRestarts            \* bound: how often the indexer is killed and run again

ASSUME IndexBuilderAssumption == /\ DOCS_PER_INDEX_CHUNK \in Nat \ {0}
                                 /\ CHUNK_MEM_BUDGET \in Nat \ {0}
                                 /\ MaxRestarts \in Nat

Lines == [ kind : {"doc", "enddoc", "title", "blank", "text"}, word : Seq(1..255), spaced : BOOLEAN ]
            \cup [ kind : {"fill"}, n : Nat ]

ASSUME InputsAssumption == Inputs \subseteq Seq(Lines)

VARIABLES input,     \* the parser output file
          rest,      \* the lines not yet read
          index,     \* unordered_map<string, postings>
          urls,      \* URLs of the documents in memory, by document number
          curr_doc_, docs_in_chunk_, posts_bytes_,
          phase,     \* "indexing", "full" and "last" (about to flush), "done", "killed"
          files,     \* the chunk files of this worker, in order
          restarts,
          log        \* history: for each chunk file what was indexed when it was written

vars == << input, rest, index, urls, curr_doc_, docs_in_chunk_, posts_bytes_,
           phase, files, restarts, log >>

PostBytes == 8          \* sizeof(post)

-----------------------------------------------------------------------------
(* Reading one document                                                     *)

FirstOf(lines, from, kind) ==
    LET hits == { i \in from..Len(lines) : lines[i].kind = kind }
    IN  IF hits = {} THEN Len(lines) + 1 ELSE Min(hits)

(* Where the next document begins: at a <doc> line, found by scanning on if  *)
(* the line at hand is another one.                                         *)
Header(lines) == FirstOf(lines, 1, "doc")

Unread(lines, from) == SubSeq(lines, from, Len(lines))

(* The lines of a document that are words of it.                             *)
IsWord(line) == line.kind \notin {"title", "blank", "fill"} /\ ~line.spaced

NoPosts == [ posts |-> << >>, n_docs |-> 0 ]

Entry(idx, w) == IF w \in DOMAIN idx THEN idx[w] ELSE NoPosts

(* Slip: locations count from 0, the value that marks a new document.        *)
AddWordFromZero(s, doc, w) ==
    LET new == [ posts  |-> Append(Entry(s.index, w).posts, [ doc |-> doc, loc |-> s.loc ]),
                 n_docs |-> Entry(s.index, w).n_docs + (IF w \in s.word_set THEN 0 ELSE 1) ]
    IN  [ index    |-> [ v \in DOMAIN s.index \cup {w} |-> IF v = w THEN new ELSE s.index[v] ],
          word_set |-> s.word_set \cup {w},
          loc      |-> s.loc + 1 ]

(* A word's post joins those of the chunk; its document count grows with its  *)
(* first post of a document.                                                *)
AddWord(s, doc, w) ==
    LET new == [ posts  |-> Append(Entry(s.index, w).posts, [ doc |-> doc, loc |-> s.loc + 1 ]),
                 n_docs |-> Entry(s.index, w).n_docs + (IF w \in s.word_set THEN 0 ELSE 1) ]
    IN  [ index    |-> [ v \in DOMAIN s.index \cup {w} |-> IF v = w THEN new ELSE s.index[v] ],
          word_set |-> s.word_set \cup {w},
          loc      |-> s.loc + 1 ]

(* The loop over the lines of a document, up to its </doc> or to the end of   *)
(* the file.                                                                *)
AddDocument(idx, doc, lines) ==
    LET upto[i \in 0..Len(lines)] ==
            IF i = 0 THEN [ index |-> idx, word_set |-> {}, loc |-> 0 ]
            ELSE IF IsWord(lines[i]) THEN AddWord(upto[i - 1], doc, lines[i].word)
            ELSE upto[i - 1]
    IN  upto[Len(lines)]

-----------------------------------------------------------------------------
(* Chunks                                                                   *)

(* Slip: documents go on being numbered from where the last chunk stopped.   *)
reset_chunk_numbering_on ==
    /\ index' = << >>
    /\ urls' = << >>
    /\ docs_in_chunk_' = 0
    /\ posts_bytes_' = 0
    /\ curr_doc_' = curr_doc_

reset_chunk == /\ index' = << >>
         /\ urls' = << >>
         /\ docs_in_chunk_' = 0
         /\ posts_bytes_' = 0
         /\ curr_doc_' = 1

ChunkIsFull(docs, bytes) == docs >= DOCS_PER_INDEX_CHUNK \/ bytes >= CHUNK_MEM_BUDGET

-----------------------------------------------------------------------------
Init == /\ input \in Inputs
        /\ rest = input
        /\ index = << >> /\ urls = << >>
        /\ curr_doc_ = 1 /\ docs_in_chunk_ = 0 /\ posts_bytes_ = 0
        /\ phase = "indexing"
        /\ files = << >> /\ log = << >>
        /\ restarts = 0

(* A stretch of documents without words.                                    *)
FillDocuments ==
    /\ phase = "indexing" /\ rest # << >> /\ Head(rest).kind = "fill"
    /\ curr_doc_' = curr_doc_ + Head(rest).n
    /\ docs_in_chunk_' = docs_in_chunk_ + Head(rest).n
    /\ urls' = urls \o [ i \in 1..Head(rest).n |-> "filler" ]
    /\ rest' = Tail(rest)
    /\ ~ChunkIsFull(docs_in_chunk_', posts_bytes_)    \* bound: a stretch fills no chunk
    /\ UNCHANGED << input, index, posts_bytes_, phase, files, restarts, log >>

(* One turn of index_file's loop that finds a document with a URL.           *)
IndexDocument ==
    LET h    == Header(rest)
        end  == FirstOf(rest, h + 2, "enddoc")
        read == AddDocument(index, curr_doc_, SubSeq(rest, h + 2, end - 1))
    IN  /\ phase = "indexing"
        /\ rest # << >> => Head(rest).kind # "fill"
        /\ h + 1 <= Len(rest)
        /\ rest[h + 1].kind # "blank"
        /\ rest' = Unread(rest, end + 1)
        /\ index' = read.index
        /\ urls' = Append(urls, rest[h + 1].word)
        /\ curr_doc_' = curr_doc_ + 1
        /\ docs_in_chunk_' = docs_in_chunk_ + 1
        /\ posts_bytes_' = posts_bytes_ + PostBytes * read.loc
        /\ phase' = IF ChunkIsFull(docs_in_chunk_', posts_bytes_') THEN "full" ELSE phase
        /\ UNCHANGED << input, files, restarts, log >>

(* A <doc> whose URL line is blank is passed over.                          *)
SkipDocument ==
    LET h == Header(rest)
    IN  /\ phase = "indexing"
        /\ rest # << >> => Head(rest).kind # "fill"
        /\ h + 1 <= Len(rest)
        /\ rest[h + 1].kind = "blank"
        /\ rest' = Unread(rest, h + 2)
        /\ UNCHANGED << input, index, urls, curr_doc_, docs_in_chunk_, posts_bytes_,
                        phase, files, restarts, log >>

(* No further document: the last chunk is written, whatever is in it.       *)
Finish ==
    /\ phase = "indexing"
    /\ rest # << >> => Head(rest).kind # "fill"
    /\ Header(rest) + 1 > Len(rest)
    /\ rest' = << >>
    /\ phase' = "last"
    /\ UNCHANGED << input, index, urls, curr_doc_, docs_in_chunk_, posts_bytes_, files, restarts, log >>

(* flush persists and resets; if the file cannot be opened the reset still   *)
(* happens and the documents are gone.                                      *)
flush ==
    /\ phase \in {"full", "last"}
    /\ \/ /\ files' = Append(files, persist(index, urls))
          /\ log' = Append(log, index)
       \/ UNCHANGED << files, log >>
    /\ reset_chunk
    /\ phase' = IF phase = "last" THEN "done" ELSE "indexing"
    /\ UNCHANGED << input, rest, restarts >>

Killable == phase \in {"indexing", "full", "last"} /\ restarts < MaxRestarts

ForgetMemory == /\ reset_chunk
                /\ rest' = << >>
                /\ phase' = "killed"

(* The process dies: what is in memory is lost.                             *)
Kill == /\ Killable
        /\ ForgetMemory
        /\ UNCHANGED << input, files, restarts, log >>

(* It dies inside persist: the file exists and is cut somewhere.            *)
Cuts(file) ==
    { [ part |-> p, at |-> 0 ] : p \in {"urls", "toc"} }
        \cup { [ part |-> "dict", at |-> k ] : k \in 0..Len(file.dict) }
        \cup { [ part |-> "region", at |-> n ] : n \in 0..(file.size - 1) }

KillInPersist ==
    /\ Killable
    /\ phase # "indexing"
    /\ LET file == persist(index, urls)
       IN  \E c \in Cuts(file) : files' = Append(files, [ file EXCEPT !.cut = c ])
    /\ log' = Append(log, index)
    /\ ForgetMemory
    /\ UNCHANGED << input, restarts >>

(* Run again: the chunk number is that of the first file there is not yet.   *)
Restart ==
    /\ phase = "killed"
    /\ restarts' = restarts + 1
    /\ rest' = input
    /\ phase' = "indexing"
    /\ UNCHANGED << input, index, urls, curr_doc_, docs_in_chunk_, posts_bytes_, files, log >>

Stopped == phase = "done" /\ UNCHANGED vars

Next == \/ FillDocuments \/ IndexDocument \/ SkipDocument \/ Finish \/ flush
        \/ Kill \/ KillInPersist \/ Restart \/ Stopped

Spec == Init /\ [][Next]_vars

-----------------------------------------------------------------------------
(* Properties                                                               *)

(* The fields have their types, and files and their history stay in step.   *)
TypeOK ==
    /\ phase \in {"indexing", "full", "last", "done", "killed"}
    /\ curr_doc_ \in Nat \ {0} /\ docs_in_chunk_ \in Nat /\ posts_bytes_ \in Nat
    /\ restarts \in 0..MaxRestarts
    /\ \A w \in DOMAIN index : \A i \in DOMAIN index[w].posts :
           index[w].posts[i].doc \in 1..(curr_doc_ - 1) /\ index[w].posts[i].loc \in Nat \ {0}
    /\ Len(files) = Len(log)

(* In memory and in every chunk, a post names a document whose URL is in the *)
(* same chunk, no location of a document is held twice, and a word's         *)
(* document count is the number of documents it is in (index_file, reset).   *)
Consistent(idx, us) ==
    LET occurrences == UNION { { << w, i >> : i \in DOMAIN idx[w].posts } : w \in DOMAIN idx }
        at(o) == idx[o[1]].posts[o[2]]
    IN  /\ \A o \in occurrences : at(o).doc \in DOMAIN us
        /\ \A o, q \in occurrences : at(o) = at(q) => o = q
        /\ \A w \in DOMAIN idx :
              idx[w].n_docs = Cardinality({ idx[w].posts[i].doc : i \in DOMAIN idx[w].posts })

ChunksConsistent == /\ Consistent(index, urls)
                    /\ \A c \in DOMAIN files : Consistent(log[c], files[c].urls)

(* The table of contents brackets the dictionary: the entries from a slot's  *)
(* offset up to that of the next slot in byte order are the words that begin *)
(* with its character, so an unused slot reads as an empty range.           *)
TocBracketsWords ==
    \A c \in DOMAIN files :
        LET toc     == files[c].toc
            entries == [ k \in DOMAIN files[c].dict |-> files[c].dict[k].word ]
            after(s) == { t \in 1..36 : Slots[t] > Slots[s] }
            upto(s) == IF after(s) = {} THEN EntryOffset(entries, Len(entries) + 1)
                       ELSE toc[CHOOSE t \in after(s) : \A r \in after(s) : Slots[t] <= Slots[r]]
        IN  \A s \in 1..36 :
              { k \in DOMAIN entries : toc[s] <= EntryOffset(entries, k) /\ EntryOffset(entries, k) < upto(s) }
                = { k \in DOMAIN entries : entries[k][1] = Slots[s] }
=============================================================================
