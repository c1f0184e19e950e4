---------------------------- MODULE ChunkManager ----------------------------
(***************************************************************************)
(* chunk_manager (index_chunk/chunk_manager.h): the three ways in which a    *)
(* loaded chunk answers a query.  Each returns the documents it found, in     *)
(* order, as [doc, url, words], words giving the positions of each word.      *)
(*                                                                         *)
(* budget stands for the clock: the scan finds its deadline passed when it    *)
(* has gone round that many times.                                          *)
(***************************************************************************)
EXTENDS QueryTree

CONSTANT CHUNK_MANAGER_MAX_MATCHES     \* cap on the matches of one chunk

ASSUME ChunkManagerAssumption == CHUNK_MANAGER_MAX_MATCHES \in Nat \ {0}

Unique(words) ==
    SelectSeq([ i \in DOMAIN words |-> [ word |-> words[i], first |-> \A j \in 1..(i - 1) : words[j] # words[i] ] ],
              LAMBDA e : e.first)

(* The words of the leaves that are not negated: the terms, then the         *)
(* phrases, each in the order the tree was built.                           *)
RECURSIVE LeavesOf(_)
LeavesOf(n) ==
    IF IsLeaf(n) THEN << n >> ELSE FlattenSeq([ i \in DOMAIN n.children |-> LeavesOf(n.children[i]) ])

PositiveWords(root) ==
    LET of(op) == SelectSeq(LeavesOf(root), LAMBDA n : n.op = op /\ ~n.negated)
        words(leaves) == FlattenSeq([ i \in DOMAIN leaves |-> leaves[i].words ])
        all == Unique(words(of("term")) \o words(of("phrase")))
    IN  [ i \in DOMAIN all |-> all[i].word ]

-----------------------------------------------------------------------------
(* query: the tree finds the documents, separate readers their positions.    *)

Collect(s, doc) ==
    LET t == advance_to(s, doc)
    IN  IF t.out.doc = doc THEN collect_positions_in_current_doc(t) ELSE << t, << >> >>

RECURSIVE Scan(_, _, _, _, _)
Scan(li, root, readers, docs, budget) ==
    With(next_doc(root), LAMBDA n :
        IF n.doc = 0 \/ budget = 0 \/ Len(docs) >= CHUNK_MANAGER_MAX_MATCHES THEN docs
        ELSE With([ i \in DOMAIN readers |-> Collect(readers[i].isr, n.doc) ], LAMBDA hits :
                 Scan(li, n.node, [ i \in DOMAIN readers |-> [ readers[i] EXCEPT !.isr = hits[i][1] ] ],
                      Append(docs, [ doc |-> n.doc, url |-> get_url(li, n.doc),
                                     words |-> [ i \in DOMAIN readers |->
                                        [ word |-> readers[i].word, positions |-> hits[i][2] ] ] ]),
                      budget - 1)))

query(li, ast, budget) ==
    With(build_isr_tree(ast, li), LAMBDA root :
        LET words == PositiveWords(root)
        IN  IF ~is_driveable(root) \/ words = << >> THEN << >>
            ELSE Scan(li, root, [ i \in DOMAIN words |-> [ word |-> words[i], isr |-> IndexStreamReader(words[i], li) ] ],
                      << >>, budget))

-----------------------------------------------------------------------------
(* default_query: every word, by leapfrog; the readers in ascending order of  *)
(* their document counts, the first the driver.                             *)

(* Move readers i, i+1, ... to the target until one ends or goes beyond it.   *)
RECURSIVE Leap(_, _, _)
Leap(isrs, i, target) ==
    IF i > Len(isrs) THEN [ isrs |-> isrs, at |-> target ]
    ELSE With(advance_to(isrs[i], target), LAMBDA t :
             LET kept == [ isrs EXCEPT ![i] = t ]
             IN  IF t.out.doc = target THEN Leap(kept, i + 1, target)
                                       ELSE [ isrs |-> kept, at |-> t.out.doc ])

RECURSIVE Leapfrog(_, _, _, _, _, _)
Leapfrog(li, names, isrs, target, docs, budget) ==
    LET info(hits) ==
            [ doc |-> target, url |-> get_url(li, target),
              words |-> [ i \in DOMAIN isrs |-> [ word |-> names[i], positions |-> hits[i][2] ] ] ]
        (* The driver goes on to the least document from which the search resumes. *)
        onward(streams, least, docs2) ==
            With(advance_to(streams[1], least), LAMBDA driver :
                IF driver.out.doc = 0 THEN docs2
                ELSE Leapfrog(li, names, [ streams EXCEPT ![1] = driver ], driver.out.doc, docs2, budget - 1))
        matched(streams) ==
            With([ i \in DOMAIN isrs |-> collect_positions_in_current_doc(streams[i]) ], LAMBDA hits :
                onward([ i \in DOMAIN isrs |-> hits[i][1] ], target + 1, Append(docs, info(hits))))
    IN  With(Leap(isrs, 2, target), LAMBDA leap :
            IF budget = 0 \/ leap.at = 0 THEN docs
            ELSE IF leap.at # target THEN onward(leap.isrs, leap.at, docs)
            ELSE matched(leap.isrs))

default_query(li, words, budget) ==
    LET isr(w) == IndexStreamReader(w, li)
        order == SetToSortSeq(DOMAIN words,
                     LAMBDA i, j : \/ isr(words[i]).n_docs < isr(words[j]).n_docs
                                   \/ isr(words[i]).n_docs = isr(words[j]).n_docs /\ i < j)
        names == [ k \in DOMAIN order |-> words[order[k]] ]
        isrs  == [ k \in DOMAIN order |-> isr(names[k]) ]
    IN  IF words = << >> \/ \E i \in DOMAIN words : isr(words[i]).n_posts = 0 THEN << >>
        ELSE With(advance(isrs[1]), LAMBDA first :
                 IF first.out.doc = 0 THEN << >>
                 ELSE Leapfrog(li, names, [ isrs EXCEPT ![1] = first ], first.out.doc, << >>, budget))

-----------------------------------------------------------------------------
(* phrase_query: the first reader anchors the phrase, the others are checked  *)
(* to stand behind it; on a match the anchor goes on to the next document.    *)

RECURSIVE Anchor(_, _, _, _, _)
Anchor(li, words, isrs, docs, budget) ==
    LET ground == isrs[1].out
        info   == [ doc |-> ground.doc, url |-> get_url(li, ground.doc),
                    words |-> [ i \in DOMAIN words |-> [ word |-> words[i], positions |-> << ground.loc + i - 1 >> ] ] ]
    IN  IF budget = 0 \/ ground.doc = 0 THEN docs
        ELSE With(check_adjacency(isrs), LAMBDA valid :
                 IF valid.yes
                 THEN Anchor(li, words, [ valid.streams EXCEPT ![1] = advance_to_next_doc(@) ],
                             Append(docs, info), budget - 1)
                 ELSE Anchor(li, words, [ valid.streams EXCEPT ![1] = advance(@) ], docs, budget - 1))

phrase_query(li, words, budget) ==
    LET isrs == [ i \in DOMAIN words |-> IndexStreamReader(words[i], li) ]
    IN  CASE words = << >>   -> << >>
          [] Len(words) = 1 -> default_query(li, words, budget)
          [] OTHER          -> Anchor(li, words, [ isrs EXCEPT ![1] = advance(@) ], << >>, budget)
=============================================================================
