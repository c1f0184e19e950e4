------------------------------- MODULE Search -------------------------------
(***************************************************************************)
(* A query on one chunk from its text to the pages it yields, set against     *)
(* the meaning the query language gives it (the comment at the head of       *)
(* query/expressions.h): a word or a phrase is in the document, '-' is not,   *)
(* '|' is or, juxtaposition is and.                                         *)
(***************************************************************************)
EXTENDS ChunkManager, QueryLanguage, RankedPages

CONSTANTS Corpora,      \* the indexed collections: sequences of documents, each a sequence of words
          Queries,      \* query texts
          WordLists,    \* word lists handed to default_query and phrase_query
          PageLists,    \* lists of lists of pages to rank and merge
          Budgets       \* how many rounds a scan may make before its deadline

VARIABLES corpus,       \* what was indexed
          li,           \* the chunk loaded from its file
          asked,        \* [kind, text, words, pages]
          budget,
          phase,        \* "asked" or "answered"
          hits          \* the documents found

vars == << corpus, li, asked, budget, phase, hits >>

(* The index of a collection, as index_file builds it.                      *)
IndexOf(docs) ==
    LET words   == UNION { Range(docs[d]) : d \in DOMAIN docs }
        posts(w) == { [ doc |-> d, loc |-> l ] : d \in DOMAIN docs, l \in 1..Max({0} \cup { Len(docs[e]) : e \in DOMAIN docs }) }
        of(w)   == { p \in posts(w) : p.loc <= Len(docs[p.doc]) /\ docs[p.doc][p.loc] = w }
    IN  [ w \in words |-> [ posts  |-> SetToSortSeq(of(w), LAMBDA p, q : p.doc < q.doc \/ (p.doc = q.doc /\ p.loc < q.loc)),
                            n_docs |-> Cardinality({ p.doc : p \in of(w) }) ] ]

Init == /\ corpus \in Corpora
        /\ li = LoadedIndex(persist(IndexOf(corpus), [ d \in DOMAIN corpus |-> << "url", d >> ]))
        /\ asked \in { [ kind |-> "query", text |-> q, words |-> << >>, pages |-> << >> ] : q \in Queries }
                 \cup { [ kind |-> k, text |-> << >>, words |-> w, pages |-> << >> ]
                          : k \in {"default", "phrase"}, w \in WordLists }
                 \cup { [ kind |-> "rank", text |-> << >>, words |-> << >>, pages |-> p ] : p \in PageLists }
        /\ asked.kind = "default" => IsInjective(asked.words)     \* default_query's stated precondition
        /\ budget \in Budgets
        /\ phase = "asked" /\ hits = << >>

Answered == phase' = "answered" /\ UNCHANGED << corpus, li, asked, budget >>

(* A text that does not parse is answered with nothing.                     *)
AnswerQuery ==
    /\ phase = "asked" /\ asked.kind = "query"
    /\ LET parsed == parse_query_ast(asked.text)
       IN  hits' = IF parsed.ok THEN query(li, parsed.node, budget) ELSE << >>
    /\ Answered

AnswerWords ==
    /\ phase = "asked" /\ asked.kind \in {"default", "phrase"}
    /\ hits' = IF asked.kind = "phrase" THEN phrase_query(li, asked.words, budget)
                                        ELSE default_query(li, asked.words, budget)
    /\ Answered

(* Each list is drained into a buffer of its own, the buffers are merged.     *)
RankPages ==
    /\ phase = "asked" /\ asked.kind = "rank"
    /\ hits' = merge_top_pages([ b \in DOMAIN asked.pages |-> drain_into(asked.pages[b], << >>) ], CAPACITY)
    /\ Answered

Done == phase = "answered" /\ UNCHANGED vars

Next == AnswerQuery \/ AnswerWords \/ RankPages \/ Done

Spec == Init /\ [][Next]_vars

-----------------------------------------------------------------------------
(* The meaning of a query                                                   *)

HasPhrase(doc, words) ==
    words # << >> /\ \E at \in 0..(Len(doc) - Len(words)) : SubSeq(doc, at + 1, at + Len(words)) = words

RECURSIVE Holds(_, _)
Holds(ast, doc) ==
    CASE ast.type = "term" -> HasPhrase(doc, IF ast.is_phrase THEN SplitWords(ast.val) ELSE << ast.val >>) # ast.is_negated
      [] ast.type = "and"  -> \A i \in DOMAIN ast.children : Holds(ast.children[i], doc)
      [] ast.type = "or"   -> \E i \in DOMAIN ast.children : Holds(ast.children[i], doc)

(* A query needs a positive word it can be driven by; without one it is       *)
(* answered with nothing.                                                   *)
RECURSIVE Drivable(_)
Drivable(ast) ==
    CASE ast.type = "term" -> ~ast.is_negated
      [] ast.type = "and"  -> \E i \in DOMAIN ast.children : Drivable(ast.children[i])
      [] ast.type = "or"   -> \A i \in DOMAIN ast.children : Drivable(ast.children[i])

Meant(doc) ==
    CASE asked.kind = "query"   -> LET p == parse_query_ast(asked.text)
                                   IN  p.ok /\ Drivable(p.node) /\ Holds(p.node, doc)
      [] asked.kind = "default" -> asked.words # << >> /\ Range(asked.words) \subseteq Range(doc)
      [] asked.kind = "phrase"  -> HasPhrase(doc, asked.words)

(* The answer consists of the documents the query means, in order of their    *)
(* numbers, each under its URL and none twice; if the scan stops early, at    *)
(* its deadline or at the cap, they are the first of them.                   *)
AnswersMeanQuery ==
    phase = "answered" /\ asked.kind # "rank" =>
        LET meant == SetToSortSeq({ d \in DOMAIN corpus : Meant(corpus[d]) }, <)
            found == [ h \in DOMAIN hits |-> hits[h].doc ]
        IN  /\ IsPrefix(found, meant)
            /\ \A h \in DOMAIN hits : hits[h].url = << "url", hits[h].doc >>
            /\ Len(found) < Len(meant) => \/ Len(found) = CHUNK_MANAGER_MAX_MATCHES
                                          \/ budget < Cardinality(DOMAIN corpus) * 4
            /\ asked.kind = "query" =>
                 Len(found) = Min({Len(meant), budget, CHUNK_MANAGER_MAX_MATCHES})

(* A caller that takes the documents of one word in turn, each with all its   *)
(* positions, and reaches some of them by advance, the others by advance_to,  *)
(* gets every document of the word, none twice, and every position in it:     *)
(* the post that ended one document's walk, decoded and pending, is the first *)
(* of the next document and must come out once, by whichever call.           *)
(* The positions reported with an answer are all those of the word in the     *)
(* document; for a phrase, where it first stands.                            *)
RECURSIVE ReadByDocument(_, _, _)
ReadByDocument(s, last, sought) ==
    LET t == IF last + 1 \in sought THEN advance_to(s, last + 1) ELSE advance(s)
        c == collect_positions_in_current_doc(t)
    IN  IF t.out.doc = 0 THEN << >>
        ELSE << << t.out.doc, c[2] >> >> \o ReadByDocument(c[1], t.out.doc, sought)

PositionsAreTrue ==
    /\ phase = "asked" /\ asked.kind = "default" =>
         \A i \in DOMAIN asked.words : \A sought \in SUBSET DOMAIN corpus :
            LET of(d)   == SetToSortSeq({ l \in DOMAIN corpus[d] : corpus[d][l] = asked.words[i] }, <)
                holding == SetToSortSeq({ d \in DOMAIN corpus : of(d) # << >> }, <)
            IN  ReadByDocument(IndexStreamReader(asked.words[i], li), 0, sought)
                    = [ k \in DOMAIN holding |-> << holding[k], of(holding[k]) >> ]
    /\ phase = "answered" /\ asked.kind # "rank" =>
        \A h \in DOMAIN hits : \A i \in DOMAIN hits[h].words :
            LET info == hits[h].words[i]
                doc  == corpus[hits[h].doc]
                all  == SetToSortSeq({ l \in DOMAIN doc : doc[l] = info.word }, <)
            IN  IF asked.kind = "phrase" /\ Len(asked.words) > 1
                THEN /\ info.word = asked.words[i]
                     /\ info.positions[1] = hits[h].words[1].positions[1] + i - 1
                     /\ doc[info.positions[1]] = info.word
                     /\ \A at \in 1..(hits[h].words[1].positions[1] - 1) :
                          SubSeq(doc, at, at + Len(asked.words) - 1) # asked.words
                ELSE info.positions = all

(* The tree of parse_query_tree accepts a document, from the terms found in   *)
(* it, only if the query means it, and parses whatever the other parser does  *)
(* unless a branch has negations only or the arena is too small.            *)
FoundIn(doc, tree) ==
    { w \in UniqueTerms(tree.children) :
        HasPhrase(doc, IF w.is_phrase THEN SplitWords(w.val) ELSE << w.val >>) }

BranchesAcceptNoMore ==
    asked.kind = "query" /\ phase = "asked" =>
        With(parse_query_tree(asked.text), LAMBDA tree :
            tree.ok /\ tree.children # << >> =>
                With(parse_query_ast(asked.text), LAMBDA parsed :
                    /\ parsed.ok
                    /\ \A d \in DOMAIN corpus :
                         evaluate_query(tree.children, FoundIn(corpus[d], tree)) => Holds(parsed.node, corpus[d])))

(* The merged pages are the best of all pages, best first, each once; the     *)
(* sort gives the same scores.                                              *)
BestPagesKept ==
    phase = "answered" /\ asked.kind = "rank" =>
        LET pages  == FlattenSeq(asked.pages)
            scores(seq) == [ i \in DOMAIN seq |-> seq[i].score ]
            best   == SortSeq(scores(pages), >)
        IN  /\ scores(hits) = SubSeq(best, 1, Min({CAPACITY, Len(best)}))
            /\ Cardinality(Range(hits)) = Len(hits)
            /\ Range(hits) \subseteq Range(pages)
            /\ scores(sort(pages)) = best
=============================================================================
