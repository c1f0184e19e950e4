----------------------------- MODULE QueryTree ------------------------------
(***************************************************************************)
(* The tree of iterators that answers a query on one chunk                   *)
(* (index_chunk/query_isr.h) and the scans that drive it and its two         *)
(* hand-written relatives (index_chunk/chunk_manager.h).  A node is a value;  *)
(* next_doc and probe yield a record of the node's next state and the answer. *)
(***************************************************************************)
EXTENDS IndexStream



Space == 32

(* The words of a text, split at spaces.                                    *)
SplitWords(text) ==
    LET starts == { i \in DOMAIN text : text[i] # Space /\ (i = 1 \/ text[i - 1] = Space) }
        end(i) == Min({ j \in i..Len(text) : j = Len(text) \/ text[j + 1] = Space })
        order  == SetToSortSeq(starts, <)
    IN  [ k \in DOMAIN order |-> SubSeq(text, order[k], end(order[k])) ]

-----------------------------------------------------------------------------
(* Nodes                                                                    *)

TermISR(word, negated, li) ==
    [ op |-> "term", negated |-> negated, words |-> << word >>,
      streams |-> << IndexStreamReader(word, li) >> ]

PhraseISR(text, negated, li) ==
    LET words == SplitWords(text)
    IN  [ op |-> "phrase", negated |-> negated, words |-> words,
          streams |-> [ i \in DOMAIN words |-> IndexStreamReader(words[i], li) ] ]

IsLeaf(n) == n.op \in {"term", "phrase"}

RECURSIVE is_driveable(_)
is_driveable(n) ==
    CASE IsLeaf(n)    -> ~n.negated
      [] n.op = "and" -> \E i \in DOMAIN n.children : is_driveable(n.children[i])
      [] n.op = "or"  -> n.children # << >> /\ \A i \in DOMAIN n.children : is_driveable(n.children[i])

MinOrZero(S) == IF S = {} THEN 0 ELSE Min(S)

RECURSIVE estimated_n_docs(_)
estimated_n_docs(n) ==
    CASE IsLeaf(n)    -> MinOrZero({ n.streams[i].n_docs : i \in DOMAIN n.streams })
      [] n.op = "and" -> MinOrZero({ estimated_n_docs(n.children[i]) :
                                       i \in { j \in DOMAIN n.children : is_driveable(n.children[j]) } })
      [] n.op = "or"  -> Sum([ i \in DOMAIN n.children |-> estimated_n_docs(n.children[i]) ])

(* The phrase is at ground if stream i stands i-1 places on; each stream is   *)
(* walked up to the place it should have.                                   *)
RECURSIVE WalkToLoc(_, _, _)
WalkToLoc(s, doc, loc) ==
    IF s.out.doc = doc /\ s.out.loc < loc THEN WalkToLoc(advance(s), doc, loc) ELSE s

RECURSIVE AdjacentFrom(_, _, _)
AdjacentFrom(streams, ground, i) ==
    IF i > Len(streams) THEN [ streams |-> streams, yes |-> TRUE ]
    ELSE With(WalkToLoc(advance_to(streams[i], ground.doc), ground.doc, ground.loc + i - 1), LAMBDA s :
             LET kept == [ streams EXCEPT ![i] = s ]
             IN  IF s.out = [ doc |-> ground.doc, loc |-> ground.loc + i - 1 ]
                 THEN AdjacentFrom(kept, ground, i + 1)
                 ELSE [ streams |-> kept, yes |-> FALSE ])

check_adjacency(streams) == AdjacentFrom(streams, streams[1].out, 2)

(* Move stream 0 on until the phrase is found there or the bound is passed.  *)
RECURSIVE SeekPhrase(_, _)
SeekPhrase(streams, onlyDoc) ==
    LET ground == streams[1].out
    IN  IF ground.doc = 0 \/ (onlyDoc # 0 /\ ground.doc # onlyDoc) THEN [ streams |-> streams, yes |-> FALSE ]
        ELSE With(check_adjacency(streams), LAMBDA adj :
                 IF adj.yes THEN adj ELSE SeekPhrase([ adj.streams EXCEPT ![1] = advance(@) ], onlyDoc))

-----------------------------------------------------------------------------
(* next_doc and probe                                                       *)

RECURSIVE next_doc(_), probe(_, _), NextOfAll(_, _, _), ProbeAll(_, _, _, _, _), AndNext(_)

(* Whether the word, or the phrase, stands where its first stream does: in     *)
(* document onlyDoc, or in any if that is 0.                                *)
Found(n, first, onlyDoc) ==
    IF n.op = "term"
    THEN [ streams |-> first,
           yes |-> IF onlyDoc = 0 THEN first[1].out.doc # 0 ELSE first[1].out.doc = onlyDoc ]
    ELSE SeekPhrase(first, onlyDoc)

LeafNext(n) ==
    IF n.streams = << >> THEN [ node |-> n, doc |-> 0 ]
    ELSE With(Found(n, [ n.streams EXCEPT ![1] = advance_to_next_doc(@) ], 0), LAMBDA found :
             [ node |-> [ n EXCEPT !.streams = found.streams ],
               doc  |-> IF found.yes THEN found.streams[1].out.doc ELSE 0 ])

LeafProbe(n, doc) ==
    IF n.streams = << >> THEN [ node |-> n, yes |-> n.negated ]
    ELSE With(Found(n, [ n.streams EXCEPT ![1] = advance_to(@, doc) ], doc), LAMBDA found :
             [ node |-> [ n EXCEPT !.streams = found.streams ], yes |-> found.yes # n.negated ])

(* Ask children i, i+1, ... but skip in turn; stop at the first answer       *)
(* that is stop.                                                            *)
ProbeAll(children, i, doc, skip, stop) ==
    IF i > Len(children) THEN [ children |-> children, yes |-> ~stop ]
    ELSE IF i = skip THEN ProbeAll(children, i + 1, doc, skip, stop)
    ELSE With(probe(children[i], doc), LAMBDA p :
             LET kept == [ children EXCEPT ![i] = p.node ]
             IN  IF p.yes = stop THEN [ children |-> kept, yes |-> stop ]
                                 ELSE ProbeAll(kept, i + 1, doc, skip, stop))

(* AND: the driver proposes, the other children are probed.                  *)
AndNext(n) ==
    With(next_doc(n.children[n.driver]), LAMBDA c :
        LET kept == [ n.children EXCEPT ![n.driver] = c.node ]
        IN  IF c.doc = 0 THEN [ node |-> [ n EXCEPT !.children = kept ], doc |-> 0 ]
            ELSE With(ProbeAll(kept, 1, c.doc, n.driver, FALSE), LAMBDA all :
                     IF all.yes THEN [ node |-> [ n EXCEPT !.children = all.children ], doc |-> c.doc ]
                     ELSE AndNext([ n EXCEPT !.children = all.children ])))

(* OR: advance, late, the children whose document was given out last, then   *)
(* give out the least.                                                      *)
NextOfAll(n, given, i) ==
    IF i > Len(n.children) THEN n
    ELSE IF n.current[i] # given THEN NextOfAll(n, given, i + 1)
    ELSE With(next_doc(n.children[i]), LAMBDA c :
             NextOfAll([ n EXCEPT !.children[i] = c.node, !.current[i] = c.doc ], given, i + 1))

OrNext(n) ==
    With(IF n.pending = 0 THEN n ELSE NextOfAll(n, n.pending, 1), LAMBDA m :
        LET least == MinOrZero({ m.current[i] : i \in DOMAIN m.current } \ {0})
        IN  [ node |-> [ m EXCEPT !.pending = least ], doc |-> least ])

next_doc(n) ==
    CASE IsLeaf(n)    -> LeafNext(n)
      [] n.op = "and" -> IF n.driver = 0 THEN [ node |-> n, doc |-> 0 ] ELSE AndNext(n)
      [] n.op = "or"  -> OrNext(n)

probe(n, doc) ==
    CASE IsLeaf(n)    -> LeafProbe(n, doc)
      [] OTHER -> With(ProbeAll(n.children, 1, doc, 0, n.op = "or"), LAMBDA a :
                      [ node |-> [ n EXCEPT !.children = a.children ], yes |-> a.yes ])

-----------------------------------------------------------------------------
(* Building the tree.  An AND keeps the driveable child with the fewest       *)
(* documents as its driver, the earliest of equals; an OR asks each child for *)
(* its first document as it is added.                                       *)

(* Slip: a negated child may become the driver.                              *)
PickAnyDriver(children) ==
    MinOrZero({ i \in DOMAIN children :
                  \A j \in DOMAIN children : estimated_n_docs(children[i]) <= estimated_n_docs(children[j]) })

PickDriver(children) ==
    LET able == { i \in DOMAIN children : is_driveable(children[i]) }
        rank(i) == estimated_n_docs(children[i])
    IN  MinOrZero({ i \in able : \A j \in able : rank(i) <= rank(j) })

AndOp(children) == [ op |-> "and", children |-> children, driver |-> PickDriver(children) ]

OrOp(children) ==
    With([ i \in DOMAIN children |-> next_doc(children[i]) ], LAMBDA primed :
        [ op |-> "or", children |-> [ i \in DOMAIN primed |-> primed[i].node ],
          current |-> [ i \in DOMAIN primed |-> primed[i].doc ], pending |-> 0 ])

RECURSIVE build_isr_tree(_, _)
build_isr_tree(ast, li) ==
    LET children == [ i \in DOMAIN ast.children |-> build_isr_tree(ast.children[i], li) ]
    IN  CASE ast.type = "term" -> IF ast.is_phrase THEN PhraseISR(ast.val, ast.is_negated, li)
                                                   ELSE TermISR(ast.val, ast.is_negated, li)
          [] ast.type = "and"  -> AndOp(children)
          [] ast.type = "or"   -> OrOp(children)
=============================================================================
