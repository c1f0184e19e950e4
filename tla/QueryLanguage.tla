--------------------------- MODULE QueryLanguage ----------------------------
(***************************************************************************)
(* The query language (query/expressions.h) and the evaluation of a query    *)
(* against the set of terms a document was found to contain                 *)
(* (query/query_helpers.h).  A query is the tuple of its bytes.              *)
(***************************************************************************)
EXTENDS Integers, Sequences, FiniteSets, SequencesExt, FiniteSetsExt, TLC

CONSTANT MAX_NODES      \* nodes of a QueryArena

ASSUME QueryLanguageAssumption == MAX_NODES \in Nat \ {0}

Blanks == {32, 9, 10, 13}
Quote  == 34
LParen == 40
RParen == 41
Minus  == 45
Pipe   == 124

SingleTokens == (LParen :> "lparen") @@ (RParen :> "rparen") @@ (Pipe :> "pipe") @@ (Minus :> "minus")

-----------------------------------------------------------------------------
(* tokenize                                                                 *)

(* First position at or after i whose byte is in the set, or one past.       *)
NextIn(str, i, set) == Min({ j \in i..Len(str) : str[j] \in set } \cup {Len(str) + 1})

RECURSIVE TokensFrom(_, _)
TokensFrom(str, i) ==
    LET word   == NextIn(str, i, Blanks \cup {LParen, RParen, Pipe, Quote})
        phrase == NextIn(str, i + 1, {Quote})
    IN  IF i > Len(str) THEN << >>
        ELSE IF str[i] \in Blanks THEN TokensFrom(str, i + 1)
        ELSE IF str[i] \in DOMAIN SingleTokens
        THEN << [ type |-> SingleTokens[str[i]], val |-> << >> ] >> \o TokensFrom(str, i + 1)
        ELSE IF str[i] = Quote
        THEN << [ type |-> "phrase", val |-> SubSeq(str, i + 1, phrase - 1) ] >> \o TokensFrom(str, phrase + 1)
        ELSE << [ type |-> "word", val |-> SubSeq(str, i, word - 1) ] >> \o TokensFrom(str, word)

tokenize(str) == TokensFrom(str, 1)

-----------------------------------------------------------------------------
(* The parser.  A step yields [ok, node, pos]; ParseError is a result that    *)
(* is not ok.  A term's id counts the terms of the query from 0.             *)

ParseError == [ ok |-> FALSE, node |-> [ type |-> "none" ], pos |-> 0 ]

Term(val, is_phrase, is_negated, id) ==
    [ type |-> "term", val |-> val, is_phrase |-> is_phrase, is_negated |-> is_negated, id |-> id,
      children |-> << >> ]

Node(type, children) == [ type |-> type, children |-> children ]

RECURSIVE negate_ast(_)
negate_ast(node) ==
    CASE node.type = "term" -> [ node EXCEPT !.is_negated = ~@ ]
      [] node.type = "and"  -> Node("or",  [ i \in DOMAIN node.children |-> negate_ast(node.children[i]) ])
      [] node.type = "or"   -> Node("and", [ i \in DOMAIN node.children |-> negate_ast(node.children[i]) ])

IdOf(tokens, pos) == Cardinality({ i \in 1..(pos - 1) : tokens[i].type \in {"word", "phrase"} })

RECURSIVE parse_factor(_, _), FactorsFrom(_, _, _), SequencesFrom(_, _, _)

(* One or more factors up to a '|', a ')' or the end, joined by AND.         *)
parse_term_seq(tokens, pos) == FactorsFrom(tokens, pos, << >>)

FactorsFrom(tokens, pos, factors) ==
    IF pos <= Len(tokens) /\ tokens[pos].type \notin {"pipe", "rparen"}
    THEN LET f == parse_factor(tokens, pos)
         IN  IF f.ok THEN FactorsFrom(tokens, f.pos, Append(factors, f.node)) ELSE ParseError
    ELSE IF factors = << >> THEN ParseError
    ELSE [ ok |-> TRUE, pos |-> pos,
           node |-> IF Len(factors) = 1 THEN factors[1] ELSE Node("and", factors) ]

(* Sequences separated by '|', joined by OR.                                *)
parse_expr(tokens, pos) == SequencesFrom(tokens, pos, << >>)

SequencesFrom(tokens, pos, seqs) ==
    LET s    == parse_term_seq(tokens, pos)
        more == Append(seqs, s.node)
    IN  IF ~s.ok THEN ParseError
        ELSE IF s.pos <= Len(tokens) /\ tokens[s.pos].type = "pipe"
        THEN SequencesFrom(tokens, s.pos + 1, more)
        ELSE [ ok |-> TRUE, pos |-> s.pos,
               node |-> IF Len(more) = 1 THEN more[1] ELSE Node("or", more) ]

parse_factor(tokens, pos) ==
    LET type  == tokens[pos].type
        inner == parse_factor(tokens, pos + 1)
        group == parse_expr(tokens, pos + 1)
    IN  IF pos > Len(tokens) THEN ParseError
        ELSE CASE type = "minus"  -> IF inner.ok THEN [ inner EXCEPT !.node = negate_ast(@) ] ELSE ParseError
               [] type = "lparen" -> IF group.ok /\ group.pos <= Len(tokens) /\ tokens[group.pos].type = "rparen"
                                     THEN [ group EXCEPT !.pos = @ + 1 ] ELSE ParseError
               [] type \in {"word", "phrase"} ->
                    [ ok |-> TRUE, pos |-> pos + 1,
                      node |-> Term(tokens[pos].val, type = "phrase", FALSE, IdOf(tokens, pos)) ]
               [] OTHER -> ParseError

(* What both parsers do with the tokens of a query that has any.             *)
ParseTokens(tokens) ==
    LET e == parse_expr(tokens, 1)
    IN  IF tokens # << >> /\ e.ok /\ e.pos > Len(tokens) THEN e ELSE ParseError

parse_query_ast(str) == ParseTokens(tokenize(str))

-----------------------------------------------------------------------------
(* parse_query_tree: disjunctive normal form, as a tree of shared prefixes   *)

RECURSIVE get_dnf(_)
get_dnf(node) ==
    LET subs == [ i \in DOMAIN node.children |-> get_dnf(node.children[i]) ]
        cross(paths, sub) == FlattenSeq([ r \in DOMAIN paths |-> [ s \in DOMAIN sub |-> paths[r] \o sub[s] ] ])
    IN  CASE node.type = "term" -> << << node >> >>
          [] node.type = "or"   -> FlattenSeq(subs)
          [] node.type = "and"  -> FoldLeft(cross, << << >> >>, subs)

(* Slip: terms are told apart by their text alone.                           *)
SameText(a, b) == a.val = b.val

SameTerm(a, b) == a.is_negated = b.is_negated /\ a.is_phrase = b.is_phrase /\ a.val = b.val

Frequency(paths, term) ==
    Cardinality({ pt \in UNION { { << p, t >> : t \in DOMAIN paths[p] } : p \in DOMAIN paths } :
                    SameTerm(paths[pt[1]][pt[2]], term) })

(* The bubble sort of a path's terms, most frequent first, then by id.       *)
SortPath(paths, path) ==
    LET freq(i) == Frequency(paths, path[i])
        order == SetToSortSeq(DOMAIN path,
                     LAMBDA i, j : \/ freq(i) > freq(j)
                                   \/ freq(i) = freq(j) /\ path[i].id < path[j].id
                                   \/ freq(i) = freq(j) /\ path[i].id = path[j].id /\ i < j)
    IN  [ k \in DOMAIN order |-> path[order[k]] ]

(* Add a path below a node, sharing the children it agrees with.  A node is   *)
(* [term, children]; the root has no term.                                  *)
RECURSIVE AddPath(_, _)
AddPath(children, path) ==
    LET same == { c \in DOMAIN children : SameTerm(children[c].term, Head(path)) }
        c    == Min(same)
    IN  IF path = << >> THEN children
        ELSE IF same = {} THEN Append(children, [ term |-> Head(path), children |-> AddPath(<< >>, Tail(path)) ])
        ELSE [ children EXCEPT ![c].children = AddPath(@, Tail(path)) ]

RECURSIVE CountNodes(_)
CountNodes(children) ==
    FoldLeft(LAMBDA n, c : n + 1 + CountNodes(c.children), 0, children)

OnlyNegated(path) == \A t \in DOMAIN path : path[t].is_negated

(* [ok, children, terms]: the branches below the root.  No token gives an     *)
(* empty tree; a path of negations only, or too many nodes, is an error.     *)
parse_query_tree(str) ==
    LET tokens   == tokenize(str)
        e        == ParseTokens(tokens)
        paths    == get_dnf(e.node)
        sorted   == [ p \in DOMAIN paths |-> SortPath(paths, paths[p]) ]
        children == FoldLeft(AddPath, << >>, sorted)
    IN  IF tokens = << >> THEN [ ok |-> TRUE, children |-> << >> ]
        ELSE IF ~e.ok \/ \E p \in DOMAIN paths : OnlyNegated(paths[p]) THEN [ ok |-> FALSE, children |-> << >> ]
        ELSE IF CountNodes(children) + 1 > MAX_NODES THEN [ ok |-> FALSE, children |-> << >> ]
        ELSE [ ok |-> TRUE, children |-> children ]

(* assign_word_ids: a term's id is its place among the distinct words and     *)
(* phrases of the tree; here the term itself, without its negation.          *)
WordOf(term) == [ val |-> term.val, is_phrase |-> term.is_phrase ]

RECURSIVE UniqueTerms(_)
UniqueTerms(children) ==
    UNION { { WordOf(t) : t \in { u \in {children[c].term} : u.val # << >> } }
              \cup UniqueTerms(children[c].children) : c \in DOMAIN children }

(* get_unique_words keeps the texts only.                                   *)
get_unique_words(children) == { w.val : w \in UniqueTerms(children) }

(* evaluate_query: found is the set of words and phrases in the document.     *)
(* A branch is accepted when the walk reaches a leaf.  A node with an empty   *)
(* text has no id, and is taken for a root: it holds if a child does.        *)
RECURSIVE evaluate_query(_, _)
evaluate_query(children, found) ==
    \E c \in DOMAIN children :
        LET term  == children[c].term
            below == children[c].children
        IN  \/ term.val = << >> /\ evaluate_query(below, found)
            \/ /\ term.val # << >>
               /\ (WordOf(term) \in found) # term.is_negated
               /\ below = << >> \/ evaluate_query(below, found)
=============================================================================
