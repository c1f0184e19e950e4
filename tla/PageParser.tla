----------------------------- MODULE PageParser -----------------------------
(***************************************************************************)
(* The HTML parser (parser/parser.h, HtmlTags.h) and its two output buffers     *)
(* (word_array.h): from the page a worker fetched to the text of its words and   *)
(* to batches of text with its links.                                        *)
(*                                                                         *)
(* A page is a sequence of tokens, the pieces one turn of parse_chunk's loop     *)
(* takes: [k, w, closing, url].                                              *)
(*    word     letters and digits, w                                         *)
(*    break    a space or punctuation mark; joined: between two digits it is a   *)
(*             separator inside a number                                     *)
(*    apos     an apostrophe, as a character or an entity                      *)
(*    entity   another entity, or a space that does not break (nbsp)           *)
(*    odd      any other character                                           *)
(*    title, discard, section, comment, a, base, embed                         *)
(*             a tag, by the action of LookupPossibleTag; closing for </...>; w    *)
(*             is the name, url the link it carries or NoLink                   *)
(*    unknown  a < and what follows it that is no tag; closing: a mark follows   *)
(* A comment is one token, closing if its end is there.  Names of tags are in    *)
(* lower case, other texts as the page has them.                              *)
(***************************************************************************)
EXTENDS UrlFilter, TLC

CONSTANTS MAX_LINK_MEMORY, MAX_CONSECUTIVE_NON_ALNUM, MAX_CONSECUTIVE_NON_ENGLISH,
          ENGLISH           \* the words that are English or at most two characters long

ASSUME PageParserAssumption ==
    {MAX_LINK_MEMORY, MAX_CONSECUTIVE_NON_ALNUM, MAX_CONSECUTIVE_NON_ENGLISH} \subseteq Nat \ {0}

NL == "\n"      BL == " "      None == ""
EndDoc == "</doc>"

(* Bytes of a text in pieces                                                   *)
Bytes(pieces)  == FoldLeft(LAMBDA n, s : n + Len(s), 0, pieces)
Piece(s)       == IF s = "" THEN << >> ELSE << s >>

(* Use of a value worked out once.                                          *)
With(val, Use(_)) == Use(val)

-----------------------------------------------------------------------------
(* link_array.  Before the bytes of a push could come within ten of the end, the  *)
(* buffer is closed, handed over and begun again with the header of the page.   *)

LinkHeader(p) == << "<doc>", NL, ToString(p.hops), BL, ToString(p.domain_hops), NL, p.domain, NL >>

(* Slip: the new buffer is begun without a header.                           *)
FlushWithoutHeader(p) ==
    [ p EXCEPT !.batches = Append(@, p.links \o << NL, EndDoc, NL >>), !.links = << >>, !.size = 0 ]

FlushLinks(p) ==
    [ p EXCEPT !.batches = Append(@, p.links \o << NL, EndDoc, NL >>), !.links = LinkHeader(p),
               !.size = Bytes(LinkHeader(p)) ]

PushLink(p, s, delim) ==
    With(IF p.size + Len(s) + 10 >= MAX_LINK_MEMORY THEN FlushLinks(p) ELSE p,
         LAMBDA q : [ q EXCEPT !.links = @ \o Piece(s) \o Piece(delim), !.size = @ + Len(s) + Len(delim) ])

(* The words buffer is written to the file when full, or at the end, all of it in *)
(* lower case; no word depends on when.                                       *)
PushWord(p, s, delim) == [ p EXCEPT !.words = @ \o Piece(Lower(s)) \o Piece(delim) ]

-----------------------------------------------------------------------------
(* parse_chunk's state: cur is the text from word_start to p; stop when the      *)
(* page is given up or ends inside a comment or a section.                     *)

Start(url, hops, domain_hops) ==
    [ hops |-> hops, domain_hops |-> domain_hops, domain |-> extract_domain(url), url |-> url,
      links |-> << >>, size |-> 0, batches |-> << >>, words |-> << "<doc>", NL, Lower(url), NL >>,
      cur |-> "", num_words |-> 0, in_a |-> FALSE, in_title |-> FALSE, titleDone |-> FALSE,
      title |-> << >>, eot |-> 0, non_alnum_run |-> 0, non_english_run |-> 0,
      skipTo |-> None, stop |-> FALSE ]

AddTitle(p) == IF p.in_title /\ ~p.titleDone THEN [ p EXCEPT !.title = Append(@, p.cur) ] ELSE p

check_english(p) ==
    IF Len(p.cur) <= 2 THEN p
    ELSE IF Lower(p.cur) \in ENGLISH THEN [ p EXCEPT !.non_english_run = 0 ]
    ELSE [ p EXCEPT !.non_english_run = @ + 1, !.stop = (p.non_english_run + 1 >= MAX_CONSECUTIVE_NON_ENGLISH) ]

(* The text of a link is put into lower case, its URL is not.                  *)
ToAnchor(p, delim) == IF p.in_a THEN PushLink(p, Lower(p.cur), delim) ELSE p

(* The text so far is a word.                                               *)
EndWordWith(p, wordDelim, linkDelim) ==
    IF p.cur = "" THEN p
    ELSE With(PushWord(ToAnchor(p, linkDelim), p.cur, wordDelim),
              LAMBDA q : With([ AddTitle(q) EXCEPT !.num_words = @ + 1 ],
                              LAMBDA r : [ check_english(r) EXCEPT !.cur = "" ]))

EndWord(p) == EndWordWith(p, NL, BL)

(* The text so far goes out and what follows belongs to the same word.         *)
Continue(p) == IF p.cur = "" THEN p ELSE [ PushWord(ToAnchor(p, ""), p.cur, "") EXCEPT !.cur = "" ]

NonAlnum(p) ==
    LET run == p.non_alnum_run + 1
        out == [ p EXCEPT !.non_alnum_run = run, !.stop = (run >= MAX_CONSECUTIVE_NON_ALNUM) ]
    IN  IF out.stop THEN out ELSE [ PushWord(out, p.cur, "") EXCEPT !.cur = "" ]

TitleTag(p, t) ==
    IF t.closing
    THEN [ PushWord(p, "</title>", NL) EXCEPT !.in_title = FALSE, !.titleDone = TRUE, !.eot = p.num_words ]
    ELSE [ PushWord(p, "<title>", NL) EXCEPT !.in_title = TRUE ]

(* A link that begins with a slash belongs to the host of the page.           *)
FullLink(p, link) == IF StartsWith(link, "/") THEN Scheme(p.url) \o extract_host(p.url) \o link ELSE link

(* </a> ends a line, whether an <a> with a link is open or not.               *)
AnchorTag(p, t) ==
    CASE t.closing -> [ PushLink(p, "", NL) EXCEPT !.in_a = FALSE ]
      [] ~t.closing /\ t.url # None -> [ PushLink(p, FullLink(p, t.url), NL) EXCEPT !.in_a = TRUE ]
      [] OTHER -> p

(* Inside <script>, <style> or <svg> all is skipped up to a closing tag whose     *)
(* name begins with the section's.                                           *)
SectionTag(p, t) == IF t.closing THEN p ELSE [ p EXCEPT !.skipTo = t.w ]

EndsSection(t, name) ==
    \/ t.k = "section" /\ t.closing /\ StartsWith(t.w, name)
    \/ t.k = "unknown" /\ StartsWith(t.w, "</" \o name)

(* One without a src is passed over.                                         *)
EmbedTag(p, t) == IF t.url = None THEN p ELSE PushLink(p, t.url, NL)

Tag(p, t) ==
    CASE t.k = "title"   -> TitleTag(p, t)
      [] t.k = "a"       -> AnchorTag(p, t)
      [] t.k = "section" -> SectionTag(p, t)
      [] t.k = "embed"   -> EmbedTag(p, t)
      [] t.k = "comment" -> [ p EXCEPT !.stop = ~t.closing ]
      [] OTHER           -> p                        \* discard, and base: kept, never used

(* One turn of the loop.                                                    *)
Turn(p, t) ==
    CASE p.stop -> p
      [] ~p.stop /\ p.skipTo # None ->
           IF EndsSection(t, p.skipTo) THEN [ p EXCEPT !.skipTo = None ] ELSE p
      [] ~p.stop /\ p.skipTo = None ->
           CASE t.k = "word"    -> [ p EXCEPT !.cur = @ \o t.w, !.non_alnum_run = 0 ]
             [] t.k = "break"   -> IF t.closing THEN EndWordWith(p, "", "") ELSE EndWord(p)
             [] t.k = "apos"    -> Continue(p)
             [] t.k = "entity"  -> EndWord(p)
             [] t.k = "odd"     -> NonAlnum(p)
             [] t.k = "unknown" -> IF t.closing THEN EndWord([ p EXCEPT !.cur = @ \o t.w ])
                                   ELSE [ p EXCEPT !.cur = @ \o t.w ]
             [] OTHER           -> With(EndWord(p), LAMBDA q : IF q.stop THEN q ELSE Tag(q, t))

IsTag(t) == t.k \in {"title", "discard", "section", "comment", "a", "base", "embed"}

(* parse_buf parses up to the last >, or all of a page without one.            *)
SafeEnd(page) ==
    LET tags == { i \in DOMAIN page : IsTag(page[i]) }
    IN  IF tags = {} THEN Len(page) ELSE Max(tags)

(* parse_page with finish: the words of the page, the batches of its links, and   *)
(* the lengths the URL store is told, the second only if the end was reached.    *)
parse_page(page, url, hops, domain_hops) ==
    LET begun == Start(url, hops, domain_hops)
        named == LinkHeader(begun)
        read  == FoldLeft(Turn, [ begun EXCEPT !.links = named, !.size = Bytes(named) ],
                          SubSeq(page, 1, SafeEnd(page)))
    IN  With(read, LAMBDA p : With(PushLink(p, EndDoc, NL), LAMBDA done :
            [ words   |-> Append(Append(done.words, EndDoc), NL),
              batches |-> Append(done.batches, done.links),
              title   |-> p.title, titleDone |-> p.titleDone, eot |-> p.eot,
              whole   |-> ~p.stop /\ p.skipTo = None, eod |-> p.num_words ]))
=============================================================================
