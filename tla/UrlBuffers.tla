----------------------------- MODULE UrlBuffers -----------------------------
(***************************************************************************)
(* From a batch of link text to update requests (parser/url_buffers.h,         *)
(* LocalUrlBuffer::add_urls).  The text is in pieces, as PageParser leaves it.  *)
(***************************************************************************)
EXTENDS PageParser

CONSTANT MaxHops        \* bound on distances in the text

(* The lines of a text: each the pieces before a line feed.                  *)
Lines(text) ==
    FoldLeft(LAMBDA ls, s : IF s = NL THEN Append(ls, << >>)
                            ELSE [ ls EXCEPT ![Len(ls)] = Append(@, s) ],
             << << >> >>, text)

Text(line) == FoldLeft(LAMBDA t, s : t \o s, "", line)

strtol(s) == CHOOSE n \in 0..MaxHops : ToString(n) = s

(* The words of a line: what stands between blanks.                          *)
Words(line) ==
    LET step(ws, s) == IF s = BL THEN Append(ws, "") ELSE [ ws EXCEPT ![Len(ws)] = @ \o s ]
    IN  SelectSeq(FoldLeft(step, << "" >>, line), LAMBDA w : w # "")

Request(url, anchor, b) ==
    [ url |-> url, anchor_text |-> anchor, num_encountered |-> 1,
      seed_list_url_hops |-> b.hops + 1,
      seed_list_domain_hops |-> b.domain_hops + (IF extract_domain(url) # b.domain THEN 1 ELSE 0) ]

(* The line of a link: blank lines do not count.                              *)
ReadUrl(b, line) ==
    LET url == normalize_url(Text(line))
    IN  CASE line = << >>        -> b
          [] Text(line) = EndDoc -> [ b EXCEPT !.at = "doc" ]
          [] OTHER -> IF url = "" THEN [ b EXCEPT !.at = "skip" ] ELSE [ b EXCEPT !.at = "anchor", !.url = url ]

(* One line more.  A link that is dropped takes the line behind it along,      *)
(* whatever that is.                                                        *)
ReadLine(b, line) ==
    CASE b.at = "doc"    -> IF Text(line) = "<doc>" THEN [ b EXCEPT !.at = "hops" ]
                            ELSE [ b EXCEPT !.at = "bad" ]
      [] b.at = "hops"   -> [ b EXCEPT !.at = "domain", !.hops = strtol(Words(line)[1]),
                                       !.domain_hops = strtol(Words(line)[2]) ]
      [] b.at = "domain" -> [ b EXCEPT !.at = "url", !.domain = Text(line) ]
      [] b.at = "url"    -> ReadUrl(b, line)
      [] b.at = "anchor" -> [ b EXCEPT !.at = "url", !.reqs = Append(@, Request(b.url, Words(line), b)) ]
      [] b.at = "skip"   -> [ b EXCEPT !.at = "url" ]
      [] OTHER           -> b

(* add_urls, up to passing the requests on.  What follows the last line feed    *)
(* is no line: nothing does in the batches of the parser.                     *)
add_urls(text) ==
    FoldLeft(ReadLine, [ at |-> "doc", hops |-> 0, domain_hops |-> 0, domain |-> "", url |-> "", reqs |-> << >> ],
             Front(Lines(text))).reqs
=============================================================================
