------------------------------- MODULE MCCrawl -------------------------------
(* Two machines, two hosts, a web of a few pages.                            *)
EXTENDS Crawl

Token(k, w, closing, url) == [ k |-> k, w |-> w, closing |-> closing, url |-> url ]
W(w)     == << Token("word", w, FALSE, ""), Token("break", "", FALSE, "") >>
A(url)   == << Token("a", "a", FALSE, url) >>
EndA     == << Token("a", "a", TRUE, "") >>
Title(w) == << Token("title", "title", FALSE, "") >> \o W(w) \o << Token("title", "title", TRUE, "") >>
Link(url, w) == A(url) \o W(w) \o EndA
Open(k, w)  == << Token(k, w, FALSE, "") >>
Close(k, w) == << Token(k, w, TRUE, "") >>
Script(pieces) == Open("section", "script") \o FlattenSeq(pieces) \o Close("section", "script")
PageOf(pieces) == [ k |-> "page", tokens |-> FlattenSeq(pieces) ]

(* On the home page the second link does not fit the buffer any more.  On Y it is  *)
(* the last word of the second link, so the third is lost; the fourth is not.  y    *)
(* is allowed and leads on to yz, which is not.                                    *)
Home == PageOf(<< Title("Home"), Close("comment", ""), W("hi"), Script(<< W("xyz"), Link("https://b.org/z", "no") >>), Link("/x/", "One"), Link("https://www.B.org:443/y", "two"), W("ok"), Open("discard", "p") >>)
X    == PageOf(<< << Token("word", "x", FALSE, ""), Token("entity", "amp", FALSE, "") >>, A("https://b.org/y/") \o W("the") \o W("y") \o EndA, Link("https://a.com", "home") >>)
Y    == PageOf(<< Link("/z/q.pdf", "file"), A("/z") \o W("private") \o W("old") \o W("letter") \o EndA, Link("https://a.com/x/", "x"), Link("/y/", "y") >>)
Z    == PageOf(<< W("z"), Link("https://a.com/x", "x") >>)

Line(key, arg) == [ key |-> key, arg |-> arg ]

MCWeb == ("a.com" :> ("" :> Home @@ "x" :> [ k |-> "moved", location |-> "/x/" ] @@ "x/" :> X))
      @@ ("b.org" :> ("y" :> [ k |-> "moved", location |-> "/yz" ] @@ "yz" :> Y @@ "y/" :> Y @@ "z" :> Z
          @@ "robots.txt" :> [ k |-> "robots", file |->
                 << Line("user-agent", "other"), Line("user-agent", "*"), Line("allow", "/"),
                    Line("disallow", "/*z"), Line("user-agent", "bad"), Line("disallow", "/y") >> ]))

MCSeeds == << "https://a.com/" >>

MCOwner == "https://a.com/" :> 1 @@ "https://a.com/x" :> 2 @@ "https://a.com/x/" :> 1
           @@ "https://b.org/y" :> 2 @@ "https://b.org/y/" :> 2 @@ "https://b.org/z" :> 1

MCPriority == [ u \in DOMAIN MCOwner |-> IF u = "https://b.org/y" THEN 1 ELSE 0 ]

MCMeans == [ u \in DOMAIN MCOwner |-> CASE u = "https://a.com/x/" -> "https://a.com/x"
                                        [] u = "https://b.org/y/" -> "https://b.org/y"
                                        [] OTHER -> u ]
           @@ "https://a.com" :> "https://a.com/" @@ "https://www.B.org:443/y" :> "https://b.org/y"

NoEscapes == << >>
=============================================================================
