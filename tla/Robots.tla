------------------------------- MODULE Robots -------------------------------
(***************************************************************************)
(* robots.txt (parser/RobotsManager.cpp, RobotsManager.h): its statements       *)
(* grouped into rules, the directive that decides on a path, and the cache of   *)
(* rules per domain.                                                        *)
(*                                                                         *)
(* A file is a sequence of statements [key, arg], one per line; a blank line,   *)
(* a comment or an unknown keyword is a statement of key "other".             *)
(***************************************************************************)
EXTENDS Integers, Sequences, FiniteSets, SequencesExt, FiniteSetsExt, TLC

CONSTANTS AGENT_NAMES,      \* the names that are part of USER_AGENT, in any case
          ESCAPES,          \* "%61" :> "a" @@ ... : what two hex digits stand for
          CAPACITY          \* ROBOTS_CACHE_SIZE: domains in the cache

ASSUME RobotsAssumption == CAPACITY \in Nat \ {0}

At(s, i) == SubSeq(s, i, i)

-----------------------------------------------------------------------------
(* UrlDecode: escapes are decoded once, left to right, but for the slash; an    *)
(* unfinished escape at the end is lost.                                     *)
UrlDecode(s) ==
    LET escape(i) == SubSeq(s, i, i + 2)
        step(d, i) ==
            IF i < d.next THEN d
            ELSE IF At(s, i) # "%" THEN [ next |-> i + 1, out |-> d.out \o At(s, i) ]
            ELSE IF i + 2 > Len(s) THEN [ d EXCEPT !.next = Len(s) + 1 ]
            ELSE IF escape(i) \in DOMAIN ESCAPES /\ ESCAPES[escape(i)] # "/"
            THEN [ next |-> i + 3, out |-> d.out \o ESCAPES[escape(i)] ]
            ELSE [ next |-> i + 1, out |-> d.out \o "%" ]
    IN  FoldLeft(step, [ next |-> 1, out |-> "" ], [ i \in 1..Len(s) |-> i ]).out

(* A pattern: the argument decoded, without one slash in front and without a    *)
(* dollar sign at its end.  The dollar counts as a literal byte.              *)
Wildcard(arg) ==
    LET decoded == UrlDecode(arg)
        text    == IF decoded # "" /\ At(decoded, 1) = "/" THEN SubSeq(decoded, 2, Len(decoded)) ELSE decoded
        ends    == text # "" /\ At(text, Len(text)) = "$"
    IN  [ text             |-> IF ends THEN SubSeq(text, 1, Len(text) - 1) ELSE text,
          literalBytes     |-> Cardinality({ i \in 1..Len(text) : At(text, i) # "*" }),
          endsInDollarSign |-> ends ]

(* Match of the pattern from its i-th character on with the path from its j-th.  *)
RECURSIVE MatchFrom(_, _, _, _)
MatchFrom(w, i, path, j) ==
    IF i > Len(w.text) THEN ~w.endsInDollarSign \/ j > Len(path)
    ELSE IF At(w.text, i) # "*"
    THEN j <= Len(path) /\ At(path, j) = At(w.text, i) /\ MatchFrom(w, i + 1, path, j + 1)
    ELSE \/ i = Len(w.text)
         \/ At(w.text, i + 1) = "*" /\ MatchFrom(w, i + 1, path, j)
         \/ \E k \in j..Len(path) : MatchFrom(w, i + 1, path, k)

Matches(w, path) == MatchFrom(w, 1, path, 1)

-----------------------------------------------------------------------------
(* Rules: agents in a row, then their directives                             *)

Directive(type, arg) == [ type |-> type, wildcard |-> Wildcard(arg) ]

MoreSpecific(a, b) ==
    \/ a.literalBytes > b.literalBytes
    \/ a.literalBytes = b.literalBytes /\ a.endsInDollarSign /\ ~b.endsInDollarSign

TakesPriority(a, b) ==
    \/ MoreSpecific(a.wildcard, b.wildcard)
    \/ ~MoreSpecific(b.wildcard, a.wildcard) /\ a.type = "allow" /\ b.type = "disallow"

(* Slip: directives stay in the order of the file.                           *)
InOrderOfFile(directives) == directives

SortDirectives(directives) == SortSeq(directives, TakesPriority)

NewRule == [ agents |-> << >>, directives |-> << >> ]

(* One statement more.  An agent after a directive or a delay opens a new rule;  *)
(* before the first agent everything is skipped.  The delays themselves are     *)
(* collected, but no caller asks for them.                                   *)
AddStatement(t, s) ==
    LET last    == Len(t.rules)
        opened  == IF t.agentsDone \/ last = 0 THEN Append(t.rules, NewRule) ELSE t.rules
    IN  CASE s.key = "user-agent" ->
               [ rules |-> [ opened EXCEPT ![Len(opened)].agents = Append(@, s.arg) ], agentsDone |-> FALSE ]
          [] s.key \in {"allow", "disallow"} /\ last > 0 ->
               [ rules |-> [ t.rules EXCEPT ![last].directives = Append(@, Directive(s.key, s.arg)) ],
                 agentsDone |-> TRUE ]
          [] s.key = "crawl-delay" /\ last > 0 ->
               [ t EXCEPT !.agentsDone = TRUE ]
          [] OTHER -> t

RobotsTxt(file) ==
    LET rules == FoldLeft(AddStatement, [ rules |-> << >>, agentsDone |-> FALSE ], file).rules
    IN  [ i \in DOMAIN rules |-> [ rules[i] EXCEPT !.directives = SortDirectives(@) ] ]

MatchesAgent(name) == name \in AGENT_NAMES \cup {"", "*"}

(* Rule::Match: the first directive in order that matches, if an agent does.    *)
RuleMatch(rule, path) ==
    IF \E i \in DOMAIN rule.agents : MatchesAgent(rule.agents[i])
    THEN SelectSeq(rule.directives, LAMBDA d : Matches(d.wildcard, path))
    ELSE << >>

(* The best of the rules' directives, the earlier one unless a later takes       *)
(* priority.  That a literal agent wins a tie decides between directives of one  *)
(* type, and on nothing else.                                                *)
FindDirective(rules, path) ==
    FoldLeft(LAMBDA best, rule :
                 LET found == RuleMatch(rule, path)
                 IN  IF found # << >> /\ (best = << >> \/ TakesPriority(Head(found), Head(best)))
                     THEN << Head(found) >> ELSE best,
             << >>, rules)

PathAllowed(rules, path) ==
    LET stripped == IF path # "" /\ At(path, 1) = "/" THEN SubSeq(path, 2, Len(path)) ELSE path
        decided  == FindDirective(rules, UrlDecode(stripped))
    IN  decided = << >> \/ Head(decided).type = "allow"

(* ParsedUrl: the path is what follows the first slash after host and port.     *)
UrlAllowed(rules, path) == PathAllowed(rules, SubSeq(path, 2, Len(path)))

-----------------------------------------------------------------------------
(* The cache: entries [domain, rules], most recently used first.              *)

Cached(cache, domain) == \E i \in DOMAIN cache : cache[i].domain = domain

Evict(cache) == IF Len(cache) >= CAPACITY THEN Front(cache) ELSE cache

(* fetchAndParse and the move to the front.  file is what https_get brings if    *)
(* it is called: nothing, << >>, stands for a file that could not be had.       *)
Use(cache, domain, file) ==
    IF Cached(cache, domain)
    THEN SelectSeq(cache, LAMBDA e : e.domain = domain) \o SelectSeq(cache, LAMBDA e : e.domain # domain)
    ELSE << [ domain |-> domain, file |-> file ] >> \o Evict(cache)

(* checkStatus, on the cache it leaves.                                      *)
Allowed(cache, path) == UrlAllowed(RobotsTxt(Head(cache).file), path)
=============================================================================
