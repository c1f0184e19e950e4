------------------------------ MODULE UrlFilter ------------------------------
(***************************************************************************)
(* Which links are followed, and under which spelling (lib/url_filter.h), and  *)
(* the parts of a URL other code works with (lib/utils.h).                    *)
(*                                                                         *)
(* A URL is a text.  Texts are TLA+ strings, taken apart with SubSeq.         *)
(***************************************************************************)
EXTENDS Integers, Sequences, FiniteSets, SequencesExt, FiniteSetsExt

CONSTANTS BLOCKED_URL_KEYWORDS, BAD_URL_EXTENSIONS, ALLOWED_TLDS, NON_ENGLISH_CODES,
          JUNK_PATH_SEGMENTS, BLOCKED_DOMAINS,      \* the tables: sets of lower case texts
          NONVOWEL_RUN,         \* consonants that make a label gibberish: 10 in the code
          MAX_PATH_DEPTH, MAX_URL

ASSUME UrlFilterAssumption == {NONVOWEL_RUN, MAX_PATH_DEPTH, MAX_URL} \subseteq Nat

Char(s, i)   == SubSeq(s, i, i)
Chars(s)     == { Char(s, i) : i \in 1..Len(s) }
From(s, i)   == SubSeq(s, i, Len(s))
EndsIn(s, t) == Len(t) <= Len(s) /\ From(s, Len(s) - Len(t) + 1) = t
StartsWith(s, t) == Len(t) <= Len(s) /\ SubSeq(s, 1, Len(t)) = t
Includes(s, t)   == \E i \in 0..(Len(s) - Len(t)) : SubSeq(s, i + 1, i + Len(t)) = t

(* First index from i on of a character of a set, or just past the end.       *)
FirstIndex(s, set, i) == Min({ k \in i..Len(s) : Char(s, k) \in set } \cup { Max({i, Len(s) + 1}) })

LowerCase == "abcdefghijklmnopqrstuvwxyz"
UpperCase == "ABCDEFGHIJKLMNOPQRSTUVWXYZ"
LowerOf   == [ c \in Chars(UpperCase) |-> Char(LowerCase, CHOOSE i \in 1..26 : Char(UpperCase, i) = c) ]
Vowels    == Chars("aeiouy")
UrlChars  == Chars(LowerCase) \cup Chars(UpperCase) \cup Chars("0123456789/-_.:")

Lower(s) ==
    FoldLeft(LAMBDA t, i : t \o (IF Char(s, i) \in DOMAIN LowerOf THEN LowerOf[Char(s, i)] ELSE Char(s, i)),
             "", [ i \in 1..Len(s) |-> i ])

is_nsfw_url(url) == \E word \in BLOCKED_URL_KEYWORDS : Includes(Lower(url), word)

has_bad_extension(path) == \E ext \in BAD_URL_EXTENSIONS : EndsIn(Lower(path), ext)

(* What follows the last dot of the host.                                    *)
has_allowed_tld(host) == \E tld \in ALLOWED_TLDS : EndsIn(Lower(host), "." \o tld)

is_non_english_code(s) == Lower(s) \in NON_ENGLISH_CODES

(* xx. before the rest of the host, or /xx/ or /xx- before the rest of the path. *)
has_non_english_code(host, path) ==
    \/ Len(host) > 3 /\ Char(host, 3) = "." /\ is_non_english_code(SubSeq(host, 1, 2))
    \/ /\ Len(path) >= 4 /\ Char(path, 1) = "/" /\ Char(path, 4) \in {"/", "-"}
       /\ is_non_english_code(SubSeq(path, 2, 3))

(* A run without a vowel inside one label.                                   *)
has_gibberish_host(host) ==
    \E i \in 0..(Len(host) - NONVOWEL_RUN) :
        Chars(Lower(SubSeq(host, i + 1, i + NONVOWEL_RUN))) \cap (Vowels \cup {"."}) = {}

has_junk_path(path) == \E seg \in JUNK_PATH_SEGMENTS : Includes(Lower(path), seg)

(* The host itself, or what is before it ends in a dot.                      *)
is_blocked_domain(host) == \E d \in BLOCKED_DOMAINS : Lower(host) = d \/ EndsIn(Lower(host), "." \o d)

host_path_has_only_allowed_chars(host, path) == Chars(host \o path) \subseteq UrlChars

exceeds_path_depth(path) == Cardinality({ i \in 1..Len(path) : Char(path, i) = "/" }) > MAX_PATH_DEPTH

-----------------------------------------------------------------------------
StripWww(authority) == IF Len(authority) >= 4 /\ Lower(SubSeq(authority, 1, 4)) = "www."
                       THEN From(authority, 5) ELSE authority

(* From the first colon on, if that is the default port of the scheme.        *)
StripPort(scheme, host) ==
    LET colon == FirstIndex(host, {":"}, 1)
    IN  IF From(host, colon) = (IF scheme = "https://" THEN ":443" ELSE ":80")
        THEN SubSeq(host, 1, colon - 1) ELSE host

(* Slip: a trailing slash stays.                                            *)
SlashKept(path) == path

(* No more than one slash is taken off, and none off the root.                *)
StripSlash(path) == IF Len(path) > 1 /\ EndsIn(path, "/") THEN SubSeq(path, 1, Len(path) - 1) ELSE path

Scheme(url) == IF StartsWith(url, "https://") THEN "https://" ELSE IF StartsWith(url, "http://") THEN "http://" ELSE ""

Authority(url) == SubSeq(url, Len(Scheme(url)) + 1, FirstIndex(url, {"/", "?", "#"}, Len(Scheme(url)) + 1) - 1)

(* From the authority up to the fragment                                     *)
PathAndQuery(url) ==
    LET start == FirstIndex(url, {"/", "?", "#"}, Len(Scheme(url)) + 1)
    IN  SubSeq(url, start, FirstIndex(url, {"#"}, start) - 1)

(* Whether a host and a path are worth following                             *)
Wanted(host, path) ==
    /\ ~has_bad_extension(path) /\ has_allowed_tld(host) /\ ~is_blocked_domain(host)
    /\ ~has_non_english_code(host, path) /\ ~has_gibberish_host(host)
    /\ ~has_junk_path(path) /\ ~exceeds_path_depth(path)

(* The empty text when the URL is dropped.  No query is let through, so the      *)
(* code that filters its parameters never runs.                              *)
normalize_url(url) ==
    LET named == StripWww(Authority(url))
        host  == StripPort(Scheme(url), named)
        path  == PathAndQuery(url)
    IN  IF /\ Len(url) <= MAX_URL /\ Scheme(url) # "" /\ named # ""
           /\ "?" \notin Chars(path) /\ host_path_has_only_allowed_chars(named, path)
           /\ Wanted(host, path)
        THEN Scheme(url) \o Lower(host) \o (IF path = "" THEN "/" ELSE StripSlash(path))
        ELSE ""

(* Host and port, up to the first slash; without www. in the domain.          *)
extract_host(url) ==
    LET start == Len(Scheme(url)) + 1 IN SubSeq(url, start, FirstIndex(url, {"/"}, start) - 1)

extract_domain(url) ==
    IF StartsWith(extract_host(url), "www.") THEN From(extract_host(url), 5) ELSE extract_host(url)

lowercase_url(url) == Lower(url)
=============================================================================
