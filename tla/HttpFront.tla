----------------------------- MODULE HttpFront ------------------------------
(***************************************************************************)
(* The text side of the HTML server (htmlserver/main.cpp): from the bytes of  *)
(* a request to the query and the page it asks for, and from the results to   *)
(* what the page shows.  Characters are their ASCII codes.                   *)
(***************************************************************************)
EXTENDS Integers, Sequences, FiniteSets, SequencesExt, FiniteSetsExt

CONSTANTS MAX_REQUEST,      \* the request buffer grows no further: 1 << 16 in the code
          PAGE_SIZE         \* results on a page: the literal 10 in serve_search_results

ASSUME HttpFrontAssumption == MAX_REQUEST \in Nat /\ PAGE_SIZE \in Nat \ {0}

CR == 13    LF == 10    SP == 32    Slash == 47    QMark == 63    Amp == 38
Equals == 61    Percent == 37    Plus == 43    LetterP == 112    Digit0 == 48

Ends == << CR, LF, CR, LF >>

Digit(c) == c \in 48..57
Lower(c) == c \in 97..122
Upper(c) == c \in 65..90

(* First index at or after from where the character is c, or just past the end. *)
IndexFrom(s, c, from) == Min({ i \in from..Len(s) : s[i] = c } \cup { Max({from, Len(s) + 1}) })

-----------------------------------------------------------------------------
(* read_request: everything up to and including the first blank line, however  *)
(* the reads split it.  A client that closes before, or that sends more than   *)
(* the buffer may hold, gets nothing.                                        *)
read_request(sent) ==
    LET ends == { i \in 4..Len(sent) : SubSeq(sent, i - 3, i) = Ends }
    IN  IF ends = {} \/ Min(ends) > MAX_REQUEST THEN << >> ELSE SubSeq(sent, 1, Min(ends))

(* The second of the words of the request line, if another follows it.        *)
parse_path(request) ==
    LET sp1 == IndexFrom(request, SP, 1)
        sp2 == IndexFrom(request, SP, sp1 + 1)
    IN  IF sp1 > Len(request) \/ sp2 > Len(request) THEN << >> ELSE SubSeq(request, sp1 + 1, sp2 - 1)

is_static_asset(path) ==
    \/ IsSuffix(<< 46, 112, 110, 103 >>, path)                                    \* .png
    \/ path = << Slash, 102, 97, 118, 105, 99, 111, 110, 46, 105, 99, 111 >>      \* /favicon.ico

Hex(c) == CASE c \in 48..57 -> c - 48 [] c \in 97..102 -> c - 87 [] c \in 65..70 -> c - 55 [] OTHER -> -1

EscapeAt(s, i) == i + 2 <= Len(s) /\ s[i] = Percent /\ Hex(s[i + 1]) >= 0 /\ Hex(s[i + 2]) >= 0

(* Left to right; a hex digit that belongs to an escape is not read again.    *)
percent_decode(s) ==
    LET step(d, i) ==
            IF i < d.next THEN d
            ELSE IF EscapeAt(s, i)
            THEN [ next |-> i + 3, out |-> Append(d.out, 16 * Hex(s[i + 1]) + Hex(s[i + 2])) ]
            ELSE [ next |-> i + 1, out |-> Append(d.out, IF s[i] = Plus THEN SP ELSE s[i]) ]
    IN  FoldLeft(step, [ next |-> 1, out |-> << >> ], [ i \in DOMAIN s |-> i ]).out

BaseUrl(path) == SubSeq(path, 1, IndexFrom(path, QMark, 1) - 1)

parse_query_term(path) ==
    IF Len(path) < 2 \/ path[1] # Slash THEN << >>
    ELSE percent_decode(SubSeq(path, 2, IndexFrom(path, QMark, 2) - 1))

(* Letters, in lower case, digits, spaces and the signs of the query language. *)
remove_special_chars(s) ==
    LET lower(c) == IF Upper(c) THEN c + 32 ELSE c
    IN  SelectSeq([ i \in DOMAIN s |-> lower(s[i]) ],
                  LAMBDA c : Lower(c) \/ Digit(c) \/ c \in { SP, 34, 124, 45, 40, 41 })

(* atoi on the text from index i: the digits there, a + before them allowed,   *)
(* 0 if there are none; numbers stay below the width of an int here.          *)
atoi(s, i) ==
    LET from == IF i <= Len(s) /\ s[i] = Plus THEN i + 1 ELSE i
        end  == Min({ k \in from..(Len(s) + 1) : k > Len(s) \/ ~Digit(s[k]) })
        value[k \in (from - 1)..(end - 1)] ==
            IF k = from - 1 THEN 0 ELSE 10 * value[k - 1] + (s[k] - Digit0)
    IN  value[end - 1]

(* The first p= that opens a parameter, wherever in the path it stands.       *)
get_page_number(path) ==
    LET opens(i) == i = 1 \/ path[i - 1] \in { QMark, Amp }
        at == { i \in 1..(Len(path) - 1) : path[i] = LetterP /\ path[i + 1] = Equals /\ opens(i) }
    IN  IF at = {} THEN 1 ELSE Max({ 1, atoi(path, Min(at) + 2) })

-----------------------------------------------------------------------------
(* What the page shows: results of the page asked for, and the links to its   *)
(* neighbours, the path up to the question mark with ?p=n behind it.          *)

(* HtmlBuilder::append(int): the decimal digits of a number.                 *)
Decimal(n) ==
    LET digits[k \in 0..n] ==
            IF k < 10 THEN << Digit0 + k >> ELSE Append(digits[k \div 10], Digit0 + (k % 10))
    IN  digits[n]

PageUrl(base, n) == base \o << QMark, LetterP, Equals >> \o Decimal(n)

(* Slip: no next page for a single result that is left.                     *)
ShowPageOffByOne(path, results) ==
    LET page  == get_page_number(path)
        start == (page - 1) * PAGE_SIZE
        end   == Min({ start + PAGE_SIZE, Len(results) })
    IN  [ shown |-> SubSeq(results, start + 1, end),
          prev  |-> IF page > 1 THEN << PageUrl(BaseUrl(path), page - 1) >> ELSE << >>,
          next  |-> IF end + 1 < Len(results) THEN << PageUrl(BaseUrl(path), page + 1) >> ELSE << >> ]

ShowPage(path, results) ==
    LET page  == get_page_number(path)
        start == (page - 1) * PAGE_SIZE
        end   == Min({ start + PAGE_SIZE, Len(results) })
    IN  [ shown |-> SubSeq(results, start + 1, end),
          prev  |-> IF page > 1 THEN << PageUrl(BaseUrl(path), page - 1) >> ELSE << >>,
          next  |-> IF end < Len(results) THEN << PageUrl(BaseUrl(path), page + 1) >> ELSE << >> ]

(* Which of its replies the server gives to a path.                          *)
Reply(path) ==
    CASE path = << Slash >>            -> "home"
      [] path # << Slash >> /\ is_static_asset(path) -> "asset"
      [] ~is_static_asset(path) /\ Len(path) > 1 /\ path[1] = Slash -> "search"
      [] OTHER                         -> "bad request"
=============================================================================
