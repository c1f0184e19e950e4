----------------------------- MODULE MCServing ------------------------------
EXTENDS Serving

m1 == "m1"    m2 == "m2"

(* 2.0, 3.0 and 4.0 as bit patterns *)
Score(n) == << 64 * 16777216 + (n - 2) * 524288, 0 >>

P(c, n) == Page(<< 84 >>, << c, c >>, Score(n))

A  == << 97 >>                       \* a
AB == << 97, SP, 98 >>               \* a b

None == << >>                        \* a search for nothing

NoHits == << << >>, << >> >>

MCHits == [ m1 |-> (A :> << << P(49, 2) >>, << P(50, 3), P(51, 2) >> >> @@ AB :> NoHits @@ None :> NoHits),
            m2 |-> (A :> << << P(52, 2), P(53, 4) >>, << P(54, 4) >> >> @@ AB :> << << P(52, 2) >>, << >> >> @@ None :> NoHits) ]

Get(path) == << 71, SP >> \o path \o << SP, 72 >> \o Ends        \* G <path> H

MCSent ==
    { Get(<< Slash, 97 >>),                                               \* /a
      Get(<< Slash, 97, QMark, LetterP, Equals, 50 >>),                   \* /a?p=2
      Get(<< Slash, 65, Percent, 50, 48, 98 >>),                          \* /A%20b
      Get(<< Slash, QMark >>),                                            \* /?
      Get(<< Slash, 45, 97 >>),                                           \* /-a
      << 71, SP, Slash, 97 >> }                                           \* cut short

(* A negation alone is refused; no words at all are sent to the machines.     *)
MCUnderstood == { A, AB, None }
=============================================================================
