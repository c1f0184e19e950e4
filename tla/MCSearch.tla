------------------------------ MODULE MCSearch ------------------------------
EXTENDS Search

A == << 97 >>
B == << 98 >>
C == << 97, 99 >>

MCCorpora ==
    { << << A, B >>, << B, A >>, << A, A, B, C >>, << C >> >>,
      << << B, B, A >>, << >>, << A, C, A, B >>, << A, B, A, B >>, << B, C, B >> >> }

Leaves == { A, B, << Minus >> \o A, << Minus >> \o B, C,
            << Quote, 97, Space, 98, Quote >>, << Minus, Quote, 98, Space, 97, Quote >> }

Tokens == { A, B, << Quote, 97, Space, 98, Quote >>, << Minus >>, << Pipe >>, << LParen >>, << RParen >> }

Spaced(tokens) == FlattenSeq([ i \in DOMAIN tokens |-> tokens[i] \o << Space >> ])

P(x) == << << LParen >> >> \o x \o << << RParen >> >>

Grouped ==
    UNION { { P(<< x, << Pipe >>, y >>) \o << z >>, << x, << Minus >> >> \o P(<< y, z >>),
              P(<< x, y >>) \o << << Pipe >> >> \o << z, A >>,
              << A >> \o P(<< x, << Pipe >> >> \o P(<< y, z >>)) }
            : x \in Leaves, y \in Leaves, z \in Leaves }

MCQueries == { Spaced(t) : t \in SeqOf(Tokens, 4) \cup SeqOf(Tokens \ {B}, 5) \cup Grouped }
                \cup { << Quote, 97 >>, << Quote, Quote >>, << 97, Minus, 98 >>, << 97, Pipe, 98, Space, Quote, Quote >>,
                       << Minus, Quote, Quote, 97 >> }

MCWordLists == { << >>, << A >>, << B, A >>, << A, B >>, << A, C >>, << C, A, B >>, << << 100 >>, A >> }
                  \cup { << A, A >> }

Pages(b, scores) == [ i \in DOMAIN scores |-> [ url |-> << b, i >>, score |-> scores[i] ] ]

MCPageLists == { << Pages(1, x), Pages(2, y \o << 0 >>) >> : x \in SeqOf(0..2, 4), y \in SeqOf(0..2, 2) }
=============================================================================
