--------------------------- MODULE MCIndexBuilder ---------------------------
EXTENDS ChunkReadBack

Tag(k)   == [ kind |-> k, word |-> << 60 >>, spaced |-> FALSE ]      \* begins with '<'
Text(w)  == [ kind |-> "text", word |-> w, spaced |-> FALSE ]
Spaced   == [ kind |-> "text", word |-> << 97, 32, 98 >>, spaced |-> TRUE ]
Blank    == [ kind |-> "blank", word |-> << >>, spaced |-> FALSE ]
Fill(n)  == [ kind |-> "fill", n |-> n ]

W1 == << 97 >>            \* a
W2 == << 97, 98 >>        \* ab
W3 == << 55 >>            \* 7
W4 == << 36, 97 >>        \* $a, which has no slot

Doc(u, ws) == << Tag("doc"), Text(u), Tag("title") >> \o [ i \in DOMAIN ws |-> Text(ws[i]) ] \o << Tag("enddoc") >>

U1 == << 104, 49 >>
U2 == << 104, 50 >>
U3 == << 104, 51 >>

Bodies == { << >>, << W2, W1 >>, << W3, W1 >>, << W1, W4, W1 >>, << W2, W1, W1, W3 >> }

MCInputs ==
    { Doc(U1, b) \o Doc(U2, c) : b \in Bodies, c \in { << >>, << W2, W1 >> } }
        \cup { Doc(U1, b) \o << Fill(n) >> \o Doc(U2, << W1 >>) \o Doc(U3, << W1, W2 >>)
                 : b \in { << W1, W2 >> }, n \in {130, 2100} }
        \cup { << Blank >> \o Doc(U1, << W1 >>) \o << Tag("doc"), Blank >> \o Doc(U2, << W2 >>),
               << Text(W1) >> \o Doc(U1, << W3 >>) \o << Tag("doc"), Text(U2), Spaced, Text(W1) >>,
               << Tag("doc"), Text(U1), Text(W1) >> \o Doc(U2, << W2 >>) \o Doc(U3, << W1 >>),
               << Tag("doc") >>, << >> }

GapInputs ==
    { Doc(U1, << W1 >>) \o << Fill(n - 1) >> \o Doc(U2, << W1 >>) \o Doc(U3, << W1 >>)
        : n \in {55296, 64976, 65534} }
=============================================================================
