--------------------------- MODULE ScatterGather ----------------------------
(***************************************************************************)
(* What the query service promises: every machine contributes once to each     *)
(* query, and the answer is the best Limit pages of the contributions, best    *)
(* first.  How a contribution comes about, by threads, sockets and timeouts,   *)
(* is left to the specification that implements this one.                     *)
(***************************************************************************)
EXTENDS Integers, Sequences, FiniteSets, SequencesExt

CONSTANTS Requests, Machines,
          Order,                \* the machines in the order their pages are joined
          Self,                 \* the machine the questions are put to
          Each,                 \* pages a machine contributes at most
          Limit,                \* pages in an answer
          Unset,                \* no contribution, no answer yet
          Better(_, _),         \* the first page scores higher than the second
          Offers(_, _),         \* what this machine has for this question
          Rejected(_)           \* the question is put to no machine

VARIABLES part,                 \* part[r][m]: contribution of machine m to request r
          answer,               \* answer[r]
          question,             \* question[r], given with the request
          weak                  \* machines with a bad link

promised == << part, answer, question, weak >>

Init == /\ part = [ r \in Requests |-> [ m \in Machines |-> Unset ] ]
        /\ answer = [ r \in Requests |-> Unset ]

(* As many of the pages as n allows, each from a place of its own, in order,  *)
(* such that no page left out is better than one taken.                      *)
IsBestOf(taken, pages, n) ==
    /\ Len(taken) = (IF Len(pages) < n THEN Len(pages) ELSE n)
    /\ \A i, j \in DOMAIN taken : i < j => ~Better(taken[j], taken[i])
    /\ \E place \in Injection(DOMAIN taken, DOMAIN pages) :
         \A i \in DOMAIN taken :
            /\ taken[i] = pages[place[i]]
            /\ \A k \in DOMAIN pages \ Range(place) : ~Better(pages[k], taken[i])

(* The best a machine has, or nothing if its query failed; from another, where  *)
(* the connection may break, only the first of them; and over a link that may   *)
(* lose the thread, what could be anything, though no more than was sent.      *)
MayContribute(q, m, bad, pages) ==
    \/ pages = << >>
    \/ IsBestOf(pages, Offers(q, m), Each)
    \/ m # Self /\ \E n \in 0..Each : IsBestOf(pages, Offers(q, m), n)
    \/ bad /\ Len(pages) <= Each

Contribute(r, m) ==
    /\ part[r][m] = Unset /\ part'[r][m] # Unset /\ answer[r] = Unset
    /\ ~Rejected(question[r]) /\ MayContribute(question[r], m, m \in weak, part'[r][m])
    /\ part' = [ part EXCEPT ![r][m] = part'[r][m] ]
    /\ UNCHANGED << answer, question, weak >>

Gathered(r) == FlattenSeq([ i \in DOMAIN Order |-> part[r][Order[i]] ])

(* With every contribution, or without any where the query is not understood.  *)
Answer(r) ==
    /\ answer[r] = Unset /\ answer'[r] # Unset
    /\ \/ /\ \A m \in Machines : part[r][m] # Unset
          /\ \E all \in { Gathered(r) } : IsBestOf(answer'[r], all, Limit)
       \/ Rejected(question[r]) /\ answer'[r] = << >>
    /\ answer' = [ answer EXCEPT ![r] = answer'[r] ]
    /\ UNCHANGED << part, question, weak >>

Next == \E r \in Requests : Answer(r) \/ \E m \in Machines : Contribute(r, m)

Spec == Init /\ [][Next]_promised
=============================================================================
