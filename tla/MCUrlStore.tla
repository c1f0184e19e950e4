----------------------------- MODULE MCUrlStore -----------------------------
(* Small instances of UrlStore for TLC. *)
EXTENDS UrlStore, TLC

CONSTANTS u1, u2, u3,    \* URLs
          x, y, z        \* anchor texts; x is too long to be read back, and y its front

Req(url, anchors, seed, prio) ==
    [url |-> url, anchors |-> anchors, seed |-> seed, num |-> 1, prio |-> prio]

\* u1 and u3 are in one shard, u2 in the other.
ShardOf == [url \in Urls |-> IF url = u2 THEN 1 ELSE 0]

OfX == [text \in Anchors |-> IF text = x THEN y ELSE text]

\* u1 is new to two batches, with different priorities and texts; u2, in the
\* other shard, may be added at the same time; u3 finds the store full.
ThreeBatches == << << Req(u1, <<x>>, 1, 0) >>,
                   << Req(u1, <<y, y>>, 0, 1), Req(u3, <<>>, 2, 0) >>,
                   << Req(u2, <<z>>, 2, 0) >> >>

\* When u1 meets y at its cap of one anchor, y is known already from u3.
AnchorBatches == << << Req(u3, <<y>>, 1, 0) >>, << Req(u1, <<x>>, 1, 0) >>,
                    << Req(u1, <<y>>, 1, 0) >> >>
=============================================================================
