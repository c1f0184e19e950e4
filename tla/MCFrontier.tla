----------------------------- MODULE MCFrontier -----------------------------
(* Small instances of Frontier for TLC. *)
EXTENDS Frontier, TLC

CONSTANTS a, b, c, d  \* targets

\* All targets of one domain: a queue of length one is full, and refuses.
OneSlot == [t \in Targets |-> 0]

\* Two domains in the interval of one worker, or one in each of two intervals.
TwoSlots == [t \in Targets |-> IF t = c THEN 1 ELSE 0]

\* b is of lower priority than the others.
TwoLevels == [t \in Targets |-> IF t = b THEN 1 ELSE 0]

\* One priority.
OneLevel == [t \in Targets |-> 0]

\* a and d are interchangeable.
Alike == Permutations({a, d})
=============================================================================
