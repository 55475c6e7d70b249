---------------------------- MODULE SequenceOrder ----------------------------
(***************************************************************************)
(* Operators on sequences for statements about order.                      *)
(***************************************************************************)
EXTENDS Integers, Sequences

\* The elements of q that are in S, in their order.
Keep(q, S) ==
  LET kept[i \in 0..Len(q)] ==
        IF i = 0 THEN <<>>
        ELSE IF q[i] \in S THEN Append(kept[i - 1], q[i]) ELSE kept[i - 1]
  IN kept[Len(q)]

\* a occurs before b in q.
Before(q, a, b) ==
  \E i, j \in 1..Len(q) : i < j /\ q[i] = a /\ q[j] = b
=============================================================================
