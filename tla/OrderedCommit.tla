---------------------------- MODULE OrderedCommit ----------------------------
(***************************************************************************)
(* What a transaction coordinator promises the storage engines (the        *)
(* comment on commit_ordered() in sql/handler.h): transactions enter the   *)
(* log in groups, and commit_ordered() is called exactly for those whose   *)
(* logging did not fail, one after the other, in the order of the log.     *)
(***************************************************************************)
EXTENDS Sequences, SequencesExt, Functions, Integers, SequenceOrder

CONSTANTS Trx, UsesXa   \* all transactions, and those that use 2-phase commit

VARIABLES log,          \* the transactions logged so far
          rejected,     \* those whose logging failed
          committed     \* those commit_ordered() has been called for

vars == <<log, rejected, committed>>

\* The transactions that have to be committed, in log order.
Decided == Keep(log, UsesXa \ rejected)

Init == log = <<>> /\ rejected = {} /\ committed = <<>>

\* A group is appended; some of its members, logged or not, are rejected.
WriteGroup ==
  /\ IsPrefix(log, log') /\ IsInjective(log') /\ ToSet(log') \subseteq Trx
  /\ rejected \subseteq rejected' /\ rejected' \subseteq Trx
  /\ (rejected' \ rejected) \cap ToSet(log) = {}
  /\ UNCHANGED committed

CommitNext ==
  /\ Len(committed) < Len(Decided)
  /\ committed' = SubSeq(Decided, 1, Len(committed) + 1)
  /\ UNCHANGED <<log, rejected>>

Next == WriteGroup \/ CommitNext

Spec == Init /\ [][Next]_vars
=============================================================================
