--------------------- MODULE BinlogCheckpointAccounting ---------------------
(***************************************************************************)
(* The counters of binlog_xid_count_list, for every set of transactions,   *)
(* engines, commands and bounds: xid_count of a file is the number of XIDs,*)
(* rotations and engine requests outstanding for it, and an entry that     *)
(* anyone still refers to is in the list.                                  *)
(***************************************************************************)
EXTENDS BinlogCheckpointProofs

\* Where the leader of a group has its followers waiting.
LeaderPc == {"log", "rotate", "open", "link", "rotated", "abs", "co", "busyWait"}

\* The group of l still has members that have not run commit_ordered().
Live(l) == pc[l] \in LeaderPc \/ l \notin group[l]

\* A thread waits in at most one group, for a leader that wrote to the same
\* binlog file.
GroupInv ==
  /\ \A l \in Trx : pc[l] \in {"prepared", "queued"} => group[l] = {}
  /\ \A l \in Trx : pc[l] \in LeaderPc => l \in group[l]
  /\ \A l \in Trx : Live(l) =>
       \A t \in group[l] \ {l} : pc[t] = "queued" /\ bid[t] = bid[l]
  /\ \A l \in Trx : pc[l] \in {"request", "requested"} => l \in group[l] \/ group[l] = {}
  /\ \A l, m \in Trx : l # m /\ Live(l) /\ Live(m) => group[l] \cap group[m] = {}

\* check_purge is only set once the log has been rotated.
CheckPurgeInv ==
  /\ \A t \in Trx : pc[t] \in {"prepared", "queued", "log", "rotate", "open", "link"}
                      => ~checkPurge[t]
  /\ checkPurge[Flush] => pc[Flush] \in {"rotated", "request", "requested", "down"}
  /\ ~checkPurge[Reset] /\ ~checkPurge[Background]

\* Nobody carries the binlog_id of a file still to come.
BidInv ==
  /\ \A r \in Thread : pc[r] \in {"log", "rotate", "open", "link"} => bid[r] = current
  /\ pc[Reset] \in {"request", "requested"} => bid[Reset] = current
  /\ \A r \in Thread \ {Reset} :
       Pins(r) /\ pc[r] \notin {"rotate", "open", "link"} => bid[r] < current
  /\ \A t \in Trx : OwesUnlog(t) => bid[t] <= current

\* A file is pinned at most once, and its commit checkpoint requested at most
\* once, by the thread that pinned it.
PinInv ==
  /\ \A r, q \in Thread : r # q /\ Pins(r) /\ Pins(q) => bid[r] # bid[q]
  /\ \A r \in Thread :
       Pins(r) /\ pc[r] # "requested" => bid[r] \notin requests \cup notified
  /\ \A f \in requests \cup notified :
       f < current \/ (f = current /\ pc[Reset] \in {"requested", "drain"})
  /\ requests \cap notified = {}

-----------------------------------------------------------------------------
(* Counting.  The holders of a count are of three kinds.                   *)

Xids(f) == {t \in Trx : OwesUnlog(t) /\ bid[t] = f}
Pinners(f) == {r \in Thread : Pins(r) /\ bid[r] = f}
Asked(f) == {g \in requests \cup notified : g = f}

Counted == \A f \in File :
  xidCount[f] = Cardinality(Xids(f)) + Cardinality(Pinners(f)) + Cardinality(Asked(f))

\* What a step may leave alone.
SameXids == \A t \in Trx : /\ OwesUnlog(t)' <=> OwesUnlog(t)
                           /\ OwesUnlog(t) => bid'[t] = bid[t]
SamePins == \A r \in Thread : /\ Pins(r)' <=> Pins(r)
                              /\ Pins(r) => bid'[r] = bid[r]
SameAsked == (requests \cup notified)' = requests \cup notified

\* Marking the members of a set with a tag changes neither finiteness nor size.
LEMMA TagCardinality ==
  ASSUME NEW S, IsFiniteSet(S), NEW tag
  PROVE  LET T == {<<tag, x>> : x \in S}
         IN  IsFiniteSet(T) /\ Cardinality(T) = Cardinality(S)
<1> DEFINE T == {<<tag, x>> : x \in S}
           g == [x \in S |-> <<tag, x>>]
<1>1. g \in Bijection(S, T)
  <2>1. g \in [S -> T]
    OBVIOUS
  <2>2. \A x, y \in S : g[x] = g[y] => x = y
    OBVIOUS
  <2>3. \A y \in T : \E x \in S : g[x] = y
    OBVIOUS
  <2> QED BY <2>1, <2>2, <2>3 DEF Bijection, Injection, IsInjective, Surjection
<1>2. ExistsBijection(S, T)
  BY <1>1 DEF ExistsBijection
<1> HIDE DEF T
<1>3. IsFiniteSet(T) /\ Cardinality(T) = Cardinality(S)
  BY <1>2, FS_Bijection
<1> QED BY <1>3 DEF T

LEMMA ThreadsFinite == IsFiniteSet(Trx) /\ IsFiniteSet(Thread)
<1>1. IsFiniteSet(Trx)
  BY ConstantsAssumption
<1>2. IsFiniteSet({Flush, Reset, Background})
  <2>1. IsFiniteSet({} \cup {Flush})
    BY FS_EmptySet, FS_AddElement
  <2>2. IsFiniteSet(({} \cup {Flush}) \cup {Reset})
    BY <2>1, FS_AddElement
  <2>3. IsFiniteSet((({} \cup {Flush}) \cup {Reset}) \cup {Background})
    BY <2>2, FS_AddElement
  <2>4. (({} \cup {Flush}) \cup {Reset}) \cup {Background} = {Flush, Reset, Background}
    OBVIOUS
  <2> QED BY <2>3, <2>4
<1> QED BY <1>1, <1>2, FS_Union DEF Thread

LEMMA HoldersFinite ==
  ASSUME NEW f \in File
  PROVE  /\ IsFiniteSet(Xids(f)) /\ Cardinality(Xids(f)) \in Nat
         /\ IsFiniteSet(Pinners(f)) /\ Cardinality(Pinners(f)) \in Nat
         /\ IsFiniteSet(Asked(f)) /\ Cardinality(Asked(f)) \in Nat
<1>1. Xids(f) \in SUBSET Trx /\ Pinners(f) \in SUBSET Thread /\ Asked(f) \in SUBSET {f}
  BY DEF Xids, Pinners, Asked
<1>2. IsFiniteSet({f})
  BY FS_Singleton
<1>3. IsFiniteSet(Xids(f)) /\ IsFiniteSet(Pinners(f)) /\ IsFiniteSet(Asked(f))
  BY <1>1, <1>2, ThreadsFinite, FS_Subset
<1> QED BY <1>3, FS_CardinalityType

\* Counting the holders together is counting them by kind.
LEMMA CountedIsAccounting ==
  ASSUME Counted
  PROVE  XidAccounting
<1> SUFFICES ASSUME NEW f \in File
             PROVE  xidCount[f] = Cardinality(Holders(f))
  BY DEF XidAccounting
<1> DEFINE X == {<<"xid", t>> : t \in Xids(f)}
           P == {<<"pin", r>> : r \in Pinners(f)}
           A == {<<"engine", g>> : g \in Asked(f)}
<1>1. Holders(f) = (X \cup P) \cup A
  BY DEF Holders, Xids, Pinners, Asked
<1>2. /\ IsFiniteSet(X) /\ Cardinality(X) = Cardinality(Xids(f))
      /\ IsFiniteSet(P) /\ Cardinality(P) = Cardinality(Pinners(f))
      /\ IsFiniteSet(A) /\ Cardinality(A) = Cardinality(Asked(f))
  BY HoldersFinite, TagCardinality
<1>3. X \cap P = {} /\ (X \cup P) \cap A = {}
  OBVIOUS
<1> HIDE DEF X, P, A
<1>4. IsFiniteSet(X \cup P) /\ Cardinality(X \cup P) = Cardinality(X) + Cardinality(P)
  <2>1. /\ IsFiniteSet(X \cup P)
        /\ Cardinality(X \cup P) = Cardinality(X) + Cardinality(P) - Cardinality({})
    BY <1>2, <1>3, FS_Union
  <2> QED BY <1>2, <2>1, FS_EmptySet, HoldersFinite
<1>5. Cardinality((X \cup P) \cup A) = Cardinality(X \cup P) + Cardinality(A)
  <2>1. Cardinality((X \cup P) \cup A)
          = Cardinality(X \cup P) + Cardinality(A) - Cardinality({})
    BY <1>2, <1>3, <1>4, FS_Union
  <2> QED BY <1>2, <1>4, <2>1, FS_EmptySet, HoldersFinite
<1> QED BY <1>1, <1>2, <1>4, <1>5 DEF Counted

-----------------------------------------------------------------------------
(* What each kind of step does to the count.                               *)

LEMMA SameXidsSet ==
  ASSUME SameXids, NEW f \in File
  PROVE  Xids(f)' = Xids(f)
BY DEF SameXids, Xids

LEMMA SamePinsSet ==
  ASSUME SamePins, NEW f \in File
  PROVE  Pinners(f)' = Pinners(f)
BY DEF SamePins, Pinners

LEMMA SameAskedSet ==
  ASSUME SameAsked, NEW f \in File
  PROVE  Asked(f)' = Asked(f)
BY DEF SameAsked, Asked

LEMMA SameCounted ==
  ASSUME Counted, SameXids, SamePins, SameAsked, xidCount' = xidCount
  PROVE  Counted'
<1> SUFFICES ASSUME NEW f \in File
             PROVE  xidCount'[f] = Cardinality(Xids(f)') + Cardinality(Pinners(f)')
                                     + Cardinality(Asked(f)')
  BY DEF Counted
<1>1. Xids(f)' = Xids(f) /\ Pinners(f)' = Pinners(f) /\ Asked(f)' = Asked(f)
  BY SameXidsSet, SamePinsSet, SameAskedSet
<1> QED BY <1>1 DEF Counted

\* rotate() and reset_logs() pin a file.
LEMMA AddPin ==
  ASSUME Counted, xidCount \in [File -> Int], NEW r \in Thread, NEW g \in File,
         SameXids, SameAsked, ~Pins(r), bid'[r] = g,
         \A q \in Thread : /\ Pins(q)' <=> Pins(q) \/ q = r
                           /\ Pins(q) => bid'[q] = bid[q],
         xidCount' = [xidCount EXCEPT ![g] = @ + 1]
  PROVE  Counted'
<1> SUFFICES ASSUME NEW f \in File
             PROVE  xidCount'[f] = Cardinality(Xids(f)') + Cardinality(Pinners(f)')
                                     + Cardinality(Asked(f)')
  BY DEF Counted
<1>1. Xids(f)' = Xids(f) /\ Asked(f)' = Asked(f)
  BY SameXidsSet, SameAskedSet
<1>2. /\ f = g => Pinners(f)' = Pinners(f) \cup {r} /\ r \notin Pinners(f)
      /\ f # g => Pinners(f)' = Pinners(f)
  BY DEF Pinners
<1>3. f = g => Cardinality(Pinners(f)') = Cardinality(Pinners(f)) + 1
  BY <1>2, HoldersFinite, FS_AddElement
<1> QED BY <1>1, <1>2, <1>3, HoldersFinite DEF Counted

\* mark_xid_done() gives the pin back.
LEMMA DropPin ==
  ASSUME Counted, xidCount \in [File -> Int], NEW r \in Thread, bid[r] \in File,
         SameXids, SameAsked, Pins(r),
         \A q \in Thread : /\ Pins(q)' <=> Pins(q) /\ q # r
                           /\ Pins(q)' => bid'[q] = bid[q],
         xidCount' = [xidCount EXCEPT ![bid[r]] = @ - 1]
  PROVE  Counted'
<1> SUFFICES ASSUME NEW f \in File
             PROVE  xidCount'[f] = Cardinality(Xids(f)') + Cardinality(Pinners(f)')
                                     + Cardinality(Asked(f)')
  BY DEF Counted
<1>1. Xids(f)' = Xids(f) /\ Asked(f)' = Asked(f)
  BY SameXidsSet, SameAskedSet
<1>2. /\ f = bid[r] => Pinners(f)' = Pinners(f) \ {r} /\ r \in Pinners(f)
      /\ f # bid[r] => Pinners(f)' = Pinners(f)
  BY DEF Pinners
<1>3. f = bid[r] => Cardinality(Pinners(f)') = Cardinality(Pinners(f)) - 1
  BY <1>2, HoldersFinite, FS_RemoveElement
<1> QED BY <1>1, <1>2, <1>3, HoldersFinite DEF Counted

\* With opt_optimize_thread_scheduling off the last thread of a group takes the
\* leader's pin over.
LEMMA MovePin ==
  ASSUME Counted, NEW l \in Thread, NEW t \in Thread, l # t,
         SameXids, SameAsked, Pins(l), ~Pins(t), bid' = bid, bid[l] = bid[t],
         \A q \in Thread : Pins(q)' <=> (Pins(q) /\ q # l) \/ q = t,
         xidCount' = xidCount
  PROVE  Counted'
<1> SUFFICES ASSUME NEW f \in File
             PROVE  xidCount'[f] = Cardinality(Xids(f)') + Cardinality(Pinners(f)')
                                     + Cardinality(Asked(f)')
  BY DEF Counted
<1>1. Xids(f)' = Xids(f) /\ Asked(f)' = Asked(f)
  BY SameXidsSet, SameAskedSet
<1>2. /\ f = bid[l] => /\ Pinners(f)' = (Pinners(f) \ {l}) \cup {t}
                       /\ l \in Pinners(f) /\ t \notin Pinners(f) \ {l}
      /\ f # bid[l] => Pinners(f)' = Pinners(f)
  BY DEF Pinners
<1>3. /\ f = bid[l] => Cardinality(Pinners(f) \ {l}) = Cardinality(Pinners(f)) - 1
      /\ IsFiniteSet(Pinners(f) \ {l})
  BY <1>2, HoldersFinite, FS_RemoveElement
<1>4. f = bid[l] => Cardinality(Pinners(f)') = Cardinality(Pinners(f) \ {l}) + 1
  BY <1>2, <1>3, FS_AddElement
<1>5. Cardinality(Pinners(f)') = Cardinality(Pinners(f))
  BY <1>2, <1>3, <1>4, HoldersFinite
<1> QED BY <1>1, <1>5 DEF Counted

\* mark_xids_active() counts the transactions of a group that need unlog().
LEMMA AddXids ==
  ASSUME Counted, xidCount \in [File -> Int], NEW N \in SUBSET Trx, NEW g \in File,
         SamePins, SameAsked,
         \A t \in N : ~OwesUnlog(t) /\ bid'[t] = g,
         \A t \in Trx : /\ OwesUnlog(t)' <=> OwesUnlog(t) \/ t \in N
                        /\ OwesUnlog(t) => bid'[t] = bid[t],
         xidCount' = [xidCount EXCEPT ![g] = @ + Cardinality(N)]
  PROVE  Counted'
<1> SUFFICES ASSUME NEW f \in File
             PROVE  xidCount'[f] = Cardinality(Xids(f)') + Cardinality(Pinners(f)')
                                     + Cardinality(Asked(f)')
  BY DEF Counted
<1>1. Pinners(f)' = Pinners(f) /\ Asked(f)' = Asked(f)
  BY SamePinsSet, SameAskedSet
<1>2. /\ f = g => Xids(f)' = Xids(f) \cup N /\ Xids(f) \cap N = {}
      /\ f # g => Xids(f)' = Xids(f)
  BY DEF Xids
<1>3. IsFiniteSet(N) /\ Cardinality(N) \in Nat
  BY ThreadsFinite, FS_Subset, FS_CardinalityType
<1>4. f = g => Cardinality(Xids(f)') = Cardinality(Xids(f)) + Cardinality(N)
  <2>1. f = g => Cardinality(Xids(f)')
                   = Cardinality(Xids(f)) + Cardinality(N) - Cardinality({})
    BY <1>2, <1>3, HoldersFinite, FS_Union
  <2> QED BY <1>3, <2>1, HoldersFinite, FS_EmptySet
<1> QED BY <1>1, <1>2, <1>3, <1>4, HoldersFinite DEF Counted

\* unlog(), and the error path, give the count of a transaction back.
LEMMA DropXid ==
  ASSUME Counted, xidCount \in [File -> Int], NEW t \in Trx, bid[t] \in File,
         SamePins, SameAsked, OwesUnlog(t), bid' = bid,
         \A u \in Trx : OwesUnlog(u)' <=> OwesUnlog(u) /\ u # t,
         xidCount' = [xidCount EXCEPT ![bid[t]] = @ - 1]
  PROVE  Counted'
<1> SUFFICES ASSUME NEW f \in File
             PROVE  xidCount'[f] = Cardinality(Xids(f)') + Cardinality(Pinners(f)')
                                     + Cardinality(Asked(f)')
  BY DEF Counted
<1>1. Pinners(f)' = Pinners(f) /\ Asked(f)' = Asked(f)
  BY SamePinsSet, SameAskedSet
<1>2. /\ f = bid[t] => Xids(f)' = Xids(f) \ {t} /\ t \in Xids(f)
      /\ f # bid[t] => Xids(f)' = Xids(f)
  BY DEF Xids
<1>3. f = bid[t] => Cardinality(Xids(f)') = Cardinality(Xids(f)) - 1
  BY <1>2, HoldersFinite, FS_RemoveElement
<1> QED BY <1>1, <1>2, <1>3, HoldersFinite DEF Counted

\* do_checkpoint_request() counts a request, the background thread gives it back.
LEMMA AddAsked ==
  ASSUME Counted, xidCount \in [File -> Int], NEW g \in File, SameXids, SamePins,
         g \notin requests \cup notified,
         (requests \cup notified)' = (requests \cup notified) \cup {g},
         xidCount' = [xidCount EXCEPT ![g] = @ + 1]
  PROVE  Counted'
<1> SUFFICES ASSUME NEW f \in File
             PROVE  xidCount'[f] = Cardinality(Xids(f)') + Cardinality(Pinners(f)')
                                     + Cardinality(Asked(f)')
  BY DEF Counted
<1>1. Xids(f)' = Xids(f) /\ Pinners(f)' = Pinners(f)
  BY SameXidsSet, SamePinsSet
<1>2. /\ f = g => Asked(f)' = Asked(f) \cup {g} /\ g \notin Asked(f)
      /\ f # g => Asked(f)' = Asked(f)
  BY DEF Asked
<1>3. f = g => Cardinality(Asked(f)') = Cardinality(Asked(f)) + 1
  BY <1>2, HoldersFinite, FS_AddElement
<1> QED BY <1>1, <1>2, <1>3, HoldersFinite DEF Counted

LEMMA DropAsked ==
  ASSUME Counted, xidCount \in [File -> Int], NEW g \in File, SameXids, SamePins,
         g \in requests \cup notified,
         (requests \cup notified)' = (requests \cup notified) \ {g},
         xidCount' = [xidCount EXCEPT ![g] = @ - 1]
  PROVE  Counted'
<1> SUFFICES ASSUME NEW f \in File
             PROVE  xidCount'[f] = Cardinality(Xids(f)') + Cardinality(Pinners(f)')
                                     + Cardinality(Asked(f)')
  BY DEF Counted
<1>1. Xids(f)' = Xids(f) /\ Pinners(f)' = Pinners(f)
  BY SameXidsSet, SamePinsSet
<1>2. /\ f = g => Asked(f)' = Asked(f) \ {g} /\ g \in Asked(f)
      /\ f # g => Asked(f)' = Asked(f)
  BY DEF Asked
<1>3. f = g => Cardinality(Asked(f)') = Cardinality(Asked(f)) - 1
  BY <1>2, HoldersFinite, FS_RemoveElement
<1> QED BY <1>1, <1>2, <1>3, HoldersFinite DEF Counted

\* A crash forgets every count with everything that was counted.
LEMMA NoneCounted ==
  ASSUME (\A t \in Trx : ~OwesUnlog(t))', (\A r \in Thread : ~Pins(r))',
         (requests \cup notified = {})', xidCount' = [f \in File |-> 0]
  PROVE  Counted'
<1> SUFFICES ASSUME NEW f \in File
             PROVE  xidCount'[f] = Cardinality(Xids(f)') + Cardinality(Pinners(f)')
                                     + Cardinality(Asked(f)')
  BY DEF Counted
<1>1. Xids(f)' = {} /\ Pinners(f)' = {} /\ Asked(f)' = {}
  BY DEF Xids, Pinners, Asked
<1> QED BY <1>1, FS_EmptySet

-----------------------------------------------------------------------------
(* The inductive invariant.                                                *)

\* Only files of the list have a count.
ListInv == \A f \in File : f \notin listHead..current => xidCount[f] = 0

AccInv == GroupInv /\ CheckPurgeInv /\ BidInv /\ PinInv /\ Counted /\ ListInv

\* A file with a zero count has no holder.
LEMMA ZeroCount ==
  ASSUME Counted, NEW f \in File, xidCount[f] = 0
  PROVE  Xids(f) = {} /\ Pinners(f) = {} /\ Asked(f) = {}
<1>1. /\ Cardinality(Xids(f)) = 0 /\ Cardinality(Pinners(f)) = 0
      /\ Cardinality(Asked(f)) = 0
  BY HoldersFinite DEF Counted
<1> QED BY <1>1, HoldersFinite, FS_EmptySet

\* What holds a count keeps its file in the list.
LEMMA HeldInList ==
  ASSUME TypeOK, Counted, ListInv
  PROVE  /\ \A t \in Trx : OwesUnlog(t) => bid[t] \in listHead..current
         /\ \A r \in Thread : Pins(r) => bid[r] \in listHead..current
         /\ \A f \in requests \cup notified : f \in listHead..current
<1>1. \A f \in File : xidCount[f] = 0 => Xids(f) = {} /\ Pinners(f) = {} /\ Asked(f) = {}
  BY ZeroCount
<1>2. \A f \in File : Xids(f) # {} \/ Pinners(f) # {} \/ Asked(f) # {}
                        => f \in listHead..current
  BY <1>1 DEF ListInv
<1>3. ASSUME NEW t \in Trx, OwesUnlog(t)
      PROVE  bid[t] \in listHead..current
  <2>1. t \in Xids(bid[t]) /\ bid[t] \in File
    BY <1>3 DEF Xids, TypeOK, Thread
  <2> QED BY <1>2, <2>1
<1>4. ASSUME NEW r \in Thread, Pins(r)
      PROVE  bid[r] \in listHead..current
  <2>1. r \in Pinners(bid[r]) /\ bid[r] \in File
    BY <1>4 DEF Pinners, TypeOK
  <2> QED BY <1>2, <2>1
<1>5. ASSUME NEW f \in requests \cup notified
      PROVE  f \in listHead..current
  <2>1. f \in Asked(f) /\ f \in File
    BY DEF Asked, TypeOK
  <2> QED BY <1>2, <2>1
<1> QED BY <1>3, <1>4, <1>5

\* Threads that are done with their group do not disturb the others.
LEMMA SameGroups ==
  ASSUME GroupInv, group \in [Trx -> SUBSET Trx], group' = group,
         \A t \in Trx : bid'[t] = bid[t],
         \A t \in Trx : \/ pc'[t] = pc[t]
                        \/ /\ pc[t] \notin LeaderPc \cup {"prepared", "queued"}
                           /\ pc'[t] \notin LeaderPc \cup {"prepared", "queued", "request",
                                                           "requested"}
  PROVE  GroupInv'
<1>1. \A t \in Trx : /\ pc'[t] \in {"prepared", "queued"} <=> pc[t] \in {"prepared", "queued"}
                     /\ pc[t] = "queued" => pc'[t] = "queued"
                     /\ pc'[t] \in LeaderPc <=> pc[t] \in LeaderPc
                     /\ pc'[t] \in {"request", "requested"} => pc[t] \in {"request", "requested"}
  BY DEF LeaderPc
<1>2. \A t \in Trx : Live(t)' <=> Live(t)
  BY <1>1 DEF Live
<1>3. (\A l \in Trx : Live(l) =>
         \A t \in group[l] \ {l} : pc[t] = "queued" /\ bid[t] = bid[l])'
  <2> SUFFICES ASSUME NEW l \in Trx, Live(l)', NEW t \in group[l], t # l
               PROVE  pc'[t] = "queued" /\ bid'[t] = bid'[l]
    OBVIOUS
  <2>1. pc[t] = "queued" /\ bid[t] = bid[l]
    BY <1>2 DEF GroupInv
  <2> QED BY <1>1, <2>1, t \in Trx
<1> QED BY <1>1, <1>2, <1>3 DEF GroupInv

\* mark_xids_active() runs once for a transaction: before its group is written it
\* has no XID in the log and no error.
PreparedInv == \A t \in Trx : pc[t] = "prepared" => xidFile[t] = 0 /\ t \notin failed

\* Only trx_group_commit_leader() writes an XID or sets an error.
LEMMA OnlyLeadersWrite ==
  ASSUME TypeInv, ServerStep
  PROVE  \/ \E l \in Trx : \E G \in SUBSET Trx : \E E, W \in SUBSET G : LeaderWrite(l, G, E, W)
         \/ /\ UNCHANGED <<lost, xidFile, failed>>
            /\ \A t \in Trx : pc'[t] = "prepared" => pc[t] = "prepared"
<1> USE ConstantsAssumption
    DEF TypeInv, TypeOK, Thread, threadVars, lockVars, listVars, engineVars, diskVars, endVars
<1> DEFINE Same == /\ UNCHANGED <<lost, xidFile, failed>>
                   /\ \A t \in Trx : pc'[t] = "prepared" => pc[t] = "prepared"
           Write == \E l \in Trx : \E G \in SUBSET Trx : \E E, W \in SUBSET G :
                      LeaderWrite(l, G, E, W)
<1>1. ASSUME NEW t \in Trx, CommitStep(t) PROVE Write \/ Same
  <2>1. CASE \E G \in SUBSET Trx : \E E, W \in SUBSET G : LeaderWrite(t, G, E, W)
    BY <2>1
  <2>2. CASE LeaderSync(t) \/ LeaderOrder(t) \/ LeaderWaitBusy(t) \/ EngineCommit(t)
    BY <2>2 DEF LeaderSync, LeaderOrder, LeaderWaitBusy, EngineCommit
  <2>3. CASE LeaderCommitOrdered(t)
    BY <2>3 DEF LeaderCommitOrdered, AfterOrder
  <2>4. CASE LeaderOwnCommitOrdered(t) \/ \E l \in Trx : FollowerOwnCommitOrdered(t, l)
    BY <2>4 DEF LeaderOwnCommitOrdered, FollowerOwnCommitOrdered, OwnCommitOrdered, AfterOrder
  <2>5. CASE Unlog(t)
    BY <2>5 DEF Unlog, MarkXidDone
  <2>6. CASE \E G \in SUBSET Trx : LeaderSkip(t, G)
    BY <2>6 DEF LeaderSkip
  <2> QED BY <1>1, <2>1, <2>2, <2>3, <2>4, <2>5, <2>6 DEF CommitStep
<1>2. ASSUME NEW r \in Thread, RotateStep(r) PROVE Same
  BY <1>2 DEF RotateStep, RotateBegin, RotateFail, RotateFailClose, OpenScan, OpenFile, OpenLink
<1>3. ASSUME NEW r \in Thread, CheckpointStep(r) PROVE Same
  <2>1. CASE CheckpointRequest(r) \/ MarkXidDoneLocked(r) \/ MarkXidDoneWrite(r)
    BY <2>1 DEF CheckpointRequest, MarkXidDoneLocked, MarkXidDoneWrite
  <2>2. CASE CheckpointRequested(r)
    <3>1. UNCHANGED <<lost, xidFile, failed>>
      BY <2>2 DEF CheckpointRequested
    <3>2. PICK next \in {"idle", "drain", "unlog", "commit"} : MarkXidDone(r, bid[r], next)
      BY <2>2 DEF CheckpointRequested
    <3> QED BY <3>1, <3>2 DEF MarkXidDone
  <2>3. CASE MarkXidDonePos(r)
    <3>1. r \in Trx => resume[r] # "prepared"
      BY DEF PcInv
    <3> QED BY <2>3, <3>1 DEF MarkXidDonePos
  <2>4. CASE MarkXidDoneWriteClosed(r)
    BY <2>4 DEF MarkXidDoneWriteClosed, ServerDown
  <2> QED BY <1>3, <2>1, <2>2, <2>3, <2>4 DEF CheckpointStep
<1>4. CASE FlushStart \/ FlushUnlock
  BY <1>4 DEF FlushStart, FlushUnlock
<1>5. ASSUME NEW f \in File, EngineNotify(f) \/ BackgroundProcess(f) \/ PurgeLog(f) PROVE Same
  BY <1>5 DEF EngineNotify, BackgroundProcess, MarkXidDone, PurgeLog
<1>6. CASE ResetStep
  BY <1>6 DEF ResetStep, ResetStart, ResetNoWaiters, ResetLock, ResetChainAbs, ResetChainCo,
     ResetReopen
<1> QED BY <1>1, <1>2, <1>3, <1>4, <1>5, <1>6 DEF ServerStep

LEMMA NextPrepared == TypeInv /\ PreparedInv /\ [Next]_vars => PreparedInv'
<1> SUFFICES ASSUME TypeInv, PreparedInv, [Next]_vars PROVE PreparedInv'
  OBVIOUS
<1> USE DEF PreparedInv
<1>1. CASE ServerStep
  <2>1. CASE \E l \in Trx : \E G \in SUBSET Trx : \E E, W \in SUBSET G : LeaderWrite(l, G, E, W)
    <3>1. PICK l \in Trx, G \in SUBSET Trx : \E E, W \in SUBSET G : LeaderWrite(l, G, E, W)
      BY <2>1
    <3>2. PICK E \in SUBSET G, W \in SUBSET G : LeaderWrite(l, G, E, W)
      BY <3>1
    <3>3. /\ \A t \in Trx : t \in G => pc'[t] # "prepared"
          /\ \A t \in Trx : t \notin G => /\ pc'[t] = pc[t] /\ xidFile'[t] = xidFile[t]
                                          /\ t \in failed' <=> t \in failed
      BY <3>2 DEF LeaderWrite, Thread
    <3> QED BY <3>3
  <2> QED BY <1>1, <2>1, OnlyLeadersWrite
<1>2. CASE RecoverAbort \/ CrashRecover
  BY <1>2, ConstantsAssumption DEF RecoverAbort, ServerDown, CrashRecover, diskVars, Thread
<1>3. CASE UNCHANGED vars
  BY <1>3 DEF vars, threadVars, diskVars, endVars
<1> QED BY <1>1, <1>2, <1>3 DEF Next, Idle

\* A leader takes over the group of entries that were queued with it.
LEMMA JoinGroup ==
  ASSUME GroupInv, group \in [Trx -> SUBSET Trx], NEW l \in Trx, NEW G \in SUBSET Trx,
         l \in G, pc'[l] \in {"log", "rotated"},
         \A t \in G : pc[t] = "prepared" /\ group[t] = {},
         \A r \in Trx \ {l} : pc'[r] = IF r \in G THEN "queued" ELSE pc[r],
         \A r \in Trx : bid'[r] = IF r \in G THEN current ELSE bid[r],
         group' = [group EXCEPT ![l] = G]
  PROVE  GroupInv'
<1>1. \A m \in Trx : m # l => (Live(m)' => Live(m) \/ group[m] = {})
  <2> SUFFICES ASSUME NEW m \in Trx, m # l, Live(m)', group[m] # {}
               PROVE  Live(m)
    OBVIOUS
  <2>1. group'[m] = group[m] /\ m \notin G /\ pc'[m] = pc[m]
    OBVIOUS
  <2> QED BY <2>1 DEF Live
<1>2. \A m \in Trx : Live(m) => \A u \in group[m] : u \notin G
  BY DEF GroupInv, Live, LeaderPc
<1>3. (\A m \in Trx : pc[m] \in {"prepared", "queued"} => group[m] = {})'
  BY DEF GroupInv
<1>4. (\A m \in Trx : pc[m] \in LeaderPc => m \in group[m])'
  BY DEF GroupInv, LeaderPc
<1>5. (\A m \in Trx : Live(m) =>
         \A u \in group[m] \ {m} : pc[u] = "queued" /\ bid[u] = bid[m])'
  <2> SUFFICES ASSUME NEW m \in Trx, Live(m)', NEW u \in group'[m], u # m
               PROVE  pc'[u] = "queued" /\ bid'[u] = bid'[m]
    OBVIOUS
  <2>1. CASE m = l
    BY <2>1
  <2>2. CASE m # l
    <3>1. u \in group[m] /\ Live(m) /\ m \notin G /\ u \notin G
      BY <1>1, <1>2, <2>2
    <3>2. pc[u] = "queued" /\ bid[u] = bid[m]
      BY <3>1 DEF GroupInv
    <3> QED BY <3>1, <3>2
  <2> QED BY <2>1, <2>2
<1>6. (\A m \in Trx : pc[m] \in {"request", "requested"} => m \in group[m] \/ group[m] = {})'
  BY DEF GroupInv
<1>7. (\A k, m \in Trx : k # m /\ Live(k) /\ Live(m) => group[k] \cap group[m] = {})'
  <2> SUFFICES ASSUME NEW k \in Trx, NEW m \in Trx, k # m, Live(k)', Live(m)'
               PROVE  group'[k] \cap group'[m] = {}
    OBVIOUS
  <2>1. \A q \in {k, m} : q # l => group'[q] = group[q] /\ (Live(q) \/ group[q] = {})
    BY <1>1
  <2>2. group'[l] = G /\ G # {}
    OBVIOUS
  <2>3. CASE k # l /\ m # l
    BY <2>1, <2>3 DEF GroupInv
  <2>4. CASE k = l
    <3>1. m # l /\ group'[m] \cap G = {}
      BY <1>2, <2>1, <2>4
    <3> QED BY <2>2, <2>4, <3>1
  <2>5. CASE m = l
    <3>1. k # l /\ group'[k] \cap G = {}
      BY <1>2, <2>1, <2>5
    <3> QED BY <2>2, <2>5, <3>1
  <2> QED BY <2>3, <2>4, <2>5
<1> QED BY <1>3, <1>4, <1>5, <1>6, <1>7 DEF GroupInv

LEMMA LeaderWriteAcc ==
  ASSUME TypeInv, AccInv, PreparedInv, NEW l \in Trx, NEW G \in SUBSET Trx,
         NEW E \in SUBSET G, NEW W \in SUBSET G, LeaderWrite(l, G, E, W)
  PROVE  AccInv'
<1> USE ConstantsAssumption DEF TypeInv, TypeOK, AccInv, Thread, engineVars
<1> DEFINE N == {t \in G : NeedUnlog(t)}
<1>1. /\ l \in G /\ \A t \in G : pc[t] = "prepared" /\ ~checkPurge[t] /\ group[t] = {}
      /\ \A r \in Thread : pc'[r] = IF r = l THEN "log" ELSE IF r \in G THEN "queued" ELSE pc[r]
      /\ \A r \in Thread : bid'[r] = IF r \in G THEN current ELSE bid[r]
      /\ group' = [group EXCEPT ![l] = G]
      /\ UNCHANGED <<resume, checkPurge, current, listHead, requests, notified>>
      /\ lockLog = Nobody
  BY DEF LeaderWrite, CheckPurgeInv, GroupInv
<1>2. xidCount' = [xidCount EXCEPT ![current] = @ + Cardinality(N)]
  BY DEF LeaderWrite
<1>3. SamePins
  BY <1>1 DEF SamePins, Pins
<1>4. /\ \A t \in N : ~OwesUnlog(t) /\ bid'[t] = current
      /\ \A t \in Trx : /\ OwesUnlog(t)' <=> OwesUnlog(t) \/ t \in N
                        /\ OwesUnlog(t) => bid'[t] = bid[t]
  <2>1. \A t \in G : ~OwesUnlog(t) /\ bid'[t] = current /\ pc'[t] \in {"log", "queued"}
    BY <1>1 DEF OwesUnlog
  <2>2. \A t \in G : XidCounted(t)' <=> NeedUnlog(t)
    <3> SUFFICES ASSUME NEW t \in G PROVE xidFile'[t] # 0 \/ t \in failed'
      BY DEF XidCounted, NeedUnlog
    <3>1. current # 0
      BY DEF File
    <3> QED BY <3>1 DEF LeaderWrite
  <2>3. \A t \in Trx \ G : (XidCounted(t)' <=> XidCounted(t)) /\ pc'[t] = pc[t]
    BY <1>1 DEF LeaderWrite, XidCounted, NeedUnlog
  <2>4. \A t \in G : OwesUnlog(t)' <=> t \in N
    BY <2>1, <2>2 DEF OwesUnlog
  <2>5. \A t \in Trx \ G : (OwesUnlog(t)' <=> OwesUnlog(t)) /\ bid'[t] = bid[t]
    BY <1>1, <2>3 DEF OwesUnlog
  <2> QED BY <2>1, <2>4, <2>5
<1>5. N \in SUBSET Trx /\ SameAsked
  BY <1>1 DEF SameAsked
<1> HIDE DEF N
<1>6. GroupInv'
  <2>1. /\ pc'[l] \in {"log", "rotated"}
        /\ \A r \in Trx \ {l} : pc'[r] = IF r \in G THEN "queued" ELSE pc[r]
        /\ \A r \in Trx : bid'[r] = IF r \in G THEN current ELSE bid[r]
    BY <1>1
  <2> QED BY <1>1, <2>1, JoinGroup
<1>7. CheckPurgeInv'
  BY <1>1, ZenonT(30) DEF CheckPurgeInv
<1>8. BidInv'
  <2>1. \A r \in Thread : pc[r] \notin {"log", "rotate", "open", "link"}
    BY <1>1 DEF LogInv, InLog
  <2>2. \A t \in Trx : OwesUnlog(t)' => bid'[t] <= current
    <3> SUFFICES ASSUME NEW t \in Trx, OwesUnlog(t)' PROVE bid'[t] <= current
      OBVIOUS
    <3>1. CASE t \in N
      <4>1. bid'[t] = current
        BY <1>4, <3>1
      <4> QED BY <4>1 DEF File
    <3>2. CASE OwesUnlog(t)
      <4>1. bid'[t] = bid[t] /\ bid[t] <= current
        BY <1>4, <3>2 DEF BidInv
      <4> QED BY <4>1
    <3> QED BY <1>4, <3>1, <3>2
  <2> QED BY <1>1, <1>3, <2>1, <2>2, ZenonT(30) DEF BidInv, SamePins
<1>9. PinInv'
  BY <1>1, <1>3, ZenonT(30) DEF PinInv, SamePins
<1>10. Counted'
  BY <1>2, <1>3, <1>4, <1>5, AddXids
<1>11. ListInv'
  <2>1. current \in listHead..current
    BY DEF File
  <2>2. \A f \in File : f # current => xidCount'[f] = xidCount[f]
    BY <1>2
  <2> QED BY <1>1, <2>1, <2>2 DEF ListInv
<1> QED BY <1>6, <1>7, <1>8, <1>9, <1>10, <1>11

\* When the log has been closed the group counts nothing.
LEMMA LeaderSkipAcc ==
  ASSUME TypeInv, AccInv, PreparedInv, NEW l \in Trx, NEW G \in SUBSET Trx, LeaderSkip(l, G)
  PROVE  AccInv'
<1> USE ConstantsAssumption
    DEF TypeInv, TypeOK, AccInv, Thread, listVars, engineVars, diskVars, endVars
<1>1. /\ l \in G /\ \A t \in G : pc[t] = "prepared" /\ ~checkPurge[t] /\ group[t] = {}
      /\ \A r \in Thread : pc'[r] = IF r = l THEN "rotated"
                                    ELSE IF r \in G THEN "queued" ELSE pc[r]
      /\ \A r \in Thread : bid'[r] = IF r \in G THEN current ELSE bid[r]
      /\ group' = [group EXCEPT ![l] = G]
      /\ UNCHANGED <<resume, checkPurge, current, listHead, xidCount, requests, notified,
                     xidFile, failed>>
  BY DEF LeaderSkip, CheckPurgeInv, GroupInv
<1>2. SamePins
  BY <1>1 DEF SamePins, Pins
<1>3. SameXids
  <2>1. \A t \in G : ~XidCounted(t)
    BY <1>1 DEF PreparedInv, XidCounted
  <2>2. \A t \in Trx : XidCounted(t)' <=> XidCounted(t)
    BY <1>1 DEF XidCounted, NeedUnlog
  <2> QED BY <1>1, <2>1, <2>2 DEF SameXids, OwesUnlog
<1>4. GroupInv'
  <2>1. /\ pc'[l] \in {"log", "rotated"}
        /\ \A r \in Trx \ {l} : pc'[r] = IF r \in G THEN "queued" ELSE pc[r]
        /\ \A r \in Trx : bid'[r] = IF r \in G THEN current ELSE bid[r]
    BY <1>1
  <2>2. \A t \in G : pc[t] = "prepared" /\ group[t] = {}
    BY <1>1
  <2>3. l \in G /\ group \in [Trx -> SUBSET Trx] /\ group' = [group EXCEPT ![l] = G]
    BY <1>1
  <2> HIDE DEF TypeInv, TypeOK, Thread, AccInv
  <2> QED BY <2>1, <2>2, <2>3, JoinGroup DEF AccInv
<1>5. CheckPurgeInv'
  BY <1>1, ZenonT(30) DEF CheckPurgeInv
<1>6. BidInv'
  <2>1. \A r \in Thread : pc'[r] \in {"log", "rotate", "open", "link"} => r \notin G /\ pc[r] = pc'[r]
    BY <1>1
  <2>2. pc'[Reset] = pc[Reset] /\ bid'[Reset] = bid[Reset]
    BY <1>1
  <2>3. \A r \in Thread \ {Reset} : Pins(r) => pc'[r] = pc[r] \/ pc[r] = "prepared"
    BY <1>1
  <2>4. \A r \in Thread : Pins(r) => pc[r] # "prepared"
    BY <1>1 DEF Pins, CheckPurgeInv, GroupInv, PcInv, FlushPc, ResetActive, BackgroundPc
  <2> QED BY <1>1, <1>2, <1>3, <2>1, <2>2, <2>3, <2>4 DEF BidInv, SamePins, SameXids
<1>7. PinInv'
  BY <1>1, <1>2, ZenonT(30) DEF PinInv, SamePins
<1>8. Counted'
  BY <1>1, <1>2, <1>3, SameCounted DEF SameAsked
<1>9. ListInv'
  BY <1>1 DEF ListInv
<1> QED BY <1>4, <1>5, <1>6, <1>7, <1>8, <1>9

\* With opt_optimize_thread_scheduling off every member of the group leaves it
\* after its own commit_ordered(); the last one requests the checkpoint.
LEMMA OwnCommitOrderedAcc ==
  ASSUME TypeInv, AccInv, NEW t \in Trx, NEW l \in Trx, OwnCommitOrdered(t, l),
         t \in group[l],
         \/ t = l /\ pc[l] \in {"co", "busyWait"}
         \/ t # l /\ pc[t] = "queued" /\ l \notin group[l]
  PROVE  AccInv'
<1> USE ConstantsAssumption DEF TypeInv, TypeOK, AccInv, Thread, listVars, diskVars, endVars
<1> DEFINE rest == group[l] \ {t}
           next == AfterOrder(t, rest = {}, checkPurge[l])
<1>1. /\ group' = [group EXCEPT ![l] = rest]
      /\ pc' = [pc EXCEPT ![t] = next]
      /\ UNCHANGED <<resume, bid, checkPurge, current, listHead, xidCount, requests, notified, xidFile, failed>>
  BY DEF OwnCommitOrdered
<1>2. /\ rest \in SUBSET Trx /\ t \notin rest /\ (l # t => l \notin rest)
      /\ next \in {"request", "commit", "unlog"}
      /\ next = "request" <=> rest = {} /\ checkPurge[l]
  BY DEF AfterOrder
<1>3. /\ Live(l) /\ bid[t] = bid[l]
      /\ \A u \in rest : u # l /\ pc[u] = "queued" /\ bid[u] = bid[l]
      /\ \A m \in Trx \ {l} : Live(m) => t \notin group[m]
  BY DEF GroupInv, Live, LeaderPc
<1>4. t # l => /\ ~checkPurge[t] /\ group[t] = {}
               /\ pc[l] \notin LeaderPc \cup {"request", "requested", "prepared", "queued"}
  BY DEF CheckPurgeInv, GroupInv
<1> HIDE DEF rest, next
<1>5. SameXids
  BY <1>1, <1>2 DEF SameXids, OwesUnlog, XidCounted
<1>6. SameAsked
  BY <1>1 DEF SameAsked
<1>7. GroupInv'
  <2>1. \A m \in Trx \ {l} : Live(m)' /\ m # t => Live(m)
    BY <1>1 DEF Live
  <2>2. \A m \in Trx \ {l} : m = t => group[m] = {}
    BY <1>4
  <2>3. (\A m \in Trx : pc[m] \in {"prepared", "queued"} => group[m] = {})'
    BY <1>1, <1>2, <1>4 DEF GroupInv, LeaderPc
  <2>4. (\A m \in Trx : pc[m] \in LeaderPc => m \in group[m])'
    BY <1>1, <1>2, <1>4 DEF GroupInv, LeaderPc
  <2>5. (\A m \in Trx : Live(m) =>
           \A u \in group[m] \ {m} : pc[u] = "queued" /\ bid[u] = bid[m])'
    <3> SUFFICES ASSUME NEW m \in Trx, Live(m)', NEW u \in group'[m], u # m
                 PROVE  pc'[u] = "queued" /\ bid'[u] = bid'[m]
      OBVIOUS
    <3>1. CASE m = l
      BY <1>1, <1>2, <1>3, <3>1
    <3>2. CASE m # l
      BY <1>1, <1>3, <2>1, <2>2, <3>2 DEF GroupInv
    <3> QED BY <3>1, <3>2
  <2>6. (\A m \in Trx : pc[m] \in {"request", "requested"} => m \in group[m] \/ group[m] = {})'
    BY <1>1, <1>2, <1>4 DEF GroupInv
  <2>7. (\A k, m \in Trx : k # m /\ Live(k) /\ Live(m) => group[k] \cap group[m] = {})'
    <3> SUFFICES ASSUME NEW k \in Trx, NEW m \in Trx, k # m, Live(k)', Live(m)'
                 PROVE  group'[k] \cap group'[m] = {}
      OBVIOUS
    <3>1. /\ group'[k] = {} \/ (Live(k) /\ group'[k] \subseteq group[k])
          /\ group'[m] = {} \/ (Live(m) /\ group'[m] \subseteq group[m])
      BY <1>1, <1>3, <2>1, <2>2 DEF rest
    <3> QED BY <3>1 DEF GroupInv
  <2> QED BY <2>3, <2>4, <2>5, <2>6, <2>7 DEF GroupInv
<1>8. CheckPurgeInv'
  BY <1>1, <1>2 DEF CheckPurgeInv
<1>9. CASE t # l /\ rest = {} /\ checkPurge[l]
  <2>1. Pins(l) /\ ~Pins(t) /\ \A q \in Thread : Pins(q)' <=> (Pins(q) /\ q # l) \/ q = t
    BY <1>1, <1>2, <1>4, <1>9 DEF Pins, LeaderPc
  <2>2. BidInv'
    BY <1>1, <1>2, <1>3, <1>4, <1>5, <1>9, <2>1 DEF BidInv, SameXids, LeaderPc
  <2>3. PinInv'
    BY <1>1, <1>2, <1>3, <1>4, <1>9, <2>1 DEF PinInv
  <2>4. Counted'
    BY <1>1, <1>3, <1>5, <1>6, <1>9, <2>1, MovePin
  <2>5. ListInv'
    BY <1>1 DEF ListInv
  <2> QED BY <1>7, <1>8, <2>2, <2>3, <2>4, <2>5
<1>10. CASE ~(t # l /\ rest = {} /\ checkPurge[l])
  <2>1. SamePins
    BY <1>1, <1>2, <1>4, <1>10 DEF SamePins, Pins, LeaderPc
  <2>2. BidInv'
    BY <1>1, <1>2, <1>5, <2>1 DEF BidInv, SameXids, SamePins
  <2>3. PinInv'
    BY <1>1, <1>2, <2>1 DEF PinInv, SamePins
  <2>4. Counted'
    BY <1>1, <1>5, <1>6, <2>1, SameCounted
  <2>5. ListInv'
    BY <1>1 DEF ListInv
  <2> QED BY <1>7, <1>8, <2>2, <2>3, <2>4, <2>5
<1> QED BY <1>9, <1>10

LEMMA CommitAcc ==
  ASSUME TypeInv, AccInv, PreparedInv, NEW t \in Trx, CommitStep(t)
  PROVE  AccInv'
<1> USE ConstantsAssumption
    DEF TypeInv, TypeOK, AccInv, Thread, threadVars, lockVars, listVars, engineVars, diskVars,
        endVars
<1>1. CASE \E G \in SUBSET Trx : \E E, W \in SUBSET G : LeaderWrite(t, G, E, W)
  BY <1>1, LeaderWriteAcc
<1>2. CASE LeaderSync(t)
  <2>1. SamePins
    BY <1>2 DEF LeaderSync, SamePins, Pins, PcInv, TrxPc, FlushPc, ResetActive, BackgroundPc,
       CheckPurgeInv, GroupInv, LeaderPc
  <2>2. SameXids
    BY <1>2 DEF LeaderSync, SameXids, OwesUnlog, XidCounted
  <2>3. GroupInv'
    <3>1. /\ pc[t] \in {"log", "rotated"} /\ pc' = [pc EXCEPT ![t] = "abs"]
          /\ UNCHANGED <<group, bid, checkPurge, failed>>
      BY <1>2 DEF LeaderSync
    <3>2. pc'[t] = "abs" /\ \A r \in Thread : r # t => pc'[r] = pc[r]
      BY <3>1
    <3> QED BY <3>1, <3>2 DEF GroupInv, Live, LeaderPc
  <2>4. CheckPurgeInv'
    BY <1>2 DEF LeaderSync, CheckPurgeInv, PcInv, FlushPc, ResetActive
  <2>5. BidInv'
    BY <1>2, <2>1, <2>2 DEF LeaderSync, BidInv, SamePins, SameXids, PcInv, FlushPc, ResetActive,
       BackgroundPc
  <2>6. PinInv'
    BY <1>2, <2>1 DEF LeaderSync, PinInv, SamePins
  <2>7. Counted'
    BY <1>2, <2>1, <2>2, SameCounted DEF LeaderSync, SameAsked
  <2>8. ListInv'
    BY <1>2 DEF LeaderSync, ListInv
  <2> QED BY <2>3, <2>4, <2>5, <2>6, <2>7, <2>8
<1>3. CASE LeaderOrder(t)
  <2>1. SamePins
    BY <1>3 DEF LeaderOrder, SamePins, Pins, PcInv, TrxPc, FlushPc, ResetActive, BackgroundPc,
       CheckPurgeInv, GroupInv, LeaderPc
  <2>2. SameXids
    BY <1>3 DEF LeaderOrder, SameXids, OwesUnlog, XidCounted
  <2>3. GroupInv'
    BY <1>3 DEF LeaderOrder, GroupInv, Live, LeaderPc
  <2>4. CheckPurgeInv'
    BY <1>3 DEF LeaderOrder, CheckPurgeInv, PcInv, FlushPc, ResetActive
  <2>5. BidInv'
    BY <1>3, <2>1, <2>2 DEF LeaderOrder, BidInv, SamePins, SameXids, PcInv, FlushPc, ResetActive,
       BackgroundPc
  <2>6. PinInv'
    BY <1>3, <2>1 DEF LeaderOrder, PinInv, SamePins
  <2>7. Counted'
    BY <1>3, <2>1, <2>2, SameCounted DEF LeaderOrder, SameAsked
  <2>8. ListInv'
    BY <1>3 DEF LeaderOrder, ListInv
  <2> QED BY <2>3, <2>4, <2>5, <2>6, <2>7, <2>8
<1>4. CASE LeaderCommitOrdered(t)
  <2>1. /\ t \in group[t] /\ Live(t) /\ pc[t] = "co"
        /\ \A u \in group[t] : u \in Trx
        /\ \A u \in group[t] \ {t} : pc[u] = "queued" /\ ~checkPurge[u] /\ group[u] = {}
        /\ \A m \in Trx \ {t} : Live(m) => group[m] \cap group[t] = {}
    BY <1>4 DEF LeaderCommitOrdered, GroupInv, Live, LeaderPc, CheckPurgeInv
  <2>2. /\ \A r \in Thread \ group[t] : pc'[r] = pc[r]
        /\ \A u \in group[t] \ {t} : pc'[u] \in {"commit", "unlog"}
        /\ pc'[t] \in {"commit", "unlog", "request"}
        /\ pc'[t] = "request" <=> checkPurge[t]
        /\ UNCHANGED <<resume, bid, group, checkPurge, current, listHead, xidCount, requests,
                       notified, xidFile, failed>>
    BY <1>4, <2>1 DEF LeaderCommitOrdered, AfterOrder
  <2>3. \A r \in Thread : r \in group[t] \/ pc'[r] = pc[r]
    BY <2>2
  <2>4. SamePins
    <3> SUFFICES ASSUME NEW r \in Thread PROVE Pins(r)' <=> Pins(r)
      BY <2>2 DEF SamePins
    <3>1. CASE r \notin group[t]
      <4>1. pc'[r] = pc[r] /\ checkPurge'[r] = checkPurge[r] /\ (r \in Trx => group'[r] = group[r])
        BY <2>2, <3>1
      <4> QED BY <4>1 DEF Pins
    <3>2. CASE r = t
      <4>1. /\ pc[r] = "co" /\ r \in group[r] /\ group'[r] = group[r] /\ checkPurge'[r] = checkPurge[r]
            /\ pc'[r] \in {"commit", "unlog", "request"} /\ (pc'[r] = "request" <=> checkPurge[r])
        BY <2>1, <2>2, <3>2
      <4> QED BY <4>1 DEF Pins
    <3>3. CASE r \in group[t] /\ r # t
      <4>1. /\ pc[r] = "queued" /\ ~checkPurge[r] /\ ~checkPurge'[r]
            /\ pc'[r] \in {"commit", "unlog"}
        BY <2>1, <2>2, <3>3
      <4> QED BY <4>1 DEF Pins
    <3> QED BY <3>1, <3>2, <3>3
  <2>5. SameXids
    BY <2>1, <2>2, <2>3 DEF SameXids, OwesUnlog, XidCounted
  <2>6. GroupInv'
    <3>1. \A m \in Trx : Live(m)' => group[m] = {} \/ (Live(m) /\ m # t)
      BY <2>1, <2>2, <2>3 DEF Live, LeaderPc
    <3>2. (\A m \in Trx : pc[m] \in {"prepared", "queued"} => group[m] = {})'
      BY <2>1, <2>2, <2>3 DEF GroupInv
    <3>3. (\A m \in Trx : pc[m] \in LeaderPc => m \in group[m])'
      <4> SUFFICES ASSUME NEW m \in Trx, pc'[m] \in LeaderPc PROVE m \in group[m]
        BY <2>2
      <4>1. CASE m \notin group[t]
        BY <2>3, <4>1 DEF GroupInv
      <4>2. CASE m \in group[t] /\ m # t
        <5>1. pc'[m] \in {"commit", "unlog"}
          BY <2>2, <4>2
        <5> QED BY <5>1 DEF LeaderPc
      <4> QED BY <2>1, <4>1, <4>2
    <3>4. (\A m \in Trx : Live(m) =>
             \A u \in group[m] \ {m} : pc[u] = "queued" /\ bid[u] = bid[m])'
      <4> SUFFICES ASSUME NEW m \in Trx, Live(m)', NEW u \in group'[m], u # m
                   PROVE  pc'[u] = "queued" /\ bid'[u] = bid'[m]
        OBVIOUS
      <4>1. u \in group[m] /\ Live(m) /\ m # t
        BY <2>2, <3>1
      <4>2. pc[u] = "queued" /\ bid[u] = bid[m]
        BY <4>1 DEF GroupInv
      <4>3. u \in Thread /\ u \notin group[t]
        BY <2>1, <4>1
      <4> QED BY <2>2, <4>2, <4>3
    <3>5. (\A m \in Trx : pc[m] \in {"request", "requested"}
                            => m \in group[m] \/ group[m] = {})'
      BY <2>1, <2>2, <2>3 DEF GroupInv
    <3>6. (\A k, m \in Trx : k # m /\ Live(k) /\ Live(m) => group[k] \cap group[m] = {})'
      <4> SUFFICES ASSUME NEW k \in Trx, NEW m \in Trx, k # m, Live(k)', Live(m)'
                   PROVE  group'[k] \cap group'[m] = {}
        OBVIOUS
      <4>1. group[k] = {} \/ group[m] = {} \/ (Live(k) /\ Live(m))
        BY <3>1
      <4>2. group[k] \cap group[m] = {}
        BY <4>1 DEF GroupInv
      <4> QED BY <2>2, <4>2
    <3> QED BY <3>2, <3>3, <3>4, <3>5, <3>6 DEF GroupInv
  <2>7. CheckPurgeInv'
    BY <2>1, <2>2, <2>3 DEF CheckPurgeInv
  <2>8. BidInv'
    BY <2>1, <2>2, <2>3, <2>4, <2>5 DEF BidInv, SamePins, SameXids
  <2>9. PinInv'
    BY <2>1, <2>2, <2>3, <2>4 DEF PinInv, SamePins
  <2>10. Counted'
    BY <2>2, <2>4, <2>5, SameCounted DEF SameAsked
  <2>11. ListInv'
    BY <2>2 DEF ListInv
  <2> QED BY <2>6, <2>7, <2>8, <2>9, <2>10, <2>11
<1>5. CASE LeaderWaitBusy(t)
  <2>1. SamePins
    BY <1>5 DEF LeaderWaitBusy, SamePins, Pins, PcInv, TrxPc, FlushPc, ResetActive, BackgroundPc,
       CheckPurgeInv, GroupInv, LeaderPc
  <2>2. SameXids
    BY <1>5 DEF LeaderWaitBusy, SameXids, OwesUnlog, XidCounted
  <2>3. GroupInv'
    BY <1>5 DEF LeaderWaitBusy, GroupInv, Live, LeaderPc
  <2>4. CheckPurgeInv'
    BY <1>5 DEF LeaderWaitBusy, CheckPurgeInv, PcInv, FlushPc, ResetActive
  <2>5. BidInv'
    BY <1>5, <2>1, <2>2 DEF LeaderWaitBusy, BidInv, SamePins, SameXids, PcInv, FlushPc, ResetActive,
       BackgroundPc
  <2>6. PinInv'
    BY <1>5, <2>1 DEF LeaderWaitBusy, PinInv, SamePins
  <2>7. Counted'
    BY <1>5, <2>1, <2>2, SameCounted DEF LeaderWaitBusy, SameAsked
  <2>8. ListInv'
    BY <1>5 DEF LeaderWaitBusy, ListInv
  <2> QED BY <2>3, <2>4, <2>5, <2>6, <2>7, <2>8
<1>6. CASE LeaderOwnCommitOrdered(t)
  <2>1. pc[t] \in {"co", "busyWait"} /\ OwnCommitOrdered(t, t)
    BY <1>6 DEF LeaderOwnCommitOrdered
  <2>2. t \in group[t]
    BY <2>1 DEF GroupInv, LeaderPc
  <2> QED BY <2>1, <2>2, OwnCommitOrderedAcc
<1>7. CASE \E l \in Trx : FollowerOwnCommitOrdered(t, l)
  <2>1. PICK l \in Trx : FollowerOwnCommitOrdered(t, l)
    BY <1>7
  <2>2. /\ pc[t] = "queued" /\ t \in group[l] /\ l \notin group[l] /\ t # l
        /\ OwnCommitOrdered(t, l)
    BY <2>1 DEF FollowerOwnCommitOrdered
  <2> QED BY <2>2, OwnCommitOrderedAcc
<1>8. CASE EngineCommit(t)
  <2>1. SamePins
    BY <1>8 DEF EngineCommit, SamePins, Pins, PcInv, TrxPc, FlushPc, ResetActive, BackgroundPc,
       CheckPurgeInv, GroupInv, LeaderPc
  <2>2. SameXids
    BY <1>8 DEF EngineCommit, SameXids, OwesUnlog, XidCounted
  <2>3. GroupInv'
    BY <1>8, SMTT(30) DEF EngineCommit, GroupInv, Live, LeaderPc
  <2>4. CheckPurgeInv'
    BY <1>8 DEF EngineCommit, CheckPurgeInv, PcInv, FlushPc, ResetActive
  <2>5. BidInv'
    BY <1>8, <2>1, <2>2 DEF EngineCommit, BidInv, SamePins, SameXids, PcInv, FlushPc, ResetActive,
       BackgroundPc
  <2>6. PinInv'
    BY <1>8, <2>1 DEF EngineCommit, PinInv, SamePins
  <2>7. Counted'
    BY <1>8, <2>1, <2>2, SameCounted DEF EngineCommit, SameAsked
  <2>8. ListInv'
    BY <1>8 DEF EngineCommit, ListInv
  <2> QED BY <2>3, <2>4, <2>5, <2>6, <2>7, <2>8
<1>9. CASE Unlog(t)
  <2>1. /\ pc[t] = "unlog"
        /\ UNCHANGED <<bid, group, checkPurge, current, listHead, requests, notified, xidFile, failed>>
        /\ \E next \in {"done", "markWait"} : pc' = [pc EXCEPT ![t] = next]
    BY <1>9 DEF Unlog, MarkXidDone
  <2>2. IF XidCounted(t)
        THEN /\ xidCount' = [xidCount EXCEPT ![bid[t]] = @ - 1]
             /\ resume' = [resume EXCEPT ![t] = "done"]
        ELSE /\ pc' = [pc EXCEPT ![t] = "done"]
             /\ UNCHANGED <<xidCount, resume>>
    BY <1>9 DEF Unlog, MarkXidDone
  <2>3. SamePins
    BY <2>1 DEF SamePins, Pins
  <2>4. GroupInv'
    <3>1. PICK next \in {"done", "markWait"} : pc' = [pc EXCEPT ![t] = next]
      BY <2>1
    <3> QED BY <2>1, <3>1 DEF GroupInv, Live, LeaderPc
  <2>5. CheckPurgeInv'
    BY <2>1 DEF CheckPurgeInv
  <2>6. \A u \in Trx : OwesUnlog(u)' <=> OwesUnlog(u) /\ u # t
    <3>1. \A u \in Trx : XidCounted(u)' <=> XidCounted(u)
      BY <2>1 DEF XidCounted, NeedUnlog
    <3> QED BY <2>1, <2>2, <3>1 DEF OwesUnlog
  <2>7. BidInv'
    BY <2>1, <2>3, <2>6 DEF BidInv, SamePins
  <2>8. PinInv'
    BY <2>1, <2>3 DEF PinInv, SamePins
  <2>9. SameAsked
    BY <2>1 DEF SameAsked
  <2>10. Counted' /\ ListInv'
    <3>1. CASE XidCounted(t)
      <4>1. OwesUnlog(t)
        BY <2>1, <3>1 DEF OwesUnlog
      <4>2. Counted'
        BY <2>1, <2>2, <2>3, <2>6, <2>9, <3>1, <4>1, DropXid
      <4>3. bid[t] \in listHead..current
        BY <4>1, HeldInList
      <4>4. ListInv'
        BY <2>1, <2>2, <3>1, <4>3 DEF ListInv
      <4> QED BY <4>2, <4>4
    <3>2. CASE ~XidCounted(t)
      <4>1. SameXids
        BY <2>1, <2>6, <3>2 DEF SameXids, OwesUnlog
      <4>2. Counted'
        BY <2>2, <2>3, <2>9, <3>2, <4>1, SameCounted
      <4> QED BY <2>1, <2>2, <3>2, <4>2 DEF ListInv
    <3> QED BY <3>1, <3>2
  <2> QED BY <2>4, <2>5, <2>7, <2>8, <2>10
<1>10. CASE \E G \in SUBSET Trx : LeaderSkip(t, G)
  BY <1>10, LeaderSkipAcc
<1> QED BY <1>1, <1>2, <1>3, <1>4, <1>5, <1>6, <1>7, <1>8, <1>9, <1>10 DEF CommitStep

LEMMA RotateAcc ==
  ASSUME TypeInv, AccInv, NEW r \in Thread, RotateStep(r)
  PROVE  AccInv'
<1> USE ConstantsAssumption
    DEF TypeInv, TypeOK, AccInv, Thread, threadVars, lockVars, listVars, engineVars, diskVars,
        endVars
<1>1. CASE RotateBegin(r)
  <2>1. /\ r \in Trx \cup {Flush} /\ pc[r] = "log" /\ pc' = [pc EXCEPT ![r] = "rotate"]
        /\ xidCount' = [xidCount EXCEPT ![current] = @ + 1]
        /\ UNCHANGED <<resume, bid, group, checkPurge, current, listHead, requests, notified, xidFile, failed>>
    BY <1>1 DEF RotateBegin
  <2>2. /\ bid[r] = current /\ ~checkPurge[r] /\ ~Pins(r)
        /\ pc[Reset] \notin {"request", "requested", "drain"}
        /\ \A q \in Thread \ {r} : pc[q] \notin {"log", "rotate", "open", "link"}
    BY <2>1 DEF BidInv, CheckPurgeInv, Pins, LogInv, InLog
  <2>3. \A q \in Thread : Pins(q)' <=> Pins(q) \/ q = r
    BY <2>1, <2>2 DEF Pins
  <2>4. SameXids
    BY <2>1 DEF SameXids, OwesUnlog, XidCounted
  <2>5. GroupInv'
    BY <2>1, SMTT(30) DEF GroupInv, Live, LeaderPc
  <2>6. CheckPurgeInv'
    BY <2>1, <2>2 DEF CheckPurgeInv
  <2>7. BidInv'
    BY <2>1, <2>2, <2>3, <2>4 DEF BidInv, SameXids
  <2>8. PinInv'
    <3>1. \A q \in Thread : Pins(q) => q # Reset /\ bid[q] < current
      BY <2>2 DEF BidInv, Pins, PcInv, ResetActive, CheckPurgeInv
    <3>2. \A f \in requests \cup notified : f < current
      BY <2>2 DEF PinInv
    <3>3. current \in Int
      BY DEF File
    <3>4. (\A q, s \in Thread : q # s /\ Pins(q) /\ Pins(s) => bid[q] # bid[s])'
      <4> SUFFICES ASSUME NEW q \in Thread, NEW s \in Thread, q # s, Pins(q)', Pins(s)'
                   PROVE  bid[q] # bid[s]
        BY <2>1
      <4>1. CASE q # r /\ s # r
        BY <2>3, <4>1 DEF PinInv
      <4>2. CASE q = r
        <5>1. bid[s] < current /\ bid[q] = current
          BY <2>2, <2>3, <3>1, <4>2
        <5> QED BY <3>3, <5>1
      <4>3. CASE s = r
        <5>1. bid[q] < current /\ bid[s] = current
          BY <2>2, <2>3, <3>1, <4>3
        <5> QED BY <3>3, <5>1
      <4> QED BY <4>1, <4>2, <4>3
    <3>5. (\A q \in Thread :
             Pins(q) /\ pc[q] # "requested" => bid[q] \notin requests \cup notified)'
      BY <2>1, <2>2, <2>3, <3>2, <3>3 DEF PinInv
    <3> QED BY <2>1, <3>2, <3>4, <3>5 DEF PinInv
  <2>9. Counted'
    BY <2>1, <2>2, <2>3, <2>4, AddPin DEF SameAsked
  <2>10. ListInv'
    <3>1. current \in listHead..current
      BY DEF File
    <3> QED BY <2>1, <3>1 DEF ListInv
  <2> QED BY <2>5, <2>6, <2>7, <2>8, <2>9, <2>10
<1>2. CASE RotateFail(r) \/ RotateFailClose(r)
  <2>1. /\ pc[r] \in {"rotate", "open"} /\ pc' = [pc EXCEPT ![r] = "rotated"]
        /\ xidCount' = [xidCount EXCEPT ![bid[r]] = @ - 1]
        /\ UNCHANGED <<resume, bid, group, checkPurge, current, listHead, requests, notified, xidFile, failed>>
    BY <1>2 DEF RotateFail, RotateFailClose
  <2>2. Pins(r) /\ ~checkPurge[r] /\ r \in Trx \cup {Flush}
    BY <2>1 DEF Pins, CheckPurgeInv, PcInv, ResetActive, BackgroundPc
  <2>3. \A q \in Thread : Pins(q)' <=> Pins(q) /\ q # r
    BY <2>1, <2>2 DEF Pins
  <2>4. SameXids
    BY <2>1 DEF SameXids, OwesUnlog, XidCounted
  <2>5. GroupInv'
    BY <2>1, SMTT(30) DEF GroupInv, Live, LeaderPc
  <2>6. CheckPurgeInv'
    BY <2>1, <2>2 DEF CheckPurgeInv
  <2>7. BidInv'
    BY <2>1, <2>2, <2>3, <2>4 DEF BidInv, SameXids
  <2>8. PinInv'
    BY <2>1, <2>2, <2>3 DEF PinInv
  <2>9. Counted'
    BY <2>1, <2>2, <2>3, <2>4, DropPin DEF SameAsked
  <2>10. ListInv'
    <3>1. bid[r] \in listHead..current
      BY <2>2, HeldInList
    <3> QED BY <2>1, <3>1 DEF ListInv
  <2> QED BY <2>5, <2>6, <2>7, <2>8, <2>9, <2>10
<1>3. CASE OpenScan(r)
  <2>1. SamePins
    BY <1>3 DEF OpenScan, SamePins, Pins, PcInv, TrxPc, FlushPc, ResetActive, BackgroundPc,
       CheckPurgeInv, GroupInv, LeaderPc
  <2>2. SameXids
    BY <1>3 DEF OpenScan, SameXids, OwesUnlog, XidCounted
  <2>3. GroupInv'
    BY <1>3, SMTT(30) DEF OpenScan, GroupInv, Live, LeaderPc
  <2>4. CheckPurgeInv'
    BY <1>3 DEF OpenScan, CheckPurgeInv, PcInv, FlushPc, ResetActive
  <2>5. BidInv'
    BY <1>3, <2>1, <2>2 DEF OpenScan, BidInv, SamePins, SameXids, PcInv, FlushPc, ResetActive,
       BackgroundPc
  <2>6. PinInv'
    BY <1>3, <2>1 DEF OpenScan, PinInv, SamePins
  <2>7. Counted'
    BY <1>3, <2>1, <2>2, SameCounted DEF OpenScan, SameAsked
  <2>8. ListInv'
    BY <1>3 DEF OpenScan, ListInv
  <2> QED BY <2>3, <2>4, <2>5, <2>6, <2>7, <2>8
<1>4. CASE OpenFile(r)
  <2>1. SamePins
    BY <1>4 DEF OpenFile, SamePins, Pins, PcInv, TrxPc, FlushPc, ResetActive, BackgroundPc,
       CheckPurgeInv, GroupInv, LeaderPc
  <2>2. SameXids
    BY <1>4 DEF OpenFile, SameXids, OwesUnlog, XidCounted
  <2>3. GroupInv'
    BY <1>4 DEF OpenFile, GroupInv, Live, LeaderPc
  <2>4. CheckPurgeInv'
    BY <1>4 DEF OpenFile, CheckPurgeInv, PcInv, FlushPc, ResetActive
  <2>5. BidInv'
    BY <1>4, <2>1, <2>2 DEF OpenFile, BidInv, SamePins, SameXids, PcInv, FlushPc, ResetActive,
       BackgroundPc
  <2>6. PinInv'
    BY <1>4, <2>1 DEF OpenFile, PinInv, SamePins
  <2>7. Counted'
    BY <1>4, <2>1, <2>2, SameCounted DEF OpenFile, SameAsked
  <2>8. ListInv'
    BY <1>4 DEF OpenFile, ListInv
  <2> QED BY <2>3, <2>4, <2>5, <2>6, <2>7, <2>8
<1>5. CASE OpenLink(r)
  <2>1. /\ pc[r] = "link" /\ pc' = [pc EXCEPT ![r] = "rotated"]
        /\ checkPurge' = [checkPurge EXCEPT ![r] = TRUE]
        /\ current' = current + 1 /\ listHead' = FirstPending
        /\ UNCHANGED <<resume, bid, group, xidCount, requests, notified, xidFile, failed>>
    BY <1>5 DEF OpenLink
  <2>2. /\ r \in Trx \cup {Flush} /\ bid[r] = current
        /\ pc[Reset] \notin {"request", "requested", "drain"}
        /\ \A q \in Thread \ {r} : pc[q] \notin {"log", "rotate", "open", "link"}
    BY <2>1 DEF BidInv, LogInv, InLog, PcInv, ResetActive, BackgroundPc
  <2>3. SamePins
    BY <2>1, <2>2 DEF SamePins, Pins, GroupInv, LeaderPc
  <2>4. SameXids
    BY <2>1 DEF SameXids, OwesUnlog, XidCounted
  <2>5. GroupInv'
    BY <2>1 DEF GroupInv, Live, LeaderPc
  <2>6. CheckPurgeInv'
    BY <2>1, <2>2 DEF CheckPurgeInv
  <2>7. BidInv'
    <3>1. current \in Int /\ bid \in [Thread -> Int]
      BY DEF File
    <3>2. \A q \in Thread : Pins(q)' => bid[q] < current + 1
      <4> SUFFICES ASSUME NEW q \in Thread, Pins(q) PROVE bid[q] < current + 1
        BY <2>3 DEF SamePins
      <4>1. CASE q = Reset
        BY <2>1, <2>2, <4>1 DEF Pins, PcInv, ResetActive, CheckPurgeInv
      <4>2. CASE q # Reset
        <5>1. bid[q] < current \/ bid[q] = current
          BY <2>2, <4>2 DEF BidInv
        <5> QED BY <3>1, <5>1
      <4> QED BY <4>1, <4>2
    <3>3. \A u \in Trx : OwesUnlog(u)' => bid[u] <= current + 1
      <4> SUFFICES ASSUME NEW u \in Trx, OwesUnlog(u) PROVE bid[u] <= current + 1
        BY <2>4 DEF SameXids
      <4>1. bid[u] <= current
        BY DEF BidInv
      <4> QED BY <3>1, <4>1
    <3> QED BY <2>1, <2>2, <3>2, <3>3 DEF BidInv
  <2>8. PinInv'
    <3>1. (\A f \in requests \cup notified : f < current)'
      <4> SUFFICES ASSUME NEW f \in requests \cup notified PROVE f < current + 1
        BY <2>1
      <4>1. f < current
        BY <2>2 DEF PinInv
      <4> QED BY <4>1 DEF File
    <3> QED BY <2>1, <2>3, <3>1 DEF PinInv, SamePins
  <2>9. Counted'
    BY <2>1, <2>3, <2>4, SameCounted DEF SameAsked
  <2>10. ListInv'
    <3>1. /\ FirstPending \in listHead..current + 1
          /\ \A j \in listHead..FirstPending - 1 : xidCount[j] = 0
      BY FirstPendingIs
    <3>2. current \in Int /\ listHead \in Int
      BY DEF File
    <3> SUFFICES ASSUME NEW f \in File, f \notin FirstPending..current + 1
                 PROVE  xidCount[f] = 0
      BY <2>1 DEF ListInv
    <3>3. f \in listHead..FirstPending - 1 \/ f \notin listHead..current
      BY <3>1, <3>2 DEF File
    <3> QED BY <3>1, <3>3 DEF ListInv
  <2> QED BY <2>5, <2>6, <2>7, <2>8, <2>9, <2>10
<1> QED BY <1>1, <1>2, <1>3, <1>4, <1>5 DEF RotateStep

\* The server goes down, or comes up again after a crash.
LEMMA CrashAcc ==
  ASSUME TypeInv, AccInv, ServerDown \/ CrashRecover
  PROVE  AccInv'
<1> USE ConstantsAssumption
    DEF TypeInv, TypeOK, AccInv, Thread, threadVars, lockVars, listVars, engineVars, diskVars,
        endVars
<1>1. \A r \in Thread : pc'[r] \in {"down", "done", "idle", "prepared"}
  BY DEF ServerDown, CrashRecover
<1>2. \A r \in Trx : pc'[r] = "prepared" => pc[r] = "prepared"
  BY DEF ServerDown, CrashRecover
<1>3. /\ group' = [t \in Trx |-> {}] /\ xidCount' = [f \in File |-> 0]
      /\ requests' = {} /\ notified' = {}
      /\ checkPurge' = [r \in Thread |-> FALSE]
         \/ (checkPurge' = checkPurge /\ pc' = [r \in Thread |-> "down"])
  BY DEF ServerDown, CrashRecover
<1>4. (\A r \in Thread : ~Pins(r))' /\ (\A t \in Trx : ~OwesUnlog(t))'
  BY <1>1, <1>3 DEF Pins, OwesUnlog
<1>5. GroupInv'
  <2>1. \A l \in Trx : group'[l] = {} /\ pc'[l] \notin LeaderPc
    BY <1>1, <1>3 DEF LeaderPc
  <2> QED BY <2>1 DEF GroupInv
<1>6. CheckPurgeInv'
  BY <1>1, <1>3 DEF CheckPurgeInv
<1>7. BidInv'
  BY <1>1, <1>4 DEF BidInv
<1>8. PinInv'
  BY <1>3, <1>4 DEF PinInv
<1>9. Counted'
  BY <1>3, <1>4, NoneCounted
<1>10. ListInv'
  BY <1>3 DEF ListInv
<1> QED BY <1>5, <1>6, <1>7, <1>8, <1>9, <1>10

LEMMA CheckpointAcc ==
  ASSUME TypeInv, AccInv, NEW r \in Thread, CheckpointStep(r)
  PROVE  AccInv'
<1> USE ConstantsAssumption
    DEF TypeInv, TypeOK, AccInv, Thread, threadVars, lockVars, listVars, engineVars, diskVars,
        endVars
<1>1. CASE CheckpointRequest(r)
  <2>1. /\ pc[r] = "request" /\ pc' = [pc EXCEPT ![r] = "requested"]
        /\ xidCount' = [xidCount EXCEPT ![bid[r]] = @ + 1]
        /\ requests' = requests \cup {bid[r]}
        /\ UNCHANGED <<resume, bid, group, checkPurge, current, listHead, notified, xidFile, failed>>
    BY <1>1 DEF CheckpointRequest
  <2>2. Pins(r) /\ bid[r] \notin requests \cup notified
    BY <2>1 DEF Pins, PinInv
  <2>3. SamePins
    BY <2>1 DEF SamePins, Pins
  <2>4. SameXids
    BY <2>1 DEF SameXids, OwesUnlog, XidCounted
  <2>5. GroupInv'
    BY <2>1, SMTT(30) DEF GroupInv, Live, LeaderPc
  <2>6. CheckPurgeInv'
    BY <2>1 DEF CheckPurgeInv
  <2>7. BidInv'
    BY <2>1, <2>3, <2>4 DEF BidInv, SamePins, SameXids
  <2>8. PinInv'
    <3>1. \A q \in Thread : q # r /\ Pins(q) => bid[q] # bid[r]
      BY <2>2 DEF PinInv
    <3>2. bid[r] < current \/ (bid[r] = current /\ r = Reset)
      BY <2>1, <2>2 DEF BidInv
    <3>3. (\A f \in requests \cup notified :
             f < current \/ (f = current /\ pc[Reset] \in {"requested", "drain"}))'
      BY <2>1, <3>2 DEF PinInv
    <3> QED BY <2>1, <2>2, <2>3, <3>1, <3>3 DEF PinInv, SamePins
  <2>9. Counted'
    <3>1. (requests \cup notified)' = (requests \cup notified) \cup {bid[r]}
      BY <2>1
    <3>2. bid[r] \in File
      OBVIOUS
    <3> QED BY <2>1, <2>2, <2>3, <2>4, <3>1, <3>2, AddAsked
  <2>10. ListInv'
    <3>1. bid[r] \in listHead..current
      BY <2>2, HeldInList
    <3> QED BY <2>1, <3>1 DEF ListInv
  <2> QED BY <2>5, <2>6, <2>7, <2>8, <2>9, <2>10
<1>2. CASE CheckpointRequested(r)
  <2>1. /\ pc[r] = "requested"
        /\ xidCount' = [xidCount EXCEPT ![bid[r]] = @ - 1]
        /\ checkPurge' = [checkPurge EXCEPT ![r] = FALSE]
        /\ UNCHANGED <<bid, group, current, listHead, requests, notified, xidFile, failed>>
    BY <1>2 DEF CheckpointRequested, MarkXidDone
  <2>2. r \in Trx \cup {Flush, Reset} /\ (r = Reset => resetPending)
    BY <2>1 DEF PcInv, BackgroundPc, ResetActive
  <2>3. PICK next \in {"idle", "drain", "unlog", "commit"} :
          /\ r = Flush => next = "idle"
          /\ r = Reset => next = "drain"
          /\ r \in Trx => next \in {"unlog", "commit"}
          /\ resume' = [resume EXCEPT ![r] = next]
          /\ pc' = [pc EXCEPT ![r] = next] \/ (r # Reset /\ pc' = [pc EXCEPT ![r] = "markWait"])
    BY <1>2, <2>2 DEF CheckpointRequested, MarkXidDone
  <2>4. /\ pc'[r] \in {next, "markWait"} /\ (r = Reset => pc'[r] = "drain")
        /\ \A q \in Thread \ {r} : pc'[q] = pc[q] /\ resume'[q] = resume[q]
        /\ resume'[r] = next
    BY <2>3
  <2>5. Pins(r) /\ \A q \in Thread : Pins(q)' <=> Pins(q) /\ q # r
    BY <2>1, <2>4 DEF Pins
  <2>6. SameXids
    BY <2>1, <2>3, <2>4 DEF SameXids, OwesUnlog, XidCounted
  <2>7. GroupInv'
    BY <2>1, <2>3, <2>4, SameGroups DEF LeaderPc
  <2>8. CheckPurgeInv'
    BY <2>1, <2>2, <2>3, <2>4 DEF CheckPurgeInv
  <2>9. BidInv'
    BY <2>1, <2>2, <2>4, <2>5, <2>6 DEF BidInv, SameXids
  <2>10. PinInv'
    BY <2>1, <2>2, <2>4, <2>5 DEF PinInv
  <2>11. Counted'
    BY <2>1, <2>5, <2>6, DropPin DEF SameAsked
  <2>12. ListInv'
    <3>1. bid[r] \in listHead..current
      BY <2>5, HeldInList
    <3> QED BY <2>1, <3>1 DEF ListInv
  <2> QED BY <2>7, <2>8, <2>9, <2>10, <2>11, <2>12
<1>3. CASE MarkXidDoneLocked(r)
  <2>1. SamePins
    BY <1>3 DEF MarkXidDoneLocked, SamePins, Pins, PcInv, TrxPc, FlushPc, ResetActive, BackgroundPc,
       CheckPurgeInv, GroupInv, LeaderPc
  <2>2. SameXids
    BY <1>3 DEF MarkXidDoneLocked, SameXids, OwesUnlog, XidCounted
  <2>3. GroupInv'
    BY <1>3 DEF MarkXidDoneLocked, GroupInv, Live, LeaderPc
  <2>4. CheckPurgeInv'
    BY <1>3 DEF MarkXidDoneLocked, CheckPurgeInv, PcInv, FlushPc, ResetActive
  <2>5. BidInv'
    BY <1>3, <2>1, <2>2 DEF MarkXidDoneLocked, BidInv, SamePins, SameXids, PcInv, FlushPc, ResetActive,
       BackgroundPc
  <2>6. PinInv'
    BY <1>3, <2>1 DEF MarkXidDoneLocked, PinInv, SamePins
  <2>7. Counted'
    BY <1>3, <2>1, <2>2, SameCounted DEF MarkXidDoneLocked, SameAsked
  <2>8. ListInv'
    <3>1. /\ FirstPending \in listHead..current + 1
          /\ \A j \in listHead..FirstPending - 1 : xidCount[j] = 0
      BY FirstPendingIs
    <3>2. current \in Int /\ listHead \in Int
      BY DEF File
    <3>3. /\ listHead' = IF FirstPending > current THEN current ELSE FirstPending
          /\ UNCHANGED <<current, xidCount>>
      BY <1>3 DEF MarkXidDoneLocked
    <3> SUFFICES ASSUME NEW f \in File, f \notin listHead'..current
                 PROVE  xidCount[f] = 0
      BY <3>3 DEF ListInv
    <3>4. f \in listHead..FirstPending - 1 \/ f \notin listHead..current
      BY <3>1, <3>2, <3>3 DEF File
    <3> QED BY <3>1, <3>4 DEF ListInv
  <2> QED BY <2>3, <2>4, <2>5, <2>6, <2>7, <2>8
<1>4. CASE MarkXidDoneWrite(r)
  <2>1. SamePins
    BY <1>4 DEF MarkXidDoneWrite, SamePins, Pins, PcInv, TrxPc, FlushPc, ResetActive, BackgroundPc,
       CheckPurgeInv, GroupInv, LeaderPc
  <2>2. SameXids
    BY <1>4 DEF MarkXidDoneWrite, SameXids, OwesUnlog, XidCounted
  <2>3. GroupInv'
    BY <1>4, SMTT(30) DEF MarkXidDoneWrite, GroupInv, Live, LeaderPc
  <2>4. CheckPurgeInv'
    BY <1>4 DEF MarkXidDoneWrite, CheckPurgeInv, PcInv, FlushPc, ResetActive
  <2>5. BidInv'
    BY <1>4, <2>1, <2>2 DEF MarkXidDoneWrite, BidInv, SamePins, SameXids, PcInv, FlushPc, ResetActive,
       BackgroundPc
  <2>6. PinInv'
    BY <1>4, <2>1 DEF MarkXidDoneWrite, PinInv, SamePins
  <2>7. Counted'
    BY <1>4, <2>1, <2>2, SameCounted DEF MarkXidDoneWrite, SameAsked
  <2>8. ListInv'
    BY <1>4 DEF MarkXidDoneWrite, ListInv
  <2> QED BY <2>3, <2>4, <2>5, <2>6, <2>7, <2>8
<1>5. CASE MarkXidDonePos(r)
  <2>1. /\ pc[r] = "markPos" /\ pc' = [pc EXCEPT ![r] = resume[r]]
        /\ UNCHANGED <<resume, bid, group, checkPurge, current, listHead, xidCount, requests,
                       notified, xidFile, failed>>
    BY <1>5 DEF MarkXidDonePos
  <2>2. /\ r # Reset
        /\ r \in Trx => resume[r] \in {"done", "commit", "unlog"}
        /\ r \notin Trx => resume[r] = "idle"
    BY <2>1 DEF PcInv, ResetActive
  <2>3. SamePins
    BY <2>1, <2>2 DEF SamePins, Pins
  <2>4. SameXids
    <3>1. \A t \in Trx : OwesUnlog(t)' <=> OwesUnlog(t)
      <4> SUFFICES ASSUME NEW t \in Trx PROVE OwesUnlog(t)' <=> OwesUnlog(t)
        OBVIOUS
      <4>1. CASE t = r
        BY <2>1, <2>2, <4>1 DEF OwesUnlog, XidCounted
      <4>2. CASE t # r
        BY <2>1, <4>2 DEF OwesUnlog, XidCounted
      <4> QED BY <4>1, <4>2
    <3> QED BY <2>1, <3>1 DEF SameXids
  <2>5. pc'[r] \in {"done", "commit", "unlog", "idle"} /\ \A q \in Thread \ {r} : pc'[q] = pc[q]
    BY <2>1, <2>2
  <2>6. GroupInv'
    BY <2>1, <2>5, SameGroups DEF LeaderPc
  <2>7. CheckPurgeInv'
    BY <2>1, <2>2, <2>5 DEF CheckPurgeInv
  <2>8. BidInv'
    BY <2>1, <2>2, <2>3, <2>4, <2>5 DEF BidInv, SamePins, SameXids
  <2>9. PinInv'
    BY <2>1, <2>2, <2>3, <2>5 DEF PinInv, SamePins
  <2>10. Counted'
    BY <2>1, <2>3, <2>4, SameCounted DEF SameAsked
  <2>11. ListInv'
    BY <2>1 DEF ListInv
  <2> QED BY <2>6, <2>7, <2>8, <2>9, <2>10, <2>11
<1>6. CASE MarkXidDoneWriteClosed(r)
  BY <1>6, CrashAcc DEF MarkXidDoneWriteClosed
<1> QED BY <1>1, <1>2, <1>3, <1>4, <1>5, <1>6 DEF CheckpointStep

LEMMA FlushAcc ==
  ASSUME TypeInv, AccInv, FlushStart \/ FlushUnlock
  PROVE  AccInv'
<1> USE ConstantsAssumption
    DEF TypeInv, TypeOK, AccInv, Thread, threadVars, lockVars, listVars, engineVars, diskVars,
        endVars
<1>1. CASE FlushStart
  <2>1. SamePins
    BY <1>1 DEF FlushStart, SamePins, Pins, PcInv, TrxPc, FlushPc, ResetActive, BackgroundPc,
       CheckPurgeInv, GroupInv, LeaderPc
  <2>2. SameXids
    BY <1>1 DEF FlushStart, SameXids, OwesUnlog, XidCounted
  <2>3. GroupInv'
    BY <1>1 DEF FlushStart, GroupInv, Live, LeaderPc
  <2>4. CheckPurgeInv'
    BY <1>1 DEF FlushStart, CheckPurgeInv, PcInv, FlushPc, ResetActive
  <2>5. BidInv'
    BY <1>1, <2>1, <2>2 DEF FlushStart, BidInv, SamePins, SameXids, PcInv, FlushPc, ResetActive,
       BackgroundPc
  <2>6. PinInv'
    BY <1>1, <2>1 DEF FlushStart, PinInv, SamePins
  <2>7. Counted'
    BY <1>1, <2>1, <2>2, SameCounted DEF FlushStart, SameAsked
  <2>8. ListInv'
    BY <1>1 DEF FlushStart, ListInv
  <2> QED BY <2>3, <2>4, <2>5, <2>6, <2>7, <2>8
<1>2. CASE FlushUnlock
  <2>1. SamePins
    BY <1>2 DEF FlushUnlock, SamePins, Pins, PcInv, TrxPc, FlushPc, ResetActive, BackgroundPc,
       CheckPurgeInv, GroupInv, LeaderPc
  <2>2. SameXids
    BY <1>2 DEF FlushUnlock, SameXids, OwesUnlog, XidCounted
  <2>3. GroupInv'
    BY <1>2 DEF FlushUnlock, GroupInv, Live, LeaderPc
  <2>4. CheckPurgeInv'
    BY <1>2 DEF FlushUnlock, CheckPurgeInv, PcInv, FlushPc, ResetActive
  <2>5. BidInv'
    BY <1>2, <2>1, <2>2 DEF FlushUnlock, BidInv, SamePins, SameXids, PcInv, FlushPc, ResetActive,
       BackgroundPc
  <2>6. PinInv'
    BY <1>2, <2>1 DEF FlushUnlock, PinInv, SamePins
  <2>7. Counted'
    BY <1>2, <2>1, <2>2, SameCounted DEF FlushUnlock, SameAsked
  <2>8. ListInv'
    BY <1>2 DEF FlushUnlock, ListInv
  <2> QED BY <2>3, <2>4, <2>5, <2>6, <2>7, <2>8
<1> QED BY <1>1, <1>2

LEMMA EngineAcc ==
  ASSUME TypeInv, AccInv, NEW f \in File, EngineNotify(f) \/ BackgroundProcess(f) \/ PurgeLog(f)
  PROVE  AccInv'
<1> USE ConstantsAssumption
    DEF TypeInv, TypeOK, AccInv, Thread, threadVars, lockVars, listVars, engineVars, diskVars,
        endVars
<1>1. CASE EngineNotify(f)
  <2>1. SamePins
    BY <1>1 DEF EngineNotify, SamePins, Pins, PcInv, TrxPc, FlushPc, ResetActive, BackgroundPc,
       CheckPurgeInv, GroupInv, LeaderPc
  <2>2. SameXids
    BY <1>1 DEF EngineNotify, SameXids, OwesUnlog, XidCounted
  <2>3. GroupInv'
    BY <1>1 DEF EngineNotify, GroupInv, Live, LeaderPc
  <2>4. CheckPurgeInv'
    BY <1>1 DEF EngineNotify, CheckPurgeInv, PcInv, FlushPc, ResetActive
  <2>5. BidInv'
    BY <1>1, <2>1, <2>2 DEF EngineNotify, BidInv, SamePins, SameXids, PcInv, FlushPc, ResetActive,
       BackgroundPc
  <2>6. PinInv'
    BY <1>1, <2>1 DEF EngineNotify, PinInv, SamePins
  <2>7. Counted'
    BY <1>1, <2>1, <2>2, SameCounted DEF EngineNotify, SameAsked
  <2>8. ListInv'
    BY <1>1 DEF EngineNotify, ListInv
  <2> QED BY <2>3, <2>4, <2>5, <2>6, <2>7, <2>8
<1>2. CASE BackgroundProcess(f)
  <2>1. /\ f \in notified /\ notified' = notified \ {f}
        /\ xidCount' = [xidCount EXCEPT ![f] = @ - 1]
        /\ UNCHANGED <<bid, group, checkPurge, current, listHead, requests, xidFile, failed>>
    BY <1>2 DEF BackgroundProcess, MarkXidDone
  <2>2. /\ pc[Background] = "idle"
        /\ \E next \in {"idle", "markWait"} : pc' = [pc EXCEPT ![Background] = next]
        /\ resume' = [resume EXCEPT ![Background] = "idle"]
    BY <1>2 DEF BackgroundProcess, MarkXidDone
  <2>3. /\ \A q \in Thread \ {Background} : pc'[q] = pc[q] /\ resume'[q] = resume[q]
        /\ pc'[Background] \in {"idle", "markWait"}
    BY <2>2
  <2>4. SamePins
    BY <2>1, <2>2, <2>3 DEF SamePins, Pins
  <2>5. SameXids
    BY <2>1, <2>3 DEF SameXids, OwesUnlog, XidCounted
  <2>6. GroupInv'
    BY <2>1, <2>3, SameGroups
  <2>7. CheckPurgeInv'
    BY <2>1, <2>3 DEF CheckPurgeInv
  <2>8. BidInv'
    <3>1. \A q \in Thread : q = Background \/ pc'[q] = pc[q]
      BY <2>3
    <3>2. ~Pins(Background)
      BY <2>2 DEF Pins, CheckPurgeInv
    <3> QED BY <2>1, <2>3, <2>4, <2>5, <3>1, <3>2 DEF BidInv, SamePins, SameXids
  <2>9. PinInv'
    BY <2>1, <2>2, <2>3, <2>4 DEF PinInv, SamePins
  <2>10. Counted'
    <3>1. (requests \cup notified)' = (requests \cup notified) \ {f}
      BY <2>1 DEF PinInv
    <3> QED BY <2>1, <2>4, <2>5, <3>1, DropAsked
  <2>11. ListInv'
    <3>1. f \in listHead..current
      BY <2>1, HeldInList
    <3> QED BY <2>1, <3>1 DEF ListInv
  <2> QED BY <2>6, <2>7, <2>8, <2>9, <2>10, <2>11
<1>3. CASE PurgeLog(f)
  <2>1. SamePins
    BY <1>3 DEF PurgeLog, SamePins, Pins, PcInv, TrxPc, FlushPc, ResetActive, BackgroundPc,
       CheckPurgeInv, GroupInv, LeaderPc
  <2>2. SameXids
    BY <1>3 DEF PurgeLog, SameXids, OwesUnlog, XidCounted
  <2>3. GroupInv'
    BY <1>3 DEF PurgeLog, GroupInv, Live, LeaderPc
  <2>4. CheckPurgeInv'
    BY <1>3 DEF PurgeLog, CheckPurgeInv, PcInv, FlushPc, ResetActive
  <2>5. BidInv'
    BY <1>3, <2>1, <2>2 DEF PurgeLog, BidInv, SamePins, SameXids, PcInv, FlushPc, ResetActive,
       BackgroundPc
  <2>6. PinInv'
    BY <1>3, <2>1 DEF PurgeLog, PinInv, SamePins
  <2>7. Counted'
    BY <1>3, <2>1, <2>2, SameCounted DEF PurgeLog, SameAsked
  <2>8. ListInv'
    BY <1>3 DEF PurgeLog, ListInv
  <2> QED BY <2>3, <2>4, <2>5, <2>6, <2>7, <2>8
<1> QED BY <1>1, <1>2, <1>3

LEMMA ResetAcc ==
  ASSUME TypeInv, AccInv, ResetStep
  PROVE  AccInv'
<1> USE ConstantsAssumption
    DEF TypeInv, TypeOK, AccInv, Thread, threadVars, lockVars, listVars, engineVars, diskVars,
        endVars
<1>1. CASE ResetStart
  <2>1. SamePins
    BY <1>1 DEF ResetStart, SamePins, Pins, PcInv, TrxPc, FlushPc, ResetActive, BackgroundPc,
       CheckPurgeInv, GroupInv, LeaderPc
  <2>2. SameXids
    BY <1>1 DEF ResetStart, SameXids, OwesUnlog, XidCounted
  <2>3. GroupInv'
    BY <1>1 DEF ResetStart, GroupInv, Live, LeaderPc
  <2>4. CheckPurgeInv'
    BY <1>1 DEF ResetStart, CheckPurgeInv, PcInv, FlushPc, ResetActive
  <2>5. BidInv'
    BY <1>1, <2>1, <2>2 DEF ResetStart, BidInv, SamePins, SameXids, PcInv, FlushPc, ResetActive,
       BackgroundPc
  <2>6. PinInv'
    BY <1>1, <2>1 DEF ResetStart, PinInv, SamePins
  <2>7. Counted'
    BY <1>1, <2>1, <2>2, SameCounted DEF ResetStart, SameAsked
  <2>8. ListInv'
    BY <1>1 DEF ResetStart, ListInv
  <2> QED BY <2>3, <2>4, <2>5, <2>6, <2>7, <2>8
<1>2. CASE ResetNoWaiters
  <2>1. SamePins
    BY <1>2 DEF ResetNoWaiters, SamePins, Pins, PcInv, TrxPc, FlushPc, ResetActive, BackgroundPc,
       CheckPurgeInv, GroupInv, LeaderPc
  <2>2. SameXids
    BY <1>2 DEF ResetNoWaiters, SameXids, OwesUnlog, XidCounted
  <2>3. GroupInv'
    BY <1>2 DEF ResetNoWaiters, GroupInv, Live, LeaderPc
  <2>4. CheckPurgeInv'
    BY <1>2 DEF ResetNoWaiters, CheckPurgeInv, PcInv, FlushPc, ResetActive
  <2>5. BidInv'
    BY <1>2, <2>1, <2>2 DEF ResetNoWaiters, BidInv, SamePins, SameXids, PcInv, FlushPc, ResetActive,
       BackgroundPc
  <2>6. PinInv'
    BY <1>2, <2>1 DEF ResetNoWaiters, PinInv, SamePins
  <2>7. Counted'
    BY <1>2, <2>1, <2>2, SameCounted DEF ResetNoWaiters, SameAsked
  <2>8. ListInv'
    BY <1>2 DEF ResetNoWaiters, ListInv
  <2> QED BY <2>3, <2>4, <2>5, <2>6, <2>7, <2>8
<1>3. CASE ResetLock
  <2>1. SamePins
    BY <1>3 DEF ResetLock, SamePins, Pins, PcInv, TrxPc, FlushPc, ResetActive, BackgroundPc,
       CheckPurgeInv, GroupInv, LeaderPc
  <2>2. SameXids
    BY <1>3 DEF ResetLock, SameXids, OwesUnlog, XidCounted
  <2>3. GroupInv'
    BY <1>3 DEF ResetLock, GroupInv, Live, LeaderPc
  <2>4. CheckPurgeInv'
    BY <1>3 DEF ResetLock, CheckPurgeInv, PcInv, FlushPc, ResetActive
  <2>5. BidInv'
    BY <1>3, <2>1, <2>2 DEF ResetLock, BidInv, SamePins, SameXids, PcInv, FlushPc, ResetActive,
       BackgroundPc
  <2>6. PinInv'
    BY <1>3, <2>1 DEF ResetLock, PinInv, SamePins
  <2>7. Counted'
    BY <1>3, <2>1, <2>2, SameCounted DEF ResetLock, SameAsked
  <2>8. ListInv'
    BY <1>3 DEF ResetLock, ListInv
  <2> QED BY <2>3, <2>4, <2>5, <2>6, <2>7, <2>8
<1>4. CASE ResetChainAbs
  <2>1. SamePins
    BY <1>4 DEF ResetChainAbs, SamePins, Pins, PcInv, TrxPc, FlushPc, ResetActive, BackgroundPc,
       CheckPurgeInv, GroupInv, LeaderPc
  <2>2. SameXids
    BY <1>4 DEF ResetChainAbs, SameXids, OwesUnlog, XidCounted
  <2>3. GroupInv'
    BY <1>4 DEF ResetChainAbs, GroupInv, Live, LeaderPc
  <2>4. CheckPurgeInv'
    BY <1>4 DEF ResetChainAbs, CheckPurgeInv, PcInv, FlushPc, ResetActive
  <2>5. BidInv'
    BY <1>4, <2>1, <2>2 DEF ResetChainAbs, BidInv, SamePins, SameXids, PcInv, FlushPc, ResetActive,
       BackgroundPc
  <2>6. PinInv'
    BY <1>4, <2>1 DEF ResetChainAbs, PinInv, SamePins
  <2>7. Counted'
    BY <1>4, <2>1, <2>2, SameCounted DEF ResetChainAbs, SameAsked
  <2>8. ListInv'
    BY <1>4 DEF ResetChainAbs, ListInv
  <2> QED BY <2>3, <2>4, <2>5, <2>6, <2>7, <2>8
<1>5. CASE ResetChainCo
  <2>1. /\ pc[Reset] = "wantCo" /\ pc' = [pc EXCEPT ![Reset] = "request"]
        /\ xidCount' = [xidCount EXCEPT ![current] = @ + 1]
        /\ bid' = [bid EXCEPT ![Reset] = current]
        /\ UNCHANGED <<resume, group, checkPurge, current, listHead, requests, notified, xidFile, failed>>
    BY <1>5 DEF ResetChainCo
  <2>2. /\ ~Pins(Reset)
        /\ \A q \in Thread \ {Reset} : pc[q] \notin {"log", "rotate", "open", "link"}
    BY <2>1 DEF Pins, LogInv, InLog, CheckPurgeInv
  <2>3. \A q \in Thread : /\ Pins(q)' <=> Pins(q) \/ q = Reset
                          /\ Pins(q) => bid'[q] = bid[q]
    BY <2>1, <2>2 DEF Pins
  <2>4. SameXids
    BY <2>1 DEF SameXids, OwesUnlog, XidCounted
  <2>5. GroupInv'
    <3>1. \A t \in Trx : pc'[t] = pc[t] /\ bid'[t] = bid[t]
      BY <2>1
    <3> QED BY <2>1, <3>1, SameGroups
  <2>6. CheckPurgeInv'
    BY <2>1 DEF CheckPurgeInv
  <2>7. BidInv'
    BY <2>1, <2>2, <2>3, <2>4 DEF BidInv, SameXids
  <2>8. PinInv'
    <3>1. \A q \in Thread \ {Reset} : Pins(q) => bid[q] < current
      BY <2>2 DEF BidInv
    <3>2. \A f \in requests \cup notified : f < current
      BY <2>1 DEF PinInv
    <3>3. current \in Int
      BY DEF File
    <3>4. (\A q, s \in Thread : q # s /\ Pins(q) /\ Pins(s) => bid[q] # bid[s])'
      <4> SUFFICES ASSUME NEW q \in Thread, NEW s \in Thread, q # s, Pins(q)', Pins(s)'
                   PROVE  bid'[q] # bid'[s]
        OBVIOUS
      <4>1. CASE q # Reset /\ s # Reset
        BY <2>3, <4>1 DEF PinInv
      <4>2. CASE q = Reset
        <5>1. bid'[s] < current /\ bid'[q] = current
          BY <2>1, <2>3, <3>1, <4>2
        <5> QED BY <3>3, <5>1
      <4>3. CASE s = Reset
        <5>1. bid'[q] < current /\ bid'[s] = current
          BY <2>1, <2>3, <3>1, <4>3
        <5> QED BY <3>3, <5>1
      <4> QED BY <4>1, <4>2, <4>3
    <3>5. (\A q \in Thread :
             Pins(q) /\ pc[q] # "requested" => bid[q] \notin requests \cup notified)'
      BY <2>1, <2>2, <2>3, <3>2, <3>3 DEF PinInv
    <3> QED BY <2>1, <3>2, <3>4, <3>5 DEF PinInv
  <2>9. Counted'
    BY <2>1, <2>2, <2>3, <2>4, AddPin DEF SameAsked
  <2>10. ListInv'
    <3>1. current \in listHead..current
      BY DEF File
    <3> QED BY <2>1, <3>1 DEF ListInv
  <2> QED BY <2>5, <2>6, <2>7, <2>8, <2>9, <2>10
<1>6. CASE ResetReopen
  <2>1. /\ pc[Reset] = "drain" /\ pc' = [pc EXCEPT ![Reset] = "done"]
        /\ current' = current + 1 /\ listHead' = current + 1
        /\ \A f \in listHead..current : xidCount[f] = 0
        /\ UNCHANGED <<resume, bid, group, checkPurge, xidCount, requests, notified, xidFile, failed>>
    BY <1>6 DEF ResetReopen
  <2>2. \A q \in Thread \ {Reset} : pc[q] \notin {"log", "rotate", "open", "link"}
    BY <2>1 DEF LogInv, InLog
  <2>3. SamePins
    BY <2>1 DEF SamePins, Pins
  <2>4. SameXids
    BY <2>1 DEF SameXids, OwesUnlog, XidCounted
  <2>5. GroupInv'
    <3>1. \A t \in Trx : pc'[t] = pc[t]
      BY <2>1
    <3> QED BY <2>1, <3>1, SameGroups
  <2>6. CheckPurgeInv'
    BY <2>1 DEF CheckPurgeInv
  <2>7. BidInv'
    <3>1. current \in Int /\ bid \in [Thread -> Int]
      BY DEF File
    <3>2. \A q \in Thread \ {Reset} : Pins(q)' => bid[q] < current + 1
      <4> SUFFICES ASSUME NEW q \in Thread \ {Reset}, Pins(q) PROVE bid[q] < current + 1
        BY <2>3 DEF SamePins
      <4>1. bid[q] < current
        BY <2>2 DEF BidInv
      <4> QED BY <3>1, <4>1
    <3>3. \A u \in Trx : OwesUnlog(u)' => bid[u] <= current + 1
      <4> SUFFICES ASSUME NEW u \in Trx, OwesUnlog(u) PROVE bid[u] <= current + 1
        BY <2>4 DEF SameXids
      <4>1. bid[u] <= current
        BY DEF BidInv
      <4> QED BY <3>1, <4>1
    <3> QED BY <2>1, <2>2, <3>2, <3>3 DEF BidInv
  <2>8. PinInv'
    <3>1. (\A f \in requests \cup notified : f < current)'
      <4> SUFFICES ASSUME NEW f \in requests \cup notified PROVE f < current + 1
        BY <2>1
      <4>1. f < current \/ f = current
        BY DEF PinInv
      <4> QED BY <4>1 DEF File
    <3> QED BY <2>1, <2>3, <3>1 DEF PinInv, SamePins
  <2>9. Counted'
    BY <2>1, <2>3, <2>4, SameCounted DEF SameAsked
  <2>10. ListInv'
    BY <2>1 DEF ListInv
  <2> QED BY <2>5, <2>6, <2>7, <2>8, <2>9, <2>10
<1> QED BY <1>1, <1>2, <1>3, <1>4, <1>5, <1>6 DEF ResetStep

LEMMA InitPrepared == Init => PreparedInv
BY ConstantsAssumption DEF Init, PreparedInv, Thread

LEMMA InitAcc == Init => AccInv
<1> SUFFICES ASSUME Init PROVE AccInv
  OBVIOUS
<1> USE ConstantsAssumption DEF Init, Thread
<1>1. (\A r \in Thread : ~Pins(r)) /\ (\A t \in Trx : ~OwesUnlog(t))
  BY DEF Pins, OwesUnlog, XidCounted
<1>2. GroupInv /\ CheckPurgeInv
  BY DEF GroupInv, CheckPurgeInv, LeaderPc
<1>3. BidInv /\ PinInv
  BY <1>1 DEF BidInv, PinInv
<1>4. Counted
  <2> SUFFICES ASSUME NEW f \in File
               PROVE  xidCount[f] = Cardinality(Xids(f)) + Cardinality(Pinners(f))
                                      + Cardinality(Asked(f))
    BY DEF Counted
  <2>1. Xids(f) = {} /\ Pinners(f) = {} /\ Asked(f) = {}
    BY <1>1 DEF Xids, Pinners, Asked
  <2> QED BY <2>1, FS_EmptySet
<1>5. ListInv
  BY DEF ListInv
<1> QED BY <1>2, <1>3, <1>4, <1>5 DEF AccInv

\* The invariant is inductive.
LEMMA NextAcc == TypeInv /\ AccInv /\ PreparedInv /\ [Next]_vars => AccInv'
<1> SUFFICES ASSUME TypeInv, AccInv, PreparedInv, [Next]_vars PROVE AccInv'
  OBVIOUS
<1>1. CASE ServerStep
  BY <1>1, CommitAcc, RotateAcc, CheckpointAcc, FlushAcc, EngineAcc, ResetAcc DEF ServerStep
<1>2. CASE RecoverAbort \/ CrashRecover
  BY <1>2, CrashAcc DEF RecoverAbort
<1>3. CASE UNCHANGED vars
  <2>1. /\ UNCHANGED <<pc, resume, bid, group, checkPurge, current, listHead, xidCount,
                       requests, notified, xidFile, failed>>
    BY <1>3 DEF vars, threadVars, listVars, engineVars, diskVars, endVars
  <2>2. SamePins /\ SameXids /\ SameAsked
    BY <2>1 DEF SamePins, SameXids, SameAsked, Pins, OwesUnlog, XidCounted
  <2>3. GroupInv' /\ CheckPurgeInv' /\ ListInv'
    BY <2>1 DEF AccInv, GroupInv, Live, CheckPurgeInv, ListInv
  <2>4. BidInv' /\ PinInv'
    BY <2>1, <2>2 DEF AccInv, BidInv, PinInv, SamePins, SameXids
  <2>5. Counted'
    BY <2>1, <2>2, SameCounted DEF AccInv
  <2> QED BY <2>3, <2>4, <2>5 DEF AccInv
<1> QED BY <1>1, <1>2, <1>3 DEF Next, Idle

\* In every reachable state xid_count of a file is the number of XIDs, rotations
\* and commit checkpoint requests outstanding for it: mark_xid_done() is called
\* once for every count that mark_xids_active(), rotate(), reset_logs() and
\* do_checkpoint_request() add, on every path, with crashes in between.
THEOREM XidAccountingHolds == Spec => []XidAccounting
<1>1. Init => TypeInv /\ AccInv /\ PreparedInv
  BY InitTypeInv, InitAcc, InitPrepared
<1>2. TypeInv /\ AccInv /\ PreparedInv /\ [Next]_vars => (TypeInv /\ AccInv /\ PreparedInv)'
  BY NextTypeInv, NextAcc, NextPrepared
<1>3. AccInv => XidAccounting
  BY CountedIsAccounting DEF AccInv
<1> QED BY <1>1, <1>2, <1>3, PTL DEF Spec

\* In every reachable state a file that anyone has a count on is still in
\* binlog_xid_count_list: the DBUG_ASSERT(b) of mark_xids_active(),
\* mark_xid_done() and do_checkpoint_request() hold.
THEOREM EntryInListHolds == Spec => []EntryInList
<1>1. Init => TypeInv /\ AccInv /\ PreparedInv
  BY InitTypeInv, InitAcc, InitPrepared
<1>2. TypeInv /\ AccInv /\ PreparedInv /\ [Next]_vars => (TypeInv /\ AccInv /\ PreparedInv)'
  BY NextTypeInv, NextAcc, NextPrepared
<1>3. TypeInv /\ AccInv => EntryInList
  <2> SUFFICES ASSUME TypeInv, AccInv, NEW f \in File, Holders(f) # {}
               PROVE  f \in listHead..current
    BY DEF EntryInList
  <2>1. \/ \E t \in Trx : OwesUnlog(t) /\ bid[t] = f
        \/ \E r \in Thread : Pins(r) /\ bid[r] = f
        \/ f \in requests \cup notified
    BY DEF Holders
  <2> QED BY <2>1, HeldInList DEF TypeInv, AccInv
<1> QED BY <1>1, <1>2, <1>3, PTL DEF Spec

=============================================================================
