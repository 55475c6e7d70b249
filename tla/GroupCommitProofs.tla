-------------------------- MODULE GroupCommitProofs --------------------------
(***************************************************************************)
(* Proofs about GroupCommit: the invariants that its runs check hold for   *)
(* every set of transactions, workers and failures.                        *)
(*                                                                         *)
(* The inductive invariant Inv says where an entry may be.  An entry that  *)
(* was put in the queue is Settled: its owner never queues it again.  As   *)
(* long as it is in the queue or in a group that a leader still has to     *)
(* commit, its owner is Parked: it sleeps and nobody is waking it up.  The *)
(* other parts say who holds which mutex, which lists a waiter is in, and  *)
(* how the next pointers link the members of a group.                      *)
(***************************************************************************)
EXTENDS GroupCommit, SequenceOrderProofs

-----------------------------------------------------------------------------
(* The inductive invariant                                                 *)

WalkPcs == {"walk", "walkError"}
WaitPcs == {"wait", "wait2", "kill"}
LeaderPcs == {"write", "written", "sync", "reserve", "reserveWait", "commit", "wake"}
EndPcs == {"wfp", "wfpError", "wfpWait", "wfpWait2", "wfpKill", "finish", "finishWake", "done"}

\* What is in the queue, or will be once the traversal in progress ends.
Line == queue \o pending
Queued == ToSet(Line)
InGroup(x) == \E l \in Trx : x \in ToSet(group[l])
InWalk(x) == \E t \in Trx : x \in ToSet(walk[t])

\* What the place of a thread says about its own variables.
PcOk(t) ==
  /\ At(t) \in {"start", "run", "finish", "finishWake"} => t \in Workers
  /\ pc[t] \in WalkPcs => walkThen[t] \in {"wake", "commit", "chain", "return", "done"}
  /\ pc[t] \notin WalkPcs => walk[t] = <<>>
  /\ pc[t] = "walkError" => walk[t] # <<>>
  /\ At(t) = "wake" => group[t] # <<>>
  /\ group[t] # <<>> => At(t) \in LeaderPcs
  /\ At(t) \in {"commit", "wake"} => OptimizeThreadScheduling
  /\ At(t) \in {"reserve", "reserveWait", "own", "chain"} => ~OptimizeThreadScheduling
  /\ result[t] # "none" => At(t) \in EndPcs
  /\ opaque[t] => pc[t] = "wait"

PcInv == \A t \in Trx : PcOk(t)

\* The places where a thread holds the four mutexes of the binlog.
Holds(t) ==
  /\ pc[t] = "enqueue" <=> lockPrepare = t
  /\ pc[t] \in {"write", "written"} <=> lockLog = t
  /\ pc[t] = "sync" <=> lockAbs = t
  /\ At(t) \in {"commit", "wake", "reserve", "own"} <=> lockCo = t

MutexInv ==
  /\ \A t \in Trx : Holds(t)
  /\ pending = <<>> <=> lockPrepare = None

\* The places where LOCK_wait_commit is held from one step to another.
WfcInv ==
  \A t \in Trx :
    /\ pc[t] \in {"kill", "wfpKill", "offer"} => wfcLock[t] = t /\ waitee[t] # None
    /\ pc[t] = "walkError" =>
         wfcLock[Head(walk[t])] = t /\ waitee[Head(walk[t])] = None

\* Who is in a list of waiters, or was taken from one, has registered.
SubInv ==
  /\ \A c \in Trx :
       /\ IsInjective(subsequent[c])
       /\ \A w \in ToSet(subsequent[c]) : waitee[w] = c /\ ~queuedByOther[w] /\ ~InWalk(w)
  /\ \A w \in Trx : waitee[w] # None \/ InWalk(w) => pc[w] # "start"

\* The owner of x does not queue it (again).
Settled(x) ==
  /\ pc[x] \notin {"start", "run", "check", "recheck", "offer"}
  /\ pc[x] \in WaitPcs \cup {"error"} => queuedByOther[x]

\* x is, or was, in the queue.
Entered(x) ==
  \/ queuedByOther[x] \/ nextEntry[x] # None \/ (\E t \in Trx : nextEntry[t] = x)
  \/ x \in Queued \/ InGroup(x) \/ x \in ToSet(binlog)

SettledInv == \A x \in Trx : Entered(x) => Settled(x)

\* No entry is queued, or written, twice.
DistinctInv ==
  /\ IsInjective(Line) /\ IsInjective(binlog) /\ ToSet(binlog) \cap Queued = {}
  /\ \A l \in Trx :
       /\ IsInjective(group[l]) /\ ToSet(group[l]) \cap Queued = {}
       /\ pc[l] = "write" => ToSet(group[l]) \cap ToSet(binlog) = {}
       /\ \A m \in Trx \ {l} : ToSet(group[l]) \cap ToSet(group[m]) = {}

\* The owner of x sleeps until a leader, or its predecessor, wakes it up.
Parked(x) ==
  IF queuedByOther[x] THEN waitee[x] # None /\ pc[x] \in WaitPcs /\ ~InWalk(x)
                      ELSE pc[x] = "follow" /\ ~wakeupReady[x]

MemberInv ==
  /\ \A x \in Queued : Parked(x) \/ (~queuedByOther[x] /\ pc[x] \in {"enqueue", "lead"})
  /\ \A l \in Trx : \A x \in ToSet(group[l]) : Parked(x) \/ (x = l /\ ~queuedByOther[l])
  /\ \A t \in Trx : pc[t] = "enqueue" => t \in Queued /\ ~queuedByOther[t] /\ ~wakeupReady[t]

\* The leader is the first of its group.
HeadInv ==
  \A t \in Trx :
    /\ pc[t] = "enqueue" /\ isLeader[t] => Head(Line) = t
    /\ pc[t] = "lead" => queue # <<>> /\ Head(queue) = t
    /\ pc[t] = "write" => group[t] # <<>> /\ Head(group[t]) = t

\* The next pointers stay within a group, and link all of it.
NextInv ==
  /\ \A t \in Trx : nextEntry[t] # None => t \notin Queued /\ nextEntry[t] \notin Queued
  /\ ~OptimizeThreadScheduling => \A l \in Trx :
       /\ \A t \in Trx : nextEntry[t] \in ToSet(group[l]) => t \in ToSet(group[l])
       /\ \A w \in ToSet(group[l]) : w = l \/ \E t \in ToSet(group[l]) : nextEntry[t] = w

\* A worker whose last wakeup has begun has no waiters and gets none.
FinishedInv ==
  \A c \in Workers :
    /\ At(c) = "done" => subsequent[c] = <<>>
    /\ At(c) \in {"finishWake", "done"} => c <= lastCommitted

\* Who will wake up a waiter.
ByChain(w) == ~OptimizeThreadScheduling /\ \E t \in Trx : nextEntry[t] = w /\ TurnPending(t)

KnownInv ==
  \A w \in Workers : waitee[w] # None =>
    \/ w \in ToSet(subsequent[waitee[w]])
    \/ InWalk(w)
    \/ queuedByOther[w] /\ (w \in Queued \/ InGroup(w) \/ ByChain(w))

\* The binlog, the group being written and the queue, one after the other.
Unwritten ==
  IF lockLog = None THEN <<>> ELSE IF pc[lockLog] = "write" THEN group[lockLog] ELSE <<>>
Written == binlog \o Unwritten
Log == Written \o queue

\* prepare_ordered() was called for all of them, in this order.
PrepInv ==
  /\ ToSet(Log) \cap UsesXa \subseteq ToSet(prepared)
  /\ \A a, b \in UsesXa : Before(Log, a, b) => Before(prepared, a, b)

Inv == /\ TypeOK /\ PcInv /\ MutexInv /\ WfcInv /\ SubInv /\ SettledInv /\ DistinctInv
       /\ MemberInv /\ HeadInv /\ NextInv /\ FinishedInv /\ KnownInv /\ PrepInv

-----------------------------------------------------------------------------
(* Constants                                                               *)

LEMMA Constants ==
  /\ None \notin Trx /\ Trx \subseteq Nat /\ Workers \subseteq Trx /\ Workers \subseteq Nat
  /\ UsesXa \subseteq Trx /\ 0 = None /\ WriteErrors \subseteq Trx
  BY ConstantsAssumption DEF None

LEMMA PriorType == \A t \in Trx : Prior(t) \in Workers \cup {None}
  BY DEF Prior

-----------------------------------------------------------------------------
(* Type correctness                                                        *)

LEMMA TypeInit == Init => TypeOK
<1> SUFFICES ASSUME Init PROVE TypeOK
  OBVIOUS
<1>1. TypePc
  BY Constants DEF Init, TypePc, PcValues
<1>2. TypeWfc
  BY Constants DEF Init, TypeWfc
<1>3. TypeEntry
  BY Constants DEF Init, TypeEntry
<1>4. TypeQueue
  BY Constants DEF Init, TypeQueue
<1>5. TypeLock
  BY Constants DEF Init, TypeLock
<1>6. TypeWalk
  BY Constants DEF Init, TypeWalk, PcValues
<1>7. TypeEnd
  BY Constants DEF Init, TypeEnd
<1>8. TypeLog
  BY Constants DEF Init, TypeLog
<1> QED BY <1>1, <1>2, <1>3, <1>4, <1>5, <1>6, <1>7, <1>8 DEF TypeOK

LEMMA WakeOwnerType ==
  ASSUME TypeWalk, TypeEntry, NEW t \in Trx, NEW e \in Trx, NEW err \in BOOLEAN,
         NEW then \in PcValues, WakeOwner(t, e, err, then)
  PROVE  TypeWalk'
<1> DEFINE s == <<e>>
<1>1. s \in Seq(Trx)
  OBVIOUS
<1>2. CASE queuedByOther[e]
  <2>1. /\ walk' = [walk EXCEPT ![t] = s]
        /\ walkFor' = [walkFor EXCEPT ![t] = None]
        /\ walkError' = [walkError EXCEPT ![t] = err]
        /\ walkThen' = [walkThen EXCEPT ![t] = then]
    BY <1>2 DEF WakeOwner
  <2> HIDE DEF s
  <2> QED BY <1>1, <2>1 DEF TypeWalk
<1>3. CASE ~queuedByOther[e]
  BY <1>3 DEF WakeOwner, TypeWalk, walkVars
<1> QED BY <1>2, <1>3

LEMMA TypeStep ==
  ASSUME TypeOK, PcInv, MutexInv, WfcInv, NEW t \in Trx, Step(t) \/ Kill(t)
  PROVE  TypeOK'
<1> USE Constants DEF Goto, wfcVars, entryVars, queueVars, lockVars, walkVars, endVars, logVars
<1>0. /\ TypePc /\ TypeWfc /\ TypeEntry /\ TypeQueue /\ TypeLock /\ TypeWalk /\ TypeEnd /\ TypeLog
  BY DEF TypeOK
<1>1. CASE Register(t)
  <2>1. TypePc'
    BY <1>0, <1>1 DEF TypePc, PcValues, Register
  <2>2. TypeWfc'
    <3>1. t \in Workers /\ Prior(t) \in Workers \cup {None} /\ lastCommitted \in Nat
      BY <1>0, <1>1, PriorType DEF PcInv, PcOk, At, WalkPcs, TypeEnd, Register
    <3> DEFINE r == Prior(t) > lastCommitted /\ ~running[Prior(t)]
    <3>2. r => Prior(t) \in Workers
      BY <3>1 DEF None
    <3>3. r => <<t>> \o subsequent[Prior(t)] \in Seq(Workers)
      BY <1>0, <3>1, <3>2, OrderConcat, OrderSingle DEF TypeWfc
    <3> QED BY <1>0, <1>1, <3>2, <3>3 DEF TypeWfc, Register
  <2> QED BY <1>0, <1>1, <2>1, <2>2 DEF TypeOK, TypeEntry, TypeQueue, TypeLock, TypeWalk,
           TypeEnd, TypeLog, Register
<1>2. CASE Execute(t)
  <2>1. TypePc'
    BY <1>0, <1>2 DEF TypePc, PcValues, Execute
  <2> QED BY <1>0, <1>2, <2>1 DEF TypeOK, TypeWfc, TypeEntry, TypeQueue, TypeLock, TypeWalk,
           TypeEnd, TypeLog, Execute
<1>3. CASE ExecuteFails(t)
  <2>1. TypePc'
    BY <1>0, <1>3 DEF TypePc, PcValues, ExecuteFails, Fail
  <2>2. TypeEntry'
    BY <1>0, <1>3 DEF TypeEntry, ExecuteFails, Fail
  <2>3. TypeEnd'
    BY <1>0, <1>3 DEF TypeEnd, ExecuteFails, Fail
  <2> QED BY <1>0, <1>3, <2>1, <2>2, <2>3 DEF TypeOK, TypeWfc, TypeQueue, TypeLock, TypeWalk,
           TypeLog, ExecuteFails, Fail
<1>4. CASE WfpQuickCheck(t)
  <2>1. TypePc'
    BY <1>0, <1>4 DEF TypePc, PcValues, WfpQuickCheck
  <2> QED BY <1>0, <1>4, <2>1 DEF TypeOK, TypeWfc, TypeEntry, TypeQueue, TypeLock, TypeWalk,
           TypeEnd, TypeLog, WfpQuickCheck
<1>5. CASE WfpQuickReturn(t)
  <2>1. TypePc'
    BY <1>0, <1>5 DEF TypePc, PcValues, WfpQuickReturn, WfpReturn
  <2>2. TypeEntry'
    BY <1>0, <1>5 DEF TypeEntry, WfpQuickReturn, WfpReturn
  <2>3. TypeEnd'
    BY <1>0, <1>5 DEF TypeEnd, WfpQuickReturn, WfpReturn
  <2> QED BY <1>0, <1>5, <2>1, <2>2, <2>3 DEF TypeOK, TypeWfc, TypeQueue, TypeLock, TypeWalk,
           TypeLog, WfpQuickReturn, WfpReturn
<1>6. CASE WfpWoken(t)
  <2>1. TypePc'
    BY <1>0, <1>6 DEF TypePc, PcValues, WfpWoken, WfpReturn
  <2>2. TypeEntry'
    BY <1>0, <1>6 DEF TypeEntry, WfpWoken, WfpReturn
  <2>3. TypeEnd'
    BY <1>0, <1>6 DEF TypeEnd, WfpWoken, WfpReturn
  <2> QED BY <1>0, <1>6, <2>1, <2>2, <2>3 DEF TypeOK, TypeWfc, TypeQueue, TypeLock, TypeWalk,
           TypeLog, WfpWoken, WfpReturn
<1>7. CASE WfpKilled(t)
  <2>1. TypePc'
    BY <1>0, <1>7 DEF TypePc, PcValues, WfpKilled
  <2>2. TypeWfc'
    BY <1>0, <1>7 DEF TypeWfc, WfpKilled
  <2> QED BY <1>0, <1>7, <2>1, <2>2 DEF TypeOK, TypeEntry, TypeQueue, TypeLock, TypeWalk,
           TypeEnd, TypeLog, WfpKilled
<1>8. CASE WfpKillIgnored(t)
  <2>1. TypePc'
    BY <1>0, <1>8 DEF TypePc, PcValues, WfpKillIgnored
  <2>2. TypeWfc'
    BY <1>0, <1>8 DEF TypeWfc, WfpKillIgnored
  <2> QED BY <1>0, <1>8, <2>1, <2>2 DEF TypeOK, TypeEntry, TypeQueue, TypeLock, TypeWalk,
           TypeEnd, TypeLog, WfpKillIgnored
<1>9. CASE WfpKillTaken(t)
  <2>1. TypePc'
    BY <1>0, <1>9 DEF TypePc, PcValues, WfpKillTaken, WfpReturn, Unregister
  <2>2. TypeWfc'
    <3>1. waitee[t] \in Workers
      BY <1>0, <1>9 DEF WfpKillTaken, WfcInv, TypeWfc
    <3>2. subsequent[waitee[t]] \in Seq(Workers)
      BY <1>0, <3>1 DEF TypeWfc
    <3>3. Keep(subsequent[waitee[t]], Trx \ {t}) \in Seq(Workers)
      BY <3>2, KeepOrder
    <3> QED BY <1>0, <1>9, <3>1, <3>3 DEF TypeWfc, WfpKillTaken, Unregister
  <2>3. TypeEntry'
    BY <1>0, <1>9 DEF TypeEntry, WfpKillTaken, WfpReturn, Unregister
  <2>4. TypeEnd'
    BY <1>0, <1>9 DEF TypeEnd, WfpKillTaken, WfpReturn, Unregister
  <2> QED BY <1>0, <1>9, <2>1, <2>2, <2>3, <2>4 DEF TypeOK, TypeQueue, TypeLock, TypeWalk,
           TypeLog, WfpKillTaken, WfpReturn, Unregister
<1>10. CASE QueueQuickCheck(t)
  <2>1. TypePc'
    BY <1>0, <1>10 DEF TypePc, PcValues, QueueQuickCheck
  <2> QED BY <1>0, <1>10, <2>1 DEF TypeOK, TypeWfc, TypeEntry, TypeQueue, TypeLock, TypeWalk,
           TypeEnd, TypeLog, QueueQuickCheck
<1>11. CASE QueueRecheck(t)
  <2>1. TypePc'
    BY <1>0, <1>11 DEF TypePc, PcValues, QueueRecheck
  <2>2. TypeWfc'
    BY <1>0, <1>11 DEF TypeWfc, QueueRecheck
  <2> QED BY <1>0, <1>11, <2>1, <2>2 DEF TypeOK, TypeEntry, TypeQueue, TypeLock, TypeWalk,
           TypeEnd, TypeLog, QueueRecheck
<1>40. CASE QueueOffer(t)
  <2>1. TypePc'
    BY <1>0, <1>40 DEF TypePc, PcValues, QueueOffer
  <2>2. TypeWfc'
    BY <1>0, <1>40 DEF TypeWfc, QueueOffer
  <2> QED BY <1>0, <1>40, <2>1, <2>2 DEF TypeOK, TypeEntry, TypeQueue, TypeLock, TypeWalk,
           TypeEnd, TypeLog, QueueOffer
<1>12. CASE QueueWoken(t)
  <2>1. TypePc'
    BY <1>0, <1>12 DEF TypePc, PcValues, QueueWoken
  <2>2. TypeWfc'
    BY <1>0, <1>12 DEF TypeWfc, QueueWoken
  <2> QED BY <1>0, <1>12, <2>1, <2>2 DEF TypeOK, TypeEntry, TypeQueue, TypeLock, TypeWalk,
           TypeEnd, TypeLog, QueueWoken
<1>13. CASE QueueKilled(t)
  <2>1. TypePc'
    BY <1>0, <1>13 DEF TypePc, PcValues, QueueKilled
  <2>2. TypeWfc'
    BY <1>0, <1>13 DEF TypeWfc, QueueKilled
  <2> QED BY <1>0, <1>13, <2>1, <2>2 DEF TypeOK, TypeEntry, TypeQueue, TypeLock, TypeWalk,
           TypeEnd, TypeLog, QueueKilled
<1>14. CASE QueueKillIgnored(t)
  <2>1. TypePc'
    BY <1>0, <1>14 DEF TypePc, PcValues, QueueKillIgnored
  <2>2. TypeWfc'
    BY <1>0, <1>14 DEF TypeWfc, QueueKillIgnored
  <2> QED BY <1>0, <1>14, <2>1, <2>2 DEF TypeOK, TypeEntry, TypeQueue, TypeLock, TypeWalk,
           TypeEnd, TypeLog, QueueKillIgnored
<1>15. CASE QueueKillTaken(t)
  <2>1. TypePc'
    BY <1>0, <1>15 DEF TypePc, PcValues, QueueKillTaken, Fail, Unregister
  <2>2. TypeWfc'
    <3>1. waitee[t] \in Workers
      BY <1>0, <1>15 DEF QueueKillTaken, WfcInv, TypeWfc
    <3>2. subsequent[waitee[t]] \in Seq(Workers)
      BY <1>0, <3>1 DEF TypeWfc
    <3>3. Keep(subsequent[waitee[t]], Trx \ {t}) \in Seq(Workers)
      BY <3>2, KeepOrder
    <3> QED BY <1>0, <1>15, <3>1, <3>3 DEF TypeWfc, QueueKillTaken, Unregister
  <2>3. TypeEntry'
    BY <1>0, <1>15 DEF TypeEntry, QueueKillTaken, Fail, Unregister
  <2>4. TypeEnd'
    BY <1>0, <1>15 DEF TypeEnd, QueueKillTaken, Fail, Unregister
  <2> QED BY <1>0, <1>15, <2>1, <2>2, <2>3, <2>4 DEF TypeOK, TypeQueue, TypeLock, TypeWalk,
           TypeLog, QueueKillTaken, Fail, Unregister
<1>16. CASE QueueByOther(t)
  <2>1. TypePc'
    BY <1>0, <1>16 DEF TypePc, PcValues, QueueByOther
  <2> QED BY <1>0, <1>16, <2>1 DEF TypeOK, TypeWfc, TypeEntry, TypeQueue, TypeLock, TypeWalk,
           TypeEnd, TypeLog, QueueByOther
<1>17. CASE QueuePriorFailed(t)
  <2>1. TypePc'
    BY <1>0, <1>17 DEF TypePc, PcValues, QueuePriorFailed, Fail
  <2>2. TypeEntry'
    BY <1>0, <1>17 DEF TypeEntry, QueuePriorFailed, Fail
  <2>3. TypeEnd'
    BY <1>0, <1>17 DEF TypeEnd, QueuePriorFailed, Fail
  <2> QED BY <1>0, <1>17, <2>1, <2>2, <2>3 DEF TypeOK, TypeWfc, TypeQueue, TypeLock, TypeWalk,
           TypeLog, QueuePriorFailed, Fail
<1>18. CASE QueueLock(t)
  <2>1. TypePc'
    BY <1>0, <1>18 DEF TypePc, PcValues, QueueLock
  <2>2. TypeEntry'
    BY <1>0, <1>18 DEF TypeEntry, QueueLock
  <2>3. TypeQueue'
    BY <1>0, <1>18 DEF TypeQueue, QueueLock
  <2>4. TypeLock'
    BY <1>0, <1>18 DEF TypeLock, QueueLock
  <2> QED BY <1>0, <1>18, <2>1, <2>2, <2>3, <2>4 DEF TypeOK, TypeWfc, TypeWalk, TypeEnd,
           TypeLog, QueueLock
<1>19. CASE QueueEntry(t)
  <2> DEFINE e == Head(pending)
             ready == Keep(subsequent[e], {w \in Trx : opaque[w]})
  <2>0. pc[t] = "enqueue" /\ pending # <<>> /\ pending \in Seq(Trx) /\ queue \in Seq(Trx)
    BY <1>0, <1>19 DEF QueueEntry, MutexInv, Holds, TypeQueue
  <2>a. e \in Trx /\ Tail(pending) \in Seq(Trx)
    BY <2>0, OrderTail
  <2>b. ready \in Seq(Trx) /\ ready \in Seq(Workers)
        /\ Keep(subsequent[e], {w \in Trx : ~opaque[w]}) \in Seq(Workers)
    <3>1. subsequent[e] \in Seq(Workers)
      BY <1>0, <2>a DEF TypeWfc
    <3>2. subsequent[e] \in Seq(Trx)
      BY <3>1, SeqMonotonic
    <3> QED BY <3>1, <3>2, KeepOrder
  <2>c. Tail(pending) \o ready \in Seq(Trx) /\ Tail(pending) \o <<>> \in Seq(Trx)
    BY <2>a, <2>b
  <2>1. TypePc'
    BY <1>0, <1>19 DEF TypePc, PcValues, QueueEntry
  <2>2. TypeWfc'
    <3>1. /\ commitStarted' = [commitStarted EXCEPT ![e] = e \in Workers]
          /\ subsequent' = [subsequent EXCEPT ![e] = Keep(subsequent[e], {w \in Trx : ~opaque[w]})]
          /\ UNCHANGED <<waitee, wakeupError, opaque, running, wfcLock>>
      BY <1>19 DEF QueueEntry
    <3> HIDE DEF e, ready
    <3> QED BY <1>0, <2>a, <2>b, <3>1 DEF TypeWfc
  <2>3. TypeEntry'
    BY <1>0, <1>19 DEF TypeEntry, QueueEntry
  <2>4. TypeQueue'
    BY <1>0, <1>19, <2>0, <2>a, <2>c DEF TypeQueue, QueueEntry
  <2>5. TypeLock'
    BY <1>0, <1>19 DEF TypeLock, QueueEntry
  <2>6. TypeLog'
    BY <1>0, <1>19, <2>a DEF TypeLog, QueueEntry
  <2> QED BY <1>0, <1>19, <2>1, <2>2, <2>3, <2>4, <2>5, <2>6 DEF TypeOK, TypeWalk, TypeEnd,
           QueueEntry
<1>20. CASE LeaderCollect(t)
  <2>1. TypePc'
    BY <1>0, <1>20 DEF TypePc, PcValues, LeaderCollect
  <2>2. TypeEntry'
    <3>1. queue \in Seq(Trx) /\ Len(queue) \in Nat /\ \A i \in 1..Len(queue) : queue[i] \in Trx
      BY <1>0 DEF TypeQueue
    <3>2. nextEntry' \in [Trx -> Trx \cup {None}]
      <4> SUFFICES ASSUME NEW x \in Trx PROVE nextEntry'[x] \in Trx \cup {None}
        BY <1>20 DEF LeaderCollect
      <4> DEFINE P(i) == i \in 1..Len(queue) - 1 /\ queue[i] = x
                 c == CHOOSE i \in 1..Len(queue) - 1 : queue[i] = x
      <4>1. CASE \E i \in 1..Len(queue) - 1 : queue[i] = x
        <5>1. c \in 1..Len(queue) - 1
          BY <4>1
        <5>2. 1 + c \in 1..Len(queue)
          BY <3>1, <5>1
        <5>3. nextEntry'[x] = queue[1 + c]
          BY <1>20, <4>1 DEF LeaderCollect
        <5> HIDE DEF c
        <5> QED BY <3>1, <5>2, <5>3
      <4>2. CASE ~ \E i \in 1..Len(queue) - 1 : queue[i] = x
        BY <1>0, <1>20, <4>2 DEF LeaderCollect, TypeEntry
      <4> QED BY <4>1, <4>2
    <3> QED BY <1>0, <1>20, <3>2 DEF TypeEntry, LeaderCollect
  <2>3. TypeQueue'
    BY <1>0, <1>20 DEF TypeQueue, LeaderCollect
  <2>4. TypeLock'
    BY <1>0, <1>20 DEF TypeLock, LeaderCollect
  <2> QED BY <1>0, <1>20, <2>1, <2>2, <2>3, <2>4 DEF TypeOK, TypeWfc, TypeWalk, TypeEnd,
           TypeLog, LeaderCollect
<1>21. CASE \E E \in SUBSET WriteErrors : \E H \in SUBSET WriteErrors : LeaderWrite(t, E, H)
  <2>1. TypePc'
    BY <1>0, <1>21 DEF TypePc, PcValues, LeaderWrite
  <2>2. TypeEntry'
    BY <1>0, <1>21 DEF TypeEntry, LeaderWrite
  <2>3. TypeLog'
    <3>1. PICK E \in SUBSET WriteErrors, H \in SUBSET WriteErrors : LeaderWrite(t, E, H)
      BY <1>21
    <3>2. group[t] \in Seq(Trx) /\ binlog \in Seq(Trx)
      BY <1>0 DEF TypeQueue, TypeLog
    <3>3. Keep(group[t], Trx \ E) \in Seq(Trx)
      BY <3>2, KeepOrder
    <3>4. binlog' = binlog \o Keep(group[t], Trx \ E) /\ UNCHANGED <<prepared, engine>>
      BY <3>1 DEF LeaderWrite
    <3> QED BY <1>0, <3>2, <3>3, <3>4, OrderConcat DEF TypeLog
  <2>4. UNCHANGED <<wfcVars, queueVars, lockVars, walkVars, endVars>>
    BY <1>21 DEF LeaderWrite
  <2>5. TypeWfc' /\ TypeQueue' /\ TypeLock'
    BY <1>0, <2>4 DEF TypeWfc, TypeQueue, TypeLock
  <2>6. TypeWalk' /\ TypeEnd'
    BY <1>0, <2>4 DEF TypeWalk, TypeEnd
  <2> QED BY <2>1, <2>2, <2>3, <2>5, <2>6 DEF TypeOK
<1>22. CASE LeaderSync(t)
  <2>1. TypePc'
    BY <1>0, <1>22 DEF TypePc, PcValues, LeaderSync
  <2>2. TypeLock'
    BY <1>0, <1>22 DEF TypeLock, LeaderSync
  <2> QED BY <1>0, <1>22, <2>1, <2>2 DEF TypeOK, TypeWfc, TypeEntry, TypeQueue, TypeWalk,
           TypeEnd, TypeLog, LeaderSync
<1>23. CASE LeaderOrder(t)
  <2>1. TypePc'
    BY <1>0, <1>23 DEF TypePc, PcValues, LeaderOrder
  <2>2. TypeLock'
    BY <1>0, <1>23 DEF TypeLock, LeaderOrder
  <2> QED BY <1>0, <1>23, <2>1, <2>2 DEF TypeOK, TypeWfc, TypeEntry, TypeQueue, TypeWalk,
           TypeEnd, TypeLog, LeaderOrder
<1>24. CASE LeaderCommitOne(t)
  <2>0. Head(group[t]) \in Trx
    BY <1>0, <1>24, OrderTail DEF LeaderCommitOne, TypeQueue
  <2>a. subsequent[Head(group[t])] \in Seq(Workers) /\ subsequent[Head(group[t])] \in Seq(Trx)
    BY <1>0, <2>0, SeqMonotonic DEF TypeWfc
  <2>1. TypePc'
    BY <1>0, <1>24 DEF TypePc, PcValues, LeaderCommitOne, RunCommitOrdered, StartWakeup
  <2>2. TypeWfc'
    BY <1>0, <1>24, <2>0 DEF TypeWfc, LeaderCommitOne, StartWakeup
  <2>3. TypeWalk'
    BY <1>0, <1>24, <2>0, <2>a DEF TypeWalk, TypeEntry, PcValues, LeaderCommitOne, StartWakeup
  <2>4. TypeLog'
    BY <1>0, <1>24, <2>0 DEF TypeLog, LeaderCommitOne, RunCommitOrdered
  <2> QED BY <1>0, <1>24, <2>1, <2>2, <2>3, <2>4 DEF TypeOK, TypeEntry, TypeQueue, TypeLock,
           TypeEnd, LeaderCommitOne, RunCommitOrdered, StartWakeup
<1>25. CASE LeaderWakeOne(t)
  <2>0. Head(group[t]) \in Trx /\ Tail(group[t]) \in Seq(Trx)
    BY <1>0, <1>25, OrderTail DEF LeaderWakeOne, TypeQueue, PcInv, PcOk, At, WalkPcs
  <2>1. TypePc'
    BY <1>0, <1>25 DEF TypePc, PcValues, LeaderWakeOne, WakeOwner
  <2>2. TypeEntry'
    BY <1>0, <1>25 DEF TypeEntry, LeaderWakeOne, WakeOwner
  <2>3. TypeQueue'
    BY <1>0, <1>25, <2>0 DEF TypeQueue, LeaderWakeOne
  <2>4. TypeWalk'
    <3>1. CASE Head(group[t]) = t
      BY <1>0, <1>25, <3>1 DEF TypeWalk, LeaderWakeOne
    <3>2. CASE Head(group[t]) # t
      <4>1. entryError[Head(group[t])] \in BOOLEAN /\ "commit" \in PcValues
        BY <1>0, <2>0 DEF TypeEntry, PcValues
      <4>2. WakeOwner(t, Head(group[t]), entryError[Head(group[t])], "commit")
        BY <1>25, <3>2 DEF LeaderWakeOne
      <4> QED BY <1>0, <2>0, <4>1, <4>2, WakeOwnerType
    <3> QED BY <3>1, <3>2
  <2> QED BY <1>0, <1>25, <2>1, <2>2, <2>3, <2>4 DEF TypeOK, TypeWfc, TypeLock, TypeEnd,
           TypeLog, LeaderWakeOne, WakeOwner
<1>26. CASE LeaderDone(t)
  <2>1. TypePc'
    BY <1>0, <1>26 DEF TypePc, PcValues, LeaderDone
  <2>2. TypeLock'
    BY <1>0, <1>26 DEF TypeLock, LeaderDone
  <2> QED BY <1>0, <1>26, <2>1, <2>2 DEF TypeOK, TypeWfc, TypeEntry, TypeQueue, TypeWalk,
           TypeEnd, TypeLog, LeaderDone
<1>27. CASE ReserveWait(t)
  <2>1. TypePc'
    BY <1>0, <1>27 DEF TypePc, PcValues, ReserveWait
  <2>2. TypeLock'
    BY <1>0, <1>27 DEF TypeLock, ReserveWait
  <2> QED BY <1>0, <1>27, <2>1, <2>2 DEF TypeOK, TypeWfc, TypeEntry, TypeQueue, TypeWalk,
           TypeEnd, TypeLog, ReserveWait
<1>28. CASE Reserve(t)
  <2>1. TypePc'
    BY <1>0, <1>28 DEF TypePc, PcValues, Reserve
  <2>2. TypeQueue'
    BY <1>0, <1>28 DEF TypeQueue, Reserve
  <2>3. TypeLock'
    BY <1>0, <1>28 DEF TypeLock, Reserve
  <2> QED BY <1>0, <1>28, <2>1, <2>2, <2>3 DEF TypeOK, TypeWfc, TypeEntry, TypeWalk, TypeEnd,
           TypeLog, Reserve
<1>29. CASE Follow(t)
  <2>1. TypePc'
    BY <1>0, <1>29 DEF TypePc, PcValues, Follow
  <2>2. TypeLock'
    BY <1>0, <1>29 DEF TypeLock, Follow
  <2> QED BY <1>0, <1>29, <2>1, <2>2 DEF TypeOK, TypeWfc, TypeEntry, TypeQueue, TypeWalk,
           TypeEnd, TypeLog, Follow
<1>30. CASE OwnCommit(t)
  <2>1. TypePc'
    BY <1>0, <1>30 DEF TypePc, PcValues, OwnCommit, RunCommitOrdered, StartWakeup
  <2>2. TypeWfc'
    BY <1>0, <1>30 DEF TypeWfc, OwnCommit, RunCommitOrdered, StartWakeup
  <2>3. TypeLock'
    BY <1>0, <1>30 DEF TypeLock, OwnCommit, RunCommitOrdered, StartWakeup
  <2>4. TypeWalk'
    <3>1. subsequent[t] \in Seq(Trx)
      BY <1>0, SeqMonotonic DEF TypeWfc
    <3> QED BY <1>0, <1>30, <3>1 DEF TypeWalk, TypeEntry, PcValues, OwnCommit, StartWakeup
  <2>5. TypeLog'
    BY <1>0, <1>30 DEF TypeLog, OwnCommit, RunCommitOrdered, StartWakeup
  <2> QED BY <1>0, <1>30, <2>1, <2>2, <2>3, <2>4, <2>5 DEF TypeOK, TypeEntry, TypeQueue,
           TypeEnd, OwnCommit, RunCommitOrdered, StartWakeup
<1>31. CASE OwnWakeNext(t)
  <2>1. TypePc'
    BY <1>0, <1>31 DEF TypePc, PcValues, OwnWakeNext, WakeOwner
  <2>2. TypeEntry'
    BY <1>0, <1>31 DEF TypeEntry, OwnWakeNext, WakeOwner
  <2>3. TypeWalk'
    <3>1. CASE nextEntry[t] = None
      BY <1>0, <1>31, <3>1 DEF TypeWalk, OwnWakeNext
    <3>2. CASE nextEntry[t] # None
      <4>1. nextEntry[t] \in Trx /\ entryError[t] \in BOOLEAN /\ "return" \in PcValues
        BY <1>0, <3>2 DEF TypeEntry, PcValues
      <4>2. WakeOwner(t, nextEntry[t], entryError[t], "return")
        BY <1>31, <3>2 DEF OwnWakeNext
      <4> QED BY <1>0, <4>1, <4>2, WakeOwnerType
    <3> QED BY <3>1, <3>2
  <2> QED BY <1>0, <1>31, <2>1, <2>2, <2>3 DEF TypeOK, TypeWfc, TypeQueue, TypeLock, TypeEnd,
           TypeLog, OwnWakeNext, WakeOwner
<1>32. CASE WakeupWaitee(t)
  <2>1. TypePc'
    BY <1>0, <1>32 DEF TypePc, PcValues, WakeupWaitee
  <2>2. TypeWfc'
    BY <1>0, <1>32 DEF TypeWfc, WakeupWaitee
  <2> QED BY <1>0, <1>32, <2>1, <2>2 DEF TypeOK, TypeEntry, TypeQueue, TypeLock, TypeWalk,
           TypeEnd, TypeLog, WakeupWaitee
<1>33. CASE WakeupError(t)
  <2>0. Head(walk[t]) \in Trx /\ Tail(walk[t]) \in Seq(Trx)
    BY <1>0, <1>33, OrderTail DEF WakeupError, TypeWalk, PcInv, PcOk
  <2>1. TypePc'
    BY <1>0, <1>33 DEF TypePc, PcValues, WakeupError
  <2>2. TypeWfc'
    BY <1>0, <1>33, <2>0 DEF TypeWfc, TypeWalk, WakeupError
  <2>3. TypeWalk'
    BY <1>0, <1>33, <2>0 DEF TypeWalk, WakeupError
  <2> QED BY <1>0, <1>33, <2>1, <2>2, <2>3 DEF TypeOK, TypeEntry, TypeQueue, TypeLock, TypeEnd,
           TypeLog, WakeupError
<1>34. CASE EndWakeup(t)
  <2>1. TypePc'
    BY <1>0, <1>34 DEF TypePc, TypeWalk, EndWakeup
  <2>2. TypeWfc'
    BY <1>0, <1>34 DEF TypeWfc, EndWakeup
  <2> QED BY <1>0, <1>34, <2>1, <2>2 DEF TypeOK, TypeEntry, TypeQueue, TypeLock, TypeWalk,
           TypeEnd, TypeLog, EndWakeup
<1>35. CASE ReturnError(t)
  <2>1. TypePc'
    BY <1>0, <1>35 DEF TypePc, PcValues, ReturnError, Fail
  <2>2. TypeEntry'
    BY <1>0, <1>35 DEF TypeEntry, ReturnError, Fail
  <2>3. TypeEnd'
    BY <1>0, <1>35 DEF TypeEnd, ReturnError, Fail
  <2> QED BY <1>0, <1>35, <2>1, <2>2, <2>3 DEF TypeOK, TypeWfc, TypeQueue, TypeLock, TypeWalk,
           TypeLog, ReturnError, Fail
<1>36. CASE ReturnWait(t)
  <2>1. TypePc'
    BY <1>0, <1>36 DEF TypePc, PcValues, ReturnWait
  <2> QED BY <1>0, <1>36, <2>1 DEF TypeOK, TypeWfc, TypeEntry, TypeQueue, TypeLock, TypeWalk,
           TypeEnd, TypeLog, ReturnWait
<1>37. CASE FinishGroup(t)
  <2>1. TypePc'
    BY <1>0, <1>37 DEF TypePc, PcValues, FinishGroup
  <2>2. TypeEnd'
    BY <1>0, <1>37 DEF TypeEnd, FinishGroup, PcInv, PcOk, At, WalkPcs
  <2> QED BY <1>0, <1>37, <2>1, <2>2 DEF TypeOK, TypeWfc, TypeEntry, TypeQueue, TypeLock,
           TypeWalk, TypeLog, FinishGroup
<1>38. CASE FinishWake(t)
  <2>1. TypePc'
    BY <1>0, <1>38 DEF TypePc, PcValues, FinishWake, StartWakeup
  <2>2. TypeWfc'
    BY <1>0, <1>38 DEF TypeWfc, FinishWake, StartWakeup
  <2>3. TypeWalk'
    <3>1. subsequent[t] \in Seq(Trx)
      BY <1>0, SeqMonotonic DEF TypeWfc
    <3> QED BY <1>0, <1>38, <3>1 DEF TypeWalk, TypeEnd, PcValues, FinishWake, StartWakeup
  <2> QED BY <1>0, <1>38, <2>1, <2>2, <2>3 DEF TypeOK, TypeEntry, TypeQueue, TypeLock, TypeEnd,
           TypeLog, FinishWake, StartWakeup
<1>39. CASE Kill(t)
  <2>1. TypeEntry'
    BY <1>0, <1>39 DEF TypeEntry, Kill
  <2> QED BY <1>0, <1>39, <2>1 DEF TypeOK, TypePc, TypeWfc, TypeQueue, TypeLock, TypeWalk,
           TypeEnd, TypeLog, Kill
<1> QED BY <1>1, <1>2, <1>3, <1>4, <1>5, <1>6, <1>7, <1>8, <1>9, <1>10, <1>11, <1>12, <1>13, <1>14, <1>15, <1>16, <1>17, <1>18, <1>19, <1>20, <1>21, <1>22, <1>23, <1>24, <1>25, <1>26, <1>27, <1>28, <1>29, <1>30, <1>31, <1>32, <1>33, <1>34, <1>35, <1>36, <1>37, <1>38, <1>39, <1>40 DEF Step

-----------------------------------------------------------------------------
(* Places and mutexes                                                      *)

\* A step of t leaves alone what belongs to the other threads.
LEMMA Others ==
  ASSUME TypeOK, NEW t \in Trx, Step(t) \/ Kill(t), NEW x \in Trx, x # t
  PROVE  /\ pc'[x] = pc[x] /\ walk'[x] = walk[x] /\ walkThen'[x] = walkThen[x]
         /\ group'[x] = group[x] /\ result'[x] = result[x] /\ opaque'[x] = opaque[x]
         /\ At(x)' = At(x)
<1> USE Constants DEF Goto, wfcVars, entryVars, queueVars, lockVars, walkVars, endVars, logVars
<1>0. SUFFICES /\ pc'[x] = pc[x] /\ walk'[x] = walk[x] /\ walkThen'[x] = walkThen[x]
               /\ group'[x] = group[x] /\ result'[x] = result[x] /\ opaque'[x] = opaque[x]
  BY DEF At
<1> USE DEF TypeOK, TypePc, TypeWfc, TypeWalk, TypeQueue, TypeEnd
<1>1. CASE Register(t)
  BY <1>1 DEF Register
<1>2. CASE Execute(t)
  BY <1>2 DEF Execute
<1>3. CASE ExecuteFails(t)
  BY <1>3 DEF ExecuteFails, Fail
<1>4. CASE WfpQuickCheck(t)
  BY <1>4 DEF WfpQuickCheck
<1>5. CASE WfpQuickReturn(t)
  BY <1>5 DEF WfpQuickReturn, WfpReturn
<1>6. CASE WfpWoken(t)
  BY <1>6 DEF WfpWoken, WfpReturn
<1>7. CASE WfpKilled(t)
  BY <1>7 DEF WfpKilled
<1>8. CASE WfpKillIgnored(t)
  BY <1>8 DEF WfpKillIgnored
<1>9. CASE WfpKillTaken(t)
  BY <1>9 DEF WfpKillTaken, WfpReturn, Unregister
<1>10. CASE QueueQuickCheck(t)
  BY <1>10 DEF QueueQuickCheck
<1>11. CASE QueueRecheck(t)
  BY <1>11 DEF QueueRecheck
<1>40. CASE QueueOffer(t)
  BY <1>40 DEF QueueOffer
<1>12. CASE QueueWoken(t)
  BY <1>12 DEF QueueWoken
<1>13. CASE QueueKilled(t)
  BY <1>13 DEF QueueKilled
<1>14. CASE QueueKillIgnored(t)
  BY <1>14 DEF QueueKillIgnored
<1>15. CASE QueueKillTaken(t)
  BY <1>15 DEF QueueKillTaken, Fail, Unregister
<1>16. CASE QueueByOther(t)
  BY <1>16 DEF QueueByOther
<1>17. CASE QueuePriorFailed(t)
  BY <1>17 DEF QueuePriorFailed, Fail
<1>18. CASE QueueLock(t)
  BY <1>18 DEF QueueLock
<1>19. CASE QueueEntry(t)
  BY <1>19 DEF QueueEntry
<1>20. CASE LeaderCollect(t)
  BY <1>20 DEF LeaderCollect
<1>21. CASE \E E \in SUBSET WriteErrors : \E H \in SUBSET WriteErrors : LeaderWrite(t, E, H)
  BY <1>21 DEF LeaderWrite
<1>22. CASE LeaderSync(t)
  BY <1>22 DEF LeaderSync
<1>23. CASE LeaderOrder(t)
  BY <1>23 DEF LeaderOrder
<1>24. CASE LeaderCommitOne(t)
  BY <1>24 DEF LeaderCommitOne, RunCommitOrdered, StartWakeup
<1>25. CASE LeaderWakeOne(t)
  BY <1>25 DEF LeaderWakeOne, WakeOwner
<1>26. CASE LeaderDone(t)
  BY <1>26 DEF LeaderDone
<1>27. CASE ReserveWait(t)
  BY <1>27 DEF ReserveWait
<1>28. CASE Reserve(t)
  BY <1>28 DEF Reserve
<1>29. CASE Follow(t)
  BY <1>29 DEF Follow
<1>30. CASE OwnCommit(t)
  BY <1>30 DEF OwnCommit, RunCommitOrdered, StartWakeup
<1>31. CASE OwnWakeNext(t)
  BY <1>31 DEF OwnWakeNext, WakeOwner
<1>32. CASE WakeupWaitee(t)
  BY <1>32 DEF WakeupWaitee
<1>33. CASE WakeupError(t)
  BY <1>33 DEF WakeupError
<1>34. CASE EndWakeup(t)
  BY <1>34 DEF EndWakeup
<1>35. CASE ReturnError(t)
  BY <1>35 DEF ReturnError, Fail
<1>36. CASE ReturnWait(t)
  BY <1>36 DEF ReturnWait
<1>37. CASE FinishGroup(t)
  BY <1>37 DEF FinishGroup
<1>38. CASE FinishWake(t)
  BY <1>38 DEF FinishWake, StartWakeup
<1>39. CASE Kill(t)
  BY <1>39 DEF Kill
<1> QED BY <1>1, <1>2, <1>3, <1>4, <1>5, <1>6, <1>7, <1>8, <1>9, <1>10, <1>11, <1>12, <1>13, <1>14, <1>15, <1>16, <1>17, <1>18, <1>19, <1>20, <1>21, <1>22, <1>23, <1>24, <1>25, <1>26, <1>27, <1>28, <1>29, <1>30, <1>31, <1>32, <1>33, <1>34, <1>35, <1>36, <1>37, <1>38, <1>39, <1>40 DEF Step

LEMMA PcStep ==
  ASSUME TypeOK, PcInv, MutexInv, NEW t \in Trx, Step(t) \/ Kill(t)
  PROVE  PcInv'
<1>a. \A x \in Trx : x # t => PcOk(x)'
  BY Others DEF PcInv, PcOk
<1> USE Constants DEF Goto, wfcVars, entryVars, queueVars, lockVars, walkVars, endVars, logVars
<1>b. PcOk(t)
  BY DEF PcInv
<1> SUFFICES PcOk(t)'
  BY <1>a DEF PcInv
<1> USE DEF TypeOK, TypePc, TypeWfc, TypeWalk, TypeQueue, TypeEnd, PcOk, At, WalkPcs, LeaderPcs, EndPcs
<1>1. CASE Register(t)
  <2>1. /\ pc[t] = "start" /\ pc'[t] \in {"wfp", "run"}
        /\ UNCHANGED <<walk, walkThen, group, result, opaque>>
    BY <1>1 DEF Register
  <2> QED BY <1>b, <2>1
<1>2. CASE Execute(t)
  BY <1>b, <1>2 DEF Execute
<1>3. CASE ExecuteFails(t)
  BY <1>b, <1>3 DEF ExecuteFails, Fail
<1>4. CASE WfpQuickCheck(t)
  BY <1>b, <1>4 DEF WfpQuickCheck
<1>5. CASE WfpQuickReturn(t)
  BY <1>b, <1>5 DEF WfpQuickReturn, WfpReturn
<1>6. CASE WfpWoken(t)
  BY <1>b, <1>6 DEF WfpWoken, WfpReturn
<1>7. CASE WfpKilled(t)
  BY <1>b, <1>7 DEF WfpKilled
<1>8. CASE WfpKillIgnored(t)
  BY <1>b, <1>8 DEF WfpKillIgnored
<1>9. CASE WfpKillTaken(t)
  BY <1>b, <1>9 DEF WfpKillTaken, WfpReturn, Unregister
<1>10. CASE QueueQuickCheck(t)
  BY <1>b, <1>10 DEF QueueQuickCheck
<1>11. CASE QueueRecheck(t)
  BY <1>b, <1>11 DEF QueueRecheck
<1>40. CASE QueueOffer(t)
  BY <1>b, <1>40 DEF QueueOffer
<1>12. CASE QueueWoken(t)
  BY <1>b, <1>12 DEF QueueWoken
<1>13. CASE QueueKilled(t)
  BY <1>b, <1>13 DEF QueueKilled
<1>14. CASE QueueKillIgnored(t)
  BY <1>b, <1>14 DEF QueueKillIgnored
<1>15. CASE QueueKillTaken(t)
  BY <1>b, <1>15 DEF QueueKillTaken, Fail, Unregister
<1>16. CASE QueueByOther(t)
  BY <1>b, <1>16 DEF QueueByOther
<1>17. CASE QueuePriorFailed(t)
  BY <1>b, <1>17 DEF QueuePriorFailed, Fail
<1>18. CASE QueueLock(t)
  BY <1>b, <1>18 DEF QueueLock
<1>19. CASE QueueEntry(t)
  BY <1>b, <1>19 DEF QueueEntry
<1>20. CASE LeaderCollect(t)
  BY <1>b, <1>20 DEF LeaderCollect
<1>21. CASE \E E \in SUBSET WriteErrors : \E H \in SUBSET WriteErrors : LeaderWrite(t, E, H)
  BY <1>b, <1>21 DEF LeaderWrite
<1>22. CASE LeaderSync(t)
  BY <1>b, <1>22 DEF LeaderSync
<1>23. CASE LeaderOrder(t)
  BY <1>b, <1>23 DEF LeaderOrder
<1>24. CASE LeaderCommitOne(t)
  BY <1>b, <1>24 DEF LeaderCommitOne, RunCommitOrdered, StartWakeup
<1>25. CASE LeaderWakeOne(t)
  <2>1. /\ At(t)' = "commit" /\ pc'[t] \in {"walk", "commit"} /\ OptimizeThreadScheduling
        /\ pc'[t] = "commit" => walk'[t] = walk[t]
        /\ pc'[t] = "walk" => walkThen'[t] = "commit"
        /\ result' = result /\ opaque' = opaque
    BY <1>b, <1>25 DEF LeaderWakeOne, WakeOwner
  <2> QED BY <1>b, <1>25, <2>1 DEF LeaderWakeOne
<1>26. CASE LeaderDone(t)
  BY <1>b, <1>26 DEF LeaderDone
<1>27. CASE ReserveWait(t)
  BY <1>b, <1>27 DEF ReserveWait
<1>28. CASE Reserve(t)
  BY <1>b, <1>28 DEF Reserve
<1>29. CASE Follow(t)
  <2>1. pc[t] = "follow" /\ pc'[t] \in {"return", "own"} /\ UNCHANGED <<walk, group, result, opaque>>
        /\ (pc'[t] = "own" => ~OptimizeThreadScheduling)
    BY <1>29 DEF Follow
  <2> QED BY <1>b, <2>1
<1>30. CASE OwnCommit(t)
  BY <1>b, <1>30 DEF OwnCommit, RunCommitOrdered, StartWakeup
<1>31. CASE OwnWakeNext(t)
  <2>1. /\ pc[t] = "chain" /\ UNCHANGED <<group, result, opaque>>
        /\ \/ pc'[t] = "return" /\ walk' = walk
           \/ pc'[t] = "walk" /\ walkThen'[t] = "return"
    BY <1>31 DEF OwnWakeNext, WakeOwner
  <2> QED BY <1>b, <2>1
<1>32. CASE WakeupWaitee(t)
  BY <1>b, <1>32 DEF WakeupWaitee
<1>33. CASE WakeupError(t)
  BY <1>b, <1>33 DEF WakeupError
<1>34. CASE EndWakeup(t)
  BY <1>b, <1>34 DEF EndWakeup
<1>35. CASE ReturnError(t)
  <2>1. /\ IF t \in Workers THEN pc'[t] = "wfp" /\ ret'[t] = "finish" ELSE pc'[t] = "done"
        /\ pc[t] = "return" /\ UNCHANGED <<wfcVars, queueVars, lockVars, walkVars, queuedByOther,
                                           nextEntry, wakeupReady>>
    BY <1>35 DEF ReturnError, Fail
  <2> QED BY <1>b, <2>1
<1>36. CASE ReturnWait(t)
  BY <1>b, <1>36 DEF ReturnWait
<1>37. CASE FinishGroup(t)
  BY <1>b, <1>37 DEF FinishGroup
<1>38. CASE FinishWake(t)
  BY <1>b, <1>38 DEF FinishWake, StartWakeup
<1>39. CASE Kill(t)
  BY <1>b, <1>39 DEF Kill
<1> QED BY <1>1, <1>2, <1>3, <1>4, <1>5, <1>6, <1>7, <1>8, <1>9, <1>10, <1>11, <1>12, <1>13, <1>14, <1>15, <1>16, <1>17, <1>18, <1>19, <1>20, <1>21, <1>22, <1>23, <1>24, <1>25, <1>26, <1>27, <1>28, <1>29, <1>30, <1>31, <1>32, <1>33, <1>34, <1>35, <1>36, <1>37, <1>38, <1>39, <1>40 DEF Step

LEMMA MutexStep ==
  ASSUME TypeOK, PcInv, MutexInv, NEW t \in Trx, Step(t) \/ Kill(t)
  PROVE  MutexInv'
<1>a. \A x \in Trx : x # t => pc'[x] = pc[x] /\ At(x)' = At(x)
  BY Others
<1> USE Constants DEF Goto, wfcVars, entryVars, queueVars, lockVars, walkVars, endVars, logVars
<1>b. PcOk(t) /\ \A x \in Trx : Holds(x)
  BY DEF PcInv, MutexInv
<1>c. SUFFICES (\A x \in Trx : Holds(x)') /\ (pending' = <<>> <=> lockPrepare' = None)
  BY DEF MutexInv
<1> USE DEF TypeOK, TypePc, TypeLock, TypeWalk, PcOk, At, WalkPcs, Holds
<1>1. CASE Register(t)
  <2>1. /\ pc[t] = "start" /\ pc'[t] \in {"wfp", "run"}
        /\ UNCHANGED <<lockPrepare, lockLog, lockAbs, lockCo, pending, walkThen>>
    BY <1>1 DEF Register
  <2> QED BY <1>a, <1>b, <2>1 DEF MutexInv
<1>2. CASE Execute(t)
  BY <1>a, <1>b, <1>2 DEF MutexInv, Execute
<1>3. CASE ExecuteFails(t)
  BY <1>a, <1>b, <1>3 DEF MutexInv, ExecuteFails, Fail
<1>4. CASE WfpQuickCheck(t)
  BY <1>a, <1>b, <1>4 DEF MutexInv, WfpQuickCheck
<1>5. CASE WfpQuickReturn(t)
  BY <1>a, <1>b, <1>5 DEF MutexInv, WfpQuickReturn, WfpReturn
<1>6. CASE WfpWoken(t)
  BY <1>a, <1>b, <1>6 DEF MutexInv, WfpWoken, WfpReturn
<1>7. CASE WfpKilled(t)
  BY <1>a, <1>b, <1>7 DEF MutexInv, WfpKilled
<1>8. CASE WfpKillIgnored(t)
  BY <1>a, <1>b, <1>8 DEF MutexInv, WfpKillIgnored
<1>9. CASE WfpKillTaken(t)
  BY <1>a, <1>b, <1>9 DEF MutexInv, WfpKillTaken, WfpReturn, Unregister
<1>10. CASE QueueQuickCheck(t)
  BY <1>a, <1>b, <1>10 DEF MutexInv, QueueQuickCheck
<1>11. CASE QueueRecheck(t)
  BY <1>a, <1>b, <1>11 DEF MutexInv, QueueRecheck
<1>40. CASE QueueOffer(t)
  BY <1>a, <1>b, <1>40 DEF MutexInv, QueueOffer
<1>12. CASE QueueWoken(t)
  BY <1>a, <1>b, <1>12 DEF MutexInv, QueueWoken
<1>13. CASE QueueKilled(t)
  BY <1>a, <1>b, <1>13 DEF MutexInv, QueueKilled
<1>14. CASE QueueKillIgnored(t)
  BY <1>a, <1>b, <1>14 DEF MutexInv, QueueKillIgnored
<1>15. CASE QueueKillTaken(t)
  BY <1>a, <1>b, <1>15 DEF MutexInv, QueueKillTaken, Fail, Unregister
<1>16. CASE QueueByOther(t)
  BY <1>a, <1>b, <1>16 DEF MutexInv, QueueByOther
<1>17. CASE QueuePriorFailed(t)
  BY <1>a, <1>b, <1>17 DEF MutexInv, QueuePriorFailed, Fail
<1>18. CASE QueueLock(t)
  BY <1>a, <1>b, <1>18 DEF MutexInv, QueueLock
<1>19. CASE QueueEntry(t)
  <2>1. /\ pc[t] = "enqueue" /\ UNCHANGED <<lockLog, lockAbs, lockCo, walkThen>>
        /\ IF pending' = <<>> THEN lockPrepare' = None /\ pc'[t] \in {"lead", "follow"}
                             ELSE lockPrepare' = lockPrepare /\ pc' = pc
    BY <1>19 DEF QueueEntry
  <2> QED BY <1>a, <1>b, <2>1 DEF MutexInv
<1>20. CASE LeaderCollect(t)
  BY <1>a, <1>b, <1>20 DEF MutexInv, LeaderCollect
<1>21. CASE \E E \in SUBSET WriteErrors : \E H \in SUBSET WriteErrors : LeaderWrite(t, E, H)
  BY <1>a, <1>b, <1>21 DEF MutexInv, LeaderWrite
<1>22. CASE LeaderSync(t)
  BY <1>a, <1>b, <1>22 DEF MutexInv, LeaderSync
<1>23. CASE LeaderOrder(t)
  BY <1>a, <1>b, <1>23 DEF MutexInv, LeaderOrder
<1>24. CASE LeaderCommitOne(t)
  BY <1>a, <1>b, <1>24 DEF MutexInv, LeaderCommitOne, RunCommitOrdered, StartWakeup
<1>25. CASE LeaderWakeOne(t)
  <2>1. /\ pc[t] = "wake" /\ UNCHANGED <<lockPrepare, lockLog, lockAbs, lockCo, pending>>
        /\ \/ pc'[t] = "commit"
           \/ pc'[t] = "walk" /\ walkThen'[t] = "commit"
    BY <1>25 DEF LeaderWakeOne, WakeOwner
  <2> QED BY <1>a, <1>b, <2>1 DEF MutexInv
<1>26. CASE LeaderDone(t)
  BY <1>a, <1>b, <1>26 DEF MutexInv, LeaderDone
<1>27. CASE ReserveWait(t)
  BY <1>a, <1>b, <1>27 DEF MutexInv, ReserveWait
<1>28. CASE Reserve(t)
  BY <1>a, <1>b, <1>28 DEF MutexInv, Reserve
<1>29. CASE Follow(t)
  BY <1>a, <1>b, <1>29 DEF MutexInv, Follow
<1>30. CASE OwnCommit(t)
  <2>1. /\ pc[t] = "own" /\ pc'[t] = "walk" /\ walkThen'[t] = "chain" /\ lockCo' = None
        /\ UNCHANGED <<lockPrepare, lockLog, lockAbs, pending>>
    BY <1>30 DEF OwnCommit, StartWakeup
  <2>2. Holds(t)' /\ (pending = <<>> <=> lockPrepare = None)'
    BY <1>a, <2>1 DEF MutexInv
  <2> QED BY <1>a, <2>1, <2>2 DEF MutexInv
<1>31. CASE OwnWakeNext(t)
  BY <1>a, <1>b, <1>31 DEF MutexInv, OwnWakeNext, WakeOwner
<1>32. CASE WakeupWaitee(t)
  <2>1. /\ pc[t] = "walk" /\ pc'[t] = "walkError" /\ walkThen' = walkThen
        /\ UNCHANGED <<lockPrepare, lockLog, lockAbs, lockCo, pending>>
    BY <1>32 DEF WakeupWaitee
  <2> QED BY <1>a, <1>b, <2>1 DEF MutexInv
<1>33. CASE WakeupError(t)
  BY <1>a, <1>b, <1>33 DEF MutexInv, WakeupError
<1>34. CASE EndWakeup(t)
  BY <1>a, <1>b, <1>34 DEF MutexInv, EndWakeup
<1>35. CASE ReturnError(t)
  BY <1>a, <1>b, <1>35 DEF MutexInv, ReturnError, Fail
<1>36. CASE ReturnWait(t)
  BY <1>a, <1>b, <1>36 DEF MutexInv, ReturnWait
<1>37. CASE FinishGroup(t)
  BY <1>a, <1>b, <1>37 DEF MutexInv, FinishGroup
<1>38. CASE FinishWake(t)
  BY <1>a, <1>b, <1>38 DEF MutexInv, FinishWake, StartWakeup
<1>39. CASE Kill(t)
  BY <1>a, <1>b, <1>39 DEF MutexInv, Kill
<1> QED BY <1>1, <1>2, <1>3, <1>4, <1>5, <1>6, <1>7, <1>8, <1>9, <1>10, <1>11, <1>12, <1>13, <1>14, <1>15, <1>16, <1>17, <1>18, <1>19, <1>20, <1>21, <1>22, <1>23, <1>24, <1>25, <1>26, <1>27, <1>28, <1>29, <1>30, <1>31, <1>32, <1>33, <1>34, <1>35, <1>36, <1>37, <1>38, <1>39, <1>40 DEF Step

LEMMA WfcStep ==
  ASSUME TypeOK, PcInv, WfcInv, SubInv, NEW t \in Trx, Step(t) \/ Kill(t)
  PROVE  WfcInv'
<1>a. \A x \in Trx : x # t => pc'[x] = pc[x] /\ walk'[x] = walk[x]
  BY Others
<1> USE Constants DEF Goto, wfcVars, entryVars, queueVars, lockVars, walkVars, endVars, logVars
<1>b. PcOk(t)
  BY DEF PcInv
<1>c. \A x \in Trx : pc[x] = "walkError" => Head(walk[x]) \in Trx /\ Head(walk[x]) \in ToSet(walk[x])
  BY OrderTail DEF TypeOK, TypeWalk, PcInv, PcOk
<1> USE DEF TypeOK, TypePc, TypeWfc, TypeWalk, PcOk, WfcInv
<1>1. CASE Register(t)
  <2>1. /\ pc[t] = "start" /\ pc'[t] \in {"wfp", "run"} /\ UNCHANGED <<wfcLock, walk>>
        /\ \A x \in Trx : x # t => waitee'[x] = waitee[x]
    BY <1>1 DEF Register
  <2>2. \A x \in Trx : pc[x] = "walkError" => Head(walk[x]) # t
    BY <1>c, <2>1 DEF SubInv, InWalk
  <2>3. \A x \in Trx : pc'[x] \in {"kill", "wfpKill", "offer", "walkError"} => x # t
    BY <2>1
  <2> HIDE DEF PcOk, TypeOK, TypePc, TypeWfc, TypeWalk
  <2> QED BY <1>a, <1>c, <2>1, <2>2, <2>3
<1>2. CASE Execute(t)
  BY <1>a, <1>b, <1>c, <1>2 DEF Execute
<1>3. CASE ExecuteFails(t)
  BY <1>a, <1>b, <1>c, <1>3 DEF ExecuteFails, Fail
<1>4. CASE WfpQuickCheck(t)
  BY <1>a, <1>b, <1>c, <1>4 DEF WfpQuickCheck
<1>5. CASE WfpQuickReturn(t)
  BY <1>a, <1>b, <1>c, <1>5 DEF WfpQuickReturn, WfpReturn
<1>6. CASE WfpWoken(t)
  BY <1>a, <1>b, <1>c, <1>6 DEF WfpWoken, WfpReturn
<1>7. CASE WfpKilled(t)
  BY <1>a, <1>b, <1>c, <1>7 DEF WfpKilled
<1>8. CASE WfpKillIgnored(t)
  BY <1>a, <1>b, <1>c, <1>8 DEF WfpKillIgnored
<1>9. CASE WfpKillTaken(t)
  BY <1>a, <1>b, <1>c, <1>9 DEF WfpKillTaken, WfpReturn, Unregister
<1>10. CASE QueueQuickCheck(t)
  BY <1>a, <1>b, <1>c, <1>10 DEF QueueQuickCheck
<1>11. CASE QueueRecheck(t)
  BY <1>a, <1>b, <1>c, <1>11 DEF QueueRecheck
<1>40. CASE QueueOffer(t)
  BY <1>a, <1>b, <1>c, <1>40 DEF QueueOffer
<1>12. CASE QueueWoken(t)
  BY <1>a, <1>b, <1>c, <1>12 DEF QueueWoken
<1>13. CASE QueueKilled(t)
  BY <1>a, <1>b, <1>c, <1>13 DEF QueueKilled
<1>14. CASE QueueKillIgnored(t)
  BY <1>a, <1>b, <1>c, <1>14 DEF QueueKillIgnored
<1>15. CASE QueueKillTaken(t)
  <2>1. /\ pc[t] = "kill" /\ pc'[t] \in {"wfp", "done"} /\ UNCHANGED walk
        /\ wfcLock' = [wfcLock EXCEPT ![t] = None] /\ waitee' = [waitee EXCEPT ![t] = None]
    BY <1>15 DEF QueueKillTaken, Fail, Unregister
  <2>2. \A x \in Trx : pc[x] = "walkError" => Head(walk[x]) # t
    BY <1>c, <2>1
  <2> QED BY <1>a, <1>c, <2>1, <2>2
<1>16. CASE QueueByOther(t)
  BY <1>a, <1>b, <1>c, <1>16 DEF QueueByOther
<1>17. CASE QueuePriorFailed(t)
  BY <1>a, <1>b, <1>c, <1>17 DEF QueuePriorFailed, Fail
<1>18. CASE QueueLock(t)
  BY <1>a, <1>b, <1>c, <1>18 DEF QueueLock
<1>19. CASE QueueEntry(t)
  <2>1. /\ pc[t] = "enqueue" /\ pc'[t] \in {"enqueue", "lead", "follow"}
        /\ UNCHANGED <<wfcLock, waitee, walk>>
    BY <1>19 DEF QueueEntry
  <2> HIDE DEF PcOk, TypeOK, TypePc, TypeWfc, TypeWalk
  <2> QED BY <1>a, <2>1
<1>20. CASE LeaderCollect(t)
  BY <1>a, <1>b, <1>c, <1>20 DEF LeaderCollect
<1>21. CASE \E E \in SUBSET WriteErrors : \E H \in SUBSET WriteErrors : LeaderWrite(t, E, H)
  BY <1>a, <1>b, <1>c, <1>21 DEF LeaderWrite
<1>22. CASE LeaderSync(t)
  BY <1>a, <1>b, <1>c, <1>22 DEF LeaderSync
<1>23. CASE LeaderOrder(t)
  BY <1>a, <1>b, <1>c, <1>23 DEF LeaderOrder
<1>24. CASE LeaderCommitOne(t)
  BY <1>a, <1>b, <1>c, <1>24 DEF LeaderCommitOne, RunCommitOrdered, StartWakeup
<1>25. CASE LeaderWakeOne(t)
  BY <1>a, <1>b, <1>c, <1>25 DEF LeaderWakeOne, WakeOwner
<1>26. CASE LeaderDone(t)
  BY <1>a, <1>b, <1>c, <1>26 DEF LeaderDone
<1>27. CASE ReserveWait(t)
  BY <1>a, <1>b, <1>c, <1>27 DEF ReserveWait
<1>28. CASE Reserve(t)
  BY <1>a, <1>b, <1>c, <1>28 DEF Reserve
<1>29. CASE Follow(t)
  BY <1>a, <1>b, <1>c, <1>29 DEF Follow
<1>30. CASE OwnCommit(t)
  BY <1>a, <1>b, <1>c, <1>30 DEF OwnCommit, RunCommitOrdered, StartWakeup
<1>31. CASE OwnWakeNext(t)
  BY <1>a, <1>b, <1>c, <1>31 DEF OwnWakeNext, WakeOwner
<1>32. CASE WakeupWaitee(t)
  BY <1>a, <1>b, <1>c, <1>32 DEF WakeupWaitee
<1>33. CASE WakeupError(t)
  BY <1>a, <1>b, <1>c, <1>33 DEF WakeupError
<1>34. CASE EndWakeup(t)
  <2>1. pc'[t] \in {"wake", "commit", "chain", "return", "done"} /\ UNCHANGED <<wfcLock, waitee, walk>>
    BY <1>b, <1>34 DEF EndWakeup, WalkPcs
  <2> QED BY <1>a, <2>1
<1>35. CASE ReturnError(t)
  <2>1. pc'[t] \in {"wfp", "done"} /\ UNCHANGED <<wfcLock, waitee, walk>>
    BY <1>35 DEF ReturnError, Fail
  <2> HIDE DEF PcOk, TypeOK, TypePc, TypeWfc, TypeWalk
  <2> QED BY <1>a, <2>1
<1>36. CASE ReturnWait(t)
  BY <1>a, <1>b, <1>c, <1>36 DEF ReturnWait
<1>37. CASE FinishGroup(t)
  BY <1>a, <1>b, <1>c, <1>37 DEF FinishGroup
<1>38. CASE FinishWake(t)
  BY <1>a, <1>b, <1>c, <1>38 DEF FinishWake, StartWakeup
<1>39. CASE Kill(t)
  BY <1>a, <1>b, <1>c, <1>39 DEF Kill
<1> QED BY <1>1, <1>2, <1>3, <1>4, <1>5, <1>6, <1>7, <1>8, <1>9, <1>10, <1>11, <1>12, <1>13, <1>14, <1>15, <1>16, <1>17, <1>18, <1>19, <1>20, <1>21, <1>22, <1>23, <1>24, <1>25, <1>26, <1>27, <1>28, <1>29, <1>30, <1>31, <1>32, <1>33, <1>34, <1>35, <1>36, <1>37, <1>38, <1>39, <1>40 DEF Step

-----------------------------------------------------------------------------
(* What the steps do to the lists                                          *)

\* The variables that the other parts of the invariant are about.
Shared == <<waitee, subsequent, queuedByOther, nextEntry, wakeupReady, queue, pending, isLeader,
            group, walk, prepared, binlog>>

\* The steps that only move the thread on.
OwnStep(t) ==
  \/ Execute(t) \/ ExecuteFails(t) \/ WfpQuickCheck(t) \/ WfpQuickReturn(t) \/ WfpWoken(t)
  \/ WfpKilled(t) \/ WfpKillIgnored(t) \/ QueueQuickCheck(t) \/ QueueRecheck(t)
  \/ QueueOffer(t) \/ QueueWoken(t)
  \/ QueueKilled(t) \/ QueueKillIgnored(t) \/ QueueByOther(t) \/ QueuePriorFailed(t)
  \/ LeaderSync(t) \/ LeaderOrder(t) \/ LeaderDone(t) \/ ReserveWait(t) \/ Follow(t)
  \/ EndWakeup(t) \/ ReturnError(t) \/ ReturnWait(t) \/ FinishGroup(t) \/ Kill(t)

MovesOn(t) ==
  /\ pc[t] \notin {"start", "enqueue", "lead", "write"}
  /\ pc'[t] \notin {"start", "enqueue", "lead", "write"}
  /\ pc[t] \in WaitPcs /\ waitee[t] # None /\ queuedByOther[t] => pc'[t] \in WaitPcs
  /\ pc[t] = "follow" => queuedByOther[t] \/ wakeupReady[t]
  /\ Settled(t) => Settled(t)'
  /\ t \in Workers /\ At(t)' = "done" => At(t) = "done"
  /\ At(t)' = "finishWake" => t <= lastCommitted'
  /\ ~OptimizeThreadScheduling /\ Settled(t) /\ TurnPending(t) => TurnPending(t)'

LEMMA OwnStepEffect ==
  ASSUME TypeOK, PcInv, NEW t \in Trx, OwnStep(t)
  PROVE  UNCHANGED Shared /\ lastCommitted <= lastCommitted' /\ MovesOn(t)
<1> USE Constants DEF Goto, wfcVars, entryVars, queueVars, lockVars, walkVars, endVars, logVars
<1>a. PcOk(t)
  BY DEF PcInv
<1> USE DEF TypeOK, TypePc, TypeEntry, TypeEnd, TypeWalk, PcOk, At, WalkPcs, WaitPcs, Shared, MovesOn,
            Settled, TurnPending
<1>1. CASE Execute(t)
  <2>1. pc[t] = "run" /\ pc'[t] = "check" /\ UNCHANGED <<Shared, lastCommitted>>
    BY <1>1 DEF Execute
  <2> QED BY <1>a, <2>1
<1>2. CASE ExecuteFails(t)
  BY <1>a, <1>2 DEF ExecuteFails, Fail
<1>3. CASE WfpQuickCheck(t)
  BY <1>a, <1>3 DEF WfpQuickCheck
<1>4. CASE WfpQuickReturn(t)
  BY <1>a, <1>4 DEF WfpQuickReturn, WfpReturn
<1>5. CASE WfpWoken(t)
  BY <1>a, <1>5 DEF WfpWoken, WfpReturn
<1>6. CASE WfpKilled(t)
  BY <1>a, <1>6 DEF WfpKilled
<1>7. CASE WfpKillIgnored(t)
  BY <1>a, <1>7 DEF WfpKillIgnored
<1>8. CASE QueueQuickCheck(t)
  BY <1>a, <1>8 DEF QueueQuickCheck
<1>9. CASE QueueRecheck(t)
  BY <1>a, <1>9 DEF QueueRecheck
<1>25. CASE QueueOffer(t)
  BY <1>a, <1>25 DEF QueueOffer
<1>10. CASE QueueWoken(t)
  BY <1>a, <1>10 DEF QueueWoken
<1>11. CASE QueueKilled(t)
  BY <1>a, <1>11 DEF QueueKilled
<1>12. CASE QueueKillIgnored(t)
  BY <1>a, <1>12 DEF QueueKillIgnored
<1>13. CASE QueueByOther(t)
  BY <1>a, <1>13 DEF QueueByOther
<1>14. CASE QueuePriorFailed(t)
  BY <1>a, <1>14 DEF QueuePriorFailed, Fail
<1>15. CASE LeaderSync(t)
  BY <1>a, <1>15 DEF LeaderSync
<1>16. CASE LeaderOrder(t)
  BY <1>a, <1>16 DEF LeaderOrder
<1>17. CASE LeaderDone(t)
  BY <1>a, <1>17 DEF LeaderDone
<1>18. CASE ReserveWait(t)
  BY <1>a, <1>18 DEF ReserveWait
<1>19. CASE Follow(t)
  BY <1>a, <1>19 DEF Follow
<1>20. CASE EndWakeup(t)
  BY <1>a, <1>20 DEF EndWakeup
<1>21. CASE ReturnError(t)
  BY <1>a, <1>21 DEF ReturnError, Fail
<1>22. CASE ReturnWait(t)
  BY <1>a, <1>22 DEF ReturnWait
<1>23. CASE FinishGroup(t)
  BY <1>a, <1>23 DEF FinishGroup
<1>24. CASE Kill(t)
  BY <1>a, <1>24 DEF Kill
<1> QED BY <1>1, <1>2, <1>3, <1>4, <1>5, <1>6, <1>7, <1>8, <1>9, <1>10, <1>11, <1>12, <1>13, <1>14, <1>15, <1>16, <1>17, <1>18, <1>19, <1>20, <1>21, <1>22, <1>23, <1>24, <1>25 DEF OwnStep

\* registers ...
LEMMA RegisterEffect ==
  ASSUME TypeOK, PcInv, SubInv, NEW t \in Trx, Register(t)
  PROVE  /\ t \in Workers /\ pc[t] = "start" /\ pc'[t] \in {"wfp", "run"}
         /\ UNCHANGED <<queuedByOther, nextEntry, wakeupReady, queue, pending, isLeader, group,
                        walk, prepared, binlog, lastCommitted>>
         /\ waitee[t] = None /\ ~InWalk(t)
         /\ \/ UNCHANGED <<waitee, subsequent>>
            \/ \E c \in Workers :
                 /\ lastCommitted < c
                 /\ waitee' = [waitee EXCEPT ![t] = c]
                 /\ subsequent' = [subsequent EXCEPT ![c] = <<t>> \o @]
                 /\ ToSet(<<t>> \o subsequent[c]) = ToSet(subsequent[c]) \cup {t}
                 /\ IsInjective(<<t>> \o subsequent[c])
<1> USE Constants DEF Goto, wfcVars, entryVars, queueVars, lockVars, walkVars, endVars, logVars
<1>1. /\ pc[t] = "start" /\ pc'[t] \in {"wfp", "run"}
      /\ UNCHANGED <<queuedByOther, nextEntry, wakeupReady, queue, pending, isLeader, group,
                     walk, prepared, binlog, lastCommitted>>
  BY DEF Register, TypeOK, TypePc
<1>2. t \in Workers
  BY <1>1 DEF PcInv, PcOk, At, WalkPcs
<1>3. waitee[t] = None /\ ~InWalk(t)
  BY <1>1 DEF SubInv
<1> DEFINE c == Prior(t)
           r == c > lastCommitted /\ ~running[c]
<1>4. c \in Workers \cup {None} /\ lastCommitted \in Nat
  BY PriorType DEF TypeOK, TypeEnd
<1>5. /\ waitee' = [waitee EXCEPT ![t] = IF r THEN c ELSE None]
      /\ subsequent' = IF r THEN [subsequent EXCEPT ![c] = <<t>> \o @] ELSE subsequent
  BY DEF Register
<1> HIDE DEF c
<1>6. CASE ~r
  <2>1. waitee' = waitee
    BY <1>3, <1>5, <1>6 DEF TypeOK, TypeWfc
  <2> QED BY <1>1, <1>2, <1>3, <1>5, <1>6, <2>1
<1>7. CASE r
  <2>1. c \in Workers /\ lastCommitted < c
    BY <1>4, <1>7 DEF None
  <2> DEFINE q == subsequent[c]
             s == <<t>>
  <2>2. q \in Seq(Workers) /\ s \in Seq(Workers) /\ ToSet(s) = {t} /\ \A a, b : ~ Before(s, a, b)
    BY <1>2, <2>1, OrderSingle DEF TypeOK, TypeWfc
  <2>3. IsInjective(q) /\ t \notin ToSet(q)
    BY <1>3, <2>1 DEF SubInv
  <2> HIDE DEF q, s
  <2>4. /\ s \o q \in Seq(Workers) /\ ToSet(s \o q) = ToSet(s) \cup ToSet(q)
        /\ \A a, b : Before(s \o q, a, b) <=>
             Before(s, a, b) \/ (a \in ToSet(s) /\ b \in ToSet(q)) \/ Before(q, a, b)
    BY <2>2, OrderConcat
  <2>5. \A a : ~ Before(q, a, a)
    BY <2>2, <2>3, OrderType
  <2>6. IsInjective(s \o q)
    <3>1. \A a : ~ Before(s \o q, a, a)
      BY <2>2, <2>3, <2>4, <2>5
    <3> QED BY <2>4, <3>1, OrderType
  <2>7. ToSet(s \o q) = ToSet(q) \cup {t}
    BY <2>2, <2>4
  <2>8. /\ waitee' = [waitee EXCEPT ![t] = c] /\ subsequent' = [subsequent EXCEPT ![c] = s \o @]
    BY <1>5, <1>7 DEF s
  <2> QED BY <1>1, <1>2, <1>3, <2>1, <2>6, <2>7, <2>8 DEF q, s
<1> QED BY <1>6, <1>7

\* A waiter that is killed takes itself out of the list.
KillTaken(t) == WfpKillTaken(t) \/ QueueKillTaken(t)

LEMMA KillTakenEffect ==
  ASSUME TypeOK, PcInv, WfcInv, SubInv, NEW t \in Trx, KillTaken(t)
  PROVE  /\ pc[t] \in {"kill", "wfpKill"} /\ (pc[t] = "kill" => ~queuedByOther[t])
         /\ pc'[t] \in {"wfp", "finish", "done"} /\ (pc'[t] = "done" => t \notin Workers)
         /\ UNCHANGED <<queuedByOther, nextEntry, wakeupReady, queue, pending, isLeader, group,
                        walk, prepared, binlog, lastCommitted>>
         /\ waitee[t] \in Workers /\ waitee' = [waitee EXCEPT ![t] = None]
         /\ \A c \in Trx :
              /\ ToSet(subsequent'[c]) = ToSet(subsequent[c]) \ {t}
              /\ IsInjective(subsequent'[c])
              /\ subsequent[c] = <<>> => subsequent'[c] = <<>>
<1> USE Constants DEF Goto, wfcVars, entryVars, queueVars, lockVars, walkVars, endVars, logVars
<1>1. /\ pc[t] \in {"kill", "wfpKill"} /\ (pc[t] = "kill" => ~queuedByOther[t])
      /\ pc'[t] \in {"wfp", "finish", "done"} /\ (pc'[t] = "done" => t \notin Workers)
      /\ UNCHANGED <<queuedByOther, nextEntry, wakeupReady, queue, pending, isLeader, group,
                     walk, prepared, binlog, lastCommitted>>
      /\ Unregister(t)
  BY DEF KillTaken, WfpKillTaken, QueueKillTaken, WfpReturn, Fail, TypeOK, TypePc
<1> DEFINE p == waitee[t]
           q == subsequent[p]
           k == Keep(q, Trx \ {t})
<1>2. p \in Workers /\ waitee' = [waitee EXCEPT ![t] = None] /\ q \in Seq(Workers)
  <2>1. p \in Workers
    BY <1>1 DEF WfcInv, TypeOK, TypeWfc
  <2>2. q \in Seq(Workers)
    BY <2>1 DEF TypeOK, TypeWfc
  <2> QED BY <1>1, <2>1, <2>2 DEF Unregister
<1>3. subsequent' = [subsequent EXCEPT ![p] = k]
  BY <1>1 DEF Unregister
<1>4. /\ k \in Seq(Workers) /\ ToSet(k) = ToSet(q) \cap (Trx \ {t})
      /\ \A a, b : Before(k, a, b) => Before(q, a, b)
  BY <1>2, KeepOrder
<1>5. ToSet(q) \subseteq Workers /\ \A a : ~ Before(q, a, a)
  BY <1>2, OrderType DEF SubInv
<1>6. ToSet(k) = ToSet(q) \ {t}
  BY <1>4, <1>5
<1>7. IsInjective(k)
  <2>1. \A a : ~ Before(k, a, a)
    BY <1>4, <1>5
  <2> HIDE DEF k
  <2> QED BY <1>4, <2>1, OrderType
<1>8. q = <<>> => k = <<>>
  BY KeepEmpty, Zenon
<1> HIDE DEF p, q, k
<1>9. ASSUME NEW c \in Trx, c # p
      PROVE  subsequent'[c] = subsequent[c] /\ t \notin ToSet(subsequent[c]) /\ IsInjective(subsequent[c])
  BY <1>3, <1>9 DEF p, SubInv, TypeOK, TypeWfc
<1>10. subsequent'[p] = k
  BY <1>2, <1>3 DEF TypeOK, TypeWfc
<1>11. ASSUME NEW c \in Trx
       PROVE  /\ ToSet(subsequent'[c]) = ToSet(subsequent[c]) \ {t}
              /\ IsInjective(subsequent'[c])
              /\ subsequent[c] = <<>> => subsequent'[c] = <<>>
  <2>1. CASE c = p
    BY <1>6, <1>7, <1>8, <1>10, <2>1 DEF q
  <2>2. CASE c # p
    BY <1>9, <2>2
  <2> QED BY <2>1, <2>2
<1> QED BY <1>1, <1>2, <1>11 DEF p

\* The queue and the list that is being flattened are sequences.
LEMMA LineType ==
  ASSUME TypeOK
  PROVE  /\ queue \in Seq(Trx) /\ pending \in Seq(Trx) /\ Line \in Seq(Trx)
         /\ Queued = ToSet(queue) \cup ToSet(pending) /\ Queued \subseteq Trx
         /\ pending = <<>> => Line = queue
<1>1. queue \in Seq(Trx) /\ pending \in Seq(Trx)
  BY DEF TypeOK, TypeQueue
<1>2. Line \in Seq(Trx) /\ Queued = ToSet(queue) \cup ToSet(pending)
  BY <1>1, OrderConcat DEF Line, Queued
<1>3. Queued \subseteq Trx
  BY <1>2, OrderType DEF Queued
<1>4. pending = <<>> => Line = queue
  BY <1>1, ConcatEmptySeq DEF Line
<1> QED BY <1>1, <1>2, <1>3, <1>4

LEMMA QueueLockEffect ==
  ASSUME TypeOK, MutexInv, NEW t \in Trx, QueueLock(t)
  PROVE  /\ pc[t] = "error" /\ ~queuedByOther[t] /\ pc'[t] = "enqueue" /\ ~wakeupReady'[t]
         /\ \A x \in Trx : x # t => pc[x] # "enqueue" /\ wakeupReady'[x] = wakeupReady[x]
                                  /\ isLeader'[x] = isLeader[x]
         /\ UNCHANGED <<waitee, subsequent, queuedByOther, nextEntry, queue, group, walk, walkThen,
                        prepared, binlog, lastCommitted, lockLog>>
         /\ Line' = Append(Line, t) /\ Queued' = Queued \cup {t}
         /\ isLeader'[t] = (queue = <<>>) /\ (queue = <<>> => Head(Line') = t)
<1> USE Constants DEF Goto, wfcVars, entryVars, queueVars, lockVars, walkVars, endVars, logVars
<1>1. /\ pc[t] = "error" /\ ~queuedByOther[t] /\ pc'[t] = "enqueue" /\ ~wakeupReady'[t]
      /\ \A x \in Trx : x # t => wakeupReady'[x] = wakeupReady[x] /\ isLeader'[x] = isLeader[x]
      /\ UNCHANGED <<waitee, subsequent, queuedByOther, nextEntry, queue, group, walk, walkThen,
                     prepared, binlog, lastCommitted, lockLog>>
      /\ lockPrepare = None /\ pending' = <<t>> /\ isLeader'[t] = (queue = <<>>)
  BY DEF QueueLock, TypeOK, TypePc, TypeEntry, TypeQueue
<1>2. pending = <<>> /\ \A x \in Trx : pc[x] # "enqueue"
  BY <1>1 DEF MutexInv, Holds
<1>3. Line = queue /\ queue \in Seq(Trx) /\ Line' = queue \o <<t>>
  BY <1>1, <1>2, LineType DEF Line
<1>4. Line' = Append(Line, t)
  BY <1>3, AppendIsConcat
<1>5. Queued' = Queued \cup {t}
  BY <1>3, <1>4, OrderAppend DEF Queued
<1>6. queue = <<>> => Head(Line') = t
  BY <1>3
<1> QED BY <1>1, <1>2, <1>4, <1>5, <1>6

\* One iteration of the traversal moves the waiters that are ready from the list
\* of the entry to the end of the line.
EntryEffect(t, e, ready) ==
  /\ pc[t] = "enqueue" /\ pc'[t] \in {"enqueue", "lead", "follow"} /\ lockPrepare = t
  /\ pc'[t] = "lead" => isLeader[t] /\ queue' = Line'
  /\ UNCHANGED <<waitee, nextEntry, wakeupReady, isLeader, group, walk, walkThen, binlog,
                 lastCommitted, lockLog>>
  /\ Line' = Line \o ready /\ Queued' = Queued \cup ToSet(ready) /\ Line # <<>>
  /\ queue' = Append(queue, e) /\ e \in ToSet(Line)
  /\ commitStarted' = [commitStarted EXCEPT ![e] = e \in Workers]
  /\ prepared' = IF e \in UsesXa THEN Append(prepared, e) ELSE prepared
  /\ IsInjective(ready) /\ ToSet(ready) \subseteq Workers
  /\ \A w \in ToSet(ready) :
       /\ w \in ToSet(subsequent[e]) /\ waitee[w] = e /\ ~queuedByOther[w] /\ ~InWalk(w)
       /\ pc[w] = "wait" /\ pc'[w] = "wait"
  /\ \A c \in Trx : /\ ToSet(subsequent'[c]) = ToSet(subsequent[c]) \ ToSet(ready)
                    /\ IsInjective(subsequent'[c])
                    /\ subsequent[c] = <<>> => subsequent'[c] = <<>>
  /\ \A w \in Trx : queuedByOther'[w] = (queuedByOther[w] \/ w \in ToSet(ready))

LEMMA QueueEntryEffect ==
  ASSUME TypeOK, PcInv, MutexInv, SubInv, NEW t \in Trx, QueueEntry(t)
  PROVE  \E e \in Trx, ready \in Seq(Trx) : EntryEffect(t, e, ready)
<1> USE Constants DEF Goto, wfcVars, entryVars, queueVars, lockVars, walkVars, endVars, logVars
<1> DEFINE e == Head(pending)
           q == subsequent[e]
           O == {w \in Trx : opaque[w]}
           C == {w \in Trx : ~opaque[w]}
           ready == Keep(q, O)
           left == Keep(q, C)
<1>1. /\ pc[t] = "enqueue" /\ lockPrepare = t /\ pending # <<>>
      /\ pending \in Seq(Trx) /\ queue \in Seq(Trx) /\ Line \in Seq(Trx)
  BY LineType DEF QueueEntry, MutexInv, Holds
<1>2. e \in Trx /\ Tail(pending) \in Seq(Trx) /\ pending = <<e>> \o Tail(pending)
      /\ e \in ToSet(pending)
  BY <1>1, OrderTail
<1>3. q \in Seq(Workers) /\ q \in Seq(Trx) /\ ToSet(q) \subseteq Workers
  <2>1. q \in Seq(Workers)
    BY <1>2 DEF TypeOK, TypeWfc
  <2> QED BY <2>1, SeqMonotonic, OrderType
<1>4. /\ IsInjective(q) /\ \A a : ~ Before(q, a, a)
      /\ \A w \in ToSet(q) : waitee[w] = e /\ ~queuedByOther[w] /\ ~InWalk(w)
  BY <1>2, <1>3, OrderType DEF SubInv
<1>5. /\ ready \in Seq(Trx) /\ ToSet(ready) = ToSet(q) \cap O
      /\ left \in Seq(Trx) /\ ToSet(left) = ToSet(q) \cap C
      /\ \A a, b : Before(ready, a, b) => Before(q, a, b)
      /\ \A a, b : Before(left, a, b) => Before(q, a, b)
  BY <1>3, KeepOrder
<1>6. /\ prepared' = IF e \in UsesXa THEN Append(prepared, e) ELSE prepared
      /\ subsequent' = [subsequent EXCEPT ![e] = left]
      /\ queuedByOther' = [w \in Trx |-> queuedByOther[w] \/ w \in ToSet(ready)]
      /\ queue' = Append(queue, e)
      /\ commitStarted' = [commitStarted EXCEPT ![e] = e \in Workers]
      /\ pending' = Tail(pending) \o (IF e \in Workers THEN ready ELSE <<>>)
      /\ IF pending' = <<>> THEN pc' = [pc EXCEPT ![t] = IF isLeader[t] THEN "lead" ELSE "follow"]
                           ELSE pc' = pc
      /\ UNCHANGED <<waitee, nextEntry, wakeupReady, isLeader, group, walk, walkThen, binlog,
                     lastCommitted, lockLog>>
  BY DEF QueueEntry
<1>7. q = <<>> => ready = <<>> /\ left = <<>>
  BY KeepEmpty, Zenon
<1>8. \A w \in ToSet(ready) : w \in Trx /\ w \in ToSet(q) /\ opaque[w] /\ pc[w] = "wait" /\ w # t
  BY <1>1, <1>5 DEF PcInv, PcOk
<1>9. ToSet(left) = ToSet(q) \ ToSet(ready)
  BY <1>3, <1>5
<1> HIDE DEF q, O, C, ready, left
<1>10. e \notin Workers => ready = <<>>
  <2>1. SUFFICES ASSUME e \notin Workers, q # <<>> PROVE FALSE
    BY <1>7
  <2>2. Head(q) \in ToSet(q)
    <3>1. q \in Seq(Workers) /\ q # <<>>
      BY <1>3, <2>1
    <3> QED BY ONLY <3>1, OrderTail
  <2>3. waitee[Head(q)] \in Workers \cup {None}
    BY <1>3, <2>2 DEF TypeOK, TypeWfc
  <2> QED BY <1>2, <1>4, <2>1, <2>2, <2>3
<1>11. pending' = Tail(pending) \o ready
  BY <1>6, <1>10
<1>12. Line' = Line \o ready
  <2> DEFINE r == Tail(pending)
             s == <<e>>
  <2>1. r \in Seq(Trx) /\ s \in Seq(Trx)
    BY <1>2
  <2>2. queue' = Cat(queue, s)
    BY <1>1, <1>2, <1>6, AppendIsConcat DEF Cat
  <2>3. Line' = Cat(queue', Cat(r, ready))
    BY <1>11 DEF Line, Cat
  <2>4. Line = Cat(queue, Cat(s, r))
    BY <1>2 DEF Line, Cat
  <2> HIDE DEF r, s
  <2>5. Cat(Cat(queue, s), Cat(r, ready)) = Cat(Cat(queue, Cat(s, r)), ready)
    BY <1>1, <1>5, <2>1, CatFacts
  <2> QED BY <2>2, <2>3, <2>4, <2>5 DEF Cat
<1>13. Queued' = Queued \cup ToSet(ready)
  BY <1>1, <1>5, <1>12, OrderConcat DEF Queued
<1>14. e \in ToSet(Line) /\ Line # <<>>
  <2>1. e \in ToSet(Line)
    BY <1>1, <1>2, OrderConcat DEF Line
  <2> QED BY <2>1, OrderEmpty
<1>15. IsInjective(ready) /\ IsInjective(left)
  BY <1>4, <1>5, OrderType
<1>16. \A c \in Trx : /\ ToSet(subsequent'[c]) = ToSet(subsequent[c]) \ ToSet(ready)
                      /\ IsInjective(subsequent'[c])
                      /\ subsequent[c] = <<>> => subsequent'[c] = <<>>
  <2> TAKE c \in Trx
  <2>1. CASE c = e
    BY <1>2, <1>6, <1>7, <1>9, <1>15, <2>1 DEF q, TypeOK, TypeWfc
  <2>2. CASE c # e
    <3>1. subsequent'[c] = subsequent[c] /\ IsInjective(subsequent[c])
      BY <1>6, <2>2 DEF SubInv, TypeOK, TypeWfc
    <3>2. \A w \in ToSet(ready) : w \notin ToSet(subsequent[c])
      BY <1>4, <1>8, <2>2 DEF SubInv
    <3> QED BY <3>1, <3>2
  <2> QED BY <2>1, <2>2
<1>17. /\ pc'[t] \in {"enqueue", "lead", "follow"}
       /\ pc'[t] = "lead" => isLeader[t] /\ pending' = <<>>
       /\ \A w \in ToSet(ready) : pc'[w] = "wait"
  BY <1>1, <1>6, <1>8 DEF TypeOK, TypePc
<1>18. pending' = <<>> => queue' = Line'
  <2>1. queue' \in Seq(Trx) /\ Line' = queue' \o pending'
    BY <1>1, <1>2, <1>6 DEF Line
  <2> QED BY <2>1, ConcatEmptySeq
<1>19. ToSet(ready) \subseteq Workers
  BY <1>3, <1>8
<1>20. \A w \in ToSet(ready) :
         /\ w \in ToSet(subsequent[e]) /\ waitee[w] = e /\ ~queuedByOther[w] /\ ~InWalk(w)
         /\ pc[w] = "wait" /\ pc'[w] = "wait"
  BY <1>4, <1>8, <1>17 DEF q
<1>21. \A w \in Trx : queuedByOther'[w] = (queuedByOther[w] \/ w \in ToSet(ready))
  BY <1>6
<1> HIDE DEF e
<1>22. EntryEffect(t, e, ready)
  BY <1>1, <1>2, <1>5, <1>6, <1>12, <1>13, <1>14, <1>15, <1>16, <1>17, <1>18, <1>19, <1>20, <1>21
     DEF EntryEffect
<1> QED BY <1>2, <1>5, <1>22

LEMMA LeaderCollectEffect ==
  ASSUME TypeOK, MutexInv, DistinctInv, HeadInv, NextInv, NEW t \in Trx, LeaderCollect(t)
  PROVE  /\ pc[t] = "lead" /\ pc'[t] = "write" /\ lockLog = None /\ lockLog' = t
         /\ \A x \in Trx : pc[x] # "enqueue"
         /\ UNCHANGED <<waitee, subsequent, queuedByOther, wakeupReady, pending, isLeader, walk, walkThen,
                        prepared, binlog, lastCommitted>>
         /\ Line = queue /\ queue' = <<>> /\ Line' = <<>> /\ Queued' = {}
         /\ queue # <<>> /\ Head(queue) = t
         /\ group' = [group EXCEPT ![t] = queue]
         /\ \A x \in Trx : x \notin Queued => nextEntry'[x] = nextEntry[x]
         /\ \A x \in Queued : nextEntry'[x] \in Queued \cup {None}
         /\ \A w \in Queued : w = t \/ \E x \in Queued : nextEntry'[x] = w
<1> USE Constants DEF Goto, wfcVars, entryVars, queueVars, lockVars, walkVars, endVars, logVars
<1>1. /\ pc[t] = "lead" /\ pc'[t] = "write" /\ lockLog = None /\ lockLog' = t /\ lockPrepare = None
      /\ UNCHANGED <<waitee, subsequent, queuedByOther, wakeupReady, pending, isLeader, walk, walkThen,
                     prepared, binlog, lastCommitted>>
      /\ queue' = <<>> /\ group' = [group EXCEPT ![t] = queue]
  BY DEF LeaderCollect, TypeOK, TypePc
<1>2. pending = <<>> /\ \A x \in Trx : pc[x] # "enqueue"
  BY <1>1 DEF MutexInv, Holds
<1>3. Line = queue /\ queue \in Seq(Trx) /\ Queued = ToSet(queue) /\ Queued \subseteq Trx
  BY <1>2, LineType DEF Queued
<1>4. Line' = <<>> /\ Queued' = {}
  <2>1. Line' = <<>> \o <<>> /\ <<>> \o <<>> = <<>>
    BY <1>1, <1>2 DEF Line
  <2> QED BY <2>1, OrderEmpty DEF Queued
<1>5. queue # <<>> /\ Head(queue) = t
  BY <1>1 DEF HeadInv
<1> DEFINE n == Len(queue)
           c(x) == CHOOSE i \in 1..n - 1 : queue[i] = x
<1>6. /\ n \in Nat /\ n # 0 /\ queue[1] = t /\ \A i \in 1..n : queue[i] \in Queued
      /\ \A x \in Queued : \E i \in 1..n : queue[i] = x
      /\ \A i, j \in 1..n : queue[i] = queue[j] => i = j
  <2>1. n \in Nat /\ n # 0 /\ queue[1] = t /\ DOMAIN queue = 1..n
    BY <1>3, <1>5
  <2>2. (\A i \in 1..n : queue[i] \in Queued) /\ (\A x \in Queued : \E i \in 1..n : queue[i] = x)
    BY <1>3, <2>1 DEF ToSet
  <2>3. \A i, j \in 1..n : queue[i] = queue[j] => i = j
    BY <1>3, <2>1 DEF DistinctInv, IsInjective
  <2> QED BY <2>1, <2>2, <2>3
<1>7. ASSUME NEW x \in Trx, ~ \E i \in 1..n - 1 : queue[i] = x
      PROVE  nextEntry'[x] = nextEntry[x]
  BY <1>7 DEF LeaderCollect
<1>8. ASSUME NEW i \in 1..n - 1
      PROVE  queue[i] \in Trx /\ i + 1 \in 1..n /\ nextEntry'[queue[i]] = queue[i + 1]
  <2>1. i \in 1..n /\ i + 1 \in 1..n /\ queue[i] \in Trx
    BY <1>3, <1>6
  <2>2. c(queue[i]) \in 1..n - 1 /\ queue[c(queue[i])] = queue[i]
    OBVIOUS
  <2>3. nextEntry'[queue[i]] = queue[1 + c(queue[i])]
    BY <2>1 DEF LeaderCollect
  <2> HIDE DEF c
  <2>4. c(queue[i]) = i
    BY <1>6, <2>1, <2>2
  <2>5. 1 + i = i + 1
    OBVIOUS
  <2> QED BY <2>1, <2>3, <2>4, <2>5
<1> HIDE DEF n, c
<1>9. \A x \in Trx : x \notin Queued => nextEntry'[x] = nextEntry[x]
  <2>1. \A i \in 1..n - 1 : i \in 1..n
    BY <1>6
  <2> QED BY <1>6, <1>7, <2>1
<1>10. ASSUME NEW x \in Queued PROVE nextEntry'[x] \in Queued \cup {None}
  <2>1. CASE \E i \in 1..n - 1 : queue[i] = x
    BY <1>6, <1>8, <2>1
  <2>2. CASE ~ \E i \in 1..n - 1 : queue[i] = x
    BY <1>3, <1>7, <1>10, <2>2 DEF NextInv
  <2> QED BY <2>1, <2>2
<1>11. ASSUME NEW w \in Queued PROVE w = t \/ \E x \in Queued : nextEntry'[x] = w
  <2>1. PICK j \in 1..n : queue[j] = w
    BY <1>6
  <2>2. CASE j = 1
    BY <1>6, <2>1, <2>2
  <2>3. CASE j # 1
    <3>1. j - 1 \in 1..n - 1 /\ (j - 1) + 1 = j /\ j - 1 \in 1..n
      BY <1>6, <2>3
    <3>2. nextEntry'[queue[j - 1]] = w /\ queue[j - 1] \in Queued
      BY <1>6, <1>8, <2>1, <3>1
    <3> QED BY <3>2
  <2> QED BY <2>2, <2>3
<1> QED BY <1>1, <1>2, <1>3, <1>4, <1>5, <1>9, <1>10, <1>11

WriteEffect(t, k) ==
  /\ pc[t] = "write" /\ pc'[t] = "written" /\ lockLog = t /\ lockLog' = t
  /\ UNCHANGED <<waitee, subsequent, queuedByOther, nextEntry, wakeupReady, queue, pending,
                 isLeader, group, walk, walkThen, prepared, lastCommitted>>
  /\ binlog' = binlog \o k /\ ToSet(binlog') = ToSet(binlog) \cup ToSet(k)
  /\ ToSet(k) \subseteq ToSet(group[t]) /\ \A a, b : Before(k, a, b) => Before(group[t], a, b)
  /\ IsInjective(binlog')

LEMMA LeaderWriteEffect ==
  ASSUME TypeOK, MutexInv, DistinctInv, NEW t \in Trx,
         \E E \in SUBSET WriteErrors : \E H \in SUBSET WriteErrors : LeaderWrite(t, E, H)
  PROVE  \E k \in Seq(Trx) : WriteEffect(t, k)
<1> USE Constants DEF Goto, wfcVars, entryVars, queueVars, lockVars, walkVars, endVars, logVars
<1>1. PICK E \in SUBSET WriteErrors, H \in SUBSET WriteErrors : LeaderWrite(t, E, H)
  OBVIOUS
<1> DEFINE g == group[t]
           k == Keep(g, Trx \ E)
<1>2. /\ pc[t] = "write" /\ pc'[t] = "written"
      /\ UNCHANGED <<waitee, subsequent, queuedByOther, nextEntry, wakeupReady, queue, pending,
                     isLeader, group, walk, walkThen, prepared, lastCommitted, lockLog>>
      /\ binlog' = binlog \o k
  BY <1>1 DEF LeaderWrite, TypeOK, TypePc
<1>3. g \in Seq(Trx) /\ binlog \in Seq(Trx)
  BY DEF TypeOK, TypeQueue, TypeLog
<1>4. /\ k \in Seq(Trx) /\ ToSet(k) \subseteq ToSet(g)
      /\ \A a, b : Before(k, a, b) => Before(g, a, b)
  BY <1>3, KeepOrder
<1>5. /\ ToSet(g) \cap ToSet(binlog) = {}
      /\ \A a : ~ Before(g, a, a)
      /\ \A a : ~ Before(binlog, a, a)
  BY <1>2, <1>3, OrderType DEF DistinctInv
<1> HIDE DEF k
<1>6. /\ binlog \o k \in Seq(Trx) /\ ToSet(binlog \o k) = ToSet(binlog) \cup ToSet(k)
      /\ \A a, b : Before(binlog \o k, a, b) <=>
           Before(binlog, a, b) \/ (a \in ToSet(binlog) /\ b \in ToSet(k)) \/ Before(k, a, b)
  BY <1>3, <1>4, OrderConcat
<1>7. \A a : ~ Before(binlog \o k, a, a)
  BY <1>4, <1>5, <1>6
<1>8. IsInjective(binlog')
  BY <1>2, <1>6, <1>7, OrderType
<1>9. lockLog = t
  BY <1>2 DEF MutexInv, Holds
<1>10. WriteEffect(t, k)
  BY <1>2, <1>4, <1>6, <1>8, <1>9 DEF WriteEffect
<1> QED BY <1>4, <1>10

\* wakeup_subsequent_commits() moves a list of waiters to the thread that wakes
\* them up.
BeginWakeup(t) == LeaderCommitOne(t) \/ OwnCommit(t) \/ FinishWake(t)

DetachEffect(t, c) ==
  /\ <<pc[t], At(t)'>> \in {<<"commit", "wake">>, <<"own", "chain">>, <<"finishWake", "done">>}
  /\ pc'[t] = "walk" /\ (pc[t] = "commit" => group[t] # <<>> /\ c = Head(group[t]))
  /\ (pc[t] # "commit" => c = t) /\ walk[t] = <<>>
  /\ walk' = [walk EXCEPT ![t] = subsequent[c]]
  /\ subsequent' = [subsequent EXCEPT ![c] = <<>>]
  /\ running' = [running EXCEPT ![c] = subsequent[c] # <<>>]
  /\ UNCHANGED <<waitee, queuedByOther, nextEntry, wakeupReady, queue, pending, isLeader,
                 group, prepared, binlog, lastCommitted, lockLog>>

LEMMA BeginWakeupEffect ==
  ASSUME TypeOK, PcInv, NEW t \in Trx, BeginWakeup(t)
  PROVE  \E c \in Trx : DetachEffect(t, c)
<1> USE Constants DEF Goto, wfcVars, entryVars, queueVars, lockVars, walkVars, endVars, logVars
<1>0. PcOk(t)
  BY DEF PcInv
<1> USE DEF TypeOK, TypePc, TypeWalk, StartWakeup, At, WalkPcs
<1>1. CASE LeaderCommitOne(t)
  <2>1. Head(group[t]) \in Trx
    BY <1>1, OrderTail DEF LeaderCommitOne, TypeQueue
  <2>2. pc[t] = "commit" /\ group[t] # <<>> /\ StartWakeup(t, Head(group[t]), entryError[Head(group[t])], "wake")
    BY <1>1 DEF LeaderCommitOne
  <2>3. DetachEffect(t, Head(group[t]))
    BY <1>0, <1>1, <2>1, <2>2 DEF LeaderCommitOne, PcOk, DetachEffect
  <2> QED BY <2>1, <2>3
<1>2. CASE OwnCommit(t)
  <2>1. DetachEffect(t, t)
    BY <1>0, <1>2 DEF OwnCommit, PcOk, DetachEffect
  <2> QED BY <2>1
<1>3. CASE FinishWake(t)
  <2>1. DetachEffect(t, t)
    BY <1>0, <1>3 DEF FinishWake, PcOk, DetachEffect
  <2> QED BY <2>1
<1> QED BY <1>1, <1>2, <1>3 DEF BeginWakeup

LEMMA WakeupWaiteeEffect ==
  ASSUME TypeOK, NEW t \in Trx, WakeupWaitee(t)
  PROVE  LET w == Head(walk[t]) IN
         /\ pc[t] = "walk" /\ pc'[t] = "walkError" /\ At(t)' = At(t) /\ w \in Trx /\ w \in ToSet(walk[t])
         /\ waitee' = [waitee EXCEPT ![w] = None]
         /\ UNCHANGED <<subsequent, queuedByOther, nextEntry, wakeupReady, queue, pending, isLeader,
                        group, walk, walkThen, prepared, binlog, lastCommitted, lockLog>>
<1> USE DEF Goto, wfcVars, entryVars, queueVars, lockVars, walkVars, endVars, logVars
<1>1. Head(walk[t]) \in Trx /\ Head(walk[t]) \in ToSet(walk[t])
  BY OrderTail DEF WakeupWaitee, TypeOK, TypeWalk
<1> QED BY <1>1 DEF WakeupWaitee, TypeOK, TypePc, At

LEMMA WakeupErrorEffect ==
  ASSUME TypeOK, PcInv, WfcInv, NEW t \in Trx, WakeupError(t)
  PROVE  LET w == Head(walk[t]) IN
         /\ pc[t] = "walkError" /\ pc'[t] = "walk" /\ At(t)' = At(t) /\ w \in Trx /\ waitee[w] = None
         /\ walk' = [walk EXCEPT ![t] = Tail(@)] /\ ToSet(walk[t]) = ToSet(walk'[t]) \cup {w}
         /\ UNCHANGED <<waitee, subsequent, queuedByOther, nextEntry, wakeupReady, queue, pending,
                        isLeader, group, walkThen, prepared, binlog, lastCommitted, lockLog>>
<1> USE DEF Goto, wfcVars, entryVars, queueVars, lockVars, walkVars, endVars, logVars
<1>1. pc[t] = "walkError" /\ walk[t] # <<>> /\ walk[t] \in Seq(Trx)
  BY DEF WakeupError, PcInv, PcOk, TypeOK, TypeWalk
<1>2. Head(walk[t]) \in Trx /\ ToSet(walk[t]) = {Head(walk[t])} \cup ToSet(Tail(walk[t]))
  BY <1>1, OrderTail
<1>3. walk'[t] = Tail(walk[t])
  BY DEF WakeupError, TypeOK, TypeWalk
<1> QED BY <1>1, <1>2, <1>3 DEF WakeupError, WfcInv, TypeOK, TypePc, At

LEMMA ReserveEffect ==
  ASSUME TypeOK, PcInv, NEW t \in Trx, Reserve(t)
  PROVE  /\ pc[t] \in {"reserve", "reserveWait"} /\ pc'[t] = "own" /\ ~OptimizeThreadScheduling
         /\ group' = [group EXCEPT ![t] = <<>>]
         /\ UNCHANGED <<waitee, subsequent, queuedByOther, nextEntry, wakeupReady, queue, pending,
                        isLeader, walk, walkThen, prepared, binlog, lastCommitted, lockLog>>
  BY DEF Reserve, Goto, wfcVars, entryVars, walkVars, endVars, logVars, TypeOK, TypePc, PcInv, PcOk, At,
         WalkPcs

\* The owner of the next entry is woken up, and the entry leaves the group.
WakeNext(t) == LeaderWakeOne(t) \/ OwnWakeNext(t)

WakeEffect(t, e) ==
  /\ <<pc[t], At(t)'>> \in {<<"wake", "commit">>, <<"chain", "return">>}
  /\ pc'[t] \in {"commit", "return", "walk"}
  /\ UNCHANGED <<waitee, subsequent, queuedByOther, nextEntry, queue, pending, isLeader,
                 prepared, binlog, lastCommitted, lockLog>>
  /\ e \notin Queued /\ (e # None => Settled(e)) /\ (pc[t] = "chain" => e = nextEntry[t] /\ group' = group)
  /\ \A l \in Trx : /\ ToSet(group'[l]) = ToSet(group[l]) \ {e} /\ IsInjective(group'[l])
                    /\ l # t => group'[l] = group[l]
  /\ \A x \in Trx : x # e => wakeupReady'[x] = wakeupReady[x]
  /\ \A x \in Trx : x # t => walk'[x] = walk[x]
  /\ ToSet(walk'[t]) = IF e # None /\ queuedByOther[e] THEN {e} ELSE {}

LEMMA WakeNextEffect ==
  ASSUME Inv, NEW t \in Trx, WakeNext(t)
  PROVE  \E e \in Trx \cup {None} : WakeEffect(t, e)
<1> USE Constants DEF Goto, wfcVars, entryVars, queueVars, lockVars, walkVars, endVars, logVars
<1>0. TypeOK /\ PcInv /\ DistinctInv /\ MemberInv /\ NextInv /\ SettledInv /\ PcOk(t)
  BY DEF Inv, PcInv
<1>1. CASE LeaderWakeOne(t)
  <2> DEFINE e == Head(group[t])
  <2>1. pc[t] = "wake" /\ group[t] # <<>> /\ group[t] \in Seq(Trx) /\ walk[t] = <<>>
    BY <1>0, <1>1 DEF LeaderWakeOne, PcOk, At, WalkPcs, TypeOK, TypeQueue
  <2>2. /\ e \in Trx /\ Tail(group[t]) \in Seq(Trx) /\ ToSet(group[t]) = {e} \cup ToSet(Tail(group[t]))
        /\ \A a, b : Before(group[t], a, b) <=>
             (a = e /\ b \in ToSet(Tail(group[t]))) \/ Before(Tail(group[t]), a, b)
    BY <2>1, OrderTail
  <2>3. \A a : ~ Before(group[t], a, a)
    BY <1>0, <2>1, OrderType DEF DistinctInv
  <2>4. ToSet(Tail(group[t])) = ToSet(group[t]) \ {e} /\ IsInjective(Tail(group[t]))
    <3>1. e \notin ToSet(Tail(group[t])) /\ \A a : ~ Before(Tail(group[t]), a, a)
      BY <2>2, <2>3
    <3> DEFINE s == Tail(group[t])
    <3>2. s \in Seq(Trx) /\ \A a : ~ Before(s, a, a)
      BY <2>2, <3>1
    <3> HIDE DEF s
    <3>3. IsInjective(s)
      BY <3>2, OrderType
    <3> QED BY <2>2, <3>1, <3>3 DEF s
  <2>5. e \in ToSet(group[t]) /\ e \notin Queued /\ \A l \in Trx : l # t => e \notin ToSet(group[l])
    BY <1>0, <2>2 DEF DistinctInv
  <2>6. Settled(e)
    BY <1>0, <2>2, <2>5 DEF SettledInv, Entered, InGroup
  <2>7. e = t => ~queuedByOther[e]
    BY <1>0, <2>1, <2>5 DEF MemberInv, Parked, WaitPcs
  <2>8. /\ group' = [group EXCEPT ![t] = Tail(group[t])]
        /\ UNCHANGED <<waitee, subsequent, queuedByOther, nextEntry, queue, pending, isLeader,
                       prepared, binlog, lastCommitted, lockLog>>
        /\ IF e = t THEN pc' = [pc EXCEPT ![t] = "commit"] /\ UNCHANGED <<walk, wakeupReady>>
                    ELSE WakeOwner(t, e, entryError[e], "commit")
    BY <1>1 DEF LeaderWakeOne
  <2> HIDE DEF e
  <2>9. \A l \in Trx : /\ ToSet(group'[l]) = ToSet(group[l]) \ {e} /\ IsInjective(group'[l])
                       /\ l # t => group'[l] = group[l]
    <3> TAKE l \in Trx
    <3>1. CASE l = t
      BY <1>0, <2>4, <2>8, <3>1 DEF TypeOK, TypeQueue
    <3>2. CASE l # t
      BY <1>0, <2>5, <2>8, <3>2 DEF TypeOK, TypeQueue, DistinctInv
    <3> QED BY <3>1, <3>2
  <2>10. /\ At(t)' = "commit" /\ pc'[t] \in {"commit", "walk"}
         /\ \A x \in Trx : x # e => wakeupReady'[x] = wakeupReady[x]
         /\ \A x \in Trx : x # t => walk'[x] = walk[x]
         /\ walk'[t] = IF queuedByOther[e] THEN <<e>> ELSE <<>>
    <3>1. CASE e = t
      BY <1>0, <2>1, <2>7, <2>8, <3>1 DEF TypeOK, TypePc, TypeWalk, At, WalkPcs
    <3>2. CASE e # t /\ queuedByOther[e]
      BY <1>0, <2>1, <2>8, <3>2 DEF WakeOwner, TypeOK, TypePc, TypeWalk, At, WalkPcs
    <3>3. CASE e # t /\ ~queuedByOther[e]
      BY <1>0, <2>1, <2>8, <3>3 DEF WakeOwner, TypeOK, TypePc, TypeWalk, TypeEntry, At, WalkPcs
    <3> QED BY <3>1, <3>2, <3>3
  <2>11. ToSet(walk'[t]) = IF e # None /\ queuedByOther[e] THEN {e} ELSE {}
    BY <2>2, <2>10, OrderEmpty, OrderSingle
  <2>12. WakeEffect(t, e)
    BY <2>1, <2>2, <2>5, <2>6, <2>8, <2>9, <2>10, <2>11 DEF WakeEffect
  <2> QED BY <2>2, <2>12
<1>2. CASE OwnWakeNext(t)
  <2> DEFINE e == nextEntry[t]
  <2>1. /\ pc[t] = "chain" /\ walk[t] = <<>> /\ ~OptimizeThreadScheduling /\ e \in Trx \cup {None}
    BY <1>0, <1>2 DEF OwnWakeNext, PcOk, At, WalkPcs, TypeOK, TypeEntry
  <2>2. e \notin Queued
    BY <1>0, <2>1, LineType DEF NextInv
  <2>3. \A l \in Trx : t \notin ToSet(group[l])
    <3> SUFFICES ASSUME NEW l \in Trx, t \in ToSet(group[l]) PROVE FALSE
      OBVIOUS
    <3>1. l = t
      BY <1>0, <2>1 DEF MemberInv, Parked, WaitPcs
    <3>2. group[t] # <<>>
      BY <3>1, OrderEmpty
    <3> QED BY <1>0, <2>1, <3>2 DEF PcOk, At, WalkPcs, LeaderPcs
  <2>4. \A l \in Trx : e \notin ToSet(group[l])
    BY <1>0, <2>1, <2>3 DEF NextInv
  <2>5. e # None => Settled(e)
    BY <1>0, <2>1 DEF SettledInv, Entered
  <2>6. /\ group' = group
        /\ UNCHANGED <<waitee, subsequent, queuedByOther, nextEntry, queue, pending, isLeader,
                       prepared, binlog, lastCommitted, lockLog>>
        /\ IF e = None THEN pc' = [pc EXCEPT ![t] = "return"] /\ UNCHANGED <<walk, wakeupReady>>
                       ELSE WakeOwner(t, e, entryError[t], "return")
    BY <1>2 DEF OwnWakeNext
  <2>7. \A l \in Trx : IsInjective(group[l])
    BY <1>0 DEF DistinctInv
  <2> HIDE DEF e
  <2>8. /\ At(t)' = "return" /\ pc'[t] \in {"return", "walk"}
        /\ \A x \in Trx : x # e => wakeupReady'[x] = wakeupReady[x]
        /\ \A x \in Trx : x # t => walk'[x] = walk[x]
        /\ walk'[t] = IF e # None /\ queuedByOther[e] THEN <<e>> ELSE <<>>
    <3>1. CASE e = None
      BY <1>0, <2>1, <2>6, <3>1 DEF TypeOK, TypePc, TypeWalk, At, WalkPcs
    <3>2. CASE e # None /\ queuedByOther[e]
      BY <1>0, <2>1, <2>6, <3>2 DEF WakeOwner, TypeOK, TypePc, TypeWalk, At, WalkPcs
    <3>3. CASE e # None /\ ~queuedByOther[e]
      BY <1>0, <2>1, <2>6, <3>3 DEF WakeOwner, TypeOK, TypePc, TypeWalk, TypeEntry, At, WalkPcs
    <3> QED BY <3>1, <3>2, <3>3
  <2>9. ToSet(walk'[t]) = IF e # None /\ queuedByOther[e] THEN {e} ELSE {}
    BY <2>1, <2>8, OrderEmpty, OrderSingle
  <2>10. \A l \in Trx : ToSet(group'[l]) = ToSet(group[l]) \ {e} /\ IsInjective(group'[l])
    BY <2>4, <2>6, <2>7
  <2>11. WakeEffect(t, e)
    BY <2>1, <2>2, <2>5, <2>6, <2>8, <2>9, <2>10 DEF e, WakeEffect
  <2> QED BY <2>1, <2>11 DEF e
<1> QED BY <1>1, <1>2 DEF WakeNext

-----------------------------------------------------------------------------
(* The parts of the invariant are preserved                                *)

LEMMA StepKinds ==
  ASSUME NEW t \in Trx, Step(t) \/ Kill(t)
  PROVE  \/ OwnStep(t) \/ Register(t) \/ KillTaken(t) \/ QueueLock(t) \/ QueueEntry(t)
         \/ LeaderCollect(t)
         \/ (\E E \in SUBSET WriteErrors : \E H \in SUBSET WriteErrors : LeaderWrite(t, E, H))
         \/ BeginWakeup(t) \/ WakeNext(t) \/ Reserve(t) \/ WakeupWaitee(t) \/ WakeupError(t)
  BY DEF Step, OwnStep, KillTaken, BeginWakeup, WakeNext

\* A step that leaves the lists of waiters alone.
LEMMA SubFrame ==
  ASSUME SubInv, NEW t \in Trx, UNCHANGED <<waitee, subsequent, queuedByOther, walk>>,
         pc'[t] # "start", \A x \in Trx : x # t => pc'[x] = pc[x]
  PROVE  SubInv'
<1>1. \A x : InWalk(x)' <=> InWalk(x)
  BY DEF InWalk
<1> QED BY <1>1 DEF SubInv

LEMMA SubStep ==
  ASSUME Inv, NEW t \in Trx, Step(t) \/ Kill(t)
  PROVE  SubInv'
<1> USE Constants
<1>0. TypeOK /\ PcInv /\ MutexInv /\ WfcInv /\ SubInv /\ DistinctInv /\ HeadInv /\ NextInv
  BY DEF Inv
<1>a. \A x \in Trx : x # t => pc'[x] = pc[x]
  BY <1>0, Others
<1>b. \A c \in Trx : ToSet(subsequent[c]) \subseteq Workers
  BY <1>0, OrderType DEF TypeOK, TypeWfc
<1>c. \A c \in Trx : \A w \in ToSet(subsequent[c]) :
        w \in Trx /\ waitee[w] = c /\ ~queuedByOther[w] /\ ~InWalk(w)
  <2> TAKE c \in Trx
  <2> TAKE w \in ToSet(subsequent[c])
  <2>1. w \in Trx
    BY <1>b
  <2> QED BY <1>0, <2>1 DEF SubInv
<1>1. CASE OwnStep(t)
  <2>1. pc'[t] # "start" /\ UNCHANGED <<waitee, subsequent, queuedByOther, walk>>
    BY <1>0, <1>1, OwnStepEffect DEF Shared, MovesOn
  <2> QED BY <1>0, <1>a, <2>1, SubFrame
<1>2. CASE Register(t)
  <2>1. /\ t \in Workers /\ pc[t] = "start" /\ pc'[t] \in {"wfp", "run"}
        /\ UNCHANGED <<queuedByOther, walk>> /\ waitee[t] = None /\ ~InWalk(t)
    BY <1>0, <1>2, RegisterEffect
  <2>2. CASE UNCHANGED <<waitee, subsequent>>
    BY <1>0, <1>a, <2>1, <2>2 DEF SubInv, InWalk
  <2>3. CASE ~ UNCHANGED <<waitee, subsequent>>
    <3>1. PICK c \in Workers :
            /\ waitee' = [waitee EXCEPT ![t] = c]
            /\ subsequent' = [subsequent EXCEPT ![c] = <<t>> \o @]
            /\ ToSet(<<t>> \o subsequent[c]) = ToSet(subsequent[c]) \cup {t}
            /\ IsInjective(<<t>> \o subsequent[c])
      BY <1>0, <1>2, <2>3, RegisterEffect
    <3>2. /\ waitee'[t] = c /\ \A x \in Trx : x # t => waitee'[x] = waitee[x]
          /\ ToSet(subsequent'[c]) = ToSet(subsequent[c]) \cup {t} /\ IsInjective(subsequent'[c])
          /\ \A d \in Trx : d # c => subsequent'[d] = subsequent[d]
      BY <1>0, <3>1 DEF TypeOK, TypeWfc
    <3>3. ~queuedByOther[t]
      BY <2>1 DEF Inv, SettledInv, Entered, Settled
    <3>4. \A d \in Trx : t \notin ToSet(subsequent[d])
      BY <1>0, <2>1 DEF SubInv
    <3>5. \A d \in Trx : /\ IsInjective(subsequent'[d])
                         /\ \A w \in ToSet(subsequent'[d]) :
                              waitee'[w] = d /\ ~queuedByOther'[w] /\ ~InWalk(w)'
      <4> TAKE d \in Trx
      <4>0. \A x : InWalk(x)' <=> InWalk(x)
        BY <2>1 DEF InWalk
      <4>1. CASE d = c
        <5>1. c \in Trx /\ ~InWalk(t)'
          BY <2>1, <4>0
        <5>2. \A w \in ToSet(subsequent[c]) :
                w \in Trx /\ w # t /\ waitee[w] = c /\ ~queuedByOther[w] /\ ~InWalk(w)
          BY <1>c, <3>4, <5>1
        <5> QED BY <2>1, <3>2, <3>3, <4>0, <4>1, <5>1, <5>2
      <4>2. CASE d # c
        <5>1. \A w \in ToSet(subsequent[d]) :
                w \in Trx /\ w # t /\ waitee[w] = d /\ ~queuedByOther[w] /\ ~InWalk(w)
          BY <1>c, <3>4
        <5> QED BY <1>0, <2>1, <3>2, <4>0, <4>2, <5>1 DEF SubInv
      <4> QED BY <4>1, <4>2
    <3> QED BY <1>0, <1>a, <2>1, <3>2, <3>5 DEF SubInv, InWalk
  <2> QED BY <2>2, <2>3
<1>3. CASE KillTaken(t)
  <2>1. /\ pc'[t] # "start" /\ UNCHANGED <<queuedByOther, walk>>
        /\ waitee' = [waitee EXCEPT ![t] = None]
        /\ \A c \in Trx : ToSet(subsequent'[c]) = ToSet(subsequent[c]) \ {t} /\ IsInjective(subsequent'[c])
    BY <1>0, <1>3, KillTakenEffect
  <2>2. \A x \in Trx : waitee'[x] = IF x = t THEN None ELSE waitee[x]
    BY <1>0, <2>1 DEF TypeOK, TypeWfc
  <2>3. \A x : InWalk(x)' <=> InWalk(x)
    BY <2>1 DEF InWalk
  <2> QED BY <1>0, <1>a, <1>b, <2>1, <2>2, <2>3 DEF SubInv
<1>4. CASE QueueLock(t)
  <2>1. pc'[t] # "start" /\ UNCHANGED <<waitee, subsequent, queuedByOther, walk>>
    BY <1>0, <1>4, QueueLockEffect
  <2> QED BY <1>0, <1>a, <2>1, SubFrame
<1>5. CASE QueueEntry(t)
  <2>1. PICK e \in Trx, ready \in Seq(Trx) : EntryEffect(t, e, ready)
    BY <1>0, <1>5, QueueEntryEffect
  <2>2. /\ pc'[t] # "start" /\ UNCHANGED <<waitee, walk>>
        /\ \A c \in Trx : /\ ToSet(subsequent'[c]) = ToSet(subsequent[c]) \ ToSet(ready)
                          /\ IsInjective(subsequent'[c])
        /\ \A w \in Trx : queuedByOther'[w] = (queuedByOther[w] \/ w \in ToSet(ready))
    BY <2>1 DEF EntryEffect
  <2>3. \A x : InWalk(x)' <=> InWalk(x)
    BY <2>2 DEF InWalk
  <2>4. \A c \in Trx : \A w \in ToSet(subsequent'[c]) :
          w \in Trx /\ waitee[w] = c /\ ~queuedByOther[w] /\ ~InWalk(w) /\ w \notin ToSet(ready)
    <3> TAKE c \in Trx
    <3> TAKE w \in ToSet(subsequent'[c])
    <3>1. w \in ToSet(subsequent[c]) /\ w \notin ToSet(ready)
      BY <2>2
    <3> QED BY <1>c, <3>1
  <2>5. \A w \in Trx : waitee'[w] # None \/ InWalk(w)' => pc'[w] # "start"
    BY <1>0, <1>a, <2>2, <2>3 DEF SubInv
  <2> QED BY <2>2, <2>3, <2>4, <2>5 DEF SubInv
<1>6. CASE LeaderCollect(t)
  <2>1. pc'[t] # "start" /\ UNCHANGED <<waitee, subsequent, queuedByOther, walk>>
    BY <1>0, <1>6, LeaderCollectEffect
  <2> QED BY <1>0, <1>a, <2>1, SubFrame
<1>7. CASE \E E \in SUBSET WriteErrors : \E H \in SUBSET WriteErrors : LeaderWrite(t, E, H)
  <2>1. pc'[t] # "start" /\ UNCHANGED <<waitee, subsequent, queuedByOther, walk>>
    BY <1>0, <1>7, LeaderWriteEffect DEF WriteEffect
  <2> QED BY <1>0, <1>a, <2>1, SubFrame
<1>8. CASE BeginWakeup(t)
  <2>0. PICK c \in Trx : DetachEffect(t, c)
    BY <1>0, <1>8, BeginWakeupEffect
  <2>1. /\ pc'[t] # "start" /\ walk[t] = <<>>
        /\ walk' = [walk EXCEPT ![t] = subsequent[c]]
        /\ subsequent' = [subsequent EXCEPT ![c] = <<>>]
        /\ UNCHANGED <<waitee, queuedByOther>>
    BY <2>0 DEF DetachEffect
  <2>2. /\ walk'[t] = subsequent[c] /\ \A x \in Trx : x # t => walk'[x] = walk[x]
        /\ subsequent'[c] = <<>> /\ \A d \in Trx : d # c => subsequent'[d] = subsequent[d]
    BY <1>0, <2>1 DEF TypeOK, TypeWfc, TypeWalk
  <2>3. \A x : InWalk(x)' => InWalk(x) \/ x \in ToSet(subsequent[c])
    BY <2>2 DEF InWalk
  <2>4. \A w \in ToSet(subsequent[c]) : w \in Trx /\ waitee[w] = c
    BY <1>0, <1>b DEF SubInv
  <2>5. \A d \in Trx : /\ IsInjective(subsequent'[d])
                       /\ \A w \in ToSet(subsequent'[d]) :
                            waitee'[w] = d /\ ~queuedByOther'[w] /\ ~InWalk(w)'
    <3> TAKE d \in Trx
    <3>1. CASE d = c
      BY <2>2, <3>1, OrderEmpty
    <3>2. CASE d # c
      BY <1>0, <2>1, <2>2, <2>3, <2>4, <3>2 DEF SubInv
    <3> QED BY <3>1, <3>2
  <2>6. \A w \in Trx : waitee'[w] # None \/ InWalk(w)' => pc'[w] # "start"
    BY <1>0, <1>a, <2>1, <2>3, <2>4 DEF SubInv
  <2> QED BY <2>5, <2>6 DEF SubInv
<1>9. CASE WakeNext(t)
  <2>0. PICK e \in Trx \cup {None} : WakeEffect(t, e)
    BY <1>9, WakeNextEffect
  <2>1. /\ pc'[t] # "start" /\ UNCHANGED <<waitee, subsequent, queuedByOther>>
        /\ (e # None => Settled(e))
        /\ \A x \in Trx : x # t => walk'[x] = walk[x]
        /\ ToSet(walk'[t]) = IF e # None /\ queuedByOther[e] THEN {e} ELSE {}
    BY <2>0 DEF WakeEffect
  <2>2. \A x : InWalk(x)' => InWalk(x) \/ (x = e /\ e # None /\ queuedByOther[e])
    BY <2>1 DEF InWalk
  <2>3. e # None => pc[e] # "start" /\ pc'[e] # "start"
    BY <1>a, <2>1 DEF Settled
  <2> QED BY <1>0, <1>a, <2>1, <2>2, <2>3 DEF SubInv
<1>10. CASE Reserve(t)
  <2>1. pc'[t] # "start" /\ UNCHANGED <<waitee, subsequent, queuedByOther, walk>>
    BY <1>0, <1>10, ReserveEffect
  <2> QED BY <1>0, <1>a, <2>1, SubFrame
<1>11. CASE WakeupWaitee(t)
  <2> DEFINE v == Head(walk[t])
  <2>1. /\ pc'[t] # "start" /\ v \in Trx /\ InWalk(v) /\ waitee' = [waitee EXCEPT ![v] = None]
        /\ UNCHANGED <<subsequent, queuedByOther, walk>>
    BY <1>0, <1>11, WakeupWaiteeEffect DEF InWalk
  <2> HIDE DEF v
  <2>2. \A x \in Trx : waitee'[x] = IF x = v THEN None ELSE waitee[x]
    BY <1>0, <2>1 DEF TypeOK, TypeWfc
  <2> QED BY <1>0, <1>a, <1>b, <2>1, <2>2 DEF SubInv, InWalk
<1>12. CASE WakeupError(t)
  <2>1. /\ pc'[t] # "start" /\ UNCHANGED <<waitee, subsequent, queuedByOther>>
        /\ ToSet(walk'[t]) \subseteq ToSet(walk[t])
        /\ \A x \in Trx : x # t => walk'[x] = walk[x]
    BY <1>0, <1>12, WakeupErrorEffect DEF TypeOK, TypeWalk
  <2>2. \A x : InWalk(x)' => InWalk(x)
    BY <2>1 DEF InWalk
  <2> QED BY <1>0, <1>a, <2>1, <2>2 DEF SubInv
<1> QED BY StepKinds, <1>1, <1>2, <1>3, <1>4, <1>5, <1>6, <1>7, <1>8, <1>9, <1>10, <1>11, <1>12

\* The steps that do not touch the queue or a group.
Quiet(t) ==
  /\ UNCHANGED <<queuedByOther, nextEntry, wakeupReady, queue, pending, isLeader, group, prepared,
                 binlog, Line, Queued>>
  /\ pc[t] \notin {"enqueue", "lead", "write"} /\ pc'[t] \notin {"enqueue", "lead", "write"}

LEMMA QuietKinds ==
  ASSUME Inv, NEW t \in Trx,
         OwnStep(t) \/ Register(t) \/ KillTaken(t) \/ BeginWakeup(t) \/ WakeupWaitee(t) \/ WakeupError(t)
  PROVE  Quiet(t)
<1>0. TypeOK /\ PcInv /\ WfcInv /\ SubInv
  BY DEF Inv
<1>a. (queue' = queue /\ pending' = pending) => UNCHANGED <<Line, Queued>>
  BY DEF Line, Queued
<1>1. CASE OwnStep(t)
  BY <1>0, <1>1, <1>a, OwnStepEffect DEF Shared, MovesOn, Quiet
<1>2. CASE Register(t)
  BY <1>0, <1>2, <1>a, RegisterEffect DEF Quiet
<1>3. CASE KillTaken(t)
  BY <1>0, <1>3, <1>a, KillTakenEffect DEF Quiet
<1>4. CASE BeginWakeup(t)
  <2>1. PICK c \in Trx : DetachEffect(t, c)
    BY <1>0, <1>4, BeginWakeupEffect
  <2> QED BY <1>a, <2>1 DEF DetachEffect, Quiet
<1>5. CASE WakeupWaitee(t)
  BY <1>0, <1>5, <1>a, WakeupWaiteeEffect DEF Quiet
<1>6. CASE WakeupError(t)
  BY <1>0, <1>6, <1>a, WakeupErrorEffect DEF Quiet
<1> QED BY <1>1, <1>2, <1>3, <1>4, <1>5, <1>6

\* Nobody who has been queued goes back to where it queues itself.
LEMMA SettledStays ==
  ASSUME Inv, NEW t \in Trx, Step(t) \/ Kill(t)
  PROVE  \A x \in Trx : Settled(x) => Settled(x)'
<1>0. TypeOK /\ PcInv /\ MutexInv /\ WfcInv /\ SubInv /\ DistinctInv /\ HeadInv /\ NextInv
  BY DEF Inv
<1>a. \A x \in Trx : x # t => pc'[x] = pc[x]
  BY <1>0, Others
<1> DEFINE away == {"start", "run", "check", "recheck", "offer", "wait", "wait2", "kill",
                       "error"}
<1>b. ASSUME \A x \in Trx : queuedByOther[x] => queuedByOther'[x], Settled(t) => Settled(t)'
      PROVE  \A x \in Trx : Settled(x) => Settled(x)'
  BY <1>a, <1>b DEF Settled
<1>c. pc'[t] \notin away => Settled(t)'
  BY DEF Settled, WaitPcs
<1>1. CASE OwnStep(t)
  BY <1>0, <1>1, <1>b, OwnStepEffect DEF Shared, MovesOn
<1>2. CASE Register(t)
  <2>1. pc[t] = "start" /\ UNCHANGED queuedByOther
    BY <1>0, <1>2, RegisterEffect
  <2> QED BY <2>1, <1>b DEF Settled
<1>3. CASE KillTaken(t)
  <2>1. pc'[t] \notin away /\ UNCHANGED queuedByOther
    BY <1>0, <1>3, KillTakenEffect
  <2> QED BY <1>b, <1>c, <2>1
<1>4. CASE QueueLock(t)
  <2>1. pc'[t] \notin away /\ UNCHANGED queuedByOther
    BY <1>0, <1>4, QueueLockEffect
  <2> QED BY <1>b, <1>c, <2>1
<1>5. CASE QueueEntry(t)
  <2>0. PICK e \in Trx, ready \in Seq(Trx) : EntryEffect(t, e, ready)
    BY <1>0, <1>5, QueueEntryEffect
  <2>1. /\ pc'[t] \notin away
        /\ \A w \in Trx : queuedByOther'[w] = (queuedByOther[w] \/ w \in ToSet(ready))
    BY <2>0 DEF EntryEffect
  <2> QED BY <1>b, <1>c, <2>1
<1>6. CASE LeaderCollect(t)
  <2>1. pc'[t] \notin away /\ UNCHANGED queuedByOther
    BY <1>0, <1>6, LeaderCollectEffect
  <2> QED BY <1>b, <1>c, <2>1
<1>7. CASE \E E \in SUBSET WriteErrors : \E H \in SUBSET WriteErrors : LeaderWrite(t, E, H)
  <2>1. pc'[t] \notin away /\ UNCHANGED queuedByOther
    BY <1>0, <1>7, LeaderWriteEffect DEF WriteEffect
  <2> QED BY <1>b, <1>c, <2>1
<1>8. CASE BeginWakeup(t)
  <2>1. pc'[t] \notin away /\ UNCHANGED queuedByOther
    BY <1>0, <1>8, BeginWakeupEffect DEF DetachEffect
  <2> QED BY <1>b, <1>c, <2>1
<1>9. CASE WakeNext(t)
  <2>1. pc'[t] \notin away /\ UNCHANGED queuedByOther
    BY <1>9, WakeNextEffect DEF WakeEffect
  <2> QED BY <1>b, <1>c, <2>1
<1>10. CASE Reserve(t)
  <2>1. pc'[t] \notin away /\ UNCHANGED queuedByOther
    BY <1>0, <1>10, ReserveEffect
  <2> QED BY <1>b, <1>c, <2>1
<1>11. CASE WakeupWaitee(t)
  <2>1. pc'[t] \notin away /\ UNCHANGED queuedByOther
    BY <1>0, <1>11, WakeupWaiteeEffect
  <2> QED BY <1>b, <1>c, <2>1
<1>12. CASE WakeupError(t)
  <2>1. pc'[t] \notin away /\ UNCHANGED queuedByOther
    BY <1>0, <1>12, WakeupErrorEffect
  <2> QED BY <1>b, <1>c, <2>1
<1> QED BY StepKinds, <1>1, <1>2, <1>3, <1>4, <1>5, <1>6, <1>7, <1>8, <1>9, <1>10, <1>11, <1>12

LEMMA SettledStep ==
  ASSUME Inv, NEW t \in Trx, Step(t) \/ Kill(t)
  PROVE  SettledInv'
<1> USE Constants
<1>0. /\ TypeOK /\ PcInv /\ MutexInv /\ WfcInv /\ SubInv /\ DistinctInv /\ HeadInv /\ NextInv
      /\ SettledInv
  BY DEF Inv
<1>a. \A x \in Trx : Entered(x) => Settled(x)'
  BY <1>0, SettledStays DEF SettledInv
<1>b. SUFFICES \A x \in Trx : Entered(x)' => Entered(x) \/ Settled(x)'
  BY <1>a DEF SettledInv
<1>1. CASE Quiet(t)
  BY <1>1 DEF Quiet, Entered, InGroup
<1>2. CASE QueueLock(t)
  <2>1. /\ UNCHANGED <<queuedByOther, nextEntry, group, binlog>> /\ Queued' = Queued \cup {t}
        /\ pc'[t] = "enqueue"
    BY <1>0, <1>2, QueueLockEffect
  <2>2. Settled(t)'
    BY <2>1 DEF Settled, WaitPcs
  <2>3. \A x \in Trx : Entered(x)' => Entered(x) \/ x = t
    BY <2>1 DEF Entered, InGroup
  <2> QED BY <2>2, <2>3
<1>3. CASE QueueEntry(t)
  <2>0. PICK e \in Trx, ready \in Seq(Trx) : EntryEffect(t, e, ready)
    BY <1>0, <1>3, QueueEntryEffect
  <2>1. /\ UNCHANGED <<nextEntry, group, binlog>> /\ Queued' = Queued \cup ToSet(ready)
        /\ \A w \in Trx : queuedByOther'[w] = (queuedByOther[w] \/ w \in ToSet(ready))
        /\ \A w \in ToSet(ready) : pc'[w] = "wait"
    BY <2>0 DEF EntryEffect
  <2>2. \A w \in Trx : w \in ToSet(ready) => Settled(w)'
    BY <2>1 DEF Settled, WaitPcs
  <2>3. \A x \in Trx : Entered(x)' => Entered(x) \/ x \in ToSet(ready)
    BY <2>1 DEF Entered, InGroup
  <2> QED BY <2>2, <2>3
<1>4. CASE LeaderCollect(t)
  <2>1. /\ UNCHANGED <<queuedByOther, binlog>> /\ Queued' = {}
        /\ Line = queue /\ group' = [group EXCEPT ![t] = queue]
        /\ \A x \in Trx : x \notin Queued => nextEntry'[x] = nextEntry[x]
        /\ \A x \in Queued : nextEntry'[x] \in Queued \cup {None}
    BY <1>0, <1>4, LeaderCollectEffect
  <2>2. \A x \in Trx : InGroup(x)' => InGroup(x) \/ x \in Queued
    BY <1>0, <2>1 DEF InGroup, Queued, TypeOK, TypeQueue
  <2>3. \A x \in Trx : nextEntry'[x] # None => nextEntry[x] # None \/ x \in Queued
    BY <2>1
  <2>4. \A x \in Trx : (\E y \in Trx : nextEntry'[y] = x) =>
                          (\E y \in Trx : nextEntry[y] = x) \/ x \in Queued
    <3> TAKE x \in Trx
    <3> SUFFICES ASSUME NEW y \in Trx, nextEntry'[y] = x
                 PROVE  (\E z \in Trx : nextEntry[z] = x) \/ x \in Queued
      OBVIOUS
    <3>1. x # None
      OBVIOUS
    <3> QED BY <2>1, <3>1
  <2> QED BY <2>1, <2>2, <2>3, <2>4 DEF Entered
<1>5. CASE \E E \in SUBSET WriteErrors : \E H \in SUBSET WriteErrors : LeaderWrite(t, E, H)
  <2>0. PICK k \in Seq(Trx) : WriteEffect(t, k)
    BY <1>0, <1>5, LeaderWriteEffect
  <2>1. /\ UNCHANGED <<queuedByOther, nextEntry, group, queue, pending>>
        /\ ToSet(binlog') = ToSet(binlog) \cup ToSet(k) /\ ToSet(k) \subseteq ToSet(group[t])
    BY <2>0 DEF WriteEffect
  <2>2. Queued' = Queued
    BY <2>1 DEF Queued, Line
  <2> QED BY <2>1, <2>2 DEF Entered, InGroup
<1>6. CASE WakeNext(t)
  <2>0. PICK e \in Trx \cup {None} : WakeEffect(t, e)
    BY <1>6, WakeNextEffect
  <2>1. /\ UNCHANGED <<queuedByOther, nextEntry, binlog, queue, pending>>
        /\ \A l \in Trx : ToSet(group'[l]) = ToSet(group[l]) \ {e}
    BY <2>0 DEF WakeEffect
  <2>2. Queued' = Queued
    BY <2>1 DEF Queued, Line
  <2> QED BY <2>1, <2>2 DEF Entered, InGroup
<1>7. CASE Reserve(t)
  <2>1. /\ UNCHANGED <<queuedByOther, nextEntry, binlog, queue, pending>>
        /\ group' = [group EXCEPT ![t] = <<>>]
    BY <1>0, <1>7, ReserveEffect
  <2>2. Queued' = Queued
    BY <2>1 DEF Queued, Line
  <2>3. \A x \in Trx : InGroup(x)' => InGroup(x)
    BY <1>0, <2>1, OrderEmpty DEF InGroup, TypeOK, TypeQueue
  <2> QED BY <2>1, <2>2, <2>3 DEF Entered
<1> QED BY StepKinds, QuietKinds, <1>1, <1>2, <1>3, <1>4, <1>5, <1>6, <1>7

\* What is put in the queue has never been there.
LEMMA NewEntries ==
  ASSUME Inv, NEW x \in Trx, pc[x] \in {"error", "wait"}, ~queuedByOther[x]
  PROVE  /\ x \notin Queued /\ x \notin ToSet(binlog) /\ \A l \in Trx : x \notin ToSet(group[l])
         /\ nextEntry[x] = None /\ \A y \in Trx : nextEntry[y] # x
<1>1. ~Settled(x)
  BY DEF Settled, WaitPcs
<1>2. ~Entered(x)
  BY <1>1 DEF Inv, SettledInv
<1> QED BY <1>2 DEF Entered, InGroup

LEMMA DistinctStep ==
  ASSUME Inv, NEW t \in Trx, Step(t) \/ Kill(t)
  PROVE  DistinctInv'
<1> USE Constants
<1>0. /\ TypeOK /\ PcInv /\ MutexInv /\ WfcInv /\ SubInv /\ DistinctInv /\ HeadInv /\ NextInv
      /\ SettledInv
  BY DEF Inv
<1>a. \A x \in Trx : x # t => pc'[x] = pc[x]
  BY <1>0, Others
<1>b. Line \in Seq(Trx)
  BY <1>0, LineType
<1>1. CASE Quiet(t)
  <2>1. UNCHANGED <<Line, Queued, binlog, group>> /\ pc'[t] # "write"
    BY <1>1 DEF Quiet
  <2> QED BY <1>0, <1>a, <2>1 DEF DistinctInv
<1>2. CASE QueueLock(t)
  <2>1. /\ UNCHANGED <<group, binlog>> /\ Queued' = Queued \cup {t} /\ Line' = Append(Line, t)
        /\ pc'[t] # "write" /\ pc[t] = "error" /\ ~queuedByOther[t]
    BY <1>0, <1>2, QueueLockEffect
  <2>2. t \notin Queued /\ t \notin ToSet(binlog) /\ \A l \in Trx : t \notin ToSet(group[l])
    BY <2>1, NewEntries
  <2>3. IsInjective(Line')
    <3> DEFINE r == Append(Line, t)
    <3>1. /\ r \in Seq(Trx)
          /\ \A a, b : Before(r, a, b) <=> Before(Line, a, b) \/ (a \in ToSet(Line) /\ b = t)
      BY <1>b, OrderAppend
    <3>2. \A a : ~ Before(Line, a, a)
      BY <1>0, <1>b, OrderType DEF DistinctInv
    <3>3. \A a : ~ Before(r, a, a)
      BY <2>2, <3>1, <3>2 DEF Queued
    <3> HIDE DEF r
    <3>4. IsInjective(r)
      BY <3>1, <3>3, OrderType
    <3> QED BY <2>1, <3>4 DEF r
  <2> QED BY <1>0, <1>a, <2>1, <2>2, <2>3 DEF DistinctInv
<1>3. CASE QueueEntry(t)
  <2>0. PICK e \in Trx, ready \in Seq(Trx) : EntryEffect(t, e, ready)
    BY <1>0, <1>3, QueueEntryEffect
  <2>1. /\ UNCHANGED <<group, binlog>> /\ Queued' = Queued \cup ToSet(ready) /\ Line' = Line \o ready
        /\ pc'[t] # "write" /\ IsInjective(ready)
        /\ \A w \in ToSet(ready) : pc[w] = "wait" /\ ~queuedByOther[w]
    BY <2>0 DEF EntryEffect
  <2>2. \A w \in ToSet(ready) :
          w \notin Queued /\ w \notin ToSet(binlog) /\ \A l \in Trx : w \notin ToSet(group[l])
    <3> TAKE w \in ToSet(ready)
    <3>1. w \in Trx
      BY OrderType
    <3> QED BY <2>1, <3>1, NewEntries
  <2>3. IsInjective(Line')
    <3> DEFINE r == Line \o ready
    <3>1. /\ r \in Seq(Trx)
          /\ \A a, b : Before(r, a, b) <=>
               Before(Line, a, b) \/ (a \in ToSet(Line) /\ b \in ToSet(ready)) \/ Before(ready, a, b)
      BY <1>b, OrderConcat
    <3>2. (\A a : ~ Before(Line, a, a)) /\ (\A a : ~ Before(ready, a, a))
      BY <1>0, <1>b, <2>1, OrderType DEF DistinctInv
    <3>3. \A a : ~ Before(r, a, a)
      BY <2>2, <3>1, <3>2 DEF Queued
    <3> HIDE DEF r
    <3>4. IsInjective(r)
      BY <3>1, <3>3, OrderType
    <3> QED BY <2>1, <3>4 DEF r
  <2> QED BY <1>0, <1>a, <2>1, <2>2, <2>3 DEF DistinctInv
<1>4. CASE LeaderCollect(t)
  <2>1. /\ UNCHANGED <<binlog>> /\ Queued' = {} /\ Line' = <<>> /\ pc'[t] = "write"
        /\ Line = queue /\ group' = [group EXCEPT ![t] = queue]
    BY <1>0, <1>4, LeaderCollectEffect
  <2>2. group'[t] = Line /\ ToSet(group'[t]) = Queued /\ \A l \in Trx : l # t => group'[l] = group[l]
    BY <1>0, <2>1 DEF TypeOK, TypeQueue, Queued
  <2>3. IsInjective(Line')
    BY <2>1, OrderEmpty
  <2>4. \A l \in Trx :
          /\ IsInjective(group'[l]) /\ pc'[l] = "write" => ToSet(group'[l]) \cap ToSet(binlog') = {}
          /\ \A m \in Trx \ {l} : ToSet(group'[l]) \cap ToSet(group'[m]) = {}
    <3> TAKE l \in Trx
    <3>1. CASE l = t
      BY <1>0, <2>1, <2>2, <3>1 DEF DistinctInv
    <3>2. CASE l # t
      BY <1>0, <1>a, <2>1, <2>2, <3>2 DEF DistinctInv
    <3> QED BY <3>1, <3>2
  <2> QED BY <1>0, <2>1, <2>3, <2>4 DEF DistinctInv
<1>5. CASE \E E \in SUBSET WriteErrors : \E H \in SUBSET WriteErrors : LeaderWrite(t, E, H)
  <2>0. PICK k \in Seq(Trx) : WriteEffect(t, k)
    BY <1>0, <1>5, LeaderWriteEffect
  <2>1. /\ UNCHANGED <<group, queue, pending>> /\ pc[t] = "write" /\ pc'[t] # "write" /\ lockLog = t
        /\ ToSet(binlog') = ToSet(binlog) \cup ToSet(k) /\ ToSet(k) \subseteq ToSet(group[t])
        /\ IsInjective(binlog')
    BY <2>0 DEF WriteEffect
  <2>2. Line' = Line /\ Queued' = Queued
    BY <2>1 DEF Queued, Line
  <2>3. \A l \in Trx : pc'[l] # "write"
    BY <1>0, <1>a, <2>1 DEF MutexInv, Holds
  <2> QED BY <1>0, <2>1, <2>2, <2>3 DEF DistinctInv
<1>6. CASE WakeNext(t)
  <2>0. PICK e \in Trx \cup {None} : WakeEffect(t, e)
    BY <1>6, WakeNextEffect
  <2>1. /\ UNCHANGED <<binlog, queue, pending>> /\ pc'[t] # "write"
        /\ \A l \in Trx : ToSet(group'[l]) = ToSet(group[l]) \ {e} /\ IsInjective(group'[l])
    BY <2>0 DEF WakeEffect
  <2>2. Line' = Line /\ Queued' = Queued
    BY <2>1 DEF Queued, Line
  <2> QED BY <1>0, <1>a, <2>1, <2>2 DEF DistinctInv
<1>7. CASE Reserve(t)
  <2>1. /\ UNCHANGED <<binlog, queue, pending>> /\ pc'[t] # "write"
        /\ group' = [group EXCEPT ![t] = <<>>]
    BY <1>0, <1>7, ReserveEffect
  <2>2. Line' = Line /\ Queued' = Queued
    BY <2>1 DEF Queued, Line
  <2>3. \A l \in Trx : /\ ToSet(group'[l]) = IF l = t THEN {} ELSE ToSet(group[l])
                       /\ IsInjective(group'[l])
    BY <1>0, <2>1, OrderEmpty DEF DistinctInv, TypeOK, TypeQueue
  <2>4. \A l \in Trx : ToSet(group'[l]) \subseteq ToSet(group[l])
    BY <2>3
  <2> QED BY <1>0, <1>a, <2>1, <2>2, <2>3, <2>4 DEF DistinctInv
<1> QED BY StepKinds, QuietKinds, <1>1, <1>2, <1>3, <1>4, <1>5, <1>6, <1>7

\* Who sleeps with its entry in the queue, or in a group, sleeps on as long as the
\* entry is there.
LEMMA ParkedStays ==
  ASSUME Inv, NEW t \in Trx, Step(t) \/ Kill(t), NEW x \in Trx, Parked(x),
         WakeNext(t) => x \in Queued \/ InGroup(x)'
  PROVE  Parked(x)'
<1> USE Constants
<1>0. /\ TypeOK /\ PcInv /\ MutexInv /\ WfcInv /\ SubInv /\ DistinctInv /\ HeadInv /\ NextInv
  BY DEF Inv
<1>a. x # t => pc'[x] = pc[x]
  BY <1>0, Others
<1>b. ASSUME pc'[x] = pc[x] \/ (queuedByOther[x] /\ pc'[x] \in WaitPcs),
             queuedByOther'[x] = queuedByOther[x], waitee'[x] = waitee[x],
             wakeupReady'[x] = wakeupReady[x], queuedByOther[x] /\ InWalk(x)' => InWalk(x)
      PROVE  Parked(x)'
  BY <1>b DEF Parked, WaitPcs
<1>c. walk' = walk => (InWalk(x)' <=> InWalk(x))
  BY DEF InWalk
<1>d. pc[x] \in WaitPcs \cup {"follow"} /\ (pc[x] = "kill" => queuedByOther[x])
  BY DEF Parked, WaitPcs
<1>1. CASE OwnStep(t)
  <2>1. /\ UNCHANGED <<waitee, queuedByOther, wakeupReady, walk>>
        /\ pc[t] \in WaitPcs /\ waitee[t] # None /\ queuedByOther[t] => pc'[t] \in WaitPcs
        /\ pc[t] = "follow" => queuedByOther[t] \/ wakeupReady[t]
    BY <1>0, <1>1, OwnStepEffect DEF Shared, MovesOn
  <2>2. x = t => queuedByOther[x] /\ pc'[x] \in WaitPcs
    BY <2>1 DEF Parked, WaitPcs
  <2> QED BY <1>a, <1>b, <1>c, <2>1, <2>2
<1>2. CASE Register(t)
  <2>1. pc[t] = "start" /\ UNCHANGED <<queuedByOther, wakeupReady, walk>>
    BY <1>0, <1>2, RegisterEffect
  <2>2. x # t
    BY <1>d, <2>1 DEF WaitPcs
  <2>3. waitee'[x] = waitee[x]
    BY <1>0, <1>2, <2>2 DEF Register, TypeOK, TypeWfc
  <2> QED BY <1>a, <1>b, <1>c, <2>1, <2>2, <2>3
<1>3. CASE KillTaken(t)
  <2>1. /\ UNCHANGED <<queuedByOther, wakeupReady, walk>> /\ waitee' = [waitee EXCEPT ![t] = None]
        /\ pc[t] \in {"kill", "wfpKill"} /\ (pc[t] = "kill" => ~queuedByOther[t])
    BY <1>0, <1>3, KillTakenEffect
  <2>2. x # t
    BY <1>d, <2>1 DEF WaitPcs
  <2>3. waitee'[x] = waitee[x]
    BY <1>0, <2>1, <2>2 DEF TypeOK, TypeWfc
  <2> QED BY <1>a, <1>b, <1>c, <2>1, <2>2, <2>3
<1>4. CASE QueueLock(t)
  <2>1. /\ UNCHANGED <<waitee, queuedByOther, walk>> /\ pc[t] = "error"
        /\ \A y \in Trx : y # t => wakeupReady'[y] = wakeupReady[y]
    BY <1>0, <1>4, QueueLockEffect
  <2>2. x # t
    BY <1>d, <2>1 DEF WaitPcs
  <2> QED BY <1>a, <1>b, <1>c, <2>1, <2>2
<1>5. CASE QueueEntry(t)
  <2>0. PICK e \in Trx, ready \in Seq(Trx) : EntryEffect(t, e, ready)
    BY <1>0, <1>5, QueueEntryEffect
  <2>1. /\ UNCHANGED <<waitee, wakeupReady, walk>> /\ pc[t] = "enqueue"
        /\ queuedByOther'[x] = (queuedByOther[x] \/ x \in ToSet(ready))
        /\ x \in ToSet(ready) => pc[x] = "wait" /\ ~queuedByOther[x]
    BY <2>0 DEF EntryEffect
  <2>2. x # t /\ x \notin ToSet(ready)
    BY <1>d, <2>1 DEF WaitPcs, Parked
  <2>3. queuedByOther'[x] = queuedByOther[x]
    BY <1>0, <2>1, <2>2 DEF TypeOK, TypeEntry
  <2> QED BY <1>a, <1>b, <1>c, <2>1, <2>2, <2>3
<1>6. CASE LeaderCollect(t)
  <2>1. pc[t] = "lead" /\ UNCHANGED <<waitee, queuedByOther, wakeupReady, walk>>
    BY <1>0, <1>6, LeaderCollectEffect
  <2>2. x # t
    BY <1>d, <2>1 DEF WaitPcs
  <2> QED BY <1>a, <1>b, <1>c, <2>1, <2>2
<1>7. CASE \E E \in SUBSET WriteErrors : \E H \in SUBSET WriteErrors : LeaderWrite(t, E, H)
  <2>1. pc[t] = "write" /\ UNCHANGED <<waitee, queuedByOther, wakeupReady, walk>>
    BY <1>0, <1>7, LeaderWriteEffect DEF WriteEffect
  <2>2. x # t
    BY <1>d, <2>1 DEF WaitPcs
  <2> QED BY <1>a, <1>b, <1>c, <2>1, <2>2
<1>8. CASE BeginWakeup(t)
  <2>0. PICK c \in Trx : DetachEffect(t, c)
    BY <1>0, <1>8, BeginWakeupEffect
  <2>1. /\ pc[t] \in {"commit", "own", "finishWake"} /\ UNCHANGED <<waitee, queuedByOther, wakeupReady>>
        /\ walk' = [walk EXCEPT ![t] = subsequent[c]]
    BY <2>0 DEF DetachEffect
  <2>2. x # t
    BY <1>d, <2>1 DEF WaitPcs
  <2>3. InWalk(x)' => InWalk(x) \/ x \in ToSet(subsequent[c])
    BY <1>0, <2>1 DEF InWalk, TypeOK, TypeWalk
  <2>4. x \in ToSet(subsequent[c]) => ~queuedByOther[x]
    BY <1>0 DEF SubInv
  <2> QED BY <1>a, <1>b, <2>1, <2>2, <2>3, <2>4
<1>9. CASE WakeNext(t)
  <2>0. PICK e \in Trx \cup {None} : WakeEffect(t, e)
    BY <1>9, WakeNextEffect
  <2>1. /\ pc[t] \in {"wake", "chain"} /\ UNCHANGED <<waitee, queuedByOther>> /\ e \notin Queued
        /\ \A l \in Trx : ToSet(group'[l]) = ToSet(group[l]) \ {e}
        /\ \A y \in Trx : y # e => wakeupReady'[y] = wakeupReady[y]
        /\ \A y \in Trx : y # t => walk'[y] = walk[y]
        /\ ToSet(walk'[t]) = IF e # None /\ queuedByOther[e] THEN {e} ELSE {}
    BY <2>0 DEF WakeEffect
  <2>2. x # t
    BY <1>d, <2>1 DEF WaitPcs
  <2>3. x # e
    BY <1>9, <2>1 DEF InGroup
  <2>4. InWalk(x)' => InWalk(x)
    BY <2>1, <2>3 DEF InWalk
  <2> QED BY <1>a, <1>b, <2>1, <2>2, <2>3, <2>4
<1>10. CASE Reserve(t)
  <2>1. pc[t] \in {"reserve", "reserveWait"} /\ UNCHANGED <<waitee, queuedByOther, wakeupReady, walk>>
    BY <1>0, <1>10, ReserveEffect
  <2>2. x # t
    BY <1>d, <2>1 DEF WaitPcs
  <2> QED BY <1>a, <1>b, <1>c, <2>1, <2>2
<1>11. CASE WakeupWaitee(t)
  <2> DEFINE v == Head(walk[t])
  <2>1. /\ pc[t] = "walk" /\ v \in Trx /\ v \in ToSet(walk[t]) /\ waitee' = [waitee EXCEPT ![v] = None]
        /\ UNCHANGED <<queuedByOther, wakeupReady, walk>>
    BY <1>0, <1>11, WakeupWaiteeEffect
  <2> HIDE DEF v
  <2>2. x # t
    BY <1>d, <2>1 DEF WaitPcs
  <2>3. CASE queuedByOther[x]
    <3>1. x # v
      BY <2>1, <2>3 DEF Parked, InWalk
    <3>2. waitee'[x] = waitee[x]
      BY <1>0, <2>1, <3>1 DEF TypeOK, TypeWfc
    <3> QED BY <1>a, <1>b, <1>c, <2>1, <2>2, <3>2
  <2>4. CASE ~queuedByOther[x]
    BY <1>a, <2>1, <2>2, <2>4 DEF Parked
  <2> QED BY <2>3, <2>4
<1>12. CASE WakeupError(t)
  <2>1. /\ pc[t] = "walkError" /\ UNCHANGED <<waitee, queuedByOther, wakeupReady>>
        /\ ToSet(walk'[t]) \subseteq ToSet(walk[t]) /\ walk' = [walk EXCEPT ![t] = Tail(@)]
    BY <1>0, <1>12, WakeupErrorEffect
  <2>2. x # t
    BY <1>d, <2>1 DEF WaitPcs
  <2>3. InWalk(x)' => InWalk(x)
    BY <1>0, <2>1 DEF InWalk, TypeOK, TypeWalk
  <2> QED BY <1>a, <1>b, <2>1, <2>2, <2>3
<1> QED BY StepKinds, <1>1, <1>2, <1>3, <1>4, <1>5, <1>6, <1>7, <1>8, <1>9, <1>10, <1>11, <1>12

LEMMA MemberStep ==
  ASSUME Inv, NEW t \in Trx, Step(t) \/ Kill(t)
  PROVE  MemberInv'
<1> USE Constants
<1>0. /\ TypeOK /\ PcInv /\ MutexInv /\ WfcInv /\ SubInv /\ DistinctInv /\ HeadInv /\ NextInv
      /\ MemberInv
  BY DEF Inv
<1>a. \A x \in Trx : x # t => pc'[x] = pc[x]
  BY <1>0, Others
<1>b. Queued \subseteq Trx /\ \A l \in Trx : ToSet(group[l]) \subseteq Trx
  BY <1>0, LineType, OrderType DEF TypeOK, TypeQueue
<1>c. \A x \in Trx : Parked(x) /\ (~WakeNext(t) \/ x \in Queued \/ InGroup(x)') => Parked(x)'
  BY ParkedStays
<1>d. \A x \in Trx : x \in Queued /\ Parked(x) => Parked(x)'
  BY <1>c
<1>e. \A l, x \in Trx : x \in ToSet(group'[l]) /\ Parked(x) => Parked(x)'
  BY <1>c DEF InGroup
<1>f. ASSUME \A x \in Queued' : x \notin Queued \/ (~queuedByOther[x] /\ pc[x] \in {"enqueue", "lead"})
               => Parked(x)' \/ (~queuedByOther'[x] /\ pc'[x] \in {"enqueue", "lead"})
      PROVE  \A x \in Queued' : Parked(x)' \/ (~queuedByOther'[x] /\ pc'[x] \in {"enqueue", "lead"})
  BY <1>0, <1>b, <1>d, <1>f DEF MemberInv
<1>g. ASSUME \A l \in Trx : ToSet(group'[l]) \subseteq ToSet(group[l]),
             \A l \in Trx : l \in ToSet(group[l]) /\ ~queuedByOther[l] => ~queuedByOther'[l]
      PROVE  \A l \in Trx : \A x \in ToSet(group'[l]) : Parked(x)' \/ (x = l /\ ~queuedByOther'[l])
  <2> TAKE l \in Trx
  <2> TAKE x \in ToSet(group'[l])
  <2>1. x \in ToSet(group[l]) /\ x \in Trx
    BY <1>b, <1>g
  <2>2. Parked(x) \/ (x = l /\ ~queuedByOther[l])
    BY <1>0, <2>1 DEF MemberInv
  <2> QED BY <1>e, <1>g, <2>1, <2>2
<1>1. CASE Quiet(t)
  <2>1. /\ UNCHANGED <<queuedByOther, wakeupReady, Queued, group>>
        /\ pc[t] \notin {"enqueue", "lead"} /\ pc'[t] # "enqueue"
    BY <1>1 DEF Quiet
  <2>2. \A x \in Queued' : Parked(x)' \/ (~queuedByOther'[x] /\ pc'[x] \in {"enqueue", "lead"})
    BY <1>a, <1>b, <1>f, <2>1
  <2>3. \A l \in Trx : \A x \in ToSet(group'[l]) : Parked(x)' \/ (x = l /\ ~queuedByOther'[l])
    BY <1>g, <2>1
  <2>4. \A x \in Trx : pc'[x] = "enqueue" => x \in Queued' /\ ~queuedByOther'[x] /\ ~wakeupReady'[x]
    BY <1>0, <1>a, <2>1 DEF MemberInv
  <2> QED BY <2>2, <2>3, <2>4 DEF MemberInv
<1>2. CASE QueueLock(t)
  <2>1. /\ UNCHANGED <<queuedByOther, group>> /\ Queued' = Queued \cup {t}
        /\ pc[t] = "error" /\ pc'[t] = "enqueue" /\ ~queuedByOther[t] /\ ~wakeupReady'[t]
        /\ \A x \in Trx : x # t => pc[x] # "enqueue"
    BY <1>0, <1>2, QueueLockEffect
  <2>2. \A x \in Queued' : Parked(x)' \/ (~queuedByOther'[x] /\ pc'[x] \in {"enqueue", "lead"})
    BY <1>a, <1>b, <1>f, <2>1
  <2>3. \A l \in Trx : \A x \in ToSet(group'[l]) : Parked(x)' \/ (x = l /\ ~queuedByOther'[l])
    BY <1>g, <2>1
  <2>4. \A x \in Trx : pc'[x] = "enqueue" => x \in Queued' /\ ~queuedByOther'[x] /\ ~wakeupReady'[x]
    BY <1>a, <2>1
  <2> QED BY <2>2, <2>3, <2>4 DEF MemberInv
<1>3. CASE QueueEntry(t)
  <2>0. PICK e \in Trx, ready \in Seq(Trx) : EntryEffect(t, e, ready)
    BY <1>0, <1>3, QueueEntryEffect
  <2>1. /\ UNCHANGED <<group, waitee, wakeupReady, walk>> /\ Queued' = Queued \cup ToSet(ready)
        /\ pc[t] = "enqueue" /\ pc'[t] \in {"enqueue", "lead", "follow"} /\ lockPrepare = t
        /\ \A w \in Trx : queuedByOther'[w] = (queuedByOther[w] \/ w \in ToSet(ready))
        /\ \A w \in ToSet(ready) : waitee[w] = e /\ ~InWalk(w) /\ pc[w] = "wait" /\ pc'[w] = "wait"
    BY <2>0 DEF EntryEffect
  <2>2. \A w \in ToSet(ready) : w \in Trx /\ Parked(w)'
    <3> TAKE w \in ToSet(ready)
    <3>1. w \in Trx /\ ~InWalk(w)'
      BY <2>1, OrderType DEF InWalk
    <3> QED BY <2>1, <3>1 DEF Parked, WaitPcs
  <2>3. /\ t \in Queued /\ t \notin ToSet(ready) /\ ~queuedByOther'[t] /\ ~wakeupReady'[t]
    BY <1>0, <2>1 DEF MemberInv
  <2>4. pc'[t] = "follow" => Parked(t)'
    BY <2>3 DEF Parked
  <2>5. \A x \in Trx : pc[x] # "wait" /\ ~queuedByOther[x] => ~queuedByOther'[x]
    BY <2>1
  <2>6. \A x \in Queued' : Parked(x)' \/ (~queuedByOther'[x] /\ pc'[x] \in {"enqueue", "lead"})
    <3>1. ASSUME NEW x \in Queued', x \notin Queued \/ (~queuedByOther[x] /\ pc[x] \in {"enqueue", "lead"})
          PROVE  Parked(x)' \/ (~queuedByOther'[x] /\ pc'[x] \in {"enqueue", "lead"})
      <4>1. CASE x \notin Queued
        BY <2>1, <2>2, <3>1, <4>1
      <4>2. CASE x \in Queued
        BY <1>a, <1>b, <2>1, <2>3, <2>4, <2>5, <3>1, <4>2
      <4> QED BY <4>1, <4>2
    <3> QED BY <1>f, <3>1
  <2>7. \A l \in Trx : l \in ToSet(group[l]) => pc[l] # "wait"
    <3> TAKE l \in Trx
    <3>1. l \in ToSet(group[l]) => group[l] # <<>>
      BY OrderEmpty
    <3> QED BY <1>0, <3>1 DEF PcInv, PcOk, At, WalkPcs, LeaderPcs
  <2>8. \A l \in Trx : \A x \in ToSet(group'[l]) : Parked(x)' \/ (x = l /\ ~queuedByOther'[l])
    BY <1>g, <2>1, <2>5, <2>7
  <2>9. \A x \in Trx : x # t => pc[x] # "enqueue"
    BY <1>0, <2>1 DEF MutexInv, Holds
  <2>10. \A x \in Trx : pc'[x] = "enqueue" => x \in Queued' /\ ~queuedByOther'[x] /\ ~wakeupReady'[x]
    BY <1>a, <2>1, <2>3, <2>9
  <2> QED BY <2>6, <2>8, <2>10 DEF MemberInv
<1>4. CASE LeaderCollect(t)
  <2>1. /\ UNCHANGED <<queuedByOther>> /\ Queued' = {} /\ pc[t] = "lead" /\ pc'[t] = "write"
        /\ \A x \in Trx : pc[x] # "enqueue"
        /\ Line = queue /\ group' = [group EXCEPT ![t] = queue] /\ Head(queue) = t
    BY <1>0, <1>4, LeaderCollectEffect
  <2>2. ToSet(group'[t]) = Queued /\ \A l \in Trx : l # t => group'[l] = group[l]
    BY <1>0, <2>1 DEF TypeOK, TypeQueue, Queued
  <2>3. ASSUME NEW l \in Trx, NEW x \in ToSet(group'[l]) PROVE Parked(x)' \/ (x = l /\ ~queuedByOther'[l])
    <3>1. CASE l = t
      <4>1. x \in Queued /\ x \in Trx
        BY <1>b, <2>2, <2>3, <3>1
      <4>2. pc[x] = "lead" => x = t
        BY <1>0, <2>1, <4>1 DEF HeadInv
      <4> QED BY <1>0, <1>d, <2>1, <3>1, <4>1, <4>2 DEF MemberInv
    <3>2. CASE l # t
      <4>1. x \in ToSet(group[l]) /\ x \in Trx
        BY <1>b, <2>2, <2>3, <3>2
      <4> QED BY <1>0, <1>e, <2>1, <2>3, <4>1 DEF MemberInv
    <3> QED BY <3>1, <3>2
  <2>4. \A x \in Trx : pc'[x] # "enqueue"
    BY <1>a, <2>1
  <2> QED BY <2>1, <2>3, <2>4 DEF MemberInv
<1>5. CASE \E E \in SUBSET WriteErrors : \E H \in SUBSET WriteErrors : LeaderWrite(t, E, H)
  <2>0. PICK k \in Seq(Trx) : WriteEffect(t, k)
    BY <1>0, <1>5, LeaderWriteEffect
  <2>1. /\ UNCHANGED <<group, queue, pending, queuedByOther, wakeupReady>>
        /\ pc[t] = "write" /\ pc'[t] = "written"
    BY <2>0 DEF WriteEffect
  <2>2. Queued' = Queued
    BY <2>1 DEF Queued, Line
  <2>3. \A x \in Queued' : Parked(x)' \/ (~queuedByOther'[x] /\ pc'[x] \in {"enqueue", "lead"})
    BY <1>a, <1>b, <1>f, <2>1, <2>2
  <2>4. \A l \in Trx : \A x \in ToSet(group'[l]) : Parked(x)' \/ (x = l /\ ~queuedByOther'[l])
    BY <1>g, <2>1
  <2>5. \A x \in Trx : pc'[x] = "enqueue" => x \in Queued' /\ ~queuedByOther'[x] /\ ~wakeupReady'[x]
    BY <1>0, <1>a, <2>1, <2>2 DEF MemberInv
  <2> QED BY <2>3, <2>4, <2>5 DEF MemberInv
<1>6. CASE WakeNext(t)
  <2>0. PICK e \in Trx \cup {None} : WakeEffect(t, e)
    BY <1>6, WakeNextEffect
  <2>1. /\ UNCHANGED <<queue, pending, queuedByOther>> /\ e \notin Queued
        /\ pc[t] \in {"wake", "chain"} /\ pc'[t] \in {"commit", "return", "walk"}
        /\ \A l \in Trx : ToSet(group'[l]) = ToSet(group[l]) \ {e}
        /\ \A x \in Trx : x # e => wakeupReady'[x] = wakeupReady[x]
    BY <2>0 DEF WakeEffect
  <2>2. Queued' = Queued
    BY <2>1 DEF Queued, Line
  <2>3. \A x \in Queued' : Parked(x)' \/ (~queuedByOther'[x] /\ pc'[x] \in {"enqueue", "lead"})
    BY <1>a, <1>b, <1>f, <2>1, <2>2
  <2>4. \A l \in Trx : \A x \in ToSet(group'[l]) : Parked(x)' \/ (x = l /\ ~queuedByOther'[l])
    BY <1>g, <2>1
  <2>5. \A x \in Trx : pc'[x] = "enqueue" => x \in Queued' /\ ~queuedByOther'[x] /\ ~wakeupReady'[x]
    BY <1>0, <1>a, <2>1, <2>2 DEF MemberInv
  <2> QED BY <2>3, <2>4, <2>5 DEF MemberInv
<1>7. CASE Reserve(t)
  <2>1. /\ UNCHANGED <<queue, pending, queuedByOther, wakeupReady>>
        /\ pc[t] \in {"reserve", "reserveWait"} /\ pc'[t] = "own"
        /\ group' = [group EXCEPT ![t] = <<>>]
    BY <1>0, <1>7, ReserveEffect
  <2>2. Queued' = Queued
    BY <2>1 DEF Queued, Line
  <2>3. \A l \in Trx : ToSet(group'[l]) \subseteq ToSet(group[l])
    BY <1>0, <2>1, OrderEmpty DEF TypeOK, TypeQueue
  <2>4. \A x \in Queued' : Parked(x)' \/ (~queuedByOther'[x] /\ pc'[x] \in {"enqueue", "lead"})
    BY <1>a, <1>b, <1>f, <2>1, <2>2
  <2>5. \A l \in Trx : \A x \in ToSet(group'[l]) : Parked(x)' \/ (x = l /\ ~queuedByOther'[l])
    BY <1>g, <2>1, <2>3
  <2>6. \A x \in Trx : pc'[x] = "enqueue" => x \in Queued' /\ ~queuedByOther'[x] /\ ~wakeupReady'[x]
    BY <1>0, <1>a, <2>1, <2>2 DEF MemberInv
  <2> QED BY <2>4, <2>5, <2>6 DEF MemberInv
<1> QED BY StepKinds, QuietKinds, <1>1, <1>2, <1>3, <1>4, <1>5, <1>6, <1>7

LEMMA HeadStep ==
  ASSUME Inv, NEW t \in Trx, Step(t) \/ Kill(t)
  PROVE  HeadInv'
<1> USE Constants
<1>0. /\ TypeOK /\ PcInv /\ MutexInv /\ WfcInv /\ SubInv /\ DistinctInv /\ HeadInv /\ NextInv
  BY DEF Inv
<1>a. \A x \in Trx : x # t => pc'[x] = pc[x] /\ group'[x] = group[x]
  BY <1>0, Others
<1>b. Line \in Seq(Trx) /\ queue \in Seq(Trx)
  BY <1>0, LineType
<1>c. ASSUME UNCHANGED <<queue, Line, isLeader>>, pc'[t] \notin {"enqueue", "lead", "write"}
      PROVE  HeadInv'
  BY <1>0, <1>a, <1>c DEF HeadInv
<1>1. CASE Quiet(t)
  BY <1>1, <1>c DEF Quiet
<1>2. CASE QueueLock(t)
  <2>1. /\ UNCHANGED queue /\ pc'[t] = "enqueue" /\ \A x \in Trx : x # t => pc[x] # "enqueue"
        /\ isLeader'[t] = (queue = <<>>) /\ (queue = <<>> => Head(Line') = t)
    BY <1>0, <1>2, QueueLockEffect
  <2> QED BY <1>0, <1>a, <2>1 DEF HeadInv
<1>3. CASE QueueEntry(t)
  <2>0. PICK e \in Trx, ready \in Seq(Trx) : EntryEffect(t, e, ready)
    BY <1>0, <1>3, QueueEntryEffect
  <2>1. /\ pc[t] = "enqueue" /\ pc'[t] \in {"enqueue", "lead", "follow"} /\ lockPrepare = t
        /\ pc'[t] = "lead" => isLeader[t] /\ queue' = Line'
        /\ isLeader' = isLeader /\ Line' = Line \o ready /\ Line # <<>> /\ queue' = Append(queue, e)
    BY <2>0 DEF EntryEffect
  <2>2. Line' # <<>> /\ Head(Line') = Head(Line)
    BY <1>b, <2>1, HeadConcat
  <2>3. queue' # <<>> /\ (queue # <<>> => Head(queue') = Head(queue))
    BY <1>b, <2>1
  <2>4. \A x \in Trx : x # t => pc[x] # "enqueue"
    BY <1>0, <2>1 DEF MutexInv, Holds
  <2>5. isLeader[t] => Head(Line) = t
    BY <1>0, <2>1 DEF HeadInv
  <2>6. \A x \in Trx : pc'[x] = "enqueue" /\ isLeader'[x] => Head(Line') = x
    BY <1>a, <2>1, <2>2, <2>4, <2>5
  <2>7. \A x \in Trx : pc'[x] = "lead" => queue' # <<>> /\ Head(queue') = x
    <3> TAKE x \in Trx
    <3>1. CASE x = t
      BY <2>1, <2>2, <2>5, <3>1
    <3>2. CASE x # t
      BY <1>0, <1>a, <2>3, <3>2 DEF HeadInv
    <3> QED BY <3>1, <3>2
  <2>8. \A x \in Trx : pc'[x] = "write" => group'[x] # <<>> /\ Head(group'[x]) = x
    BY <1>0, <1>a, <2>1 DEF HeadInv
  <2> QED BY <2>6, <2>7, <2>8 DEF HeadInv
<1>4. CASE LeaderCollect(t)
  <2>1. /\ pc'[t] = "write" /\ \A x \in Trx : pc[x] # "enqueue"
        /\ group' = [group EXCEPT ![t] = queue] /\ queue # <<>> /\ Head(queue) = t
    BY <1>0, <1>4, LeaderCollectEffect
  <2>2. group'[t] = queue
    BY <1>0, <2>1 DEF TypeOK, TypeQueue
  <2>3. \A x \in Trx : pc'[x] \notin {"enqueue", "lead"}
    BY <1>0, <1>a, <2>1 DEF HeadInv
  <2> QED BY <1>0, <1>a, <2>1, <2>2, <2>3 DEF HeadInv
<1>5. CASE \E E \in SUBSET WriteErrors : \E H \in SUBSET WriteErrors : LeaderWrite(t, E, H)
  <2>1. UNCHANGED <<queue, pending, isLeader>> /\ pc'[t] = "written"
    BY <1>0, <1>5, LeaderWriteEffect DEF WriteEffect
  <2> QED BY <1>c, <2>1 DEF Line
<1>6. CASE WakeNext(t)
  <2>1. UNCHANGED <<queue, pending, isLeader>> /\ pc'[t] \in {"commit", "return", "walk"}
    BY <1>6, WakeNextEffect DEF WakeEffect
  <2> QED BY <1>c, <2>1 DEF Line
<1>7. CASE Reserve(t)
  <2>1. UNCHANGED <<queue, pending, isLeader>> /\ pc'[t] = "own"
    BY <1>0, <1>7, ReserveEffect
  <2> QED BY <1>c, <2>1 DEF Line
<1> QED BY StepKinds, QuietKinds, <1>1, <1>2, <1>3, <1>4, <1>5, <1>6, <1>7

LEMMA NextStep ==
  ASSUME Inv, NEW t \in Trx, Step(t) \/ Kill(t)
  PROVE  NextInv'
<1> USE Constants
<1>0. /\ TypeOK /\ PcInv /\ MutexInv /\ WfcInv /\ SubInv /\ DistinctInv /\ HeadInv /\ NextInv
  BY DEF Inv
<1>a. \A x \in Trx : x # t => group'[x] = group[x]
  BY <1>0, Others
<1>b. Queued \subseteq Trx /\ \A l \in Trx : ToSet(group[l]) \subseteq Trx
  BY <1>0, LineType, OrderType DEF TypeOK, TypeQueue
<1>c. ASSUME UNCHANGED <<nextEntry, Queued>>, OptimizeThreadScheduling \/ UNCHANGED group
      PROVE  NextInv'
  BY <1>0, <1>c DEF NextInv
<1>1. CASE Quiet(t)
  BY <1>1, <1>c DEF Quiet
<1>2. CASE QueueLock(t)
  <2>1. UNCHANGED <<nextEntry, group>> /\ Queued' = Queued \cup {t} /\ pc[t] = "error" /\ ~queuedByOther[t]
    BY <1>0, <1>2, QueueLockEffect
  <2>2. nextEntry[t] = None /\ \A y \in Trx : nextEntry[y] # t
    BY <2>1, NewEntries
  <2> QED BY <1>0, <2>1, <2>2 DEF NextInv
<1>3. CASE QueueEntry(t)
  <2>0. PICK e \in Trx, ready \in Seq(Trx) : EntryEffect(t, e, ready)
    BY <1>0, <1>3, QueueEntryEffect
  <2>1. /\ UNCHANGED <<nextEntry, group>> /\ Queued' = Queued \cup ToSet(ready)
        /\ \A w \in ToSet(ready) : pc[w] = "wait" /\ ~queuedByOther[w]
    BY <2>0 DEF EntryEffect
  <2>2. \A w \in ToSet(ready) : nextEntry[w] = None /\ \A y \in Trx : nextEntry[y] # w
    <3> TAKE w \in ToSet(ready)
    <3>1. w \in Trx
      BY OrderType
    <3> QED BY <2>1, <3>1, NewEntries
  <2> QED BY <1>0, <2>1, <2>2 DEF NextInv
<1>4. CASE LeaderCollect(t)
  <2>1. /\ Queued' = {} /\ Line = queue /\ group' = [group EXCEPT ![t] = queue]
        /\ \A x \in Trx : x \notin Queued => nextEntry'[x] = nextEntry[x]
        /\ \A x \in Queued : nextEntry'[x] \in Queued \cup {None}
        /\ \A w \in Queued : w = t \/ \E x \in Queued : nextEntry'[x] = w
    BY <1>0, <1>4, LeaderCollectEffect
  <2>2. ToSet(group'[t]) = Queued
    BY <1>0, <2>1 DEF TypeOK, TypeQueue, Queued
  <2>3. SUFFICES ASSUME ~OptimizeThreadScheduling, NEW l \in Trx
                 PROVE  /\ \A x \in Trx : nextEntry'[x] \in ToSet(group'[l]) => x \in ToSet(group'[l])
                        /\ \A w \in ToSet(group'[l]) :
                             w = l \/ \E x \in ToSet(group'[l]) : nextEntry'[x] = w
    BY <2>1 DEF NextInv
  <2>4. CASE l = t
    <3>1. \A x \in Trx : nextEntry'[x] \in Queued => x \in Queued
      <4> SUFFICES ASSUME NEW x \in Trx, x \notin Queued, nextEntry'[x] \in Queued PROVE FALSE
        OBVIOUS
      <4>1. nextEntry[x] \in Queued /\ nextEntry[x] # None
        BY <1>b, <2>1
      <4> QED BY <1>0, <4>1 DEF NextInv
    <3> QED BY <2>1, <2>2, <2>4, <3>1
  <2>5. CASE l # t
    <3>1. group'[l] = group[l] /\ ToSet(group[l]) \cap Queued = {} /\ None \notin ToSet(group[l])
      BY <1>0, <1>a, <1>b, <2>5 DEF DistinctInv
    <3>2. ASSUME NEW x \in Trx, nextEntry'[x] \in ToSet(group[l]) PROVE x \in ToSet(group[l])
      <4>1. x \notin Queued
        BY <2>1, <3>1, <3>2
      <4> QED BY <1>0, <2>1, <2>3, <3>2, <4>1 DEF NextInv
    <3>3. ASSUME NEW w \in ToSet(group[l]), w # l PROVE \E x \in ToSet(group[l]) : nextEntry'[x] = w
      <4>1. PICK x \in ToSet(group[l]) : nextEntry[x] = w
        BY <1>0, <2>3, <3>3 DEF NextInv
      <4>2. x \in Trx /\ x \notin Queued
        BY <1>b, <3>1
      <4> QED BY <2>1, <4>1, <4>2
    <3> QED BY <3>1, <3>2, <3>3
  <2> QED BY <2>4, <2>5
<1>5. CASE \E E \in SUBSET WriteErrors : \E H \in SUBSET WriteErrors : LeaderWrite(t, E, H)
  <2>1. UNCHANGED <<queue, pending, nextEntry, group>>
    BY <1>0, <1>5, LeaderWriteEffect DEF WriteEffect
  <2> QED BY <1>c, <2>1 DEF Queued, Line
<1>6. CASE WakeNext(t)
  <2>0. PICK e \in Trx \cup {None} : WakeEffect(t, e)
    BY <1>6, WakeNextEffect
  <2>1. /\ UNCHANGED <<queue, pending, nextEntry>>
        /\ pc[t] = "wake" \/ (pc[t] = "chain" /\ UNCHANGED group)
    BY <2>0 DEF WakeEffect
  <2>2. pc[t] = "wake" => OptimizeThreadScheduling
    BY <1>0 DEF PcInv, PcOk, At, WalkPcs
  <2> QED BY <1>c, <2>1, <2>2 DEF Queued, Line
<1>7. CASE Reserve(t)
  <2>1. UNCHANGED <<queue, pending, nextEntry>> /\ group' = [group EXCEPT ![t] = <<>>]
    BY <1>0, <1>7, ReserveEffect
  <2>2. Queued' = Queued /\ ToSet(group'[t]) = {}
    BY <1>0, <2>1, OrderEmpty DEF Queued, Line, TypeOK, TypeQueue
  <2>3. \A x \in Trx : nextEntry'[x] # None => x \notin Queued' /\ nextEntry'[x] \notin Queued'
    BY <1>0, <2>1, <2>2 DEF NextInv
  <2>4. ASSUME ~OptimizeThreadScheduling, NEW l \in Trx
        PROVE  /\ \A x \in Trx : nextEntry'[x] \in ToSet(group'[l]) => x \in ToSet(group'[l])
               /\ \A w \in ToSet(group'[l]) :
                    w = l \/ \E x \in ToSet(group'[l]) : nextEntry'[x] = w
    <3>1. CASE l = t
      BY <2>2, <3>1
    <3>2. CASE l # t
      BY <1>0, <1>a, <2>1, <2>4, <3>2 DEF NextInv
    <3> QED BY <3>1, <3>2
  <2> QED BY <2>3, <2>4 DEF NextInv
<1> QED BY StepKinds, QuietKinds, <1>1, <1>2, <1>3, <1>4, <1>5, <1>6, <1>7

LEMMA FinishedStep ==
  ASSUME Inv, NEW t \in Trx, Step(t) \/ Kill(t)
  PROVE  FinishedInv'
<1> USE Constants
<1>0. /\ TypeOK /\ PcInv /\ MutexInv /\ WfcInv /\ SubInv /\ DistinctInv /\ HeadInv /\ NextInv
      /\ FinishedInv
  BY DEF Inv
<1>a. \A x \in Trx : x # t => At(x)' = At(x)
  BY <1>0, Others
<1>b. lastCommitted \in Nat
  BY <1>0 DEF TypeOK, TypeEnd
<1>c. \A x : pc'[x] \notin WalkPcs => At(x)' = pc'[x]
  BY DEF At, WalkPcs
<1>d. ASSUME t \in Workers /\ At(t)' = "done" => At(t) = "done",
             t \in Workers /\ At(t)' = "finishWake" => t <= lastCommitted',
             lastCommitted' \in Nat, lastCommitted <= lastCommitted',
             \A c \in Trx : At(c) = "done" /\ subsequent[c] = <<>> /\ c <= lastCommitted
                => subsequent'[c] = <<>>
      PROVE  FinishedInv'
  <2> SUFFICES ASSUME NEW c \in Workers
               PROVE  /\ At(c)' = "done" => subsequent'[c] = <<>>
                      /\ At(c)' \in {"finishWake", "done"} => c <= lastCommitted'
    BY DEF FinishedInv
  <2>1. c \in Trx /\ c \in Nat
    OBVIOUS
  <2>2. /\ At(c) = "done" => subsequent[c] = <<>>
        /\ At(c) \in {"finishWake", "done"} => c <= lastCommitted
    BY <1>0 DEF FinishedInv
  <2>3. c <= lastCommitted => c <= lastCommitted'
    BY <1>b, <1>d, <2>1
  <2>4. CASE c = t
    BY <1>d, <2>1, <2>2, <2>3, <2>4
  <2>5. CASE c # t
    BY <1>a, <1>d, <2>1, <2>2, <2>3, <2>5
  <2> QED BY <2>4, <2>5
<1>e. ASSUME At(t)' \notin {"done", "finishWake"}, lastCommitted' = lastCommitted,
             \A c \in Trx : At(c) = "done" /\ subsequent[c] = <<>> /\ c <= lastCommitted
                => subsequent'[c] = <<>>
      PROVE  FinishedInv'
  <2>1. lastCommitted' \in Nat /\ lastCommitted <= lastCommitted'
    BY <1>b, <1>e
  <2> QED BY <1>d, <1>e, <2>1
<1>1. CASE OwnStep(t)
  <2>1. /\ UNCHANGED subsequent /\ lastCommitted <= lastCommitted'
        /\ t \in Workers /\ At(t)' = "done" => At(t) = "done"
        /\ At(t)' = "finishWake" => t <= lastCommitted'
    BY <1>0, <1>1, OwnStepEffect DEF Shared, MovesOn
  <2>2. lastCommitted' \in Nat
    <3>1. TypeOK'
      BY <1>0, TypeStep
    <3> QED BY <3>1 DEF TypeOK, TypeEnd
  <2> QED BY <1>d, <2>1, <2>2
<1>2. CASE Register(t)
  <2>1. /\ pc'[t] \in {"wfp", "run"} /\ UNCHANGED lastCommitted
        /\ \/ UNCHANGED subsequent
           \/ \E c \in Workers :
                lastCommitted < c /\ subsequent' = [subsequent EXCEPT ![c] = <<t>> \o @]
    BY <1>0, <1>2, RegisterEffect
  <2>2. At(t)' \notin {"done", "finishWake"}
    BY <1>c, <2>1 DEF WalkPcs
  <2>3. \A c \in Trx : c <= lastCommitted => subsequent'[c] = subsequent[c]
    <3>1. CASE UNCHANGED subsequent
      BY <3>1
    <3>2. CASE ~ UNCHANGED subsequent
      <4>1. PICK d \in Workers :
              lastCommitted < d /\ subsequent' = [subsequent EXCEPT ![d] = <<t>> \o @]
        BY <2>1, <3>2
      <4>2. \A c \in Trx : c <= lastCommitted => c # d
        BY <1>b, <4>1
      <4> QED BY <1>0, <4>1, <4>2 DEF TypeOK, TypeWfc
    <3> QED BY <3>1, <3>2
  <2> QED BY <1>e, <2>1, <2>2, <2>3
<1>3. CASE KillTaken(t)
  <2>1. /\ pc'[t] \in {"wfp", "finish", "done"} /\ (pc'[t] = "done" => t \notin Workers)
        /\ UNCHANGED lastCommitted
        /\ \A c \in Trx : subsequent[c] = <<>> => subsequent'[c] = <<>>
    BY <1>0, <1>3, KillTakenEffect
  <2>2. At(t)' = pc'[t]
    BY <1>c, <2>1 DEF WalkPcs
  <2> QED BY <1>b, <1>d, <2>1, <2>2
<1>4. CASE QueueLock(t)
  <2>1. pc'[t] = "enqueue" /\ UNCHANGED <<subsequent, lastCommitted>>
    BY <1>0, <1>4, QueueLockEffect
  <2> QED BY <1>c, <1>e, <2>1 DEF WalkPcs
<1>5. CASE QueueEntry(t)
  <2>0. PICK e \in Trx, ready \in Seq(Trx) : EntryEffect(t, e, ready)
    BY <1>0, <1>5, QueueEntryEffect
  <2>1. /\ pc'[t] \in {"enqueue", "lead", "follow"} /\ UNCHANGED lastCommitted
        /\ \A c \in Trx : subsequent[c] = <<>> => subsequent'[c] = <<>>
    BY <2>0 DEF EntryEffect
  <2> QED BY <1>c, <1>e, <2>1 DEF WalkPcs
<1>6. CASE LeaderCollect(t)
  <2>1. pc'[t] = "write" /\ UNCHANGED <<subsequent, lastCommitted>>
    BY <1>0, <1>6, LeaderCollectEffect
  <2> QED BY <1>c, <1>e, <2>1 DEF WalkPcs
<1>7. CASE \E E \in SUBSET WriteErrors : \E H \in SUBSET WriteErrors : LeaderWrite(t, E, H)
  <2>1. pc'[t] = "written" /\ UNCHANGED <<subsequent, lastCommitted>>
    BY <1>0, <1>7, LeaderWriteEffect DEF WriteEffect
  <2> QED BY <1>c, <1>e, <2>1 DEF WalkPcs
<1>8. CASE BeginWakeup(t)
  <2>0. PICK c \in Trx : DetachEffect(t, c)
    BY <1>0, <1>8, BeginWakeupEffect
  <2>1. /\ <<pc[t], At(t)'>> \in {<<"commit", "wake">>, <<"own", "chain">>, <<"finishWake", "done">>}
        /\ (pc[t] # "commit" => c = t) /\ UNCHANGED lastCommitted
        /\ subsequent' = [subsequent EXCEPT ![c] = <<>>]
    BY <2>0 DEF DetachEffect
  <2>2. subsequent'[c] = <<>> /\ \A d \in Trx : d # c => subsequent'[d] = subsequent[d]
    BY <1>0, <2>1 DEF TypeOK, TypeWfc
  <2>3. CASE pc[t] # "finishWake"
    BY <1>e, <2>1, <2>2, <2>3
  <2>4. CASE pc[t] = "finishWake"
    <3>1. c = t /\ At(t) = "finishWake"
      BY <2>1, <2>4 DEF At, WalkPcs
    <3> QED BY <1>0, <1>a, <2>1, <2>2, <3>1 DEF FinishedInv
  <2> QED BY <2>3, <2>4
<1>9. CASE WakeNext(t)
  <2>0. PICK e \in Trx \cup {None} : WakeEffect(t, e)
    BY <1>9, WakeNextEffect
  <2>1. At(t)' \notin {"done", "finishWake"} /\ UNCHANGED <<subsequent, lastCommitted>>
    BY <2>0 DEF WakeEffect
  <2> QED BY <1>e, <2>1
<1>10. CASE Reserve(t)
  <2>1. pc'[t] = "own" /\ UNCHANGED <<subsequent, lastCommitted>>
    BY <1>0, <1>10, ReserveEffect
  <2> QED BY <1>c, <1>e, <2>1 DEF WalkPcs
<1>11. CASE WakeupWaitee(t)
  <2>1. At(t)' = At(t) /\ UNCHANGED <<subsequent, lastCommitted>>
    BY <1>0, <1>11, WakeupWaiteeEffect
  <2> QED BY <1>0, <1>a, <2>1 DEF FinishedInv
<1>12. CASE WakeupError(t)
  <2>1. At(t)' = At(t) /\ UNCHANGED <<subsequent, lastCommitted>>
    BY <1>0, <1>12, WakeupErrorEffect
  <2> QED BY <1>0, <1>a, <2>1 DEF FinishedInv
<1> QED BY StepKinds, <1>1, <1>2, <1>3, <1>4, <1>5, <1>6, <1>7, <1>8, <1>9, <1>10, <1>11, <1>12

LEMMA KnownStep ==
  ASSUME Inv, NEW t \in Trx, Step(t) \/ Kill(t)
  PROVE  KnownInv'
<1> USE Constants
<1>0. /\ TypeOK /\ PcInv /\ MutexInv /\ WfcInv /\ SubInv /\ DistinctInv /\ HeadInv /\ NextInv
      /\ SettledInv /\ MemberInv /\ KnownInv
  BY DEF Inv
<1>a. \A x \in Trx : x # t => /\ At(x)' = At(x) /\ walk'[x] = walk[x] /\ group'[x] = group[x]
                              /\ (TurnPending(x)' <=> TurnPending(x))
  BY <1>0, Others DEF TurnPending
<1>b. PcOk(t) /\ \A x : pc[x] \notin WalkPcs => At(x) = pc[x]
  BY <1>0 DEF PcInv, At, WalkPcs
<1>c. \A x : pc'[x] \notin WalkPcs => At(x)' = pc'[x]
  BY DEF At, WalkPcs
<1>d. nextEntry[t] # None => Settled(t)
  BY <1>0 DEF SettledInv, Entered
<1> SUFFICES ASSUME NEW w \in Workers, waitee'[w] # None
             PROVE  \/ w \in ToSet(subsequent'[waitee'[w]])
                    \/ InWalk(w)'
                    \/ queuedByOther'[w] /\ (w \in Queued' \/ InGroup(w)' \/ ByChain(w)')
  BY DEF KnownInv
<1>e. w \in Trx /\ w # None
  OBVIOUS
<1>f. waitee[w] # None =>
        \/ w \in ToSet(subsequent[waitee[w]])
        \/ InWalk(w)
        \/ queuedByOther[w] /\ (w \in Queued \/ InGroup(w) \/ ByChain(w))
  BY <1>0 DEF KnownInv
<1>g. waitee[w] # None => waitee[w] \in Trx
  BY <1>0, <1>e DEF TypeOK, TypeWfc
<1>h. ASSUME UNCHANGED nextEntry,
             ~OptimizeThreadScheduling /\ nextEntry[t] = w /\ TurnPending(t) => TurnPending(t)'
      PROVE  ByChain(w) => ByChain(w)'
  BY <1>a, <1>h DEF ByChain
<1>i. walk' = walk => (InWalk(w)' <=> InWalk(w))
  BY DEF InWalk
<1>j. group' = group => (InGroup(w)' <=> InGroup(w))
  BY DEF InGroup
<1>1. CASE OwnStep(t)
  <2>1. /\ UNCHANGED <<waitee, subsequent, queuedByOther, nextEntry, queue, pending, group, walk>>
        /\ ~OptimizeThreadScheduling /\ Settled(t) /\ TurnPending(t) => TurnPending(t)'
    BY <1>0, <1>1, OwnStepEffect DEF Shared, MovesOn
  <2>2. Queued' = Queued
    BY <2>1 DEF Queued, Line
  <2>3. ByChain(w) => ByChain(w)'
    BY <1>d, <1>e, <1>h, <2>1
  <2> QED BY <1>f, <1>i, <1>j, <2>1, <2>2, <2>3
<1>2. CASE Register(t)
  <2>1. /\ UNCHANGED <<queuedByOther, nextEntry, queue, pending, group, walk>> /\ pc[t] = "start"
        /\ \/ UNCHANGED <<waitee, subsequent>>
           \/ \E c \in Workers :
                /\ waitee' = [waitee EXCEPT ![t] = c]
                /\ subsequent' = [subsequent EXCEPT ![c] = <<t>> \o @]
                /\ ToSet(<<t>> \o subsequent[c]) = ToSet(subsequent[c]) \cup {t}
    BY <1>0, <1>2, RegisterEffect
  <2>2. Queued' = Queued
    BY <2>1 DEF Queued, Line
  <2>3. ByChain(w) => ByChain(w)'
    BY <1>b, <1>h, <2>1 DEF TurnPending, WalkPcs
  <2>4. w = t \/ waitee'[w] = waitee[w]
    BY <1>0, <1>2, <1>e DEF Register, TypeOK, TypeWfc
  <2>5. CASE UNCHANGED <<waitee, subsequent>>
    BY <1>f, <1>i, <1>j, <2>1, <2>2, <2>3, <2>5
  <2>6. CASE ~ UNCHANGED <<waitee, subsequent>>
    <3>1. PICK c \in Workers :
                /\ waitee' = [waitee EXCEPT ![t] = c]
                /\ subsequent' = [subsequent EXCEPT ![c] = <<t>> \o @]
                /\ ToSet(<<t>> \o subsequent[c]) = ToSet(subsequent[c]) \cup {t}
      BY <2>1, <2>6
    <3>2. /\ waitee'[t] = c /\ ToSet(subsequent'[c]) = ToSet(subsequent[c]) \cup {t}
          /\ \A d \in Trx : d # c => subsequent'[d] = subsequent[d]
      BY <1>0, <3>1 DEF TypeOK, TypeWfc
    <3>3. CASE w = t
      BY <3>2, <3>3
    <3>4. CASE w # t
      <4>1. waitee'[w] = waitee[w]
        BY <2>4, <3>4
      <4>2. w \in ToSet(subsequent[waitee[w]]) => w \in ToSet(subsequent'[waitee'[w]])
        BY <1>g, <3>2, <4>1
      <4> QED BY <1>f, <1>i, <1>j, <2>1, <2>2, <2>3, <4>1, <4>2
    <3> QED BY <3>3, <3>4
  <2> QED BY <2>5, <2>6
<1>3. CASE KillTaken(t)
  <2>1. /\ UNCHANGED <<queuedByOther, nextEntry, queue, pending, group, walk>>
        /\ pc[t] \in {"kill", "wfpKill"} /\ (pc[t] = "kill" => ~queuedByOther[t])
        /\ waitee' = [waitee EXCEPT ![t] = None]
        /\ \A c \in Trx : ToSet(subsequent'[c]) = ToSet(subsequent[c]) \ {t}
    BY <1>0, <1>3, KillTakenEffect
  <2>2. Queued' = Queued
    BY <2>1 DEF Queued, Line
  <2>3. w # t /\ waitee'[w] = waitee[w]
    BY <1>0, <1>e, <2>1 DEF TypeOK, TypeWfc
  <2>4. nextEntry[t] # None => pc[t] = "wfpKill"
    BY <1>d, <2>1 DEF Settled, WaitPcs
  <2>5. ByChain(w) => ByChain(w)'
    BY <1>b, <1>e, <1>h, <2>1, <2>4 DEF TurnPending, WalkPcs
  <2>6. w \in ToSet(subsequent[waitee[w]]) => w \in ToSet(subsequent'[waitee'[w]])
    BY <1>g, <2>1, <2>3
  <2> QED BY <1>f, <1>i, <1>j, <2>1, <2>2, <2>3, <2>5, <2>6
<1>4. CASE QueueLock(t)
  <2>1. /\ UNCHANGED <<waitee, subsequent, queuedByOther, nextEntry, group, walk>>
        /\ Queued' = Queued \cup {t} /\ pc[t] = "error" /\ ~queuedByOther[t]
    BY <1>0, <1>4, QueueLockEffect
  <2>2. nextEntry[t] = None
    BY <2>1, NewEntries
  <2>3. ByChain(w) => ByChain(w)'
    BY <1>e, <1>h, <2>1, <2>2
  <2> QED BY <1>f, <1>i, <1>j, <2>1, <2>3
<1>5. CASE QueueEntry(t)
  <2>0. PICK e \in Trx, ready \in Seq(Trx) : EntryEffect(t, e, ready)
    BY <1>0, <1>5, QueueEntryEffect
  <2>1. /\ UNCHANGED <<waitee, nextEntry, group, walk>> /\ Queued' = Queued \cup ToSet(ready)
        /\ pc[t] = "enqueue"
        /\ \A c \in Trx : ToSet(subsequent'[c]) = ToSet(subsequent[c]) \ ToSet(ready)
        /\ \A x \in Trx : queuedByOther'[x] = (queuedByOther[x] \/ x \in ToSet(ready))
    BY <2>0 DEF EntryEffect
  <2>2. ByChain(w) => ByChain(w)'
    BY <1>b, <1>h, <2>1 DEF TurnPending, WalkPcs
  <2>3. w \in ToSet(subsequent[waitee[w]]) =>
          w \in ToSet(subsequent'[waitee'[w]]) \/ w \in ToSet(ready)
    BY <1>g, <2>1
  <2>4. queuedByOther[w] => queuedByOther'[w]
    BY <1>e, <2>1
  <2>5. w \in ToSet(ready) => queuedByOther'[w] /\ w \in Queued'
    BY <1>e, <2>1
  <2> QED BY <1>f, <1>i, <1>j, <2>1, <2>2, <2>3, <2>4, <2>5
<1>6. CASE LeaderCollect(t)
  <2>1. /\ UNCHANGED <<waitee, subsequent, queuedByOther, walk>> /\ pc[t] = "lead"
        /\ Line = queue /\ group' = [group EXCEPT ![t] = queue]
        /\ \A x \in Trx : x \notin Queued => nextEntry'[x] = nextEntry[x]
    BY <1>0, <1>6, LeaderCollectEffect
  <2>2. group'[t] = Line
    BY <1>0, <2>1 DEF TypeOK, TypeQueue
  <2>3. group[t] = <<>>
    BY <1>b, <2>1 DEF PcOk, LeaderPcs, WalkPcs
  <2>4. w \in Queued \/ InGroup(w) => InGroup(w)'
    BY <1>a, <2>2, <2>3, OrderEmpty DEF InGroup, Queued
  <2>5. ByChain(w) => ByChain(w)'
    <3> SUFFICES ASSUME ~OptimizeThreadScheduling, NEW x \in Trx, nextEntry[x] = w, TurnPending(x)
                 PROVE  nextEntry'[x] = w /\ TurnPending(x)'
      BY DEF ByChain
    <3>1. x \notin Queued
      BY <1>0, <1>e DEF NextInv
    <3>2. x # t
      BY <1>b, <2>1 DEF TurnPending, WalkPcs
    <3> QED BY <1>a, <2>1, <3>1, <3>2
  <2> QED BY <1>f, <1>i, <2>1, <2>4, <2>5
<1>7. CASE \E E \in SUBSET WriteErrors : \E H \in SUBSET WriteErrors : LeaderWrite(t, E, H)
  <2>1. /\ UNCHANGED <<waitee, subsequent, queuedByOther, nextEntry, queue, pending, group, walk>>
        /\ pc'[t] = "written"
    BY <1>0, <1>7, LeaderWriteEffect DEF WriteEffect
  <2>2. Queued' = Queued
    BY <2>1 DEF Queued, Line
  <2>3. ByChain(w) => ByChain(w)'
    BY <1>c, <1>h, <2>1 DEF TurnPending, WalkPcs
  <2> QED BY <1>f, <1>i, <1>j, <2>1, <2>2, <2>3
<1>8. CASE BeginWakeup(t)
  <2>0. PICK c \in Trx : DetachEffect(t, c)
    BY <1>0, <1>8, BeginWakeupEffect
  <2>1. /\ <<pc[t], At(t)'>> \in {<<"commit", "wake">>, <<"own", "chain">>, <<"finishWake", "done">>}
        /\ walk[t] = <<>> /\ walk' = [walk EXCEPT ![t] = subsequent[c]]
        /\ subsequent' = [subsequent EXCEPT ![c] = <<>>]
        /\ UNCHANGED <<waitee, queuedByOther, nextEntry, queue, pending, group>>
    BY <2>0 DEF DetachEffect
  <2>2. Queued' = Queued
    BY <2>1 DEF Queued, Line
  <2>3. ByChain(w) => ByChain(w)'
    BY <1>b, <1>h, <2>1 DEF TurnPending, WalkPcs
  <2>4. /\ walk'[t] = subsequent[c] /\ \A d \in Trx : d # c => subsequent'[d] = subsequent[d]
    BY <1>0, <2>1 DEF TypeOK, TypeWfc, TypeWalk
  <2>5. InWalk(w) \/ w \in ToSet(subsequent[c]) => InWalk(w)'
    BY <1>a, <2>1, <2>4, OrderEmpty DEF InWalk
  <2>6. w \in ToSet(subsequent[waitee[w]]) => w \in ToSet(subsequent'[waitee'[w]]) \/ InWalk(w)'
    BY <1>g, <2>1, <2>4, <2>5
  <2> QED BY <1>f, <1>j, <2>1, <2>2, <2>3, <2>5, <2>6
<1>9. CASE WakeNext(t)
  <2>0. PICK e \in Trx \cup {None} : WakeEffect(t, e)
    BY <1>9, WakeNextEffect
  <2>1. /\ pc[t] \in {"wake", "chain"} /\ (pc[t] = "chain" => e = nextEntry[t])
        /\ UNCHANGED <<waitee, subsequent, queuedByOther, nextEntry, queue, pending>>
        /\ \A l \in Trx : ToSet(group'[l]) = ToSet(group[l]) \ {e}
        /\ ToSet(walk'[t]) = IF e # None /\ queuedByOther[e] THEN {e} ELSE {}
    BY <2>0 DEF WakeEffect
  <2>2. Queued' = Queued
    BY <2>1 DEF Queued, Line
  <2>3. walk[t] = <<>> /\ (pc[t] = "wake" => OptimizeThreadScheduling)
    BY <1>b, <2>1 DEF PcOk, WalkPcs
  <2>4. InWalk(w) => InWalk(w)'
    BY <1>a, <2>3, OrderEmpty DEF InWalk
  <2>5. CASE w = e /\ queuedByOther[w]
    <3>1. w \in ToSet(walk'[t])
      BY <1>e, <2>1, <2>5
    <3> QED BY <3>1 DEF InWalk
  <2>6. CASE w # e
    <3>1. ByChain(w) => ByChain(w)'
      BY <1>h, <2>1, <2>3, <2>6
    <3>2. InGroup(w) => InGroup(w)'
      BY <2>1, <2>6 DEF InGroup
    <3> QED BY <1>f, <2>1, <2>2, <2>4, <3>1, <3>2
  <2>7. CASE ~queuedByOther[w]
    BY <1>f, <2>1, <2>4, <2>7
  <2> QED BY <2>5, <2>6, <2>7
<1>10. CASE Reserve(t)
  <2>1. /\ UNCHANGED <<waitee, subsequent, queuedByOther, nextEntry, queue, pending, walk>>
        /\ pc[t] \in {"reserve", "reserveWait"} /\ pc'[t] = "own" /\ ~OptimizeThreadScheduling
        /\ group' = [group EXCEPT ![t] = <<>>]
    BY <1>0, <1>10, ReserveEffect
  <2>2. Queued' = Queued
    BY <2>1 DEF Queued, Line
  <2>3. TurnPending(t)'
    BY <1>c, <2>1 DEF TurnPending, WalkPcs
  <2>4. ByChain(w) => ByChain(w)'
    BY <1>h, <2>1, <2>3
  <2>5. queuedByOther[w] /\ w \in ToSet(group[t]) => ByChain(w)'
    <3> SUFFICES ASSUME queuedByOther[w], w \in ToSet(group[t]) PROVE ByChain(w)'
      OBVIOUS
    <3>1. w # t
      BY <1>0, <2>1 DEF MemberInv, Parked, WaitPcs
    <3>2. PICK x \in ToSet(group[t]) : nextEntry[x] = w
      BY <1>0, <2>1, <3>1 DEF NextInv
    <3>3. x \in Trx
      BY <1>0, OrderType DEF TypeOK, TypeQueue
    <3>4. x # t => pc[x] \in WaitPcs \cup {"follow"}
      BY <1>0 DEF MemberInv, Parked
    <3>5. TurnPending(x)'
      BY <1>a, <1>b, <2>3, <3>3, <3>4 DEF TurnPending, WaitPcs, WalkPcs
    <3> QED BY <2>1, <3>2, <3>3, <3>5 DEF ByChain
  <2>6. InGroup(w) => InGroup(w)' \/ w \in ToSet(group[t])
    BY <1>a DEF InGroup
  <2> QED BY <1>f, <1>i, <2>1, <2>2, <2>4, <2>5, <2>6
<1>11. CASE WakeupWaitee(t)
  <2> DEFINE v == Head(walk[t])
  <2>1. /\ v \in Trx /\ waitee' = [waitee EXCEPT ![v] = None] /\ At(t)' = At(t)
        /\ UNCHANGED <<subsequent, queuedByOther, nextEntry, queue, pending, group, walk>>
    BY <1>0, <1>11, WakeupWaiteeEffect
  <2> HIDE DEF v
  <2>2. Queued' = Queued
    BY <2>1 DEF Queued, Line
  <2>3. ByChain(w) => ByChain(w)'
    BY <1>h, <2>1 DEF TurnPending
  <2>4. waitee'[w] = waitee[w]
    BY <1>0, <1>e, <2>1 DEF TypeOK, TypeWfc
  <2> QED BY <1>f, <1>i, <1>j, <2>1, <2>2, <2>3, <2>4
<1>12. CASE WakeupError(t)
  <2> DEFINE v == Head(walk[t])
  <2>1. /\ waitee[v] = None /\ ToSet(walk[t]) = ToSet(walk'[t]) \cup {v} /\ At(t)' = At(t)
        /\ UNCHANGED <<waitee, subsequent, queuedByOther, nextEntry, queue, pending, group>>
    BY <1>0, <1>12, WakeupErrorEffect
  <2> HIDE DEF v
  <2>2. Queued' = Queued
    BY <2>1 DEF Queued, Line
  <2>3. ByChain(w) => ByChain(w)'
    BY <1>h, <2>1 DEF TurnPending
  <2>4. InWalk(w) => InWalk(w)'
    BY <1>a, <2>1 DEF InWalk
  <2> QED BY <1>f, <1>j, <2>1, <2>2, <2>3, <2>4
<1> QED BY StepKinds, <1>1, <1>2, <1>3, <1>4, <1>5, <1>6, <1>7, <1>8, <1>9, <1>10, <1>11, <1>12

LEMMA LogType ==
  ASSUME TypeOK, MutexInv
  PROVE  Unwritten \in Seq(Trx) /\ binlog \in Seq(Trx) /\ queue \in Seq(Trx)
<1>1. lockLog \in Trx \cup {None} /\ \A l \in Trx : group[l] \in Seq(Trx)
  BY DEF TypeOK, TypeLock, TypeQueue
<1>2. <<>> \in Seq(Trx)
  OBVIOUS
<1>3. Unwritten \in Seq(Trx)
  BY <1>1, <1>2 DEF Unwritten
<1> QED BY <1>3 DEF TypeOK, TypeQueue, TypeLog

LEMMA CatType == \A p, q \in Seq(Trx) : Cat(p, q) \in Seq(Trx)
  BY CatFacts

LEMMA CatEmpty == \A p \in Seq(Trx) : Cat(p, <<>>) = p /\ Cat(<<>>, p) = p
  BY CatFacts

LEMMA CatAssoc == \A p, q, r \in Seq(Trx) : Cat(Cat(p, q), r) = Cat(p, Cat(q, r))
  BY CatFacts

\* What the steps do to the binlog and the group being written.
LEMMA WrittenStep ==
  ASSUME Inv, NEW t \in Trx, Step(t) \/ Kill(t)
  PROVE  /\ Written \in Seq(Trx)
         /\ pc[t] # "write" /\ pc'[t] # "write" /\ binlog' = binlog => Written' = Written
         /\ LeaderCollect(t) => Written = binlog /\ Written' = binlog \o queue
         /\ (\E E \in SUBSET WriteErrors : \E H \in SUBSET WriteErrors : LeaderWrite(t, E, H)) =>
              /\ Written' \in Seq(Trx) /\ ToSet(Written') \subseteq ToSet(Written)
              /\ \A x, y : Before(Written', x, y) => Before(Written, x, y)
<1> USE Constants
<1>0. TypeOK /\ PcInv /\ MutexInv /\ WfcInv /\ SubInv /\ DistinctInv /\ HeadInv /\ NextInv
  BY DEF Inv
<1>a. \A x \in Trx : x # t => pc'[x] = pc[x] /\ group'[x] = group[x]
  BY <1>0, Others
<1>b. TypeOK' /\ MutexInv'
  BY <1>0, TypeStep, MutexStep
<1>c. Unwritten \in Seq(Trx) /\ binlog \in Seq(Trx) /\ queue \in Seq(Trx) /\ Written \in Seq(Trx)
  BY <1>0, LogType, OrderConcat DEF Written
<1>d. lockLog \in Trx \cup {None} /\ lockLog' \in Trx \cup {None}
  BY <1>0, <1>b DEF TypeOK, TypeLock
<1>e. \A l \in Trx : /\ pc[l] = "write" => lockLog = l
                     /\ pc'[l] = "write" => lockLog' = l
  BY <1>0, <1>b DEF MutexInv, Holds
<1>1. ASSUME pc[t] # "write", pc'[t] # "write", binlog' = binlog PROVE Written' = Written
  <2>1. CASE \E l \in Trx : pc[l] = "write"
    <3>1. PICK l \in Trx : pc[l] = "write"
      BY <2>1
    <3>2. l # t /\ pc'[l] = "write" /\ group'[l] = group[l] /\ lockLog = l /\ lockLog' = l
      BY <1>1, <1>a, <1>e, <3>1
    <3> QED BY <1>1, <3>1, <3>2 DEF Unwritten, Written
  <2>2. CASE ~ \E l \in Trx : pc[l] = "write"
    <3>1. \A l \in Trx : pc[l] # "write" /\ pc'[l] # "write"
      BY <1>1, <1>a, <2>2
    <3> QED BY <1>1, <1>d, <3>1 DEF Unwritten, Written
  <2> QED BY <2>1, <2>2
<1>2. ASSUME LeaderCollect(t) PROVE Written = binlog /\ Written' = binlog \o queue
  <2>1. /\ UNCHANGED binlog /\ lockLog = None /\ lockLog' = t /\ pc'[t] = "write"
        /\ group' = [group EXCEPT ![t] = queue]
    BY <1>0, <1>2, LeaderCollectEffect
  <2>2. group'[t] = queue
    BY <1>0, <2>1 DEF TypeOK, TypeQueue
  <2>3. Unwritten = <<>> /\ Unwritten' = queue
    BY <2>1, <2>2 DEF Unwritten
  <2>4. binlog \o <<>> = binlog
    BY <1>c, ConcatEmptySeq
  <2> QED BY <2>1, <2>3, <2>4 DEF Written
<1>3. ASSUME \E E \in SUBSET WriteErrors : \E H \in SUBSET WriteErrors : LeaderWrite(t, E, H)
      PROVE  /\ Written' \in Seq(Trx) /\ ToSet(Written') \subseteq ToSet(Written)
             /\ \A x, y : Before(Written', x, y) => Before(Written, x, y)
  <2>0. PICK k \in Seq(Trx) : WriteEffect(t, k)
    BY <1>0, <1>3, LeaderWriteEffect
  <2>1. /\ pc[t] = "write" /\ pc'[t] = "written" /\ lockLog = t
        /\ lockLog' = t /\ binlog' = binlog \o k /\ ToSet(k) \subseteq ToSet(group[t])
        /\ \A x, y : Before(k, x, y) => Before(group[t], x, y)
    BY <2>0 DEF WriteEffect
  <2> DEFINE g == group[t]
             a == binlog \o g
             b == binlog \o k
  <2>2. g \in Seq(Trx) /\ Unwritten = g /\ Unwritten' = <<>>
    BY <1>0, <2>1 DEF Unwritten, TypeOK, TypeQueue
  <2>3. /\ a \in Seq(Trx) /\ ToSet(a) = ToSet(binlog) \cup ToSet(g)
        /\ \A x, y : Before(a, x, y) <=>
             Before(binlog, x, y) \/ (x \in ToSet(binlog) /\ y \in ToSet(g)) \/ Before(g, x, y)
    BY <1>c, <2>2, OrderConcat
  <2>4. /\ b \in Seq(Trx) /\ ToSet(b) = ToSet(binlog) \cup ToSet(k)
        /\ \A x, y : Before(b, x, y) <=>
             Before(binlog, x, y) \/ (x \in ToSet(binlog) /\ y \in ToSet(k)) \/ Before(k, x, y)
    BY <1>c, OrderConcat
  <2>5. Written = a /\ Written' = b
    <3>1. b \o <<>> = b
      BY <2>4, ConcatEmptySeq
    <3> QED BY <2>1, <2>2, <3>1 DEF Written
  <2> QED BY <2>1, <2>3, <2>4, <2>5
<1> QED BY <1>c, <1>1, <1>2, <1>3

\* ... and the queue.
LEMMA LogStep ==
  ASSUME Inv, NEW t \in Trx, Step(t) \/ Kill(t)
  PROVE  /\ Log \in Seq(Trx) /\ Written \in Seq(Trx)
         /\ \/ UNCHANGED <<Log, Written, prepared, queue, pending>>
            \/ QueueLock(t) /\ UNCHANGED <<Log, Written, prepared, queue>>
            \/ QueueEntry(t) /\ UNCHANGED Written
            \/ LeaderCollect(t) /\ UNCHANGED <<Log, prepared, pending>>
            \/ /\ \E E \in SUBSET WriteErrors : \E H \in SUBSET WriteErrors : LeaderWrite(t, E, H)
               /\ UNCHANGED <<prepared, queue, pending>> /\ Written' \in Seq(Trx)
               /\ ToSet(Written') \subseteq ToSet(Written)
               /\ \A x, y : Before(Written', x, y) => Before(Written, x, y)
<1> USE Constants
<1>0. TypeOK /\ PcInv /\ MutexInv /\ WfcInv /\ SubInv /\ DistinctInv /\ HeadInv /\ NextInv
  BY DEF Inv
<1>a. binlog \in Seq(Trx) /\ queue \in Seq(Trx) /\ Written \in Seq(Trx)
  BY <1>0, LogType, WrittenStep
<1>b. Log \in Seq(Trx)
  BY <1>a, OrderConcat DEF Log
<1>c. ASSUME pc[t] # "write", pc'[t] # "write", binlog' = binlog, queue' = queue
      PROVE  UNCHANGED <<Log, Written>>
  BY <1>c, WrittenStep DEF Log
<1>1. CASE Quiet(t)
  BY <1>1, <1>a, <1>b, <1>c DEF Quiet
<1>2. CASE QueueLock(t)
  <2>1. UNCHANGED <<binlog, queue, prepared>> /\ pc[t] # "write" /\ pc'[t] # "write"
    BY <1>0, <1>2, QueueLockEffect
  <2> QED BY <1>2, <1>a, <1>b, <1>c, <2>1
<1>3. CASE QueueEntry(t)
  <2>1. UNCHANGED binlog /\ pc[t] # "write" /\ pc'[t] # "write"
    BY <1>0, <1>3, QueueEntryEffect DEF EntryEffect
  <2> QED BY <1>3, <1>a, <1>b, <2>1, WrittenStep
<1>4. CASE LeaderCollect(t)
  <2>1. Written = binlog /\ Written' = binlog \o queue /\ queue' = <<>> /\ UNCHANGED <<prepared, pending>>
    BY <1>0, <1>4, WrittenStep, LeaderCollectEffect
  <2>2. (binlog \o queue) \o <<>> = binlog \o queue
    BY <1>a, OrderConcat, ConcatEmptySeq
  <2>3. Log' = Log
    BY <2>1, <2>2 DEF Log
  <2> QED BY <1>4, <1>a, <1>b, <2>1, <2>3
<1>5. CASE \E E \in SUBSET WriteErrors : \E H \in SUBSET WriteErrors : LeaderWrite(t, E, H)
  <2>1. UNCHANGED <<prepared, queue, pending>>
    BY <1>0, <1>5, LeaderWriteEffect DEF WriteEffect
  <2> QED BY <1>5, <1>a, <1>b, <2>1, WrittenStep
<1>6. CASE WakeNext(t)
  <2>1. /\ UNCHANGED <<binlog, queue, pending, prepared>>
        /\ pc[t] \in {"wake", "chain"} /\ pc'[t] \in {"commit", "return", "walk"}
    BY <1>6, WakeNextEffect DEF WakeEffect
  <2> QED BY <1>a, <1>b, <1>c, <2>1
<1>7. CASE Reserve(t)
  <2>1. /\ UNCHANGED <<binlog, queue, pending, prepared>>
        /\ pc[t] \in {"reserve", "reserveWait"} /\ pc'[t] = "own"
    BY <1>0, <1>7, ReserveEffect
  <2> QED BY <1>a, <1>b, <1>c, <2>1
<1> QED BY StepKinds, QuietKinds, <1>1, <1>2, <1>3, <1>4, <1>5, <1>6, <1>7

\* A queued entry comes last in the log.
LEMMA LogAppend ==
  ASSUME Inv, NEW t \in Trx, QueueEntry(t), NEW e \in Trx, queue' = Append(queue, e)
  PROVE  /\ ToSet(Log') = ToSet(Log) \cup {e}
         /\ \A x, y : Before(Log', x, y) <=> Before(Log, x, y) \/ (x \in ToSet(Log) /\ y = e)
<1>1. Step(t)
  BY DEF Step
<1>2. Log \in Seq(Trx) /\ Written \in Seq(Trx) /\ Written' = Written /\ queue \in Seq(Trx)
  <2>1. pc[t] # "write" /\ pc'[t] # "write" /\ binlog' = binlog
    BY QueueEntryEffect DEF EntryEffect, Inv
  <2> QED BY <1>1, <2>1, LogStep, WrittenStep DEF Inv, TypeOK, TypeQueue
<1>3. <<e>> \in Seq(Trx) /\ queue' = queue \o <<e>>
  BY <1>2, AppendIsConcat
<1>4. Log = Cat(Written, queue) /\ Log' = Cat(Written, Cat(queue, <<e>>))
  BY <1>2, <1>3 DEF Log, Cat
<1>5. Log' = Cat(Log, <<e>>)
  BY <1>2, <1>3, <1>4, CatAssoc
<1>6. Log' = Append(Log, e)
  BY <1>2, <1>5, AppendIsConcat DEF Cat
<1> QED BY <1>2, <1>6, OrderAppend

LEMMA PrepStep ==
  ASSUME Inv, NEW t \in Trx, Step(t) \/ Kill(t)
  PROVE  PrepInv'
<1>0. TypeOK /\ PcInv /\ MutexInv /\ SubInv /\ PrepInv /\ queue \in Seq(Trx) /\ prepared \in Seq(Trx)
  BY DEF Inv, TypeOK, TypeQueue, TypeLog
<1>1. CASE UNCHANGED <<Log, prepared>>
  BY <1>0, <1>1 DEF PrepInv
<1>2. CASE QueueEntry(t)
  <2>0. PICK e \in Trx, ready \in Seq(Trx) : EntryEffect(t, e, ready)
    BY <1>0, <1>2, QueueEntryEffect
  <2>1. /\ queue' = Append(queue, e)
        /\ prepared' = IF e \in UsesXa THEN Append(prepared, e) ELSE prepared
    BY <2>0 DEF EntryEffect
  <2>2. /\ ToSet(Log') = ToSet(Log) \cup {e}
        /\ \A x, y : Before(Log', x, y) <=> Before(Log, x, y) \/ (x \in ToSet(Log) /\ y = e)
    BY <1>2, <2>1, LogAppend
  <2>3. /\ ToSet(Append(prepared, e)) = ToSet(prepared) \cup {e}
        /\ \A x, y : Before(Append(prepared, e), x, y) <=>
             Before(prepared, x, y) \/ (x \in ToSet(prepared) /\ y = e)
    BY <1>0, OrderAppend
  <2>4. CASE e \in UsesXa
    BY <1>0, <2>1, <2>2, <2>3, <2>4 DEF PrepInv
  <2>5. CASE e \notin UsesXa
    BY <1>0, <2>1, <2>2, <2>5 DEF PrepInv
  <2> QED BY <2>4, <2>5
<1>3. CASE /\ UNCHANGED <<prepared, queue>> /\ Written' \in Seq(Trx)
           /\ ToSet(Written') \subseteq ToSet(Written)
           /\ \A x, y : Before(Written', x, y) => Before(Written, x, y)
  <2> DEFINE a == Written
             b == Written'
  <2>1. a \in Seq(Trx) /\ b \in Seq(Trx) /\ Log = a \o queue /\ Log' = b \o queue
    BY <1>3, LogStep DEF Log
  <2>2. ToSet(b) \subseteq ToSet(a) /\ \A x, y : Before(b, x, y) => Before(a, x, y)
    BY <1>3
  <2> HIDE DEF a, b
  <2>3. /\ ToSet(b \o queue) \subseteq ToSet(a \o queue)
        /\ \A x, y : Before(b \o queue, x, y) => Before(a \o queue, x, y)
    BY <1>0, <2>1, <2>2, OrderThin
  <2>4. ToSet(Log') \subseteq ToSet(Log) /\ \A x, y : Before(Log', x, y) => Before(Log, x, y)
    BY <2>1, <2>3
  <2> QED BY <1>0, <1>3, <2>4 DEF PrepInv
<1> QED BY LogStep, <1>1, <1>2, <1>3

-----------------------------------------------------------------------------
(* The theorems                                                            *)

LEMMA InvInit == Init => Inv
<1> SUFFICES ASSUME Init PROVE Inv
  OBVIOUS
<1> USE Constants
<1>1. TypeOK
  BY TypeInit
<1>2. /\ \A t \in Trx : /\ pc[t] \in {"start", "check"} /\ (pc[t] = "start" <=> t \in Workers)
                        /\ waitee[t] = None /\ subsequent[t] = <<>> /\ ~opaque[t]
                        /\ ~queuedByOther[t] /\ nextEntry[t] = None /\ group[t] = <<>>
                        /\ walk[t] = <<>> /\ result[t] = "none"
      /\ queue = <<>> /\ pending = <<>> /\ prepared = <<>> /\ binlog = <<>>
      /\ lockPrepare = None /\ lockLog = None /\ lockAbs = None /\ lockCo = None
  BY DEF Init
<1>3. \A t \in Trx : At(t) = pc[t]
  BY <1>2 DEF At
<1>4. ToSet(<<>>) = {} /\ IsInjective(<<>>) /\ \A a, b : ~ Before(<<>>, a, b)
  BY OrderEmpty
<1>5. Line = <<>> /\ Queued = {}
  <2>1. Line = <<>>
    BY <1>1, <1>2, LineType
  <2> QED BY <1>4, <2>1 DEF Queued
<1>6. \A x : ~InWalk(x) /\ ~InGroup(x)
  BY <1>2, <1>4 DEF InWalk, InGroup
<1>7. PcInv
  BY <1>2, <1>3 DEF PcInv, PcOk, WalkPcs
<1>8. MutexInv
  BY <1>2, <1>3 DEF MutexInv, Holds
<1>9. WfcInv
  BY <1>2 DEF WfcInv
<1>10. SubInv
  BY <1>2, <1>4, <1>6 DEF SubInv
<1>11. SettledInv
  BY <1>2, <1>4, <1>5, <1>6 DEF SettledInv, Entered
<1>12. DistinctInv
  BY <1>2, <1>4, <1>5 DEF DistinctInv
<1>13. MemberInv
  BY <1>2, <1>4, <1>5 DEF MemberInv
<1>14. HeadInv
  BY <1>2 DEF HeadInv
<1>15. NextInv
  BY <1>2, <1>4 DEF NextInv
<1>16. FinishedInv
  BY <1>2, <1>3 DEF FinishedInv
<1>17. KnownInv
  BY <1>2 DEF KnownInv
<1>18. PrepInv
  <2>1. Unwritten = <<>>
    BY <1>2 DEF Unwritten
  <2>2. Log = Cat(Cat(<<>>, <<>>), <<>>) /\ <<>> \in Seq(Trx)
    BY <1>2, <2>1 DEF Log, Written, Cat
  <2>3. Log = <<>>
    BY <2>2, CatFacts
  <2> QED BY <1>4, <2>3 DEF PrepInv
<1> QED BY <1>1, <1>7, <1>8, <1>9, <1>10, <1>11, <1>12, <1>13, <1>14, <1>15, <1>16, <1>17, <1>18 DEF Inv

LEMMA InvStep == Inv /\ [Next]_vars => Inv'
<1>1. ASSUME Inv, NEW t \in Trx, Step(t) \/ Kill(t) PROVE Inv'
  <2>1. TypeOK /\ PcInv /\ MutexInv /\ WfcInv /\ SubInv
    BY <1>1 DEF Inv
  <2>2. TypeOK' /\ PcInv' /\ MutexInv' /\ WfcInv'
    BY <1>1, <2>1, TypeStep, PcStep, MutexStep, WfcStep
  <2>3. SubInv' /\ SettledInv' /\ DistinctInv'
    BY <1>1, SubStep, SettledStep, DistinctStep
  <2>4. MemberInv' /\ HeadInv' /\ NextInv'
    BY <1>1, MemberStep, HeadStep, NextStep
  <2>5. FinishedInv' /\ KnownInv' /\ PrepInv'
    BY <1>1, FinishedStep, KnownStep, PrepStep
  <2> QED BY <2>2, <2>3, <2>4, <2>5 DEF Inv
<1>2. ASSUME Inv, UNCHANGED vars PROVE Inv'
  <2> USE <1>2 DEF Inv, vars, wfcVars, entryVars, queueVars, lockVars, walkVars, endVars, logVars
  <2>1. TypeOK'
    BY DEF TypeOK, TypePc, TypeWfc, TypeEntry, TypeQueue, TypeLock, TypeWalk, TypeEnd, TypeLog
  <2>2. PcInv'
    BY DEF PcInv, PcOk, At
  <2>3. MutexInv' /\ WfcInv'
    BY DEF MutexInv, WfcInv, Holds, At
  <2>4. SubInv'
    BY DEF SubInv, InWalk
  <2>5. SettledInv'
    BY DEF SettledInv, Settled, Entered, InGroup, Queued, Line
  <2>6. DistinctInv' /\ HeadInv'
    BY DEF DistinctInv, HeadInv, Queued, Line
  <2>7. MemberInv'
    BY DEF MemberInv, Parked, InWalk, Queued, Line
  <2>8. NextInv' /\ FinishedInv'
    BY DEF NextInv, FinishedInv, At, Queued, Line
  <2>9. KnownInv'
    BY DEF KnownInv, ByChain, TurnPending, At, InWalk, InGroup, Queued, Line
  <2>10. PrepInv'
    BY DEF PrepInv, Log, Written, Unwritten
  <2> QED BY <2>1, <2>2, <2>3, <2>4, <2>5, <2>6, <2>7, <2>8, <2>9, <2>10
<1> QED BY <1>1, <1>2 DEF Next, AllDone

\* The inductive invariant: who queues an entry, who sleeps, who holds what, and
\* how the lists of queue_for_group_commit() and trx_group_commit_leader() fit
\* together, in every reachable state.
THEOREM Invariance == Spec => []Inv
  BY InvInit, InvStep, PTL DEF Spec

\* Every variable keeps its type; the walks of wakeup_subsequent_commits2() and
\* the lists of waiters hold transactions only.
THEOREM TypeCorrect == Spec => []TypeOK
<1>1. Inv => TypeOK
  BY DEF Inv
<1> QED BY <1>1, Invariance, PTL

\* The DBUG_ASSERT(leader == queue) of trx_group_commit_leader() holds, and no
\* transaction is written to the binlog twice.
THEOREM LeaderIsFirstHolds == Spec => []LeaderIsFirst
<1>1. Inv => LeaderIsFirst
  BY DEF Inv, HeadInv, DistinctInv, LeaderIsFirst
<1> QED BY <1>1, Invariance, PTL

\* prepare_ordered() is called in the order of the binlog, whoever queues the
\* entry and whatever fails.
THEOREM PrepareOrderHolds == Spec => []PrepareOrder
<1>1. Inv => PrepareOrder
  <2> SUFFICES ASSUME Inv, NEW i \in 1..Len(binlog), NEW j \in 1..Len(binlog), i < j,
                      {binlog[i], binlog[j]} \subseteq UsesXa
               PROVE  Before(prepared, binlog[i], binlog[j])
    BY DEF PrepareOrder
  <2> DEFINE a == binlog[i]
             b == binlog[j]
             p == binlog \o Unwritten
  <2>1. TypeOK /\ MutexInv /\ PrepInv
    BY DEF Inv
  <2>2. Unwritten \in Seq(Trx) /\ binlog \in Seq(Trx) /\ queue \in Seq(Trx)
    BY <2>1, LogType
  <2>3. a \in UsesXa /\ b \in UsesXa /\ Before(binlog, a, b)
    BY DEF Before
  <2> HIDE DEF a, b
  <2>4. p \in Seq(Trx) /\ Before(p, a, b)
    BY <2>2, <2>3, OrderConcat
  <2>5. Log = p \o queue
    BY DEF Log, Written
  <2> HIDE DEF p
  <2>6. Before(Log, a, b)
    BY <2>2, <2>4, <2>5, OrderConcat
  <2> QED BY <2>1, <2>3, <2>6 DEF PrepInv, a, b
<1> QED BY <1>1, Invariance, PTL

\* A transaction that gave up, killed or after the error of a prior commit, is in
\* no queue and in no group: nobody commits it behind its back.
THEOREM AbortedNotQueuedHolds == Spec => []AbortedNotQueued
<1>1. Inv => AbortedNotQueued
  <2> SUFFICES ASSUME Inv PROVE AbortedNotQueued
    OBVIOUS
  <2> SUFFICES ASSUME NEW t \in Trx, result[t] = "failed"
               PROVE  t \notin Queued /\ \A l \in Trx : t \notin ToSet(group[l])
    <3>1. TypeOK
      BY DEF Inv
    <3>2. Queued = ToSet(queue) \cup ToSet(pending)
      BY <3>1, LineType
    <3> QED BY <3>2 DEF AbortedNotQueued
  <2>1. TypeOK /\ PcInv /\ MemberInv
    BY DEF Inv
  <2>2. At(t) \in EndPcs /\ pc[t] \notin WaitPcs \cup {"follow", "enqueue", "lead"}
    BY <2>1 DEF PcInv, PcOk, At, EndPcs, WaitPcs
  <2>3. t \notin Queued
    BY <2>1, <2>2 DEF MemberInv, Parked
  <2>4. ASSUME NEW l \in Trx, t \in ToSet(group[l]) PROVE FALSE
    <3>1. l = t
      BY <2>1, <2>2, <2>4 DEF MemberInv, Parked
    <3>2. group[t] # <<>>
      BY <2>4, <3>1, OrderEmpty
    <3> QED BY <2>1, <2>2, <3>2 DEF PcInv, PcOk, EndPcs, LeaderPcs
  <2> QED BY <2>3, <2>4
<1> QED BY <1>1, Invariance, PTL

\* No waiter is forgotten: whoever waits for a prior commit is in the list of a
\* transaction that has not ended, in a walk, or in the care of a leader or of its
\* predecessor in the group.
THEOREM WaiterKnownHolds == Spec => []WaiterKnown
<1>1. Inv => WaiterKnown
  <2> USE Constants
  <2> SUFFICES ASSUME Inv, NEW w \in Workers, waitee[w] # None PROVE Waker(w)
    BY DEF WaiterKnown
  <2>1. TypeOK /\ FinishedInv /\ KnownInv
    BY DEF Inv
  <2>2. waitee[w] \in Workers /\ Queued = ToSet(queue) \cup ToSet(pending)
    BY <2>1, LineType DEF TypeOK, TypeWfc
  <2>3. pc[waitee[w]] = "done" => subsequent[waitee[w]] = <<>>
    BY <2>1, <2>2 DEF FinishedInv, At
  <2>4. w \in ToSet(subsequent[waitee[w]]) => pc[waitee[w]] # "done"
    BY <2>3, OrderEmpty
  <2>5. \/ w \in ToSet(subsequent[waitee[w]])
        \/ InWalk(w)
        \/ queuedByOther[w] /\ (w \in Queued \/ InGroup(w) \/ ByChain(w))
    BY <2>1 DEF KnownInv
  <2> QED BY <2>2, <2>4, <2>5 DEF Waker, InWalk, InGroup, ByChain
<1> QED BY <1>1, Invariance, PTL

-----------------------------------------------------------------------------
(* The master's order                                                      *)

(***************************************************************************)
(* Without a kill, a worker gets ahead - it leaves its list of waiters, is *)
(* queued, or ends - only when all workers before it are Settled: they are *)
(* in the queue already, or will never be.  So whatever is appended to the *)
(* binlog, the group being written and the queue comes after the workers   *)
(* that are there.  A kill breaks this: it lets a worker end before the    *)
(* ones that precede it, and those behind it no longer wait for them.      *)
(***************************************************************************)

\* The places of a worker that still has to wait for the prior one.
EarlyPcs == {"start", "run", "check", "recheck", "offer", "wait", "wait2", "wfp", "wfpWait",
             "wfpWait2"}

PriorSettled(y) == \A x \in Workers : x < y => Settled(x)

\* y let its waiters go, or is about to.
Started(y) == commitStarted[y] \/ running[y] \/ y <= lastCommitted

Ahead(y) ==
  \/ At(y) \notin EarlyPcs
  \/ pc[y] # "start" /\ waitee[y] = None
  \/ queuedByOther[y] \/ InWalk(y) \/ Started(y)

NoKill == \A t \in Trx : ~killed[t] /\ pc[t] \notin {"kill", "wfpKill"}

AheadInv ==
  /\ \A w \in Trx : waitee[w] \in {None, Prior(w)}
  /\ \A y \in Workers : /\ Ahead(y) => PriorSettled(y)
                        /\ Started(y) => Settled(y)

\* The binlog, the group being written, the queue and what is being queued.
Course == Log \o pending

CourseInv ==
  /\ \A x \in ToSet(Log) \cap Workers : commitStarted[x]
  /\ \A a, b \in Workers : Before(Course, a, b) => a < b

OrderInv == NoKill /\ AheadInv /\ CourseInv


-----------------------------------------------------------------------------
(* Who gets ahead                                                          *)

LEMMA StartedMove ==
  ASSUME TypeOK, NEW t \in Trx, Step(t) \/ Kill(t)
  PROVE  /\ QueueEntry(t) \/ commitStarted' = commitStarted
         /\ FinishGroup(t) \/ lastCommitted' = lastCommitted
         /\ BeginWakeup(t) \/ \A y \in Trx : running'[y] => running[y]
<1> USE Constants DEF Goto, wfcVars, entryVars, queueVars, lockVars, walkVars, endVars, logVars
<1>1. CASE Register(t)
  BY <1>1 DEF Register
<1>2. CASE Execute(t)
  BY <1>2 DEF Execute
<1>3. CASE ExecuteFails(t)
  BY <1>3 DEF ExecuteFails, Fail
<1>4. CASE WfpQuickCheck(t)
  BY <1>4 DEF WfpQuickCheck
<1>5. CASE WfpQuickReturn(t)
  BY <1>5 DEF WfpQuickReturn, WfpReturn
<1>6. CASE WfpWoken(t)
  BY <1>6 DEF WfpWoken, WfpReturn
<1>7. CASE WfpKilled(t)
  BY <1>7 DEF WfpKilled
<1>8. CASE WfpKillIgnored(t)
  BY <1>8 DEF WfpKillIgnored
<1>9. CASE WfpKillTaken(t)
  BY <1>9 DEF WfpKillTaken, WfpReturn, Unregister
<1>10. CASE QueueQuickCheck(t)
  BY <1>10 DEF QueueQuickCheck
<1>11. CASE QueueRecheck(t)
  BY <1>11 DEF QueueRecheck
<1>40. CASE QueueOffer(t)
  BY <1>40 DEF QueueOffer
<1>12. CASE QueueWoken(t)
  BY <1>12 DEF QueueWoken
<1>13. CASE QueueKilled(t)
  BY <1>13 DEF QueueKilled
<1>14. CASE QueueKillIgnored(t)
  BY <1>14 DEF QueueKillIgnored
<1>15. CASE QueueKillTaken(t)
  BY <1>15 DEF QueueKillTaken, Fail, Unregister
<1>16. CASE QueueByOther(t)
  BY <1>16 DEF QueueByOther
<1>17. CASE QueuePriorFailed(t)
  BY <1>17 DEF QueuePriorFailed, Fail
<1>18. CASE QueueLock(t)
  BY <1>18 DEF QueueLock
<1>19. CASE QueueEntry(t)
  BY <1>19 DEF QueueEntry
<1>20. CASE LeaderCollect(t)
  BY <1>20 DEF LeaderCollect
<1>21. CASE \E E \in SUBSET WriteErrors : \E H \in SUBSET WriteErrors : LeaderWrite(t, E, H)
  BY <1>21 DEF LeaderWrite
<1>22. CASE LeaderSync(t)
  BY <1>22 DEF LeaderSync
<1>23. CASE LeaderOrder(t)
  BY <1>23 DEF LeaderOrder
<1>24. CASE LeaderCommitOne(t)
  BY <1>24 DEF BeginWakeup, LeaderCommitOne, RunCommitOrdered, StartWakeup
<1>25. CASE LeaderWakeOne(t)
  BY <1>25 DEF LeaderWakeOne, WakeOwner
<1>26. CASE LeaderDone(t)
  BY <1>26 DEF LeaderDone
<1>27. CASE ReserveWait(t)
  BY <1>27 DEF ReserveWait
<1>28. CASE Reserve(t)
  BY <1>28 DEF Reserve
<1>29. CASE Follow(t)
  BY <1>29 DEF Follow
<1>30. CASE OwnCommit(t)
  BY <1>30 DEF BeginWakeup, OwnCommit, RunCommitOrdered, StartWakeup
<1>31. CASE OwnWakeNext(t)
  BY <1>31 DEF OwnWakeNext, WakeOwner
<1>32. CASE WakeupWaitee(t)
  BY <1>32 DEF WakeupWaitee
<1>33. CASE WakeupError(t)
  BY <1>33 DEF WakeupError
<1>34. CASE EndWakeup(t)
  BY <1>34 DEF EndWakeup, TypeOK, TypeWfc
<1>35. CASE ReturnError(t)
  BY <1>35 DEF ReturnError, Fail
<1>36. CASE ReturnWait(t)
  BY <1>36 DEF ReturnWait
<1>37. CASE FinishGroup(t)
  BY <1>37 DEF FinishGroup
<1>38. CASE FinishWake(t)
  BY <1>38 DEF BeginWakeup, FinishWake, StartWakeup
<1>39. CASE Kill(t)
  BY <1>39 DEF Kill
<1> QED BY <1>1, <1>2, <1>3, <1>4, <1>5, <1>6, <1>7, <1>8, <1>9, <1>10, <1>11, <1>12, <1>13, <1>14, <1>15, <1>16, <1>17, <1>18, <1>19, <1>20, <1>21, <1>22, <1>23, <1>24, <1>25, <1>26, <1>27, <1>28, <1>29, <1>30, <1>31, <1>32, <1>33, <1>34, <1>35, <1>36, <1>37, <1>38, <1>39, <1>40 DEF Step

LEMMA EarlyMove ==
  ASSUME TypeOK, PcInv, NoKill, Killable = {}, NEW t \in Trx, Step(t) \/ Kill(t)
  PROVE  /\ pc'[t] \notin {"kill", "wfpKill"} /\ \A x \in Trx : ~killed'[x]
         /\ At(t) \in EarlyPcs /\ At(t)' \notin EarlyPcs =>
              pc[t] # "start" /\ (waitee[t] = None \/ commitStarted[waitee[t]])
<1> USE Constants DEF Goto, wfcVars, entryVars, queueVars, lockVars, walkVars, endVars, logVars
<1>a. PcOk(t)
  BY DEF PcInv
<1> USE DEF TypeOK, TypePc, TypeEntry, TypeWalk, PcOk, At, WalkPcs, EarlyPcs, NoKill
<1>1. CASE Register(t)
  BY <1>a, <1>1 DEF Register
<1>2. CASE Execute(t)
  BY <1>a, <1>2 DEF Execute
<1>3. CASE ExecuteFails(t)
  BY <1>a, <1>3 DEF ExecuteFails, Fail
<1>4. CASE WfpQuickCheck(t)
  BY <1>a, <1>4 DEF WfpQuickCheck
<1>5. CASE WfpQuickReturn(t)
  BY <1>a, <1>5 DEF WfpQuickReturn, WfpReturn
<1>6. CASE WfpWoken(t)
  BY <1>a, <1>6 DEF WfpWoken, WfpReturn
<1>7. CASE WfpKilled(t)
  BY <1>a, <1>7 DEF WfpKilled
<1>8. CASE WfpKillIgnored(t)
  BY <1>a, <1>8 DEF WfpKillIgnored
<1>9. CASE WfpKillTaken(t)
  BY <1>a, <1>9 DEF WfpKillTaken, WfpReturn, Unregister
<1>10. CASE QueueQuickCheck(t)
  BY <1>a, <1>10 DEF QueueQuickCheck
<1>11. CASE QueueRecheck(t)
  BY <1>a, <1>11 DEF QueueRecheck
<1>40. CASE QueueOffer(t)
  BY <1>a, <1>40 DEF QueueOffer
<1>12. CASE QueueWoken(t)
  BY <1>a, <1>12 DEF QueueWoken
<1>13. CASE QueueKilled(t)
  BY <1>a, <1>13 DEF QueueKilled
<1>14. CASE QueueKillIgnored(t)
  BY <1>a, <1>14 DEF QueueKillIgnored
<1>15. CASE QueueKillTaken(t)
  BY <1>a, <1>15 DEF QueueKillTaken, Fail, Unregister
<1>16. CASE QueueByOther(t)
  BY <1>a, <1>16 DEF QueueByOther
<1>17. CASE QueuePriorFailed(t)
  BY <1>a, <1>17 DEF QueuePriorFailed, Fail
<1>18. CASE QueueLock(t)
  BY <1>a, <1>18 DEF QueueLock
<1>19. CASE QueueEntry(t)
  BY <1>a, <1>19 DEF QueueEntry
<1>20. CASE LeaderCollect(t)
  BY <1>a, <1>20 DEF LeaderCollect
<1>21. CASE \E E \in SUBSET WriteErrors : \E H \in SUBSET WriteErrors : LeaderWrite(t, E, H)
  BY <1>a, <1>21 DEF LeaderWrite
<1>22. CASE LeaderSync(t)
  BY <1>a, <1>22 DEF LeaderSync
<1>23. CASE LeaderOrder(t)
  BY <1>a, <1>23 DEF LeaderOrder
<1>24. CASE LeaderCommitOne(t)
  BY <1>a, <1>24 DEF LeaderCommitOne, RunCommitOrdered, StartWakeup
<1>25. CASE LeaderWakeOne(t)
  BY <1>a, <1>25 DEF LeaderWakeOne, WakeOwner
<1>26. CASE LeaderDone(t)
  BY <1>a, <1>26 DEF LeaderDone
<1>27. CASE ReserveWait(t)
  BY <1>a, <1>27 DEF ReserveWait
<1>28. CASE Reserve(t)
  BY <1>a, <1>28 DEF Reserve
<1>29. CASE Follow(t)
  BY <1>a, <1>29 DEF Follow
<1>30. CASE OwnCommit(t)
  BY <1>a, <1>30 DEF OwnCommit, RunCommitOrdered, StartWakeup
<1>31. CASE OwnWakeNext(t)
  BY <1>a, <1>31 DEF OwnWakeNext, WakeOwner
<1>32. CASE WakeupWaitee(t)
  BY <1>a, <1>32 DEF WakeupWaitee
<1>33. CASE WakeupError(t)
  BY <1>a, <1>33 DEF WakeupError
<1>34. CASE EndWakeup(t)
  BY <1>a, <1>34 DEF EndWakeup
<1>35. CASE ReturnError(t)
  BY <1>a, <1>35 DEF ReturnError, Fail
<1>36. CASE ReturnWait(t)
  BY <1>a, <1>36 DEF ReturnWait
<1>37. CASE FinishGroup(t)
  BY <1>a, <1>37 DEF FinishGroup
<1>38. CASE FinishWake(t)
  BY <1>a, <1>38 DEF FinishWake, StartWakeup
<1>39. CASE Kill(t)
  BY <1>a, <1>39 DEF Kill
<1> QED BY <1>1, <1>2, <1>3, <1>4, <1>5, <1>6, <1>7, <1>8, <1>9, <1>10, <1>11, <1>12, <1>13, <1>14, <1>15, <1>16, <1>17, <1>18, <1>19, <1>20, <1>21, <1>22, <1>23, <1>24, <1>25, <1>26, <1>27, <1>28, <1>29, <1>30, <1>31, <1>32, <1>33, <1>34, <1>35, <1>36, <1>37, <1>38, <1>39, <1>40 DEF Step

\* Prior(t) is the worker next to t.
LEMMA PriorFacts ==
  ASSUME NEW t \in Trx, NEW x \in Workers, x < t
  PROVE  Prior(t) \in Workers /\ x <= Prior(t) /\ Prior(t) < t
<1> USE Constants
<1> DEFINE A == {w \in Workers : w < t}
           P == {n \in Nat : n <= t => \/ \E m \in A : \A v \in A : v <= m
                                       \/ \A v \in A : v < t - n}
<1>0. t \in Nat /\ A \subseteq Nat /\ x \in A
  OBVIOUS
<1>1. 0 \in P
  BY <1>0
<1>2. ASSUME NEW n \in Nat, n \in P PROVE n + 1 \in P
  <2> SUFFICES ASSUME n + 1 <= t, ~ \E m \in A : \A v \in A : v <= m
               PROVE  \A v \in A : v < t - (n + 1)
    OBVIOUS
  <2>1. \A v \in A : v < t - n
    BY <1>0, <1>2
  <2>2. \A v \in A : v <= t - (n + 1)
    BY <1>0, <2>1
  <2>3. t - (n + 1) \notin A
    BY <2>2
  <2> QED BY <1>0, <2>2, <2>3
<1>3. Nat \subseteq P
  <2> HIDE DEF P
  <2> QED BY <1>1, <1>2, NatSetInduction
<1>4. \E m \in A : \A v \in A : v <= m
  <2>1. ~ \A v \in A : v < t - t
    BY <1>0
  <2> QED BY <1>0, <1>3, <2>1
<1>5. \E w \in Workers : w < t /\ \A v \in Workers : v < t => v <= w
  BY <1>4
<1> QED BY <1>5 DEF Prior

LEMMA PriorLess ==
  ASSUME NEW t \in Trx, Prior(t) \in Workers
  PROVE  Prior(t) < t
<1>1. \E w \in Workers : w < t
  BY Constants DEF Prior
<1> QED BY <1>1, PriorFacts

\* If the prior one is through, so is everyone before it.
LEMMA PriorAhead ==
  ASSUME AheadInv, NEW y \in Trx, Prior(y) \in Workers => Ahead(Prior(y)) /\ Settled(Prior(y))
  PROVE  PriorSettled(y)
<1> USE Constants
<1> SUFFICES ASSUME NEW x \in Workers, x < y PROVE Settled(x)
  BY DEF PriorSettled
<1>1. Prior(y) \in Workers /\ x <= Prior(y)
  BY PriorFacts
<1>2. PriorSettled(Prior(y))
  BY <1>1 DEF AheadInv
<1>3. CASE x = Prior(y)
  BY <1>1, <1>3
<1>4. CASE x < Prior(y)
  BY <1>2, <1>4 DEF PriorSettled
<1>5. x = Prior(y) \/ x < Prior(y)
  <2> DEFINE p == Prior(y)
  <2>1. x \in Nat /\ p \in Nat /\ x <= p
    BY <1>1
  <2> HIDE DEF p
  <2>2. x = p \/ x < p
    BY <2>1
  <2> QED BY <2>2 DEF p
<1> QED BY <1>3, <1>4, <1>5

LEMMA StartedAhead ==
  ASSUME AheadInv, NEW y \in Workers, Started(y)
  PROVE  Ahead(y) /\ Settled(y)
  BY DEF AheadInv, Ahead

\* What is in the queue or in a group has got ahead.
LEMMA QueuedAhead ==
  ASSUME Inv, NEW x \in Trx, x \in Queued \/ InGroup(x)
  PROVE  Ahead(x) /\ Settled(x)
<1>1. Settled(x)
  BY DEF Inv, SettledInv, Entered
<1>2. Parked(x) => Ahead(x)
  BY DEF Parked, Ahead, At, EarlyPcs
<1>3. CASE x \in Queued
  <2>1. Parked(x) \/ pc[x] \in {"enqueue", "lead"}
    BY <1>3 DEF Inv, MemberInv
  <2> QED BY <1>1, <1>2, <2>1 DEF Ahead, At, EarlyPcs
<1>4. CASE InGroup(x)
  <2>1. PICK l \in Trx : x \in ToSet(group[l])
    BY <1>4 DEF InGroup
  <2>2. Parked(x) \/ x = l
    BY <2>1 DEF Inv, MemberInv
  <2>3. group[l] # <<>>
    BY <2>1, OrderEmpty
  <2>4. At(l) \in LeaderPcs
    BY <2>3 DEF Inv, PcInv, PcOk
  <2> QED BY <1>1, <1>2, <2>2, <2>4 DEF Ahead, LeaderPcs, EarlyPcs
<1> QED BY <1>3, <1>4

LEMMA WaiteeStep ==
  ASSUME Inv, NoKill, AheadInv, NEW t \in Trx, Step(t) \/ Kill(t)
  PROVE  /\ \A w \in Trx : waitee'[w] \in {None, Prior(w)}
         /\ \A w \in Trx : \/ waitee'[w] = waitee[w] \/ (Register(t) /\ w = t)
                           \/ (WakeupWaitee(t) /\ w = Head(walk[t]))
<1> USE Constants
<1>0. /\ TypeOK /\ PcInv /\ MutexInv /\ WfcInv /\ SubInv /\ DistinctInv /\ HeadInv /\ NextInv
      /\ \A w \in Trx : waitee[w] \in {None, Prior(w)}
  BY DEF Inv, AheadInv
<1> SUFFICES ASSUME NEW w \in Trx
             PROVE  /\ waitee'[w] \in {None, Prior(w)}
                    /\ \/ waitee'[w] = waitee[w] \/ (Register(t) /\ w = t)
                       \/ (WakeupWaitee(t) /\ w = Head(walk[t]))
  OBVIOUS
<1>1. CASE waitee' = waitee
  <2>1. waitee[w] \in {None, Prior(w)}
    BY <1>0
  <2> QED BY <1>1, <2>1
<1>2. CASE Register(t)
  <2>1. waitee'[t] \in {None, Prior(t)} /\ (w # t => waitee'[w] = waitee[w])
    BY <1>0, <1>2 DEF Register, TypeOK, TypeWfc
  <2>2. waitee[w] \in {None, Prior(w)}
    BY <1>0
  <2> QED BY <1>2, <2>1, <2>2
<1>3. CASE WakeupWaitee(t)
  <2>1. waitee' = [waitee EXCEPT ![Head(walk[t])] = None]
    BY <1>3 DEF WakeupWaitee
  <2>2. waitee[w] \in {None, Prior(w)}
    BY <1>0
  <2> QED BY <1>0, <1>3, <2>1, <2>2 DEF TypeOK, TypeWfc
<1>4. CASE OwnStep(t)
  BY <1>0, <1>1, <1>4, OwnStepEffect DEF Shared
<1>5. ~KillTaken(t)
  BY DEF NoKill, KillTaken, WfpKillTaken, QueueKillTaken
<1>6. CASE QueueLock(t)
  BY <1>0, <1>1, <1>6, QueueLockEffect
<1>7. CASE QueueEntry(t)
  BY <1>0, <1>1, <1>7, QueueEntryEffect DEF EntryEffect
<1>8. CASE LeaderCollect(t)
  BY <1>0, <1>1, <1>8, LeaderCollectEffect
<1>9. CASE \E E \in SUBSET WriteErrors : \E H \in SUBSET WriteErrors : LeaderWrite(t, E, H)
  BY <1>0, <1>1, <1>9, LeaderWriteEffect DEF WriteEffect
<1>10. CASE BeginWakeup(t)
  BY <1>0, <1>1, <1>10, BeginWakeupEffect DEF DetachEffect
<1>11. CASE WakeNext(t)
  BY <1>1, <1>11, WakeNextEffect DEF WakeEffect
<1>12. CASE Reserve(t)
  BY <1>0, <1>1, <1>12, ReserveEffect
<1>13. CASE WakeupError(t)
  BY <1>0, <1>1, <1>13, WakeupErrorEffect
<1> QED BY StepKinds, <1>2, <1>3, <1>4, <1>5, <1>6, <1>7, <1>8, <1>9, <1>10, <1>11, <1>12, <1>13

\* Who enters a walk.
LEMMA WalkMove ==
  ASSUME Inv, NEW t \in Trx, Step(t) \/ Kill(t), NEW y \in Trx, InWalk(y)', ~InWalk(y)
  PROVE  \/ queuedByOther[y]
         \/ \E c \in Trx : DetachEffect(t, c) /\ y \in ToSet(subsequent[c])
<1> USE Constants
<1>0. /\ TypeOK /\ PcInv /\ MutexInv /\ WfcInv /\ SubInv /\ DistinctInv /\ HeadInv /\ NextInv
  BY DEF Inv
<1>a. PICK l \in Trx : y \in ToSet(walk'[l])
  BY DEF InWalk
<1>b. y \notin ToSet(walk[l]) /\ walk'[l] # walk[l]
  BY <1>a DEF InWalk
<1>c. l = t
  BY <1>0, <1>b, Others
<1>1. CASE OwnStep(t)
  BY <1>0, <1>1, <1>b, OwnStepEffect DEF Shared
<1>2. CASE Register(t)
  BY <1>0, <1>2, <1>b, RegisterEffect
<1>3. CASE KillTaken(t)
  BY <1>0, <1>3, <1>b, KillTakenEffect
<1>4. CASE QueueLock(t)
  BY <1>0, <1>4, <1>b, QueueLockEffect
<1>5. CASE QueueEntry(t)
  BY <1>0, <1>5, <1>b, QueueEntryEffect DEF EntryEffect
<1>6. CASE LeaderCollect(t)
  BY <1>0, <1>6, <1>b, LeaderCollectEffect
<1>7. CASE \E E \in SUBSET WriteErrors : \E H \in SUBSET WriteErrors : LeaderWrite(t, E, H)
  BY <1>0, <1>7, <1>b, LeaderWriteEffect DEF WriteEffect
<1>8. CASE BeginWakeup(t)
  <2>1. PICK c \in Trx : DetachEffect(t, c)
    BY <1>0, <1>8, BeginWakeupEffect
  <2>2. walk' = [walk EXCEPT ![t] = subsequent[c]]
    BY <2>1 DEF DetachEffect
  <2>3. walk'[t] = subsequent[c]
    BY <1>0, <2>2 DEF TypeOK, TypeWalk
  <2> QED BY <1>a, <1>c, <2>1, <2>3
<1>9. CASE WakeNext(t)
  <2>1. PICK e \in Trx \cup {None} : WakeEffect(t, e)
    BY <1>9, WakeNextEffect
  <2>2. ToSet(walk'[t]) = IF e # None /\ queuedByOther[e] THEN {e} ELSE {}
    BY <2>1 DEF WakeEffect
  <2> QED BY <1>a, <1>c, <2>2
<1>10. CASE Reserve(t)
  BY <1>0, <1>10, <1>b, ReserveEffect
<1>11. CASE WakeupWaitee(t)
  BY <1>0, <1>11, <1>b, WakeupWaiteeEffect
<1>12. CASE WakeupError(t)
  <2>1. ToSet(walk'[t]) \subseteq ToSet(walk[t])
    BY <1>0, <1>12, WakeupErrorEffect
  <2> QED BY <1>a, <1>b, <1>c, <2>1
<1> QED BY StepKinds, <1>1, <1>2, <1>3, <1>4, <1>5, <1>6, <1>7, <1>8, <1>9, <1>10, <1>11, <1>12

\* Whose waiters are taken, or woken up, has got ahead.
LEMMA DetachAhead ==
  ASSUME Inv, NEW t \in Trx, NEW c \in Trx, DetachEffect(t, c)
  PROVE  Ahead(c) /\ Settled(c)
<1>1. CASE pc[t] = "commit"
  <2>1. group[t] # <<>> /\ c = Head(group[t]) /\ group[t] \in Seq(Trx)
    BY <1>1 DEF DetachEffect, Inv, TypeOK, TypeQueue
  <2>2. c \in ToSet(group[t])
    BY <2>1, OrderTail
  <2>3. InGroup(c)
    BY <2>2 DEF InGroup
  <2> QED BY <2>3, QueuedAhead
<1>2. CASE pc[t] # "commit"
  <2>1. c = t /\ pc[t] \in {"own", "finishWake"}
    BY <1>2 DEF DetachEffect
  <2> QED BY <2>1 DEF Ahead, At, EarlyPcs, Settled, WaitPcs
<1> QED BY <1>1, <1>2

LEMMA StartsAhead ==
  ASSUME Inv, AheadInv, NEW t \in Trx, Step(t) \/ Kill(t), NEW y \in Workers, Started(y)'
  PROVE  PriorSettled(y) /\ Settled(y)
<1> USE Constants
<1>0. /\ TypeOK /\ PcInv /\ MutexInv /\ WfcInv /\ SubInv
      /\ y \in Trx /\ y \in Nat /\ t \in Nat /\ lastCommitted \in Nat
  BY DEF Inv, TypeOK, TypeEnd
<1>a. Ahead(y) /\ Settled(y) => PriorSettled(y) /\ Settled(y)
  BY DEF AheadInv
<1>b. Started(y) => Ahead(y) /\ Settled(y)
  BY StartedAhead
<1>c. /\ QueueEntry(t) \/ commitStarted' = commitStarted
      /\ FinishGroup(t) \/ lastCommitted' = lastCommitted
      /\ BeginWakeup(t) \/ \A x \in Trx : running'[x] => running[x]
  BY <1>0, StartedMove
<1>1. CASE Started(y)
  BY <1>1, <1>a, <1>b
<1>2. CASE ~Started(y) /\ commitStarted'[y]
  <2>1. QueueEntry(t)
    BY <1>2, <1>c DEF Started
  <2>2. PICK e \in Trx, ready \in Seq(Trx) : EntryEffect(t, e, ready)
    BY <1>0, <2>1, QueueEntryEffect
  <2>3. commitStarted' = [commitStarted EXCEPT ![e] = e \in Workers] /\ e \in Queued
    BY <2>2 DEF EntryEffect, Queued
  <2>4. y = e
    BY <1>0, <1>2, <2>3 DEF Started, TypeOK, TypeWfc
  <2>5. Ahead(y) /\ Settled(y)
    BY <2>3, <2>4, QueuedAhead
  <2> QED BY <1>a, <2>5
<1>3. CASE ~Started(y) /\ running'[y]
  <2>1. BeginWakeup(t)
    BY <1>0, <1>3, <1>c DEF Started
  <2>2. PICK c \in Trx : DetachEffect(t, c)
    BY <1>0, <2>1, BeginWakeupEffect
  <2>3. running' = [running EXCEPT ![c] = subsequent[c] # <<>>]
    BY <2>2 DEF DetachEffect
  <2>4. y = c
    BY <1>0, <1>3, <2>3 DEF Started, TypeOK, TypeWfc
  <2>5. Ahead(y) /\ Settled(y)
    BY <2>2, <2>4, DetachAhead
  <2> QED BY <1>a, <2>5
<1>4. CASE ~Started(y) /\ y <= lastCommitted'
  <2>1. FinishGroup(t)
    BY <1>4, <1>c DEF Started
  <2>2. pc[t] = "finish" /\ y <= t
    BY <1>0, <1>4, <2>1 DEF FinishGroup, Started
  <2>3. t \in Workers /\ Ahead(t) /\ Settled(t)
    BY <1>0, <2>2 DEF PcInv, PcOk, At, Ahead, EarlyPcs, Settled, WaitPcs
  <2>4. PriorSettled(t)
    BY <2>3 DEF AheadInv
  <2>5. CASE y = t
    BY <2>3, <2>4, <2>5
  <2>6. CASE y < t
    <3>1. Settled(y)
      BY <2>4, <2>6 DEF PriorSettled
    <3>2. PriorSettled(y)
      BY <1>0, <2>4, <2>6 DEF PriorSettled
    <3> QED BY <3>1, <3>2
  <2> QED BY <1>0, <2>2, <2>5, <2>6
<1> QED BY <1>1, <1>2, <1>3, <1>4 DEF Started

\* Nobody gets ahead of a worker that may still be queued.
LEMMA GetsAhead ==
  ASSUME Inv, NoKill, AheadInv, Killable = {}, NEW t \in Trx, Step(t) \/ Kill(t),
         NEW y \in Workers, Ahead(y)'
  PROVE  PriorSettled(y)
<1> USE Constants
<1>0. /\ TypeOK /\ PcInv /\ MutexInv /\ WfcInv /\ SubInv /\ DistinctInv /\ HeadInv /\ NextInv
      /\ y \in Trx /\ y \in Nat /\ t \in Nat
  BY DEF Inv
<1>a. \A x \in Trx : x # t => pc'[x] = pc[x] /\ At(x)' = At(x)
  BY <1>0, Others
<1>b. Ahead(y) => PriorSettled(y)
  BY DEF AheadInv
<1>c. /\ waitee[y] \in {None, Prior(y)}
      /\ \/ waitee'[y] = waitee[y]
         \/ (Register(t) /\ y = t)
         \/ (WakeupWaitee(t) /\ y = Head(walk[t]))
  <2>1. waitee[y] \in {None, Prior(y)}
    BY <1>0 DEF AheadInv
  <2> QED BY <1>0, <2>1, WaiteeStep
<1>d. Prior(y) \in Workers /\ Started(Prior(y)) => PriorSettled(y)
  <2> SUFFICES ASSUME Prior(y) \in Workers, Started(Prior(y)) PROVE PriorSettled(y)
    OBVIOUS
  <2>1. Ahead(Prior(y)) /\ Settled(Prior(y))
    BY StartedAhead
  <2> QED BY <1>0, <2>1, PriorAhead
<1>e. \A c \in Trx : waitee[y] = c /\ Ahead(c) /\ Settled(c) => PriorSettled(y)
  <2> SUFFICES ASSUME NEW c \in Trx, waitee[y] = c, Ahead(c), Settled(c) PROVE PriorSettled(y)
    OBVIOUS
  <2>1. Prior(y) = c
    BY <1>c
  <2> QED BY <1>0, <2>1, PriorAhead
\* It leaves the places where it waits, ...
<1>1. CASE At(y)' \notin EarlyPcs
  <2>1. CASE At(y) \notin EarlyPcs
    BY <1>b, <2>1 DEF Ahead
  <2>2. CASE At(y) \in EarlyPcs
    <3>1. y = t
      BY <1>0, <1>1, <1>a, <2>2
    <3>2. pc[y] # "start" /\ (waitee[y] = None \/ commitStarted[waitee[y]])
      BY <1>0, <1>1, <2>2, <3>1, EarlyMove
    <3>3. CASE waitee[y] = None
      BY <1>b, <3>2, <3>3 DEF Ahead
    <3>4. CASE waitee[y] # None
      <4>1. waitee[y] \in Workers /\ waitee[y] = Prior(y)
        BY <1>0, <1>c, <3>4 DEF TypeOK, TypeWfc
      <4> QED BY <1>d, <3>2, <3>4, <4>1 DEF Started
    <3> QED BY <3>3, <3>4
  <2> QED BY <2>1, <2>2
\* ... does not register or is woken up, ...
<1>2. CASE pc'[y] # "start" /\ waitee'[y] = None
  <2>1. CASE pc[y] # "start" /\ waitee[y] = None
    BY <1>b, <2>1 DEF Ahead
  <2>2. CASE Register(t) /\ y = t
    <3> DEFINE p == Prior(y)
    <3>1. ~(p > lastCommitted /\ ~running[p]) \/ p = None
      BY <1>0, <1>2, <2>2 DEF Register, TypeOK, TypeWfc
    <3>2. lastCommitted \in Nat
      BY <1>0 DEF TypeOK, TypeEnd
    <3> HIDE DEF p
    <3>3. p \in Workers => Started(p)
      BY <3>1, <3>2 DEF Started
    <3> USE DEF p
    <3>4. CASE p \in Workers
      BY <1>d, <3>3, <3>4
    <3>5. CASE p \notin Workers
      BY <1>0, <3>5, PriorAhead
    <3> QED BY <3>4, <3>5
  <2>3. CASE WakeupWaitee(t) /\ y = Head(walk[t])
    <3>1. y \in ToSet(walk[t])
      BY <1>0, <2>3, WakeupWaiteeEffect
    <3>2. InWalk(y)
      BY <3>1 DEF InWalk
    <3> QED BY <1>b, <3>2 DEF Ahead
  <2>4. CASE waitee'[y] = waitee[y] /\ pc[y] = "start"
    <3>1. y = t
      BY <1>0, <1>2, <1>a, <2>4
    <3>2. CASE Register(t)
      BY <2>2, <3>1, <3>2
    <3>3. ~Register(t) => ~(Step(t) \/ Kill(t))
      <4>1. pc[t] = "start"
        BY <2>4, <3>1
      <4>2. CASE OwnStep(t)
        BY <1>0, <4>1, <4>2, OwnStepEffect DEF MovesOn
      <4>3. CASE KillTaken(t)
        BY <1>0, <4>1, <4>3, KillTakenEffect
      <4>4. CASE BeginWakeup(t)
        BY <1>0, <4>1, <4>4, BeginWakeupEffect DEF DetachEffect
      <4>5. CASE WakeNext(t)
        BY <4>1, <4>5, WakeNextEffect DEF WakeEffect
      <4>6. CASE \/ QueueLock(t) \/ QueueEntry(t) \/ LeaderCollect(t) \/ Reserve(t)
                 \/ WakeupWaitee(t) \/ WakeupError(t)
                 \/ \E E \in SUBSET WriteErrors : \E H \in SUBSET WriteErrors : LeaderWrite(t, E, H)
        BY <4>1, <4>6 DEF QueueLock, QueueEntry, LeaderCollect, Reserve, WakeupWaitee, WakeupError,
                          LeaderWrite
      <4> QED BY <4>2, <4>3, <4>4, <4>5, <4>6, StepKinds
    <3> QED BY <3>2, <3>3
  <2> QED BY <1>2, <1>c, <2>1, <2>2, <2>3, <2>4
\* ... is queued by the one it waits for, ...
<1>3. CASE queuedByOther'[y]
  <2>1. CASE queuedByOther[y]
    BY <1>b, <2>1 DEF Ahead
  <2>2. CASE ~queuedByOther[y] /\ QueueEntry(t)
    <3>1. PICK e \in Trx, ready \in Seq(Trx) : EntryEffect(t, e, ready)
      BY <1>0, <2>2, QueueEntryEffect
    <3>2. y \in ToSet(ready) /\ waitee[y] = e /\ e \in Queued
      BY <1>0, <1>3, <2>2, <3>1 DEF EntryEffect, Queued
    <3>3. Ahead(e) /\ Settled(e)
      BY <3>2, QueuedAhead
    <3> QED BY <1>e, <3>2, <3>3
  <2>3. QueueEntry(t) \/ queuedByOther' = queuedByOther
    <3> QED BY <1>0, StepKinds, QuietKinds, QueueLockEffect, LeaderCollectEffect, LeaderWriteEffect,
               WakeNextEffect, ReserveEffect DEF Quiet, WriteEffect, WakeEffect
  <2> QED BY <1>3, <2>1, <2>2, <2>3
\* ... is about to be woken up, ...
<1>4. CASE InWalk(y)'
  <2>1. CASE InWalk(y) \/ queuedByOther[y]
    BY <1>b, <2>1 DEF Ahead
  <2>2. CASE \E c \in Trx : DetachEffect(t, c) /\ y \in ToSet(subsequent[c])
    <3>1. PICK c \in Trx : DetachEffect(t, c) /\ y \in ToSet(subsequent[c])
      BY <2>2
    <3>2. waitee[y] = c
      BY <1>0, <3>1 DEF SubInv
    <3>3. Ahead(c) /\ Settled(c)
      BY <3>1, DetachAhead
    <3> QED BY <1>e, <3>2, <3>3
  <2> QED BY <1>0, <1>4, <2>1, <2>2, WalkMove
\* ... or lets its own waiters go.
<1>5. CASE Started(y)'
  BY <1>5, <1>b, StartsAhead DEF Ahead
<1> QED BY <1>1, <1>2, <1>3, <1>4, <1>5 DEF Ahead

LEMMA AheadStep ==
  ASSUME Inv, OrderInv, Killable = {}, NEW t \in Trx, Step(t) \/ Kill(t)
  PROVE  NoKill' /\ AheadInv'
<1> USE Constants
<1>0. TypeOK /\ PcInv /\ NoKill /\ AheadInv
  BY DEF Inv, OrderInv
<1>1. NoKill'
  <2>1. \A x \in Trx : x # t => pc'[x] = pc[x]
    BY <1>0, Others
  <2>2. pc'[t] \notin {"kill", "wfpKill"} /\ \A x \in Trx : ~killed'[x]
    BY <1>0, EarlyMove
  <2> QED BY <1>0, <2>1, <2>2 DEF NoKill
<1>2. \A x \in Trx : Settled(x) => Settled(x)'
  BY SettledStays
<1>3. ASSUME NEW y \in Workers, Ahead(y)' PROVE PriorSettled(y)'
  <2>1. PriorSettled(y)
    BY <1>0, <1>3, GetsAhead
  <2> QED BY <1>2, <2>1 DEF PriorSettled
<1>4. ASSUME NEW y \in Workers, Started(y)' PROVE Settled(y)'
  <2>1. Settled(y)
    BY <1>0, <1>4, StartsAhead
  <2> QED BY <1>2, <2>1
<1>5. \A w \in Trx : waitee'[w] \in {None, Prior(w)}
  BY <1>0, WaiteeStep
<1> QED BY <1>1, <1>3, <1>4, <1>5 DEF AheadInv

\* Who is queued comes after the workers that are there.
LEMMA CourseBefore ==
  ASSUME Inv, OrderInv, NEW w \in Workers, ~Settled(w), NEW x \in Workers, x \in ToSet(Course)
  PROVE  x < w
<1> USE Constants
<1>0. /\ TypeOK /\ MutexInv /\ AheadInv /\ CourseInv /\ Log \in Seq(Trx) /\ pending \in Seq(Trx)
      /\ x \in Nat /\ w \in Nat /\ x \in Trx
  <2>1. TypeOK /\ MutexInv /\ AheadInv /\ CourseInv
    BY DEF Inv, OrderInv
  <2>2. Unwritten \in Seq(Trx) /\ binlog \in Seq(Trx) /\ queue \in Seq(Trx) /\ pending \in Seq(Trx)
    BY <2>1, LogType DEF TypeOK, TypeQueue
  <2>3. Written \in Seq(Trx)
    BY <2>2, OrderConcat DEF Written
  <2>4. Log \in Seq(Trx)
    BY <2>2, <2>3, OrderConcat DEF Log
  <2> QED BY <2>1, <2>2, <2>4
<1>1. x \in ToSet(Log) \/ x \in ToSet(pending)
  BY <1>0, OrderConcat DEF Course
<1>2. x \in ToSet(Log) => Ahead(x) /\ Settled(x)
  BY <1>0, StartedAhead DEF CourseInv, Started
<1>3. x \in ToSet(pending) => Ahead(x) /\ Settled(x)
  BY <1>0, LineType, QueuedAhead
<1>4. PriorSettled(x) /\ x # w
  BY <1>0, <1>1, <1>2, <1>3 DEF AheadInv
<1>5. ~(w < x)
  BY <1>4 DEF PriorSettled
<1> QED BY <1>0, <1>4, <1>5

LEMMA CourseStep ==
  ASSUME Inv, OrderInv, NEW t \in Trx, Step(t) \/ Kill(t)
  PROVE  CourseInv'
<1> USE Constants
<1>0. /\ TypeOK /\ PcInv /\ MutexInv /\ WfcInv /\ SubInv /\ AheadInv /\ CourseInv
  BY DEF Inv, OrderInv
<1>a. TypeOK'
  BY <1>0, TypeStep
<1>b. /\ Log \in Seq(Trx) /\ Written \in Seq(Trx) /\ Line \in Seq(Trx)
      /\ queue \in Seq(Trx) /\ pending \in Seq(Trx) /\ queue' \in Seq(Trx) /\ pending' \in Seq(Trx)
  BY <1>0, <1>a, LogStep, LineType DEF TypeOK, TypeQueue
<1>c. /\ Course \in Seq(Trx) /\ ToSet(Course) = ToSet(Log) \cup ToSet(pending)
  BY <1>b, OrderConcat DEF Course
<1>d. ASSUME ToSet(Log') \subseteq ToSet(Log), commitStarted' = commitStarted,
             \A a, b \in Workers : Before(Course', a, b) => Before(Course, a, b)
      PROVE  CourseInv'
  BY <1>0, <1>d DEF CourseInv
<1>e. commitStarted' = commitStarted \/ QueueEntry(t)
  BY <1>0, StartedMove
<1>1. CASE UNCHANGED <<Log, pending>> /\ ~QueueEntry(t)
  <2>1. Course' = Course
    BY <1>1 DEF Course
  <2> QED BY <1>1, <1>d, <1>e, <2>1
<1>2. CASE QueueLock(t) /\ UNCHANGED Log
  <2>1. /\ pc[t] = "error" /\ ~queuedByOther[t] /\ pending = <<>> /\ pending' = <<t>>
        /\ commitStarted' = commitStarted
    BY <1>0, <1>2 DEF QueueLock, MutexInv, wfcVars
  <2>2. Course = Log /\ Course' = Append(Log, t)
    <3>1. Log \o <<>> = Log
      BY <1>b, ConcatEmptySeq
    <3>2. Log \o <<t>> = Append(Log, t)
      BY <1>b, AppendIsConcat
    <3> QED BY <1>2, <2>1, <3>1, <3>2 DEF Course
  <2>3. \A a, b : Before(Course', a, b) <=> Before(Log, a, b) \/ (a \in ToSet(Log) /\ b = t)
    BY <1>b, <2>2, OrderAppend
  <2>4. ~Settled(t)
    BY <2>1 DEF Settled, WaitPcs
  <2>5. \A a \in Workers : t \in Workers /\ a \in ToSet(Log) => a < t
    BY <2>2, <2>4, CourseBefore
  <2> QED BY <1>0, <1>2, <2>1, <2>2, <2>3, <2>5 DEF CourseInv
<1>3. CASE QueueEntry(t)
  <2>0. PICK e \in Trx, ready \in Seq(Trx) : EntryEffect(t, e, ready)
    BY <1>0, <1>3, QueueEntryEffect
  <2>1. /\ queue' = Append(queue, e) /\ Line' = Line \o ready /\ IsInjective(ready)
        /\ commitStarted' = [commitStarted EXCEPT ![e] = e \in Workers]
        /\ ToSet(ready) \subseteq Workers
        /\ \A w \in ToSet(ready) : waitee[w] = e /\ ~queuedByOther[w] /\ pc[w] = "wait"
    BY <2>0 DEF EntryEffect
  <2>2. ToSet(Log') = ToSet(Log) \cup {e}
    BY <1>3, <2>1, LogAppend
  <2>3. \A x \in ToSet(Log') \cap Workers : commitStarted'[x]
    BY <1>0, <2>1, <2>2 DEF CourseInv, TypeOK, TypeWfc
  <2>4. Course' = Course \o ready
    <3>1. Written' = Written
      <4>1. pc[t] # "write" /\ pc'[t] # "write" /\ binlog' = binlog
        BY <2>0 DEF EntryEffect
      <4> QED BY <4>1, WrittenStep
    <3>2. Course = Cat(Cat(Written, queue), pending) /\ Course' = Cat(Cat(Written, queue'), pending')
      BY <3>1 DEF Course, Log, Cat
    <3>3. Line = Cat(queue, pending) /\ Cat(queue', pending') = Cat(Line, ready)
      BY <2>1 DEF Line, Cat
    <3>4. Course = Cat(Written, Line)
      BY <1>b, <3>2, <3>3, CatAssoc
    <3>5. Course' = Cat(Written, Cat(Line, ready))
      BY <1>b, <3>2, <3>3, CatAssoc
    <3>6. Course' = Cat(Course, ready)
      BY <1>b, <3>4, <3>5, CatAssoc
    <3> QED BY <3>6 DEF Cat
  <2>5. \A a, b : Before(Course', a, b) <=>
          Before(Course, a, b) \/ (a \in ToSet(Course) /\ b \in ToSet(ready)) \/ Before(ready, a, b)
    BY <1>c, <2>4, OrderConcat
  <2>6. ASSUME NEW a \in Workers, NEW b \in ToSet(ready), a \in ToSet(Course) PROVE a < b
    <3>1. b \in Workers /\ ~Settled(b)
      BY <2>1 DEF Settled, WaitPcs
    <3> QED BY <2>6, <3>1, CourseBefore
  \* Only one worker has e as its prior one.
  <2>7. ASSUME NEW a, NEW b, Before(ready, a, b) PROVE FALSE
    <3>1. a \in ToSet(ready) /\ b \in ToSet(ready) /\ a # b
      BY <2>1, <2>7, OrderType
    <3>2. a \in Workers /\ b \in Workers /\ a \in Nat /\ b \in Nat
      BY <2>1, <3>1
    <3>3. Prior(a) = e /\ Prior(b) = e
      BY <2>1, <3>1, <3>2 DEF AheadInv, OrderInv
    <3>4. e \in Workers
      BY <1>0, <2>1, <3>1, <3>2 DEF TypeOK, TypeWfc
    <3>5. CASE a < b
      <4>1. a <= Prior(b)
        BY <3>2, <3>5, PriorFacts
      <4>2. Prior(a) < a
        BY <3>2, <3>3, <3>4, PriorLess
      <4> QED BY <3>2, <3>3, <4>1, <4>2
    <3>6. CASE b < a
      <4>1. b <= Prior(a)
        BY <3>2, <3>6, PriorFacts
      <4>2. Prior(b) < b
        BY <3>2, <3>3, <3>4, PriorLess
      <4> QED BY <3>2, <3>3, <4>1, <4>2
    <3> QED BY <3>1, <3>2, <3>5, <3>6
  <2>8. \A a, b \in Workers : Before(Course', a, b) => a < b
    BY <1>0, <2>5, <2>6, <2>7 DEF CourseInv
  <2> QED BY <2>3, <2>8 DEF CourseInv
<1>4. CASE LeaderCollect(t) /\ UNCHANGED <<Log, pending>>
  <2>1. Course' = Course /\ commitStarted' = commitStarted
    BY <1>4 DEF Course, LeaderCollect, wfcVars
  <2> QED BY <1>4, <1>d, <2>1
<1>5. CASE /\ \E E \in SUBSET WriteErrors : \E H \in SUBSET WriteErrors : LeaderWrite(t, E, H)
           /\ UNCHANGED <<queue, pending>> /\ Written' \in Seq(Trx)
           /\ ToSet(Written') \subseteq ToSet(Written)
           /\ \A x, y : Before(Written', x, y) => Before(Written, x, y)
  <2> DEFINE p == Log
             r == Log'
  <2>1. /\ ToSet(r) \subseteq ToSet(p) /\ \A x, y : Before(r, x, y) => Before(p, x, y)
    BY <1>5, <1>b, OrderThin DEF Log
  <2>2. p \in Seq(Trx) /\ r \in Seq(Trx) /\ Course = p \o pending /\ Course' = r \o pending
    BY <1>5, <1>b, OrderConcat DEF Course, Log
  <2>3. commitStarted' = commitStarted
    BY <1>5 DEF LeaderWrite, wfcVars
  <2> HIDE DEF p, r
  <2>4. \A x, y : Before(Course', x, y) => Before(Course, x, y)
    BY <1>b, <2>1, <2>2, OrderThin
  <2> QED BY <1>d, <2>1, <2>3, <2>4 DEF p, r
<1> QED BY LogStep, <1>1, <1>2, <1>3, <1>4, <1>5

LEMMA OrderInit == Init => OrderInv
<1> SUFFICES ASSUME Init PROVE OrderInv
  OBVIOUS
<1> USE Constants
<1>1. /\ \A t \in Trx : /\ pc[t] \in {"start", "check"} /\ (pc[t] = "start" <=> t \in Workers)
                        /\ waitee[t] = None /\ ~queuedByOther[t] /\ walk[t] = <<>> /\ ~killed[t]
                        /\ ~commitStarted[t] /\ ~running[t]
      /\ lastCommitted = 0 /\ pending = <<>>
  BY DEF Init
<1>2. NoKill
  BY <1>1 DEF NoKill
<1>3. \A y \in Workers : ~Started(y)
  BY <1>1 DEF Started
<1>4. \A y \in Workers : ~Ahead(y)
  BY <1>1, <1>3, OrderEmpty DEF Ahead, At, EarlyPcs, InWalk
<1>5. AheadInv
  BY <1>1, <1>3, <1>4 DEF AheadInv
<1>6. Log = <<>> /\ Course = <<>>
  <2>1. Unwritten = <<>> /\ binlog = <<>> /\ queue = <<>> /\ <<>> \in Seq(Trx)
    BY DEF Init, Unwritten
  <2>2. <<>> \o <<>> = <<>>
    BY <2>1, ConcatEmptySeq
  <2> QED BY <1>1, <2>1, <2>2 DEF Log, Written, Course
<1>7. CourseInv
  BY <1>6, OrderEmpty DEF CourseInv
<1> QED BY <1>2, <1>5, <1>7 DEF OrderInv

\* As long as no worker is killed while it waits, the slave's binlog has the
\* replicated transactions in the order of the master, whatever fails and
\* whoever queues them.
THEOREM ReplicationOrderHolds ==
  ASSUME Killable = {}
  PROVE  Spec => []ReplicationOrder
<1>1. Init => OrderInv
  BY OrderInit
<1>2. Inv /\ OrderInv /\ [Next]_vars => OrderInv'
  <2> SUFFICES ASSUME Inv, OrderInv, [Next]_vars PROVE OrderInv'
    OBVIOUS
  <2>1. CASE \E t \in Trx : Step(t) \/ Kill(t)
    <3>1. PICK t \in Trx : Step(t) \/ Kill(t)
      BY <2>1
    <3> QED BY <3>1, AheadStep, CourseStep DEF OrderInv
  <2>2. CASE UNCHANGED vars
    <3> USE <2>2 DEF vars, wfcVars, entryVars, queueVars, lockVars, walkVars, endVars, logVars
    <3>1. NoKill'
      BY DEF OrderInv, NoKill
    <3>2. UNCHANGED <<Log, Course>>
      BY DEF Log, Course, Written, Unwritten
    <3>3. CourseInv'
      BY <3>2 DEF OrderInv, CourseInv
    <3>4. \A y \in Workers : (Ahead(y)' <=> Ahead(y)) /\ (Started(y)' <=> Started(y))
      BY DEF Ahead, Started, At, InWalk
    <3>5. \A y \in Workers : (PriorSettled(y)' <=> PriorSettled(y)) /\ (Settled(y)' <=> Settled(y))
      BY DEF PriorSettled, Settled
    <3>6. AheadInv'
      BY <3>4, <3>5 DEF OrderInv, AheadInv
    <3> QED BY <3>1, <3>3, <3>6 DEF OrderInv
  <2> QED BY <2>1, <2>2 DEF Next, AllDone
<1>3. Inv /\ OrderInv => ReplicationOrder
  <2> SUFFICES ASSUME Inv, OrderInv, NEW i \in 1..Len(binlog), NEW j \in 1..Len(binlog), i < j,
                      {binlog[i], binlog[j]} \subseteq Workers
               PROVE  binlog[i] < binlog[j]
    BY DEF ReplicationOrder
  <2> DEFINE a == binlog[i]
             b == binlog[j]
  <2>1. a \in Workers /\ b \in Workers /\ Before(binlog, a, b)
    BY DEF Before
  <2>2. Unwritten \in Seq(Trx) /\ binlog \in Seq(Trx) /\ queue \in Seq(Trx) /\ pending \in Seq(Trx)
    BY LogType DEF Inv, TypeOK, TypeQueue
  <2> HIDE DEF a, b
  <2>3. Written \in Seq(Trx) /\ Before(Written, a, b)
    BY <2>1, <2>2, OrderConcat DEF Written
  <2>4. Log \in Seq(Trx) /\ Before(Log, a, b)
    BY <2>2, <2>3, OrderConcat DEF Log
  <2>5. Before(Course, a, b)
    BY <2>2, <2>4, OrderConcat DEF Course
  <2> QED BY <2>1, <2>5 DEF OrderInv, CourseInv, a, b
<1> QED BY <1>1, <1>2, <1>3, Invariance, PTL DEF Spec
-----------------------------------------------------------------------------
(* The interface the engines see                                           *)

\* The transactions that have to be committed.
Good == {t \in UsesXa : ~entryError[t]}

\* What the threads with LOCK_commit_ordered, LOCK_after_binlog_sync and LOCK_log
\* have written and still have to commit.
CoPart == IF lockCo = None THEN <<>>
          ELSE IF At(lockCo) = "wake" THEN Tail(group[lockCo]) ELSE group[lockCo]
AbsPart == IF lockAbs = None THEN <<>> ELSE group[lockAbs]
LogPart == IF lockLog = None THEN <<>>
           ELSE IF pc[lockLog] = "written" THEN group[lockLog] ELSE <<>>
Todo == CoPart \o (AbsPart \o LogPart)

\* The binlog is what the engine has committed, followed by what it has to.
PipelineInv == Keep(binlog, Good) = engine \o Keep(Todo, Good)


\* The steps that write nothing, commit nothing and hand over no mutex.
Still(t) ==
  /\ UNCHANGED <<binlog, engine, entryError, lockCo, lockAbs, lockLog, group>>
  /\ lockLog # t /\ (lockCo = t => At(t)' = At(t))

LeaderStep(t) ==
  \/ LeaderCollect(t) \/ LeaderSync(t) \/ LeaderOrder(t)
  \/ LeaderCommitOne(t) \/ LeaderWakeOne(t) \/ LeaderDone(t)
  \/ \E E \in SUBSET WriteErrors : \E H \in SUBSET WriteErrors : LeaderWrite(t, E, H)

LEMMA StillKinds ==
  ASSUME TypeOK, PcInv, MutexInv, OptimizeThreadScheduling, NEW t \in Trx, Step(t) \/ Kill(t)
  PROVE  Still(t) \/ LeaderStep(t)
<1> USE Constants DEF Goto, wfcVars, entryVars, queueVars, lockVars, walkVars, endVars, logVars
<1>a. PcOk(t) /\ Holds(t)
  BY DEF PcInv, MutexInv
<1> USE DEF TypeOK, TypePc, TypeWalk, PcOk, At, WalkPcs, Holds, Still
<1>1. CASE Register(t)
  BY <1>a, <1>1 DEF Register
<1>2. CASE Execute(t)
  BY <1>a, <1>2 DEF Execute
<1>3. CASE ExecuteFails(t)
  BY <1>a, <1>3 DEF ExecuteFails, Fail
<1>4. CASE WfpQuickCheck(t)
  BY <1>a, <1>4 DEF WfpQuickCheck
<1>5. CASE WfpQuickReturn(t)
  BY <1>a, <1>5 DEF WfpQuickReturn, WfpReturn
<1>6. CASE WfpWoken(t)
  BY <1>a, <1>6 DEF WfpWoken, WfpReturn
<1>7. CASE WfpKilled(t)
  BY <1>a, <1>7 DEF WfpKilled
<1>8. CASE WfpKillIgnored(t)
  BY <1>a, <1>8 DEF WfpKillIgnored
<1>9. CASE WfpKillTaken(t)
  BY <1>a, <1>9 DEF WfpKillTaken, WfpReturn, Unregister
<1>10. CASE QueueQuickCheck(t)
  BY <1>a, <1>10 DEF QueueQuickCheck
<1>11. CASE QueueRecheck(t)
  BY <1>a, <1>11 DEF QueueRecheck
<1>33. CASE QueueOffer(t)
  BY <1>a, <1>33 DEF QueueOffer
<1>12. CASE QueueWoken(t)
  BY <1>a, <1>12 DEF QueueWoken
<1>13. CASE QueueKilled(t)
  BY <1>a, <1>13 DEF QueueKilled
<1>14. CASE QueueKillIgnored(t)
  BY <1>a, <1>14 DEF QueueKillIgnored
<1>15. CASE QueueKillTaken(t)
  BY <1>a, <1>15 DEF QueueKillTaken, Fail, Unregister
<1>16. CASE QueueByOther(t)
  BY <1>a, <1>16 DEF QueueByOther
<1>17. CASE QueuePriorFailed(t)
  BY <1>a, <1>17 DEF QueuePriorFailed, Fail
<1>18. CASE QueueLock(t)
  BY <1>a, <1>18 DEF QueueLock
<1>19. CASE QueueEntry(t)
  BY <1>a, <1>19 DEF QueueEntry
<1>20. CASE ReserveWait(t)
  BY <1>a, <1>20 DEF ReserveWait
<1>21. CASE Reserve(t)
  BY <1>a, <1>21 DEF Reserve
<1>22. CASE Follow(t)
  BY <1>a, <1>22 DEF Follow
<1>23. CASE OwnCommit(t)
  BY <1>a, <1>23 DEF OwnCommit, RunCommitOrdered, StartWakeup
<1>24. CASE OwnWakeNext(t)
  BY <1>a, <1>24 DEF OwnWakeNext, WakeOwner
<1>25. CASE WakeupWaitee(t)
  BY <1>a, <1>25 DEF WakeupWaitee
<1>26. CASE WakeupError(t)
  BY <1>a, <1>26 DEF WakeupError
<1>27. CASE EndWakeup(t)
  BY <1>a, <1>27 DEF EndWakeup
<1>28. CASE ReturnError(t)
  BY <1>a, <1>28 DEF ReturnError, Fail
<1>29. CASE ReturnWait(t)
  BY <1>a, <1>29 DEF ReturnWait
<1>30. CASE FinishGroup(t)
  BY <1>a, <1>30 DEF FinishGroup
<1>31. CASE FinishWake(t)
  BY <1>a, <1>31 DEF FinishWake, StartWakeup
<1>32. CASE Kill(t)
  BY <1>a, <1>32 DEF Kill
<1> QED BY <1>1, <1>2, <1>3, <1>4, <1>5, <1>6, <1>7, <1>8, <1>9, <1>10, <1>11, <1>12, <1>13, <1>14, <1>15, <1>16, <1>17, <1>18, <1>19, <1>20, <1>21, <1>22, <1>23, <1>24, <1>25, <1>26, <1>27, <1>28, <1>29, <1>30, <1>31, <1>32, <1>33 DEF Step, LeaderStep

LEMMA KeepCat ==
  \A p, q \in Seq(Trx) : \A S : Keep(Cat(p, q), S) = Cat(Keep(p, S), Keep(q, S))
  BY KeepConcat DEF Cat

LEMMA PartTypes ==
  ASSUME TypeOK, PcInv
  PROVE  /\ CoPart \in Seq(Trx) /\ AbsPart \in Seq(Trx) /\ LogPart \in Seq(Trx)
         /\ engine \in Seq(Trx) /\ binlog \in Seq(Trx) /\ \A l \in Trx : group[l] \in Seq(Trx)
<1>1. /\ lockCo \in Trx \cup {None} /\ lockAbs \in Trx \cup {None} /\ lockLog \in Trx \cup {None}
      /\ \A l \in Trx : group[l] \in Seq(Trx)
      /\ \A l \in Trx : At(l) = "wake" => group[l] # <<>>
  BY DEF TypeOK, TypeLock, TypeQueue, PcInv, PcOk
<1>2. \A l \in Trx : At(l) = "wake" => Tail(group[l]) \in Seq(Trx)
  BY <1>1, OrderTail
<1>3. CoPart \in Seq(Trx)
  BY <1>1, <1>2 DEF CoPart
<1>4. AbsPart \in Seq(Trx) /\ LogPart \in Seq(Trx)
  BY <1>1 DEF AbsPart, LogPart
<1> QED BY <1>1, <1>3, <1>4 DEF TypeOK, TypeLog

\* Who has a part has the mutex that goes with it.
LEMMA PartOwners ==
  ASSUME TypeOK, PcInv, MutexInv, NEW t \in Trx, Step(t) \/ Kill(t)
  PROVE  /\ lockCo' = lockCo /\ lockCo # t => CoPart' = CoPart
         /\ lockAbs' = lockAbs /\ lockAbs # t => AbsPart' = AbsPart
         /\ lockLog' = lockLog /\ lockLog # t => LogPart' = LogPart
<1> USE Constants
<1>1. \A x \in Trx : x # t => pc'[x] = pc[x] /\ At(x)' = At(x) /\ group'[x] = group[x]
  BY Others
<1>2. lockCo \in Trx \cup {None} /\ lockAbs \in Trx \cup {None} /\ lockLog \in Trx \cup {None}
  BY DEF TypeOK, TypeLock
<1>3. ASSUME lockCo' = lockCo, lockCo # t PROVE CoPart' = CoPart
  <2>1. CASE lockCo = None
    BY <1>3, <2>1 DEF CoPart
  <2>2. CASE lockCo # None
    <3>1. lockCo \in Trx /\ At(lockCo)' = At(lockCo) /\ group'[lockCo] = group[lockCo]
      BY <1>1, <1>2, <1>3, <2>2
    <3> QED BY <1>3, <3>1 DEF CoPart, At
  <2> QED BY <2>1, <2>2
<1>4. ASSUME lockAbs' = lockAbs, lockAbs # t PROVE AbsPart' = AbsPart
  BY <1>1, <1>2, <1>4 DEF AbsPart
<1>5. ASSUME lockLog' = lockLog, lockLog # t PROVE LogPart' = LogPart
  BY <1>1, <1>2, <1>5 DEF LogPart
<1> QED BY <1>3, <1>4, <1>5

LEMMA SamePipeline ==
  ASSUME PipelineInv, UNCHANGED <<binlog, engine, entryError>>, Todo' = Todo
  PROVE  PipelineInv'
<1>1. Good' = Good
  BY DEF Good
<1> QED BY <1>1 DEF PipelineInv

\* The leader writes its group: what does not fail is left to commit.
LEMMA WritePipeline ==
  ASSUME Inv, PipelineInv, NEW t \in Trx,
         \E E \in SUBSET WriteErrors : \E H \in SUBSET WriteErrors : LeaderWrite(t, E, H)
  PROVE  PipelineInv'
<1> USE Constants
<1>0. TypeOK /\ PcInv /\ MutexInv /\ DistinctInv /\ Step(t)
  BY DEF Inv, Step
<1>1. PICK E \in SUBSET WriteErrors, H \in SUBSET WriteErrors : LeaderWrite(t, E, H)
  OBVIOUS
<1> DEFINE g == group[t]
           S == Good'
<1>2. /\ pc[t] = "write" /\ pc'[t] = "written" /\ UNCHANGED <<lockLog, lockAbs, lockCo, group, engine>>
      /\ E \cup H \subseteq ToSet(g) /\ binlog' = binlog \o Keep(g, Trx \ E)
      /\ S = Good \ (E \cup H)
  BY <1>0, <1>1 DEF LeaderWrite, Goto, lockVars, queueVars, Good, TypeOK, TypePc, TypeEntry
<1>3. lockLog = t /\ lockCo # t /\ lockAbs # t
  BY <1>0, <1>2 DEF MutexInv, Holds, At
<1>4. /\ CoPart \in Seq(Trx) /\ AbsPart \in Seq(Trx) /\ engine \in Seq(Trx) /\ binlog \in Seq(Trx)
      /\ g \in Seq(Trx)
  BY <1>0, PartTypes
<1>5. LogPart = <<>> /\ LogPart' = g /\ CoPart' = CoPart /\ AbsPart' = AbsPart
  BY <1>0, <1>2, <1>3, PartOwners DEF LogPart
<1> DEFINE r == CoPart \o AbsPart
<1>6. r \in Seq(Trx) /\ ToSet(r) = ToSet(CoPart) \cup ToSet(AbsPart)
  BY <1>4, OrderConcat
<1>7. Todo = r /\ Todo' = r \o g
  <2>1. Todo = Cat(CoPart, Cat(AbsPart, <<>>)) /\ Todo' = Cat(CoPart, Cat(AbsPart, g))
    BY <1>5 DEF Todo, Cat
  <2>2. Todo = Cat(CoPart, AbsPart) /\ Todo' = Cat(Cat(CoPart, AbsPart), g)
    <3>1. Cat(AbsPart, <<>>) = AbsPart
      BY <1>4, CatEmpty
    <3>2. Cat(Cat(CoPart, AbsPart), g) = Cat(CoPart, Cat(AbsPart, g))
      BY <1>4, CatAssoc
    <3> QED BY <2>1, <3>1, <3>2
  <2> QED BY <2>2 DEF Cat
\* What failed is in the group, and in nothing written before.
<1>8. ToSet(r) \cap ToSet(g) = {}
  <2>1. \A l \in Trx : l # t => ToSet(group[l]) \cap ToSet(g) = {}
    BY <1>0 DEF DistinctInv
  <2>2. \A l \in Trx : At(l) = "wake" => ToSet(Tail(group[l])) \subseteq ToSet(group[l])
    <3> TAKE l \in Trx
    <3>1. At(l) = "wake" => group[l] # <<>>
      BY <1>0 DEF PcInv, PcOk
    <3> QED BY <1>0, <3>1, OrderTail DEF TypeOK, TypeQueue
  <2>3. ToSet(CoPart) \cap ToSet(g) = {}
    BY <1>0, <1>3, <2>1, <2>2, OrderEmpty DEF CoPart, TypeOK, TypeLock
  <2>4. ToSet(AbsPart) \cap ToSet(g) = {}
    BY <1>0, <1>3, <2>1, OrderEmpty DEF AbsPart, TypeOK, TypeLock
  <2> QED BY <1>6, <2>3, <2>4
<1>9. ToSet(binlog) \cap ToSet(g) = {}
  BY <1>0, <1>2 DEF DistinctInv
<1> HIDE DEF g, r, S
<1>10. Keep(r, S) = Keep(r, Good) /\ Keep(binlog, S) = Keep(binlog, Good)
  <2>1. ToSet(r) \cap S = ToSet(r) \cap Good /\ ToSet(binlog) \cap S = ToSet(binlog) \cap Good
    BY <1>2, <1>8, <1>9
  <2> QED BY <1>4, <1>6, <2>1, KeepSame
<1>11. Keep(binlog', S) = Keep(binlog, S) \o Keep(g, S)
  <2> DEFINE k == Keep(g, Trx \ E)
  <2>1. k \in Seq(Trx)
    BY <1>4, KeepOrder
  <2>2. ToSet(g) \cap S \subseteq Trx \ E
    BY <1>2, <1>4, OrderType
  <2>3. Keep(k, S) = Keep(g, S)
    BY <1>4, <2>2, KeepKeep
  <2>4. binlog' = binlog \o k
    BY <1>2
  <2> HIDE DEF k
  <2>5. Keep(binlog \o k, S) = Keep(binlog, S) \o Keep(k, S)
    <3>1. Keep(Cat(binlog, k), S) = Cat(Keep(binlog, S), Keep(k, S))
      BY <1>4, <2>1, KeepCat
    <3> QED BY <3>1 DEF Cat
  <2> QED BY <2>3, <2>4, <2>5
<1>12. Keep(Todo', S) = Keep(r, S) \o Keep(g, S)
  <2>1. Keep(Cat(r, g), S) = Cat(Keep(r, S), Keep(g, S))
    BY <1>4, <1>6, KeepCat
  <2> QED BY <1>7, <2>1 DEF Cat
<1>13. Keep(binlog, Good) = engine \o Keep(r, Good)
  BY <1>7 DEF PipelineInv
<1>14. Keep(r, S) \in Seq(Trx) /\ Keep(g, S) \in Seq(Trx)
  BY <1>4, <1>6, KeepOrder
<1>15. Keep(binlog', S) = Cat(Cat(engine, Keep(r, S)), Keep(g, S))
  BY <1>10, <1>11, <1>13 DEF Cat
<1>16. Keep(binlog', S) = Cat(engine, Cat(Keep(r, S), Keep(g, S)))
  BY <1>4, <1>14, <1>15, CatFacts
<1>17. Keep(binlog', S) = engine' \o Keep(Todo', S)
  BY <1>2, <1>12, <1>16 DEF Cat
<1> QED BY <1>17 DEF S, PipelineInv

\* The leader runs commit_ordered() for the first that is left to commit.
LEMMA CommitPipeline ==
  ASSUME Inv, PipelineInv, NEW t \in Trx, LeaderCommitOne(t)
  PROVE  LET e == Head(group[t]) IN
         /\ UNCHANGED <<binlog, entryError>>
         /\ engine' = IF e \in Good THEN Append(engine, e) ELSE engine
         /\ Keep(binlog, Good) = engine' \o Keep(Todo', Good) /\ Todo' \in Seq(Trx)
         /\ PipelineInv'
<1> USE Constants
<1>0. TypeOK /\ PcInv /\ MutexInv /\ Step(t)
  BY DEF Inv, Step
<1> DEFINE g == group[t]
           e == Head(g)
           k == Keep(<<e>>, Good)
<1>1. /\ pc[t] = "commit" /\ g # <<>> /\ pc'[t] = "walk" /\ walkThen'[t] = "wake"
      /\ UNCHANGED <<binlog, entryError, group, lockCo, lockAbs, lockLog>>
  BY <1>0 DEF LeaderCommitOne, StartWakeup, Goto, entryVars, queueVars, lockVars, TypeOK, TypePc,
              TypeWalk
<1>2. lockCo = t /\ lockAbs # t /\ lockLog # t
  BY <1>0, <1>1 DEF MutexInv, Holds, At
<1>3. /\ CoPart \in Seq(Trx) /\ AbsPart \in Seq(Trx) /\ LogPart \in Seq(Trx) /\ engine \in Seq(Trx)
      /\ g \in Seq(Trx)
  BY <1>0, PartTypes
<1>4. e \in Trx /\ Tail(g) \in Seq(Trx) /\ g = <<e>> \o Tail(g)
  BY <1>1, <1>3, OrderTail
<1>5. CoPart = g /\ CoPart' = Tail(g) /\ AbsPart' = AbsPart /\ LogPart' = LogPart
  <2>1. AbsPart' = AbsPart /\ LogPart' = LogPart
    BY <1>0, <1>1, <1>2, PartOwners
  <2>2. At(t) = "commit" /\ At(t)' = "wake"
    BY <1>1 DEF At
  <2> QED BY <1>1, <1>2, <2>1, <2>2 DEF CoPart
<1>6. engine' = IF e \in Good THEN Append(engine, e) ELSE engine
  BY <1>0, <1>4 DEF LeaderCommitOne, RunCommitOrdered, Good
<1> HIDE DEF e, g
<1>7. Todo = <<e>> \o Todo' /\ Todo' \in Seq(Trx)
  <2> DEFINE r == AbsPart \o LogPart
             s == Tail(g)
  <2>1. r \in Seq(Trx) /\ s \in Seq(Trx) /\ <<e>> \in Seq(Trx)
    BY <1>3, <1>4, OrderConcat
  <2>2. Todo = Cat(Cat(<<e>>, s), r) /\ Todo' = Cat(s, r)
    BY <1>4, <1>5 DEF Todo, Cat
  <2> HIDE DEF r, s
  <2>3. Todo = Cat(<<e>>, Cat(s, r)) /\ Cat(s, r) \in Seq(Trx)
    <3>1. Cat(Cat(<<e>>, s), r) = Cat(<<e>>, Cat(s, r))
      BY <2>1, CatAssoc
    <3> QED BY <2>1, <2>2, <3>1, CatType
  <2> QED BY <2>2, <2>3 DEF Cat
<1>8. <<e>> \in Seq(Trx) /\ k = IF e \in Good THEN <<e>> ELSE <<>>
  <2>1. Append(<<>>, e) = <<e>> /\ Append(<<>>, e) \in Seq(Trx)
    BY <1>4
  <2>2. Keep(Append(<<>>, e), Good) =
          IF e \in Good THEN Append(Keep(<<>>, Good), e) ELSE Keep(<<>>, Good)
    BY <1>4, EmptySeq, KeepAppend
  <2> QED BY <2>1, <2>2, KeepEmpty
<1>9. engine' = engine \o k
  <2>1. CASE e \in Good
    BY <1>3, <1>4, <1>6, <1>8, <2>1, AppendIsConcat
  <2>2. CASE e \notin Good
    BY <1>3, <1>6, <1>8, <2>2, ConcatEmptySeq
  <2> QED BY <2>1, <2>2
<1>10. Keep(Todo, Good) = k \o Keep(Todo', Good)
  <2>1. Keep(Cat(<<e>>, Todo'), Good) = Cat(Keep(<<e>>, Good), Keep(Todo', Good))
    <3>1. <<e>> \in Seq(Trx) /\ Todo' \in Seq(Trx)
      BY <1>7, <1>8
    <3> QED BY ONLY <3>1, KeepCat
  <2> QED BY <1>7, <2>1 DEF Cat
<1>11. k \in Seq(Trx) /\ Keep(Todo', Good) \in Seq(Trx)
  BY <1>7, <1>8, KeepOrder
<1> HIDE DEF k
<1>12. Keep(binlog, Good) = Cat(engine, Cat(k, Keep(Todo', Good)))
  BY <1>10 DEF PipelineInv, Cat
<1>13. Keep(binlog, Good) = Cat(Cat(engine, k), Keep(Todo', Good))
  BY <1>3, <1>11, <1>12, CatFacts
<1>14. Keep(binlog, Good) = engine' \o Keep(Todo', Good)
  BY <1>9, <1>13 DEF Cat
<1>15. Good' = Good
  BY <1>1 DEF Good
<1>16. PipelineInv'
  BY <1>1, <1>14, <1>15 DEF PipelineInv
<1> QED BY <1>1, <1>6, <1>7, <1>14, <1>16 DEF e, g

LEMMA PipelineStep ==
  ASSUME OptimizeThreadScheduling, Inv, PipelineInv, NEW t \in Trx, Step(t) \/ Kill(t)
  PROVE  PipelineInv'
<1> USE Constants
<1>0. TypeOK /\ PcInv /\ MutexInv
  BY DEF Inv
<1>a. /\ CoPart \in Seq(Trx) /\ AbsPart \in Seq(Trx) /\ LogPart \in Seq(Trx)
      /\ group[t] \in Seq(Trx)
  BY <1>0, PartTypes
<1>b. /\ lockCo' = lockCo /\ lockCo # t => CoPart' = CoPart
      /\ lockAbs' = lockAbs /\ lockAbs # t => AbsPart' = AbsPart
      /\ lockLog' = lockLog /\ lockLog # t => LogPart' = LogPart
  BY <1>0, PartOwners
<1>c. Holds(t)
  BY <1>0 DEF MutexInv
<1> USE DEF Goto, entryVars, queueVars, lockVars, logVars, walkVars
<1>1. CASE Still(t)
  <2>1. LogPart' = LogPart
    BY <1>1, <1>b DEF Still
  <2>2. AbsPart' = AbsPart
    BY <1>1 DEF Still, AbsPart
  <2>3. ASSUME lockCo = t PROVE CoPart' = CoPart
    <3>1. lockCo' = t /\ group' = group /\ At(t)' = At(t)
      BY <1>1, <2>3 DEF Still
    <3> QED BY <2>3, <3>1 DEF CoPart, At
  <2> QED BY <1>1, <1>b, <2>1, <2>2, <2>3, SamePipeline DEF Still, Todo
<1>2. CASE LeaderCollect(t)
  <2>1. /\ pc[t] = "lead" /\ pc'[t] = "write" /\ lockLog = None /\ lockLog' = t
        /\ UNCHANGED <<lockCo, lockAbs, binlog, engine, entryError>>
    BY <1>0, <1>2 DEF LeaderCollect, TypeOK, TypePc
  <2>2. lockCo # t /\ lockAbs # t
    BY <1>c, <2>1 DEF Holds, At
  <2>3. LogPart = <<>> /\ LogPart' = <<>>
    BY <2>1 DEF LogPart
  <2> QED BY <1>b, <2>1, <2>2, <2>3, SamePipeline DEF Todo
<1>3. CASE LeaderSync(t)
  <2>1. /\ pc[t] = "written" /\ lockAbs = None /\ lockAbs' = t /\ lockLog' = None
        /\ UNCHANGED <<lockCo, binlog, engine, entryError, group>>
    BY <1>3 DEF LeaderSync
  <2>2. lockLog = t /\ lockCo # t
    BY <1>c, <2>1 DEF Holds, At
  <2>3. /\ AbsPart = <<>> /\ AbsPart' = group[t] /\ LogPart = group[t] /\ LogPart' = <<>>
        /\ CoPart' = CoPart
    BY <1>b, <2>1, <2>2 DEF AbsPart, LogPart
  <2>4. Todo = Cat(CoPart, Cat(<<>>, group[t])) /\ Todo' = Cat(CoPart, Cat(group[t], <<>>))
    BY <2>3 DEF Todo, Cat
  <2>5. Todo' = Todo
    <3>1. Cat(group[t], LogPart) \in Seq(Trx)
      BY <1>a, CatType
    <3>2. Cat(<<>>, LogPart) = LogPart /\ Cat(group[t], <<>>) = group[t]
      BY <1>a, CatEmpty
    <3>3. Cat(<<>>, group[t]) = group[t] /\ Cat(<<>>, Cat(group[t], LogPart)) = Cat(group[t], LogPart)
      BY <1>a, <3>1, CatEmpty
    <3> QED BY <2>4, <3>2, <3>3
  <2> QED BY <2>1, <2>5, SamePipeline
<1>4. CASE LeaderOrder(t)
  <2>1. /\ pc[t] = "sync" /\ pc'[t] = "commit" /\ lockCo = None /\ lockCo' = t /\ lockAbs' = None
        /\ UNCHANGED <<lockLog, binlog, engine, entryError, group>>
    BY <1>0, <1>4 DEF LeaderOrder, TypeOK, TypePc
  <2>2. lockAbs = t /\ lockLog # t /\ At(t)' = "commit"
    BY <1>c, <2>1 DEF Holds, At
  <2>3. /\ CoPart = <<>> /\ CoPart' = group[t] /\ AbsPart = group[t] /\ AbsPart' = <<>>
        /\ LogPart' = LogPart
    BY <1>b, <2>1, <2>2 DEF AbsPart, CoPart
  <2>4. Todo = Cat(<<>>, Cat(group[t], LogPart)) /\ Todo' = Cat(group[t], Cat(<<>>, LogPart))
    BY <2>3 DEF Todo, Cat
  <2>5. Todo' = Todo
    <3>1. Cat(group[t], LogPart) \in Seq(Trx)
      BY <1>a, CatType
    <3>2. Cat(<<>>, LogPart) = LogPart /\ Cat(group[t], <<>>) = group[t]
      BY <1>a, CatEmpty
    <3>3. Cat(<<>>, group[t]) = group[t] /\ Cat(<<>>, Cat(group[t], LogPart)) = Cat(group[t], LogPart)
      BY <1>a, <3>1, CatEmpty
    <3> QED BY <2>4, <3>2, <3>3
  <2> QED BY <2>1, <2>5, SamePipeline
<1>5. CASE LeaderCommitOne(t)
  BY <1>5, CommitPipeline
<1>6. CASE LeaderWakeOne(t)
  <2>1. /\ pc[t] = "wake" /\ group' = [group EXCEPT ![t] = Tail(@)]
        /\ UNCHANGED <<lockCo, lockAbs, lockLog, binlog, engine, entryError>>
    BY <1>6 DEF LeaderWakeOne
  <2>2. At(t)' = "commit"
    BY <1>0, <1>6 DEF LeaderWakeOne, WakeOwner, At, TypeOK, TypePc, TypeWalk
  <2>3. lockCo = t /\ lockAbs # t /\ lockLog # t /\ At(t) = "wake"
    BY <1>c, <2>1 DEF Holds, At
  <2>4. group'[t] = Tail(group[t])
    BY <1>0, <2>1 DEF TypeOK, TypeQueue
  <2>5. CoPart' = CoPart
    BY <2>1, <2>2, <2>3, <2>4 DEF CoPart
  <2> QED BY <1>b, <2>1, <2>3, <2>5, SamePipeline DEF Todo
<1>7. CASE LeaderDone(t)
  <2>1. /\ pc[t] = "commit" /\ group[t] = <<>> /\ lockCo' = None
        /\ UNCHANGED <<lockAbs, lockLog, binlog, engine, entryError>>
    BY <1>7 DEF LeaderDone
  <2>2. lockCo = t /\ lockAbs # t /\ lockLog # t /\ At(t) = "commit"
    BY <1>c, <2>1 DEF Holds, At
  <2>3. CoPart = <<>> /\ CoPart' = <<>>
    BY <2>1, <2>2 DEF CoPart
  <2> QED BY <1>b, <2>1, <2>2, <2>3, SamePipeline DEF Todo
<1>8. CASE \E E \in SUBSET WriteErrors : \E H \in SUBSET WriteErrors : LeaderWrite(t, E, H)
  BY <1>8, WritePipeline
<1>9. Still(t) \/ LeaderStep(t)
  BY <1>0, StillKinds
<1> QED BY <1>1, <1>2, <1>3, <1>4, <1>5, <1>6, <1>7, <1>8, <1>9 DEF LeaderStep

LEMMA PipelineInit == Init => PipelineInv
<1> SUFFICES ASSUME Init PROVE PipelineInv
  OBVIOUS
<1>1. binlog = <<>> /\ engine = <<>> /\ lockCo = None /\ lockAbs = None /\ lockLog = None
  BY DEF Init
<1>2. CoPart = <<>> /\ AbsPart = <<>> /\ LogPart = <<>>
  BY <1>1 DEF CoPart, AbsPart, LogPart
<1>3. Todo = Cat(<<>>, Cat(<<>>, <<>>)) /\ <<>> \in Seq(Trx)
  BY <1>2 DEF Todo, Cat
<1>4. Cat(<<>>, <<>>) = <<>>
  BY <1>3, CatEmpty
<1>5. Todo = <<>> /\ Keep(<<>>, Good) = <<>>
  BY <1>3, <1>4, KeepEmpty
<1> QED BY <1>1, <1>4, <1>5 DEF PipelineInv, Cat

\* What was there stays at the front.
LEMMA Prefix ==
  ASSUME NEW X, NEW p \in Seq(X), NEW q \in Seq(X)
  PROVE  Len(p) <= Len(p \o q) /\ SubSeq(p \o q, 1, Len(p)) = p /\ IsPrefix(p, p \o q)
<1> DEFINE r == p \o q
           m == Len(p)
<1>1. /\ r \in Seq(X) /\ m \in Nat /\ Len(r) = m + Len(q) /\ Len(q) \in Nat
      /\ \A i \in 1..m : r[i] = p[i]
  BY ConcatProperties, LenProperties
<1>2. SubSeq(p, 1, m) = p
  OBVIOUS
<1> HIDE DEF r
<1>3. SubSeq(r, 1, m) = p
  BY <1>1
<1> QED BY <1>1, <1>2, <1>3 DEF IsPrefix, r

\* The operators on sequences are the same in both modules.
LEMMA SameOperators ==
  /\ \A q, S : Ordered!Keep(q, S) = Keep(q, S)
  /\ \A q : Ordered!ToSet(q) = ToSet(q)
  /\ \A q : Ordered!IsInjective(q) <=> IsInjective(q)
  /\ \A p, q : Ordered!IsPrefix(p, q) <=> IsPrefix(p, q)
<1>1. \A q, S : Ordered!Keep(q, S) = Keep(q, S)
  BY DEF Ordered!Keep, Keep
<1>2. \A q : Ordered!ToSet(q) = ToSet(q)
  BY DEF Ordered!ToSet, ToSet
<1>3. \A q : Ordered!IsInjective(q) <=> IsInjective(q)
  BY DEF Ordered!IsInjective, IsInjective
<1>4. \A p, q : Ordered!IsPrefix(p, q) <=> IsPrefix(p, q)
  BY DEF Ordered!IsPrefix, IsPrefix
<1> QED BY <1>1, <1>2, <1>3, <1>4

\* A step of the group commit is a step of the interface, or none.
LEMMA RefinesStep ==
  ASSUME OptimizeThreadScheduling, Inv, PipelineInv, Inv', NEW t \in Trx, Step(t) \/ Kill(t)
  PROVE  [Ordered!Next]_(Ordered!vars)
<1> USE Constants
<1>0. TypeOK /\ PcInv /\ MutexInv /\ DistinctInv /\ TypeOK' /\ DistinctInv'
  BY DEF Inv
<1> DEFINE rej == {x \in Trx : entryError[x]}
<1>a. UsesXa \ rej = Good
  BY DEF Good
<1>1. CASE \E E \in SUBSET WriteErrors : \E H \in SUBSET WriteErrors : LeaderWrite(t, E, H)
  <2>1. PICK E \in SUBSET WriteErrors, H \in SUBSET WriteErrors : LeaderWrite(t, E, H)
    BY <1>1
  <2>2. /\ pc[t] = "write" /\ UNCHANGED engine /\ E \cup H \subseteq ToSet(group[t])
        /\ binlog' = binlog \o Keep(group[t], Trx \ E)
        /\ entryError' = [e \in Trx |-> entryError[e] \/ e \in E \cup H]
    BY <2>1 DEF LeaderWrite
  <2>3. group[t] \in Seq(Trx) /\ binlog \in Seq(Trx) /\ binlog' \in Seq(Trx)
    BY <1>0 DEF TypeOK, TypeQueue, TypeLog
  <2>4. IsPrefix(binlog, binlog')
    <3>1. Keep(group[t], Trx \ E) \in Seq(Trx)
      BY <2>3, KeepOrder
    <3> QED BY <2>2, <2>3, <3>1, Prefix
  <2>5. IsInjective(binlog') /\ ToSet(binlog') \subseteq Trx
    BY <1>0, <2>3, OrderType DEF DistinctInv
  <2>6. rej \subseteq rej' /\ rej' \subseteq Trx /\ rej' \ rej \subseteq ToSet(group[t])
    BY <2>2
  <2>7. ToSet(group[t]) \cap ToSet(binlog) = {}
    BY <1>0, <2>2 DEF DistinctInv
  <2>8. (rej' \ rej) \cap ToSet(binlog) = {}
    BY <2>6, <2>7
  <2> HIDE DEF rej
  <2>9. Ordered!WriteGroup
    BY <2>2, <2>4, <2>5, <2>6, <2>8, SameOperators DEF Ordered!WriteGroup, rej
  <2> QED BY <2>9 DEF Ordered!Next
<1>2. CASE LeaderCommitOne(t)
  <2> DEFINE e == Head(group[t])
             r == Keep(Todo', Good)
  <2>1. /\ UNCHANGED <<binlog, entryError>> /\ Keep(binlog, Good) = engine' \o r /\ Todo' \in Seq(Trx)
        /\ engine' = IF e \in Good THEN Append(engine, e) ELSE engine
    BY <1>2, CommitPipeline
  <2>2. CASE e \notin Good
    BY <2>1, <2>2 DEF Ordered!vars
  <2>3. CASE e \in Good
    <3>1. /\ engine \in Seq(Trx) /\ engine' \in Seq(Trx) /\ e \in Trx
          /\ engine' = Append(engine, e)
      BY <1>0, <2>1, <2>3 DEF TypeOK, TypeLog, Good
    <3>2. Len(engine') = Len(engine) + 1 /\ Len(engine) \in Nat
      BY <3>1
    <3>3. r \in Seq(Trx)
      BY <2>1, KeepOrder
    <3> HIDE DEF e, r
    <3> DEFINE d == Keep(binlog, Good)
    <3>4. d = engine' \o r
      BY <2>1
    <3>5. Len(engine') <= Len(d) /\ SubSeq(d, 1, Len(engine')) = engine' /\ Len(d) \in Nat
      <4>1. Len(engine') <= Len(engine' \o r) /\ SubSeq(engine' \o r, 1, Len(engine')) = engine'
        BY <3>1, <3>3, Prefix
      <4>2. d \in Seq(Trx)
        BY <3>1, <3>3, <3>4, OrderConcat
      <4> QED BY <3>4, <4>1, <4>2, LenProperties
    <3>6. Ordered!Decided = d
      BY <1>a, SameOperators DEF Ordered!Decided
    <3> HIDE DEF d
    <3>7. Len(engine) < Len(d) /\ engine' = SubSeq(d, 1, Len(engine) + 1)
      BY <3>2, <3>5
    <3>8. rej' = rej
      BY <2>1
    <3>9. Ordered!CommitNext
      BY <2>1, <3>6, <3>7, <3>8 DEF Ordered!CommitNext
    <3> QED BY <3>9 DEF Ordered!Next
  <2> QED BY <2>2, <2>3
<1>3. CASE UNCHANGED <<binlog, engine, entryError>>
  BY <1>3 DEF Ordered!vars
<1>4. ASSUME \/ LeaderCollect(t) \/ LeaderSync(t) \/ LeaderOrder(t) \/ LeaderWakeOne(t) \/ LeaderDone(t)
      PROVE  UNCHANGED <<binlog, engine, entryError>>
  BY <1>4 DEF LeaderCollect, LeaderSync, LeaderOrder, LeaderWakeOne, LeaderDone, entryVars, logVars
<1>5. Still(t) => UNCHANGED <<binlog, engine, entryError>>
  BY DEF Still
<1>6. Still(t) \/ LeaderStep(t)
  BY <1>0, StillKinds
<1> QED BY <1>1, <1>2, <1>3, <1>4, <1>5, <1>6 DEF LeaderStep

\* The threads of a group commit together provide what handler.h promises the
\* engines: the calls of commit_ordered() follow the binlog, each once, and skip
\* only a transaction whose write failed.  This is the mode in which the leader
\* calls it for the whole group (opt_optimize_thread_scheduling).
THEOREM ImplementsOrderedCommitHolds ==
  ASSUME OptimizeThreadScheduling
  PROVE  Spec => ImplementsOrderedCommit
<1>1. Init => Ordered!Init
  BY DEF Init, Ordered!Init
<1>2. Init => PipelineInv
  BY PipelineInit
<1>3. Inv /\ Inv' /\ PipelineInv /\ [Next]_vars => PipelineInv' /\ [Ordered!Next]_(Ordered!vars)
  <2> SUFFICES ASSUME Inv, Inv', PipelineInv, [Next]_vars
               PROVE  PipelineInv' /\ [Ordered!Next]_(Ordered!vars)
    OBVIOUS
  <2>1. CASE \E t \in Trx : Step(t) \/ Kill(t)
    <3>1. PICK t \in Trx : Step(t) \/ Kill(t)
      BY <2>1
    <3>2. PipelineInv'
      BY <3>1, PipelineStep
    <3>3. [Ordered!Next]_(Ordered!vars)
      BY <3>1, RefinesStep
    <3> QED BY <3>2, <3>3
  <2>2. CASE UNCHANGED vars
    <3> USE <2>2 DEF vars, wfcVars, entryVars, queueVars, lockVars, walkVars, endVars, logVars
    <3>1. UNCHANGED <<CoPart, AbsPart, LogPart, Good>>
      BY DEF CoPart, AbsPart, LogPart, Good, At
    <3>2. PipelineInv'
      BY <3>1 DEF PipelineInv, Todo
    <3>3. UNCHANGED Ordered!vars
      BY DEF Ordered!vars
    <3> QED BY <3>2, <3>3
  <2> QED BY <2>1, <2>2 DEF Next, AllDone
<1> QED BY <1>1, <1>2, <1>3, Invariance, PTL DEF Spec, ImplementsOrderedCommit, Ordered!Spec
=============================================================================
