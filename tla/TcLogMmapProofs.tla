---------------------------- MODULE TcLogMmapProofs ----------------------------
(***************************************************************************)
(* Theorems about TcLogMmap, for every number of sessions, engines, pages, *)
(* slots, transactions and crashes.                                        *)
(***************************************************************************)
EXTENDS TcLogMmap, FiniteSetTheorems, SequenceTheorems, WellFoundedInduction, TLAPS

-----------------------------------------------------------------------------
(* Sequences without repetition, and their elements                        *)

LEMMA ToSetAppend ==
  ASSUME NEW S, NEW q \in Seq(S), NEW a \in S
  PROVE  /\ Append(q, a) \in Seq(S)
         /\ ToSet(Append(q, a)) = ToSet(q) \cup {a}
         /\ IsInjective(q) /\ a \notin ToSet(q) => IsInjective(Append(q, a))
<1> DEFINE r == Append(q, a)
<1>1. /\ r \in Seq(S) /\ Len(q) \in Nat /\ DOMAIN r = 1..Len(q) + 1
      /\ DOMAIN q = 1..Len(q) /\ r[Len(q) + 1] = a
      /\ \A i \in 1..Len(q) : r[i] = q[i]
  OBVIOUS
<1> HIDE DEF r
<1>2. ToSet(r) = ToSet(q) \cup {a}
  BY <1>1 DEF ToSet
<1>3. IsInjective(q) /\ a \notin ToSet(q) => IsInjective(r)
  BY <1>1 DEF ToSet, IsInjective
<1> QED BY <1>1, <1>2, <1>3 DEF r

LEMMA ToSetTail ==
  ASSUME NEW S, NEW q \in Seq(S), q # <<>>
  PROVE  /\ Tail(q) \in Seq(S) /\ Head(q) \in ToSet(q) /\ Head(q) \in S
         /\ ToSet(Tail(q)) \subseteq ToSet(q)
         /\ IsInjective(q) => IsInjective(Tail(q)) /\ Head(q) \notin ToSet(Tail(q))
<1>1. /\ Tail(q) \in Seq(S) /\ Len(q) \in Nat \ {0} /\ Len(Tail(q)) = Len(q) - 1
      /\ \A i \in 1..Len(q) - 1 : Tail(q)[i] = q[i + 1]
      /\ Head(q) = q[1] /\ DOMAIN q = 1..Len(q) /\ q[1] \in S
  OBVIOUS
<1>2. DOMAIN Tail(q) = 1..Len(q) - 1
  BY <1>1
<1> QED BY <1>1, <1>2 DEF ToSet, IsInjective

LEMMA ToSetElement ==
  ASSUME NEW S, NEW q \in Seq(S)
  PROVE  ToSet(q) \subseteq S
  BY DEF ToSet

LEMMA ToSetEmpty == ToSet(<<>>) = {} /\ IsInjective(<<>>)
  BY DEF ToSet, IsInjective

LEMMA ToSetRemoveAt ==
  ASSUME NEW S, NEW q \in Seq(S), NEW k \in 1..Len(q), IsInjective(q)
  PROVE  /\ RemoveAt(q, k) \in Seq(S)
         /\ ToSet(RemoveAt(q, k)) = ToSet(q) \ {q[k]}
         /\ IsInjective(RemoveAt(q, k))
<1> DEFINE a == SubSeq(q, 1, k - 1)
           b == SubSeq(q, k + 1, Len(q))
           r == RemoveAt(q, k)
           n == Len(q)
<1>a. n \in Nat /\ k \in 1..n /\ DOMAIN q = 1..n
  OBVIOUS
<1>b. a \in Seq(S) /\ Len(a) = k - 1 /\ \A i \in 1..k - 1 : a[i] = q[i]
  BY <1>a
<1>c. /\ b \in Seq(S) /\ Len(b) = IF k + 1 <= n THEN n - (k + 1) + 1 ELSE 0
      /\ \A i \in 1..n - (k + 1) + 1 : b[i] = q[k + 1 + i - 1]
  <2>1. \A i \in k + 1..n : q[i] \in S
    BY <1>a
  <2> QED BY <1>a, <2>1, SubSeqProperties
<1>d. /\ r \in Seq(S) /\ Len(r) = Len(a) + Len(b)
      /\ \A i \in 1..Len(a) + Len(b) : r[i] = IF i <= Len(a) THEN a[i] ELSE b[i - Len(a)]
  <2>1. r = a \o b
    BY DEF RemoveAt
  <2> HIDE DEF a, b, r
  <2> QED BY <1>b, <1>c, <2>1, ConcatProperties
<1> HIDE DEF a, b, r, n
<1>e. Len(a) + Len(b) = n - 1
  BY <1>a, <1>b, <1>c
<1>1. DOMAIN r = 1..n - 1
  BY <1>d, <1>e
<1>2. ASSUME NEW i \in 1..n - 1 PROVE r[i] = IF i < k THEN q[i] ELSE q[i + 1]
  <2>1. CASE i < k
    <3>1. i <= Len(a) /\ i \in 1..k - 1
      BY <1>a, <1>b, <2>1
    <3> QED BY <1>b, <1>d, <1>e, <2>1, <3>1
  <2>2. CASE i >= k
    <3> DEFINE j == i - (k - 1)
    <3>1. j \in 1..n - (k + 1) + 1 /\ k + 1 + j - 1 = i + 1 /\ ~(i <= k - 1) /\ ~(i < k)
      BY <1>a, <2>2
    <3>2. r[i] = b[j]
      BY <1>b, <1>d, <1>e, <3>1
    <3> HIDE DEF j
    <3>3. b[j] = q[k + 1 + j - 1]
      BY <1>c, <3>1
    <3> QED BY <3>1, <3>2, <3>3
  <2> QED BY <1>a, <2>1, <2>2
<1>3. IsInjective(r)
  <2> SUFFICES ASSUME NEW i \in 1..n - 1, NEW j \in 1..n - 1, r[i] = r[j] PROVE i = j
    BY <1>1 DEF IsInjective
  <2>1. /\ i \in 1..n /\ j \in 1..n /\ i + 1 \in 1..n /\ j + 1 \in 1..n
    BY <1>a
  <2>2. \A u, v \in 1..n : q[u] = q[v] => u = v
    BY <1>a DEF IsInjective
  <2> QED BY <1>a, <1>2, <2>1, <2>2
<1>4. ASSUME NEW c \in ToSet(r) PROVE c \in ToSet(q) /\ c # q[k]
  <2>1. PICK i \in 1..n - 1 : c = r[i]
    BY <1>1 DEF ToSet
  <2>2. i \in 1..n /\ i + 1 \in 1..n /\ k \in 1..n
    BY <1>a
  <2>3. \A u, v \in 1..n : q[u] = q[v] => u = v
    BY <1>a DEF IsInjective
  <2> QED BY <1>a, <1>2, <2>1, <2>2, <2>3 DEF ToSet
<1>5. ASSUME NEW c \in ToSet(q), c # q[k] PROVE c \in ToSet(r)
  <2>1. PICK i \in 1..n : c = q[i]
    BY <1>a, <1>5 DEF ToSet
  <2>2. CASE i < k
    <3>1. i \in 1..n - 1 /\ r[i] = c
      BY <1>a, <1>2, <2>1, <2>2
    <3> QED BY <1>1, <3>1 DEF ToSet
  <2>3. CASE i > k
    <3>1. i - 1 \in 1..n - 1 /\ ~(i - 1 < k) /\ i - 1 + 1 = i
      BY <1>a, <2>1, <2>3
    <3>2. r[i - 1] = c
      BY <1>2, <2>1, <3>1
    <3> QED BY <1>1, <3>1, <3>2 DEF ToSet
  <2> QED BY <1>a, <1>5, <2>1, <2>2, <2>3
<1> QED BY <1>d, <1>3, <1>4, <1>5 DEF r

\* A sequence without repetition is as long as its set of elements.
LEMMA InjectiveLen ==
  ASSUME NEW S, NEW q \in Seq(S), IsInjective(q)
  PROVE  Len(q) = Cardinality(ToSet(q))
<1>1. q \in Bijection(1..Len(q), ToSet(q))
  BY DEF ToSet, IsInjective, Bijection, Injection, Surjection
<1>2. ExistsBijection(1..Len(q), ToSet(q))
  BY <1>1 DEF ExistsBijection
<1> QED BY <1>2, FS_CountingElements

\* Every non-empty set of natural numbers has a smallest element.
LEMMA NatMin ==
  ASSUME NEW S \in SUBSET Nat, S # {}
  PROVE  Min(S) \in S /\ \A n \in S : Min(S) <= n
<1> DEFINE R == OpToRel(<, Nat)
<1>1. IsWellFoundedOn(R, Nat)
  BY NatLessThanWellFounded
<1>2. PICK x \in S : \A y \in S : ~ (<<y, x>> \in R)
  <2> HIDE DEF R
  <2> QED BY <1>1, WFMin
<1>3. \A y \in S : y < x => <<y, x>> \in R
  BY DEF OpToRel
<1>4. \A y \in S : ~ (y < x)
  <2> HIDE DEF R
  <2> QED BY <1>2, <1>3, Zenon
<1> HIDE DEF R
<1>5. \A y \in S : x <= y
  BY <1>4
<1> QED BY <1>5 DEF Min

-----------------------------------------------------------------------------
(* The inductive invariant                                                 *)

\* Where a session has an XID, where its XID stands in a slot of its own, and
\* where it has the syncing slot.
Carrying == PcValues \ {"idle", "erase"}
Owning == {"written", "enroll", "wait_sync", "wake_sync", "deactivate", "msync",
           "synced", "sync_error", "logged"}
Syncing == {"deactivate", "msync", "synced", "sync_error"}

\* LOCK_active protects active from the search in the pool to the unlock;
\* LOCK_sync keeps syncing as it is until the session counts as a waiter.
LockInv ==
  \A s \in Sessions :
    /\ pc[s] \in {"pool", "overflow", "wait_pool"} => lockActive = s /\ active = None
    /\ pc[s] = "written" => lockActive = s /\ active = PageOf(s)
    /\ pc[s] = "enroll" => lockSync = s /\ syncing # None

\* There is one syncer if the slot is taken, and its page is where the stage
\* of the syncer says.
SyncerInv ==
  /\ syncing # None => \E s \in Sessions : pc[s] \in Syncing
  /\ \A s, u \in Sessions : pc[s] \in Syncing /\ pc[u] \in Syncing => s = u
  /\ \A s \in Sessions : pc[s] \in Syncing =>
       /\ syncing = PageOf(s)
       /\ pc[s] = "deactivate" => active = syncing
       /\ pc[s] = "msync" => active # syncing /\ syncing \notin ToSet(pool)
       /\ pc[s] \in {"synced", "sync_error"} => syncing \in ToSet(pool) \cup {active}

\* A page of the pool is there once, is not active and is not dirty.
PoolInv ==
  /\ IsInjective(pool)
  /\ Pages \subseteq ToSet(pool) \cup {active, syncing}
  /\ active \notin ToSet(pool)
  /\ \A p \in ToSet(pool) : state[p] # "dirty"

\* The header is never overwritten.
SlotInv == SlotAccounting /\ slot[1][1] = Header

\* A page that is not dirty has its XIDs on disk.
CleanInv ==
  \A p \in Pages : state[p] = "pool" =>
    \A i \in 1..PageSize : slot[p][i] \in {0, disk[p][i]}

\* PAGE::waiters counts the sessions that sleep on the page or just woke up.
WaitersOf(p) == {s \in Sessions : pc[s] \in {"wait_sync", "wake_sync"} /\ PageOf(s) = p}
WaiterInv == \A p \in Pages : waiters[p] = Cardinality(WaitersOf(p))

\* XIDs are given out once.
XidInv ==
  /\ \A s \in Sessions : pc[s] \in Carrying <=> xid[s] # None
  /\ \A s \in Sessions : erase[s] # <<>> => pc[s] = "erase"
  /\ \A s, u \in Sessions : xid[s] = xid[u] /\ xid[s] # None => s = u
  /\ \A s \in Sessions : /\ xid[s] < nextXid /\ xid[s] \notin failed
                         /\ pc[s] \in {"logged", "notify"} <=> xid[s] \in logged
                         /\ pc[s] # "notify" => xid[s] \notin committed
  /\ logged \cap failed = {}
  /\ \A x \in logged \cup failed \cup committed : x < nextXid

\* So were those in the slots, in the file and in the engines.
GivenInv ==
  /\ \A e \in Engines : \A x \in durable[e] : x < nextXid
  /\ \A p \in Pages : \A i \in 1..PageSize : slot[p][i] < nextXid /\ disk[p][i] < nextXid
  /\ \A p \in Pages : \A i \in Area(p) : slot[p][i] # Header /\ disk[p][i] # Header

\* What stands in the slot of cookie c.
Content(c) == slot[c[1]][c[2]]
Flushed(x, E) == \A e \in E : x \in durable[e]

\* The cookie of a session leads to its XID, on disk as well once it is synced.
OwnInv ==
  \A s \in Sessions :
    /\ pc[s] \in Owning => Content(cookie[s]) = xid[s]
    /\ pc[s] \in {"synced", "logged"} => disk[cookie[s][1]][cookie[s][2]] = xid[s]

\* The transaction of cookie c is committed, and flushed in the engines E.
Done(c, E) == Content(c) \in committed /\ Flushed(Content(c), E)

\* A list of cookies has only transactions that are committed and flushed in
\* all engines but those that still have to notify.
Askers(b) == {e \in Deferred : b \in asked[e]}
ListInv ==
  /\ \A c \in ToSet(pending) : Done(c, Engines \ Deferred)
  /\ \A b \in Xids : \A c \in ToSet(full[b]) : Done(c, Engines \ Askers(b))
  /\ \A t \in Threads : \A c \in ToSet(erase[t]) : Done(c, Engines)

\* A cookie is in one list, and once.
Apart(q, r) == ToSet(q) \cap ToSet(r) = {}
ApartInv ==
  /\ IsInjective(pending)
  /\ \A b \in Xids : IsInjective(full[b]) /\ Apart(pending, full[b])
  /\ \A t \in Threads : IsInjective(erase[t]) /\ Apart(pending, erase[t])
  /\ \A b, d \in Xids : b # d => Apart(full[b], full[d])
  /\ \A b \in Xids, t \in Threads : Apart(full[b], erase[t])
  /\ \A t, u \in Threads : t # u => Apart(erase[t], erase[u])

\* pending_count is the number of those who have not notified yet.
Notifiers(b) == {s \in Sessions : pc[s] = "notify" /\ xid[s] = b}
CountInv ==
  \A b \in Xids : count[b] = (IF Notifiers(b) = {} THEN 0 ELSE 1) + Cardinality(Askers(b))

\* A transaction that some engine has committed was logged, or all have it.
DurableInv ==
  \A x \in committed \cup UNION {durable[e] : e \in Engines} :
    x \in logged \/ Flushed(x, Engines)
KeptInv == crashes > 0 => \A x \in kept : Flushed(x, Engines)

Inv ==
  /\ TypeOK /\ LockInv /\ SyncerInv /\ PoolInv /\ SlotInv /\ CleanInv /\ WaiterInv
  /\ XidInv /\ GivenInv /\ OwnInv /\ ListInv /\ ApartInv /\ CountInv /\ Recoverable
  /\ DurableInv /\ KeptInv /\ SleeperHasWaker

-----------------------------------------------------------------------------
(* What the helpers of the actions do                                      *)

\* A session other than the one that takes a step is woken up at most.
Woken(u) ==
  \/ pc'[u] = pc[u]
  \/ pc[u] = "wait_active" /\ pc'[u] = "log"
  \/ pc[u] = "wait_pool" /\ pc'[u] = "pool"
  \/ pc[u] = "wait_sync" /\ pc'[u] = "wake_sync"

\* log_one_transaction() finds an empty slot in a page that has one.
LEMMA EmptySlotFound ==
  ASSUME TypeOK, SlotInv, NEW p \in Pages, free[p] > 0
  PROVE  /\ EmptySlot(p) \in Area(p) /\ EmptySlot(p) \in 1..PageSize
         /\ slot[p][EmptySlot(p)] = 0
         /\ \A j \in 1..EmptySlot(p) : j < EmptySlot(p) => slot[p][j] # 0
<1> DEFINE E == {i \in Area(p) : slot[p][i] = 0}
           S == {i \in ptr[p]..PageSize : slot[p][i] = 0}
<1>1. /\ ptr[p] \in 1..PageSize + 1 /\ PageSize \in Nat
      /\ \A i \in 1..ptr[p] - 1 : slot[p][i] # 0
      /\ free[p] = Cardinality(E)
  BY MmapAssumption DEF TypeOK, SlotInv, SlotAccounting
<1>2. E # {}
  <2>1. Cardinality(E) # 0
    BY <1>1
  <2> HIDE DEF E
  <2> QED BY <2>1, FS_EmptySet
<1>3. PICK j \in Area(p) : slot[p][j] = 0
  BY <1>2
<1>4. j \in S
  BY <1>1, <1>3 DEF Area, Start
<1>5. S \in SUBSET Nat
  BY <1>1
<1>6. EmptySlot(p) = Min(S)
  BY DEF EmptySlot
<1>7. Min(S) \in S /\ \A i \in S : Min(S) <= i
  <2> HIDE DEF S
  <2> QED BY <1>4, <1>5, NatMin
<1> DEFINE m == Min(S)
<1>8. m \in ptr[p]..PageSize /\ slot[p][m] = 0 /\ \A i \in S : m <= i
  BY <1>7
<1> HIDE DEF m
<1>9. \A i \in 1..m : i < m => slot[p][i] # 0
  BY <1>1, <1>8
<1>10. m \in Area(p)
  <2>1. slot[1][1] # 0
    BY DEF SlotInv, Header
  <2> QED BY <1>1, <1>8, <2>1 DEF Area, Start
<1> QED BY <1>1, <1>6, <1>8, <1>9, <1>10 DEF m

\* get_active_from_pool() finds a page of the pool that can be used.
LEMMA BestPoolUsable ==
  ASSUME TypeOK, UsablePool # {}
  PROVE  BestPool \in 1..Len(pool) /\ pool[BestPool] \in Pages /\ free[pool[BestPool]] > 0
<1>1. /\ PageSize \in Nat /\ Len(pool) \in Nat
      /\ \A i \in 1..Len(pool) : pool[i] \in Pages /\ free[pool[i]] \in 0..PageSize
  <2>1. pool \in Seq(Pages) /\ free \in [Pages -> 0..PageSize] /\ PageSize \in Nat
    BY MmapAssumption DEF TypeOK
  <2>2. Len(pool) \in Nat /\ \A i \in 1..Len(pool) : pool[i] \in Pages
    BY <2>1
  <2> QED BY <2>1, <2>2
<1> DEFINE M == {i \in UsablePool : \A j \in UsablePool : free[pool[j]] <= free[pool[i]]}
           D == {PageSize - free[pool[i]] : i \in UsablePool}
<1>2. D \in SUBSET Nat /\ D # {}
  BY <1>1 DEF UsablePool
<1>3. PICK d \in D : \A n \in D : d <= n
  <2> HIDE DEF D
  <2> QED BY <1>2, NatMin
<1>4. PICK k \in UsablePool : d = PageSize - free[pool[k]]
  BY <1>3
<1>5. \A j \in UsablePool : PageSize - free[pool[k]] <= PageSize - free[pool[j]]
  BY <1>3, <1>4
<1>6. k \in M
  <2>1. ASSUME NEW j \in UsablePool PROVE free[pool[j]] <= free[pool[k]]
    <3>1. j \in 1..Len(pool) /\ k \in 1..Len(pool)
      BY DEF UsablePool
    <3>2. free[pool[j]] \in 0..PageSize /\ free[pool[k]] \in 0..PageSize
      BY <1>1, <3>1
    <3> QED BY <1>1, <1>5, <3>2
  <2> QED BY <1>4, <2>1
<1>7. M \in SUBSET Nat
  BY <1>1 DEF UsablePool
<1>8. Min(M) \in M
  <2> HIDE DEF M
  <2> QED BY <1>6, <1>7, NatMin
<1>9. BestPool \in UsablePool
  BY <1>8 DEF BestPool
<1> QED BY <1>1, <1>9 DEF UsablePool, Usable

-----------------------------------------------------------------------------
(* Program counters                                                        *)

LEMMA OthersWoken ==
  ASSUME TypeOK, NEW s \in Sessions, LogStep(s) \/ UnlogStep(s)
  PROVE  /\ pc' \in [Sessions -> PcValues]
         /\ \A u \in Sessions \ {s} : Woken(u)
<1>1. pc \in [Sessions -> PcValues]
  BY DEF TypeOK
<1> USE DEF Woken, PcValues
<1>2. ASSUME NEW v \in PcValues, pc' = [pc EXCEPT ![s] = v]
      PROVE  pc' \in [Sessions -> PcValues] /\ \A u \in Sessions \ {s} : Woken(u)
  BY <1>1, <1>2
<1>3. ASSUME NEW v \in PcValues, NEW p, pc' = WakePage([pc EXCEPT ![s] = v], p)
      PROVE  pc' \in [Sessions -> PcValues] /\ \A u \in Sessions \ {s} : Woken(u)
  BY <1>1, <1>3 DEF WakePage
<1>4. ASSUME NEW v \in PcValues, pc' = WakePool([pc EXCEPT ![s] = v])
      PROVE  pc' \in [Sessions -> PcValues] /\ \A u \in Sessions \ {s} : Woken(u)
  BY <1>1, <1>4 DEF WakePool
<1>5. ASSUME NEW v \in PcValues, pc' = WakeActive([pc EXCEPT ![s] = v])
      PROVE  pc' \in [Sessions -> PcValues] /\ \A u \in Sessions \ {s} : Woken(u)
  BY <1>1, <1>5 DEF WakeActive
<1>6. CASE WaitActive(s) \/ WriteActive(s) \/ NoActive(s) \/ TakeFromPool(s)
  BY <1>2, <1>6 DEF WaitActive, WriteActive, NoActive, TakeFromPool
<1>7. CASE PoolExhausted(s) \/ Overflow(s) \/ SyncLater(s) \/ WaitOn(s) \/ TakeSyncing(s)
  BY <1>2, <1>7 DEF PoolExhausted, Overflow, SyncLater, WaitOn, TakeSyncing
<1>8. CASE SyncNow(s) \/ Deactivate(s)
  BY <1>5, <1>8 DEF SyncNow, Deactivate
<1>9. /\ AfterLog(state[PageOf(s)] = "pool") \in PcValues
      /\ AfterLog(pc[s] = "synced") \in PcValues
  BY DEF AfterLog
<1>10. CASE Enroll(s)
  <2>1. \/ pc' = [pc EXCEPT ![s] = "wait_sync"]
        \/ pc' = [pc EXCEPT ![s] = AfterLog(state[PageOf(s)] = "pool")]
        \/ pc' = WakePool([pc EXCEPT ![s] = AfterLog(state[PageOf(s)] = "pool")])
    BY <1>10 DEF Enroll
  <2> QED BY <1>2, <1>4, <1>9, <2>1
<1>11. CASE SyncedByOther(s)
  <2>1. \/ pc' = [pc EXCEPT ![s] = AfterLog(state[PageOf(s)] = "pool")]
        \/ pc' = WakePool([pc EXCEPT ![s] = AfterLog(state[PageOf(s)] = "pool")])
    BY <1>11 DEF SyncedByOther
  <2> QED BY <1>2, <1>4, <1>9, <2>1
<1>12. CASE Sync(s)
  BY <1>4, <1>12 DEF Sync
<1>13. CASE SyncDone(s)
  <2> DEFINE g == WakePage([pc EXCEPT ![s] = AfterLog(pc[s] = "synced")], syncing)
  <2>1. /\ g \in [Sessions -> PcValues]
        /\ \A u \in Sessions \ {s} : \/ g[u] = pc[u]
                                     \/ pc[u] = "wait_sync" /\ g[u] = "wake_sync"
    BY <1>1, <1>9 DEF WakePage
  <2>2. \/ pc' = g
        \/ \E w \in Sessions : g[w] = "wait_sync" /\ pc' = [g EXCEPT ![w] = "wake_sync"]
    BY <1>13 DEF SyncDone
  <2> HIDE DEF g
  <2> QED BY <2>1, <2>2
<1>14. CASE UnlogStep(s)
  BY <1>2, <1>14 DEF UnlogStep, UnlogKeep, UnlogFull, NotifyOwn
<1> QED BY <1>6, <1>7, <1>8, <1>10, <1>11, <1>12, <1>13, <1>14 DEF LogStep

LEMMA DeleteWoken ==
  ASSUME TypeOK, NEW t \in Threads, DeleteEntry(t)
  PROVE  /\ pc' \in [Sessions -> PcValues]
         /\ \A u \in Sessions : \/ Woken(u)
                                \/ u = t /\ pc'[u] = "idle" /\ Len(erase[t]) = 1
<1>1. pc \in [Sessions -> PcValues]
  BY DEF TypeOK
<1> DEFINE f == IF t \in Sessions /\ Len(erase[t]) = 1 THEN [pc EXCEPT ![t] = "idle"] ELSE pc
<1>2. pc' = WakePool(f) \/ pc' = f
  BY DEF DeleteEntry
<1> QED BY <1>1, <1>2 DEF Woken, PcValues, WakePool

-----------------------------------------------------------------------------
(* Types                                                                   *)

\* Types, without the bounds that the counters keep for reasons of their own.
BasicType ==
  /\ pc \in [Sessions -> PcValues]
  /\ slot \in [Pages -> [1..PageSize -> Xids \cup {0, Header}]]
  /\ disk \in [Pages -> [1..PageSize -> Xids \cup {0, Header}]]
  /\ ptr \in [Pages -> 1..PageSize + 1] /\ free \in [Pages -> Int]
  /\ waiters \in [Pages -> Int]
  /\ state \in [Pages -> {"pool", "error", "dirty"}]
  /\ active \in Pages \cup {None} /\ syncing \in Pages \cup {None}
  /\ pool \in Seq(Pages)
  /\ lockActive \in Sessions \cup {Nobody} /\ lockSync \in Sessions \cup {Nobody}
  /\ xid \in [Sessions -> Xids \cup {None}] /\ cookie \in [Sessions -> Cookies]
  /\ pending \in Seq(Cookies) /\ full \in [Xids -> Seq(Cookies)]
  /\ count \in [Xids -> Int]
  /\ asked \in [Deferred -> SUBSET Xids] /\ erase \in [Threads -> Seq(Cookies)]
  /\ logged \in SUBSET Xids /\ failed \in SUBSET Xids
  /\ committed \in SUBSET Xids /\ durable \in [Engines -> SUBSET Xids]
  /\ kept \in SUBSET Xids /\ nextXid \in 1..MaxXid + 1 /\ crashes \in 0..MaxCrash

LEMMA BasicTypeHolds == TypeOK => BasicType
<1> SUFFICES ASSUME TypeOK PROVE BasicType
  OBVIOUS
<1>1. free \in [Pages -> Int] /\ waiters \in [Pages -> Int] /\ count \in [Xids -> Int]
  <2>1. /\ free \in [Pages -> 0..PageSize] /\ waiters \in [Pages -> 0..Cardinality(Sessions)]
        /\ count \in [Xids -> 0..InitialCount]
    BY DEF TypeOK
  <2> QED BY <2>1
<1> QED BY <1>1 DEF TypeOK, BasicType

LEMMA CookieParts == \A c \in Cookies : c[1] \in Pages /\ c[2] \in 1..PageSize
  BY DEF Cookies

\* The XID a session goes on with is one.
LEMMA XidTaken ==
  ASSUME Inv, NEW s \in Sessions, MayLog(s), TakeXid(s)
  PROVE  /\ XidOf(s) \in Xids
         /\ xid' = [xid EXCEPT ![s] = XidOf(s)] /\ xid' \in [Sessions -> Xids \cup {None}]
         /\ nextXid' \in 1..MaxXid + 1
<1>1. MaxXid \in Nat /\ nextXid \in 1..MaxXid + 1 /\ xid \in [Sessions -> Xids \cup {None}]
  BY MmapAssumption DEF Inv, TypeOK
<1>2. XidOf(s) \in Xids
  BY <1>1 DEF Inv, XidInv, MayLog, XidOf, Carrying, PcValues, Xids
<1> QED BY <1>1, <1>2 DEF TakeXid, MayLog, Xids

\* What Store does, in a page that has an empty slot.
LEMMA StoreFacts ==
  ASSUME Inv, NEW s \in Sessions, NEW p \in Pages, free[p] > 0, XidOf(s) \in Xids, Store(s, p)
  PROVE  \E i \in Area(p) :
           /\ i \in 1..PageSize /\ slot[p][i] = 0
           /\ \A j \in 1..i : j < i => slot[p][j] # 0
           /\ slot' = [slot EXCEPT ![p][i] = XidOf(s)]
           /\ ptr' = [ptr EXCEPT ![p] = i + 1]
           /\ free' = [free EXCEPT ![p] = @ - 1]
           /\ state' = [state EXCEPT ![p] = "dirty"]
           /\ cookie' = [cookie EXCEPT ![s] = <<p, i>>]
           /\ waiters' = waiters
<1>1. /\ EmptySlot(p) \in Area(p) /\ EmptySlot(p) \in 1..PageSize
      /\ slot[p][EmptySlot(p)] = 0
      /\ \A j \in 1..EmptySlot(p) : j < EmptySlot(p) => slot[p][j] # 0
  BY EmptySlotFound DEF Inv
<1> DEFINE i == EmptySlot(p)
<1>2. /\ slot' = [slot EXCEPT ![p][i] = XidOf(s)]
      /\ ptr' = [ptr EXCEPT ![p] = i + 1]
      /\ free' = [free EXCEPT ![p] = @ - 1]
      /\ state' = [state EXCEPT ![p] = "dirty"]
      /\ cookie' = [cookie EXCEPT ![s] = <<p, i>>]
      /\ waiters' = waiters
  BY DEF Store
<1> HIDE DEF i
<1> QED BY <1>1, <1>2, Zenon DEF i

LEMMA StoreType ==
  ASSUME Inv, NEW s \in Sessions, NEW p \in Pages, free[p] > 0, XidOf(s) \in Xids, Store(s, p)
  PROVE  /\ slot' \in [Pages -> [1..PageSize -> Xids \cup {0, Header}]]
         /\ ptr' \in [Pages -> 1..PageSize + 1] /\ free' \in [Pages -> Int]
         /\ waiters' \in [Pages -> Int]
         /\ state' \in [Pages -> {"pool", "error", "dirty"}]
         /\ cookie' \in [Sessions -> Cookies]
<1>1. PICK i \in Area(p) :
        /\ i \in 1..PageSize
        /\ slot' = [slot EXCEPT ![p][i] = XidOf(s)]
        /\ ptr' = [ptr EXCEPT ![p] = i + 1]
        /\ free' = [free EXCEPT ![p] = @ - 1]
        /\ state' = [state EXCEPT ![p] = "dirty"]
        /\ cookie' = [cookie EXCEPT ![s] = <<p, i>>]
        /\ waiters' = waiters
  BY StoreFacts
<1>2. BasicType /\ PageSize \in Nat
  BY BasicTypeHolds, MmapAssumption DEF Inv
<1>3. <<p, i>> \in Cookies /\ i + 1 \in 1..PageSize + 1
  BY <1>1, <1>2 DEF Cookies
<1>4. slot' \in [Pages -> [1..PageSize -> Xids \cup {0, Header}]]
  <2>1. slot \in [Pages -> [1..PageSize -> Xids \cup {0, Header}]]
    BY <1>2 DEF BasicType
  <2>2. [slot[p] EXCEPT ![i] = XidOf(s)] \in [1..PageSize -> Xids \cup {0, Header}]
    BY <2>1
  <2> QED BY <1>1, <2>1, <2>2
<1>5. /\ ptr' \in [Pages -> 1..PageSize + 1] /\ waiters' \in [Pages -> Int]
      /\ state' \in [Pages -> {"pool", "error", "dirty"}]
      /\ cookie' \in [Sessions -> Cookies]
  BY <1>1, <1>2, <1>3 DEF BasicType
<1>6. free' \in [Pages -> Int]
  <2>1. free \in [Pages -> Int] /\ free' = [free EXCEPT ![p] = @ - 1]
    BY <1>1, <1>2 DEF BasicType
  <2> QED BY <2>1
<1> QED BY <1>4, <1>5, <1>6

\* How log_one_transaction() returns.
Logs(s) ==
  /\ pc'[s] = "logged" /\ logged' = logged \cup {xid[s]}
  /\ failed' = failed /\ xid' = xid /\ cookie' = cookie
Fails(s) ==
  /\ pc'[s] = "idle" /\ failed' = failed \cup {xid[s]} /\ logged' = logged
  /\ xid' = [xid EXCEPT ![s] = None] /\ cookie' = [cookie EXCEPT ![s] = NoCookie]

LEMMA EnrollCases ==
  ASSUME TypeOK, NEW s \in Sessions, Enroll(s)
  PROVE  \/ /\ state[PageOf(s)] = "dirty" /\ waiters' = [waiters EXCEPT ![PageOf(s)] = @ + 1]
            /\ pc' = [pc EXCEPT ![s] = "wait_sync"]
            /\ logged' = logged /\ failed' = failed /\ xid' = xid /\ cookie' = cookie
         \/ state[PageOf(s)] = "pool" /\ waiters' = waiters /\ Logs(s)
         \/ state[PageOf(s)] \notin {"dirty", "pool"} /\ waiters' = waiters /\ Fails(s)
<1>1. pc \in [Sessions -> PcValues]
  BY DEF TypeOK
<1>2. CASE state[PageOf(s)] = "dirty"
  BY <1>2 DEF Enroll
<1>3. CASE state[PageOf(s)] = "pool"
  BY <1>1, <1>3 DEF Enroll, Return, AfterLog, Logs, WakePool
<1>4. CASE state[PageOf(s)] \notin {"dirty", "pool"}
  BY <1>1, <1>4 DEF Enroll, Return, AfterLog, Fails, Forget, WakePool
<1> QED BY <1>2, <1>3, <1>4

LEMMA SyncedByOtherCases ==
  ASSUME TypeOK, NEW s \in Sessions, SyncedByOther(s)
  PROVE  /\ pc[s] = "wake_sync" /\ state[PageOf(s)] # "dirty"
         /\ waiters' = [waiters EXCEPT ![PageOf(s)] = @ - 1]
         /\ \/ state[PageOf(s)] = "pool" /\ Logs(s)
            \/ state[PageOf(s)] # "pool" /\ Fails(s)
<1>1. pc \in [Sessions -> PcValues]
  BY DEF TypeOK
<1>2. /\ pc[s] = "wake_sync" /\ state[PageOf(s)] # "dirty"
      /\ waiters' = [waiters EXCEPT ![PageOf(s)] = @ - 1]
  BY DEF SyncedByOther
<1>3. CASE state[PageOf(s)] = "pool"
  BY <1>1, <1>2, <1>3 DEF SyncedByOther, Return, AfterLog, Logs, WakePool
<1>4. CASE state[PageOf(s)] # "pool"
  BY <1>1, <1>2, <1>4 DEF SyncedByOther, Return, AfterLog, Fails, Forget, WakePool
<1> QED BY <1>2, <1>3, <1>4

\* All waiters of the page are woken up, and one of the active page if there is one.
LEMMA SyncDoneCases ==
  ASSUME TypeOK, NEW s \in Sessions, SyncDone(s)
  PROVE  /\ \/ pc[s] = "synced" /\ Logs(s)
            \/ pc[s] = "sync_error" /\ Fails(s)
         /\ \A u \in Sessions \ {s} :
              pc[u] = "wait_sync" /\ PageOf(u) = syncing => pc'[u] = "wake_sync"
         /\ \A u \in Sessions \ {s} :
              pc[u] = "wait_sync" /\ PageOf(u) = active =>
                \E w \in Sessions \ {s} : pc'[w] = "wake_sync" /\ PageOf(w) = active
<1> DEFINE g == WakePage([pc EXCEPT ![s] = AfterLog(pc[s] = "synced")], syncing)
<1>1. pc \in [Sessions -> PcValues]
  BY DEF TypeOK
<1>2. pc[s] \in {"synced", "sync_error"}
  BY DEF SyncDone
<1>3. /\ g \in [Sessions -> PcValues]
      /\ g[s] = IF pc[s] = "synced" THEN "logged" ELSE "idle"
      /\ \A u \in Sessions \ {s} :
           g[u] = IF pc[u] = "wait_sync" /\ PageOf(u) = syncing THEN "wake_sync" ELSE pc[u]
  BY <1>1 DEF WakePage, AfterLog, PcValues
<1>4. \/ pc' = g /\ ~ \E w \in Sessions : g[w] = "wait_sync" /\ PageOf(w) = active
      \/ \E w \in Sessions : /\ g[w] = "wait_sync" /\ PageOf(w) = active
                             /\ pc' = [g EXCEPT ![w] = "wake_sync"]
  BY DEF SyncDone
<1> HIDE DEF g
<1>5. pc'[s] = IF pc[s] = "synced" THEN "logged" ELSE "idle"
  BY <1>3, <1>4
<1>6. \/ pc[s] = "synced" /\ Logs(s)
      \/ pc[s] = "sync_error" /\ Fails(s)
  <2>1. CASE pc[s] = "synced"
    BY <1>5, <2>1 DEF SyncDone, Return, Logs
  <2>2. CASE pc[s] = "sync_error"
    BY <1>5, <2>2 DEF SyncDone, Return, Fails, Forget
  <2> QED BY <1>2, <2>1, <2>2
<1>7. ASSUME NEW u \in Sessions \ {s}, pc[u] = "wait_sync", PageOf(u) = syncing
      PROVE  pc'[u] = "wake_sync"
  BY <1>3, <1>4, <1>7
<1>8. ASSUME NEW u \in Sessions \ {s}, pc[u] = "wait_sync", PageOf(u) = active
      PROVE  \E w \in Sessions \ {s} : pc'[w] = "wake_sync" /\ PageOf(w) = active
  BY <1>3, <1>4, <1>7, <1>8
<1> QED BY <1>6, <1>7, <1>8

LEMMA BasicTypeStep ==
  ASSUME Inv, NEW s \in Sessions, LogStep(s)
  PROVE  BasicType'
<1>1. BasicType /\ pc' \in [Sessions -> PcValues] /\ PageSize \in Nat
  BY BasicTypeHolds, OthersWoken, MmapAssumption DEF Inv
<1>a. ASSUME pc[s] \in {"pool", "enroll", "wake_sync", "synced", "sync_error"}
      PROVE  xid[s] \in Xids
  <2>1. pc[s] \in Carrying
    BY <1>a DEF Carrying, PcValues
  <2>2. xid[s] # None
    BY <2>1 DEF Inv, XidInv
  <2>3. xid \in [Sessions -> Xids \cup {None}]
    BY <1>1 DEF BasicType
  <2> QED BY <2>2, <2>3
<1> USE DEF pageVars, listVars, unlogVars, engineVars, crashVars
<1>2. CASE WaitActive(s)
  BY <1>1, <1>2, XidTaken DEF WaitActive, BasicType
<1>3. CASE WriteActive(s)
  <2>1. active \in Pages
    BY <1>1, <1>3 DEF WriteActive, BasicType
  <2>2. XidOf(s) \in Xids /\ xid' \in [Sessions -> Xids \cup {None}] /\ nextXid' \in 1..MaxXid + 1
    BY <1>3, XidTaken DEF WriteActive
  <2>3. /\ slot' \in [Pages -> [1..PageSize -> Xids \cup {0, Header}]]
        /\ ptr' \in [Pages -> 1..PageSize + 1] /\ free' \in [Pages -> Int]
        /\ waiters' \in [Pages -> Int]
        /\ state' \in [Pages -> {"pool", "error", "dirty"}]
        /\ cookie' \in [Sessions -> Cookies]
    BY <1>3, <2>1, <2>2, StoreType DEF WriteActive
  <2> QED BY <1>1, <1>3, <2>2, <2>3 DEF WriteActive, BasicType
<1>4. CASE NoActive(s)
  BY <1>1, <1>4, XidTaken DEF NoActive, BasicType
<1>5. CASE TakeFromPool(s)
  <2> DEFINE p == pool[BestPool]
  <2>1. BestPool \in 1..Len(pool) /\ p \in Pages /\ free[p] > 0
    BY <1>5, BestPoolUsable DEF TakeFromPool, Inv
  <2>2. XidOf(s) \in Xids
    <3>1. pc[s] = "pool"
      BY <1>5 DEF TakeFromPool
    <3> QED BY <1>a, <3>1 DEF XidOf
  <2>3. pool' \in Seq(Pages)
    BY <1>1, <1>5, <2>1, ToSetRemoveAt DEF TakeFromPool, BasicType, Inv, PoolInv
  <2>4. active' = p /\ Store(s, p)
    BY <1>5 DEF TakeFromPool
  <2> HIDE DEF p
  <2>5. /\ slot' \in [Pages -> [1..PageSize -> Xids \cup {0, Header}]]
        /\ ptr' \in [Pages -> 1..PageSize + 1] /\ free' \in [Pages -> Int]
        /\ waiters' \in [Pages -> Int]
        /\ state' \in [Pages -> {"pool", "error", "dirty"}]
        /\ cookie' \in [Sessions -> Cookies]
    BY <2>1, <2>2, <2>4, StoreType
  <2> QED BY <1>1, <1>5, <2>1, <2>3, <2>4, <2>5 DEF TakeFromPool, BasicType
<1>6. CASE PoolExhausted(s) \/ Overflow(s) \/ SyncLater(s) \/ WaitOn(s)
  BY <1>1, <1>6 DEF PoolExhausted, Overflow, SyncLater, WaitOn, BasicType
<1>7. cookie[s] \in Cookies /\ PageOf(s) \in Pages
  BY <1>1, CookieParts DEF BasicType, PageOf
<1>8. CASE SyncNow(s) \/ Deactivate(s)
  BY <1>1, <1>7, <1>8 DEF SyncNow, Deactivate, BasicType
<1>9. CASE TakeSyncing(s)
  BY <1>1, <1>7, <1>9 DEF TakeSyncing, BasicType
<1>10. NoCookie \in Cookies
  BY MmapAssumption DEF NoCookie, Cookies, Pages
<1>11. ASSUME Logs(s) \/ Fails(s), xid[s] \in Xids
       PROVE  /\ logged' \in SUBSET Xids /\ failed' \in SUBSET Xids
              /\ xid' \in [Sessions -> Xids \cup {None}] /\ cookie' \in [Sessions -> Cookies]
  BY <1>1, <1>10, <1>11 DEF Logs, Fails, BasicType
<1>12. CASE Enroll(s)
  <2>1. xid[s] \in Xids
    BY <1>a, <1>12 DEF Enroll
  <2>2. /\ logged' \in SUBSET Xids /\ failed' \in SUBSET Xids
        /\ xid' \in [Sessions -> Xids \cup {None}] /\ cookie' \in [Sessions -> Cookies]
        /\ waiters' \in [Pages -> Int]
    <3>1. \/ /\ waiters' = [waiters EXCEPT ![PageOf(s)] = @ + 1]
             /\ logged' = logged /\ failed' = failed /\ xid' = xid /\ cookie' = cookie
          \/ waiters' = waiters /\ (Logs(s) \/ Fails(s))
      BY <1>12, EnrollCases DEF Inv
    <3>2. /\ logged \in SUBSET Xids /\ failed \in SUBSET Xids
          /\ xid \in [Sessions -> Xids \cup {None}] /\ cookie \in [Sessions -> Cookies]
          /\ waiters \in [Pages -> Int]
      BY <1>1 DEF BasicType
    <3>3. waiters[PageOf(s)] + 1 \in Int
      BY <1>7, <3>2
    <3>4. waiters' \in [Pages -> Int]
      BY <3>1, <3>2, <3>3
    <3> QED BY <1>11, <2>1, <3>1, <3>2, <3>4
  <2> QED BY <1>1, <1>12, <2>2 DEF Enroll, BasicType
<1>13. CASE SyncedByOther(s)
  <2>1. xid[s] \in Xids
    <3>1. pc[s] = "wake_sync"
      BY <1>13 DEF SyncedByOther
    <3> QED BY <1>a, <3>1
  <2>2. /\ logged' \in SUBSET Xids /\ failed' \in SUBSET Xids
        /\ xid' \in [Sessions -> Xids \cup {None}] /\ cookie' \in [Sessions -> Cookies]
        /\ waiters' \in [Pages -> Int]
    <3>1. /\ waiters' = [waiters EXCEPT ![PageOf(s)] = @ - 1]
          /\ Logs(s) \/ Fails(s)
      BY <1>13, SyncedByOtherCases DEF Inv
    <3>2. waiters \in [Pages -> Int]
      BY <1>1 DEF BasicType
    <3>3. waiters[PageOf(s)] - 1 \in Int
      BY <1>7, <3>2
    <3>4. waiters' \in [Pages -> Int]
      BY <3>1, <3>2, <3>3
    <3> QED BY <1>11, <2>1, <3>1, <3>4
  <2> QED BY <1>1, <1>13, <2>2 DEF SyncedByOther, BasicType
<1>14. CASE Sync(s)
  <2>1. syncing \in Pages
    BY <1>7, <1>14 DEF Sync, Inv, SyncerInv, Syncing
  <2>2. /\ disk' \in [Pages -> [1..PageSize -> Xids \cup {0, Header}]]
        /\ state' \in [Pages -> {"pool", "error", "dirty"}]
    BY <1>1, <1>14, <2>1 DEF Sync, BasicType
  <2>3. pool' \in Seq(Pages)
    BY <1>1, <1>14, <2>1 DEF Sync, BasicType
  <2> QED BY <1>1, <1>14, <2>2, <2>3 DEF Sync, BasicType
<1>15. CASE SyncDone(s)
  <2>1. xid[s] \in Xids
    <3>1. pc[s] \in {"synced", "sync_error"}
      BY <1>15 DEF SyncDone
    <3> QED BY <1>a, <3>1
  <2>2. /\ logged' \in SUBSET Xids /\ failed' \in SUBSET Xids
        /\ xid' \in [Sessions -> Xids \cup {None}] /\ cookie' \in [Sessions -> Cookies]
    BY <1>11, <1>15, <2>1, SyncDoneCases DEF Inv
  <2> QED BY <1>1, <1>15, <2>2 DEF SyncDone, BasicType
<1> QED BY <1>2, <1>3, <1>4, <1>5, <1>6, <1>8, <1>9, <1>12, <1>13, <1>14, <1>15 DEF LogStep


LEMMA NotifyType ==
  ASSUME BasicType, NEW t \in Threads, NEW b \in Xids, CommitCheckpointNotify(t, b)
  PROVE  /\ count' \in [Xids -> Int] /\ full' \in [Xids -> Seq(Cookies)]
         /\ erase' \in [Threads -> Seq(Cookies)]
<1>1. count \in [Xids -> Int]
  BY DEF BasicType
<1>2. full \in [Xids -> Seq(Cookies)] /\ erase \in [Threads -> Seq(Cookies)]
  BY DEF BasicType
<1>3. count' \in [Xids -> Int]
  BY <1>1 DEF CommitCheckpointNotify
<1>4. /\ full' = full \/ full' = [full EXCEPT ![b] = <<>>]
      /\ erase' = erase \/ erase' = [erase EXCEPT ![t] = full[b]]
  BY DEF CommitCheckpointNotify
<1>5. <<>> \in Seq(Cookies) /\ full[b] \in Seq(Cookies)
  BY <1>2
<1> QED BY <1>2, <1>3, <1>4, <1>5

LEMMA BasicTypeUnlog ==
  ASSUME Inv, NEW s \in Sessions, UnlogStep(s)
  PROVE  BasicType'
<1>1. BasicType /\ pc' \in [Sessions -> PcValues]
  BY BasicTypeHolds, OthersWoken DEF Inv
<1> USE DEF pageVars, listVars, unlogVars, engineVars, crashVars
<1>2. xid[s] \in Xids /\ cookie[s] \in Cookies
  BY <1>1 DEF UnlogStep, UnlogKeep, UnlogFull, NotifyOwn, Inv, XidInv, Carrying, PcValues,
              BasicType
<1>3. NoCookie \in Cookies
  BY MmapAssumption DEF NoCookie, Cookies, Pages
<1>4. Append(pending, cookie[s]) \in Seq(Cookies)
  BY <1>1, <1>2, ToSetAppend DEF BasicType
<1>5. ASSUME Commit(s)
      PROVE  committed' \in SUBSET Xids /\ durable' \in [Engines -> SUBSET Xids]
  BY <1>1, <1>2, <1>5 DEF Commit, BasicType
<1>6. ASSUME Forget(s)
      PROVE  xid' \in [Sessions -> Xids \cup {None}] /\ cookie' \in [Sessions -> Cookies]
  BY <1>1, <1>3, <1>6 DEF Forget, BasicType
<1>7. CASE UnlogKeep(s)
  <2>1. /\ committed' \in SUBSET Xids /\ durable' \in [Engines -> SUBSET Xids]
        /\ xid' \in [Sessions -> Xids \cup {None}] /\ cookie' \in [Sessions -> Cookies]
        /\ pending' \in Seq(Cookies)
    BY <1>4, <1>5, <1>6, <1>7 DEF UnlogKeep
  <2> QED BY <1>1, <1>7, <2>1 DEF UnlogKeep, BasicType
<1>8. CASE UnlogFull(s)
  <2>1. /\ committed' \in SUBSET Xids /\ durable' \in [Engines -> SUBSET Xids]
        /\ pending' \in Seq(Cookies)
    BY <1>5, <1>8 DEF UnlogFull
  <2>2. full' \in [Xids -> Seq(Cookies)]
    BY <1>1, <1>4, <1>8 DEF UnlogFull, BasicType
  <2>3. count' \in [Xids -> Int] /\ asked' \in [Deferred -> SUBSET Xids]
    <3>1. InitialCount \in Int
      <4>1. IsFiniteSet(Deferred)
        BY MmapAssumption, FS_Subset
      <4> QED BY <4>1, FS_CardinalityType DEF InitialCount
    <3>2. count \in [Xids -> Int] /\ asked \in [Deferred -> SUBSET Xids]
      BY <1>1 DEF BasicType
    <3> QED BY <1>2, <1>8, <3>1, <3>2 DEF UnlogFull
  <2> QED BY <1>1, <1>8, <2>1, <2>2, <2>3 DEF UnlogFull, BasicType
<1>9. CASE NotifyOwn(s)
  <2>1. xid' \in [Sessions -> Xids \cup {None}] /\ cookie' \in [Sessions -> Cookies]
    BY <1>6, <1>9 DEF NotifyOwn
  <2>2. /\ count' \in [Xids -> Int] /\ full' \in [Xids -> Seq(Cookies)]
        /\ erase' \in [Threads -> Seq(Cookies)]
    BY <1>1, <1>2, <1>9, NotifyType DEF NotifyOwn, Threads
  <2> QED BY <1>1, <1>9, <2>1, <2>2 DEF NotifyOwn, BasicType
<1> QED BY <1>7, <1>8, <1>9 DEF UnlogStep

LEMMA BasicTypeEngine ==
  ASSUME Inv, NEW e \in Deferred, NEW b \in Xids, NotifyEngine(e, b)
  PROVE  BasicType'
<1>1. BasicType /\ Deferred \subseteq Engines
  BY BasicTypeHolds, MmapAssumption DEF Inv
<1>2. /\ count' \in [Xids -> Int] /\ full' \in [Xids -> Seq(Cookies)]
      /\ erase' \in [Threads -> Seq(Cookies)]
  BY <1>1, NotifyType DEF NotifyEngine, Threads
<1>3. durable' \in [Engines -> SUBSET Xids] /\ asked' \in [Deferred -> SUBSET Xids]
  BY <1>1 DEF NotifyEngine, BasicType
<1> QED BY <1>1, <1>2, <1>3 DEF NotifyEngine, BasicType, pageVars, listVars, crashVars

\* What DeleteEntry does to the page of the next cookie.
LEMMA DeleteFacts ==
  ASSUME TypeOK, NEW t \in Threads, DeleteEntry(t)
  PROVE  \E p \in Pages, i \in 1..PageSize :
           /\ erase[t] # <<>> /\ Head(erase[t]) = <<p, i>> /\ <<p, i>> \in ToSet(erase[t])
           /\ slot' = [slot EXCEPT ![p][i] = 0]
           /\ free' = [free EXCEPT ![p] = @ + 1]
           /\ ptr' = [ptr EXCEPT ![p] = IF i < @ THEN i ELSE @]
           /\ erase' = [erase EXCEPT ![t] = Tail(@)]
<1>1. erase[t] \in Seq(Cookies) /\ erase[t] # <<>>
  BY DEF TypeOK, DeleteEntry
<1>2. Head(erase[t]) \in ToSet(erase[t]) /\ Head(erase[t]) \in Cookies
  BY <1>1, ToSetTail
<1>3. PICK p \in Pages, i \in 1..PageSize : Head(erase[t]) = <<p, i>>
  BY <1>2 DEF Cookies
<1>4. Head(erase[t])[1] = p /\ Head(erase[t])[2] = i
  BY <1>3
<1>5. /\ slot' = [slot EXCEPT ![p][i] = 0]
      /\ free' = [free EXCEPT ![p] = @ + 1]
      /\ ptr' = [ptr EXCEPT ![p] = IF i < @ THEN i ELSE @]
      /\ erase' = [erase EXCEPT ![t] = Tail(@)]
  BY <1>4 DEF DeleteEntry
<1> QED BY <1>1, <1>2, <1>3, <1>5, Zenon

LEMMA BasicTypeDelete ==
  ASSUME Inv, NEW t \in Threads, DeleteEntry(t)
  PROVE  BasicType'
<1>1. BasicType /\ pc' \in [Sessions -> PcValues] /\ PageSize \in Nat
  BY BasicTypeHolds, DeleteWoken, MmapAssumption DEF Inv
<1>2. PICK p \in Pages, i \in 1..PageSize :
        /\ erase[t] # <<>>
        /\ slot' = [slot EXCEPT ![p][i] = 0]
        /\ free' = [free EXCEPT ![p] = @ + 1]
        /\ ptr' = [ptr EXCEPT ![p] = IF i < @ THEN i ELSE @]
        /\ erase' = [erase EXCEPT ![t] = Tail(@)]
  BY DeleteFacts DEF Inv
<1>3. slot' \in [Pages -> [1..PageSize -> Xids \cup {0, Header}]]
  <2>1. slot \in [Pages -> [1..PageSize -> Xids \cup {0, Header}]]
    BY <1>1 DEF BasicType
  <2>2. [slot[p] EXCEPT ![i] = 0] \in [1..PageSize -> Xids \cup {0, Header}]
    BY <2>1
  <2> QED BY <1>2, <2>1, <2>2
<1>4. free' \in [Pages -> Int] /\ ptr' \in [Pages -> 1..PageSize + 1]
  <2>1. free \in [Pages -> Int] /\ ptr \in [Pages -> 1..PageSize + 1]
    BY <1>1 DEF BasicType
  <2> QED BY <1>1, <1>2, <2>1
<1>5. erase' \in [Threads -> Seq(Cookies)]
  <2>1. erase \in [Threads -> Seq(Cookies)]
    BY <1>1 DEF BasicType
  <2>2. Tail(erase[t]) \in Seq(Cookies)
    BY <1>2, <2>1, ToSetTail
  <2> QED BY <1>2, <2>1, <2>2
<1> QED BY <1>1, <1>3, <1>4, <1>5 DEF DeleteEntry, BasicType, listVars, engineVars, crashVars

\* Only the session of the step changes its XID and its cookie.
LEMMA OthersKeep ==
  ASSUME Inv, NEW s \in Sessions, LogStep(s) \/ UnlogStep(s)
  PROVE  \A u \in Sessions \ {s} : xid'[u] = xid[u] /\ cookie'[u] = cookie[u] /\ PageOf(u)' = PageOf(u)
<1>1. BasicType
  BY BasicTypeHolds DEF Inv
<1>2. xid \in [Sessions -> Xids \cup {None}] /\ cookie \in [Sessions -> Cookies]
  BY <1>1 DEF BasicType
<1> SUFFICES \A u \in Sessions \ {s} : xid'[u] = xid[u] /\ cookie'[u] = cookie[u]
  BY DEF PageOf
<1>3. CASE WaitActive(s) \/ WriteActive(s) \/ NoActive(s) \/ TakeFromPool(s)
  BY <1>2, <1>3 DEF WaitActive, WriteActive, NoActive, TakeFromPool, TakeXid, Store
<1>4. CASE \/ PoolExhausted(s) \/ Overflow(s) \/ SyncNow(s) \/ SyncLater(s) \/ WaitOn(s)
           \/ TakeSyncing(s) \/ Deactivate(s) \/ Sync(s)
  BY <1>4 DEF PoolExhausted, Overflow, SyncNow, SyncLater, WaitOn, TakeSyncing, Deactivate, Sync
<1>5. CASE Enroll(s) \/ SyncedByOther(s) \/ SyncDone(s)
  <2>1. Logs(s) \/ Fails(s) \/ (xid' = xid /\ cookie' = cookie)
    <3>1. TypeOK
      BY DEF Inv
    <3>2. CASE Enroll(s)
      BY <3>1, <3>2, EnrollCases
    <3>3. CASE SyncedByOther(s)
      BY <3>1, <3>3, SyncedByOtherCases
    <3>4. CASE SyncDone(s)
      BY <3>1, <3>4, SyncDoneCases
    <3> QED BY <1>5, <3>2, <3>3, <3>4
  <2> QED BY <1>2, <2>1 DEF Logs, Fails
<1>6. CASE UnlogStep(s)
  BY <1>2, <1>6 DEF UnlogStep, UnlogKeep, UnlogFull, NotifyOwn, Forget
<1> QED BY <1>3, <1>4, <1>5, <1>6 DEF LogStep

\* Where the session of the step goes.
LEMMA PcStep ==
  ASSUME TypeOK, NEW s \in Sessions
  PROVE  /\ WaitActive(s) => pc[s] \in {"idle", "log"} /\ pc'[s] = "wait_active"
         /\ WriteActive(s) => pc[s] \in {"idle", "log"} /\ pc'[s] = "written"
         /\ NoActive(s) => pc[s] \in {"idle", "log"} /\ pc'[s] = "pool"
         /\ TakeFromPool(s) => pc[s] = "pool" /\ pc'[s] = "written"
         /\ PoolExhausted(s) => pc[s] = "pool" /\ pc'[s] = "overflow"
         /\ Overflow(s) => pc[s] = "overflow" /\ pc'[s] = "wait_pool"
         /\ SyncNow(s) => pc[s] = "written" /\ pc'[s] = "msync"
         /\ SyncLater(s) => pc[s] = "written" /\ pc'[s] = "enroll"
         /\ Enroll(s) => pc[s] = "enroll" /\ pc'[s] \in {"wait_sync", "logged", "idle"}
         /\ WaitOn(s) => pc[s] = "wake_sync" /\ pc'[s] = "wait_sync"
         /\ SyncedByOther(s) => pc[s] = "wake_sync" /\ pc'[s] \in {"logged", "idle"}
         /\ TakeSyncing(s) => pc[s] = "wake_sync" /\ pc'[s] = "deactivate"
         /\ Deactivate(s) => pc[s] = "deactivate" /\ pc'[s] = "msync"
         /\ Sync(s) => pc[s] = "msync" /\ pc'[s] \in {"synced", "sync_error"}
         /\ SyncDone(s) => pc[s] \in {"synced", "sync_error"} /\ pc'[s] \in {"logged", "idle"}
         /\ UnlogKeep(s) => pc[s] = "logged" /\ pc'[s] = "idle"
         /\ UnlogFull(s) => pc[s] = "logged" /\ pc'[s] = "notify"
         /\ NotifyOwn(s) => pc[s] = "notify" /\ pc'[s] \in {"erase", "idle"}
<1>1. pc \in [Sessions -> PcValues]
  BY DEF TypeOK
<1>2. WaitActive(s) \/ WriteActive(s) \/ NoActive(s) => pc[s] \in {"idle", "log"}
  BY DEF WaitActive, WriteActive, NoActive, MayLog
<1>3. /\ WaitActive(s) => pc'[s] = "wait_active"
      /\ WriteActive(s) => pc'[s] = "written"
      /\ NoActive(s) => pc'[s] = "pool"
      /\ TakeFromPool(s) => pc[s] = "pool" /\ pc'[s] = "written"
      /\ PoolExhausted(s) => pc[s] = "pool" /\ pc'[s] = "overflow"
      /\ Overflow(s) => pc[s] = "overflow" /\ pc'[s] = "wait_pool"
  BY <1>1 DEF WaitActive, WriteActive, NoActive, TakeFromPool, PoolExhausted, Overflow
<1>4. /\ SyncNow(s) => pc[s] = "written" /\ pc'[s] = "msync"
      /\ Deactivate(s) => pc[s] = "deactivate" /\ pc'[s] = "msync"
  BY <1>1 DEF SyncNow, Deactivate, WakeActive
<1>5. /\ SyncLater(s) => pc[s] = "written" /\ pc'[s] = "enroll"
      /\ WaitOn(s) => pc[s] = "wake_sync" /\ pc'[s] = "wait_sync"
      /\ TakeSyncing(s) => pc[s] = "wake_sync" /\ pc'[s] = "deactivate"
  BY <1>1 DEF SyncLater, WaitOn, TakeSyncing
<1>6. Enroll(s) => pc[s] = "enroll" /\ pc'[s] \in {"wait_sync", "logged", "idle"}
  <2>1. Enroll(s) => pc[s] = "enroll"
    BY DEF Enroll
  <2> QED BY <1>1, <2>1, EnrollCases DEF Logs, Fails
<1>7. SyncedByOther(s) => pc[s] = "wake_sync" /\ pc'[s] \in {"logged", "idle"}
  BY SyncedByOtherCases DEF Logs, Fails
<1>8. Sync(s) => pc[s] = "msync" /\ pc'[s] \in {"synced", "sync_error"}
  BY <1>1 DEF Sync, WakePool
<1>9. SyncDone(s) => pc[s] \in {"synced", "sync_error"} /\ pc'[s] \in {"logged", "idle"}
  BY SyncDoneCases DEF Logs, Fails
<1>10. /\ UnlogKeep(s) => pc[s] = "logged" /\ pc'[s] = "idle"
       /\ UnlogFull(s) => pc[s] = "logged" /\ pc'[s] = "notify"
       /\ NotifyOwn(s) => pc[s] = "notify" /\ pc'[s] \in {"erase", "idle"}
  BY <1>1 DEF UnlogKeep, UnlogFull, NotifyOwn
<1> QED BY <1>2, <1>3, <1>4, <1>5, <1>6, <1>7, <1>8, <1>9, <1>10

-----------------------------------------------------------------------------
(* Locks and lists                                                         *)

LEMMA StorePage ==
  ASSUME TypeOK, NEW s \in Sessions, NEW p, Store(s, p)
  PROVE  PageOf(s)' = p
  BY DEF TypeOK, Store, PageOf

LEMMA PageOfType ==
  ASSUME TypeOK
  PROVE  None \notin Pages /\ \A u \in Sessions : PageOf(u) \in Pages
<1>1. None \notin Pages
  BY MmapAssumption DEF None, Pages
<1>2. cookie \in [Sessions -> Cookies]
  BY DEF TypeOK
<1> QED BY <1>1, <1>2, CookieParts DEF PageOf

LEMMA LockStep ==
  ASSUME Inv, NEW s \in Sessions, LogStep(s) \/ UnlogStep(s)
  PROVE  LockInv'
<1>1. /\ TypeOK /\ LockInv /\ "nobody" \notin Sessions
      /\ pc \in [Sessions -> PcValues] /\ pc' \in [Sessions -> PcValues]
  BY OthersWoken, MmapAssumption DEF Inv, TypeOK
<1>2. \A u \in Sessions \ {s} : Woken(u) /\ PageOf(u)' = PageOf(u)
  BY <1>1, OthersWoken, OthersKeep
<1>3. CASE WaitActive(s) \/ PoolExhausted(s) \/ Overflow(s) \/ WaitOn(s) \/ UnlogStep(s)
  <2>1. /\ lockActive' = lockActive /\ active' = active /\ lockSync' = lockSync
        /\ syncing' = syncing
    BY <1>3 DEF WaitActive, PoolExhausted, Overflow, WaitOn, UnlogStep, UnlogKeep,
                UnlogFull, NotifyOwn, listVars
  <2>2. \/ pc'[s] \in {"wait_active", "wait_sync", "idle", "notify", "erase"}
        \/ pc[s] \in {"pool", "overflow"} /\ pc'[s] \in {"overflow", "wait_pool"}
    BY <1>1, <1>3, PcStep DEF UnlogStep
  <2> QED BY <1>1, <1>2, <2>1, <2>2 DEF LockInv, Woken
<1>4. CASE WriteActive(s) \/ NoActive(s)
  <2>1. /\ lockActive = Nobody /\ lockActive' = s /\ active' = active
        /\ lockSync' = lockSync /\ syncing' = syncing
        /\ \/ pc'[s] = "written" /\ PageOf(s)' = active
           \/ pc'[s] = "pool" /\ active = None
    BY <1>1, <1>4, PcStep, StorePage DEF WriteActive, NoActive, listVars
  <2> QED BY <1>1, <1>2, <2>1 DEF LockInv, Woken, Nobody
<1>5. CASE TakeFromPool(s)
  <2>1. /\ lockActive' = lockActive /\ PageOf(s)' = active'
        /\ lockSync' = lockSync /\ syncing' = syncing
        /\ pc[s] = "pool" /\ pc'[s] = "written"
    BY <1>1, <1>5, PcStep, StorePage DEF TakeFromPool
  <2> QED BY <1>1, <1>2, <2>1 DEF LockInv, Woken
<1>6. CASE SyncNow(s) \/ SyncLater(s)
  <2>1. /\ lockActive' = Nobody /\ lockSync = Nobody /\ pc[s] = "written"
        /\ \/ pc'[s] = "msync"
           \/ pc'[s] = "enroll" /\ lockSync' = s /\ syncing' # None
    BY <1>1, <1>6, PcStep DEF SyncNow, SyncLater, listVars
  <2> QED BY <1>1, <1>2, <2>1 DEF LockInv, Woken, Nobody
<1>7. CASE Enroll(s)
  <2>1. /\ lockActive' = lockActive /\ active' = active /\ syncing' = syncing
        /\ pc[s] = "enroll" /\ pc'[s] \in {"wait_sync", "logged", "idle"}
    BY <1>1, <1>7, PcStep DEF Enroll, listVars
  <2> QED BY <1>1, <1>2, <2>1 DEF LockInv, Woken
<1>8. CASE SyncedByOther(s) \/ TakeSyncing(s) \/ SyncDone(s)
  <2>1. /\ lockActive' = lockActive /\ active' = active /\ lockSync = Nobody
        /\ pc'[s] \in {"deactivate", "logged", "idle"}
    BY <1>1, <1>8, PcStep DEF SyncedByOther, TakeSyncing, SyncDone, listVars
  <2> QED BY <1>1, <1>2, <2>1 DEF LockInv, Woken, Nobody
<1>9. CASE Deactivate(s)
  <2>1. /\ lockActive = Nobody /\ lockSync' = lockSync /\ syncing' = syncing /\ pc'[s] = "msync"
    BY <1>1, <1>9, PcStep DEF Deactivate
  <2> QED BY <1>1, <1>2, <2>1 DEF LockInv, Woken, Nobody
<1>10. CASE Sync(s)
  <2>1. /\ lockActive' = lockActive /\ active' = active /\ lockSync' = lockSync
        /\ syncing' = syncing /\ pc'[s] \in {"synced", "sync_error"}
    BY <1>1, <1>10, PcStep DEF Sync
  <2> QED BY <1>1, <1>2, <2>1 DEF LockInv, Woken
<1> QED BY <1>3, <1>4, <1>5, <1>6, <1>7, <1>8, <1>9, <1>10 DEF LogStep

LEMMA SyncerStep ==
  ASSUME Inv, NEW s \in Sessions, LogStep(s) \/ UnlogStep(s)
  PROVE  SyncerInv'
<1>1. /\ TypeOK /\ LockInv /\ SyncerInv /\ PoolInv
      /\ pc \in [Sessions -> PcValues] /\ pc' \in [Sessions -> PcValues]
      /\ "nobody" \notin Sessions /\ pool \in Seq(Pages) /\ active \in Pages \cup {None}
      /\ syncing \in Pages \cup {None} /\ None \notin Pages
      /\ \A u \in Sessions : PageOf(u) \in Pages
  BY OthersWoken, PageOfType, MmapAssumption DEF Inv, TypeOK
<1>2. \A u \in Sessions \ {s} :
        /\ PageOf(u)' = PageOf(u) /\ (pc'[u] \in Syncing <=> pc[u] \in Syncing)
        /\ pc[u] \in Syncing => pc'[u] = pc[u]
  BY <1>1, OthersWoken, OthersKeep DEF Woken, Syncing
\* Steps in which no session starts or ends a sync.
<1>3. ASSUME pc[s] \notin Syncing, pc'[s] \notin Syncing, syncing' = syncing,
             \A u \in Sessions : pc[u] = "deactivate" => active' = active,
             \A u \in Sessions : pc[u] = "msync" => active' # syncing /\ syncing \notin ToSet(pool'),
             \A u \in Sessions : pc[u] \in {"synced", "sync_error"} =>
                (syncing \in ToSet(pool) \cup {active} => syncing \in ToSet(pool') \cup {active'})
      PROVE  SyncerInv'
  BY <1>1, <1>2, <1>3 DEF SyncerInv, Syncing
<1>4. CASE \/ WaitActive(s) \/ WriteActive(s) \/ NoActive(s) \/ PoolExhausted(s) \/ Overflow(s)
           \/ SyncLater(s) \/ Enroll(s) \/ WaitOn(s) \/ SyncedByOther(s) \/ UnlogStep(s)
  <2>1. active' = active /\ syncing' = syncing /\ pool' = pool
    BY <1>4 DEF WaitActive, WriteActive, NoActive, PoolExhausted, Overflow, SyncLater, Enroll,
                WaitOn, SyncedByOther, UnlogStep, UnlogKeep, UnlogFull, NotifyOwn, listVars
  <2>2. pc[s] \notin Syncing /\ pc'[s] \notin Syncing
    BY <1>1, <1>4, PcStep DEF Syncing, UnlogStep
  <2> QED BY <1>1, <1>3, <2>1, <2>2 DEF SyncerInv, Syncing
<1>5. CASE TakeFromPool(s)
  <2> DEFINE p == pool[BestPool]
  <2>1. /\ active' = p /\ syncing' = syncing /\ pc[s] = "pool" /\ pc'[s] = "written"
        /\ BestPool \in 1..Len(pool) /\ pool' = RemoveAt(pool, BestPool) /\ p \in Pages
    BY <1>1, <1>5, PcStep, BestPoolUsable DEF TakeFromPool
  <2>2. ToSet(pool') = ToSet(pool) \ {p} /\ p \in ToSet(pool)
    <3>1. ToSet(pool') = ToSet(pool) \ {p}
      BY <1>1, <2>1, ToSetRemoveAt DEF PoolInv
    <3>2. p \in ToSet(pool)
      BY <1>1, <2>1 DEF ToSet
    <3> QED BY <3>1, <3>2
  <2>3. active = None
    BY <1>1, <2>1 DEF LockInv
  <2> HIDE DEF p
  <2>4. \A u \in Sessions : pc[u] # "deactivate"
    BY <1>1, <2>3 DEF SyncerInv, Syncing
  <2> QED BY <1>1, <1>3, <2>1, <2>2, <2>3, <2>4 DEF SyncerInv, Syncing
<1>6. CASE SyncNow(s)
  <2>1. /\ syncing = None /\ syncing' = PageOf(s) /\ active' = None /\ pool' = pool
        /\ pc[s] = "written" /\ pc'[s] = "msync" /\ PageOf(s)' = PageOf(s)
    BY <1>1, <1>6, PcStep DEF SyncNow, PageOf
  <2>2. \A u \in Sessions : pc[u] \notin Syncing
    BY <1>1, <2>1 DEF SyncerInv
  <2>3. PageOf(s) \notin ToSet(pool)
    BY <1>1, <2>1 DEF LockInv, PoolInv
  <2> QED BY <1>1, <1>2, <2>1, <2>2, <2>3 DEF SyncerInv, Syncing
<1>7. CASE TakeSyncing(s)
  <2>1. /\ syncing = None /\ syncing' = PageOf(s) /\ active' = active /\ pool' = pool
        /\ pc'[s] = "deactivate" /\ PageOf(s)' = PageOf(s) /\ state[PageOf(s)] = "dirty"
    BY <1>1, <1>7, PcStep DEF TakeSyncing, PageOf
  <2>2. \A u \in Sessions : pc[u] \notin Syncing
    BY <1>1, <2>1 DEF SyncerInv
  <2>3. active = PageOf(s)
    BY <1>1, <2>1 DEF PoolInv
  <2> QED BY <1>1, <1>2, <2>1, <2>2, <2>3 DEF SyncerInv, Syncing
<1>8. CASE Deactivate(s)
  <2>1. /\ syncing' = syncing /\ active' = None /\ pool' = pool
        /\ pc[s] = "deactivate" /\ pc'[s] = "msync" /\ PageOf(s)' = PageOf(s)
    BY <1>1, <1>8, PcStep DEF Deactivate, PageOf
  <2>2. active = syncing /\ syncing = PageOf(s) /\ syncing \notin ToSet(pool)
    BY <1>1, <2>1 DEF SyncerInv, Syncing, PoolInv
  <2> QED BY <1>1, <1>2, <2>1, <2>2 DEF SyncerInv, Syncing
<1>9. CASE Sync(s)
  <2>1. /\ syncing' = syncing /\ active' = active /\ pool' = Append(pool, syncing)
        /\ pc[s] = "msync" /\ pc'[s] \in {"synced", "sync_error"} /\ PageOf(s)' = PageOf(s)
    BY <1>1, <1>9, PcStep DEF Sync, PageOf
  <2>2. syncing = PageOf(s)
    BY <1>1, <2>1 DEF SyncerInv, Syncing
  <2>3. syncing \in ToSet(pool')
    BY <1>1, <2>1, <2>2, ToSetAppend
  <2> QED BY <1>1, <1>2, <2>1, <2>2, <2>3 DEF SyncerInv, Syncing
<1>10. CASE SyncDone(s)
  <2>1. syncing' = None /\ pc[s] \in Syncing /\ pc'[s] \notin Syncing
    BY <1>1, <1>10, PcStep DEF SyncDone, Syncing
  <2> QED BY <1>1, <1>2, <2>1 DEF SyncerInv
<1> QED BY <1>4, <1>5, <1>6, <1>7, <1>8, <1>9, <1>10 DEF LogStep

LEMMA PoolStep ==
  ASSUME Inv, NEW s \in Sessions, LogStep(s) \/ UnlogStep(s)
  PROVE  PoolInv'
<1>1. /\ TypeOK /\ LockInv /\ SyncerInv /\ PoolInv
      /\ pool \in Seq(Pages) /\ active \in Pages \cup {None}
      /\ state \in [Pages -> {"pool", "error", "dirty"}]
      /\ syncing \in Pages \cup {None} /\ None \notin Pages
      /\ PageOf(s) \in Pages
  BY PageOfType DEF Inv, TypeOK
<1>2. ToSet(pool) \subseteq Pages
  BY <1>1, ToSetElement
<1>3. CASE \/ WaitActive(s) \/ NoActive(s) \/ PoolExhausted(s) \/ Overflow(s)
           \/ SyncLater(s) \/ Enroll(s) \/ WaitOn(s) \/ SyncedByOther(s) \/ UnlogStep(s)
  <2>1. active' = active /\ syncing' = syncing /\ pool' = pool /\ state' = state
    BY <1>3 DEF WaitActive, NoActive, PoolExhausted, Overflow, SyncLater, Enroll,
                WaitOn, SyncedByOther, UnlogStep, UnlogKeep, UnlogFull, NotifyOwn, listVars, pageVars
  <2> QED BY <1>1, <2>1 DEF PoolInv
<1>4. CASE WriteActive(s)
  <2>1. /\ active' = active /\ syncing' = syncing /\ pool' = pool
        /\ state' = [state EXCEPT ![active] = "dirty"]
    BY <1>4 DEF WriteActive, Store, listVars
  <2> QED BY <1>1, <1>2, <2>1 DEF PoolInv
<1>5. CASE TakeFromPool(s)
  <2> DEFINE p == pool[BestPool]
  <2>1. /\ active' = p /\ syncing' = syncing /\ pc[s] = "pool"
        /\ BestPool \in 1..Len(pool) /\ pool' = RemoveAt(pool, BestPool) /\ p \in Pages
        /\ state' = [state EXCEPT ![p] = "dirty"]
    BY <1>1, <1>5, BestPoolUsable DEF TakeFromPool, Store
  <2>2. ToSet(pool') = ToSet(pool) \ {p} /\ IsInjective(pool')
    BY <1>1, <2>1, ToSetRemoveAt DEF PoolInv
  <2>3. active = None
    BY <1>1, <2>1 DEF LockInv
  <2> HIDE DEF p
  <2> QED BY <1>1, <1>2, <2>1, <2>2, <2>3 DEF PoolInv
<1>6. CASE SyncNow(s)
  <2>1. /\ syncing = None /\ syncing' = PageOf(s) /\ active' = None /\ pool' = pool
        /\ pc[s] = "written" /\ state' = state
    BY <1>6 DEF SyncNow, pageVars
  <2>2. active = PageOf(s)
    BY <1>1, <2>1 DEF LockInv
  <2> QED BY <1>1, <1>2, <2>1, <2>2 DEF PoolInv
<1>7. CASE TakeSyncing(s)
  <2>1. /\ syncing = None /\ active' = active /\ pool' = pool /\ state' = state
    BY <1>7 DEF TakeSyncing
  <2> QED BY <1>1, <1>2, <2>1 DEF PoolInv
<1>8. CASE Deactivate(s)
  <2>1. /\ syncing' = syncing /\ active' = None /\ pool' = pool /\ state' = state
        /\ pc[s] = "deactivate"
    BY <1>8 DEF Deactivate, pageVars
  <2>2. active = syncing
    BY <1>1, <2>1 DEF SyncerInv, Syncing
  <2> QED BY <1>1, <1>2, <2>1, <2>2 DEF PoolInv
<1>9. CASE Sync(s)
  <2>1. /\ syncing' = syncing /\ active' = active /\ pool' = Append(pool, syncing)
        /\ pc[s] = "msync"
        /\ state' \in {[state EXCEPT ![syncing] = "pool"], [state EXCEPT ![syncing] = "error"]}
    BY <1>9 DEF Sync
  <2>2. syncing = PageOf(s) /\ active # syncing /\ syncing \notin ToSet(pool)
    BY <1>1, <2>1 DEF SyncerInv, Syncing
  <2>3. ToSet(pool') = ToSet(pool) \cup {syncing} /\ IsInjective(pool')
    BY <1>1, <2>1, <2>2, ToSetAppend DEF PoolInv
  <2> QED BY <1>1, <1>2, <2>1, <2>2, <2>3 DEF PoolInv
<1>10. CASE SyncDone(s)
  <2>1. /\ active' = active /\ pool' = pool /\ state' = state
        /\ pc[s] \in {"synced", "sync_error"} /\ syncing' = None
    BY <1>10 DEF SyncDone, pageVars
  <2>2. syncing \in ToSet(pool) \cup {active}
    BY <1>1, <2>1 DEF SyncerInv, Syncing
  <2> QED BY <1>1, <1>2, <2>1, <2>2 DEF PoolInv
<1> QED BY <1>3, <1>4, <1>5, <1>6, <1>7, <1>8, <1>9, <1>10 DEF LogStep

-----------------------------------------------------------------------------
(* Slots                                                                   *)

\* What a session does that writes its XID to slot i of page p.
StoredAt(s, p, i) ==
  /\ i \in Area(p) /\ slot[p][i] = 0
  /\ \A j \in 1..i : j < i => slot[p][j] # 0
  /\ slot' = [slot EXCEPT ![p][i] = xid'[s]]
  /\ ptr' = [ptr EXCEPT ![p] = i + 1]
  /\ free' = [free EXCEPT ![p] = @ - 1]
  /\ state' = [state EXCEPT ![p] = "dirty"]
  /\ cookie' = [cookie EXCEPT ![s] = <<p, i>>]
  /\ waiters' = waiters /\ xid'[s] \in Xids

LEMMA Stored ==
  ASSUME Inv, NEW s \in Sessions, WriteActive(s) \/ TakeFromPool(s)
  PROVE  \E p \in Pages, i \in 1..PageSize : StoredAt(s, p, i)
<1>1. BasicType /\ TypeOK
  BY BasicTypeHolds DEF Inv
<1>2. xid'[s] = XidOf(s) /\ XidOf(s) \in Xids
  <2>1. CASE WriteActive(s)
    <3>1. XidOf(s) \in Xids /\ xid' = [xid EXCEPT ![s] = XidOf(s)]
      BY <2>1, XidTaken DEF WriteActive
    <3> QED BY <1>1, <3>1 DEF BasicType
  <2>2. CASE TakeFromPool(s)
    BY <1>1, <2>2 DEF TakeFromPool, XidOf, Inv, XidInv, Carrying, PcValues, BasicType
  <2> QED BY <2>1, <2>2
<1>3. \E p \in Pages : free[p] > 0 /\ Store(s, p)
  <2>1. CASE WriteActive(s)
    BY <1>1, <2>1 DEF WriteActive, BasicType
  <2>2. CASE TakeFromPool(s)
    BY <1>1, <2>2, BestPoolUsable DEF TakeFromPool
  <2> QED BY <2>1, <2>2
<1>4. PICK p \in Pages : free[p] > 0 /\ Store(s, p)
  BY <1>3
<1>5. PICK i \in Area(p) :
           /\ i \in 1..PageSize /\ slot[p][i] = 0
           /\ \A j \in 1..i : j < i => slot[p][j] # 0
           /\ slot' = [slot EXCEPT ![p][i] = XidOf(s)]
           /\ ptr' = [ptr EXCEPT ![p] = i + 1]
           /\ free' = [free EXCEPT ![p] = @ - 1]
           /\ state' = [state EXCEPT ![p] = "dirty"]
           /\ cookie' = [cookie EXCEPT ![s] = <<p, i>>]
           /\ waiters' = waiters
  BY <1>2, <1>4, StoreFacts
<1>6. StoredAt(s, p, i)
  BY <1>2, <1>5 DEF StoredAt
<1> QED BY <1>5, <1>6

\* The pages change in three kinds of steps only.
LEMMA PagesKept ==
  ASSUME NEW s \in Sessions, LogStep(s) \/ UnlogStep(s)
  PROVE  \/ WriteActive(s) \/ TakeFromPool(s) \/ Sync(s)
         \/ slot' = slot /\ ptr' = ptr /\ free' = free /\ state' = state /\ disk' = disk
<1> USE DEF pageVars
<1>1. CASE \/ WaitActive(s) \/ NoActive(s) \/ PoolExhausted(s) \/ Overflow(s)
           \/ SyncNow(s) \/ SyncLater(s) \/ Enroll(s)
  BY <1>1 DEF WaitActive, NoActive, PoolExhausted, Overflow, SyncNow, SyncLater, Enroll
<1>2. CASE \/ WaitOn(s) \/ SyncedByOther(s) \/ TakeSyncing(s) \/ Deactivate(s) \/ SyncDone(s)
  BY <1>2 DEF WaitOn, SyncedByOther, TakeSyncing, Deactivate, SyncDone
<1>3. CASE UnlogStep(s)
  BY <1>3 DEF UnlogStep, UnlogKeep, UnlogFull, NotifyOwn
<1> QED BY <1>1, <1>2, <1>3 DEF LogStep

LEMMA EmptySlotsFinite ==
  ASSUME NEW p \in Pages, NEW f
  PROVE  IsFiniteSet({i \in Area(p) : f[i] = 0})
<1>1. Start(p) \in Int /\ PageSize \in Int
  BY MmapAssumption DEF Start
<1>2. IsFiniteSet(Area(p))
  BY <1>1, FS_Interval DEF Area
<1> QED BY <1>2, FS_Subset

LEMMA SlotStep ==
  ASSUME Inv, NEW s \in Sessions, LogStep(s) \/ UnlogStep(s)
  PROVE  SlotInv' /\ CleanInv'
<1>1. /\ SlotInv /\ CleanInv /\ PageSize \in Nat /\ 1 \in Pages
      /\ slot \in [Pages -> [1..PageSize -> Xids \cup {0, Header}]]
      /\ disk \in [Pages -> [1..PageSize -> Xids \cup {0, Header}]]
      /\ ptr \in [Pages -> 1..PageSize + 1] /\ free \in [Pages -> 0..PageSize]
      /\ state \in [Pages -> {"pool", "error", "dirty"}]
  <2>1. PageSize \in Nat /\ 1 \in Pages
    BY MmapAssumption DEF Pages
  <2> QED BY <2>1 DEF Inv, TypeOK
<1>2. CASE slot' = slot /\ ptr' = ptr /\ free' = free /\ state' = state /\ disk' = disk
  BY <1>1, <1>2 DEF SlotInv, SlotAccounting, CleanInv
<1>3. CASE Sync(s)
  <2>1. slot' = slot /\ ptr' = ptr /\ free' = free /\ pc[s] = "msync"
    BY <1>3 DEF Sync
  <2>2. \/ disk' = [disk EXCEPT ![syncing] = slot[syncing]] /\ state' = [state EXCEPT ![syncing] = "pool"]
        \/ disk' = disk /\ state' = [state EXCEPT ![syncing] = "error"]
    BY <1>3 DEF Sync
  <2>3. SlotInv'
    BY <1>1, <2>1 DEF SlotInv, SlotAccounting
  <2>4. CleanInv'
    <3> SUFFICES ASSUME NEW p \in Pages, state'[p] = "pool", NEW i \in 1..PageSize
                 PROVE  slot[p][i] \in {0, disk'[p][i]}
      BY <2>1 DEF CleanInv
    <3>1. CASE p = syncing
      BY <1>1, <2>2, <3>1
    <3>2. CASE p # syncing
      <4>1. state[p] = "pool" /\ disk'[p] = disk[p]
        BY <1>1, <2>2, <3>2
      <4> QED BY <1>1, <4>1 DEF CleanInv
    <3> QED BY <3>1, <3>2
  <2> QED BY <2>3, <2>4
<1>4. CASE WriteActive(s) \/ TakeFromPool(s)
  <2>a. PICK p \in Pages, i \in 1..PageSize : StoredAt(s, p, i)
    BY <1>4, Stored
  <2>1. /\ i \in Area(p) /\ slot[p][i] = 0
        /\ \A j \in 1..i : j < i => slot[p][j] # 0
        /\ slot' = [slot EXCEPT ![p][i] = xid'[s]]
        /\ ptr' = [ptr EXCEPT ![p] = i + 1]
        /\ free' = [free EXCEPT ![p] = @ - 1]
        /\ state' = [state EXCEPT ![p] = "dirty"]
        /\ xid'[s] \in Xids
    BY <2>a DEF StoredAt
  <2>2. disk' = disk
    BY <1>4 DEF WriteActive, TakeFromPool
  <2>3. CleanInv'
    BY <1>1, <2>1, <2>2 DEF CleanInv
  <2>4. xid'[s] # 0 /\ xid'[s] \in Xids
    BY <2>1, MmapAssumption DEF Xids
  <2>5. slot'[1][1] = Header
    <3>1. ~ (p = 1 /\ i = 1)
      BY <1>1, <2>1 DEF Area, Start
    <3> QED BY <1>1, <2>1, <3>1 DEF SlotInv
  <2>6. ASSUME NEW q \in Pages
        PROVE  /\ free'[q] = Cardinality({j \in Area(q) : slot'[q][j] = 0})
               /\ \A j \in 1..ptr'[q] - 1 : slot'[q][j] # 0
    <3>1. CASE q # p
      <4>1. slot'[q] = slot[q] /\ ptr'[q] = ptr[q] /\ free'[q] = free[q]
        BY <1>1, <2>1, <3>1
      <4> QED BY <1>1, <4>1 DEF SlotInv, SlotAccounting
    <3>2. CASE q = p
      <4> DEFINE E == {j \in Area(p) : slot[p][j] = 0}
                 F == {j \in Area(p) : slot'[p][j] = 0}
      <4>1. /\ slot'[p] = [slot[p] EXCEPT ![i] = xid'[s]] /\ ptr'[p] = i + 1
            /\ free'[p] = free[p] - 1 /\ slot[p] \in [1..PageSize -> Xids \cup {0, Header}]
        BY <1>1, <2>1
      <4>2. F = E \ {i} /\ i \in E
        <5>1. Area(p) \subseteq 1..PageSize
          BY <1>1 DEF Area, Start
        <5> QED BY <1>1, <2>1, <2>4, <4>1, <5>1
      <4>3. IsFiniteSet(E)
        BY EmptySlotsFinite
      <4>4. free[p] = Cardinality(E)
        BY <1>1 DEF SlotInv, SlotAccounting
      <4>5. Cardinality(F) = Cardinality(E) - 1
        <5> HIDE DEF E, F
        <5> QED BY <4>2, <4>3, FS_RemoveElement
      <4>6. \A j \in 1..ptr'[p] - 1 : slot'[p][j] # 0
        BY <1>1, <2>1, <2>4, <4>1
      <4> QED BY <3>2, <4>1, <4>4, <4>5, <4>6
    <3> QED BY <3>1, <3>2
  <2>7. SlotInv'
    BY <2>5, <2>6 DEF SlotInv, SlotAccounting, Area, Start
  <2> QED BY <2>3, <2>7
<1> QED BY <1>2, <1>3, <1>4, PagesKept

\* The bound of PAGE::free follows from what it counts.
LEMMA FreeBound ==
  ASSUME SlotAccounting
  PROVE  \A p \in Pages : free[p] \in 0..PageSize
<1> TAKE p \in Pages
<1>1. PageSize \in Nat /\ Start(p) \in {1, 2}
  BY MmapAssumption DEF Start
<1>2. IsFiniteSet(1..PageSize) /\ Cardinality(1..PageSize) = PageSize
  BY <1>1, FS_Interval
<1>3. {i \in Area(p) : slot[p][i] = 0} \subseteq 1..PageSize
  BY <1>1 DEF Area
<1>4. free[p] = Cardinality({i \in Area(p) : slot[p][i] = 0})
  BY DEF SlotAccounting
<1> DEFINE E == {i \in Area(p) : slot[p][i] = 0}
<1> HIDE DEF E
<1>5. IsFiniteSet(E) /\ Cardinality(E) <= Cardinality(1..PageSize)
  BY <1>2, <1>3, FS_Subset DEF E
<1>6. Cardinality(E) \in Nat
  BY <1>5, FS_CardinalityType
<1> QED BY <1>1, <1>2, <1>4, <1>5, <1>6 DEF E

-----------------------------------------------------------------------------
(* Waiters                                                                 *)

LEMMA WaitersFinite ==
  /\ \A p \in Pages : IsFiniteSet(WaitersOf(p))
  /\ WaiterInv => \A p \in Pages : waiters[p] \in 0..Cardinality(Sessions)
<1>1. ASSUME NEW p \in Pages
      PROVE  /\ IsFiniteSet(WaitersOf(p)) /\ Cardinality(WaitersOf(p)) \in Nat
             /\ Cardinality(WaitersOf(p)) <= Cardinality(Sessions)
  <2>1. WaitersOf(p) \subseteq Sessions /\ IsFiniteSet(Sessions)
    BY MmapAssumption DEF WaitersOf
  <2> QED BY <2>1, FS_Subset, FS_CardinalityType
<1>2. Cardinality(Sessions) \in Nat
  BY MmapAssumption, FS_CardinalityType
<1> QED BY <1>1, <1>2 DEF WaiterInv

LEMMA WaiterStep ==
  ASSUME Inv, NEW s \in Sessions, LogStep(s) \/ UnlogStep(s)
  PROVE  WaiterInv'
<1> DEFINE W == {"wait_sync", "wake_sync"}
<1>1. /\ TypeOK /\ WaiterInv /\ pc \in [Sessions -> PcValues] /\ PageOf(s) \in Pages
      /\ waiters \in [Pages -> 0..Cardinality(Sessions)]
  BY PageOfType DEF Inv, TypeOK
<1>2. Cardinality(Sessions) \in Nat
  BY MmapAssumption, FS_CardinalityType
<1>3. \A u \in Sessions \ {s} : (pc'[u] \in W <=> pc[u] \in W) /\ PageOf(u)' = PageOf(u)
  BY OthersWoken, OthersKeep DEF Inv, Woken
<1>4. ASSUME waiters' = waiters, pc'[s] \in W <=> pc[s] \in W,
             pc[s] \in W => PageOf(s)' = PageOf(s)
      PROVE  WaiterInv'
  <2>1. \A p \in Pages : WaitersOf(p)' = WaitersOf(p)
    BY <1>3, <1>4 DEF WaitersOf
  <2> QED BY <1>1, <1>4, <2>1 DEF WaiterInv
<1>5. ASSUME waiters' = [waiters EXCEPT ![PageOf(s)] = @ + 1], pc[s] \notin W, pc'[s] \in W,
             PageOf(s)' = PageOf(s)
      PROVE  WaiterInv'
  <2> SUFFICES ASSUME NEW p \in Pages PROVE waiters'[p] = Cardinality(WaitersOf(p)')
    BY DEF WaiterInv
  <2>1. CASE p # PageOf(s)
    <3>1. WaitersOf(p)' = WaitersOf(p)
      BY <1>3, <1>5, <2>1 DEF WaitersOf
    <3> QED BY <1>1, <1>5, <2>1, <3>1 DEF WaiterInv
  <2>2. CASE p = PageOf(s)
    <3>1. WaitersOf(p)' = WaitersOf(p) \cup {s} /\ s \notin WaitersOf(p)
      BY <1>3, <1>5, <2>2 DEF WaitersOf
    <3>2. Cardinality(WaitersOf(p)') = Cardinality(WaitersOf(p)) + 1
      BY <3>1, WaitersFinite, FS_AddElement
    <3>3. waiters'[p] = waiters[p] + 1
      BY <1>1, <1>5, <2>2
    <3> QED BY <1>1, <3>2, <3>3 DEF WaiterInv
  <2> QED BY <2>1, <2>2
<1>6. ASSUME waiters' = [waiters EXCEPT ![PageOf(s)] = @ - 1], pc[s] \in W, pc'[s] \notin W
      PROVE  WaiterInv'
  <2> SUFFICES ASSUME NEW p \in Pages PROVE waiters'[p] = Cardinality(WaitersOf(p)')
    BY DEF WaiterInv
  <2>1. CASE p # PageOf(s)
    <3>1. WaitersOf(p)' = WaitersOf(p)
      BY <1>3, <1>6, <2>1 DEF WaitersOf
    <3> QED BY <1>1, <1>6, <2>1, <3>1 DEF WaiterInv
  <2>2. CASE p = PageOf(s)
    <3>1. WaitersOf(p)' = WaitersOf(p) \ {s} /\ s \in WaitersOf(p)
      BY <1>3, <1>6, <2>2 DEF WaitersOf
    <3>2. Cardinality(WaitersOf(p)') = Cardinality(WaitersOf(p)) - 1
      BY <3>1, WaitersFinite, FS_RemoveElement
    <3>3. waiters'[p] = waiters[p] - 1
      BY <1>1, <1>6, <2>2
    <3> QED BY <1>1, <3>2, <3>3 DEF WaiterInv
  <2> QED BY <2>1, <2>2
<1>7. CASE \/ WaitActive(s) \/ WriteActive(s) \/ NoActive(s) \/ TakeFromPool(s)
           \/ PoolExhausted(s) \/ Overflow(s)
  <2>1. waiters' = waiters
    BY <1>7 DEF WaitActive, WriteActive, NoActive, TakeFromPool, PoolExhausted, Overflow, Store,
                pageVars
  <2>2. pc[s] \notin W /\ pc'[s] \notin W
    BY <1>1, <1>7, PcStep
  <2> QED BY <1>4, <2>1, <2>2
<1>8. CASE \/ SyncNow(s) \/ SyncLater(s) \/ Deactivate(s) \/ Sync(s) \/ SyncDone(s)
           \/ UnlogStep(s)
  <2>1. waiters' = waiters
    BY <1>8 DEF SyncNow, SyncLater, Deactivate, Sync, SyncDone, UnlogStep, UnlogKeep, UnlogFull,
                NotifyOwn, pageVars
  <2>2. pc[s] \notin W /\ pc'[s] \notin W
    BY <1>1, <1>8, PcStep DEF UnlogStep
  <2> QED BY <1>4, <2>1, <2>2
<1>9. CASE WaitOn(s)
  <2>1. waiters' = waiters /\ PageOf(s)' = PageOf(s)
    BY <1>9 DEF WaitOn, pageVars, PageOf
  <2> QED BY <1>1, <1>4, <1>9, <2>1, PcStep
<1>10. CASE Enroll(s)
  <2>1. pc[s] \notin W
    BY <1>1, <1>10, PcStep
  <2>2. \/ /\ waiters' = [waiters EXCEPT ![PageOf(s)] = @ + 1]
           /\ pc'[s] \in W /\ PageOf(s)' = PageOf(s)
        \/ waiters' = waiters /\ pc'[s] \notin W
    BY <1>1, <1>10, EnrollCases DEF Logs, Fails, PageOf
  <2> QED BY <1>4, <1>5, <2>1, <2>2
<1>11. CASE SyncedByOther(s) \/ TakeSyncing(s)
  <2>1. waiters' = [waiters EXCEPT ![PageOf(s)] = @ - 1]
    BY <1>11 DEF SyncedByOther, TakeSyncing
  <2> QED BY <1>1, <1>6, <1>11, <2>1, PcStep
<1> QED BY <1>7, <1>8, <1>9, <1>10, <1>11 DEF LogStep

\* No wakeup is lost.
LEMMA SleeperStep ==
  ASSUME Inv, NEW s \in Sessions, LogStep(s) \/ UnlogStep(s)
  PROVE  SleeperHasWaker'
<1>1. /\ TypeOK /\ SleeperHasWaker /\ LockInv /\ SyncerInv /\ PoolInv /\ "nobody" \notin Sessions
      /\ state \in [Pages -> {"pool", "error", "dirty"}] /\ pc \in [Sessions -> PcValues]
      /\ None \notin Pages /\ \A u \in Sessions : PageOf(u) \in Pages
  BY PageOfType, MmapAssumption DEF Inv, TypeOK
<1>2. \A u \in Sessions \ {s} : Woken(u) /\ PageOf(u)' = PageOf(u)
  BY <1>1, OthersWoken, OthersKeep
\* Steps that leave sync() and the syncing slot alone.
<1>3. ASSUME syncing' = syncing, pc[s] # "wake_sync", pc'[s] # "wait_sync",
             \A p \in Pages : state'[p] = state[p] \/ (state'[p] = "dirty" /\ p # syncing)
      PROVE  SleeperHasWaker'
  <2> SUFFICES ASSUME NEW u \in Sessions, pc'[u] = "wait_sync"
               PROVE  IF state'[PageOf(u)'] = "dirty"
                      THEN \/ syncing' # None
                           \/ \E w \in Sessions : pc'[w] = "wake_sync" /\ PageOf(w)' = PageOf(u)'
                      ELSE syncing' = PageOf(u)'
    BY DEF SleeperHasWaker
  <2>1. u # s /\ pc[u] = "wait_sync" /\ PageOf(u)' = PageOf(u) /\ PageOf(u) \in Pages
    BY <1>1, <1>2, <1>3 DEF Woken
  <2>2. CASE state'[PageOf(u)] # "dirty"
    BY <1>1, <1>3, <2>1, <2>2 DEF SleeperHasWaker
  <2>3. CASE state'[PageOf(u)] = "dirty" /\ syncing = None
    <3>1. state[PageOf(u)] = "dirty"
      BY <1>1, <1>3, <2>1, <2>3 DEF SleeperHasWaker
    <3>2. PICK w \in Sessions : pc[w] = "wake_sync" /\ PageOf(w) = PageOf(u)
      BY <1>1, <2>1, <2>3, <3>1 DEF SleeperHasWaker
    <3>3. w # s /\ pc'[w] = "wake_sync" /\ PageOf(w)' = PageOf(w)
      BY <1>2, <1>3, <3>2 DEF Woken
    <3> QED BY <2>1, <2>3, <3>2, <3>3
  <2>4. CASE state'[PageOf(u)] = "dirty" /\ syncing # None
    BY <1>3, <2>1, <2>4
  <2> QED BY <2>1, <2>2, <2>3, <2>4
<1>4. CASE \/ WaitActive(s) \/ NoActive(s) \/ PoolExhausted(s) \/ Overflow(s)
           \/ SyncLater(s) \/ Deactivate(s) \/ UnlogStep(s)
  <2>1. syncing' = syncing /\ state' = state
    BY <1>4 DEF WaitActive, NoActive, PoolExhausted, Overflow, SyncLater, Deactivate, UnlogStep,
                UnlogKeep, UnlogFull, NotifyOwn, pageVars, listVars
  <2>2. pc[s] # "wake_sync" /\ pc'[s] # "wait_sync"
    BY <1>1, <1>4, PcStep DEF UnlogStep
  <2> QED BY <1>3, <2>1, <2>2
<1>5. CASE WriteActive(s) \/ TakeFromPool(s)
  <2>1. PICK p \in Pages : state' = [state EXCEPT ![p] = "dirty"]
    BY <1>5, Stored DEF StoredAt
  <2>2. syncing' = syncing /\ pc[s] # "wake_sync" /\ pc'[s] = "written"
    BY <1>1, <1>5, PcStep DEF WriteActive, TakeFromPool, listVars
  <2> SUFFICES ASSUME NEW u \in Sessions, pc'[u] = "wait_sync"
               PROVE  IF state'[PageOf(u)'] = "dirty"
                      THEN \/ syncing' # None
                           \/ \E w \in Sessions : pc'[w] = "wake_sync" /\ PageOf(w)' = PageOf(u)'
                      ELSE syncing' = PageOf(u)'
    BY DEF SleeperHasWaker
  <2>3. u # s /\ pc[u] = "wait_sync" /\ PageOf(u)' = PageOf(u) /\ PageOf(u) \in Pages
    BY <1>1, <1>2, <2>2 DEF Woken
  <2>4. CASE syncing # None
    BY <1>1, <2>1, <2>2, <2>3, <2>4 DEF SleeperHasWaker
  <2>5. CASE syncing = None
    <3>1. state[PageOf(u)] = "dirty"
      BY <1>1, <2>3, <2>5 DEF SleeperHasWaker
    <3>2. PICK w \in Sessions : pc[w] = "wake_sync" /\ PageOf(w) = PageOf(u)
      BY <1>1, <2>3, <2>5, <3>1 DEF SleeperHasWaker
    <3>3. w # s /\ pc'[w] = "wake_sync" /\ PageOf(w)' = PageOf(w)
      BY <1>2, <2>2, <3>2 DEF Woken
    <3>4. state'[PageOf(u)] = "dirty"
      BY <1>1, <2>1, <2>3, <3>1
    <3> QED BY <2>3, <3>2, <3>3, <3>4
  <2> QED BY <2>4, <2>5
<1>6. CASE SyncNow(s) \/ TakeSyncing(s)
  <2>1. syncing = None /\ syncing' # None /\ state' = state /\ pc'[s] # "wait_sync"
    BY <1>1, <1>6, PcStep DEF SyncNow, TakeSyncing, pageVars
  <2> QED BY <1>1, <1>2, <2>1 DEF SleeperHasWaker, Woken
<1>7. CASE Enroll(s)
  <2>1. syncing' = syncing /\ syncing # None /\ state' = state
    BY <1>1, <1>7 DEF Enroll, LockInv, listVars
  <2>2. pc'[s] = "wait_sync" => PageOf(s)' = PageOf(s) /\ state[PageOf(s)] = "dirty"
    BY <1>1, <1>7, EnrollCases DEF Logs, Fails, PageOf
  <2> QED BY <1>1, <1>2, <2>1, <2>2 DEF SleeperHasWaker, Woken
<1>8. CASE WaitOn(s)
  <2>1. syncing' = syncing /\ syncing # None /\ state' = state /\ PageOf(s)' = PageOf(s)
        /\ state[PageOf(s)] = "dirty"
    BY <1>8 DEF WaitOn, pageVars, listVars, PageOf
  <2> QED BY <1>1, <1>2, <2>1 DEF SleeperHasWaker, Woken
\* The page of this session is not dirty: it wakes nobody who needs it.
<1>9. CASE SyncedByOther(s)
  <2>1. syncing' = syncing /\ state' = state /\ state[PageOf(s)] # "dirty" /\ pc'[s] # "wait_sync"
    BY <1>1, <1>9, PcStep DEF SyncedByOther, listVars
  <2> QED BY <1>1, <1>2, <2>1 DEF SleeperHasWaker, Woken
<1>10. CASE Sync(s)
  <2>1. /\ syncing' = syncing /\ pc[s] = "msync" /\ pc'[s] # "wait_sync"
        /\ state' \in {[state EXCEPT ![syncing] = "pool"], [state EXCEPT ![syncing] = "error"]}
    BY <1>1, <1>10, PcStep DEF Sync
  <2>2. syncing # None /\ syncing \in Pages
    BY <1>1, <2>1 DEF SyncerInv, Syncing
  <2> QED BY <1>1, <1>2, <2>1, <2>2 DEF SleeperHasWaker, Woken
<1>11. CASE SyncDone(s)
  <2>1. /\ state' = state /\ syncing' = None /\ pc[s] \in {"synced", "sync_error"}
        /\ pc'[s] \in {"logged", "idle"}
    BY <1>1, <1>11, PcStep DEF SyncDone, pageVars
  <2>2. /\ \A u \in Sessions \ {s} :
             pc[u] = "wait_sync" /\ PageOf(u) = syncing => pc'[u] = "wake_sync"
        /\ \A u \in Sessions \ {s} :
             pc[u] = "wait_sync" /\ PageOf(u) = active =>
               \E w \in Sessions \ {s} : pc'[w] = "wake_sync" /\ PageOf(w) = active
    BY <1>1, <1>11, SyncDoneCases
  <2> SUFFICES ASSUME NEW u \in Sessions, pc'[u] = "wait_sync"
               PROVE  /\ state[PageOf(u)'] = "dirty"
                      /\ \E w \in Sessions : pc'[w] = "wake_sync" /\ PageOf(w)' = PageOf(u)'
    BY <2>1 DEF SleeperHasWaker
  <2>3. u # s /\ pc[u] = "wait_sync" /\ PageOf(u)' = PageOf(u) /\ PageOf(u) \in Pages
    BY <1>1, <1>2, <2>1 DEF Woken
  <2>4. PageOf(u) # syncing
    BY <2>2, <2>3
  <2>5. state[PageOf(u)] = "dirty"
    BY <1>1, <2>3, <2>4 DEF SleeperHasWaker
  <2>6. PageOf(u) = active
    BY <1>1, <2>3, <2>4, <2>5 DEF PoolInv
  <2> QED BY <1>2, <2>2, <2>3, <2>5, <2>6
<1> QED BY <1>4, <1>5, <1>6, <1>7, <1>8, <1>9, <1>10, <1>11 DEF LogStep

-----------------------------------------------------------------------------
(* XIDs                                                                    *)

\* Where a session has an XID that is not in the log for good.
Logging == Carrying \ {"logged", "notify"}

\* What the steps of a session do to its XID.
XidGiven(s) ==
  /\ pc[s] = "idle" /\ pc'[s] \in Logging
  /\ xid' = [xid EXCEPT ![s] = nextXid] /\ nextXid' = nextXid + 1 /\ nextXid \in Xids
  /\ UNCHANGED <<logged, failed, committed, durable, erase>>
XidKept(s) ==
  /\ pc[s] \in Logging /\ pc'[s] \in Logging /\ xid' = xid
  /\ UNCHANGED <<nextXid, logged, failed, committed, durable, erase>>
XidLogged(s) ==
  /\ pc[s] \in Logging /\ Logs(s)
  /\ UNCHANGED <<nextXid, committed, durable, erase>>
XidFailed(s) ==
  /\ pc[s] \in Logging /\ Fails(s)
  /\ UNCHANGED <<nextXid, committed, durable, erase>>
XidCommitted(s) ==
  /\ pc[s] = "logged" /\ Commit(s)
  /\ \/ pc'[s] = "idle" /\ xid' = [xid EXCEPT ![s] = None]
     \/ pc'[s] = "notify" /\ xid' = xid
  /\ UNCHANGED <<nextXid, logged, failed, erase>>
XidNotified(s) ==
  /\ pc[s] = "notify" /\ xid' = [xid EXCEPT ![s] = None] /\ pc'[s] \in {"idle", "erase"}
  /\ erase' = erase \/ (pc'[s] = "erase" /\ erase' = [erase EXCEPT ![s] = full[xid[s]]])
  /\ UNCHANGED <<nextXid, logged, failed, committed, durable>>

LEMMA XidCases ==
  ASSUME Inv, NEW s \in Sessions, LogStep(s) \/ UnlogStep(s)
  PROVE  \/ XidGiven(s) \/ XidKept(s) \/ XidLogged(s) \/ XidFailed(s) \/ XidCommitted(s)
         \/ XidNotified(s)
<1>1. /\ TypeOK /\ xid \in [Sessions -> Xids \cup {None}] /\ nextXid \in 1..MaxXid + 1
      /\ MaxXid \in Nat
  BY MmapAssumption DEF Inv, TypeOK
<1> USE DEF unlogVars, engineVars
<1>2. CASE WaitActive(s) \/ WriteActive(s) \/ NoActive(s)
  <2>1. /\ MayLog(s) /\ TakeXid(s) /\ UNCHANGED <<logged, failed, committed, durable, erase>>
    BY <1>2 DEF WaitActive, WriteActive, NoActive
  <2>2. pc'[s] \in Logging
    BY <1>1, <1>2, PcStep DEF Logging, Carrying, PcValues
  <2>3. CASE pc[s] = "idle"
    <3>1. nextXid \in Xids
      BY <1>1, <2>1, <2>3 DEF MayLog, Xids
    <3> QED BY <2>1, <2>2, <2>3, <3>1 DEF TakeXid, XidOf, XidGiven
  <2>4. CASE pc[s] = "log"
    <3>1. xid' = xid /\ nextXid' = nextXid
      BY <1>1, <2>1, <2>4 DEF TakeXid, XidOf
    <3> QED BY <2>1, <2>2, <2>4, <3>1 DEF XidKept, Logging, Carrying, PcValues
  <2> QED BY <2>1, <2>3, <2>4 DEF MayLog
<1>3. CASE \/ TakeFromPool(s) \/ PoolExhausted(s) \/ Overflow(s) \/ SyncNow(s) \/ SyncLater(s)
           \/ WaitOn(s) \/ TakeSyncing(s) \/ Deactivate(s) \/ Sync(s)
  <2>1. xid' = xid /\ UNCHANGED <<nextXid, logged, failed, committed, durable, erase>>
    BY <1>3 DEF TakeFromPool, PoolExhausted, Overflow, SyncNow, SyncLater, WaitOn, TakeSyncing,
                Deactivate, Sync
  <2>2. pc[s] \in Logging /\ pc'[s] \in Logging
    BY <1>1, <1>3, PcStep DEF Logging, Carrying, PcValues
  <2> QED BY <2>1, <2>2 DEF XidKept
<1>4. CASE Enroll(s) \/ SyncedByOther(s) \/ SyncDone(s)
  <2>1. UNCHANGED <<nextXid, committed, durable, erase>>
    BY <1>4 DEF Enroll, SyncedByOther, SyncDone
  <2>2. pc[s] \in Logging
    BY <1>1, <1>4, PcStep DEF Logging, Carrying, PcValues
  <2>3. \/ Logs(s) \/ Fails(s)
        \/ /\ pc' = [pc EXCEPT ![s] = "wait_sync"]
           /\ logged' = logged /\ failed' = failed /\ xid' = xid
    <3>1. CASE Enroll(s)
      BY <1>1, <3>1, EnrollCases
    <3>2. CASE SyncedByOther(s)
      BY <1>1, <3>2, SyncedByOtherCases
    <3>3. CASE SyncDone(s)
      BY <1>1, <3>3, SyncDoneCases
    <3> QED BY <1>4, <3>1, <3>2, <3>3
  <2>4. pc' = [pc EXCEPT ![s] = "wait_sync"] => pc'[s] \in Logging
    BY <1>1 DEF TypeOK, Logging, Carrying, PcValues
  <2> QED BY <2>1, <2>2, <2>3, <2>4 DEF XidKept, XidLogged, XidFailed
<1>5. CASE UnlogKeep(s) \/ UnlogFull(s)
  BY <1>1, <1>5, PcStep DEF UnlogKeep, UnlogFull, XidCommitted, Forget
<1>6. CASE NotifyOwn(s)
  <2>1. pc[s] = "notify" /\ pc'[s] \in {"idle", "erase"}
    BY <1>1, <1>6, PcStep
  <2>2. pc'[s] = IF count[xid[s]] = 1 THEN "erase" ELSE "idle"
    BY <1>1, <1>6 DEF NotifyOwn, TypeOK
  <2>3. erase' = erase \/ (count[xid[s]] = 1 /\ erase' = [erase EXCEPT ![s] = full[xid[s]]])
    BY <1>6 DEF NotifyOwn, CommitCheckpointNotify
  <2> QED BY <1>6, <2>1, <2>2, <2>3 DEF NotifyOwn, Forget, XidNotified
<1> QED BY <1>2, <1>3, <1>4, <1>5, <1>6 DEF LogStep, UnlogStep

LEMMA XidStep ==
  ASSUME Inv, NEW s \in Sessions, LogStep(s) \/ UnlogStep(s)
  PROVE  XidInv'
<1>1. /\ TypeOK /\ XidInv /\ xid \in [Sessions -> Xids \cup {None}] /\ nextXid \in 1..MaxXid + 1
      /\ MaxXid \in Nat /\ logged \subseteq Xids /\ failed \subseteq Xids /\ committed \subseteq Xids
      /\ pc \in [Sessions -> PcValues] /\ pc' \in [Sessions -> PcValues]
      /\ erase \in [Threads -> Seq(Cookies)] /\ Sessions \subseteq Threads
  BY OthersWoken, MmapAssumption DEF Inv, TypeOK, Threads
<1>0. None = 0 /\ None \notin Xids /\ Xids \subseteq Nat
  BY MmapAssumption DEF None, Xids
<1>2. \A u \in Sessions \ {s} :
        /\ xid'[u] = xid[u] /\ (pc'[u] \in Carrying <=> pc[u] \in Carrying)
        /\ pc'[u] \in {"logged", "notify"} <=> pc[u] \in {"logged", "notify"}
        /\ pc'[u] = "notify" <=> pc[u] = "notify"
        /\ pc[u] = "erase" => pc'[u] = "erase"
  BY <1>1, OthersWoken, OthersKeep DEF Woken, Carrying, PcValues
<1> USE DEF Logging
<1>3. CASE XidGiven(s)
  <2>1. "erase" \notin Carrying /\ "idle" \notin Carrying
    BY DEF Carrying, PcValues
  <2>2. xid'[s] = nextXid /\ nextXid' = nextXid + 1 /\ pc[s] = "idle" /\ pc'[s] \in Logging
        /\ nextXid \in Xids
    BY <1>1, <1>3 DEF XidGiven
  <2>3. UNCHANGED <<logged, failed, committed, durable, erase>>
    BY <1>3 DEF XidGiven
  <2>5. \A u \in Sessions : /\ pc'[u] \in Carrying <=> xid'[u] # None
                            /\ erase'[u] # <<>> => pc'[u] = "erase"
    BY <1>0, <1>1, <1>2, <2>1, <2>2, <2>3 DEF XidInv
  <2>6. \A u, v \in Sessions : xid'[u] = xid'[v] /\ xid'[u] # None => u = v
    BY <1>0, <1>1, <1>2, <2>1, <2>2, <2>3 DEF XidInv
  <2>7. \A u \in Sessions : /\ xid'[u] < nextXid' /\ xid'[u] \notin failed'
                            /\ pc'[u] \in {"logged", "notify"} <=> xid'[u] \in logged'
                            /\ pc'[u] # "notify" => xid'[u] \notin committed'
    <3> TAKE u \in Sessions
    <3>1. \A x \in logged \cup failed \cup committed : x < nextXid
      BY <1>1 DEF XidInv
    <3>2. CASE u = s
      BY <1>0, <1>1, <2>2, <2>3, <3>1, <3>2
    <3>3. CASE u # s
      <4>1. xid'[u] = xid[u] /\ xid[u] \in Nat /\ xid[u] < nextXid
        <5>1. xid[u] \in Xids \cup {None} /\ xid'[u] = xid[u]
          BY <1>1, <1>2, <3>3
        <5>2. xid[u] < nextXid
          BY <1>1 DEF XidInv
        <5> QED BY MmapAssumption, <5>1, <5>2 DEF None, Xids
      <4>2. xid[u] < nextXid'
        BY <1>1, <2>2, <4>1
      <4> QED BY <1>1, <1>2, <2>3, <3>3, <4>1, <4>2 DEF XidInv
    <3> QED BY <3>2, <3>3
  <2>8. /\ logged' \cap failed' = {}
        /\ \A x \in logged' \cup failed' \cup committed' : x < nextXid'
    BY <1>0, <1>1, <1>2, <2>1, <2>2, <2>3 DEF XidInv
  <2> QED BY <2>5, <2>6, <2>7, <2>8 DEF XidInv
<1>4. CASE XidKept(s)
  BY <1>0, <1>1, <1>2, <1>4 DEF XidKept, XidInv, Carrying
<1>5. xid[s] \in Xids \/ pc[s] \notin Carrying
  BY <1>1 DEF XidInv
<1>6. CASE XidLogged(s)
  <2>1. xid[s] \in Xids /\ pc'[s] = "logged" /\ logged' = logged \cup {xid[s]} /\ pc[s] \in Logging
        /\ xid' = xid /\ UNCHANGED <<nextXid, committed, durable, erase, failed>>
    BY <1>5, <1>6 DEF XidLogged, Logs
  <2>2. "logged" \in Carrying /\ "erase" \notin Carrying
    BY DEF Carrying, PcValues
  <2>5. \A u \in Sessions : /\ pc'[u] \in Carrying <=> xid'[u] # None
                            /\ erase'[u] # <<>> => pc'[u] = "erase"
    BY <1>0, <1>1, <1>2, <2>1, <2>2 DEF XidInv
  <2>6. \A u, v \in Sessions : xid'[u] = xid'[v] /\ xid'[u] # None => u = v
    BY <1>0, <1>1, <1>2, <2>1, <2>2 DEF XidInv
  <2>7. \A u \in Sessions : /\ xid'[u] < nextXid' /\ xid'[u] \notin failed'
                            /\ pc'[u] \in {"logged", "notify"} <=> xid'[u] \in logged'
                            /\ pc'[u] # "notify" => xid'[u] \notin committed'
    <3> TAKE u \in Sessions
    <3>1. /\ xid[u] < nextXid /\ xid[u] \notin failed
          /\ pc[u] \in {"logged", "notify"} <=> xid[u] \in logged
          /\ pc[u] # "notify" => xid[u] \notin committed
          /\ xid[u] = xid[s] /\ xid[s] # None => u = s
      BY <1>1 DEF XidInv
    <3>2. CASE u = s
      BY <2>1, <3>1, <3>2
    <3>3. CASE u # s
      <4>1. xid[u] # xid[s]
        BY <1>0, <2>1, <3>1, <3>3
      <4> QED BY <1>2, <2>1, <3>1, <3>3, <4>1
    <3> QED BY <3>2, <3>3
  <2>8. /\ logged' \cap failed' = {}
        /\ \A x \in logged' \cup failed' \cup committed' : x < nextXid'
    <3>1. /\ logged \cap failed = {} /\ \A x \in logged \cup failed \cup committed : x < nextXid
          /\ xid[s] < nextXid /\ xid[s] \notin failed
      BY <1>1 DEF XidInv
    <3> QED BY <2>1, <3>1
  <2> QED BY <2>5, <2>6, <2>7, <2>8 DEF XidInv
<1>7. CASE XidFailed(s)
  <2>1. xid[s] \in Xids /\ pc'[s] = "idle" /\ failed' = failed \cup {xid[s]} /\ pc[s] \in Logging
        /\ xid' = [xid EXCEPT ![s] = None] /\ UNCHANGED <<nextXid, committed, durable, erase, logged>>
    BY <1>5, <1>7 DEF XidFailed, Fails
  <2>2. "idle" \notin Carrying /\ "erase" \notin Carrying
    BY DEF Carrying, PcValues
  <2>5. \A u \in Sessions : /\ pc'[u] \in Carrying <=> xid'[u] # None
                            /\ erase'[u] # <<>> => pc'[u] = "erase"
    BY <1>0, <1>1, <1>2, <2>1, <2>2 DEF XidInv
  <2>6. \A u, v \in Sessions : xid'[u] = xid'[v] /\ xid'[u] # None => u = v
    BY <1>0, <1>1, <1>2, <2>1, <2>2 DEF XidInv
  <2>7. \A u \in Sessions : /\ xid'[u] < nextXid' /\ xid'[u] \notin failed'
                            /\ pc'[u] \in {"logged", "notify"} <=> xid'[u] \in logged'
                            /\ pc'[u] # "notify" => xid'[u] \notin committed'
    BY <1>0, <1>1, <1>2, <2>1, <2>2 DEF XidInv
  <2>8. /\ logged' \cap failed' = {}
        /\ \A x \in logged' \cup failed' \cup committed' : x < nextXid'
    <3>1. /\ xid[s] \notin logged /\ xid[s] < nextXid /\ logged \cap failed = {}
          /\ \A x \in logged \cup failed \cup committed : x < nextXid
      BY <1>1, <2>1 DEF XidInv
    <3> QED BY <2>1, <3>1
  <2> QED BY <2>5, <2>6, <2>7, <2>8 DEF XidInv
<1>8. CASE XidCommitted(s)
  <2>1. /\ xid[s] \in Xids /\ committed' = committed \cup {xid[s]}
        /\ pc[s] = "logged" /\ UNCHANGED <<nextXid, logged, failed, erase>>
        /\ \/ pc'[s] = "idle" /\ xid' = [xid EXCEPT ![s] = None]
           \/ pc'[s] = "notify" /\ xid' = xid
    BY <1>5, <1>8 DEF XidCommitted, Commit, Carrying, PcValues
  <2>2. "idle" \notin Carrying /\ "notify" \in Carrying
    BY DEF Carrying, PcValues
  <2>5. \A u \in Sessions : /\ pc'[u] \in Carrying <=> xid'[u] # None
                            /\ erase'[u] # <<>> => pc'[u] = "erase"
    BY <1>0, <1>1, <1>2, <2>1, <2>2 DEF XidInv
  <2>6. \A u, v \in Sessions : xid'[u] = xid'[v] /\ xid'[u] # None => u = v
    BY <1>0, <1>1, <1>2, <2>1, <2>2 DEF XidInv
  <2>7. \A u \in Sessions : /\ xid'[u] < nextXid' /\ xid'[u] \notin failed'
                            /\ pc'[u] \in {"logged", "notify"} <=> xid'[u] \in logged'
                            /\ pc'[u] # "notify" => xid'[u] \notin committed'
    BY <1>0, <1>1, <1>2, <2>1, <2>2 DEF XidInv
  <2>8. /\ logged' \cap failed' = {}
        /\ \A x \in logged' \cup failed' \cup committed' : x < nextXid'
    BY <1>0, <1>1, <1>2, <2>1, <2>2 DEF XidInv
  <2> QED BY <2>5, <2>6, <2>7, <2>8 DEF XidInv
<1>9. CASE XidNotified(s)
  <2>1. "idle" \notin Carrying /\ "erase" \notin Carrying
    BY DEF Carrying, PcValues
  <2>2. erase[s] = <<>>
    BY <1>1, <1>9 DEF XidNotified, XidInv
  <2>3. \A u \in Sessions : erase'[u] # <<>> => pc'[u] = "erase"
    BY <1>1, <1>2, <1>9, <2>2 DEF XidNotified, XidInv
  <2> QED BY <1>0, <1>1, <1>2, <1>9, <2>1, <2>3 DEF XidNotified, XidInv
<1> QED BY <1>3, <1>4, <1>6, <1>7, <1>8, <1>9, XidCases

LEMMA XidFacts ==
  ASSUME Inv
  PROVE  /\ None = 0 /\ None \notin Xids /\ Header \notin Xids /\ Header < 0 /\ Xids \subseteq Nat
         /\ \A u \in Sessions : pc[u] \in Carrying => xid[u] \in Xids
         /\ \A u \in Sessions : xid[u] \in Nat
         /\ nextXid \in Nat \ {0}
<1>1. None = 0 /\ None \notin Xids /\ Header \notin Xids /\ Header < 0 /\ Xids \subseteq Nat
  BY MmapAssumption DEF None, Xids, Header
<1>2. xid \in [Sessions -> Xids \cup {None}] /\ nextXid \in 1..MaxXid + 1 /\ MaxXid \in Nat
  BY MmapAssumption DEF Inv, TypeOK
<1>3. \A u \in Sessions : pc[u] \in Carrying => xid[u] \in Xids
  BY <1>2 DEF Inv, XidInv
<1>4. \A u \in Sessions : xid[u] \in Nat
  BY <1>2, MmapAssumption DEF None, Xids
<1> QED BY <1>1, <1>2, <1>3, <1>4

\* The engines and the record of what they have committed only grow.
LEMMA DurableGrows ==
  ASSUME Inv, NEW s \in Sessions, LogStep(s) \/ UnlogStep(s)
  PROVE  /\ committed \subseteq committed' /\ \A e \in Engines : durable[e] \subseteq durable'[e]
         /\ \A e \in Engines : durable'[e] \subseteq durable[e] \cup {xid[s]}
         /\ nextXid <= nextXid' /\ nextXid' \in Nat
<1>1. nextXid \in Nat
  BY XidFacts
<1>2. CASE \/ XidGiven(s) \/ XidKept(s) \/ XidLogged(s) \/ XidFailed(s) \/ XidNotified(s)
  <2>1. committed' = committed /\ durable' = durable /\ (nextXid' = nextXid \/ nextXid' = nextXid + 1)
    BY <1>2 DEF XidGiven, XidKept, XidLogged, XidFailed, XidNotified
  <2> QED BY <1>1, <2>1
<1>3. CASE XidCommitted(s)
  <2>1. /\ committed' = committed \cup {xid[s]} /\ nextXid' = nextXid
        /\ durable' = [e \in Engines |-> IF e \in Deferred THEN durable[e]
                                         ELSE durable[e] \cup {xid[s]}]
    BY <1>3 DEF XidCommitted, Commit
  <2> QED BY <1>1, <2>1
<1> QED BY <1>2, <1>3, XidCases

LEMMA GivenStep ==
  ASSUME Inv, NEW s \in Sessions, LogStep(s) \/ UnlogStep(s)
  PROVE  GivenInv'
<1>1. /\ GivenInv /\ durable \in [Engines -> SUBSET Xids]
      /\ slot \in [Pages -> [1..PageSize -> Xids \cup {0, Header}]]
      /\ disk \in [Pages -> [1..PageSize -> Xids \cup {0, Header}]]
  BY DEF Inv, TypeOK
<1>2. /\ nextXid \in Nat /\ nextXid' \in Nat /\ nextXid <= nextXid' /\ xid[s] \in Nat
      /\ \A e \in Engines : durable'[e] \subseteq durable[e] \cup {xid[s]}
      /\ xid[s] < nextXid /\ Xids \subseteq Nat
  BY DurableGrows, XidFacts DEF Inv, XidInv
<1>3. xid'[s] < nextXid'
  BY XidStep DEF XidInv
<1>4. \A e \in Engines : \A x \in durable'[e] : x < nextXid'
  <2> TAKE e \in Engines
  <2> TAKE x \in durable'[e]
  <2>1. x \in Nat /\ x < nextXid
    BY <1>1, <1>2 DEF GivenInv
  <2> QED BY <1>2, <2>1
<1>5. ASSUME NEW p \in Pages, NEW i \in 1..PageSize
      PROVE  /\ slot[p][i] < nextXid' /\ disk[p][i] < nextXid'
  <2>1. slot[p][i] < nextXid /\ disk[p][i] < nextXid
    BY <1>1 DEF GivenInv
  <2>2. slot[p][i] \in Int /\ disk[p][i] \in Int
    <3>1. slot[p][i] \in Xids \cup {0, Header} /\ disk[p][i] \in Xids \cup {0, Header}
      BY <1>1
    <3> QED BY <3>1, MmapAssumption DEF Header, Xids
  <2> QED BY <1>2, <2>1, <2>2
<1>6. \A p \in Pages : \A i \in 1..PageSize : slot'[p][i] < nextXid' /\ disk'[p][i] < nextXid'
  <2> TAKE p \in Pages
  <2> TAKE i \in 1..PageSize
  <2>1. CASE slot' = slot /\ disk' = disk
    BY <1>5, <2>1
  <2>2. CASE Sync(s)
    <3>1. slot' = slot /\ (disk' = disk \/ disk' = [disk EXCEPT ![syncing] = slot[syncing]])
      BY <2>2 DEF Sync
    <3>2. disk'[p] \in {disk[p], slot[p]}
      BY <1>1, <3>1
    <3> QED BY <1>5, <3>1, <3>2
  <2>3. CASE WriteActive(s) \/ TakeFromPool(s)
    <3>1. disk' = disk
      BY <2>3 DEF WriteActive, TakeFromPool
    <3>a. PICK q \in Pages, j \in 1..PageSize : StoredAt(s, q, j)
      BY <2>3, Stored
    <3>2. slot' = [slot EXCEPT ![q][j] = xid'[s]]
      BY <3>a DEF StoredAt
    <3>3. slot'[p][i] \in {slot[p][i], xid'[s]}
      <4>1. slot \in [Pages -> [1..PageSize -> Xids \cup {0, Header}]]
        BY <1>1
      <4>2. CASE p = q
        BY <3>2, <4>1, <4>2
      <4>3. CASE p # q
        BY <3>2, <4>1, <4>3
      <4> QED BY <4>2, <4>3
    <3> QED BY <1>3, <1>5, <3>1, <3>3
  <2> QED BY <2>1, <2>2, <2>3, PagesKept
<1>7. ASSUME NEW p \in Pages, NEW i \in Area(p)
      PROVE  slot'[p][i] # Header /\ disk'[p][i] # Header
  <2>1. i \in 1..PageSize /\ slot[p][i] # Header /\ disk[p][i] # Header
    BY <1>1, MmapAssumption DEF GivenInv, Area, Start
  <2>2. CASE slot' = slot /\ disk' = disk
    BY <2>1, <2>2
  <2>3. CASE Sync(s)
    <3>1. slot' = slot /\ (disk' = disk \/ disk' = [disk EXCEPT ![syncing] = slot[syncing]])
      BY <2>3 DEF Sync
    <3>2. disk'[p] \in {disk[p], slot[p]}
      BY <1>1, <3>1
    <3> QED BY <2>1, <3>1, <3>2
  <2>4. CASE WriteActive(s) \/ TakeFromPool(s)
    <3>1. disk' = disk
      BY <2>4 DEF WriteActive, TakeFromPool
    <3>2. PICK q \in Pages, j \in 1..PageSize : StoredAt(s, q, j)
      BY <2>4, Stored
    <3>3. slot' = [slot EXCEPT ![q][j] = xid'[s]] /\ xid'[s] \in Xids
      BY <3>2 DEF StoredAt
    <3>4. slot'[p][i] \in {slot[p][i], xid'[s]}
      BY <1>1, <2>1, <3>3
    <3> QED BY <2>1, <3>1, <3>3, <3>4, XidFacts
  <2> QED BY <2>2, <2>3, <2>4, PagesKept
<1> QED BY <1>4, <1>6, <1>7 DEF GivenInv, Area, Start

\* A cookie that leads to an XID is not the header.
LEMMA XidInArea ==
  ASSUME Inv, NEW c \in Cookies, Content(c) \in Xids
  PROVE  c[1] \in Pages /\ c[2] \in 1..PageSize /\ c[2] \in Area(c[1])
<1>1. c[1] \in Pages /\ c[2] \in 1..PageSize
  BY CookieParts
<1>2. ~ (c[1] = 1 /\ c[2] = 1)
  BY XidFacts DEF Inv, SlotInv, Content
<1> QED BY <1>1, <1>2, MmapAssumption DEF Area, Start

LEMMA OwnStep ==
  ASSUME Inv, NEW s \in Sessions, LogStep(s) \/ UnlogStep(s)
  PROVE  OwnInv'
<1>1. /\ OwnInv /\ CleanInv /\ TypeOK
      /\ slot \in [Pages -> [1..PageSize -> Xids \cup {0, Header}]]
      /\ disk \in [Pages -> [1..PageSize -> Xids \cup {0, Header}]]
      /\ cookie \in [Sessions -> Cookies] /\ xid \in [Sessions -> Xids \cup {None}]
      /\ state \in [Pages -> {"pool", "error", "dirty"}]
  BY DEF Inv, TypeOK
<1>2. \A u \in Sessions \ {s} :
        /\ xid'[u] = xid[u] /\ cookie'[u] = cookie[u]
        /\ pc'[u] \in Owning <=> pc[u] \in Owning
        /\ pc'[u] \in {"synced", "logged"} <=> pc[u] \in {"synced", "logged"}
  BY <1>1, OthersWoken, OthersKeep DEF Woken, Owning
<1>3. \A u \in Sessions : /\ cookie[u] \in Cookies
                          /\ cookie[u][1] \in Pages /\ cookie[u][2] \in 1..PageSize
                          /\ pc[u] \in Owning => xid[u] \in Xids
  BY <1>1, CookieParts, XidFacts DEF Owning, Carrying, PcValues
<1> USE DEF Content
<1>4. {"synced", "logged"} \subseteq Owning
  BY DEF Owning
\* No page changes.
<1>5. ASSUME slot' = slot, disk' = disk,
             pc'[s] \in Owning => pc[s] \in Owning /\ xid'[s] = xid[s] /\ cookie'[s] = cookie[s],
             pc'[s] \in {"synced", "logged"} => disk[cookie[s][1]][cookie[s][2]] = xid[s]
      PROVE  OwnInv'
  BY <1>1, <1>2, <1>4, <1>5 DEF OwnInv
<1>6. CASE \/ WaitActive(s) \/ NoActive(s) \/ PoolExhausted(s) \/ Overflow(s)
  <2>1. slot' = slot /\ disk' = disk
    BY <1>6 DEF WaitActive, NoActive, PoolExhausted, Overflow, pageVars
  <2>2. pc'[s] \notin Owning
    BY <1>1, <1>6, PcStep DEF Owning
  <2> QED BY <1>4, <1>5, <2>1, <2>2
<1>7. CASE \/ SyncNow(s) \/ SyncLater(s) \/ WaitOn(s) \/ TakeSyncing(s) \/ Deactivate(s)
  <2>1. slot' = slot /\ disk' = disk /\ xid' = xid /\ cookie' = cookie
    BY <1>7 DEF SyncNow, SyncLater, WaitOn, TakeSyncing, Deactivate, pageVars
  <2>2. pc[s] \in Owning /\ pc'[s] \notin {"synced", "logged"}
    BY <1>1, <1>7, PcStep DEF Owning
  <2> QED BY <1>5, <2>1, <2>2
<1>8. CASE UnlogStep(s)
  <2>1. slot' = slot /\ disk' = disk
    BY <1>8 DEF UnlogStep, UnlogKeep, UnlogFull, NotifyOwn, pageVars
  <2>2. pc'[s] \notin Owning
    BY <1>1, <1>8, PcStep DEF Owning, UnlogStep
  <2> QED BY <1>4, <1>5, <2>1, <2>2
<1>9. CASE Enroll(s) \/ SyncedByOther(s)
  <2>1. slot' = slot /\ disk' = disk /\ pc[s] \in Owning
    BY <1>1, <1>9, PcStep DEF Enroll, SyncedByOther, Owning
  <2>2. \/ pc'[s] = "wait_sync" /\ xid' = xid /\ cookie' = cookie
        \/ state[PageOf(s)] = "pool" /\ Logs(s)
        \/ Fails(s)
    <3>1. CASE Enroll(s)
      BY <1>1, <3>1, EnrollCases DEF TypeOK
    <3>2. CASE SyncedByOther(s)
      BY <1>1, <3>2, SyncedByOtherCases
    <3> QED BY <1>9, <3>1, <3>2
  <2>3. state[PageOf(s)] = "pool" => disk[cookie[s][1]][cookie[s][2]] = xid[s]
    <3> HAVE state[PageOf(s)] = "pool"
    <3>1. slot[cookie[s][1]][cookie[s][2]] \in {0, disk[cookie[s][1]][cookie[s][2]]}
      BY <1>1, <1>3 DEF CleanInv, PageOf
    <3>2. slot[cookie[s][1]][cookie[s][2]] = xid[s] /\ xid[s] # 0
      BY <1>1, <1>3, <2>1, XidFacts DEF OwnInv
    <3> QED BY <3>1, <3>2
  <2>4. "idle" \notin Owning /\ "wait_sync" \notin {"synced", "logged"} /\ "idle" \notin {"synced", "logged"}
    BY DEF Owning
  <2> QED BY <1>5, <2>1, <2>2, <2>3, <2>4 DEF Logs, Fails
<1>10. CASE SyncDone(s)
  <2>1. slot' = slot /\ disk' = disk /\ pc[s] \in Owning
    BY <1>1, <1>10, PcStep DEF SyncDone, Owning, pageVars
  <2>2. (pc[s] = "synced" /\ Logs(s)) \/ Fails(s)
    BY <1>1, <1>10, SyncDoneCases
  <2>3. pc[s] = "synced" => disk[cookie[s][1]][cookie[s][2]] = xid[s]
    BY <1>1 DEF OwnInv
  <2>4. "idle" \notin Owning /\ "idle" \notin {"synced", "logged"}
    BY DEF Owning
  <2> QED BY <1>5, <2>1, <2>2, <2>3, <2>4 DEF Logs, Fails
<1>11. CASE Sync(s)
  <2>1. /\ slot' = slot /\ xid' = xid /\ cookie' = cookie /\ pc[s] = "msync"
        /\ pc'[s] \in {"synced", "sync_error"}
        /\ disk' = disk \/ disk' = [disk EXCEPT ![syncing] = slot[syncing]]
    BY <1>1, <1>11, PcStep DEF Sync
  <2>2. pc'[s] = "synced" => disk' = [disk EXCEPT ![syncing] = slot[syncing]]
    <3>1. pc'[s] = IF state'[syncing] = "pool" THEN "synced" ELSE "sync_error"
      BY <1>1, <1>11 DEF Sync, WakePool, TypeOK
    <3>2. syncing \in Pages
      BY <1>3, <2>1 DEF Inv, SyncerInv, Syncing, PageOf
    <3> QED BY <1>1, <1>11, <3>1, <3>2 DEF Sync
  <2>3. syncing = cookie[s][1] /\ pc[s] \in Owning
    BY <2>1 DEF Inv, SyncerInv, Syncing, PageOf, Owning
  <2>4. ASSUME NEW u \in Sessions, pc'[u] \in Owning PROVE pc[u] \in Owning /\ slot[cookie[u][1]][cookie[u][2]] = xid[u]
    BY <1>1, <1>2, <2>3, <2>4 DEF OwnInv
  <2>5. ASSUME NEW u \in Sessions, pc'[u] \in {"synced", "logged"}
        PROVE  disk'[cookie[u][1]][cookie[u][2]] = xid[u]
    <3>1. CASE u = s
      BY <1>1, <1>3, <2>1, <2>2, <2>3, <2>4, <2>5, <3>1 DEF Owning
    <3>2. CASE u # s
      <4>1. disk[cookie[u][1]][cookie[u][2]] = xid[u]
        BY <1>1, <1>2, <2>5, <3>2 DEF OwnInv
      <4>2. slot[cookie[u][1]][cookie[u][2]] = xid[u]
        BY <1>4, <2>4, <2>5
      <4>3. disk'[cookie[u][1]] \in {disk[cookie[u][1]], slot[cookie[u][1]]}
        BY <1>1, <1>3, <2>1
      <4> QED BY <4>1, <4>2, <4>3
    <3> QED BY <3>1, <3>2
  <2> QED BY <2>1, <2>4, <2>5 DEF OwnInv
<1>12. CASE WriteActive(s) \/ TakeFromPool(s)
  <2>a. PICK p \in Pages, i \in 1..PageSize : StoredAt(s, p, i)
    BY <1>12, Stored
  <2>1. /\ slot[p][i] = 0 /\ slot' = [slot EXCEPT ![p][i] = xid'[s]]
        /\ cookie' = [cookie EXCEPT ![s] = <<p, i>>]
    BY <2>a DEF StoredAt
  <2>2. disk' = disk /\ pc'[s] = "written"
    BY <1>1, <1>12, PcStep DEF WriteActive, TakeFromPool
  <2>3. ASSUME NEW u \in Sessions, pc'[u] \in Owning
        PROVE  slot'[cookie'[u][1]][cookie'[u][2]] = xid'[u]
    <3>1. CASE u = s
      BY <1>1, <2>1, <3>1
    <3>2. CASE u # s
      <4>1. slot[cookie[u][1]][cookie[u][2]] = xid[u] /\ xid[u] # 0
        BY <1>1, <1>2, <1>3, <2>3, <3>2, XidFacts DEF OwnInv
      <4> QED BY <1>1, <1>2, <1>3, <2>1, <3>2, <4>1
    <3> QED BY <3>1, <3>2
  <2>4. ASSUME NEW u \in Sessions, pc'[u] \in {"synced", "logged"}
        PROVE  disk'[cookie'[u][1]][cookie'[u][2]] = xid'[u]
    BY <1>1, <1>2, <2>2, <2>4 DEF OwnInv
  <2> QED BY <2>3, <2>4 DEF OwnInv
<1> QED BY <1>6, <1>7, <1>8, <1>9, <1>10, <1>11, <1>12 DEF LogStep

-----------------------------------------------------------------------------
(* Lists of cookies                                                        *)

\* The elements of the lists are cookies.
LEMMA ListTypes ==
  ASSUME TypeOK
  PROVE  /\ ToSet(pending) \subseteq Cookies
         /\ \A b \in Xids : ToSet(full[b]) \subseteq Cookies
         /\ \A t \in Threads : ToSet(erase[t]) \subseteq Cookies
<1>1. /\ pending \in Seq(Cookies) /\ \A b \in Xids : full[b] \in Seq(Cookies)
      /\ \A t \in Threads : erase[t] \in Seq(Cookies)
  BY DEF TypeOK
<1> QED BY <1>1, ToSetElement

\* No session disturbs a slot with an XID.
LEMMA ContentKept ==
  ASSUME Inv, NEW s \in Sessions, LogStep(s) \/ UnlogStep(s), NEW c \in Cookies, Content(c) \in Xids
  PROVE  Content(c)' = Content(c)
<1>1. /\ c[1] \in Pages /\ c[2] \in 1..PageSize /\ Content(c) # 0
      /\ slot \in [Pages -> [1..PageSize -> Xids \cup {0, Header}]]
  BY CookieParts, XidFacts DEF Inv, TypeOK
<1>2. CASE WriteActive(s) \/ TakeFromPool(s)
  <2>1. PICK p \in Pages, i \in 1..PageSize : StoredAt(s, p, i)
    BY <1>2, Stored
  <2>2. slot[p][i] = 0 /\ slot' = [slot EXCEPT ![p][i] = xid'[s]]
    BY <2>1 DEF StoredAt
  <2> QED BY <1>1, <2>2 DEF Content
<1>3. CASE Sync(s)
  BY <1>3 DEF Sync, Content
<1>4. CASE slot' = slot
  BY <1>4 DEF Content
<1> QED BY <1>2, <1>3, <1>4, PagesKept

\* The transaction of cookie c will be committed and flushed in the engines E.
DoneAfter(c, E) ==
  slot'[c[1]][c[2]] \in committed' /\ \A e \in E : slot'[c[1]][c[2]] \in durable'[e]

LEMMA ListAfter ==
  ASSUME \A c \in ToSet(pending') : DoneAfter(c, Engines \ Deferred),
         \A b \in Xids : \A c \in ToSet(full'[b]) : DoneAfter(c, Engines \ Askers(b)'),
         \A t \in Threads : \A c \in ToSet(erase'[t]) : DoneAfter(c, Engines)
  PROVE  ListInv'
  BY DEF ListInv, Done, DoneAfter, Flushed, Content

LEMMA DoneKept ==
  ASSUME Inv, NEW s \in Sessions, LogStep(s) \/ UnlogStep(s)
  PROVE  \A c \in Cookies : \A E \in SUBSET Engines : Done(c, E) => DoneAfter(c, E)
<1> TAKE c \in Cookies
<1> TAKE E \in SUBSET Engines
<1> HAVE Done(c, E)
<1>1. Content(c) \in committed /\ Content(c) \in Xids /\ \A e \in E : Content(c) \in durable[e]
  BY DEF Done, Flushed, Inv, TypeOK
<1>2. Content(c)' = Content(c)
  BY <1>1, ContentKept
<1>3. committed \subseteq committed' /\ \A e \in Engines : durable[e] \subseteq durable'[e]
  BY DurableGrows
<1> QED BY <1>1, <1>2, <1>3 DEF DoneAfter, Content

\* The cookie of a session that is about to commit is in no list.
LEMMA CookieFresh ==
  ASSUME Inv, NEW s \in Sessions, pc[s] = "logged"
  PROVE  /\ xid[s] \in Xids /\ cookie[s] \in Cookies /\ Content(cookie[s]) = xid[s]
         /\ xid[s] \notin committed
         /\ cookie[s] \notin ToSet(pending)
         /\ \A b \in Xids : cookie[s] \notin ToSet(full[b])
         /\ \A t \in Threads : cookie[s] \notin ToSet(erase[t])
<1>1. xid[s] \in Xids /\ cookie[s] \in Cookies /\ Content(cookie[s]) = xid[s]
  BY XidFacts DEF Inv, TypeOK, OwnInv, Owning, Carrying, PcValues
<1>2. xid[s] \notin committed
  BY DEF Inv, XidInv
<1> QED BY <1>1, <1>2 DEF Inv, ListInv, Done

\* What Commit does for the cookie of the session.
LEMMA CommitDone ==
  ASSUME Inv, NEW s \in Sessions, pc[s] = "logged", Commit(s), slot' = slot
  PROVE  DoneAfter(cookie[s], Engines \ Deferred)
<1>1. slot'[cookie[s][1]][cookie[s][2]] = xid[s]
  BY CookieFresh DEF Content
<1> QED BY <1>1 DEF Commit, DoneAfter

LEMMA LogKeepsLists ==
  ASSUME NEW s \in Sessions, LogStep(s)
  PROVE  UNCHANGED <<pending, full, count, asked, erase>>
<1> USE DEF unlogVars
<1>1. CASE \/ WaitActive(s) \/ WriteActive(s) \/ NoActive(s) \/ TakeFromPool(s)
           \/ PoolExhausted(s) \/ Overflow(s) \/ SyncNow(s) \/ SyncLater(s)
  BY <1>1 DEF WaitActive, WriteActive, NoActive, TakeFromPool, PoolExhausted, Overflow, SyncNow,
              SyncLater
<1>2. CASE \/ Enroll(s) \/ WaitOn(s) \/ SyncedByOther(s) \/ TakeSyncing(s) \/ Deactivate(s)
           \/ Sync(s) \/ SyncDone(s)
  BY <1>2 DEF Enroll, WaitOn, SyncedByOther, TakeSyncing, Deactivate, Sync, SyncDone
<1> QED BY <1>1, <1>2 DEF LogStep

\* The last one to notify: no engine has the buffer to flush any more.
LEMMA LastNotifier ==
  ASSUME Inv, NEW s \in Sessions, pc[s] = "notify", xid[s] \in Xids, count[xid[s]] = 1
  PROVE  Askers(xid[s]) = {}
<1> DEFINE A == Askers(xid[s])
<1>1. count[xid[s]] = (IF Notifiers(xid[s]) = {} THEN 0 ELSE 1) + Cardinality(A)
  BY DEF Inv, CountInv
<1>2. s \in Notifiers(xid[s])
  BY DEF Notifiers
<1>3. IsFiniteSet(A)
  <2>1. A \subseteq Engines /\ IsFiniteSet(Engines)
    BY MmapAssumption DEF Askers
  <2> QED BY <2>1, FS_Subset
<1>4. Cardinality(A) \in Nat
  BY <1>3, FS_CardinalityType
<1>5. Cardinality(A) = 0
  BY <1>1, <1>2, <1>4
<1> HIDE DEF A
<1>6. A = {}
  BY <1>3, <1>5, FS_EmptySet
<1> QED BY <1>6 DEF A

LEMMA ListStep ==
  ASSUME Inv, NEW s \in Sessions, LogStep(s) \/ UnlogStep(s)
  PROVE  ListInv'
<1>1. /\ TypeOK /\ ListInv /\ Deferred \subseteq Engines /\ Sessions \subseteq Threads
      /\ pending \in Seq(Cookies) /\ full \in [Xids -> Seq(Cookies)]
      /\ erase \in [Threads -> Seq(Cookies)] /\ asked \in [Deferred -> SUBSET Xids]
  BY MmapAssumption DEF Inv, TypeOK, Threads
<1>2. /\ ToSet(pending) \subseteq Cookies
      /\ \A b \in Xids : ToSet(full[b]) \subseteq Cookies
      /\ \A t \in Threads : ToSet(erase[t]) \subseteq Cookies
  BY <1>1, ListTypes
<1>3. \A c \in Cookies : \A E \in SUBSET Engines : Done(c, E) => DoneAfter(c, E)
  BY DoneKept
<1>4. /\ \A c \in ToSet(pending) : DoneAfter(c, Engines \ Deferred)
      /\ \A b \in Xids : \A c \in ToSet(full[b]) : DoneAfter(c, Engines \ Askers(b))
      /\ \A t \in Threads : \A c \in ToSet(erase[t]) : DoneAfter(c, Engines)
  <2>1. Engines \ Deferred \in SUBSET Engines /\ \A b : Engines \ Askers(b) \in SUBSET Engines
    OBVIOUS
  <2> QED BY <1>1, <1>2, <1>3, <2>1 DEF ListInv
<1>5. CASE LogStep(s)
  <2>1. pending' = pending /\ full' = full /\ erase' = erase /\ asked' = asked
    BY <1>5, LogKeepsLists
  <2>2. \A b \in Xids : Askers(b)' = Askers(b)
    BY <2>1 DEF Askers
  <2> QED BY <1>4, <2>1, <2>2, ListAfter
<1>6. CASE UnlogKeep(s)
  <2>1. /\ full' = full /\ erase' = erase /\ asked' = asked /\ slot' = slot
        /\ pending' = Append(pending, cookie[s]) /\ pc[s] = "logged" /\ Commit(s)
    BY <1>6 DEF UnlogKeep, pageVars
  <2>2. \A b \in Xids : Askers(b)' = Askers(b)
    BY <2>1 DEF Askers
  <2>3. ToSet(pending') = ToSet(pending) \cup {cookie[s]}
    BY <1>1, <2>1, CookieFresh, ToSetAppend
  <2>4. DoneAfter(cookie[s], Engines \ Deferred)
    BY <2>1, CommitDone
  <2> QED BY <1>4, <2>1, <2>2, <2>3, <2>4, ListAfter
<1>7. CASE UnlogFull(s)
  <2>0. PICK x \in Xids : x = xid[s]
    BY <1>7, CookieFresh DEF UnlogFull
  <2>1. /\ erase' = erase /\ slot' = slot /\ pending' = <<>> /\ pc[s] = "logged" /\ Commit(s)
        /\ full' = [full EXCEPT ![x] = Append(pending, cookie[s])]
        /\ asked' = [e \in Deferred |-> asked[e] \cup {x}]
    BY <1>7, <2>0 DEF UnlogFull, pageVars
  <2>2. \A b \in Xids \ {x} : Askers(b)' = Askers(b)
    BY <1>1, <2>1 DEF Askers
  <2>3. Askers(x)' = Deferred
    BY <2>1 DEF Askers
  <2>4. ToSet(full'[x]) = ToSet(pending) \cup {cookie[s]}
    BY <1>1, <2>1, CookieFresh, ToSetAppend
  <2>5. DoneAfter(cookie[s], Engines \ Deferred)
    BY <2>1, CommitDone
  <2>6. \A c \in ToSet(full'[x]) : DoneAfter(c, Engines \ Askers(x)')
    BY <1>4, <2>3, <2>4, <2>5
  <2>7. \A b \in Xids \ {x} : full'[b] = full[b]
    BY <1>1, <2>1
  <2>8. \A b \in Xids : \A c \in ToSet(full'[b]) : DoneAfter(c, Engines \ Askers(b)')
    <3> TAKE b \in Xids
    <3>1. CASE b = x
      BY <2>6, <3>1
    <3>2. CASE b # x
      <4>1. full'[b] = full[b] /\ Askers(b)' = Askers(b)
        BY <2>2, <2>7, <3>2
      <4> QED BY <1>4, <4>1
    <3> QED BY <3>1, <3>2
  <2> QED BY <1>4, <2>1, <2>8, ToSetEmpty, ListAfter
<1>8. CASE NotifyOwn(s)
  <2>0. PICK x \in Xids : x = xid[s]
    <3>1. pc[s] = "notify"
      BY <1>8 DEF NotifyOwn
    <3> QED BY <3>1, XidFacts DEF Carrying, PcValues
  <2>1. /\ pending' = pending /\ asked' = asked /\ pc[s] = "notify"
        /\ \/ full' = full /\ erase' = erase
           \/ /\ count[x] = 1 /\ erase' = [erase EXCEPT ![s] = full[x]]
              /\ full' = [full EXCEPT ![x] = <<>>]
    BY <1>8, <2>0 DEF NotifyOwn, CommitCheckpointNotify
  <2>2. \A b \in Xids : Askers(b)' = Askers(b)
    BY <2>1 DEF Askers
  <2>3. CASE full' = full /\ erase' = erase
    BY <1>4, <2>1, <2>2, <2>3, ListAfter
  <2>4. CASE /\ count[x] = 1 /\ erase' = [erase EXCEPT ![s] = full[x]]
             /\ full' = [full EXCEPT ![x] = <<>>]
    <3>1. Askers(x) = {}
      BY <2>0, <2>1, <2>4, LastNotifier
    <3>2. \A c \in ToSet(full[x]) : DoneAfter(c, Engines)
      <4> TAKE c \in ToSet(full[x])
      <4>1. DoneAfter(c, Engines \ Askers(x))
        BY <1>4
      <4> QED BY <3>1, <4>1 DEF DoneAfter
    <3>3. \A t \in Threads : \A c \in ToSet(erase'[t]) : DoneAfter(c, Engines)
      BY <1>1, <1>4, <2>4, <3>2
    <3>4. \A b \in Xids : \A c \in ToSet(full'[b]) : DoneAfter(c, Engines \ Askers(b)')
      BY <1>1, <1>4, <2>2, <2>4, ToSetEmpty
    <3> QED BY <1>4, <2>1, <3>3, <3>4, ListAfter
  <2> QED BY <2>1, <2>3, <2>4
<1> QED BY <1>5, <1>6, <1>7, <1>8 DEF UnlogStep

\* A buffer that is handed over for deletion keeps the lists apart.
LEMMA NotifyApart ==
  ASSUME Inv, NEW t \in Threads, NEW x \in Xids, CommitCheckpointNotify(t, x), pending' = pending
  PROVE  ApartInv'
<1>1. /\ ApartInv /\ full \in [Xids -> Seq(Cookies)] /\ erase \in [Threads -> Seq(Cookies)]
  BY DEF Inv, TypeOK
<1>2. CASE full' = full /\ erase' = erase
  BY <1>1, <1>2 DEF ApartInv
<1>3. CASE erase' = [erase EXCEPT ![t] = full[x]] /\ full' = [full EXCEPT ![x] = <<>>]
  <2>1. /\ \A b \in Xids : full'[b] = IF b = x THEN <<>> ELSE full[b]
        /\ \A u \in Threads : erase'[u] = IF u = t THEN full[x] ELSE erase[u]
    BY <1>1, <1>3
  <2>2. \A q : Apart(<<>>, q) /\ Apart(q, <<>>)
    BY ToSetEmpty DEF Apart
  <2>3. \A q, r : Apart(q, r) <=> Apart(r, q)
    BY DEF Apart
  <2>4. \A b \in Xids : IsInjective(full'[b]) /\ Apart(pending', full'[b])
    BY <1>1, <2>1, <2>2, ToSetEmpty DEF ApartInv
  <2>5. \A u \in Threads : IsInjective(erase'[u]) /\ Apart(pending', erase'[u])
    BY <1>1, <2>1 DEF ApartInv
  <2>6. \A b, d \in Xids : b # d => Apart(full'[b], full'[d])
    BY <1>1, <2>1, <2>2 DEF ApartInv
  <2>7. \A b \in Xids, u \in Threads : Apart(full'[b], erase'[u])
    BY <1>1, <2>1, <2>2 DEF ApartInv
  <2>8. \A u, v \in Threads : u # v => Apart(erase'[u], erase'[v])
    BY <1>1, <2>1, <2>3 DEF ApartInv
  <2>9. IsInjective(pending')
    BY <1>1 DEF ApartInv
  <2> QED BY <2>4, <2>5, <2>6, <2>7, <2>8, <2>9 DEF ApartInv, Apart
<1> QED BY <1>2, <1>3 DEF CommitCheckpointNotify

LEMMA ApartStep ==
  ASSUME Inv, NEW s \in Sessions, LogStep(s) \/ UnlogStep(s)
  PROVE  ApartInv'
<1>1. /\ TypeOK /\ ApartInv /\ Sessions \subseteq Threads
      /\ pending \in Seq(Cookies) /\ full \in [Xids -> Seq(Cookies)]
  BY DEF Inv, TypeOK, Threads
<1>2. CASE LogStep(s)
  BY <1>1, <1>2, LogKeepsLists DEF ApartInv
\* The cookie of the session, appended to the pending cookies.
<1>3. ASSUME pc[s] = "logged"
      PROVE  LET q == Append(pending, cookie[s]) IN
             /\ IsInjective(q)
             /\ \A b \in Xids : Apart(q, full[b]) /\ Apart(full[b], q)
             /\ \A t \in Threads : Apart(q, erase[t])
  <2> DEFINE q == Append(pending, cookie[s])
  <2>1. /\ cookie[s] \in Cookies /\ cookie[s] \notin ToSet(pending)
        /\ \A b \in Xids : cookie[s] \notin ToSet(full[b])
        /\ \A t \in Threads : cookie[s] \notin ToSet(erase[t])
    BY <1>3, CookieFresh
  <2>2. ToSet(q) = ToSet(pending) \cup {cookie[s]} /\ IsInjective(q)
    BY <1>1, <2>1, ToSetAppend DEF ApartInv
  <2> HIDE DEF q
  <2>3. \A b \in Xids : Apart(q, full[b]) /\ Apart(full[b], q)
    BY <1>1, <2>1, <2>2 DEF ApartInv, Apart
  <2>4. \A t \in Threads : Apart(q, erase[t])
    BY <1>1, <2>1, <2>2 DEF ApartInv, Apart
  <2> QED BY <2>2, <2>3, <2>4 DEF q
<1>4. CASE UnlogKeep(s)
  <2>1. /\ full' = full /\ erase' = erase /\ pending' = Append(pending, cookie[s])
        /\ pc[s] = "logged"
    BY <1>4 DEF UnlogKeep
  <2> QED BY <1>1, <1>3, <2>1 DEF ApartInv
<1>5. CASE UnlogFull(s)
  <2> DEFINE q == Append(pending, cookie[s])
             x == xid[s]
  <2>1. /\ erase' = erase /\ pending' = <<>> /\ pc[s] = "logged" /\ full' = [full EXCEPT ![x] = q]
    BY <1>5 DEF UnlogFull
  <2>2. \A b \in Xids : full'[b] = IF b = x THEN q ELSE full[b]
    BY <1>1, <2>1
  <2>3. /\ IsInjective(q) /\ \A b \in Xids : Apart(q, full[b]) /\ Apart(full[b], q)
        /\ \A t \in Threads : Apart(q, erase[t])
    BY <1>3, <2>1
  <2> HIDE DEF q, x
  <2>4. \A r : Apart(pending', r) /\ IsInjective(pending')
    BY <2>1, ToSetEmpty DEF Apart
  <2>5. \A b \in Xids : IsInjective(full'[b])
    BY <1>1, <2>2, <2>3 DEF ApartInv
  <2>6. \A b, d \in Xids : b # d => Apart(full'[b], full'[d])
    BY <1>1, <2>2, <2>3 DEF ApartInv
  <2>7. \A b \in Xids, t \in Threads : Apart(full'[b], erase'[t])
    BY <1>1, <2>1, <2>2, <2>3 DEF ApartInv
  <2>8. /\ \A t \in Threads : IsInjective(erase'[t])
        /\ \A t, u \in Threads : t # u => Apart(erase'[t], erase'[u])
    BY <1>1, <2>1 DEF ApartInv
  <2> QED BY <2>4, <2>5, <2>6, <2>7, <2>8 DEF ApartInv, Apart
<1>6. CASE NotifyOwn(s)
  <2>1. pc[s] = "notify" /\ CommitCheckpointNotify(s, xid[s]) /\ pending' = pending
    BY <1>6 DEF NotifyOwn
  <2>2. xid[s] \in Xids
    BY <2>1, XidFacts DEF Carrying, PcValues
  <2> QED BY <1>1, <2>1, <2>2, NotifyApart
<1> QED BY <1>2, <1>4, <1>5, <1>6 DEF UnlogStep

-----------------------------------------------------------------------------
(* Counts                                                                  *)

LEMMA AskersFinite ==
  /\ IsFiniteSet(Deferred) /\ Cardinality(Deferred) \in Nat
  /\ \A b : /\ IsFiniteSet(Askers(b)) /\ Cardinality(Askers(b)) \in Nat
            /\ Cardinality(Askers(b)) <= Cardinality(Deferred)
<1>1. IsFiniteSet(Deferred) /\ Cardinality(Deferred) \in Nat
  BY MmapAssumption, FS_Subset, FS_CardinalityType
<1>2. ASSUME NEW b
      PROVE  /\ IsFiniteSet(Askers(b)) /\ Cardinality(Askers(b)) \in Nat
             /\ Cardinality(Askers(b)) <= Cardinality(Deferred)
  <2>1. Askers(b) \subseteq Deferred
    BY DEF Askers
  <2> QED BY <1>1, <2>1, FS_Subset, FS_CardinalityType
<1> QED BY <1>1, <1>2

\* pending_count stays within its initial value.
LEMMA CountBound ==
  ASSUME CountInv
  PROVE  \A b \in Xids : count[b] \in 0..InitialCount
  BY AskersFinite DEF CountInv, InitialCount

LEMMA CountStep ==
  ASSUME Inv, NEW s \in Sessions, LogStep(s) \/ UnlogStep(s)
  PROVE  CountInv'
<1>1. /\ TypeOK /\ CountInv /\ XidInv /\ count \in [Xids -> Int]
      /\ asked \in [Deferred -> SUBSET Xids] /\ xid \in [Sessions -> Xids \cup {None}]
  BY BasicTypeHolds DEF Inv, TypeOK, BasicType
<1>2. \A u \in Sessions \ {s} : xid'[u] = xid[u] /\ (pc'[u] = "notify" <=> pc[u] = "notify")
  BY <1>1, OthersWoken, OthersKeep DEF Woken
<1>3. ASSUME count' = count, asked' = asked, pc[s] # "notify", pc'[s] # "notify"
      PROVE  CountInv'
  <2>1. \A b \in Xids : Notifiers(b)' = Notifiers(b) /\ Askers(b)' = Askers(b)
    BY <1>2, <1>3 DEF Notifiers, Askers
  <2> QED BY <1>1, <1>3, <2>1 DEF CountInv
<1>4. CASE LogStep(s)
  <2>1. pc[s] # "notify" /\ pc'[s] # "notify"
    BY <1>1, <1>4, PcStep DEF LogStep
  <2> QED BY <1>3, <1>4, <2>1, LogKeepsLists
<1>5. CASE UnlogKeep(s)
  <2>1. count' = count /\ asked' = asked
    BY <1>5 DEF UnlogKeep
  <2> QED BY <1>1, <1>3, <1>5, <2>1, PcStep
<1>6. CASE UnlogFull(s)
  <2>0. PICK x \in Xids : x = xid[s]
    BY <1>6, CookieFresh DEF UnlogFull
  <2>1. /\ pc[s] = "logged" /\ pc'[s] = "notify" /\ xid' = xid
        /\ count' = [count EXCEPT ![x] = InitialCount]
        /\ asked' = [e \in Deferred |-> asked[e] \cup {x}]
    BY <1>1, <1>6, <2>0, PcStep DEF UnlogFull
  <2>2. count'[x] = 1 + Cardinality(Deferred) /\ \A b \in Xids \ {x} : count'[b] = count[b]
    BY <1>1, <2>1 DEF InitialCount
  <2>3. Askers(x)' = Deferred /\ \A b \in Xids \ {x} : Askers(b)' = Askers(b)
    BY <1>1, <2>1 DEF Askers
  <2>4. Notifiers(x)' # {} /\ \A b \in Xids \ {x} : Notifiers(b)' = Notifiers(b)
    BY <1>2, <2>0, <2>1 DEF Notifiers
  <2> SUFFICES ASSUME NEW b \in Xids
               PROVE  count'[b] = (IF Notifiers(b)' = {} THEN 0 ELSE 1) + Cardinality(Askers(b)')
    BY DEF CountInv
  <2>5. CASE b = x
    BY <2>2, <2>3, <2>4, <2>5
  <2>6. CASE b # x
    BY <1>1, <2>2, <2>3, <2>4, <2>6 DEF CountInv
  <2> QED BY <2>5, <2>6
<1>7. CASE NotifyOwn(s)
  <2>0. PICK x \in Xids : x = xid[s]
    <3>1. pc[s] = "notify"
      BY <1>7 DEF NotifyOwn
    <3> QED BY <3>1, XidFacts DEF Carrying, PcValues
  <2>1. /\ pc[s] = "notify" /\ pc'[s] # "notify" /\ asked' = asked
        /\ count' = [count EXCEPT ![x] = @ - 1]
    BY <1>1, <1>7, <2>0, PcStep DEF NotifyOwn, CommitCheckpointNotify
  <2>2. count'[x] = count[x] - 1 /\ \A b \in Xids \ {x} : count'[b] = count[b]
    BY <1>1, <2>1
  <2>3. \A b \in Xids : Askers(b)' = Askers(b)
    BY <2>1 DEF Askers
  <2>4. Notifiers(x) # {} /\ Notifiers(x)' = {}
    <3>1. s \in Notifiers(x)
      BY <2>0, <2>1 DEF Notifiers
    <3>2. \A u \in Sessions \ {s} : xid[u] # x
      BY <1>1, <2>0, XidFacts DEF XidInv
    <3>3. Notifiers(x)' = {}
      BY <1>2, <2>1, <3>2 DEF Notifiers
    <3> QED BY <3>1, <3>3
  <2>5. \A b \in Xids \ {x} : Notifiers(b)' = Notifiers(b)
    BY <1>2, <2>0, <2>1 DEF Notifiers
  <2> SUFFICES ASSUME NEW b \in Xids
               PROVE  count'[b] = (IF Notifiers(b)' = {} THEN 0 ELSE 1) + Cardinality(Askers(b)')
    BY DEF CountInv
  <2>6. CASE b = x
    BY <1>1, <2>2, <2>3, <2>4, <2>6, AskersFinite DEF CountInv
  <2>7. CASE b # x
    BY <1>1, <2>2, <2>3, <2>5, <2>7 DEF CountInv
  <2> QED BY <2>6, <2>7
<1> QED BY <1>4, <1>5, <1>6, <1>7 DEF UnlogStep

-----------------------------------------------------------------------------
(* What survives a crash                                                   *)

LEMMA RecoverableStep ==
  ASSUME Inv, NEW s \in Sessions, LogStep(s) \/ UnlogStep(s)
  PROVE  Recoverable'
<1>1. /\ TypeOK /\ Recoverable /\ logged \subseteq Xids /\ cookie \in [Sessions -> Cookies]
      /\ slot \in [Pages -> [1..PageSize -> Xids \cup {0, Header}]]
      /\ disk \in [Pages -> [1..PageSize -> Xids \cup {0, Header}]]
      /\ \A p \in Pages : Area(p) \subseteq 1..PageSize
  BY MmapAssumption DEF Inv, TypeOK, Area, Start
<1>2. \A e \in Engines : durable[e] \subseteq durable'[e]
  BY DurableGrows
\* A transaction that was logged stays in its slot.
<1>3. ASSUME NEW x \in logged
      PROVE  \/ \A e \in Engines : x \in durable'[e]
             \/ \E p \in Pages : \E i \in Area(p) : slot'[p][i] = x /\ disk'[p][i] = x
  <2>1. CASE \A e \in Engines : x \in durable[e]
    BY <1>2, <2>1
  <2>2. CASE \E p \in Pages : \E i \in Area(p) : slot[p][i] = x /\ disk[p][i] = x
    <3>1. PICK p \in Pages, i \in 1..PageSize : i \in Area(p) /\ slot[p][i] = x /\ disk[p][i] = x
      BY <1>1, <2>2
    <3>2. x # 0 /\ <<p, i>> \in Cookies /\ x \in Xids
      BY <1>1, XidFacts DEF Cookies
    <3>3. slot'[p][i] = x
      BY <3>1, <3>2, ContentKept DEF Content
    <3>4. disk'[p][i] = x
      <4>1. CASE Sync(s)
        <5>1. disk' = disk \/ disk' = [disk EXCEPT ![syncing] = slot[syncing]]
          BY <4>1 DEF Sync
        <5> QED BY <1>1, <3>1, <5>1
      <4>2. CASE disk' = disk
        BY <3>1, <4>2
      <4>3. CASE WriteActive(s) \/ TakeFromPool(s)
        BY <3>1, <4>3 DEF WriteActive, TakeFromPool
      <4> QED BY <4>1, <4>2, <4>3, PagesKept
    <3> QED BY <3>1, <3>3, <3>4
  <2> QED BY <1>1, <2>1, <2>2 DEF Recoverable
\* A transaction that is logged by this step has been synced.
<1>4. ASSUME Logs(s), pc[s] \in Logging, XidLogged(s)
      PROVE  \E p \in Pages : \E i \in Area(p) : slot'[p][i] = xid[s] /\ disk'[p][i] = xid[s]
  <2>1. pc'[s] = "logged" /\ cookie' = cookie /\ xid' = xid
    BY <1>4 DEF Logs
  <2> DEFINE c == cookie[s]
  <2>2. slot'[c[1]][c[2]] = xid[s] /\ disk'[c[1]][c[2]] = xid[s]
    BY <2>1, OwnStep DEF OwnInv, Owning, Content
  <2>3. xid[s] \in Xids /\ c \in Cookies
    BY <1>1, <1>4, XidFacts DEF Logging
  <2>4. c[1] \in Pages /\ c[2] \in 1..PageSize
    BY <2>3, CookieParts
  <2>5. slot'[1][1] = Header
    BY SlotStep DEF SlotInv
  <2> HIDE DEF c
  <2>6. ~ (c[1] = 1 /\ c[2] = 1)
    BY <2>2, <2>3, <2>5, XidFacts
  <2>7. c[2] \in Area(c[1])
    BY <2>4, <2>6, MmapAssumption DEF Area, Start
  <2> QED BY <2>2, <2>4, <2>7
<1>5. CASE XidLogged(s)
  BY <1>3, <1>4, <1>5 DEF XidLogged, Logs, Recoverable, Area, Start
<1>6. CASE \/ XidGiven(s) \/ XidKept(s) \/ XidFailed(s) \/ XidCommitted(s) \/ XidNotified(s)
  <2>1. logged' = logged
    BY <1>6 DEF XidGiven, XidKept, XidFailed, XidCommitted, XidNotified, Fails
  <2> QED BY <1>3, <2>1 DEF Recoverable, Area, Start
<1> QED BY <1>5, <1>6, XidCases

LEMMA DurableStep ==
  ASSUME Inv, NEW s \in Sessions, LogStep(s) \/ UnlogStep(s)
  PROVE  DurableInv' /\ KeptInv'
<1>1. /\ TypeOK /\ DurableInv /\ KeptInv /\ durable \in [Engines -> SUBSET Xids]
  BY DEF Inv, TypeOK
<1>2. \A e \in Engines : durable[e] \subseteq durable'[e] /\ durable'[e] \subseteq durable[e] \cup {xid[s]}
  BY DurableGrows
<1>3. logged \subseteq logged' /\ committed' \subseteq committed \cup {xid[s]}
  <2>1. CASE \/ XidGiven(s) \/ XidKept(s) \/ XidLogged(s) \/ XidFailed(s) \/ XidNotified(s)
    BY <2>1 DEF XidGiven, XidKept, XidLogged, XidFailed, XidNotified, Logs, Fails
  <2>2. CASE XidCommitted(s)
    BY <2>2 DEF XidCommitted, Commit
  <2> QED BY <2>1, <2>2, XidCases
<1>4. \/ xid[s] \in logged'
      \/ committed' = committed /\ durable' = durable
  <2>1. CASE \/ XidGiven(s) \/ XidKept(s) \/ XidLogged(s) \/ XidFailed(s) \/ XidNotified(s)
    BY <2>1 DEF XidGiven, XidKept, XidLogged, XidFailed, XidNotified
  <2>2. CASE XidCommitted(s)
    BY <1>3, <2>2 DEF XidCommitted, Inv, XidInv
  <2> QED BY <2>1, <2>2, XidCases
<1>5. DurableInv'
  <2> SUFFICES ASSUME NEW x \in committed' \cup UNION {durable'[e] : e \in Engines}
               PROVE  x \in logged' \/ \A e \in Engines : x \in durable'[e]
    BY DEF DurableInv, Flushed
  <2>1. CASE x = xid[s] /\ xid[s] \in logged'
    BY <2>1
  <2>2. CASE x \in committed \cup UNION {durable[e] : e \in Engines}
    BY <1>1, <1>2, <1>3, <2>2 DEF DurableInv, Flushed
  <2> QED BY <1>2, <1>3, <1>4, <2>1, <2>2
<1>6. kept' = kept /\ crashes' = crashes
  <2> USE DEF crashVars
  <2>1. CASE \/ WaitActive(s) \/ WriteActive(s) \/ NoActive(s) \/ TakeFromPool(s)
             \/ PoolExhausted(s) \/ Overflow(s) \/ SyncNow(s) \/ SyncLater(s)
    BY <2>1 DEF WaitActive, WriteActive, NoActive, TakeFromPool, PoolExhausted, Overflow, SyncNow,
                SyncLater
  <2>2. CASE \/ Enroll(s) \/ WaitOn(s) \/ SyncedByOther(s) \/ TakeSyncing(s) \/ Deactivate(s)
             \/ Sync(s) \/ SyncDone(s)
    BY <2>2 DEF Enroll, WaitOn, SyncedByOther, TakeSyncing, Deactivate, Sync, SyncDone
  <2>3. CASE UnlogStep(s)
    BY <2>3 DEF UnlogStep, UnlogKeep, UnlogFull, NotifyOwn
  <2> QED BY <2>1, <2>2, <2>3 DEF LogStep
<1>7. KeptInv'
  BY <1>1, <1>2, <1>6 DEF KeptInv, Flushed
<1> QED BY <1>5, <1>7

-----------------------------------------------------------------------------
(* One kind of step after the other                                        *)

\* The counters are bounded by what they count.
LEMMA TypeFromParts == BasicType /\ SlotAccounting /\ WaiterInv /\ CountInv => TypeOK
<1> SUFFICES ASSUME BasicType, SlotAccounting, WaiterInv, CountInv PROVE TypeOK
  OBVIOUS
<1>1. free \in [Pages -> 0..PageSize]
  BY FreeBound DEF BasicType
<1>2. waiters \in [Pages -> 0..Cardinality(Sessions)]
  BY WaitersFinite DEF BasicType
<1>3. count \in [Xids -> 0..InitialCount]
  BY CountBound DEF BasicType
<1> QED BY <1>1, <1>2, <1>3 DEF BasicType, TypeOK

LEMMA SessionStep ==
  ASSUME Inv, NEW s \in Sessions, LogStep(s) \/ UnlogStep(s)
  PROVE  Inv'
<1>1. BasicType'
  BY BasicTypeStep, BasicTypeUnlog
<1>2. /\ LockInv' /\ SyncerInv' /\ PoolInv' /\ SlotInv' /\ CleanInv' /\ WaiterInv'
      /\ SleeperHasWaker'
  BY LockStep, SyncerStep, PoolStep, SlotStep, WaiterStep, SleeperStep
<1>3. XidInv' /\ GivenInv' /\ OwnInv' /\ ListInv' /\ ApartInv' /\ CountInv'
  BY XidStep, GivenStep, OwnStep, ListStep, ApartStep, CountStep
<1>4. Recoverable' /\ DurableInv' /\ KeptInv'
  BY RecoverableStep, DurableStep
<1>5. SlotAccounting'
  BY <1>2 DEF SlotInv
<1>6. TypeOK'
  BY <1>1, <1>2, <1>3, <1>5, TypeFromParts, PTL
<1> QED BY <1>2, <1>3, <1>4, <1>6 DEF Inv

\* What an engine's notification leaves alone.
LEMMA EngineFrame ==
  ASSUME Inv, NEW e \in Deferred, NEW b \in Xids, NotifyEngine(e, b)
  PROVE  /\ LockInv' /\ SyncerInv' /\ PoolInv' /\ SlotInv' /\ CleanInv' /\ WaiterInv'
         /\ SleeperHasWaker' /\ OwnInv'
<1>1. /\ LockInv /\ SyncerInv /\ PoolInv /\ SlotInv /\ CleanInv /\ WaiterInv
      /\ SleeperHasWaker /\ OwnInv
  BY DEF Inv
<1>2. /\ slot' = slot /\ ptr' = ptr /\ free' = free /\ waiters' = waiters /\ state' = state
      /\ disk' = disk /\ active' = active /\ syncing' = syncing /\ pool' = pool
      /\ lockActive' = lockActive /\ lockSync' = lockSync /\ pc' = pc /\ xid' = xid
      /\ cookie' = cookie
  BY DEF NotifyEngine, pageVars, listVars
<1>3. \A s \in Sessions : PageOf(s)' = PageOf(s)
  BY <1>2 DEF PageOf
<1>4. LockInv' /\ SyncerInv' /\ PoolInv'
  BY <1>1, <1>2, <1>3 DEF LockInv, SyncerInv, PoolInv
<1>5. SlotInv' /\ CleanInv'
  BY <1>1, <1>2 DEF SlotInv, SlotAccounting, CleanInv, Area, Start
<1>6. WaiterInv' /\ SleeperHasWaker'
  <2>1. \A p \in Pages : WaitersOf(p)' = WaitersOf(p)
    BY <1>2, <1>3 DEF WaitersOf
  <2> QED BY <1>1, <1>2, <1>3, <2>1 DEF WaiterInv, SleeperHasWaker
<1>7. OwnInv'
  BY <1>1, <1>2 DEF OwnInv, Content
<1> QED BY <1>4, <1>5, <1>6, <1>7

\* The last to notify is an engine: nobody else has the buffer.
LEMMA LastAsker ==
  ASSUME Inv, NEW e \in Deferred, NEW b \in Xids, b \in asked[e], count[b] = 1
  PROVE  Askers(b) = {e}
<1> DEFINE A == Askers(b)
<1>1. count[b] = (IF Notifiers(b) = {} THEN 0 ELSE 1) + Cardinality(A)
  BY DEF Inv, CountInv
<1>2. e \in A
  BY DEF Askers
<1>3. IsFiniteSet(A) /\ Cardinality(A) \in Nat
  BY AskersFinite
<1> HIDE DEF A
<1>4. Cardinality(A \ {e}) = Cardinality(A) - 1 /\ IsFiniteSet(A \ {e})
  BY <1>2, <1>3, FS_RemoveElement
<1>5. Cardinality(A \ {e}) \in Nat
  BY <1>4, FS_CardinalityType
<1>6. Cardinality(A \ {e}) = 0
  BY <1>1, <1>3, <1>4, <1>5
<1>7. A \ {e} = {}
  BY <1>4, <1>6, FS_EmptySet
<1> QED BY <1>2, <1>7 DEF A

LEMMA EngineStepInv ==
  ASSUME Inv, NEW e \in Deferred, NEW b \in Xids, NotifyEngine(e, b)
  PROVE  Inv'
<1>1. /\ TypeOK /\ BasicType' /\ e \in Engines /\ e \in Threads /\ e \notin Sessions
      /\ Sessions \subseteq Threads /\ Deferred \subseteq Engines
      /\ full \in [Xids -> Seq(Cookies)] /\ erase \in [Threads -> Seq(Cookies)]
      /\ asked \in [Deferred -> SUBSET Xids] /\ durable \in [Engines -> SUBSET Xids]
      /\ count \in [Xids -> 0..InitialCount]
  BY BasicTypeEngine, MmapAssumption DEF Inv, TypeOK, Threads
<1>2. /\ slot' = slot /\ disk' = disk /\ pc' = pc /\ xid' = xid /\ nextXid' = nextXid
      /\ pending' = pending /\ logged' = logged /\ failed' = failed /\ committed' = committed
      /\ kept' = kept /\ crashes' = crashes
      /\ b \in asked[e] /\ durable' = [durable EXCEPT ![e] = @ \cup committed]
      /\ asked' = [asked EXCEPT ![e] = @ \ {b}] /\ CommitCheckpointNotify(e, b)
  BY DEF NotifyEngine, pageVars, crashVars
<1>3. /\ count' = [count EXCEPT ![b] = @ - 1]
      /\ \/ full' = full /\ erase' = erase
         \/ /\ count[b] = 1 /\ erase' = [erase EXCEPT ![e] = full[b]]
            /\ full' = [full EXCEPT ![b] = <<>>]
  BY <1>2 DEF CommitCheckpointNotify
<1>4. /\ durable'[e] = durable[e] \cup committed
      /\ \A f \in Engines \ {e} : durable'[f] = durable[f]
  BY <1>1, <1>2
<1>5. Askers(b)' = Askers(b) \ {e} /\ \A d \in Xids \ {b} : Askers(d)' = Askers(d)
  BY <1>1, <1>2 DEF Askers
<1>6. XidInv'
  <2>1. \A s \in Sessions : erase'[s] = erase[s]
    BY <1>1, <1>3
  <2> QED BY <1>2, <2>1 DEF Inv, XidInv
<1>7. GivenInv'
  BY <1>2, <1>4 DEF Inv, XidInv, GivenInv, Area, Start
\* The engine has flushed what is committed.
<1>8. ASSUME NEW c, NEW E \in SUBSET Engines, Done(c, E)
      PROVE  DoneAfter(c, E \cup {e})
  BY <1>2, <1>4, <1>8 DEF Done, Flushed, Content, DoneAfter
<1>9. ListInv'
  <2>1. \A c \in ToSet(pending') : DoneAfter(c, Engines \ Deferred)
    <3> TAKE c \in ToSet(pending')
    <3>1. Done(c, Engines \ Deferred)
      BY <1>2 DEF Inv, ListInv
    <3>2. DoneAfter(c, (Engines \ Deferred) \cup {e})
      BY <1>8, <3>1
    <3> QED BY <3>2 DEF DoneAfter
  <2>2. ASSUME NEW d \in Xids, NEW c \in ToSet(full[d]) PROVE DoneAfter(c, Engines \ Askers(d)')
    <3>1. Done(c, Engines \ Askers(d))
      BY DEF Inv, ListInv
    <3>2. DoneAfter(c, (Engines \ Askers(d)) \cup {e})
      BY <1>8, <3>1
    <3>3. Engines \ Askers(d)' \subseteq (Engines \ Askers(d)) \cup {e}
      BY <1>5
    <3> QED BY <3>2, <3>3 DEF DoneAfter
  <2>3. ASSUME NEW t \in Threads, NEW c \in ToSet(erase[t]) PROVE DoneAfter(c, Engines)
    <3>1. DoneAfter(c, Engines \cup {e})
      BY <1>8 DEF Inv, ListInv
    <3> QED BY <3>1 DEF DoneAfter
  <2>4. CASE full' = full /\ erase' = erase
    BY <2>1, <2>2, <2>3, <2>4, ListAfter
  <2>5. CASE /\ count[b] = 1 /\ erase' = [erase EXCEPT ![e] = full[b]]
             /\ full' = [full EXCEPT ![b] = <<>>]
    <3>1. Askers(b)' = {}
      BY <1>2, <1>5, <2>5, LastAsker
    <3>2. ASSUME NEW c \in ToSet(full[b]) PROVE DoneAfter(c, Engines)
      <4>1. DoneAfter(c, Engines \ Askers(b)')
        BY <2>2
      <4> QED BY <3>1, <4>1 DEF DoneAfter
    <3>3. \A t \in Threads : \A c \in ToSet(erase'[t]) : DoneAfter(c, Engines)
      BY <1>1, <2>3, <2>5, <3>2
    <3>4. \A d \in Xids : \A c \in ToSet(full'[d]) : DoneAfter(c, Engines \ Askers(d)')
      BY <1>1, <2>2, <2>5, ToSetEmpty
    <3> QED BY <2>1, <3>3, <3>4, ListAfter
  <2> QED BY <1>3, <2>4, <2>5
<1>10. ApartInv'
  BY <1>1, <1>2, NotifyApart
<1>11. CountInv'
  <2> SUFFICES ASSUME NEW d \in Xids
               PROVE  count'[d] = (IF Notifiers(d)' = {} THEN 0 ELSE 1) + Cardinality(Askers(d)')
    BY DEF CountInv
  <2>1. Notifiers(d)' = Notifiers(d)
    BY <1>2 DEF Notifiers
  <2>2. count[d] = (IF Notifiers(d) = {} THEN 0 ELSE 1) + Cardinality(Askers(d))
    BY DEF Inv, CountInv
  <2>3. CASE d = b
    <3>1. e \in Askers(d)
      BY <1>2, <2>3 DEF Askers
    <3>2. Cardinality(Askers(d)') = Cardinality(Askers(d)) - 1
      BY <1>5, <2>3, <3>1, AskersFinite, FS_RemoveElement
    <3>3. count'[d] = count[d] - 1
      BY <1>1, <1>3, <2>3
    <3> QED BY <2>1, <2>2, <3>2, <3>3, AskersFinite
  <2>4. CASE d # b
    BY <1>1, <1>3, <1>5, <2>1, <2>2, <2>4
  <2> QED BY <2>3, <2>4
<1>12. Recoverable'
  BY <1>2, <1>4 DEF Inv, Recoverable, Area, Start
<1>13. DurableInv' /\ KeptInv'
  <2>1. \A x \in committed \cup UNION {durable[f] : f \in Engines} :
          x \in logged \/ \A f \in Engines : x \in durable[f]
    BY DEF Inv, DurableInv, Flushed
  <2>2. \A x \in committed' \cup UNION {durable'[f] : f \in Engines} :
          x \in logged' \/ \A f \in Engines : x \in durable'[f]
    BY <1>1, <1>2, <1>4, <2>1
  <2>3. KeptInv'
    BY <1>2, <1>4 DEF Inv, KeptInv, Flushed
  <2> QED BY <2>2, <2>3 DEF DurableInv, Flushed
<1>14. /\ LockInv' /\ SyncerInv' /\ PoolInv' /\ SlotInv' /\ CleanInv' /\ WaiterInv'
       /\ SleeperHasWaker' /\ OwnInv'
  BY EngineFrame
<1>15. SlotAccounting'
  BY <1>14 DEF SlotInv
<1>16. TypeOK'
  BY <1>1, <1>11, <1>14, <1>15, TypeFromParts, PTL
<1> QED BY <1>6, <1>7, <1>9, <1>10, <1>11, <1>12, <1>13, <1>14, <1>16 DEF Inv

\* What the deletion of an entry leaves alone, but for the program counters.
LEMMA DeleteFrame ==
  ASSUME Inv, NEW t \in Threads, DeleteEntry(t)
  PROVE  /\ LockInv' /\ SyncerInv' /\ PoolInv' /\ WaiterInv' /\ SleeperHasWaker'
         /\ XidInv' /\ CountInv' /\ DurableInv' /\ KeptInv'
<1>1. /\ TypeOK /\ LockInv /\ SyncerInv /\ PoolInv /\ WaiterInv /\ SleeperHasWaker /\ XidInv
      /\ CountInv /\ DurableInv /\ KeptInv /\ Sessions \subseteq Threads
      /\ erase \in [Threads -> Seq(Cookies)]
  BY DEF Inv, TypeOK, Threads
<1>2. /\ waiters' = waiters /\ state' = state /\ active' = active /\ syncing' = syncing
      /\ pool' = pool /\ lockActive' = lockActive /\ lockSync' = lockSync /\ xid' = xid
      /\ cookie' = cookie /\ count' = count /\ asked' = asked /\ logged' = logged
      /\ failed' = failed /\ committed' = committed /\ durable' = durable /\ kept' = kept
      /\ crashes' = crashes /\ nextXid' = nextXid /\ erase[t] # <<>>
      /\ erase' = [erase EXCEPT ![t] = Tail(@)]
  BY DEF DeleteEntry, listVars, engineVars, crashVars
<1>3. \A u \in Sessions : PageOf(u)' = PageOf(u)
  BY <1>2 DEF PageOf
<1>4. \A u \in Sessions : \/ Woken(u)
                          \/ u = t /\ pc[u] = "erase" /\ pc'[u] = "idle" /\ Len(erase[t]) = 1
  BY <1>1, <1>2, DeleteWoken DEF XidInv
<1>5. LockInv' /\ SyncerInv' /\ PoolInv'
  <2>1. LockInv'
    BY <1>1, <1>2, <1>3, <1>4 DEF LockInv, Woken
  <2>2. \A u \in Sessions : /\ pc'[u] \in Syncing <=> pc[u] \in Syncing
                            /\ pc[u] \in Syncing => pc'[u] = pc[u]
    BY <1>4 DEF Woken, Syncing
  <2>3. SyncerInv'
    BY <1>1, <1>2, <1>3, <2>2 DEF SyncerInv
  <2> QED BY <1>1, <1>2, <2>1, <2>3 DEF PoolInv
<1>6. WaiterInv' /\ SleeperHasWaker'
  <2>1. \A u \in Sessions : /\ pc'[u] = "wait_sync" <=> pc[u] = "wait_sync"
                            /\ pc'[u] = "wake_sync" <=> pc[u] = "wake_sync"
    <3>1. pc' = WakePool(pc) \/ pc' = pc \/ (t \in Sessions /\ pc[t] = "erase" /\ (pc' = [pc EXCEPT ![t] = "idle"] \/ pc' = WakePool([pc EXCEPT ![t] = "idle"])))
      BY <1>1, <1>2 DEF DeleteEntry, XidInv
    <3>2. pc \in [Sessions -> PcValues]
      BY <1>1 DEF TypeOK
    <3> QED BY <3>1, <3>2 DEF WakePool
  <2>2. \A p \in Pages : WaitersOf(p)' = WaitersOf(p)
    BY <1>3, <2>1 DEF WaitersOf
  <2> QED BY <1>1, <1>2, <1>3, <2>1, <2>2 DEF WaiterInv, SleeperHasWaker
<1>7. XidInv'
  <2>1. \A u \in Sessions : /\ pc'[u] \in Carrying <=> pc[u] \in Carrying
                            /\ pc'[u] \in {"logged", "notify"} <=> pc[u] \in {"logged", "notify"}
                            /\ pc'[u] = "notify" <=> pc[u] = "notify"
    BY <1>4 DEF Woken, Carrying, PcValues
  <2>2. ASSUME NEW u \in Sessions, erase'[u] # <<>> PROVE pc'[u] = "erase"
    <3>1. erase[u] # <<>>
      BY <1>1, <1>2, <2>2
    <3>2. pc[u] = "erase"
      BY <1>1, <3>1 DEF XidInv
    <3>3. u = t => Len(erase[t]) # 1
      <4> SUFFICES ASSUME u = t, Len(erase[t]) = 1 PROVE FALSE
        OBVIOUS
      <4>1. Tail(erase[t]) \in Seq(Cookies) /\ Len(Tail(erase[t])) = 0
        BY <1>1, <1>2
      <4>2. Tail(erase[t]) = <<>>
        BY <4>1, EmptySeq
      <4> QED BY <1>1, <1>2, <2>2, <4>2
    <3> QED BY <1>4, <3>2, <3>3 DEF Woken
  <2> QED BY <1>1, <1>2, <2>1, <2>2 DEF XidInv
<1>8. CountInv'
  <2>1. \A u \in Sessions : pc'[u] = "notify" <=> pc[u] = "notify"
    BY <1>4 DEF Woken
  <2>2. \A b \in Xids : Notifiers(b)' = Notifiers(b) /\ Askers(b)' = Askers(b)
    BY <1>2, <2>1 DEF Notifiers, Askers
  <2> QED BY <1>1, <1>2, <2>2 DEF CountInv
<1>9. DurableInv' /\ KeptInv'
  BY <1>1, <1>2 DEF DurableInv, KeptInv, Flushed
<1> QED BY <1>5, <1>6, <1>7, <1>8, <1>9

LEMMA DeleteStepInv ==
  ASSUME Inv, NEW t \in Threads, DeleteEntry(t)
  PROVE  Inv'
<1>1. /\ TypeOK /\ BasicType' /\ SlotInv /\ CleanInv /\ ListInv /\ ApartInv
      /\ Sessions \subseteq Threads
      /\ slot \in [Pages -> [1..PageSize -> Xids \cup {0, Header}]]
      /\ ptr \in [Pages -> 1..PageSize + 1] /\ free \in [Pages -> 0..PageSize]
      /\ erase \in [Threads -> Seq(Cookies)] /\ committed \subseteq Xids
  BY BasicTypeDelete DEF Inv, TypeOK, Threads
<1>a. PageSize \in Nat /\ 1 \in Pages
  BY MmapAssumption DEF Pages
<1>2. PICK p \in Pages, i \in 1..PageSize :
        /\ erase[t] # <<>> /\ Head(erase[t]) = <<p, i>> /\ <<p, i>> \in ToSet(erase[t])
        /\ slot' = [slot EXCEPT ![p][i] = 0]
        /\ free' = [free EXCEPT ![p] = @ + 1]
        /\ ptr' = [ptr EXCEPT ![p] = IF i < @ THEN i ELSE @]
        /\ erase' = [erase EXCEPT ![t] = Tail(@)]
  BY <1>a, <1>1, DeleteFacts
<1>3. /\ disk' = disk /\ state' = state /\ pending' = pending /\ full' = full /\ xid' = xid
      /\ cookie' = cookie /\ asked' = asked /\ logged' = logged /\ committed' = committed
      /\ durable' = durable /\ nextXid' = nextXid
  BY DEF DeleteEntry, engineVars
\* The entry that is deleted.
<1> DEFINE x == slot[p][i]
<1>4. /\ x \in committed /\ x \in Xids /\ x # 0 /\ i \in Area(p)
      /\ \A e \in Engines : x \in durable[e]
  <2>1. Done(<<p, i>>, Engines) /\ <<p, i>> \in Cookies
    BY <1>a, <1>1, <1>2 DEF ListInv, Cookies
  <2>2. x \in committed /\ x \in Xids /\ \A e \in Engines : x \in durable[e]
    BY <1>a, <1>1, <2>1 DEF Done, Flushed, Content
  <2>3. i \in Area(p)
    BY <2>1, <2>2, XidInArea DEF Content
  <2> QED BY <2>2, <2>3, XidFacts
<1>5. \A q \in Pages : \A j \in 1..PageSize :
        slot'[q][j] = IF q = p /\ j = i THEN 0 ELSE slot[q][j]
  BY <1>a, <1>1, <1>2
<1> HIDE DEF x
<1>6. SlotInv'
  <2>1. slot'[1][1] = Header
    <3>1. ~ (p = 1 /\ i = 1)
      BY <1>a, <1>1, <1>4 DEF Area, Start
    <3>2. 1 \in 1..PageSize
      BY <1>a, <1>1, <1>2
    <3> QED BY <1>a, <1>1, <1>5, <3>1, <3>2 DEF SlotInv
  <2>2. ASSUME NEW q \in Pages
        PROVE  /\ free'[q] = Cardinality({j \in Area(q) : slot'[q][j] = 0})
               /\ \A j \in 1..ptr'[q] - 1 : slot'[q][j] # 0
    <3>0. /\ free[q] = Cardinality({j \in Area(q) : slot[q][j] = 0})
          /\ \A j \in 1..ptr[q] - 1 : slot[q][j] # 0
      BY <1>a, <1>1 DEF SlotInv, SlotAccounting
    <3>1. CASE q # p
      <4>1. slot'[q] = slot[q] /\ ptr'[q] = ptr[q] /\ free'[q] = free[q]
        BY <1>a, <1>1, <1>2, <3>1
      <4> QED BY <3>0, <4>1
    <3>2. CASE q = p
      <4> DEFINE E == {j \in Area(p) : slot[p][j] = 0}
                 F == {j \in Area(p) : slot'[p][j] = 0}
      <4>1. Area(p) \subseteq 1..PageSize
        BY <1>a, <1>1 DEF Area, Start
      <4>2. F = E \cup {i} /\ i \notin E
        BY <1>4, <1>5, <4>1 DEF x
      <4>3. IsFiniteSet(E)
        BY EmptySlotsFinite
      <4>4. free[p] = Cardinality(E)
        BY <3>0, <3>2
      <4>5. free'[p] = free[p] + 1 /\ ptr'[p] = IF i < ptr[p] THEN i ELSE ptr[p]
        BY <1>a, <1>1, <1>2
      <4>6. Cardinality(F) = Cardinality(E) + 1
        <5> HIDE DEF E, F
        <5> QED BY <4>2, <4>3, FS_AddElement
      <4>7. ASSUME NEW j \in 1..ptr'[p] - 1 PROVE slot'[p][j] # 0
        <5>1. j \in 1..ptr[p] - 1 /\ j # i /\ j \in 1..PageSize
          BY <1>a, <1>1, <1>2, <4>5
        <5> QED BY <1>5, <3>0, <3>2, <5>1
      <4> QED BY <3>2, <4>4, <4>5, <4>6, <4>7
    <3> QED BY <3>1, <3>2
  <2> QED BY <2>1, <2>2 DEF SlotInv, SlotAccounting, Area, Start
<1>7. CleanInv'
  <2> SUFFICES ASSUME NEW q \in Pages, state'[q] = "pool", NEW j \in 1..PageSize
               PROVE  slot'[q][j] \in {0, disk'[q][j]}
    BY DEF CleanInv
  <2>1. slot[q][j] \in {0, disk[q][j]}
    BY <1>1, <1>3 DEF CleanInv
  <2> QED BY <1>3, <1>5, <2>1
<1>8. GivenInv'
  <2>1. 0 < nextXid
    BY XidFacts
  <2>2. \A q \in Pages : \A j \in 1..PageSize : slot'[q][j] < nextXid' /\ disk'[q][j] < nextXid'
    BY <1>3, <1>5, <2>1 DEF Inv, GivenInv
  <2>3. \A q \in Pages : \A j \in Area(q) : slot'[q][j] # Header /\ disk'[q][j] # Header
    <3> TAKE q \in Pages
    <3> TAKE j \in Area(q)
    <3>1. j \in 1..PageSize
      BY <1>a DEF Area, Start
    <3>2. slot'[q][j] \in {0, slot[q][j]} /\ disk'[q][j] = disk[q][j]
      BY <1>3, <1>5, <3>1
    <3>3. slot[q][j] # Header /\ disk[q][j] # Header
      BY DEF Inv, GivenInv
    <3> QED BY <3>2, <3>3 DEF Header
  <2> QED BY <1>3, <2>2, <2>3 DEF Inv, GivenInv, Area, Start
\* A session that needs its XID has another slot.
<1>9. OwnInv'
  <2> SUFFICES ASSUME NEW u \in Sessions
               PROVE  /\ pc'[u] \in Owning => slot'[cookie[u][1]][cookie[u][2]] = xid[u]
                      /\ pc'[u] \in {"synced", "logged"} => disk[cookie[u][1]][cookie[u][2]] = xid[u]
    BY <1>3 DEF OwnInv, Content
  <2>1. /\ pc'[u] \in Owning => pc[u] \in Owning
        /\ pc'[u] \in {"synced", "logged"} => pc[u] \in {"synced", "logged"}
    BY <1>a, <1>1, DeleteWoken DEF Woken, Owning
  <2>2. cookie[u][1] \in Pages /\ cookie[u][2] \in 1..PageSize
    BY <1>a, <1>1, CookieParts DEF TypeOK
  <2>3. ASSUME pc[u] \in Owning PROVE slot'[cookie[u][1]][cookie[u][2]] = xid[u]
    <3>1. slot[cookie[u][1]][cookie[u][2]] = xid[u] /\ xid[u] \notin committed
      BY <2>3 DEF Inv, OwnInv, Content, XidInv, Owning
    <3> QED BY <1>4, <1>5, <2>2, <3>1 DEF x
  <2> QED BY <2>1, <2>3 DEF Inv, OwnInv
\* Another cookie leads to where it did.
<1>10. ASSUME NEW c \in Cookies, c # <<p, i>>, NEW E, Done(c, E)
       PROVE  DoneAfter(c, E)
  <2>1. c[1] \in Pages /\ c[2] \in 1..PageSize /\ ~ (c[1] = p /\ c[2] = i)
    BY <1>10 DEF Cookies
  <2>2. slot'[c[1]][c[2]] = slot[c[1]][c[2]]
    BY <1>5, <2>1
  <2> QED BY <1>3, <1>10, <2>2 DEF Done, Flushed, Content, DoneAfter
<1>11. /\ Tail(erase[t]) \in Seq(Cookies) /\ ToSet(Tail(erase[t])) \subseteq ToSet(erase[t])
       /\ IsInjective(Tail(erase[t])) /\ <<p, i>> \notin ToSet(Tail(erase[t]))
  <2>1. erase[t] \in Seq(Cookies) /\ IsInjective(erase[t])
    BY <1>a, <1>1 DEF ApartInv
  <2> QED BY <1>2, <2>1, ToSetTail
<1>12. \A u \in Threads : erase'[u] = IF u = t THEN Tail(erase[t]) ELSE erase[u]
  BY <1>a, <1>1, <1>2
<1>13. /\ ToSet(pending) \subseteq Cookies
       /\ \A b \in Xids : ToSet(full[b]) \subseteq Cookies
       /\ \A u \in Threads : ToSet(erase[u]) \subseteq Cookies
  BY <1>a, <1>1, ListTypes
<1>14. ListInv'
  <2>1. \A c \in ToSet(pending') : DoneAfter(c, Engines \ Deferred)
    <3> TAKE c \in ToSet(pending')
    <3>1. c # <<p, i>> /\ c \in Cookies /\ Done(c, Engines \ Deferred)
      BY <1>a, <1>1, <1>2, <1>3, <1>13 DEF ApartInv, Apart, ListInv
    <3> QED BY <1>10, <3>1
  <2>2. \A b \in Xids : \A c \in ToSet(full'[b]) : DoneAfter(c, Engines \ Askers(b)')
    <3> TAKE b \in Xids
    <3> TAKE c \in ToSet(full'[b])
    <3>1. Askers(b)' = Askers(b)
      BY <1>3 DEF Askers
    <3>2. c # <<p, i>> /\ c \in Cookies /\ Done(c, Engines \ Askers(b))
      BY <1>a, <1>1, <1>2, <1>3, <1>13 DEF ApartInv, Apart, ListInv
    <3> QED BY <1>10, <3>1, <3>2
  <2>3. \A u \in Threads : \A c \in ToSet(erase'[u]) : DoneAfter(c, Engines)
    <3> TAKE u \in Threads
    <3> TAKE c \in ToSet(erase'[u])
    <3>1. c \in ToSet(erase[u]) /\ c # <<p, i>>
      BY <1>a, <1>1, <1>2, <1>11, <1>12 DEF ApartInv, Apart
    <3>2. c \in Cookies /\ Done(c, Engines)
      BY <1>a, <1>1, <1>13, <3>1 DEF ListInv
    <3> QED BY <1>10, <3>1, <3>2
  <2> QED BY <2>1, <2>2, <2>3, ListAfter
<1>15. ApartInv'
  <2>1. \A u \in Threads : ToSet(erase'[u]) \subseteq ToSet(erase[u]) /\ IsInjective(erase'[u])
    BY <1>a, <1>1, <1>11, <1>12 DEF ApartInv
  <2> QED BY <1>a, <1>1, <1>3, <2>1 DEF ApartInv, Apart
<1>16. Recoverable'
  <2> SUFFICES ASSUME NEW y \in logged
               PROVE  \/ \A e \in Engines : y \in durable[e]
                      \/ \E q \in Pages : \E j \in Area(q) : slot'[q][j] = y /\ disk[q][j] = y
    BY <1>3 DEF Recoverable, Area, Start
  <2>1. CASE y = x
    BY <1>4, <2>1
  <2>2. CASE y # x /\ \E q \in Pages : \E j \in Area(q) : slot[q][j] = y /\ disk[q][j] = y
    <3>1. PICK q \in Pages : \E j \in Area(q) : slot[q][j] = y /\ disk[q][j] = y
      BY <2>2
    <3>2. PICK j \in Area(q) : slot[q][j] = y /\ disk[q][j] = y
      BY <3>1
    <3>3. j \in 1..PageSize
      BY <1>a, <1>1 DEF Area, Start
    <3>4. slot'[q][j] = y
      BY <1>5, <2>2, <3>2, <3>3 DEF x
    <3> QED BY <3>2, <3>4
  <2> QED BY <2>1, <2>2 DEF Inv, Recoverable
<1>17. /\ LockInv' /\ SyncerInv' /\ PoolInv' /\ WaiterInv' /\ SleeperHasWaker'
       /\ XidInv' /\ CountInv' /\ DurableInv' /\ KeptInv'
  BY DeleteFrame
<1>18. SlotAccounting'
  BY <1>6 DEF SlotInv
<1>19. TypeOK'
  BY <1>1, <1>17, <1>18, TypeFromParts, PTL
<1> QED BY <1>6, <1>7, <1>8, <1>9, <1>14, <1>15, <1>16, <1>17, <1>19 DEF Inv

-----------------------------------------------------------------------------
(* open(), at the first start and after a crash                            *)

\* The memory as open() leaves it.
Fresh ==
  /\ slot = [p \in Pages |-> EmptyPage(p)]
  /\ ptr = [p \in Pages |-> 1]
  /\ free = [p \in Pages |-> Cardinality(Area(p))]
  /\ waiters = [p \in Pages |-> 0] /\ state = [p \in Pages |-> "pool"]
  /\ active = 1 /\ syncing = None /\ pool = [i \in 1..NPages - 1 |-> i + 1]
  /\ lockActive = Nobody /\ lockSync = Nobody
  /\ pc = [s \in Sessions |-> "idle"] /\ xid = [s \in Sessions |-> None]
  /\ cookie = [s \in Sessions |-> NoCookie]
  /\ pending = <<>> /\ full = [x \in Xids |-> <<>>] /\ count = [x \in Xids |-> 0]
  /\ asked = [e \in Deferred |-> {}] /\ erase = [t \in Threads |-> <<>>]

\* What the file and the engines have then: every logged transaction is
\* flushed, and no transaction is committed in some engines only.
Recovered ==
  /\ disk \in [Pages -> [1..PageSize -> Xids \cup {0, Header}]] /\ disk[1] = EmptyPage(1)
  /\ \A p \in Pages : \A i \in 1..PageSize : disk[p][i] < nextXid
  /\ \A p \in Pages : \A i \in Area(p) : disk[p][i] # Header
  /\ logged \in SUBSET Xids /\ failed \in SUBSET Xids
  /\ committed \in SUBSET Xids /\ durable \in [Engines -> SUBSET Xids]
  /\ kept \in SUBSET Xids /\ nextXid \in 1..MaxXid + 1 /\ crashes \in 0..MaxCrash
  /\ logged \cap failed = {} /\ \A x \in logged \cup failed \cup committed : x < nextXid
  /\ \A e \in Engines : \A x \in durable[e] : x < nextXid
  /\ \A x \in logged \cup committed \cup kept : \A e \in Engines : x \in durable[e]
  /\ \A e, f \in Engines : durable[e] \subseteq durable[f]

LEMMA EmptyPageSlots ==
  \A p \in Pages : /\ EmptyPage(p) \in [1..PageSize -> Xids \cup {0, Header}]
                   /\ \A i \in Area(p) : i \in 1..PageSize /\ EmptyPage(p)[i] = 0
                   /\ \A i \in 1..PageSize : EmptyPage(p)[i] \in {0, Header}
                   /\ \A i \in 1..PageSize : EmptyPage(p)[i] # 0 => p = 1 /\ i = 1
                   /\ EmptyPage(1)[1] = Header
  BY MmapAssumption DEF EmptyPage, Area, Start

LEMMA FreshPool ==
  ASSUME pool = [i \in 1..NPages - 1 |-> i + 1]
  PROVE  /\ pool \in Seq(Pages) /\ IsInjective(pool) /\ ToSet(pool) = Pages \ {1}
<1>1. NPages \in Nat /\ NPages >= 3 /\ NPages - 1 \in Nat
  BY MmapAssumption
<1>2. \A i \in 1..NPages - 1 : i + 1 \in Pages
  BY <1>1 DEF Pages
<1>3. pool \in [1..NPages - 1 -> Pages]
  BY <1>2
<1>4. pool \in Seq(Pages)
  BY <1>1, <1>3, SeqDef
<1>5. DOMAIN pool = 1..NPages - 1 /\ \A i \in 1..NPages - 1 : pool[i] = i + 1
  OBVIOUS
<1>6. IsInjective(pool)
  BY <1>1, <1>5 DEF IsInjective
<1>7. ToSet(pool) \subseteq Pages \ {1}
  BY <1>1, <1>5 DEF ToSet, Pages
<1>8. ASSUME NEW p \in Pages \ {1} PROVE p \in ToSet(pool)
  <2>1. p - 1 \in 1..NPages - 1 /\ (p - 1) + 1 = p
    BY <1>1 DEF Pages
  <2>2. pool[p - 1] = p
    BY <1>5, <2>1
  <2> QED BY <1>5, <2>1, <2>2 DEF ToSet
<1> QED BY <1>4, <1>6, <1>7, <1>8

LEMMA FreshInv == Fresh /\ Recovered => Inv
<1> SUFFICES ASSUME Fresh, Recovered PROVE Inv
  OBVIOUS
<1>1. /\ PageSize \in Nat /\ PageSize >= 2 /\ NPages \in Nat /\ 1 \in Pages /\ None \notin Pages
      /\ None \notin Xids /\ MaxXid \in Nat
  BY MmapAssumption DEF Pages, None, Xids
<1>2. pool \in Seq(Pages) /\ IsInjective(pool) /\ ToSet(pool) = Pages \ {1}
  BY FreshPool DEF Fresh
<1>3. /\ \A s \in Sessions : pc[s] = "idle" /\ xid[s] = None /\ cookie[s] = NoCookie
      /\ \A t \in Threads : erase[t] = <<>>
      /\ \A x \in Xids : full[x] = <<>> /\ count[x] = 0
      /\ \A e \in Deferred : asked[e] = {}
      /\ \A p \in Pages : waiters[p] = 0 /\ state[p] = "pool" /\ ptr[p] = 1
                          /\ slot[p] = EmptyPage(p) /\ free[p] = Cardinality(Area(p))
      /\ Sessions \subseteq Threads
  BY DEF Fresh, Threads
<1>4. BasicType
  <2>1. slot \in [Pages -> [1..PageSize -> Xids \cup {0, Header}]]
    BY EmptyPageSlots DEF Fresh
  <2>2. ptr \in [Pages -> 1..PageSize + 1] /\ state \in [Pages -> {"pool", "error", "dirty"}]
    BY <1>1 DEF Fresh
  <2>3. free \in [Pages -> Int]
    <3>1. \A p \in Pages : Start(p) \in Int /\ PageSize \in Int
      BY <1>1 DEF Start
    <3>2. \A p \in Pages : IsFiniteSet(Area(p))
      BY <3>1, FS_Interval DEF Area
    <3>3. \A p \in Pages : Cardinality(Area(p)) \in Int
      BY <3>2, FS_CardinalityType
    <3> QED BY <3>3 DEF Fresh
  <2>4. waiters \in [Pages -> Int] /\ count \in [Xids -> Int]
    BY DEF Fresh
  <2>5. NoCookie \in Cookies
    BY <1>1 DEF NoCookie, Cookies
  <2>6. xid \in [Sessions -> Xids \cup {None}] /\ cookie \in [Sessions -> Cookies]
    BY <2>5 DEF Fresh
  <2>7. /\ pending \in Seq(Cookies) /\ full \in [Xids -> Seq(Cookies)]
        /\ erase \in [Threads -> Seq(Cookies)] /\ asked \in [Deferred -> SUBSET Xids]
    BY DEF Fresh
  <2>8. pc \in [Sessions -> PcValues]
    BY DEF Fresh, PcValues
  <2> QED BY <1>1, <1>2, <2>1, <2>2, <2>3, <2>4, <2>6, <2>7, <2>8
          DEF BasicType, Fresh, Recovered
<1>5. LockInv /\ SyncerInv /\ SleeperHasWaker /\ OwnInv
  BY <1>3 DEF LockInv, SyncerInv, SleeperHasWaker, OwnInv, Syncing, Owning, Fresh
<1>6. PoolInv
  BY <1>1, <1>2, <1>3 DEF PoolInv, Fresh
<1>7. SlotInv
  <2>1. ASSUME NEW p \in Pages
        PROVE  /\ free[p] = Cardinality({i \in Area(p) : slot[p][i] = 0})
               /\ \A i \in 1..ptr[p] - 1 : slot[p][i] # 0
    <3>1. {i \in Area(p) : slot[p][i] = 0} = Area(p)
      BY <1>3, EmptyPageSlots
    <3>2. free[p] = Cardinality(Area(p)) /\ ptr[p] = 1
      BY <1>3
    <3>3. \A i \in 1..ptr[p] - 1 : FALSE
      BY <3>2
    <3>4. free[p] = Cardinality({i \in Area(p) : slot[p][i] = 0})
      BY <3>1, <3>2, Zenon
    <3> QED BY <3>3, <3>4
  <2>2. slot[1][1] = Header
    BY <1>1, <1>3, EmptyPageSlots
  <2> QED BY <2>1, <2>2 DEF SlotInv, SlotAccounting
<1>8. CleanInv
  <2> SUFFICES ASSUME NEW p \in Pages, NEW i \in 1..PageSize PROVE slot[p][i] \in {0, disk[p][i]}
    BY DEF CleanInv
  <2> QED BY <1>3, EmptyPageSlots DEF Recovered
<1>9. WaiterInv
  <2>1. \A p \in Pages : WaitersOf(p) = {}
    BY <1>3 DEF WaitersOf
  <2> QED BY <1>3, <2>1, FS_EmptySet DEF WaiterInv
<1>10. CountInv
  <2>1. \A b \in Xids : Notifiers(b) = {} /\ Askers(b) = {}
    BY <1>3 DEF Notifiers, Askers
  <2>2. Cardinality({}) = 0
    BY FS_EmptySet
  <2>3. \A b \in Xids : Notifiers(b) = {} /\ Cardinality(Askers(b)) = 0 /\ count[b] = 0
    BY <1>3, <2>1, <2>2
  <2> QED BY <2>3 DEF CountInv
<1>11. XidInv
  <2>1. \A s \in Sessions : xid[s] < nextXid /\ xid[s] \notin logged \cup failed \cup committed
    <3>1. None < nextXid
      BY <1>1 DEF Recovered, None
    <3> QED BY <1>1, <1>3, <3>1 DEF Recovered
  <2>2. "idle" \notin Carrying
    BY DEF Carrying, PcValues
  <2> QED BY <1>3, <2>1, <2>2 DEF XidInv, Recovered
<1>12. GivenInv
  <2>1. ASSUME NEW p \in Pages, NEW i \in 1..PageSize PROVE slot[p][i] < nextXid
    <3>1. slot[p][i] \in {0, Header}
      BY <1>3, EmptyPageSlots
    <3> QED BY <1>1, <3>1 DEF Header, Recovered
  <2>2. ASSUME NEW p \in Pages, NEW i \in Area(p) PROVE slot[p][i] # Header
    <3>1. slot[p][i] = 0
      BY <1>3, EmptyPageSlots
    <3> QED BY <3>1 DEF Header
  <2> QED BY <2>1, <2>2 DEF GivenInv, Recovered
<1>13. ListInv /\ ApartInv
  <2>1. \A q : Apart(<<>>, q)
    BY ToSetEmpty DEF Apart
  <2>2. pending = <<>>
    BY DEF Fresh
  <2> QED BY <1>3, <2>1, <2>2, ToSetEmpty DEF ListInv, ApartInv
<1>14. Recoverable /\ DurableInv /\ KeptInv
  BY DEF Recovered, Recoverable, DurableInv, KeptInv, Flushed
<1>15. TypeOK
  BY <1>4, <1>7, <1>9, <1>10, TypeFromParts DEF SlotInv
<1> QED BY <1>5, <1>6, <1>7, <1>8, <1>9, <1>10, <1>11, <1>12, <1>13, <1>14, <1>15 DEF Inv

LEMMA InitInv == Init => Inv
<1> SUFFICES ASSUME Init PROVE Inv
  OBVIOUS
<1>1. Fresh
  BY DEF Init, Fresh
<1>2. 1 \in Pages /\ MaxXid \in Nat /\ MaxCrash \in Nat
  BY MmapAssumption DEF Pages
<1>3. /\ \A p \in Pages : disk[p] = EmptyPage(p)
      /\ disk \in [Pages -> [1..PageSize -> Xids \cup {0, Header}]]
  BY EmptyPageSlots DEF Init
<1>4. /\ \A p \in Pages : \A i \in 1..PageSize : disk[p][i] < nextXid
      /\ \A p \in Pages : \A i \in Area(p) : disk[p][i] # Header
  <2>1. nextXid = 1
    BY DEF Init
  <2>2. ASSUME NEW p \in Pages, NEW i \in 1..PageSize PROVE disk[p][i] < nextXid
    <3>1. disk[p][i] \in {0, Header}
      BY <1>3, EmptyPageSlots
    <3> QED BY <2>1, <3>1 DEF Header
  <2>3. ASSUME NEW p \in Pages, NEW i \in Area(p) PROVE disk[p][i] # Header
    <3>1. disk[p][i] = 0
      BY <1>3, EmptyPageSlots
    <3> QED BY <3>1 DEF Header
  <2> QED BY <2>2, <2>3
<1>5. Recovered
  BY <1>2, <1>3, <1>4 DEF Init, Recovered
<1> QED BY <1>1, <1>5, FreshInv

\* What may be in the file after a crash is in memory or was synced.
LEMMA ImageSlots ==
  ASSUME NEW image \in Images
  PROVE  \E written \in SUBSET Cookies :
           image = [p \in Pages |-> [i \in 1..PageSize |->
                      IF <<p, i>> \in written THEN slot[p][i] ELSE disk[p][i]]]
  BY DEF Images

LEMMA RecoveredXidsAre ==
  ASSUME NEW image
  PROVE  \A x : x \in RecoveredXids(image) <=>
                 x # 0 /\ \E p \in Pages : \E i \in Area(p) : x = image[p][i]
<1> DEFINE F(q) == {image[q][j] : j \in Area(q)}
           U == UNION {F(q) : q \in Pages}
<1>1. RecoveredXids(image) = U \ {0}
  BY DEF RecoveredXids
<1>2. \A x : x \in U <=> \E p \in Pages : x \in F(p)
  <2> HIDE DEF F
  <2> QED OBVIOUS
<1>3. \A x, p : x \in F(p) <=> \E i \in Area(p) : x = image[p][i]
  OBVIOUS
<1> HIDE DEF F, U
<1> QED BY <1>1, <1>2, <1>3

\* recover() finds every logged transaction that an engine may have lost.
LEMMA CrashInv ==
  ASSUME Inv, Crash
  PROVE  Inv'
<1>1. PICK image \in Images :
        /\ durable' = [e \in Engines |-> durable[e] \cup (RecoveredXids(image) \ failed)]
        /\ disk' = [image EXCEPT ![1] = EmptyPage(1)]
  BY DEF Crash
<1>2. /\ committed' = UNION {durable'[e] : e \in Engines} /\ kept' = logged /\ logged' = logged
      /\ failed' = failed /\ nextXid' = nextXid /\ crashes' = crashes + 1 /\ crashes < MaxCrash
  BY DEF Crash
<1>3. Fresh'
  BY DEF Crash, Fresh
<1>4. /\ TypeOK /\ XidInv /\ GivenInv /\ Recoverable /\ DurableInv
      /\ slot \in [Pages -> [1..PageSize -> Xids \cup {0, Header}]]
      /\ disk \in [Pages -> [1..PageSize -> Xids \cup {0, Header}]]
      /\ logged \subseteq Xids /\ failed \subseteq Xids
      /\ durable \in [Engines -> SUBSET Xids] /\ nextXid \in 1..MaxXid + 1 /\ crashes \in 0..MaxCrash
  BY DEF Inv, TypeOK
<1>5. PageSize \in Nat /\ PageSize >= 2 /\ 1 \in Pages /\ MaxCrash \in Nat
  BY MmapAssumption DEF Pages
<1>6. /\ image \in [Pages -> [1..PageSize -> Xids \cup {0, Header}]]
      /\ \A p \in Pages : \A i \in 1..PageSize : image[p][i] \in {slot[p][i], disk[p][i]}
  <2>1. PICK written \in SUBSET Cookies :
          image = [p \in Pages |-> [i \in 1..PageSize |->
                     IF <<p, i>> \in written THEN slot[p][i] ELSE disk[p][i]]]
    BY ImageSlots
  <2>2. \A p \in Pages : image[p] = [i \in 1..PageSize |->
                     IF <<p, i>> \in written THEN slot[p][i] ELSE disk[p][i]]
    BY <2>1
  <2>3. ASSUME NEW p \in Pages
        PROVE  image[p] \in [1..PageSize -> Xids \cup {0, Header}]
    <3>1. \A i \in 1..PageSize : /\ slot[p][i] \in Xids \cup {0, Header}
                                 /\ disk[p][i] \in Xids \cup {0, Header}
      BY <1>4
    <3> QED BY <2>2, <3>1
  <2>4. \A p \in Pages : \A i \in 1..PageSize : image[p][i] \in {slot[p][i], disk[p][i]}
    BY <2>2
  <2> QED BY <2>1, <2>3, <2>4
<1>7. \A p \in Pages : Area(p) \subseteq 1..PageSize
  BY <1>5 DEF Area, Start
<1>8. ASSUME NEW x \in RecoveredXids(image) PROVE x \in Xids /\ x < nextXid
  <2>1. PICK p \in Pages : \E i \in Area(p) : x = image[p][i]
    BY <1>8, RecoveredXidsAre
  <2>2. PICK i \in Area(p) : x = image[p][i]
    BY <2>1
  <2>3. x # 0
    BY <1>8, RecoveredXidsAre
  <2>4. i \in 1..PageSize
    BY <1>7, <2>2
  <2>5. x \in {slot[p][i], disk[p][i]} /\ x \in Xids \cup {0, Header}
    <3>1. image[p] \in [1..PageSize -> Xids \cup {0, Header}]
      BY <1>6
    <3>2. image[p][i] \in Xids \cup {0, Header}
      BY <2>4, <3>1
    <3> QED BY <1>6, <2>2, <2>4, <3>2
  <2>6. x # Header /\ x < nextXid
    BY <1>4, <2>2, <2>4, <2>5 DEF GivenInv
  <2> QED BY <2>3, <2>5, <2>6
<1>9. ASSUME NEW x \in logged, NEW e \in Engines PROVE x \in durable'[e]
  <2>1. CASE \A f \in Engines : x \in durable[f]
    BY <1>1, <2>1
  <2>2. CASE \E p \in Pages : \E i \in Area(p) : slot[p][i] = x /\ disk[p][i] = x
    <3>1. PICK p \in Pages : \E i \in Area(p) : slot[p][i] = x /\ disk[p][i] = x
      BY <2>2
    <3>2. PICK i \in Area(p) : slot[p][i] = x /\ disk[p][i] = x
      BY <3>1
    <3>3. image[p][i] = x
      BY <1>6, <1>7, <3>2
    <3>4. x \in Xids /\ x # 0 /\ x \notin failed
      BY <1>4, XidFacts DEF XidInv
    <3>5. x \in RecoveredXids(image)
      BY <3>2, <3>3, <3>4, RecoveredXidsAre
    <3> QED BY <1>1, <3>4, <3>5
  <2> QED BY <1>4, <2>1, <2>2 DEF Recoverable
<1>10. ASSUME NEW e \in Engines, NEW x \in durable'[e]
       PROVE  x \in Xids /\ x < nextXid /\ \A f \in Engines : x \in durable'[f]
  <2>1. CASE x \in RecoveredXids(image) \ failed
    BY <1>1, <1>8, <2>1
  <2>2. CASE x \in durable[e]
    <3>1. x \in Xids /\ x < nextXid
      BY <1>4, <2>2 DEF GivenInv
    <3>2. x \in logged \/ \A f \in Engines : x \in durable[f]
      BY <1>4, <2>2 DEF DurableInv, Flushed
    <3>3. \A f \in Engines : x \in durable'[f]
      BY <1>1, <1>9, <3>2
    <3> QED BY <3>1, <3>3
  <2> QED BY <1>1, <2>1, <2>2
<1>11. Recovered'
  <2>1. disk' \in [Pages -> [1..PageSize -> Xids \cup {0, Header}]] /\ disk'[1] = EmptyPage(1)
    BY <1>1, <1>5, <1>6, EmptyPageSlots
  <2>2. ASSUME NEW p \in Pages, NEW i \in 1..PageSize PROVE disk'[p][i] < nextXid'
    <3>1. CASE p = 1
      <4>1. disk'[p][i] \in {0, Header}
        BY <1>5, <2>1, <3>1, EmptyPageSlots
      <4> QED BY <1>2, <1>4, <4>1, MmapAssumption DEF Header
    <3>2. CASE p # 1
      <4>1. disk'[p][i] \in {slot[p][i], disk[p][i]}
        BY <1>1, <1>6, <3>2
      <4> QED BY <1>2, <1>4, <4>1 DEF GivenInv
    <3> QED BY <3>1, <3>2
  <2>3. ASSUME NEW p \in Pages, NEW i \in Area(p) PROVE disk'[p][i] # Header
    <3>1. CASE p = 1
      <4>1. disk'[p][i] = 0
        BY <1>5, <2>1, <3>1, EmptyPageSlots
      <4> QED BY <4>1 DEF Header
    <3>2. CASE p # 1
      <4>1. disk'[p][i] \in {slot[p][i], disk[p][i]}
        BY <1>1, <1>6, <1>7, <3>2
      <4> QED BY <1>4, <4>1 DEF GivenInv
    <3> QED BY <3>1, <3>2
  <2>4. durable' \in [Engines -> SUBSET Xids] /\ committed' \in SUBSET Xids
    <3>1. \A e \in Engines : durable'[e] \subseteq Xids
      BY <1>10
    <3>2. durable' \in [Engines -> SUBSET Xids]
      BY <1>1, <3>1
    <3> QED BY <1>2, <3>1, <3>2
  <2>5. logged' \in SUBSET Xids /\ failed' \in SUBSET Xids /\ kept' \in SUBSET Xids
        /\ nextXid' \in 1..MaxXid + 1 /\ crashes' \in 0..MaxCrash
    BY <1>2, <1>4, <1>5
  <2>6. \A x \in logged' \cup failed' \cup committed' : x < nextXid'
    BY <1>2, <1>4, <1>10 DEF XidInv
  <2>7. logged' \cap failed' = {}
    BY <1>2, <1>4 DEF XidInv
  <2>8. \A x \in logged' \cup committed' \cup kept' : \A e \in Engines : x \in durable'[e]
    BY <1>2, <1>9, <1>10
  <2>9. /\ \A e \in Engines : \A x \in durable'[e] : x < nextXid'
        /\ \A e, f \in Engines : durable'[e] \subseteq durable'[f]
    BY <1>2, <1>10
  <2> QED BY <2>1, <2>2, <2>3, <2>4, <2>5, <2>6, <2>7, <2>8, <2>9 DEF Recovered, Area, Start, EmptyPage
<1> QED BY <1>3, <1>11, FreshInv, PTL

\* Nothing else than the variables is in the invariant.
LEMMA StutterInv ==
  ASSUME Inv, UNCHANGED vars
  PROVE  Inv'
<1>1. /\ TypeOK /\ LockInv /\ SyncerInv /\ PoolInv /\ SlotInv /\ CleanInv /\ WaiterInv
      /\ XidInv /\ GivenInv /\ OwnInv /\ ListInv /\ ApartInv /\ CountInv /\ Recoverable
      /\ DurableInv /\ KeptInv /\ SleeperHasWaker
  BY DEF Inv
<1>2. /\ slot' = slot /\ ptr' = ptr /\ free' = free /\ waiters' = waiters /\ state' = state
      /\ disk' = disk /\ active' = active /\ syncing' = syncing /\ pool' = pool
      /\ lockActive' = lockActive /\ lockSync' = lockSync /\ pc' = pc /\ xid' = xid
      /\ cookie' = cookie
  BY DEF vars, pageVars, listVars
<1>3. /\ pending' = pending /\ full' = full /\ count' = count /\ asked' = asked /\ erase' = erase
      /\ logged' = logged /\ failed' = failed /\ committed' = committed /\ durable' = durable
      /\ kept' = kept /\ crashes' = crashes /\ nextXid' = nextXid
  BY DEF vars, unlogVars, engineVars, crashVars
<1>4. /\ \A s \in Sessions : PageOf(s)' = PageOf(s)
      /\ \A b \in Xids : Notifiers(b)' = Notifiers(b) /\ Askers(b)' = Askers(b)
  BY <1>2, <1>3 DEF PageOf, Notifiers, Askers
<1>5. TypeOK'
  BY <1>1, <1>2, <1>3 DEF TypeOK
<1>6. LockInv' /\ SyncerInv' /\ PoolInv'
  BY <1>1, <1>2, <1>4 DEF LockInv, SyncerInv, PoolInv
<1>7. SlotInv' /\ CleanInv'
  BY <1>1, <1>2 DEF SlotInv, SlotAccounting, CleanInv, Area, Start
<1>8. WaiterInv' /\ SleeperHasWaker'
  <2>1. \A p \in Pages : WaitersOf(p)' = WaitersOf(p)
    BY <1>2, <1>4 DEF WaitersOf
  <2> QED BY <1>1, <1>2, <1>4, <2>1 DEF WaiterInv, SleeperHasWaker
<1>9. XidInv' /\ GivenInv' /\ OwnInv'
  BY <1>1, <1>2, <1>3 DEF XidInv, GivenInv, OwnInv, Content, Area, Start
<1>10. ListInv'
  <2>1. \A c, E : Done(c, E) => DoneAfter(c, E)
    BY <1>2, <1>3 DEF Done, DoneAfter, Content, Flushed
  <2>2. /\ \A c \in ToSet(pending') : DoneAfter(c, Engines \ Deferred)
        /\ \A b \in Xids : \A c \in ToSet(full'[b]) : DoneAfter(c, Engines \ Askers(b)')
        /\ \A t \in Threads : \A c \in ToSet(erase'[t]) : DoneAfter(c, Engines)
    BY <1>1, <1>3, <1>4, <2>1 DEF ListInv
  <2> QED BY <2>2, ListAfter
<1>11. ApartInv'
  BY <1>1, <1>3 DEF ApartInv
<1>12. CountInv'
  BY <1>1, <1>3, <1>4 DEF CountInv
<1>13. Recoverable' /\ DurableInv' /\ KeptInv'
  BY <1>1, <1>2, <1>3 DEF Recoverable, DurableInv, KeptInv, Flushed, Area, Start
<1> QED BY <1>5, <1>6, <1>7, <1>8, <1>9, <1>10, <1>11, <1>12, <1>13 DEF Inv

-----------------------------------------------------------------------------
(* Theorems                                                                *)

\* The inductive invariant holds in every behaviour of the log.
THEOREM Invariance == Spec => []Inv
<1>1. Init => Inv
  BY InitInv
<1>2. Inv /\ [Next]_vars => Inv'
  <2> SUFFICES ASSUME Inv, [Next]_vars PROVE Inv'
    OBVIOUS
  <2>1. CASE UNCHANGED vars
    BY <2>1, StutterInv
  <2>2. CASE Next
    BY <2>2, SessionStep, EngineStepInv, DeleteStepInv, CrashInv DEF Next, EngineStep
  <2> QED BY <2>1, <2>2
<1> QED BY <1>1, <1>2, PTL DEF Spec

\* The variables of the log keep their types in every behaviour.
THEOREM TypeCorrect == Spec => []TypeOK
<1>1. Inv => TypeOK
  BY DEF Inv
<1> QED BY <1>1, Invariance, PTL

\* PAGE::free and PAGE::ptr agree with the slots whatever the order in which
\* the threads of unlog() and of the engines delete entries: the search for an
\* empty slot in log_one_transaction() stays inside the page.
THEOREM SlotAccountingHolds == Spec => []SlotAccounting
<1>1. Inv => SlotAccounting
  BY DEF Inv, SlotInv
<1> QED BY <1>1, Invariance, PTL

\* No page is lost from the lists of TC_LOG_MMAP or is in two of them, and
\* sync() runs in one session at a time, never for the active page.
THEOREM PageListsHold == Spec => []PageLists
<1>1. Inv => PageLists
  <2> SUFFICES ASSUME Inv PROVE PageLists
    OBVIOUS
  <2> DEFINE Syncers == {s \in Sessions : pc[s] \in Syncing}
  <2>1. /\ SyncerInv /\ PoolInv /\ pool \in Seq(Pages)
        /\ active \in Pages \cup {None} /\ syncing \in Pages \cup {None}
    BY DEF Inv, TypeOK
  <2>2. None \notin Pages
    BY MmapAssumption DEF Pages, None
  <2>3. Len(pool) = Cardinality(ToSet(pool))
    BY <2>1, InjectiveLen DEF PoolInv
  <2>4. Pages = ToSet(pool) \cup ({active, syncing} \ {None})
    <3>1. ToSet(pool) \subseteq Pages
      BY <2>1, ToSetElement
    <3> QED BY <2>1, <2>2, <3>1 DEF PoolInv
  <2>5. syncing # None <=> Syncers # {}
    <3>1. \A s \in Syncers : PageOf(s) \in Pages
      BY PageOfType DEF Inv
    <3> QED BY <2>1, <2>2, <3>1 DEF SyncerInv
  <2>6. Cardinality(Syncers) <= 1
    <3>1. CASE Syncers = {}
      BY <3>1, FS_EmptySet
    <3>2. CASE Syncers # {}
      <4>1. PICK s \in Sessions : s \in Syncers
        BY <3>2
      <4>2. Syncers = {s}
        BY <2>1, <4>1 DEF SyncerInv
      <4> QED BY <4>2, FS_Singleton
    <3> QED BY <3>1, <3>2
  <2>7. Syncers = {s \in Sessions : pc[s] \in {"deactivate", "msync", "synced", "sync_error"}}
    BY DEF Syncing
  <2>8. /\ active \notin ToSet(pool)
        /\ \A s \in Syncers :
             /\ pc[s] = "deactivate" => active = syncing
             /\ pc[s] = "msync" => active # syncing /\ syncing \notin ToSet(pool)
    BY <2>1 DEF SyncerInv, PoolInv
  <2> HIDE DEF Syncers
  <2> QED BY <2>3, <2>4, <2>5, <2>6, <2>7, <2>8 DEF PageLists
<1> QED BY <1>1, Invariance, PTL

\* A logged XID stays in its slot, in memory and in the file, as long as some
\* engine still needs it: delete_entry() and the reuse of pages never take it
\* away too early, for any number of sessions, pages and engines.
THEOREM RecoverableHolds == Spec => []Recoverable
<1>1. Inv => Recoverable
  BY DEF Inv
<1> QED BY <1>1, Invariance, PTL

\* What recover() makes of the file after a crash at any point: a transaction
\* that was logged is committed in all engines, and no transaction is
\* committed in some of them only.
THEOREM AllOrNothingHolds == Spec => []AllOrNothing
<1>1. Inv => AllOrNothing
  <2> SUFFICES ASSUME Inv, crashes > 0 PROVE
        /\ \A e \in Engines : kept \subseteq durable[e]
        /\ \A x \in Xids \ (failed \cup (logged \ kept)) : \A e, f \in Engines :
             x \in durable[e] => x \in durable[f]
    BY DEF AllOrNothing
  <2>1. \A x \in kept : Flushed(x, Engines)
    BY DEF Inv, KeptInv
  <2>2. ASSUME NEW x \in Xids \ (failed \cup (logged \ kept)), NEW e \in Engines,
               NEW f \in Engines, x \in durable[e]
        PROVE  x \in durable[f]
    <3>1. x \in logged \/ Flushed(x, Engines)
      BY <2>2 DEF Inv, DurableInv
    <3> QED BY <2>1, <3>1 DEF Flushed
  <2> QED BY <2>1, <2>2 DEF Flushed
<1> QED BY <1>1, Invariance, PTL

\* A session that waits for the sync of its page in log_one_transaction() is
\* never left without one that will wake it up, although sync() looks at
\* `active' without LOCK_active.
THEOREM SleeperHasWakerHolds == Spec => []SleeperHasWaker
<1>1. Inv => SleeperHasWaker
  BY DEF Inv
<1> QED BY <1>1, Invariance, PTL
=============================================================================
