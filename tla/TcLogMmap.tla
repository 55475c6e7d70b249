------------------------------ MODULE TcLogMmap ------------------------------
(***************************************************************************)
(* TC_LOG_MMAP of sql/log.cc, the transaction coordinator log that is used *)
(* when two engines take part in a transaction and there is no binlog.     *)
(*                                                                         *)
(* The log is a memory-mapped file of pages with slots for XIDs.  A        *)
(* session writes its XID to the active page, and the page is synced       *)
(* either by the session itself, when no other page is being synced, or by *)
(* one of the sessions that wait for it.  An XID leaves the log only after *)
(* every engine has said that it needs no recovery any more: unlog()       *)
(* collects a page full of cookies and then asks the engines for a         *)
(* checkpoint.                                                             *)
(*                                                                         *)
(* An action is a piece of code between two operations on a mutex that     *)
(* another thread can observe.  LOCK_active and LOCK_sync are variables,   *)
(* LOCK_pool is held across steps in one place only (PoolLocked), and the  *)
(* mutexes of the pages and LOCK_pending_checkpoint never are.             *)
(* get_active_from_pool() reads the pages one after the other without      *)
(* their locks; a page in the pool only becomes more usable, so that the   *)
(* scan is one step.                                                       *)
(***************************************************************************)
EXTENDS Integers, Sequences, FiniteSets, SequencesExt, FiniteSetsExt

CONSTANTS
  Sessions,
  Engines,     \* the engines of a transaction, each with 2-phase commit
  Deferred,    \* those with commit_checkpoint_request(), flushing later
  NPages,      \* npages
  PageSize,    \* tc_log_page_size / sizeof(my_xid)
  MaxXid,      \* bound: transactions run
  SyncErrors,  \* msync() may fail
  MaxCrash     \* bound: crashes

\* open() refuses fewer than 3 pages.  Only InnoDB (or XtraDB in its place)
\* implements commit_checkpoint_request().  Sessions and engines are threads
\* of their own; "nobody" is the owner of a free mutex.
ASSUME MmapAssumption ==
  /\ NPages \in Nat /\ NPages >= 3
  /\ PageSize \in Nat /\ PageSize >= 2
  /\ MaxXid \in Nat /\ MaxCrash \in Nat
  /\ SyncErrors \in BOOLEAN
  /\ IsFiniteSet(Sessions) /\ "nobody" \notin Sessions
  /\ IsFiniteSet(Engines) /\ Deferred \subseteq Engines
  /\ Cardinality(Deferred) <= 1 /\ Sessions \cap Deferred = {}

None == 0
Nobody == "nobody"
Pages == 1..NPages
Xids == 1..MaxXid
\* The magic number in the first slot of the first page.
Header == -1
\* PAGE::start; the first page is one slot shorter.
Start(p) == IF p = 1 THEN 2 ELSE 1
Area(p) == Start(p)..PageSize
Cookies == {<<p, i>> : p \in Pages, i \in 1..PageSize}
\* A cookie of zero: the header, where no XID is ever stored.
NoCookie == <<1, 1>>

VARIABLES
  slot, ptr, free, waiters, state,   \* the mapped memory and struct st_page
  disk,                              \* the file as of the last sync of each page
  active, syncing, pool,
  lockActive, lockSync,
  pc, xid, cookie,
  pending,        \* pending_checkpoint->cookies
  full, count,    \* full buffers, by the XID that filled them, and pending_count
  asked,          \* buffers an engine has been asked to checkpoint
  erase,          \* what a thread in commit_checkpoint_notify() has yet to delete
  logged, failed, \* XIDs log_one_transaction() succeeded and failed for
  committed, durable,  \* committed in the engines' memory; on their disk
  kept,           \* XIDs logged before the last crash
  nextXid, crashes

pageVars == <<slot, ptr, free, waiters, state>>
listVars == <<active, syncing, pool>>
unlogVars == <<pending, full, count, asked, erase>>
engineVars == <<committed, durable>>
crashVars == <<kept, crashes>>
vars == <<pageVars, disk, listVars, lockActive, lockSync, pc, xid, cookie,
          unlogVars, logged, failed, engineVars, crashVars, nextXid>>

Threads == Sessions \cup Deferred
EmptyPage(p) == [i \in 1..PageSize |-> IF p = 1 /\ i = 1 THEN Header ELSE 0]

\* open(): ptr of the first page points at the header, not at start.
Init ==
  /\ slot = [p \in Pages |-> EmptyPage(p)] /\ disk = slot
  /\ ptr = [p \in Pages |-> 1]
  /\ free = [p \in Pages |-> Cardinality(Area(p))]
  /\ waiters = [p \in Pages |-> 0] /\ state = [p \in Pages |-> "pool"]
  /\ active = 1 /\ syncing = None /\ pool = [i \in 1..NPages - 1 |-> i + 1]
  /\ lockActive = Nobody /\ lockSync = Nobody
  /\ pc = [s \in Sessions |-> "idle"] /\ xid = [s \in Sessions |-> None]
  /\ cookie = [s \in Sessions |-> NoCookie]
  /\ pending = <<>> /\ full = [x \in Xids |-> <<>>] /\ count = [x \in Xids |-> 0]
  /\ asked = [e \in Deferred |-> {}] /\ erase = [t \in Threads |-> <<>>]
  /\ logged = {} /\ failed = {}
  /\ committed = {} /\ durable = [e \in Engines |-> {}]
  /\ kept = {} /\ nextXid = 1 /\ crashes = 0

-----------------------------------------------------------------------------
(* Condition variables: the sleepers that a signal or broadcast wakes.     *)

PoolLocked == \E s \in Sessions : pc[s] = "overflow"
PageOf(s) == cookie[s][1]

\* broadcast of COND_active
WakeActive(f) == [s \in Sessions |-> IF f[s] = "wait_active" THEN "log" ELSE f[s]]
\* signal of COND_pool; its waiter holds LOCK_active, there is at most one
WakePool(f) == [s \in Sessions |-> IF f[s] = "wait_pool" THEN "pool" ELSE f[s]]
\* broadcast of PAGE::cond
WakePage(f, p) ==
  [s \in Sessions |-> IF f[s] = "wait_sync" /\ PageOf(s) = p THEN "wake_sync" ELSE f[s]]

-----------------------------------------------------------------------------
(* log_one_transaction()                                                   *)

\* The XID of the transaction, given out when the session comes here first.
\* After the last crash that is modelled no transaction starts: the log is
\* as it was in the beginning.
MayLog(s) ==
  \/ pc[s] = "log"
  \/ pc[s] = "idle" /\ nextXid <= MaxXid /\ (crashes < MaxCrash \/ MaxCrash = 0)
XidOf(s) == IF pc[s] = "idle" THEN nextXid ELSE xid[s]
TakeXid(s) ==
  /\ xid' = [xid EXCEPT ![s] = XidOf(s)]
  /\ nextXid' = IF pc[s] = "idle" THEN nextXid + 1 ELSE nextXid

\* The first empty slot at or after ptr.
EmptySlot(p) == Min({i \in ptr[p]..PageSize : slot[p][i] = 0})

\* The XID is stored in page p and the page becomes dirty.
Store(s, p) ==
  LET i == EmptySlot(p) IN
  /\ slot' = [slot EXCEPT ![p][i] = XidOf(s)]
  /\ ptr' = [ptr EXCEPT ![p] = i + 1]
  /\ free' = [free EXCEPT ![p] = @ - 1]
  /\ state' = [state EXCEPT ![p] = "dirty"]
  /\ cookie' = [cookie EXCEPT ![s] = <<p, i>>]
  /\ UNCHANGED waiters

\* The active page is full: wait for COND_active without LOCK_active.
WaitActive(s) ==
  /\ MayLog(s) /\ TakeXid(s) /\ lockActive = Nobody
  /\ active # None /\ free[active] = 0
  /\ pc' = [pc EXCEPT ![s] = "wait_active"]
  /\ UNCHANGED <<pageVars, disk, listVars, lockActive, lockSync, cookie,
                 unlogVars, logged, failed, engineVars, crashVars>>

WriteActive(s) ==
  /\ MayLog(s) /\ TakeXid(s) /\ lockActive = Nobody
  /\ active # None /\ free[active] > 0
  /\ lockActive' = s
  /\ Store(s, active)
  /\ pc' = [pc EXCEPT ![s] = "written"]
  /\ UNCHANGED <<disk, listVars, lockSync, unlogVars, logged, failed,
                 engineVars, crashVars>>

NoActive(s) ==
  /\ MayLog(s) /\ TakeXid(s) /\ lockActive = Nobody /\ active = None
  /\ lockActive' = s
  /\ pc' = [pc EXCEPT ![s] = "pool"]
  /\ UNCHANGED <<pageVars, disk, listVars, lockSync, cookie, unlogVars,
                 logged, failed, engineVars, crashVars>>

Usable(p) == waiters[p] = 0 /\ free[p] > 0
UsablePool == {i \in 1..Len(pool) : Usable(pool[i])}
\* The first page if it can be used, else the first with the most free slots.
BestPool ==
  IF 1 \in UsablePool THEN 1
  ELSE Min({i \in UsablePool : \A j \in UsablePool : free[pool[j]] <= free[pool[i]]})

\* get_active_from_pool(), then the XID is stored in the page.
TakeFromPool(s) ==
  /\ pc[s] = "pool" /\ ~PoolLocked /\ UsablePool # {}
  /\ active' = pool[BestPool]
  /\ pool' = RemoveAt(pool, BestPool)
  /\ Store(s, pool[BestPool])
  /\ pc' = [pc EXCEPT ![s] = "written"]
  /\ UNCHANGED <<disk, syncing, lockActive, lockSync, xid, unlogVars, logged,
                 failed, engineVars, crashVars, nextXid>>

\* No page can be used; overflow() is about to wait, with LOCK_pool.
PoolExhausted(s) ==
  /\ pc[s] = "pool" /\ ~PoolLocked /\ UsablePool = {}
  /\ pc' = [pc EXCEPT ![s] = "overflow"]
  /\ UNCHANGED <<pageVars, disk, listVars, lockActive, lockSync, xid, cookie,
                 unlogVars, logged, failed, engineVars, crashVars, nextXid>>

\* overflow() waits for COND_pool: LOCK_pool is released, LOCK_active is not.
Overflow(s) ==
  /\ pc[s] = "overflow"
  /\ pc' = [pc EXCEPT ![s] = "wait_pool"]
  /\ UNCHANGED <<pageVars, disk, listVars, lockActive, lockSync, xid, cookie,
                 unlogVars, logged, failed, engineVars, crashVars, nextXid>>

\* Wrong: the page stays active while it is synced.
WrongSyncNow(s) ==
  /\ pc[s] = "written" /\ lockSync = Nobody /\ syncing = None
  /\ syncing' = PageOf(s) /\ lockActive' = Nobody
  /\ pc' = WakeActive([pc EXCEPT ![s] = "msync"])
  /\ UNCHANGED <<pageVars, disk, active, pool, lockSync, xid, cookie, unlogVars, logged,
                 failed, engineVars, crashVars, nextXid>>

\* Nobody is syncing: take the syncing slot and close the page.
SyncNow(s) ==
  /\ pc[s] = "written" /\ lockSync = Nobody /\ syncing = None
  /\ syncing' = PageOf(s) /\ active' = None /\ lockActive' = Nobody
  /\ pc' = WakeActive([pc EXCEPT ![s] = "msync"])
  /\ UNCHANGED <<pageVars, disk, pool, lockSync, xid, cookie, unlogVars, logged,
                 failed, engineVars, crashVars, nextXid>>

\* Somebody is: LOCK_active is released before the session counts as a waiter.
SyncLater(s) ==
  /\ pc[s] = "written" /\ lockSync = Nobody /\ syncing # None
  /\ lockSync' = s /\ lockActive' = Nobody
  /\ pc' = [pc EXCEPT ![s] = "enroll"]
  /\ UNCHANGED <<pageVars, disk, listVars, xid, cookie, unlogVars, logged, failed,
                 engineVars, crashVars, nextXid>>

\* The end of the transaction in session s.
Forget(s) == /\ xid' = [xid EXCEPT ![s] = None]
             /\ cookie' = [cookie EXCEPT ![s] = NoCookie]

\* The end of log_one_transaction(); a failed transaction is rolled back.
Return(s, ok) ==
  \/ /\ ok
     /\ logged' = logged \cup {xid[s]}
     /\ UNCHANGED <<failed, xid, cookie>>
  \/ /\ ~ok
     /\ failed' = failed \cup {xid[s]}
     /\ Forget(s) /\ UNCHANGED logged
AfterLog(ok) == IF ok THEN "logged" ELSE "idle"

\* Wrong: a session that never slept counts itself out as well.
WrongEnroll(s) ==
  /\ pc[s] = "enroll" /\ lockSync' = Nobody
  /\ LET p == PageOf(s) IN
     \/ /\ state[p] = "dirty"
        /\ waiters' = [waiters EXCEPT ![p] = @ + 1]
        /\ pc' = [pc EXCEPT ![s] = "wait_sync"]
        /\ UNCHANGED <<logged, failed, xid, cookie>>
     \/ /\ state[p] # "dirty"
        /\ Return(s, state[p] = "pool")
        /\ pc' = LET f == [pc EXCEPT ![s] = AfterLog(state[p] = "pool")]
                 IN IF waiters[p] = 0 THEN WakePool(f) ELSE f
        /\ waiters' = [waiters EXCEPT ![p] = @ - 1]
  /\ UNCHANGED <<slot, ptr, free, state, disk, listVars, lockActive, unlogVars, engineVars, crashVars, nextXid>>

\* Has the page been synced already, or does the session sleep on its condition?
Enroll(s) ==
  /\ pc[s] = "enroll" /\ lockSync' = Nobody
  /\ LET p == PageOf(s) IN
     \/ /\ state[p] = "dirty"
        /\ waiters' = [waiters EXCEPT ![p] = @ + 1]
        /\ pc' = [pc EXCEPT ![s] = "wait_sync"]
        /\ UNCHANGED <<logged, failed, xid, cookie>>
     \/ /\ state[p] # "dirty"
        /\ Return(s, state[p] = "pool")
        /\ pc' = LET f == [pc EXCEPT ![s] = AfterLog(state[p] = "pool")]
                 IN IF waiters[p] = 0 THEN WakePool(f) ELSE f
        /\ UNCHANGED waiters
  /\ UNCHANGED <<slot, ptr, free, state, disk, listVars, lockActive, unlogVars, engineVars, crashVars, nextXid>>

\* A waiter wakes up: another page is being synced, wait on.
WaitOn(s) ==
  /\ pc[s] = "wake_sync" /\ lockSync = Nobody
  /\ state[PageOf(s)] = "dirty" /\ syncing # None
  /\ pc' = [pc EXCEPT ![s] = "wait_sync"]
  /\ UNCHANGED <<pageVars, disk, listVars, lockActive, lockSync, xid, cookie,
                 unlogVars, logged, failed, engineVars, crashVars, nextXid>>

\* The page was synced by somebody else.
SyncedByOther(s) ==
  LET p == PageOf(s)
      ok == state[p] = "pool" IN
  /\ pc[s] = "wake_sync" /\ lockSync = Nobody /\ state[p] # "dirty"
  /\ waiters' = [waiters EXCEPT ![p] = @ - 1]
  /\ Return(s, ok)
  /\ pc' = LET f == [pc EXCEPT ![s] = AfterLog(ok)]
           IN IF waiters[p] = 1 THEN WakePool(f) ELSE f
  /\ UNCHANGED <<slot, ptr, free, state, disk, listVars, lockActive, lockSync, unlogVars, engineVars, crashVars, nextXid>>

\* The syncing slot is vacant: the waiter takes it ...
TakeSyncing(s) ==
  /\ pc[s] = "wake_sync" /\ lockSync = Nobody
  /\ state[PageOf(s)] = "dirty" /\ syncing = None
  /\ waiters' = [waiters EXCEPT ![PageOf(s)] = @ - 1]
  /\ syncing' = PageOf(s)
  /\ pc' = [pc EXCEPT ![s] = "deactivate"]
  /\ UNCHANGED <<slot, ptr, free, state, disk, active, pool, lockActive, lockSync,
                 xid, cookie, unlogVars, logged, failed, engineVars, crashVars,
                 nextXid>>

\* ... and closes the page.
Deactivate(s) ==
  /\ pc[s] = "deactivate" /\ lockActive = Nobody
  /\ active' = None
  /\ pc' = WakeActive([pc EXCEPT ![s] = "msync"])
  /\ UNCHANGED <<pageVars, disk, syncing, pool, lockActive, lockSync, xid, cookie,
                 unlogVars, logged, failed, engineVars, crashVars, nextXid>>

-----------------------------------------------------------------------------
(* sync()                                                                  *)

\* msync(); the page goes to the end of the pool while it is still `syncing'.
Sync(s) ==
  /\ pc[s] = "msync" /\ ~PoolLocked
  /\ \/ /\ disk' = [disk EXCEPT ![syncing] = slot[syncing]]
        /\ state' = [state EXCEPT ![syncing] = "pool"]
     \/ /\ SyncErrors
        /\ state' = [state EXCEPT ![syncing] = "error"]
        /\ UNCHANGED disk
  /\ pool' = Append(pool, syncing)
  /\ pc' = WakePool([pc EXCEPT ![s] = IF state'[syncing] = "pool" THEN "synced" ELSE "sync_error"])
  /\ UNCHANGED <<slot, ptr, free, waiters, active, syncing, lockActive, lockSync,
                 xid, cookie, unlogVars, logged, failed, engineVars, crashVars,
                 nextXid>>

\* Wrong: nobody is told to sync the active page.
WrongSyncDone(s) ==
  LET ok == pc[s] = "synced"
      woken == WakePage([pc EXCEPT ![s] = AfterLog(ok)], syncing) IN
  /\ pc[s] \in {"synced", "sync_error"} /\ lockSync = Nobody
  /\ syncing' = None
  /\ pc' = woken
  /\ Return(s, ok)
  /\ UNCHANGED <<pageVars, disk, active, pool, lockActive, lockSync, unlogVars, engineVars, crashVars, nextXid>>

\* All waiters of the page and one waiter of the active page are woken up.
SyncDone(s) ==
  LET ok == pc[s] = "synced"
      woken == WakePage([pc EXCEPT ![s] = AfterLog(ok)], syncing)
      next == {w \in Sessions : woken[w] = "wait_sync" /\ PageOf(w) = active} IN
  /\ pc[s] \in {"synced", "sync_error"} /\ lockSync = Nobody
  /\ syncing' = None
  /\ \/ next = {} /\ pc' = woken
     \/ \E w \in next : pc' = [woken EXCEPT ![w] = "wake_sync"]
  /\ Return(s, ok)
  /\ UNCHANGED <<pageVars, disk, active, pool, lockActive, lockSync, unlogVars, engineVars, crashVars, nextXid>>

-----------------------------------------------------------------------------
(* commit_ordered() and commit() of the engines, unlog(), checkpoints       *)

Commit(s) ==
  /\ committed' = committed \cup {xid[s]}
  /\ durable' = [e \in Engines |-> IF e \in Deferred THEN durable[e]
                                   ELSE durable[e] \cup {xid[s]}]

\* Keep the cookie until there is a page full of them.
UnlogKeep(s) ==
  /\ pc[s] = "logged" /\ Len(pending) + 1 < PageSize
  /\ Commit(s)
  /\ pending' = Append(pending, cookie[s])
  /\ pc' = [pc EXCEPT ![s] = "idle"] /\ Forget(s)
  /\ UNCHANGED <<pageVars, disk, listVars, lockActive, lockSync, full, count, asked,
                 erase, logged, failed, crashVars, nextXid>>

\* Wrong: the engines' notifications are not counted.
WrongInitialCount == 1

\* pending_count of a new buffer: one for unlog() itself, one for each engine.
InitialCount == 1 + Cardinality(Deferred)

\* The buffer is full: request a checkpoint from the engines.
UnlogFull(s) ==
  /\ pc[s] = "logged" /\ Len(pending) + 1 = PageSize
  /\ Commit(s)
  /\ full' = [full EXCEPT ![xid[s]] = Append(pending, cookie[s])]
  /\ pending' = <<>>
  /\ count' = [count EXCEPT ![xid[s]] = InitialCount]
  /\ asked' = [e \in Deferred |-> asked[e] \cup {xid[s]}]
  /\ pc' = [pc EXCEPT ![s] = "notify"]
  /\ UNCHANGED <<pageVars, disk, listVars, lockActive, lockSync, xid, cookie, erase,
                 logged, failed, crashVars, nextXid>>

\* commit_checkpoint_notify() by thread t; the last one deletes the entries.
CommitCheckpointNotify(t, b) ==
  /\ erase[t] = <<>>
  /\ count' = [count EXCEPT ![b] = @ - 1]
  /\ \/ count[b] > 1 /\ UNCHANGED <<full, erase>>
     \/ /\ count[b] = 1
        /\ erase' = [erase EXCEPT ![t] = full[b]]
        /\ full' = [full EXCEPT ![b] = <<>>]

NotifyOwn(s) ==
  /\ pc[s] = "notify"
  /\ CommitCheckpointNotify(s, xid[s])
  /\ pc' = [pc EXCEPT ![s] = IF count[xid[s]] = 1 THEN "erase" ELSE "idle"]
  /\ Forget(s)
  /\ UNCHANGED <<pageVars, disk, listVars, lockActive, lockSync, pending, asked,
                 logged, failed, engineVars, crashVars, nextXid>>

\* An engine flushes what has been committed in it, and says so.
NotifyEngine(e, b) ==
  /\ b \in asked[e]
  /\ durable' = [durable EXCEPT ![e] = @ \cup committed]
  /\ asked' = [asked EXCEPT ![e] = @ \ {b}]
  /\ CommitCheckpointNotify(e, b)
  /\ UNCHANGED <<pageVars, disk, listVars, lockActive, lockSync, pc, xid, cookie,
                 pending, logged, failed, committed, crashVars, nextXid>>

\* Wrong: ptr is not moved back.
WrongDeleteEntry(t) ==
  /\ erase[t] # <<>>
  /\ LET p == Head(erase[t])[1]
         i == Head(erase[t])[2]
         f == IF t \in Sessions /\ Len(erase[t]) = 1 THEN [pc EXCEPT ![t] = "idle"] ELSE pc IN
     /\ slot' = [slot EXCEPT ![p][i] = 0]
     /\ free' = [free EXCEPT ![p] = @ + 1]
     /\ pc' = IF waiters[p] = 0 THEN WakePool(f) ELSE f
  /\ erase' = [erase EXCEPT ![t] = Tail(@)]
  /\ UNCHANGED <<ptr, waiters, state, disk, listVars, lockActive, lockSync, xid, cookie,
                 pending, full, count, asked, logged, failed, engineVars, crashVars,
                 nextXid>>

\* delete_entry() for the next cookie; after the last one unlog() returns.
\* COND_pool is signalled without LOCK_pool.
DeleteEntry(t) ==
  /\ erase[t] # <<>>
  /\ LET p == Head(erase[t])[1]
         i == Head(erase[t])[2]
         f == IF t \in Sessions /\ Len(erase[t]) = 1 THEN [pc EXCEPT ![t] = "idle"] ELSE pc IN
     /\ slot' = [slot EXCEPT ![p][i] = 0]
     /\ free' = [free EXCEPT ![p] = @ + 1]
     /\ ptr' = [ptr EXCEPT ![p] = IF i < @ THEN i ELSE @]
     /\ pc' = IF waiters[p] = 0 THEN WakePool(f) ELSE f
  /\ erase' = [erase EXCEPT ![t] = Tail(@)]
  /\ UNCHANGED <<waiters, state, disk, listVars, lockActive, lockSync, xid, cookie,
                 pending, full, count, asked, logged, failed, engineVars, crashVars,
                 nextXid>>

-----------------------------------------------------------------------------
(* Crash, open() and recover()                                             *)

\* What the file may hold after a crash: the system may have written any
\* slot of the mapping on its own.
Images ==
  LET dirty == {c \in Cookies : slot[c[1]][c[2]] # disk[c[1]][c[2]]} IN
  {[p \in Pages |-> [i \in 1..PageSize |->
      IF <<p, i>> \in written THEN slot[p][i] ELSE disk[p][i]]]
   : written \in SUBSET dirty}

\* Wrong: the last page is not read.
WrongRecoveredXids(image) ==
  (UNION {{image[p][i] : i \in Area(p)} : p \in 1..NPages - 1}) \ {0}

\* The XIDs recover() collects.
RecoveredXids(image) == (UNION {{image[p][i] : i \in Area(p)} : p \in Pages}) \ {0}

\* The engines commit the prepared transactions found in the log, and roll
\* back the others.  (A transaction whose sync failed is still in its page;
\* what becomes of it depends on how far its rollback came in each engine,
\* and is not followed.)  Then the memory is cleared, the first page is synced
\* with its header, and the log is open again.
Crash ==
  /\ crashes < MaxCrash
  /\ \E image \in Images :
       /\ durable' = [e \in Engines |->
                        durable[e] \cup (RecoveredXids(image) \ failed)]
       /\ disk' = [image EXCEPT ![1] = EmptyPage(1)]
  /\ committed' = UNION {durable'[e] : e \in Engines}
  /\ kept' = logged
  /\ crashes' = crashes + 1
  /\ slot' = [p \in Pages |-> EmptyPage(p)]
  /\ ptr' = [p \in Pages |-> 1]
  /\ free' = [p \in Pages |-> Cardinality(Area(p))]
  /\ waiters' = [p \in Pages |-> 0] /\ state' = [p \in Pages |-> "pool"]
  /\ active' = 1 /\ syncing' = None /\ pool' = [i \in 1..NPages - 1 |-> i + 1]
  /\ lockActive' = Nobody /\ lockSync' = Nobody
  /\ pc' = [s \in Sessions |-> "idle"] /\ xid' = [s \in Sessions |-> None]
  /\ cookie' = [s \in Sessions |-> NoCookie]
  /\ pending' = <<>> /\ full' = [x \in Xids |-> <<>>] /\ count' = [x \in Xids |-> 0]
  /\ asked' = [e \in Deferred |-> {}] /\ erase' = [t \in Threads |-> <<>>]
  /\ UNCHANGED <<logged, failed, nextXid>>

-----------------------------------------------------------------------------
LogStep(s) ==
  \/ WaitActive(s) \/ WriteActive(s) \/ NoActive(s)
  \/ TakeFromPool(s) \/ PoolExhausted(s) \/ Overflow(s)
  \/ SyncNow(s) \/ SyncLater(s) \/ Enroll(s)
  \/ WaitOn(s) \/ SyncedByOther(s) \/ TakeSyncing(s) \/ Deactivate(s)
  \/ Sync(s) \/ SyncDone(s)
UnlogStep(s) == UnlogKeep(s) \/ UnlogFull(s) \/ NotifyOwn(s)
EngineStep(e) == \E b \in Xids : NotifyEngine(e, b)

Next ==
  \/ \E s \in Sessions : LogStep(s) \/ UnlogStep(s)
  \/ \E e \in Deferred : EngineStep(e)
  \/ \E t \in Threads : DeleteEntry(t)
  \/ Crash

Spec == Init /\ [][Next]_vars

-----------------------------------------------------------------------------
(* Properties                                                              *)

PcValues == {"idle", "log", "wait_active", "pool", "overflow", "wait_pool", "written",
             "enroll", "wait_sync", "wake_sync", "deactivate", "msync", "synced",
             "sync_error", "logged", "notify", "erase"}

\* Types of the variables.
TypeOK ==
  /\ pc \in [Sessions -> PcValues]
  /\ slot \in [Pages -> [1..PageSize -> Xids \cup {0, Header}]]
  /\ disk \in [Pages -> [1..PageSize -> Xids \cup {0, Header}]]
  /\ ptr \in [Pages -> 1..PageSize + 1] /\ free \in [Pages -> 0..PageSize]
  /\ waiters \in [Pages -> 0..Cardinality(Sessions)]
  /\ state \in [Pages -> {"pool", "error", "dirty"}]
  /\ active \in Pages \cup {None} /\ syncing \in Pages \cup {None}
  /\ pool \in Seq(Pages)
  /\ lockActive \in Sessions \cup {Nobody} /\ lockSync \in Sessions \cup {Nobody}
  /\ xid \in [Sessions -> Xids \cup {None}] /\ cookie \in [Sessions -> Cookies]
  /\ pending \in Seq(Cookies) /\ full \in [Xids -> Seq(Cookies)]
  /\ count \in [Xids -> 0..InitialCount]
  /\ asked \in [Deferred -> SUBSET Xids] /\ erase \in [Threads -> Seq(Cookies)]
  /\ logged \in SUBSET Xids /\ failed \in SUBSET Xids
  /\ committed \in SUBSET Xids /\ durable \in [Engines -> SUBSET Xids]
  /\ kept \in SUBSET Xids /\ nextXid \in 1..MaxXid + 1 /\ crashes \in 0..MaxCrash

\* PAGE::free is the number of empty slots and none of them lies below ptr:
\* the search in log_one_transaction() always ends inside the page, although
\* entries are deleted in any order and from other threads.
SlotAccounting ==
  \A p \in Pages :
    /\ free[p] = Cardinality({i \in Area(p) : slot[p][i] = 0})
    /\ \A i \in 1..ptr[p] - 1 : slot[p][i] # 0

\* Every page is in the pool, active or being synced, and a page in the pool
\* is neither active nor about to be synced: one session at a time is in
\* sync(), and never with the active page (the assertion there).
PageLists ==
  LET Pool == ToSet(pool)
      Syncers == {s \in Sessions : pc[s] \in {"deactivate", "msync", "synced", "sync_error"}} IN
  /\ Len(pool) = Cardinality(Pool)
  /\ Pages = Pool \cup ({active, syncing} \ {None})
  /\ active \notin Pool
  /\ Cardinality(Syncers) <= 1 /\ (syncing # None <=> Syncers # {})
  /\ \A s \in Syncers :
       /\ pc[s] = "deactivate" => active = syncing
       /\ pc[s] = "msync" => active # syncing /\ syncing \notin Pool

\* While some engine has not flushed a logged transaction, its XID stands in
\* the same slot in memory and on disk: no interleaving of page reuse, late
\* waiters, failed syncs and checkpoints erases or overwrites it too early.
Recoverable ==
  \A x \in logged :
    \/ \A e \in Engines : x \in durable[e]
    \/ \E p \in Pages : \E i \in Area(p) : slot[p][i] = x /\ disk[p][i] = x

\* After a crash and recover() a transaction is committed in all engines or
\* in none, and in all of them if it was logged.
AllOrNothing ==
  crashes > 0 =>
    /\ \A e \in Engines : kept \subseteq durable[e]
    /\ \A x \in Xids \ (failed \cup (logged \ kept)) : \A e, f \in Engines :
         x \in durable[e] => x \in durable[f]

\* A session that sleeps until its page is synced has somebody to wake it up:
\* a session in sync(), or another waiter of the page that is about to run.
\* The unlocked look at `active' in sync() loses no wakeup.
SleeperHasWaker ==
  \A s \in Sessions : pc[s] = "wait_sync" =>
    IF state[PageOf(s)] = "dirty"
    THEN \/ syncing # None
         \/ \E w \in Sessions : pc[w] = "wake_sync" /\ PageOf(w) = PageOf(s)
    ELSE syncing = PageOf(s)

\* A session that waits in overflow(), with LOCK_active, while a page of the
\* pool can be used has a signal to come: another session is committing, or an
\* engine has been asked for a checkpoint or is deleting entries.  "in case
\* somebody's waiting" and "ping ... for overflow()" are what the signals of
\* COND_pool are for.
OverflowIsSignalled ==
  \A s \in Sessions : pc[s] = "wait_pool" =>
    \/ UsablePool = {}
    \/ \E w \in Sessions \ {s} : pc[w] # "idle"
    \/ \E e \in Deferred : asked[e] # {} \/ erase[e] # <<>>
=============================================================================
