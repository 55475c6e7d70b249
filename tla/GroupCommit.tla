----------------------------- MODULE GroupCommit -----------------------------
(***************************************************************************)
(* Binlog group commit with commit ordering.                               *)
(*                                                                         *)
(*   sql/log.cc         queue_for_group_commit(), trx_group_commit_leader() *)
(*   sql/sql_class.*    struct wait_for_commit                             *)
(*   sql/rpl_parallel.cc registration and finish_event_group()             *)
(*                                                                         *)
(* A transaction is the number of its event group (rgi->gtid_sub_id); the  *)
(* replication workers must commit in that order, each after Prior(t), the *)
(* other transactions are those of ordinary clients.  A transaction that   *)
(* is ready to commit before its prior one parks its entry in              *)
(* opaque_pointer, and the prior one takes it along into the group commit  *)
(* queue.  The first in the queue leads: it writes the whole group to the  *)
(* binlog under LOCK_log, hands over to LOCK_after_binlog_sync and then to *)
(* LOCK_commit_ordered, runs commit_ordered() and wakes the others.        *)
(*                                                                         *)
(* LOCK_wait_commit of t is the variable wfcLock[t]; it is only recorded   *)
(* where it is held across more than one step.  wakeup() stores waitee and *)
(* wakeup_error one after the other, and the unlocked checks of waitee may *)
(* fall between the two.                                                   *)
(***************************************************************************)
EXTENDS Integers, Sequences, FiniteSets, SequencesExt, SequenceOrder

CONSTANTS
  Trx,          \* transactions, identified by positive numbers
  Workers,      \* those executed by parallel replication workers, in order
  UsesXa,       \* cache_mngr->using_xa: the engine takes part in 2-phase commit
  Killable,     \* workers that may be killed while they wait
  ExecErrors,   \* workers that may fail before they commit
  WriteErrors,  \* transactions whose binlog write may fail
  OptimizeThreadScheduling  \* opt_optimize_thread_scheduling

ASSUME ConstantsAssumption ==
  /\ Trx \subseteq Nat \ {0} /\ IsFiniteSet(Trx) /\ Trx # {}
  /\ Workers \subseteq Trx /\ UsesXa \subseteq Trx
  /\ Killable \subseteq Workers /\ ExecErrors \subseteq Workers
  /\ WriteErrors \subseteq Trx
  /\ OptimizeThreadScheduling \in BOOLEAN

None == 0
\* stop_on_error_sub_id starts as ULONGLONG_MAX.
NoStop == 1 + Max(Trx)

\* rgi->wait_commit_sub_id
Prior(t) == IF \E w \in Workers : w < t
            THEN CHOOSE w \in Workers : w < t /\ \A v \in Workers : v < t => v <= w
            ELSE None

VARIABLES
  pc,
  ret,            \* caller of wait_for_prior_commit(): commit, skip or finish
  waitee, wakeupError, subsequent, opaque, running, commitStarted, \* wait_for_commit
  wfcLock,        \* LOCK_wait_commit
  queuedByOther, nextEntry, entryError, \* group_commit_entry
  wakeupReady,    \* thd->wakeup_ready
  killed,         \* thd->killed
  queue,          \* group_commit_queue, oldest first
  pending,        \* the flattened list of waiters being queued
  isLeader,       \* orig_queue == NULL
  group,          \* entries the leader still has to commit
  lockPrepare, lockLog, lockAbs, lockCo,
  busy,           \* group_commit_queue_busy
  walk, walkFor, walkError, walkThen, \* wakeup_subsequent_commits2() in progress
  lastCommitted,  \* entry->last_committed_sub_id
  stopOnError,    \* entry->stop_on_error_sub_id
  result,         \* outcome of each transaction
  prepared, binlog, engine \* order of prepare_ordered, binlog writes, commit_ordered

wfcVars == <<waitee, wakeupError, subsequent, opaque, running, commitStarted, wfcLock>>
entryVars == <<queuedByOther, nextEntry, entryError, wakeupReady, killed>>
queueVars == <<queue, pending, isLeader, group>>
lockVars == <<lockPrepare, lockLog, lockAbs, lockCo, busy>>
walkVars == <<walk, walkFor, walkError, walkThen>>
endVars == <<lastCommitted, stopOnError, result>>
logVars == <<prepared, binlog, engine>>
vars == <<pc, ret, wfcVars, entryVars, queueVars, lockVars, walkVars, endVars, logVars>>

Init ==
  /\ pc = [t \in Trx |-> IF t \in Workers THEN "start" ELSE "check"]
  /\ ret = [t \in Trx |-> "commit"]
  /\ waitee = [t \in Trx |-> None]
  /\ wakeupError = [t \in Trx |-> FALSE]
  /\ subsequent = [t \in Trx |-> <<>>]
  /\ opaque = [t \in Trx |-> FALSE]
  /\ running = [t \in Trx |-> FALSE]
  /\ commitStarted = [t \in Trx |-> FALSE]
  /\ wfcLock = [t \in Trx |-> None]
  /\ queuedByOther = [t \in Trx |-> FALSE]
  /\ nextEntry = [t \in Trx |-> None]
  /\ entryError = [t \in Trx |-> FALSE]
  /\ wakeupReady = [t \in Trx |-> FALSE]
  /\ killed = [t \in Trx |-> FALSE]
  /\ queue = <<>> /\ pending = <<>>
  /\ isLeader = [t \in Trx |-> FALSE]
  /\ group = [t \in Trx |-> <<>>]
  /\ lockPrepare = None /\ lockLog = None /\ lockAbs = None /\ lockCo = None
  /\ busy = FALSE
  /\ walk = [t \in Trx |-> <<>>]
  /\ walkFor = [t \in Trx |-> None]
  /\ walkError = [t \in Trx |-> FALSE]
  /\ walkThen = [t \in Trx |-> "done"]
  /\ lastCommitted = 0
  /\ stopOnError = NoStop
  /\ result = [t \in Trx |-> "none"]
  /\ prepared = <<>> /\ binlog = <<>> /\ engine = <<>>

Goto(t, label) == pc' = [pc EXCEPT ![t] = label]

-----------------------------------------------------------------------------
(* Parallel replication: start and end of an event group.                  *)

\* Wrong: the prior group counts as committed one too early.
RegisterOffByOne(t) ==
  LET p == Prior(t)
      registers == p > lastCommitted + 1 /\ ~running[p]
  IN
  /\ pc[t] = "start"
  /\ p > lastCommitted => wfcLock[p] = None
  /\ waitee' = [waitee EXCEPT ![t] = IF registers THEN p ELSE None]
  /\ subsequent' = IF registers THEN [subsequent EXCEPT ![p] = <<t>> \o @]
                                ELSE subsequent
  /\ IF stopOnError <= p
     THEN Goto(t, "wfp") /\ ret' = [ret EXCEPT ![t] = "skip"]
     ELSE Goto(t, "run") /\ UNCHANGED ret
  /\ UNCHANGED <<wakeupError, opaque, running, commitStarted, wfcLock, entryVars,
                 queueVars, lockVars, walkVars, endVars, logVars>>

\* handle_rpl_parallel_thread(), GTID event, under LOCK_parallel_entry: skip
\* the group after an error, register behind the prior one unless that has
\* finished or is just waking its waiters.
Register(t) ==
  LET p == Prior(t)
      registers == p > lastCommitted /\ ~running[p]
  IN
  /\ pc[t] = "start"
  /\ p > lastCommitted => wfcLock[p] = None
  /\ waitee' = [waitee EXCEPT ![t] = IF registers THEN p ELSE None]
  /\ subsequent' = IF registers THEN [subsequent EXCEPT ![p] = <<t>> \o @]
                                ELSE subsequent
  /\ IF stopOnError <= p
     THEN Goto(t, "wfp") /\ ret' = [ret EXCEPT ![t] = "skip"]
     ELSE Goto(t, "run") /\ UNCHANGED ret
  /\ UNCHANGED <<wakeupError, opaque, running, commitStarted, wfcLock, entryVars,
                 queueVars, lockVars, walkVars, endVars, logVars>>

\* Applying the events succeeds and reaches the commit ...
Execute(t) ==
  /\ pc[t] = "run"
  /\ Goto(t, "check")
  /\ UNCHANGED <<ret, wfcVars, entryVars, queueVars, lockVars, walkVars, endVars, logVars>>

\* A failed transaction: a client gets its error, a worker records
\* worker_error, clears the kill and goes to finish_event_group().
Fail(t) ==
  /\ result' = [result EXCEPT ![t] = "failed"]
  /\ killed' = [killed EXCEPT ![t] = FALSE]
  /\ IF t \in Workers
     THEN Goto(t, "wfp") /\ ret' = [ret EXCEPT ![t] = "finish"]
     ELSE Goto(t, "done") /\ UNCHANGED ret

\* ... or fails.
ExecuteFails(t) ==
  /\ pc[t] = "run" /\ t \in ExecErrors
  /\ Fail(t)
  /\ UNCHANGED <<wfcVars, queuedByOther, nextEntry, entryError, wakeupReady,
                 queueVars, lockVars, walkVars, lastCommitted, stopOnError, logVars>>

\* KILL, or STOP SLAVE, reaches a worker that waits for its prior commit.
Kill(t) ==
  /\ t \in Killable /\ ~killed[t]
  /\ pc[t] \in {"wait", "wfpWait"}
  /\ killed' = [killed EXCEPT ![t] = TRUE]
  /\ UNCHANGED <<pc, ret, wfcVars, queuedByOther, nextEntry, entryError, wakeupReady,
                 queueVars, lockVars, walkVars, endVars, logVars>>

-----------------------------------------------------------------------------
(* wait_for_prior_commit().                                                *)

\* What the caller does with the returned error code.
WfpReturn(t, err) ==
  /\ result' = [result EXCEPT ![t] =
        IF ret[t] = "finish" THEN (IF err THEN "failed" ELSE @)
        ELSE IF err THEN "failed" ELSE IF ret[t] = "commit" THEN "committed" ELSE "skipped"]
  /\ killed' = [killed EXCEPT ![t] = IF err THEN FALSE ELSE @]
  /\ ret' = [ret EXCEPT ![t] = IF t \in Workers THEN "finish" ELSE @]
  /\ Goto(t, IF t \notin Workers THEN "done"
             ELSE IF ret[t] = "finish" THEN "finish" ELSE "wfp")

\* The inline check reads waitee, and then wakeup_error, without a lock.
WfpQuickCheck(t) ==
  /\ pc[t] = "wfp"
  /\ Goto(t, IF waitee[t] = None THEN "wfpError" ELSE "wfpWait")
  /\ UNCHANGED <<ret, wfcVars, entryVars, queueVars, lockVars, walkVars, endVars, logVars>>

WfpQuickReturn(t) ==
  /\ pc[t] = "wfpError"
  /\ WfpReturn(t, wakeupError[t])
  /\ UNCHANGED <<wfcVars, queuedByOther, nextEntry, entryError, wakeupReady,
                 queueVars, lockVars, walkVars, lastCommitted, stopOnError, logVars>>

\* wait_for_prior_commit2(): woken up, with LOCK_wait_commit.
WfpWoken(t) ==
  /\ pc[t] \in {"wfpWait", "wfpWait2"}
  /\ waitee[t] = None /\ wfcLock[t] = None
  /\ WfpReturn(t, wakeupError[t])
  /\ UNCHANGED <<wfcVars, queuedByOther, nextEntry, entryError, wakeupReady,
                 queueVars, lockVars, walkVars, lastCommitted, stopOnError, logVars>>

\* Killed: keep LOCK_wait_commit and go for the one of the waitee ...
WfpKilled(t) ==
  /\ pc[t] = "wfpWait" /\ killed[t]
  /\ waitee[t] # None /\ wfcLock[t] = None
  /\ wfcLock' = [wfcLock EXCEPT ![t] = t]
  /\ Goto(t, "wfpKill")
  /\ UNCHANGED <<ret, waitee, wakeupError, subsequent, opaque, running, commitStarted,
                 entryVars, queueVars, lockVars, walkVars, endVars, logVars>>

\* remove_from_list() and the error of an interrupted wait.
Unregister(t) ==
  /\ subsequent' = [subsequent EXCEPT ![waitee[t]] = Keep(@, Trx \ {t})]
  /\ waitee' = [waitee EXCEPT ![t] = None]
  /\ wakeupError' = [wakeupError EXCEPT ![t] = TRUE]
  /\ wfcLock' = [wfcLock EXCEPT ![t] = None]
  /\ UNCHANGED <<opaque, running, commitStarted>>

\* ... where a wakeup in progress makes the kill be ignored.
WfpKillIgnored(t) ==
  /\ pc[t] = "wfpKill"
  /\ wfcLock[waitee[t]] = None
  /\ running[waitee[t]]
  /\ wfcLock' = [wfcLock EXCEPT ![t] = None]
  /\ Goto(t, "wfpWait2")
  /\ UNCHANGED <<ret, waitee, wakeupError, subsequent, opaque, running, commitStarted,
                 entryVars, queueVars, lockVars, walkVars, endVars, logVars>>

WfpKillTaken(t) ==
  /\ pc[t] = "wfpKill"
  /\ wfcLock[waitee[t]] = None
  /\ ~running[waitee[t]]
  /\ Unregister(t)
  /\ WfpReturn(t, TRUE)
  /\ UNCHANGED <<queuedByOther, nextEntry, entryError, wakeupReady,
                 queueVars, lockVars, walkVars, lastCommitted, stopOnError, logVars>>

-----------------------------------------------------------------------------
(* queue_for_group_commit().                                               *)

\* The quick check of waitee; the lock is only taken if it is set.
QueueQuickCheck(t) ==
  /\ pc[t] = "check"
  /\ Goto(t, IF waitee[t] = None THEN "error" ELSE "recheck")
  /\ UNCHANGED <<ret, wfcVars, entryVars, queueVars, lockVars, walkVars, endVars, logVars>>

\* The check under LOCK_wait_commit: wait, unless the waitee has been queued
\* already.
QueueRecheck(t) ==
  LET waits == waitee[t] # None /\ ~commitStarted[waitee[t]] IN
  /\ pc[t] = "recheck"
  /\ wfcLock[t] = None
  /\ wfcLock' = [wfcLock EXCEPT ![t] = IF waits THEN t ELSE None]
  /\ Goto(t, IF waits THEN "offer" ELSE "error")
  /\ UNCHANGED <<ret, waitee, wakeupError, subsequent, opaque, running, commitStarted,
                 entryVars, queueVars, lockVars, walkVars, endVars, logVars>>

\* The entry is offered to the waitee, which shares no mutex with us: it may have
\* set commit_started and looked through its list since the check.
QueueOffer(t) ==
  /\ pc[t] = "offer"
  /\ opaque' = [opaque EXCEPT ![t] = TRUE]
  /\ wfcLock' = [wfcLock EXCEPT ![t] = None]
  /\ Goto(t, "wait")
  /\ UNCHANGED <<ret, waitee, wakeupError, subsequent, running, commitStarted,
                 entryVars, queueVars, lockVars, walkVars, endVars, logVars>>

QueueWoken(t) ==
  /\ pc[t] \in {"wait", "wait2"}
  /\ waitee[t] = None /\ wfcLock[t] = None
  /\ opaque' = [opaque EXCEPT ![t] = FALSE]
  /\ Goto(t, "error")
  /\ UNCHANGED <<ret, waitee, wakeupError, subsequent, running, commitStarted, wfcLock,
                 entryVars, queueVars, lockVars, walkVars, endVars, logVars>>

QueueKilled(t) ==
  /\ pc[t] = "wait" /\ killed[t]
  /\ waitee[t] # None /\ wfcLock[t] = None
  /\ opaque' = [opaque EXCEPT ![t] = FALSE]
  /\ wfcLock' = [wfcLock EXCEPT ![t] = t]
  /\ Goto(t, "kill")
  /\ UNCHANGED <<ret, waitee, wakeupError, subsequent, running, commitStarted,
                 entryVars, queueVars, lockVars, walkVars, endVars, logVars>>

\* The kill is ignored when the waitee is waking us up or has queued us.
QueueKillIgnored(t) ==
  /\ pc[t] = "kill"
  /\ wfcLock[waitee[t]] = None
  /\ running[waitee[t]] \/ queuedByOther[t]
  /\ wfcLock' = [wfcLock EXCEPT ![t] = None]
  /\ Goto(t, "wait2")
  /\ UNCHANGED <<ret, waitee, wakeupError, subsequent, opaque, running, commitStarted,
                 entryVars, queueVars, lockVars, walkVars, endVars, logVars>>

\* Wrong: queued_by_other is not looked at.
QueueKillTakenQueued(t) ==
  /\ pc[t] = "kill"
  /\ wfcLock[waitee[t]] = None
  /\ ~running[waitee[t]]
  /\ Unregister(t)
  /\ Fail(t)
  /\ UNCHANGED <<queuedByOther, nextEntry, entryError, wakeupReady,
                 queueVars, lockVars, walkVars, lastCommitted, stopOnError, logVars>>

QueueKillTaken(t) ==
  /\ pc[t] = "kill"
  /\ wfcLock[waitee[t]] = None
  /\ ~running[waitee[t]] /\ ~queuedByOther[t]
  /\ Unregister(t)
  /\ Fail(t)
  /\ UNCHANGED <<queuedByOther, nextEntry, entryError, wakeupReady,
                 queueVars, lockVars, walkVars, lastCommitted, stopOnError, logVars>>

\* Already queued by the waitee: the leader has done everything for us (or,
\* without optimised scheduling, it is our turn).
QueueByOther(t) ==
  /\ pc[t] = "error" /\ queuedByOther[t]
  /\ Goto(t, "follow")
  /\ UNCHANGED <<ret, wfcVars, entryVars, queueVars, lockVars, walkVars, endVars, logVars>>

\* The prior commit failed: ER_PRIOR_COMMIT_FAILED.
QueuePriorFailed(t) ==
  /\ pc[t] = "error" /\ ~queuedByOther[t]
  /\ wakeupError[t]
  /\ Fail(t)
  /\ UNCHANGED <<wfcVars, queuedByOther, nextEntry, entryError, wakeupReady,
                 queueVars, lockVars, walkVars, lastCommitted, stopOnError, logVars>>

\* Otherwise enqueue under LOCK_prepare_ordered.
QueueLock(t) ==
  /\ pc[t] = "error" /\ ~queuedByOther[t]
  /\ ~wakeupError[t]
  /\ lockPrepare = None
  /\ lockPrepare' = t
  /\ wakeupReady' = [wakeupReady EXCEPT ![t] = FALSE]
  /\ isLeader' = [isLeader EXCEPT ![t] = (queue = <<>>)]
  /\ pending' = <<t>>
  /\ Goto(t, "enqueue")
  /\ UNCHANGED <<ret, wfcVars, queuedByOther, nextEntry, entryError, killed, queue, group,
                 lockLog, lockAbs, lockCo, busy, walkVars, endVars, logVars>>

\* Wrong: prepare_ordered() is called for the own entry only.
QueueEntryPreparesOwn(t) ==
  LET e == Head(pending)
      ready == Keep(subsequent[e], {w \in Trx : opaque[w]})
      rest == Tail(pending) \o (IF e \in Workers THEN ready ELSE <<>>)
  IN
  /\ pc[t] = "enqueue"
  /\ subsequent[e] # <<>> => wfcLock[e] = None
  /\ prepared' = IF e \in UsesXa /\ e = t THEN Append(prepared, e) ELSE prepared
  /\ commitStarted' = [commitStarted EXCEPT ![e] = e \in Workers]
  /\ subsequent' = [subsequent EXCEPT ![e] = Keep(@, {w \in Trx : ~opaque[w]})]
  /\ queuedByOther' = [w \in Trx |-> queuedByOther[w] \/ w \in ToSet(ready)]
  /\ queue' = Append(queue, e)
  /\ pending' = rest
  /\ IF rest = <<>>
     THEN /\ lockPrepare' = None
          /\ Goto(t, IF isLeader[t] THEN "lead" ELSE "follow")
     ELSE UNCHANGED <<lockPrepare, pc>>
  /\ UNCHANGED <<ret, waitee, wakeupError, opaque, running, wfcLock, nextEntry, entryError,
                 wakeupReady, killed, isLeader, group, lockLog, lockAbs, lockCo, busy,
                 walkVars, endVars, binlog, engine>>

\* Wrong: the queue is not reversed.
QueueEntryNewestFirst(t) ==
  LET e == Head(pending)
      ready == Keep(subsequent[e], {w \in Trx : opaque[w]})
      rest == Tail(pending) \o (IF e \in Workers THEN ready ELSE <<>>)
  IN
  /\ pc[t] = "enqueue"
  /\ subsequent[e] # <<>> => wfcLock[e] = None
  /\ prepared' = IF e \in UsesXa THEN Append(prepared, e) ELSE prepared
  /\ commitStarted' = [commitStarted EXCEPT ![e] = e \in Workers]
  /\ subsequent' = [subsequent EXCEPT ![e] = Keep(@, {w \in Trx : ~opaque[w]})]
  /\ queuedByOther' = [w \in Trx |-> queuedByOther[w] \/ w \in ToSet(ready)]
  /\ queue' = <<e>> \o queue
  /\ pending' = rest
  /\ IF rest = <<>>
     THEN /\ lockPrepare' = None
          /\ Goto(t, IF isLeader[t] THEN "lead" ELSE "follow")
     ELSE UNCHANGED <<lockPrepare, pc>>
  /\ UNCHANGED <<ret, waitee, wakeupError, opaque, running, wfcLock, nextEntry, entryError,
                 wakeupReady, killed, isLeader, group, lockLog, lockAbs, lockCo, busy,
                 walkVars, endVars, binlog, engine>>

\* Wrong: the whole list of waiters is cleared, ready or not.
QueueEntryDropsWaiters(t) ==
  LET e == Head(pending)
      ready == Keep(subsequent[e], {w \in Trx : opaque[w]})
      rest == Tail(pending) \o (IF e \in Workers THEN ready ELSE <<>>)
  IN
  /\ pc[t] = "enqueue"
  /\ subsequent[e] # <<>> => wfcLock[e] = None
  /\ prepared' = IF e \in UsesXa THEN Append(prepared, e) ELSE prepared
  /\ commitStarted' = [commitStarted EXCEPT ![e] = e \in Workers]
  /\ subsequent' = [subsequent EXCEPT ![e] = <<>>]
  /\ queuedByOther' = [w \in Trx |-> queuedByOther[w] \/ w \in ToSet(ready)]
  /\ queue' = Append(queue, e)
  /\ pending' = rest
  /\ IF rest = <<>>
     THEN /\ lockPrepare' = None
          /\ Goto(t, IF isLeader[t] THEN "lead" ELSE "follow")
     ELSE UNCHANGED <<lockPrepare, pc>>
  /\ UNCHANGED <<ret, waitee, wakeupError, opaque, running, wfcLock, nextEntry, entryError,
                 wakeupReady, killed, isLeader, group, lockLog, lockAbs, lockCo, busy,
                 walkVars, endVars, binlog, engine>>

\* One iteration of the traversal: prepare_ordered() for the entry, take the
\* waiters that are ready out of its list, put it in the queue.
QueueEntry(t) ==
  LET e == Head(pending)
      ready == Keep(subsequent[e], {w \in Trx : opaque[w]})
      rest == Tail(pending) \o (IF e \in Workers THEN ready ELSE <<>>)
  IN
  /\ pc[t] = "enqueue"
  /\ subsequent[e] # <<>> => wfcLock[e] = None
  /\ prepared' = IF e \in UsesXa THEN Append(prepared, e) ELSE prepared
  /\ commitStarted' = [commitStarted EXCEPT ![e] = e \in Workers]
  /\ subsequent' = [subsequent EXCEPT ![e] = Keep(@, {w \in Trx : ~opaque[w]})]
  /\ queuedByOther' = [w \in Trx |-> queuedByOther[w] \/ w \in ToSet(ready)]
  /\ queue' = Append(queue, e)
  /\ pending' = rest
  /\ IF rest = <<>>
     THEN /\ lockPrepare' = None
          /\ Goto(t, IF isLeader[t] THEN "lead" ELSE "follow")
     ELSE UNCHANGED <<lockPrepare, pc>>
  /\ UNCHANGED <<ret, waitee, wakeupError, opaque, running, wfcLock, nextEntry, entryError,
                 wakeupReady, killed, isLeader, group, lockLog, lockAbs, lockCo, busy,
                 walkVars, endVars, binlog, engine>>

-----------------------------------------------------------------------------
(* trx_group_commit_leader().                                              *)

\* LOCK_log, then the whole queue.  wait_for_sufficient_commits() may let go
\* of LOCK_log and wait for more entries until it times out: that is this
\* step happening later.
LeaderCollect(t) ==
  /\ pc[t] = "lead"
  /\ lockLog = None /\ lockPrepare = None
  /\ lockLog' = t
  /\ group' = [group EXCEPT ![t] = queue]
  /\ nextEntry' = [e \in Trx |->
       IF \E i \in 1..Len(queue) - 1 : queue[i] = e
       THEN queue[1 + CHOOSE i \in 1..Len(queue) - 1 : queue[i] = e]
       ELSE nextEntry[e]]
  /\ queue' = <<>>
  /\ Goto(t, "write")
  /\ UNCHANGED <<ret, wfcVars, queuedByOther, entryError, wakeupReady, killed, pending,
                 isLeader, lockPrepare, lockAbs, lockCo, busy, walkVars, endVars, logVars>>

\* Write every entry to the binlog; E are those with a write error, and H
\* those that the after_flush hook refuses once they are in the binlog.
LeaderWrite(t, E, H) ==
  /\ pc[t] = "write"
  /\ E \cup H \subseteq WriteErrors \cap ToSet(group[t]) /\ E \cap H = {}
  /\ entryError' = [e \in Trx |-> entryError[e] \/ e \in E \cup H]
  /\ binlog' = binlog \o Keep(group[t], Trx \ E)
  /\ Goto(t, "written")
  /\ UNCHANGED <<ret, wfcVars, queuedByOther, nextEntry, wakeupReady, killed, queueVars,
                 lockVars, walkVars, endVars, prepared, engine>>

\* Wrong: LOCK_after_binlog_sync is not taken.
LeaderSyncUnchained(t) ==
  /\ pc[t] = "written"
  /\ lockLog' = None
  /\ Goto(t, "sync")
  /\ UNCHANGED <<ret, wfcVars, entryVars, queueVars, lockPrepare, lockAbs, lockCo, busy, walkVars,
                 endVars, logVars>>

LeaderSync(t) ==
  /\ pc[t] = "written"
  /\ lockAbs = None
  /\ lockAbs' = t /\ lockLog' = None
  /\ Goto(t, "sync")
  /\ UNCHANGED <<ret, wfcVars, entryVars, queueVars, lockPrepare, lockCo, busy, walkVars,
                 endVars, logVars>>

LeaderOrder(t) ==
  /\ pc[t] = "sync"
  /\ lockCo = None
  /\ lockCo' = t /\ lockAbs' = None
  /\ Goto(t, IF OptimizeThreadScheduling THEN "commit" ELSE "reserve")
  /\ UNCHANGED <<ret, wfcVars, entryVars, queueVars, lockPrepare, lockLog, busy, walkVars,
                 endVars, logVars>>

-----------------------------------------------------------------------------
(* wakeup_subsequent_commits() by thread t on behalf of entry c, then "then". *)

RunCommitOrdered(e) ==
  engine' = IF e \in UsesXa /\ ~entryError[e] THEN Append(engine, e) ELSE engine

\* The unlocked check of the list; if it is not empty it is detached.
StartWakeup(t, c, err, then) ==
  /\ subsequent[c] # <<>> => wfcLock[c] = None
  /\ walk' = [walk EXCEPT ![t] = subsequent[c]]
  /\ walkFor' = [walkFor EXCEPT ![t] = c]
  /\ walkError' = [walkError EXCEPT ![t] = err]
  /\ walkThen' = [walkThen EXCEPT ![t] = then]
  /\ running' = [running EXCEPT ![c] = subsequent[c] # <<>>]
  /\ subsequent' = [subsequent EXCEPT ![c] = <<>>]
  /\ Goto(t, "walk")
  /\ UNCHANGED <<waitee, wakeupError, opaque, commitStarted, wfcLock>>

\* wakeup() of one waiter: waitee is cleared under its LOCK_wait_commit ...
WakeupWaitee(t) ==
  LET w == Head(walk[t]) IN
  /\ pc[t] = "walk" /\ walk[t] # <<>>
  /\ wfcLock[w] = None
  /\ wfcLock' = [wfcLock EXCEPT ![w] = t]
  /\ waitee' = [waitee EXCEPT ![w] = None]
  /\ Goto(t, "walkError")
  /\ UNCHANGED <<ret, wakeupError, subsequent, opaque, running, commitStarted, entryVars,
                 queueVars, lockVars, walkVars, endVars, logVars>>

\* ... and then wakeup_error is set and the mutex released.
WakeupError(t) ==
  LET w == Head(walk[t]) IN
  /\ pc[t] = "walkError"
  /\ wakeupError' = [wakeupError EXCEPT ![w] = walkError[t]]
  /\ wfcLock' = [wfcLock EXCEPT ![w] = None]
  /\ walk' = [walk EXCEPT ![t] = Tail(@)]
  /\ Goto(t, "walk")
  /\ UNCHANGED <<ret, waitee, subsequent, opaque, running, commitStarted, entryVars,
                 queueVars, lockVars, walkFor, walkError, walkThen, endVars, logVars>>

EndWakeup(t) ==
  /\ pc[t] = "walk" /\ walk[t] = <<>>
  /\ running' = IF walkFor[t] = None THEN running ELSE [running EXCEPT ![walkFor[t]] = FALSE]
  /\ Goto(t, walkThen[t])
  /\ UNCHANGED <<ret, waitee, wakeupError, subsequent, opaque, commitStarted, wfcLock,
                 entryVars, queueVars, lockVars, walkVars, endVars, logVars>>

\* Wrong: everybody is woken up by signal_wakeup_ready().
WakeOwnerSignal(t, e, err, then) ==
  /\ wakeupReady' = [wakeupReady EXCEPT ![e] = TRUE]
  /\ Goto(t, then)
  /\ UNCHANGED walkVars

\* Wrong: an owner whose entry failed is not woken up.
WakeOwnerNotOnError(t, e, err, then) ==
  IF queuedByOther[e]
  THEN /\ walk' = [walk EXCEPT ![t] = <<e>>]
       /\ walkFor' = [walkFor EXCEPT ![t] = None]
       /\ walkError' = [walkError EXCEPT ![t] = err]
       /\ walkThen' = [walkThen EXCEPT ![t] = then]
       /\ Goto(t, "walk")
       /\ UNCHANGED wakeupReady
  ELSE /\ wakeupReady' = [wakeupReady EXCEPT ![e] = ~err]
       /\ Goto(t, then)
       /\ UNCHANGED walkVars

\* Wake the owner of entry e: by wakeup(err) if it was queued by another
\* transaction, by signal_wakeup_ready() if it queued itself.
WakeOwner(t, e, err, then) ==
  IF queuedByOther[e]
  THEN /\ walk' = [walk EXCEPT ![t] = <<e>>]
       /\ walkFor' = [walkFor EXCEPT ![t] = None]
       /\ walkError' = [walkError EXCEPT ![t] = err]
       /\ walkThen' = [walkThen EXCEPT ![t] = then]
       /\ Goto(t, "walk")
       /\ UNCHANGED wakeupReady
  ELSE /\ wakeupReady' = [wakeupReady EXCEPT ![e] = TRUE]
       /\ Goto(t, then)
       /\ UNCHANGED walkVars

-----------------------------------------------------------------------------
(* The commit stage, by the leader for everybody.                          *)

LeaderCommitOne(t) ==
  LET e == Head(group[t]) IN
  /\ pc[t] = "commit" /\ group[t] # <<>>
  /\ RunCommitOrdered(e)
  /\ StartWakeup(t, e, entryError[e], "wake")
  /\ UNCHANGED <<ret, entryVars, queueVars, lockVars, endVars, prepared, binlog>>

LeaderWakeOne(t) ==
  LET e == Head(group[t]) IN
  /\ pc[t] = "wake"
  /\ group' = [group EXCEPT ![t] = Tail(@)]
  /\ IF e = t THEN Goto(t, "commit") /\ UNCHANGED <<walkVars, wakeupReady>>
              ELSE WakeOwner(t, e, entryError[e], "commit")
  /\ UNCHANGED <<ret, wfcVars, queuedByOther, nextEntry, entryError, killed, queue, pending,
                 isLeader, lockVars, endVars, logVars>>

LeaderDone(t) ==
  /\ pc[t] = "commit" /\ group[t] = <<>>
  /\ lockCo' = None
  /\ Goto(t, "return")
  /\ UNCHANGED <<ret, wfcVars, entryVars, queueVars, lockPrepare, lockLog, lockAbs, busy,
                 walkVars, endVars, logVars>>

-----------------------------------------------------------------------------
(* The commit stage when every thread runs its own commit_ordered().       *)

\* COND_queue_busy releases LOCK_commit_ordered while the leader waits.
ReserveWait(t) ==
  /\ pc[t] = "reserve" /\ busy
  /\ lockCo' = None
  /\ Goto(t, "reserveWait")
  /\ UNCHANGED <<ret, wfcVars, entryVars, queueVars, lockPrepare, lockLog, lockAbs, busy,
                 walkVars, endVars, logVars>>

\* The leader returns with LOCK_commit_ordered held; from here on its group is
\* only the list that next links.
Reserve(t) ==
  /\ ~busy
  /\ pc[t] = "reserve" \/ (pc[t] = "reserveWait" /\ lockCo = None)
  /\ busy' = TRUE
  /\ lockCo' = t
  /\ group' = [group EXCEPT ![t] = <<>>]
  /\ Goto(t, "own")
  /\ UNCHANGED <<ret, wfcVars, entryVars, queue, pending, isLeader, lockPrepare, lockLog,
                 lockAbs, walkVars, endVars, logVars>>

\* A follower has been woken up.
Follow(t) ==
  /\ pc[t] = "follow"
  /\ queuedByOther[t] \/ wakeupReady[t]
  /\ IF OptimizeThreadScheduling
     THEN Goto(t, "return") /\ UNCHANGED lockCo
     ELSE lockCo = None /\ lockCo' = t /\ Goto(t, "own")
  /\ UNCHANGED <<ret, wfcVars, entryVars, queueVars, lockPrepare, lockLog, lockAbs, busy,
                 walkVars, endVars, logVars>>

OwnCommit(t) ==
  /\ pc[t] = "own"
  /\ RunCommitOrdered(t)
  /\ busy' = (busy /\ nextEntry[t] # None)
  /\ lockCo' = None
  /\ StartWakeup(t, t, entryError[t], "chain")
  /\ UNCHANGED <<ret, entryVars, queueVars, lockPrepare, lockLog, lockAbs, endVars,
                 prepared, binlog>>

\* Each wakes the next in the group.
OwnWakeNext(t) ==
  /\ pc[t] = "chain"
  /\ IF nextEntry[t] = None THEN Goto(t, "return") /\ UNCHANGED <<walkVars, wakeupReady>>
     ELSE WakeOwner(t, nextEntry[t], entryError[t], "return")
  /\ UNCHANGED <<ret, wfcVars, queuedByOther, nextEntry, entryError, killed, queueVars,
                 lockVars, endVars, logVars>>

-----------------------------------------------------------------------------
(* Return to ha_commit_trans(), and finish_event_group().                  *)

\* write_transaction_to_binlog_events(): an error of our own, or the result
\* of wait_for_prior_commit().
ReturnError(t) ==
  /\ pc[t] = "return" /\ entryError[t]
  /\ Fail(t)
  /\ UNCHANGED <<wfcVars, queuedByOther, nextEntry, entryError, wakeupReady,
                 queueVars, lockVars, walkVars, lastCommitted, stopOnError, logVars>>

ReturnWait(t) ==
  /\ pc[t] = "return" /\ ~entryError[t]
  /\ Goto(t, "wfp")
  /\ UNCHANGED <<ret, wfcVars, entryVars, queueVars, lockVars, walkVars, endVars, logVars>>

\* Wrong: the group after the failed one is recorded.
FinishGroupOffByOne(t) ==
  /\ pc[t] = "finish"
  /\ lastCommitted' = IF lastCommitted < t THEN t ELSE lastCommitted
  /\ stopOnError' = IF result[t] = "failed" /\ stopOnError = NoStop THEN t + 1 ELSE stopOnError
  /\ Goto(t, "finishWake")
  /\ UNCHANGED <<ret, wfcVars, entryVars, queueVars, lockVars, walkVars, result, logVars>>

\* finish_event_group() under LOCK_parallel_entry.
FinishGroup(t) ==
  /\ pc[t] = "finish"
  /\ lastCommitted' = IF lastCommitted < t THEN t ELSE lastCommitted
  /\ stopOnError' = IF result[t] = "failed" /\ stopOnError = NoStop THEN t ELSE stopOnError
  /\ Goto(t, "finishWake")
  /\ UNCHANGED <<ret, wfcVars, entryVars, queueVars, lockVars, walkVars, result, logVars>>

\* ... and the final wakeup with worker_error.
FinishWake(t) ==
  /\ pc[t] = "finishWake"
  /\ StartWakeup(t, t, result[t] = "failed", "done")
  /\ UNCHANGED <<ret, entryVars, queueVars, lockVars, endVars, logVars>>

-----------------------------------------------------------------------------
\* The steps of thread t; Kill is an action of another connection.
Step(t) ==
  \/ Register(t) \/ Execute(t) \/ ExecuteFails(t)
  \/ WfpQuickCheck(t) \/ WfpQuickReturn(t) \/ WfpWoken(t)
  \/ WfpKilled(t) \/ WfpKillIgnored(t) \/ WfpKillTaken(t)
  \/ QueueQuickCheck(t) \/ QueueRecheck(t) \/ QueueOffer(t) \/ QueueWoken(t)
  \/ QueueKilled(t) \/ QueueKillIgnored(t) \/ QueueKillTaken(t)
  \/ QueueByOther(t) \/ QueuePriorFailed(t) \/ QueueLock(t) \/ QueueEntry(t)
  \/ LeaderCollect(t)
  \/ \E E \in SUBSET WriteErrors : \E H \in SUBSET WriteErrors : LeaderWrite(t, E, H)
  \/ LeaderSync(t) \/ LeaderOrder(t)
  \/ LeaderCommitOne(t) \/ LeaderWakeOne(t) \/ LeaderDone(t)
  \/ ReserveWait(t) \/ Reserve(t) \/ Follow(t) \/ OwnCommit(t) \/ OwnWakeNext(t)
  \/ WakeupWaitee(t) \/ WakeupError(t) \/ EndWakeup(t)
  \/ ReturnError(t) \/ ReturnWait(t) \/ FinishGroup(t) \/ FinishWake(t)

AllDone == (\A t \in Trx : pc[t] = "done") /\ UNCHANGED vars

Next == (\E t \in Trx : Step(t) \/ Kill(t)) \/ AllDone

Spec == Init /\ [][Next]_vars

\* Every thread that can run does; a mutex everyone releases is eventually
\* obtained by a thread that keeps asking for it.
FairSpec == Spec /\ \A t \in Trx : SF_vars(Step(t))

-----------------------------------------------------------------------------
(* Properties.                                                             *)

PcValues == {"start", "run", "wfp", "wfpError", "wfpWait", "wfpWait2", "wfpKill",
             "check", "recheck", "offer", "wait", "wait2", "kill", "error", "enqueue",
             "lead", "follow", "write", "written", "sync", "commit", "wake",
             "reserve", "reserveWait", "own", "chain", "walk", "walkError",
             "return", "finish", "finishWake", "done"}

TypePc == pc \in [Trx -> PcValues] /\ ret \in [Trx -> {"commit", "skip", "finish"}]
TypeWfc ==
  /\ waitee \in [Trx -> Workers \cup {None}]
  /\ wakeupError \in [Trx -> BOOLEAN] /\ opaque \in [Trx -> BOOLEAN]
  /\ running \in [Trx -> BOOLEAN] /\ commitStarted \in [Trx -> BOOLEAN]
  /\ subsequent \in [Trx -> Seq(Workers)]
  /\ wfcLock \in [Trx -> Trx \cup {None}]
TypeEntry ==
  /\ queuedByOther \in [Trx -> BOOLEAN] /\ entryError \in [Trx -> BOOLEAN]
  /\ nextEntry \in [Trx -> Trx \cup {None}]
  /\ wakeupReady \in [Trx -> BOOLEAN] /\ killed \in [Trx -> BOOLEAN]
TypeQueue ==
  /\ queue \in Seq(Trx) /\ pending \in Seq(Trx)
  /\ isLeader \in [Trx -> BOOLEAN] /\ group \in [Trx -> Seq(Trx)]
TypeLock ==
  /\ lockPrepare \in Trx \cup {None} /\ lockLog \in Trx \cup {None}
  /\ lockAbs \in Trx \cup {None} /\ lockCo \in Trx \cup {None} /\ busy \in BOOLEAN
TypeWalk ==
  /\ walk \in [Trx -> Seq(Trx)] /\ walkFor \in [Trx -> Trx \cup {None}]
  /\ walkError \in [Trx -> BOOLEAN] /\ walkThen \in [Trx -> PcValues]
TypeEnd ==
  /\ lastCommitted \in Workers \cup {0} /\ stopOnError \in Workers \cup {NoStop}
  /\ result \in [Trx -> {"none", "committed", "failed", "skipped"}]
TypeLog == prepared \in Seq(Trx) /\ binlog \in Seq(Trx) /\ engine \in Seq(Trx)

TypeOK == /\ TypePc /\ TypeWfc /\ TypeEntry /\ TypeQueue
          /\ TypeLock /\ TypeWalk /\ TypeEnd /\ TypeLog

\* The DBUG_ASSERT(leader == queue) of trx_group_commit_leader(), and that no
\* entry is ever written twice.
LeaderIsFirst ==
  /\ \A t \in Trx : pc[t] = "write" => group[t] # <<>> /\ Head(group[t]) = t
  /\ IsInjective(binlog)

\* Replicated transactions reach the slave's binlog in the order they had on
\* the master, whether they queued themselves (commit_started) or were queued
\* by the one before them (queued_by_other).
ReplicationOrder ==
  \A i, j \in 1..Len(binlog) :
    {binlog[i], binlog[j]} \subseteq Workers /\ i < j => binlog[i] < binlog[j]

\* prepare_ordered() is called in binlog order, as handler.h promises.
PrepareOrder ==
  \A i, j \in 1..Len(binlog) :
    i < j /\ {binlog[i], binlog[j]} \subseteq UsesXa
      => Before(prepared, binlog[i], binlog[j])

\* The interface the engines see: LOCK_log, LOCK_after_binlog_sync and
\* LOCK_commit_ordered keep the groups, and the leader the members of a group,
\* in the order of the binlog, with a gap only for a failed write.
Ordered == INSTANCE OrderedCommit
             WITH log <- binlog, rejected <- {t \in Trx : entryError[t]}, committed <- engine
ImplementsOrderedCommit == Ordered!Spec

\* A transaction that gives up - killed while it waits, or told that the prior
\* commit failed - is not committed behind its back: it is in no queue, and in
\* no group still to be processed.
AbortedNotQueued ==
  \A t \in Trx : result[t] = "failed" =>
    t \notin ToSet(queue) \cup ToSet(pending) \cup UNION {ToSet(group[l]) : l \in Trx}

\* Where t is, or returns to after the wakeup it is in.
At(t) == IF pc[t] \in {"walk", "walkError"} THEN walkThen[t] ELSE pc[t]

\* t has not yet waked up the next in its group.
TurnPending(t) ==
  At(t) \in {"wait", "wait2", "kill", "error", "follow", "write", "written", "sync",
            "reserve", "reserveWait", "own", "chain"}

\* Who is about to wake up waiter w.
Waker(w) ==
  \/ \E c \in Trx : w \in ToSet(subsequent[c]) /\ pc[c] # "done"
  \/ \E t \in Trx : w \in ToSet(walk[t])
  \/ queuedByOther[w] /\ (\/ w \in ToSet(queue) \cup ToSet(pending)
                          \/ \E t \in Trx : w \in ToSet(group[t])
                          \/ \E t \in Trx : nextEntry[t] = w /\ TurnPending(t))

\* Whoever waits for a prior commit is known to a thread that will wake it up
\* (register, remove_from_list, wakeup_subsequent_commits2).
WaiterKnown == \A w \in Workers : waitee[w] # None => Waker(w)

\* Every transaction ends: no lost wakeup, no thread waits forever for a
\* leader, a prior commit or COND_queue_busy.
AllFinish == \A t \in Trx : <>(pc[t] = "done")
=============================================================================
