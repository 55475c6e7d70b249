# A verification project for the EryDB server

EryDB is a fork of the MariaDB 10.1 server. Its commit path is the part of the
server where most of the correctness of the whole system is decided, and the part
that is hardest to test: a transaction passes through several threads, four
mutexes, a log file that may be rotated, purged or reset under it, storage engines
that acknowledge durability much later, a slave that has to confirm it, and possibly
a crash. This directory models that path in TLA+, checks it with TLC on small
instances, and proves the safety of binlog checkpoints, crash recovery, group commit,
commit ordering, the memory-mapped log and semi-synchronous replication with TLAPS for
every instance.

## Inventory of the system

| part | state | operations | hard behaviour |
|---|---|---|---|
| Binlog as transaction coordinator, `sql/log.cc` (`TC_LOG_BINLOG`) | `binlog_xid_count_list` with a counter per file, `current_binlog_id`, `reset_master_pending`, `mark_xid_done_waiting`, index file, checkpoint events | `log_and_order`, `mark_xids_active`, `mark_xid_done`, `unlog`, `rotate`, `open`, `do_checkpoint_request`, `commit_checkpoint_notify`, background thread, `purge_logs`, `reset_logs`, `recover` | lock released and re-taken in the middle of an operation, crash between any two steps, late engine answers |
| Group commit, `sql/log.cc` | `group_commit_queue`, `group_commit_queue_busy`, the four mutexes `LOCK_prepare_ordered`, `LOCK_log`, `LOCK_after_binlog_sync`, `LOCK_commit_ordered` | `queue_for_group_commit`, `trx_group_commit_leader`, `write_transaction_to_binlog_events` | leader acts for other threads, three ways to wait and to be woken, two groups in the pipeline |
| Commit ordering, `struct wait_for_commit` in `sql/sql_class.h` | `waitee`, `subsequent_commits_list`, `opaque_pointer`, `wakeup_error`, two flags | register, wait, wakeup, unregister | unlocked reads, kill racing wakeup, lock order between two objects |
| Parallel replication, `sql/rpl_parallel.cc` | per domain `last_committed_sub_id`, `stop_on_error_sub_id`, group commit orderers, worker pool | scheduling, `finish_event_group`, retry, speculative execution | errors and kills of one worker while others are at any point |
| `TC_LOG_MMAP`, `sql/log.cc` | pages with slots for XIDs, page pool, active and syncing page, buffer of cookies | `log_one_transaction`, `get_active_from_pool`, `overflow`, `sync`, `unlog`, `commit_checkpoint_notify`, `delete_entry`, `open`, `recover` | page hand-over between committers, entries erased by other threads, three conditions with different mutexes, failing `msync()`, crash |
| Semi-synchronous replication, `plugin/semisync` | active transaction list, reply, wait and commit position, on/off, enabled | `writeTranxInBinlog`, `commitTrx`, `updateSyncHeader`, `readSlaveReply`, `reportReplyBinlog`, `add_slave`, `remove_slave`, `enableMaster`, `disableMaster`, `resetMaster` | time-out racing a late acknowledgement or a SET GLOBAL, broadcast without the mutex, slaves that come back |
| Metadata locks, table locks, wait graph, lock-free containers | queues, grants, pins | acquire, release, deadlock search | starvation, deadlock, reclamation |
| GTID state, table cache, thread pool, event scheduler, query cache | hashes and lists under a mutex | insert, evict, wait | waits, eviction of what is in use |
| EryDB vtable processing | state in `THD` during a SELECT | create, fill, redo, drop | error paths that leave the state behind |
| Parser, optimiser, items, engines, clients, vendored code | - | - | sequential, or not this program's own code |

The parts meet in `ha_commit_trans()`: it prepares the engines, calls
`log_and_order()` of the coordinator, commits the engines and calls `unlog()`.
The coordinator calls back `prepare_ordered()` and `commit_ordered()` of the
engines in one global order, and asks them for commit checkpoints; parallel
replication hooks into it through `wait_for_commit`. With a binlog the coordinator
is `TC_LOG_BINLOG`; without one, and with two engines that need two-phase commit, it
is `TC_LOG_MMAP`. The semi-sync plugin is called by the leader when a group has been
flushed, and by each session after its commit.

What makes them correct: after a crash, binlog and engines agree; the files that
recovery needs are never deleted nor skipped; engines see transactions in binlog
order; a slave's binlog has the master's order; nobody waits forever; a
transaction that reports failure is not committed behind its back; and one that
semi-sync counts as acknowledged is on a slave.

## Modules

`BinlogCheckpoint` is the coordinator. A file of the binlog is its `binlog_id`,
the list of counters is the interval `listHead..current`, because entries are
appended with `++current_binlog_id` and removed only at the head. Threads have a
`pc`, and an action is what a thread does between two points where another thread
can interfere: for instance `mark_xid_done()` is `MarkXidDone` (under
`LOCK_xid_list`), `MarkXidDoneLocked` (with both locks again), `MarkXidDoneWrite`
(the event) and `MarkXidDonePos` (the wait for `LOCK_commit_ordered` with
`LOCK_log` held). The engines are external: `snapshot` records which transactions
had completed `commit_ordered()` when the checkpoint was requested, and
`EngineNotify` makes exactly those durable. `CrashRecover` is a crash followed by
`recover()`, `ha_recover()` and the opening of a new file; `RecoverAbort` is a
recovery that cannot go on. Group commit appears
only as far as checkpoints depend on it. What was flushed is not lost in a crash.

A rotation fails in two ways. If `generate_new_name()` finds no name the server goes on
with the old file (`RotateFail`, `"name"` in `IoErrors`). If the Rotate event, the index or
the new file cannot be written, `new_file_impl()` clears the in-use flag of the old file and
turns logging off until the restart (`RotateFailClose`, `"open"`): `mode` is then `"off"`. It
does so although the comment at `sql/log.cc:5104` says that the old file stays marked until
the new one is there. The group that rotated has not run `commit_ordered()` yet, and
later groups skip the binlog (`LeaderSkip`, against the assertion `is_open()` at line 7601).
After a crash `do_binlog_recovery()` sees no flag and scans nothing (`ScannedFiles` is empty),
and `ha_recover(0)` lets the server start only if no engine holds a transaction prepared
(`NothingPrepared`), else it stays down (`RecoverAbort`). Nor does `mark_xid_done()` ask whether the
log is open: its checkpoint event goes to an `IO_CACHE` that was released, which the model
takes as the end of the server (`MarkXidDoneWriteClosed`).

Steps of `BinlogCheckpoint` that stand for more than one of the code, or leave something out:

* `ResetReopen` deletes the files and the index, opens the new file and clears the list. A
  crash between the deletions (the comment at lines 4132-4140 describes it) and the errors of
  deleting and opening are not modelled.
* `LeaderCommitOrdered` runs the whole loop over the group under `LOCK_commit_ordered`.
* An entry that fails in `flush_and_sync()` or in the `after_flush` hook may have its XID in the
  file: `LeaderWrite` chooses any set `W` of written members that contains the good ones. What
  an engine makes of a failed transaction after a crash is not followed.
* Each connection commits once, so the `need_unlog` that `LeaderSkip` would leave stale in the
  cache manager of a connection that had committed before is not followed. With it `unlog()`
  would give back a count twice.
* RESET MASTER that finds the log closed after it has been announced is not followed; FLUSH
  LOGS, RESET MASTER and PURGE are not issued on a closed log. FLUSH LOGS would there
  release `LOCK_log` twice, in `new_file_impl()` (line 5048) and in `rotate_and_purge()`.

`MCBinlogCheckpoint` gives the lists of engines that transactions register.

`GroupCommit` is the queue, the leader and `wait_for_commit`. A transaction is the
number of its event group; `Workers` commit in that order, the others are clients.
Its variables carry the names of the C++ fields. `LOCK_wait_commit` is a variable
per transaction (`wfcLock`) that is only recorded where it is held across a step;
the two stores of `wakeup()` are two steps because they are read without a lock. For the
same reason a waiter in `queue_for_group_commit()` takes two steps, the check of
`commit_started` (`QueueRecheck`) and the offer of its entry (`QueueOffer`), with only its own
`LOCK_wait_commit` held: the waitee may be queued and look through its list in between. Then
the waiter is woken by `wakeup_subsequent_commits()`, which the runs and the proofs of
`WaiterKnown` cover. `StartWakeup` tests the list and sets the flag in one step; the code looks
at the list once without the lock, so that a killed waiter that leaves in between makes it walk
an empty list, which changes nothing.
`Kill` may reach a worker wherever it waits for a prior commit.

`OrderedCommit` is what `handler.h` promises an engine: groups enter a log, and
`commit_ordered()` is called for each logged and not rejected transaction, one by
one, in log order. `GroupCommit` is shown to implement it with optimised thread
scheduling; the mapping takes the binlog, the entries with an error and the
sequence of `commit_ordered()` calls.

`SequenceOrder` has the two operators on sequences that both use: `Keep(q, S)`, what the
loops over the lists of waiters and entries leave of a list, and `Before(q, a, b)`. `Keep` is
a recursive function rather than the `SelectSeq` of the standard library, of which the
prover knows nothing.

`TcLogMmap` is the other coordinator. `slot` is the mapped memory and `disk` the file
as of the last `msync()` of each page; a cookie is a page and a slot. The actions cut
`log_one_transaction()` where another thread can observe it: taking `LOCK_active`,
the scan of the pool, the wait in `overflow()`, taking the syncing slot, and counting
as a waiter only after `LOCK_active` has been released. `LOCK_active` and `LOCK_sync`
are variables; `LOCK_pool` is held across steps only between the scan and the wait
(`PoolLocked`), which is the window of the finding. The scan is one step although it
reads the pages without their locks: a page in the pool gets more free slots and loses
waiters, with one exception that is left out. A session whose page is already synced counts
itself in and out again (lines 9035 and 9042) where `Enroll` takes neither step, so that for a
moment a page in the pool can look unusable; a scan that meets it goes on to `overflow()`, where
the lost signal of the finding can strike as well. The engines' `commit()` is merged with `unlog()`, and a checkpoint of the one
engine that defers (InnoDB) with its notification. `Crash` is a crash, in which any
slots of the mapping may have been written by the operating system, followed by
`recover()` and `open()` as one step: a second crash in there, between the `bzero()` of the
file and its new header ("Bad magic header" at the next start), and the error paths of
`open()` are not modelled; no transaction starts after the last crash of an instance.
A transaction whose sync failed is rolled back, and what a crash makes of it is not
followed. `MCTcLogMmap` gives the symmetry of the sessions.

`SemiSync` is the master's side of semi-synchronous replication and what it needs of
dump threads and slaves. A position of the binlog is the number of the transaction
that ends there, the list with its hash table is the set `active`. Every action is
one critical section of `LOCK_binlog_`, except `Broadcast`, which reportReplyBinlog()
does after it has released the mutex, and `Expire`, the moment a timed wait ends
before the session has the mutex again. `AddSlave` and `DumpStart` are a slave
connecting, `DumpEnd` a connection lost with whatever was under way on it. A reply that
cannot be read does not end the dump thread by itself (the plugin ignores the error), but a
network error makes its next write fail, which ends it: the model goes to `DumpEnd`.
Malformed replies, after which the thread goes on, are not modelled. `reported` is a history
variable, the transactions that `writeTranxInBinlog()` was told of since semi-sync was enabled. The wait point is
AFTER_COMMIT; with AFTER_SYNC the leader makes the same calls one after the other,
which is a subset of the behaviours.

The theorems about `SemiSync` are in `SemiSyncProofs`, those about `TcLogMmap` in
`TcLogMmapProofs`, those about `GroupCommit` in `GroupCommitProofs`, which uses the lemmas on
sequences of `SequenceOrderProofs`. The theorems about
`BinlogCheckpoint` are in a chain of modules, each of which
extends the one before: `BinlogCheckpointProofs` (types and mutual exclusion),
`BinlogCheckpointAccounting` (the counters), `BinlogCheckpointOrder` (the order of
checkpoints) and `BinlogCheckpointRecovery` (crash recovery).

Every module defines, just before an operation, the wrong variants of it used to
show that a property can fail (comments starting with "Wrong:"). They are used by
no specification.

## Runs

| run | question | result |
|---|---|---|
| `checkpoint_rotate` | Two transactions, one on an engine that needs `unlog()`, up to four files, RESET MASTER, PURGE, failing writes, both kinds of failed rotation, one crash: exact counters, entries in use stay in the list, every XID that is needed is scanned while the log is open, nothing in the binlog is rolled back, checkpoints in order | holds, 638 741 states |
| `checkpoint_own` | Three transactions, `binlog_optimize_thread_scheduling=0`, rotation and RESET MASTER: exact counters when the pin goes from the leader to the last of its group and a second leader waits | holds, 108 304 states |
| `checkpoint_live` | `binlog_optimize_thread_scheduling=0`, FLUSH LOGS and RESET MASTER under fairness: the checkpoint catches up, RESET MASTER ends | holds, 38 920 states |
| `commit_client` | Two workers, one of which may fail and one be killed, and a client, write errors: orders, refinement of `OrderedCommit`, everybody ends | holds, 187 657 states |
| `commit_order` | Three workers, two of which may fail, with own `commit_ordered()` calls: order, nobody forgotten, everybody ends | holds, 41 333 states |
| `mmap_log` | Three sessions, three pages of two slots, five transactions, failing `msync()`, one crash: slots, pages, recovery, no sleeper without a syncer | holds, 157 000 states |
| `semisync_wait` | Two transactions, two slaves, time-outs, a kill, a lost connection, failing allocation, disabled and enabled again: acknowledged is received, no missed broadcast, the assertion of `commitTrx()`, release without the time-out, switched on by a slave that has everything, nothing slips through | holds, 749 650 states |
| `checkpoint_flush` | Does FLUSH LOGS respect the comment in `rotate()`? | violated |
| `checkpoint_need_unlog` | Is every engine without checkpoint requests tracked? | violated |
| `checkpoint_purge` | Is the checkpoint on disk before a purge can use it? | violated |
| `mmap_overflow` | Does the signal of `COND_pool` reach the session in `overflow()`? | violated |
| `semisync_disable` | Has `switch_off()` a list when a time-out races disabling? | violated |

Each violated run has a finding in `PROJECT.json` with the comment it refutes and
the line. The passing runs are set up without the ingredients of a finding, so that
they say what does hold: `checkpoint_rotate` has no FLUSH LOGS and its transaction
on the engine without checkpoint requests registers that engine last, which is
when the loop in `write_transaction_to_binlog()` sees it; `commit_order` has no
kill, `commit_client` one killable worker that only one other precedes. `mmap_log` does not
ask for progress after an overflow, and `semisync_wait` lets the server end in the
crash that `semisync_disable` shows.

Why kills are restricted: with `Workers = {1, 2, 3}` and `Killable = {3}` in
`GroupCommit_order.cfg`, TLC finds `ReplicationOrder` violated. A killed worker leaves
`wait_for_prior_commit()` early and still raises `last_committed_sub_id` in
`finish_event_group()`, past workers that have not committed; a worker that registers
afterwards does not wait for its prior one and overtakes it in the binlog. The comment
at `sql/rpl_parallel.cc:184`, "any prior commits will also have been done", does not
hold then.

The two findings of the newer modules in short. `mmap_overflow`: all slots are taken;
a session scans the pool, finds nothing usable, and before it sleeps on `COND_pool` the
engine's notification erases a page of entries and signals without `LOCK_pool`. The
session sleeps with `LOCK_active`, so no transaction can start, so nobody signals
again. `semisync_disable`: the wait of a session times out, disableMaster() gets the
mutex first and deletes the list, and the session's switch_off() dereferences it.

Bounds. `MaxFile` bounds the files ever created and `MaxCrash` the crashes. Three
files are the least in which a file that is neither the oldest in the list nor the
current one exists; the fourth is used by the restart. Two transactions are enough
for a group with a follower and for two groups in the pipeline; the ordering run
uses three, and so does `checkpoint_own`, where a leader waits for a group of two. In `TcLogMmap` three pages are the least `open()` accepts: one active, one
syncing, one in the pool; two slots make a page that is neither empty nor full, and
five transactions fill the first page and one other and reuse a page after a
checkpoint; the overflow needs six, all slots but the header and one. In `SemiSync` two
transactions give a wait position that is not everybody's, two slaves a reply that is
behind; `MaxToggles` is a disable and an enable, `MaxDisconnects` one lost connection.
Each transaction commits once: the fields of `wait_for_commit` are fresh for every
event group (`reinit()`).

Fairness. Every thread is a preemptively scheduled operating system thread, and
the mutexes are held for bounded sections, so a thread that is again and again able
to take a step takes one (strong fairness, as a mutex may be taken by others in
between). The engine's answer is weakly fair: the contract in `handler.h` says that
the notification must not be postponed indefinitely. No fairness is assumed for
the client commands, for kills, errors and crashes. In `SemiSync` the sessions and the
dump threads with their slaves are weakly fair: they need only `LOCK_binlog_`, which is
held for bounded sections, and a slave that lost its connection tries again. The
time-out is not fair, so that `WaiterIsReleased` is about replies alone. The runs that
check liveness disable the deadlock check, as a finished instance stops; `AllFinish`
excludes every other stop. `mmap_log` stops when the transactions are used up.

## What is proved

`TypeCorrect`: `Spec => []TypeOK` for `BinlogCheckpoint`, for all sets of
transactions, engine lists, command sets and bounds that satisfy
`ConstantsAssumption`. The type invariant says more than types: the list is never
empty and its head never passes the current file, every binlog id a thread carries
is one of the files, and no action creates a file past the bound. It is not
inductive. The strengthening `TypeInv` adds three parts.

* `PcInv`: which program points each kind of thread can be at, and where it goes on
  after `mark_xid_done()`. Without it `MarkXidDonePos` could send a thread anywhere.
* `LogInv`: a thread at a point inside a `LOCK_log` section owns `LOCK_log`. So a
  rotation, a checkpoint write and RESET MASTER exclude each other, which is what
  keeps `current` stable from the scan in `open()` to the link of the new entry.
* `RoomInv`: a thread that has started a rotation, or RESET MASTER, has a file left,
  and the index is not empty.

The proof has a lemma per group of actions (leader, commit, rotation, checkpoint,
flush, engine, reset, crash) and in each one step per action, with one leaf per
part of the invariant. `FileMax` and `FirstPendingIs` show that the two `CHOOSE`
operators return what the loops in the code return; they rest on the existence of
a least element of a set of naturals (`NatMin`), taken from the well-founded
ordering of the naturals.

`XidAccountingHolds` and `EntryInListHolds`: the counters are exact and no entry in
use is freed, for every instance and in both scheduling modes. `XidAccounting` is
not inductive: that a decrement removes exactly one holder depends on who can hold
a count at the same time. `AccInv` adds

* `GroupInv`: the groups in the pipeline are disjoint, their followers wait, and
  carry the `binlog_id` of their leader. Without it the last follower of a group
  could take over a pin on another file (`MovePin`).
* `CheckPurgeInv`, `BidInv`: `check_purge` is only set after a rotation, and a pinned
  file is older than the current one except during the rotation and RESET MASTER.
* `PinInv`: a file is pinned by at most one thread, its checkpoint is requested at
  most once, and a file is not both requested and notified.
* `ListInv`: a file outside of the list has no count.

The count itself is kept as `Counted`, the sum of three cardinalities, one for each
kind of holder; the lemmas `AddPin`, `DropPin`, `MovePin`, `AddXids`, `DropXid`,
`AddAsked`, `DropAsked` say what one step does to it, and `CountedIsAccounting`
that the sum is the cardinality of `Holders`. Which members of a group were counted is
`XidCounted`: those that went through the writing part of the leader. A group that skips it, as
the log is closed, has none, and `PreparedInv` (a transaction still to be queued is neither
written nor failed) keeps the two apart.

`CheckpointInOrderHolds`: the checkpoint on disk never moves back. `OrderInv` says that
the last file of the index is the current one, or the next one between the two
halves of `open()`; that the checkpoint is never ahead of the head of the list; and
that the name `open()` has read stays right until the entry is linked: nobody can
add a count to an entry before it, as that would need `LOCK_log` or a count on
the entry already (`AccInv`).

`XidRecoverableHolds` and `NoLostTransactionHolds`: recovery finds every transaction
that it must commit, and never rolls back one that is in the binlog, after any
number of crashes. The first is about an open log: once a failed rotation has closed it
nothing is scanned, and `XidRecoverable` would be false of the group that rotated. The second
covers the closed log too, because the server then starts only when the engines hold nothing
prepared; that it may refuse to start is what the code does, and no loss. Every kind of I/O error
is allowed in both. Both assume `SafeConfig`, of which `checkpoint_rotate` is an instance and
which excludes what the findings are about: FLUSH LOGS (`checkpoint_flush`), an engine
that is durable only when `commit()` returns and that `need_unlog` misses
(`checkpoint_need_unlog`), and own `commit_ordered()` calls, where a leader that waits
on `COND_queue_busy` has given up `LOCK_commit_ordered` and can be overtaken by one that
has rotated the log (this takes four transactions in `GroupCommit`): that group then requests the checkpoint of a file in which the overtaken
group has not run `commit_ordered()`. So none of the three conditions can be dropped.
`RecoverInv` is the argument; its parts that speak of transactions in the binlog do so while
the log is open (`InBinlog`):

* `StageInv`, `BehindInv`: a leader holds the mutex of its stage, and no group behind
  one that has rotated the log is in the same file. So, when that leader requests
  the checkpoint, every transaction of the file has run `commit_ordered()`
  (`OrderedInv`); this is the step that fails with FLUSH LOGS.
* `CoveredInv`: a transaction of an old file that is not durable in the engine with
  checkpoints is covered by a request still to be made, or by one not answered whose
  snapshot contains it. Either holds a count on the file.
* `PlainInv`: one that is not durable in another engine has not called `unlog()` and
  holds a count itself.
* `KeptInv`: the file is in the index. A counted file is in the list (`OpenInList`), so
  `purge_logs()` leaves it alone, and RESET MASTER waits until there is none.

With `OrderInv`, the checkpoint does not pass the first counted file, hence
`XidRecoverable` (`RecoverInvRecoverable`).

For `SemiSync`, with `SemiSyncAssumption` as the only assumption: `TypeCorrect`,
`AcknowledgedIsReceived`, `BroadcastsReachAll`, `FinishedNotActive`, `OnCoversAllHolds` and
`SwitchOnAfterCatchUp`. None of the properties is inductive. `SafeInv` adds

* `SlaveOrder`, `ReplyHeld`: a slave that has replied has all it was sent, hence some
  slave has what the reply position says, also after it was reported by a slave that
  came back. That is why leaving `commitTrx()` with semi-sync on means received.
* `OffIsEmpty`, `Entered`, `ActiveAfterReply`: the list is empty while semi-sync is off or
  disabled, and holds only written transactions after the reply position. Without
  them a transaction could finish and be in the list.
* `WaitPosCovers`: while a session sleeps semi-sync is on, and unless a broadcast is
  under way the wait position is valid, at or before the session's, and the reply is
  before it. This is why comparing the reply with one position is enough.

`CoverInv` adds, for the last two, `ReportedInv`: `commit_file_pos_` is at or after everything
reported since semi-sync was enabled, though no reply is asked for while semi-sync is off. So a reply that
passes the test of `try_switch_on()` comes from a slave that has all of it (`CaughtUp`; by
`SlaveOrder` the reply that is read speaks for what the slave has received), and what a reply
clears from the list is on that slave (`CoverReport`).

`SwitchOffSafe` and `ReportReplySafe` say what the two shared procedures do to the parts,
and `SafeStep` has one step per action.

For `TcLogMmap`, with `MmapAssumption` as the only assumption (at least three pages of
at least two slots, at most one engine that defers, sessions and engine threads
distinct): `TypeCorrect`, `SlotAccountingHolds`, `PageListsHold`, `RecoverableHolds`,
`AllOrNothingHolds` and `SleeperHasWakerHolds`, for any number of crashes. They are all
parts or consequences of one invariant, `Inv`, because the parts need each other:

* `LockInv`, `SyncerInv`, `PoolInv`: who holds `LOCK_active` and `LOCK_sync` at which
  point, that there is one syncer and where its page is, and that a page of the pool is
  there once and is not dirty. A page in the pool but still `syncing` is the reason
  for the stages in `SyncerInv`.
* `SlotInv`, `CleanInv`: the slots agree with `free` and `ptr`, and a page that is not
  dirty has its XIDs on disk. So a session that finds its page synced by another may
  return success.
* `WaiterInv`: `waiters` counts those who sleep on the page or just woke up. This
  is what `TakeFromPool` relies on when it asks for a page without waiters:
  without it the page of a late waiter could be reused and become dirty, and its
  session would wait for a second sync.
* `XidInv`, `GivenInv`, `OwnInv`: an XID is given out once, and the cookie of a session
  leads to its XID in memory, and on disk when it is synced.
* `ListInv`, `ApartInv`, `CountInv`: every cookie is in one list at most, its transaction is
  committed, and flushed in all engines but those that `pending_count` still waits
  for. So `delete_entry()` erases a slot once, and of a transaction nobody needs: this is
  the step on which `Recoverable` rests.
* `DurableInv`, `KeptInv`: a transaction that some engine has was logged or is in all of
  them; after a crash this gives `AllOrNothing`.

A session's steps are proved part by part (`LockStep` to `DurableStep`), each with one
step per action; the engine's notification, `delete_entry()` and the crash are proved for
all parts at once. `FreshInv` says that the state `open()` leaves behind satisfies
`Inv`, and serves both `Init` and the end of a crash. Finding the invariant corrected
one thing that the model left open: the sets of sessions and engine threads have to be
disjoint.

For `GroupCommit`, with `ConstantsAssumption` as the only assumption on the constants:
`Invariance`, `TypeCorrect`, `LeaderIsFirstHolds`, `PrepareOrderHolds`,
`AbortedNotQueuedHolds` and `WaiterKnownHolds`, in both scheduling modes and with kills and
errors; `ReplicationOrderHolds` when no worker is killed; `ImplementsOrderedCommitHolds` with
optimised thread scheduling. The first six rest on one invariant, `Inv`:

* `PcInv`, `MutexInv`, `WfcInv`: what the place of a thread says of its variables, and who
  holds which of the four mutexes and which `LOCK_wait_commit`. `At(t)` is the place of a
  thread, or the one it returns to after the wakeup it is in, as
  `wakeup_subsequent_commits()` is called with mutexes held.
* `SubInv`: a waiter is in the list of its waitee, once, and in no walk at the same time.
* `SettledInv`: the owner of an entry that is or was in the queue does not queue it
  again. This is what a waiter relies on that reads `queued_by_other` after it has
  woken up, and a waitee that queues its waiters under their backs.
* `MemberInv`: the owner of an entry that a leader still has to process is `Parked`. It
  sleeps on the wakeup that its way into the queue calls for, and nobody else is
  about to give it, so the leader does not work on an entry whose thread has gone.
* `DistinctInv`, `HeadInv`: queue, groups and binlog have nothing in common, and the leader
  is the first of its group while it appends to the queue, collects and writes it.
* `NextInv`, `KnownInv`: the `next` pointers stay within a group and link all of it, and
  whoever has a waitee is in a list, a walk, the queue, a group, or is the next of
  somebody whose turn is still to come. `WaiterKnown` was sharpened for the proof:
  its first form accepted a predecessor that had not ended, also one that had
  passed the point where it wakes up its successor.
* `PrepInv`: `prepare_ordered()` was called for the binlog, the group being written and the
  queue in this order.

`ReplicationOrderHolds` adds `OrderInv`: a worker gets ahead, that is, it leaves its list
of waiters, is queued, starts to let its own waiters go, or ends, only when all
workers before it are settled (`AheadInv`), and what is written, being written, queued and
being queued is in the master's order (`CourseInv`). The hypothesis `Killable = {}` cannot be
dropped. Two ways to break the order with one killable worker of three were found by
TLC: the one described under Runs, and the killed worker 2 that ends before 1 and wakes
up 3, whose unlocked look at `waitee` falls between the two stores of `wakeup()`, so that
it sees no error either.

`ImplementsOrderedCommitHolds` adds `PipelineInv`: the good transactions of the binlog are
those that the engine has committed, followed by the rest of the group that holds
`LOCK_commit_ordered`, the group that holds `LOCK_after_binlog_sync` and the one that holds
`LOCK_log` after its write, in this order (`Todo`). A group moves from one part to the next
because a leader takes each mutex before it gives up the one before. Every step then maps
to a step of `OrderedCommit` (`LeaderWrite` to `WriteGroup`, `LeaderCommitOne` of a good
entry to `CommitNext`) or to a stutter. Without optimised scheduling the refinement does
not hold: with four clients TLC shows a leader overtaken while it waits on
`COND_queue_busy`, the behaviour mentioned above for `SafeConfig`.

`SequenceOrderProofs` has what these proofs need to know of sequences: which elements and
which order `\o`, `Append`, `Tail` and `Keep` leave, and that `Keep` distributes over `\o` and
depends only on the elements of the sequence. What the recursive function `Keep` returns is
proved with an induction principle over a set (`SeqInduction`), taken from the well-founded
order of the naturals, since the library's induction theorems have an operator as parameter.

The model changed in three places for these proofs. `Keep` replaces `SelectSeq`. `Reserve`
clears `group`, the local list of the leader, which nobody reads after it. `Waker` asks
for `TurnPending`.

Only model-checked: all liveness properties (`AllFinish`, `CheckpointCatchesUp` and the like),
which need fairness and are outside of what the prover handles. `OverflowIsSignalled` is
violated.

## Not modelled, and the plan

Not modelled: the contents of events and caches, GTIDs, encryption, `sync_binlog`
other than 1, disk errors on delete, shutdown. The engines, the plugin hooks and
the file system are external.

In `TC_LOG_MMAP`: the queue of `log_and_order()` that serves engines with
`prepare_ordered()` (there is none in the tree), allocation failure in `unlog()`, two
engines with `commit_checkpoint_request()`, spurious wakeups. In semi-sync:
`resetMaster()`, after which positions start again, the blocks of
`TranxNodeAllocator`, the order of file names past six digits.

The models cover the commit path and what hangs on it, a small part of the 2.4
million lines of the repository: most of these are character set tables, storage
engines, the optimiser and vendored libraries, sequential code or data about which a
model of states and steps has nothing to say.

Order of further work:

1. `CheckpointFileKept` for a server without PURGE; a form of the master's order that holds
   with kills, for the groups before the killed one;
2. `RplParallel`: group commit orderers, retry and speculative execution with
   deadlock kill, using `unregister_wait_for_prior_commit()`;
3. `resetMaster()` and AFTER_SYNC in `SemiSync`, composed with the leader of
   `GroupCommit`;
4. `Mdl`, `ThrLock` and the wait graph with their deadlock detection; the pinbox of
   the lock-free allocator; the table cache; the EryDB vtable state machine.
