-------------------------- MODULE BinlogCheckpoint --------------------------
(***************************************************************************)
(* XA crash recovery across binary log rotation (sql/log.cc).              *)
(*                                                                         *)
(* A transaction is prepared in its engines, its XID is written to the     *)
(* current binlog file, and it is then committed in the engines.  After a  *)
(* crash TC_LOG_BINLOG::recover() scans the binlog from the file the last  *)
(* Binlog_checkpoint event names and commits the prepared transactions     *)
(* whose XID it finds; every other prepared transaction is rolled back.    *)
(* The checkpoint must therefore never move past a file that holds an XID  *)
(* an engine has not made durable.  binlog_xid_count_list keeps one        *)
(* counter per file for that: a count is held by every XID whose           *)
(* transaction needs unlog(), by the thread that rotated the file until it *)
(* has requested the engines' commit checkpoint, and by every engine that  *)
(* has not yet answered that request.                                      *)
(*                                                                         *)
(* A binlog file is its binlog_id, the list is the interval                *)
(* listHead..current (entries are appended with ++current_binlog_id and    *)
(* only removed at the head).  Crashes lose nothing that was flushed       *)
(* (sync_binlog=1, or a crash of the process only).                        *)
(***************************************************************************)
EXTENDS Integers, FiniteSets, Sequences

CONSTANTS
  Trx,              \* the client threads, each with one transaction to commit
  Flush,            \* the connection that runs FLUSH LOGS
  Reset,            \* the connection that runs RESET MASTER
  Background,       \* binlog_background_thread
  Nobody,           \* the owner of a free mutex
  HaList,           \* thd->transaction.all.ha_list of each transaction
  Commands,         \* which of "flush", "reset", "purge" are issued
  OptimizeThreadScheduling, \* opt_optimize_thread_scheduling
  IoErrors,         \* what may fail: "write" an event, find a "name" for the next
                    \* file, write the Rotate event to the old or "open" the new one
  MaxFile,          \* bound: binlog files created
  MaxCrash          \* bound: crashes

Thread == Trx \cup {Flush, Reset, Background}

\* "ckpt" stands for an engine with commit_checkpoint_request (InnoDB, XtraDB),
\* "plain" for a 2-phase engine without it (TokuDB), "binlog" for binlog_hton.
Engine == {"ckpt", "plain", "binlog"}

ASSUME ConstantsAssumption ==
  /\ IsFiniteSet(Trx)
  /\ {Flush, Reset, Background} \cap Trx = {}
  /\ Flush # Reset /\ Flush # Background /\ Reset # Background
  /\ Nobody \notin Thread
  /\ HaList \in [Trx -> Seq(Engine)]
  /\ Commands \subseteq {"flush", "reset", "purge"}
  /\ OptimizeThreadScheduling \in BOOLEAN
  /\ IoErrors \subseteq {"write", "name", "open"}
  /\ MaxFile \in Nat /\ MaxFile > 1
  /\ MaxCrash \in Nat

File == 1..MaxFile

VARIABLES
  pc,           \* where each thread is
  resume,       \* where it goes on when mark_xid_done() returns
  bid,          \* the binlog_id it carries (entry.binlog_id, prev_binlog_id)
  group,        \* members of the group a leader commits
  checkPurge,   \* the leader has rotated the log (check_purge)
  lockLog, lockAbs, lockCo,  \* LOCK_log, LOCK_after_binlog_sync, LOCK_commit_ordered
  busy,         \* group_commit_queue_busy
  current,      \* current_binlog_id
  listHead,     \* binlog_xid_count_list is listHead..current
  xidCount,     \* xid_count of each entry
  openName,     \* b->binlog_name as read by open() for the new file
  resetPending, \* reset_master_pending
  requests,     \* files whose commit checkpoint the engine has yet to answer
  snapshot,     \* the transactions that request covers
  notified,     \* binlog_background_thread_queue
  files,        \* the binlog index
  ckpt,         \* file named by the last checkpoint event of each file
  xidFile,      \* file holding the XID of a transaction, 0 if none does
  failed,       \* transactions whose entry->error is set
  ordered,      \* commit_ordered() has run
  durPlain,     \* durably committed in the "plain" engines
  durCkpt,      \* durably committed in the "ckpt" engine
  lost,         \* rolled back in an engine by recovery
  crashes,
  mode          \* "up", "off" when the log has been closed and its last file
                \* is not marked in use, "aborted" when the server stays down

threadVars == <<pc, resume, bid, group, checkPurge>>
lockVars == <<lockLog, lockAbs, lockCo, busy>>
listVars == <<current, listHead, xidCount, openName, resetPending>>
engineVars == <<requests, snapshot, notified, ordered, durPlain, durCkpt>>
diskVars == <<files, ckpt, xidFile>>
endVars == <<failed, lost, crashes, mode>>
vars == <<threadVars, lockVars, listVars, engineVars, diskVars, endVars>>

-----------------------------------------------------------------------------
Engines(t) == {HaList[t][i] : i \in 1..Len(HaList[t])}

\* write_transaction_to_binlog(): the loop over ha_list ends with an
\* unconditional break, so only the first participant decides.
NeedUnlog(t) == HaList[t] # <<>> /\ Head(HaList[t]) = "plain"

LastFile == CHOOSE f \in files : \A g \in files : g <= f

\* The first entry of the list with a count that is not zero, the new file
\* itself (current + 1) if there is none.
FirstPending ==
  CHOOSE i \in listHead..current + 1 :
    /\ i = current + 1 \/ xidCount[i] # 0
    /\ \A j \in listHead..i - 1 : xidCount[j] = 0

\* One file is kept for the RESET MASTER still to come.
FileLimit == IF "reset" \in Commands /\ pc[Reset] # "done"
             THEN MaxFile - 1 ELSE MaxFile

\* Who is inside mark_xid_done() between the two locked sections;
\* mark_xid_done_waiting is the size of this set.
MarkXidDoneWaiting == {r \in Thread : pc[r] = "markWait"}

Init ==
  /\ pc = [r \in Thread |-> IF r \in Trx THEN "prepared" ELSE "idle"]
  /\ resume = [r \in Thread |-> "done"]
  /\ bid = [r \in Thread |-> 1]
  /\ group = [t \in Trx |-> {}]
  /\ checkPurge = [r \in Thread |-> FALSE]
  /\ lockLog = Nobody /\ lockAbs = Nobody /\ lockCo = Nobody
  /\ busy = FALSE
  /\ current = 1 /\ listHead = 1 /\ openName = 1
  /\ xidCount = [f \in File |-> 0]
  /\ resetPending = FALSE
  /\ requests = {} /\ notified = {}
  /\ snapshot = [f \in File |-> {}]
  /\ files = {1}
  /\ ckpt = [f \in File |-> 1]
  /\ xidFile = [t \in Trx |-> 0]
  /\ failed = {} /\ ordered = {} /\ durPlain = {} /\ durCkpt = {} /\ lost = {}
  /\ crashes = 0
  /\ mode = "up"

-----------------------------------------------------------------------------
(* The counters.                                                           *)

\* Wrong: reset_master_pending is not looked at.
MarkXidDoneNoReset(r, id, next) ==
  /\ xidCount' = [xidCount EXCEPT ![id] = @ - 1]
  /\ resume' = [resume EXCEPT ![r] = next]
  /\ pc' = [pc EXCEPT ![r] = IF id = current \/ xidCount[id] # 1 \/ id # listHead
                             THEN next ELSE "markWait"]

\* Wrong: the count is tested before it is decremented.
MarkXidDoneEarlyTest(r, id, next) ==
  /\ xidCount' = [xidCount EXCEPT ![id] = @ - 1]
  /\ resume' = [resume EXCEPT ![r] = next]
  /\ pc' = [pc EXCEPT ![r] =
             IF resetPending \/ id = current \/ xidCount[id] # 0 \/ id # listHead
             THEN next ELSE "markWait"]

\* mark_xid_done(id, true) up to the point where it must have LOCK_log: the
\* caller r goes on at "next" unless a new checkpoint has been reached.
MarkXidDone(r, id, next) ==
  /\ xidCount' = [xidCount EXCEPT ![id] = @ - 1]
  /\ resume' = [resume EXCEPT ![r] = next]
  /\ pc' = [pc EXCEPT ![r] =
             IF resetPending \/ id = current \/ xidCount[id] # 1 \/ id # listHead
             THEN next ELSE "markWait"]

\* Wrong: the entry of the current file is removed as well.
MarkXidDoneLockedAll(r) ==
  /\ pc[r] = "markWait"
  /\ lockLog = Nobody
  /\ lockLog' = r
  /\ listHead' = FirstPending
  /\ pc' = [pc EXCEPT ![r] = "markWrite"]
  /\ UNCHANGED <<resume, bid, group, checkPurge, lockAbs, lockCo, busy, current,
                 xidCount, openName, resetPending, engineVars, diskVars, endVars>>

\* The second locked section: LOCK_log, then LOCK_xid_list again; entries
\* with a zero count are removed from the head, never the current one.
MarkXidDoneLocked(r) ==
  /\ pc[r] = "markWait"
  /\ lockLog = Nobody
  /\ lockLog' = r
  /\ listHead' = IF FirstPending > current THEN current ELSE FirstPending
  /\ pc' = [pc EXCEPT ![r] = "markWrite"]
  /\ UNCHANGED <<resume, bid, group, checkPurge, lockAbs, lockCo, busy, current,
                 xidCount, openName, resetPending, engineVars, diskVars, endVars>>

\* write_binlog_checkpoint_event_already_locked(): a failure is only reported ...
MarkXidDoneWrite(r) ==
  /\ pc[r] = "markWrite" /\ mode = "up"
  /\ \/ ckpt' = [ckpt EXCEPT ![current] = listHead]
     \/ "write" \in IoErrors /\ UNCHANGED ckpt
  /\ pc' = [pc EXCEPT ![r] = "markPos"]
  /\ UNCHANGED <<resume, bid, group, checkPurge, lockVars, listVars, engineVars,
                 files, xidFile, endVars>>

\* The server stops and does not come up again: what was in memory is gone.
ServerDown ==
  /\ mode' = "aborted"
  /\ pc' = [r \in Thread |-> "down"]
  /\ xidCount' = [f \in File |-> 0]
  /\ requests' = {} /\ notified' = {}
  /\ group' = [t \in Trx |-> {}]
  /\ UNCHANGED <<resume, bid, checkPurge, lockVars, current, listHead, openName,
                 resetPending, snapshot, ordered, durPlain, durCkpt, diskVars,
                 failed, lost>>

\* Nobody asks whether the log is still open: the write to the IO_CACHE that
\* end_io_cache() has released crashes the server.
MarkXidDoneWriteClosed(r) ==
  /\ pc[r] = "markWrite" /\ mode = "off"
  /\ ServerDown
  /\ UNCHANGED crashes

\* ... and LOCK_commit_ordered is taken for the position, with LOCK_log held.
MarkXidDonePos(r) ==
  /\ pc[r] = "markPos"
  /\ lockCo = Nobody
  /\ lockLog' = Nobody
  /\ pc' = [pc EXCEPT ![r] = resume[r]]
  /\ UNCHANGED <<resume, bid, group, checkPurge, lockAbs, lockCo, busy, listVars,
                 engineVars, diskVars, endVars>>

-----------------------------------------------------------------------------
(* Group commit, as far as the checkpoint depends on it.                   *)

\* trx_group_commit_leader() under LOCK_log: the entries E fail, some of them
\* only in flush_and_sync() or the after_flush hook, so that the XIDs of W are in
\* the current file; mark_xids_active() counts every member that needs unlog(),
\* the failed ones included.
LeaderWrite(l, G, E, W) ==
  /\ lockLog = Nobody /\ mode = "up"
  /\ l \in G /\ \A t \in G : pc[t] = "prepared"
  /\ E \subseteq G /\ (E # {} => "write" \in IoErrors)
  /\ G \ E \subseteq W /\ W \subseteq G
  /\ lockLog' = l
  /\ group' = [group EXCEPT ![l] = G]
  /\ pc' = [r \in Thread |-> IF r = l THEN "log"
                             ELSE IF r \in G THEN "queued" ELSE pc[r]]
  /\ bid' = [r \in Thread |-> IF r \in G THEN current ELSE bid[r]]
  /\ xidFile' = [t \in Trx |-> IF t \in W THEN current ELSE xidFile[t]]
  /\ failed' = failed \cup E
  /\ xidCount' = [xidCount EXCEPT ![current] =
                    @ + Cardinality({t \in G : NeedUnlog(t)})]
  /\ UNCHANGED <<resume, checkPurge, lockAbs, lockCo, busy, current, listHead,
                 openName, resetPending, engineVars, files, ckpt, lost, crashes,
                 mode>>

\* The log has been closed: the group skips the writing and the rotation, and
\* its transactions are committed in the engines without a binlog entry.
LeaderSkip(l, G) ==
  /\ lockLog = Nobody /\ mode = "off"
  /\ l \in G /\ \A t \in G : pc[t] = "prepared"
  /\ lockLog' = l
  /\ group' = [group EXCEPT ![l] = G]
  /\ pc' = [r \in Thread |-> IF r = l THEN "rotated"
                             ELSE IF r \in G THEN "queued" ELSE pc[r]]
  /\ bid' = [r \in Thread |-> IF r \in G THEN current ELSE bid[r]]
  /\ UNCHANGED <<resume, checkPurge, lockAbs, lockCo, busy, listVars, engineVars,
                 diskVars, endVars>>

\* LOCK_after_binlog_sync is taken before LOCK_log is released; then the
\* after_sync hooks run.
LeaderSync(l) ==
  /\ l \in Trx
  /\ pc[l] \in {"log", "rotated"}
  /\ lockAbs = Nobody
  /\ lockAbs' = l
  /\ lockLog' = Nobody
  /\ pc' = [pc EXCEPT ![l] = "abs"]
  /\ UNCHANGED <<resume, bid, group, checkPurge, lockCo, busy, listVars,
                 engineVars, diskVars, endVars>>

\* LOCK_commit_ordered is taken before LOCK_after_binlog_sync is released.
LeaderOrder(l) ==
  /\ pc[l] = "abs"
  /\ lockCo = Nobody
  /\ lockCo' = l
  /\ lockAbs' = Nobody
  /\ pc' = [pc EXCEPT ![l] = "co"]
  /\ UNCHANGED <<resume, bid, group, checkPurge, lockLog, busy, listVars,
                 engineVars, diskVars, endVars>>

\* Where a thread of a group goes once commit_ordered() has run for it:
\* the last one of a group that rotated the log requests the checkpoint.
AfterOrder(t, last, purge) ==
  IF last /\ purge THEN "request" ELSE IF t \in failed THEN "unlog" ELSE "commit"

\* The leader runs commit_ordered() for the whole group, wakes everybody and
\* releases LOCK_commit_ordered.
LeaderCommitOrdered(l) ==
  /\ OptimizeThreadScheduling
  /\ pc[l] = "co"
  /\ ordered' = ordered \cup (group[l] \ failed)
  /\ lockCo' = Nobody
  /\ pc' = [r \in Thread |-> IF r \in group[l]
                             THEN AfterOrder(r, r = l, checkPurge[l]) ELSE pc[r]]
  /\ UNCHANGED <<resume, bid, group, checkPurge, lockLog, lockAbs, busy, listVars,
                 requests, snapshot, notified, durPlain, durCkpt, diskVars, endVars>>

\* Without the optimisation the leader waits for the previous group on
\* COND_queue_busy, which releases LOCK_commit_ordered ...
LeaderWaitBusy(l) ==
  /\ ~OptimizeThreadScheduling
  /\ pc[l] = "co" /\ busy
  /\ lockCo' = Nobody
  /\ pc' = [pc EXCEPT ![l] = "busyWait"]
  /\ UNCHANGED <<resume, bid, group, checkPurge, lockLog, lockAbs, busy, listVars,
                 engineVars, diskVars, endVars>>

\* ... and every member of the group runs its own commit_ordered() under
\* LOCK_commit_ordered, the leader first; the last one clears the flag.
OwnCommitOrdered(t, l) ==
  LET rest == group[l] \ {t} IN
  /\ ordered' = IF t \in failed THEN ordered ELSE ordered \cup {t}
  /\ busy' = (rest # {})
  /\ lockCo' = Nobody
  /\ group' = [group EXCEPT ![l] = rest]
  /\ pc' = [pc EXCEPT ![t] = AfterOrder(t, rest = {}, checkPurge[l])]
  /\ UNCHANGED <<resume, bid, checkPurge, lockLog, lockAbs, listVars,
                 requests, snapshot, notified, durPlain, durCkpt, diskVars, endVars>>

LeaderOwnCommitOrdered(l) ==
  /\ ~OptimizeThreadScheduling
  /\ ~busy
  /\ pc[l] = "co" \/ (pc[l] = "busyWait" /\ lockCo = Nobody)
  /\ OwnCommitOrdered(l, l)

FollowerOwnCommitOrdered(t, l) ==
  /\ ~OptimizeThreadScheduling
  /\ lockCo = Nobody
  /\ pc[t] = "queued" /\ t \in group[l] /\ l \notin group[l]
  /\ OwnCommitOrdered(t, l)

\* commit_one_phase_2(): a "plain" engine is durable when commit() returns.
EngineCommit(t) ==
  /\ pc[t] = "commit"
  /\ durPlain' = durPlain \cup {t}
  /\ pc' = [pc EXCEPT ![t] = "unlog"]
  /\ UNCHANGED <<resume, bid, group, checkPurge, lockVars, listVars, requests,
                 snapshot, notified, ordered, durCkpt, diskVars, endVars>>

\* mark_xids_active() has counted the XID of t, if it needs unlog(): t has been
\* through the writing part of trx_group_commit_leader().
XidCounted(t) == NeedUnlog(t) /\ (xidFile[t] # 0 \/ t \in failed)

\* Wrong: the error path of write_transaction_to_binlog_events() keeps the count.
UnlogNotOnError(t) ==
  /\ pc[t] = "unlog"
  /\ IF XidCounted(t) /\ t \notin failed
     THEN MarkXidDone(t, bid[t], "done")
     ELSE /\ pc' = [pc EXCEPT ![t] = "done"]
          /\ UNCHANGED <<xidCount, resume>>
  /\ UNCHANGED <<bid, group, checkPurge, lockVars, current, listHead, openName,
                 resetPending, engineVars, diskVars, endVars>>

\* unlog() with a dummy cookie does nothing; otherwise, and on the error path
\* of write_transaction_to_binlog_events(), the count is given back.
Unlog(t) ==
  /\ pc[t] = "unlog"
  /\ IF XidCounted(t)
     THEN MarkXidDone(t, bid[t], "done")
     ELSE /\ pc' = [pc EXCEPT ![t] = "done"]
          /\ UNCHANGED <<xidCount, resume>>
  /\ UNCHANGED <<bid, group, checkPurge, lockVars, current, listHead, openName,
                 resetPending, engineVars, diskVars, endVars>>

-----------------------------------------------------------------------------
(* Rotation: rotate(), new_file_impl(), open(); LOCK_log is held throughout. *)

\* FLUSH LOGS: rotate_and_purge() takes LOCK_log.
FlushStart ==
  /\ "flush" \in Commands /\ mode = "up"
  /\ pc[Flush] = "idle"
  /\ lockLog = Nobody
  /\ current < FileLimit
  /\ lockLog' = Flush
  /\ bid' = [bid EXCEPT ![Flush] = current]
  /\ pc' = [pc EXCEPT ![Flush] = "log"]
  /\ UNCHANGED <<resume, group, checkPurge, lockAbs, lockCo, busy, listVars,
                 engineVars, diskVars, endVars>>

\* Wrong: the entry is not pinned.
RotateBeginNoPin(r) ==
  /\ r \in Trx \cup {Flush}
  /\ pc[r] = "log"
  /\ current < FileLimit
  /\ pc' = [pc EXCEPT ![r] = "rotate"]
  /\ UNCHANGED <<resume, bid, group, checkPurge, lockVars, listVars, engineVars,
                 diskVars, endVars>>

\* rotate() pins the entry of the file it is about to leave.
RotateBegin(r) ==
  /\ r \in Trx \cup {Flush}
  /\ pc[r] = "log"
  /\ current < FileLimit
  /\ xidCount' = [xidCount EXCEPT ![current] = @ + 1]
  /\ pc' = [pc EXCEPT ![r] = "rotate"]
  /\ UNCHANGED <<resume, bid, group, checkPurge, lockVars, current, listHead,
                 openName, resetPending, engineVars, diskVars, endVars>>

\* generate_new_name() fails: mark_xid_done(binlog_id, false), and the server
\* goes on with the old file.
RotateFail(r) ==
  /\ "name" \in IoErrors
  /\ pc[r] = "rotate"
  /\ xidCount' = [xidCount EXCEPT ![bid[r]] = @ - 1]
  /\ pc' = [pc EXCEPT ![r] = "rotated"]
  /\ UNCHANGED <<resume, bid, group, checkPurge, lockVars, current, listHead,
                 openName, resetPending, engineVars, diskVars, endVars>>

\* Writing the Rotate event, open_index_file() or open() fails: the in-use flag
\* of the old file is cleared and logging is off until the server is restarted.
RotateFailClose(r) ==
  /\ "open" \in IoErrors
  /\ pc[r] \in {"rotate", "open"}
  /\ mode' = "off"
  /\ xidCount' = [xidCount EXCEPT ![bid[r]] = @ - 1]
  /\ pc' = [pc EXCEPT ![r] = "rotated"]
  /\ UNCHANGED <<resume, bid, group, checkPurge, lockVars, current, listHead,
                 openName, resetPending, engineVars, diskVars, failed, lost,
                 crashes>>

\* Wrong: the new file always names itself.
OpenScanNewFile(r) ==
  /\ pc[r] = "rotate"
  /\ openName' = current + 1
  /\ pc' = [pc EXCEPT ![r] = "open"]
  /\ UNCHANGED <<resume, bid, group, checkPurge, lockVars, current, listHead,
                 xidCount, resetPending, engineVars, diskVars, endVars>>

\* open() finds the name for the initial checkpoint event of the new file.
OpenScan(r) ==
  /\ pc[r] = "rotate"
  /\ openName' = FirstPending
  /\ pc' = [pc EXCEPT ![r] = "open"]
  /\ UNCHANGED <<resume, bid, group, checkPurge, lockVars, current, listHead,
                 xidCount, resetPending, engineVars, diskVars, endVars>>

\* Wrong: the initial checkpoint names the oldest file of the index.
OpenFileOldest(r) ==
  /\ pc[r] = "open"
  /\ lockCo = Nobody
  /\ files' = files \cup {current + 1}
  /\ ckpt' = [ckpt EXCEPT ![current + 1] =
                CHOOSE f \in files : \A g \in files : f <= g]
  /\ pc' = [pc EXCEPT ![r] = "link"]
  /\ UNCHANGED <<resume, bid, group, checkPurge, lockVars, listVars, engineVars,
                 xidFile, endVars>>

\* open() syncs the new file, takes LOCK_commit_ordered for the position, and
\* adds the file to the index.
OpenFile(r) ==
  /\ pc[r] = "open"
  /\ lockCo = Nobody
  /\ files' = files \cup {current + 1}
  /\ ckpt' = [ckpt EXCEPT ![current + 1] = openName]
  /\ pc' = [pc EXCEPT ![r] = "link"]
  /\ UNCHANGED <<resume, bid, group, checkPurge, lockVars, listVars, engineVars,
                 xidFile, endVars>>

\* open() drops the leading entries with no count and links the new one.
OpenLink(r) ==
  /\ pc[r] = "link"
  /\ current' = current + 1
  /\ listHead' = FirstPending
  /\ checkPurge' = [checkPurge EXCEPT ![r] = TRUE]
  /\ pc' = [pc EXCEPT ![r] = "rotated"]
  /\ UNCHANGED <<resume, bid, group, lockVars, xidCount, openName, resetPending,
                 engineVars, diskVars, endVars>>

\* rotate_and_purge() releases LOCK_log, then checkpoint_and_purge().
FlushUnlock ==
  /\ pc[Flush] = "rotated"
  /\ lockLog' = Nobody
  /\ pc' = [pc EXCEPT ![Flush] = IF checkPurge[Flush] THEN "request" ELSE "idle"]
  /\ UNCHANGED <<resume, bid, group, checkPurge, lockAbs, lockCo, busy, listVars,
                 engineVars, diskVars, endVars>>

-----------------------------------------------------------------------------
(* Commit checkpoints: do_checkpoint_request() and the engine's answer.     *)

\* binlog_checkpoint_callback() counts the request, then the engine (external)
\* notes which transactions have completed commit_ordered().
CheckpointRequest(r) ==
  /\ pc[r] = "request"
  /\ xidCount' = [xidCount EXCEPT ![bid[r]] = @ + 1]
  /\ requests' = requests \cup {bid[r]}
  /\ snapshot' = [snapshot EXCEPT ![bid[r]] = ordered]
  /\ pc' = [pc EXCEPT ![r] = "requested"]
  /\ UNCHANGED <<resume, bid, group, checkPurge, lockVars, current, listHead,
                 openName, resetPending, notified, ordered, durPlain, durCkpt,
                 diskVars, endVars>>

\* ... and ends with mark_xid_done(binlog_id, true).
CheckpointRequested(r) ==
  /\ pc[r] = "requested"
  /\ checkPurge' = [checkPurge EXCEPT ![r] = FALSE]
  /\ MarkXidDone(r, bid[r],
       CASE r = Flush -> "idle"
         [] r = Reset -> "drain"
         [] OTHER -> IF r \in failed THEN "unlog" ELSE "commit")
  /\ UNCHANGED <<bid, group, lockVars, current, listHead, openName, resetPending,
                 engineVars, diskVars, endVars>>

\* The engine has flushed what the request covers: commit_checkpoint_notify().
EngineNotify(f) ==
  /\ f \in requests
  /\ durCkpt' = durCkpt \cup snapshot[f]
  /\ requests' = requests \ {f}
  /\ notified' = notified \cup {f}
  /\ UNCHANGED <<threadVars, lockVars, listVars, snapshot, ordered, durPlain,
                 diskVars, endVars>>

\* binlog_background_thread() gives the request's count back.
BackgroundProcess(f) ==
  /\ pc[Background] = "idle"
  /\ f \in notified
  /\ notified' = notified \ {f}
  /\ MarkXidDone(Background, f, "idle")
  /\ UNCHANGED <<bid, group, checkPurge, lockVars, current, listHead, openName,
                 resetPending, requests, snapshot, ordered, durPlain, durCkpt,
                 diskVars, endVars>>

-----------------------------------------------------------------------------
(* PURGE BINARY LOGS and RESET MASTER.                                      *)

\* purge_logs() removes the oldest file if can_purge_log() finds that it is
\* neither active nor in the list.
PurgeLog(f) ==
  /\ "purge" \in Commands /\ mode = "up"
  /\ f \in files /\ f # LastFile
  /\ \A g \in files : f <= g
  /\ f \notin listHead..current
  /\ files' = files \ {f}
  /\ UNCHANGED <<threadVars, lockVars, listVars, engineVars, ckpt, xidFile, endVars>>

\* reset_logs(): announce the RESET MASTER ...
ResetStart ==
  /\ "reset" \in Commands /\ mode = "up"
  /\ pc[Reset] = "idle"
  /\ resetPending' = TRUE
  /\ pc' = [pc EXCEPT ![Reset] = "pending"]
  /\ UNCHANGED <<resume, bid, group, checkPurge, lockVars, current, listHead,
                 xidCount, openName, engineVars, diskVars, endVars>>

\* ... wait until nobody is left between the locks of mark_xid_done() ...
ResetNoWaiters ==
  /\ pc[Reset] = "pending"
  /\ MarkXidDoneWaiting = {}
  /\ pc' = [pc EXCEPT ![Reset] = "wantLog"]
  /\ UNCHANGED <<resume, bid, group, checkPurge, lockVars, listVars, engineVars,
                 diskVars, endVars>>

\* ... take LOCK_log (a RESET MASTER that finds the log closed in between is
\* not followed further) ...
ResetLock ==
  /\ pc[Reset] = "wantLog" /\ mode = "up"
  /\ lockLog = Nobody
  /\ lockLog' = Reset
  /\ pc' = [pc EXCEPT ![Reset] = "wantAbs"]
  /\ UNCHANGED <<resume, bid, group, checkPurge, lockAbs, lockCo, busy, listVars,
                 engineVars, diskVars, endVars>>

\* ... pass through the two mutexes of a group commit in progress ...
ResetChainAbs ==
  /\ pc[Reset] = "wantAbs"
  /\ lockAbs = Nobody
  /\ lockAbs' = Reset
  /\ pc' = [pc EXCEPT ![Reset] = "wantCo"]
  /\ UNCHANGED <<resume, bid, group, checkPurge, lockLog, lockCo, busy, listVars,
                 engineVars, diskVars, endVars>>

\* ... release both and pin the current entry ...
ResetChainCo ==
  /\ pc[Reset] = "wantCo"
  /\ lockCo = Nobody
  /\ lockAbs' = Nobody
  /\ xidCount' = [xidCount EXCEPT ![current] = @ + 1]
  /\ bid' = [bid EXCEPT ![Reset] = current]
  /\ pc' = [pc EXCEPT ![Reset] = "request"]
  /\ UNCHANGED <<resume, group, checkPurge, lockLog, lockCo, busy, current, listHead,
                 openName, resetPending, engineVars, diskVars, endVars>>

\* Wrong: the files are deleted without waiting for the counts.
ResetReopenNow ==
  /\ pc[Reset] = "drain"
  /\ lockCo = Nobody
  /\ files' = {current + 1}
  /\ ckpt' = [ckpt EXCEPT ![current + 1] = current + 1]
  /\ current' = current + 1
  /\ listHead' = current + 1
  /\ resetPending' = FALSE
  /\ lockLog' = Nobody
  /\ pc' = [pc EXCEPT ![Reset] = "done"]
  /\ UNCHANGED <<resume, bid, group, checkPurge, lockAbs, lockCo, busy, xidCount,
                 openName, engineVars, xidFile, endVars>>

\* ... and, when every count is zero, delete all files and open a new one.
ResetReopen ==
  /\ pc[Reset] = "drain"
  /\ lockCo = Nobody
  /\ \A f \in listHead..current : xidCount[f] = 0
  /\ files' = {current + 1}
  /\ ckpt' = [ckpt EXCEPT ![current + 1] = current + 1]
  /\ current' = current + 1
  /\ listHead' = current + 1
  /\ resetPending' = FALSE
  /\ lockLog' = Nobody
  /\ pc' = [pc EXCEPT ![Reset] = "done"]
  /\ UNCHANGED <<resume, bid, group, checkPurge, lockAbs, lockCo, busy, xidCount,
                 openName, engineVars, xidFile, endVars>>

-----------------------------------------------------------------------------
(* Crash, and TC_LOG_BINLOG::recover() at the next start.                   *)

\* The transaction is prepared in an engine that has not made its commit
\* durable.
NeedsRecovery(t) ==
  /\ t \notin failed
  /\ \/ "plain" \in Engines(t) /\ t \notin durPlain
     \/ "ckpt" \in Engines(t) /\ t \notin durCkpt

InFlight(t) == pc[t] # "prepared"

\* The files recover() reads: the last one, and all from the file its last
\* checkpoint event names; none if do_binlog_recovery() finds the last file not
\* marked in use.
ScannedFiles ==
  IF mode = "off" THEN {} ELSE {f \in files : f >= ckpt[LastFile]}

\* Wrong: ha_recover(0) does not look at what the engines hold prepared.
NothingPreparedUnchecked == TRUE

\* ha_recover(0) finds no prepared transaction of this server in an engine.
NothingPrepared == \A t \in Trx \ lost : ~(InFlight(t) /\ NeedsRecovery(t))

\* An engine may hold t prepared when it is opened again.
MayBePrepared(t) ==
  t \notin lost /\ (~InFlight(t) \/ t \in failed \/ NeedsRecovery(t))

\* The file the checkpoint names is not in the index: "Binlog file ... not
\* found in binlog index, needed for recovery. Aborting."  Or nothing was
\* scanned and ha_recover(0) finds a prepared transaction: "Found %d prepared
\* transactions! It means that mysqld was not shut down properly last time".
RecoverAbort ==
  /\ crashes < MaxCrash
  /\ \/ mode = "up" /\ ckpt[LastFile] \notin files
     \/ mode = "off" /\ \E t \in Trx : MayBePrepared(t)
  /\ ServerDown
  /\ crashes' = crashes + 1

\* ha_recover() commits the prepared transactions found in the scan and rolls
\* the others back, or finds none where nothing was scanned; the server then
\* opens a new binlog file.
CrashRecover ==
  /\ crashes < MaxCrash
  /\ \/ mode = "up" /\ ckpt[LastFile] \in files
     \/ mode = "off" /\ NothingPrepared
  /\ mode' = "up"
  /\ LastFile < FileLimit
  /\ crashes' = crashes + 1
  /\ lost' = lost \cup {t \in Trx : /\ InFlight(t) /\ NeedsRecovery(t)
                                    /\ xidFile[t] \notin ScannedFiles}
  /\ durPlain' = durPlain \cup {t \in Trx \ failed : xidFile[t] \in ScannedFiles}
  /\ durCkpt' = durCkpt \cup {t \in Trx \ failed : xidFile[t] \in ScannedFiles}
  /\ current' = LastFile + 1
  /\ listHead' = LastFile + 1
  /\ xidCount' = [f \in File |-> 0]
  /\ files' = files \cup {LastFile + 1}
  /\ ckpt' = [ckpt EXCEPT ![LastFile + 1] = LastFile + 1]
  /\ pc' = [r \in Thread |->
              CASE r \in Trx -> IF pc[r] = "prepared" THEN "prepared" ELSE "done"
                [] r = Reset -> IF pc[r] = "idle" THEN "idle" ELSE "done"
                [] OTHER -> "idle"]
  /\ group' = [t \in Trx |-> {}]
  /\ checkPurge' = [r \in Thread |-> FALSE]
  /\ lockLog' = Nobody /\ lockAbs' = Nobody /\ lockCo' = Nobody
  /\ busy' = FALSE
  /\ resetPending' = FALSE
  /\ requests' = {} /\ notified' = {}
  /\ UNCHANGED <<resume, bid, openName, snapshot, ordered, xidFile, failed>>

-----------------------------------------------------------------------------
CommitStep(t) ==
  \/ \E G \in SUBSET Trx : \E E, W \in SUBSET G : LeaderWrite(t, G, E, W)
  \/ \E G \in SUBSET Trx : LeaderSkip(t, G)
  \/ LeaderSync(t)
  \/ LeaderOrder(t)
  \/ LeaderCommitOrdered(t)
  \/ LeaderWaitBusy(t)
  \/ LeaderOwnCommitOrdered(t)
  \/ \E l \in Trx : FollowerOwnCommitOrdered(t, l)
  \/ EngineCommit(t)
  \/ Unlog(t)

RotateStep(r) ==
  \/ RotateBegin(r)
  \/ RotateFail(r)
  \/ RotateFailClose(r)
  \/ OpenScan(r)
  \/ OpenFile(r)
  \/ OpenLink(r)

CheckpointStep(r) ==
  \/ CheckpointRequest(r)
  \/ CheckpointRequested(r)
  \/ MarkXidDoneLocked(r)
  \/ MarkXidDoneWrite(r)
  \/ MarkXidDoneWriteClosed(r)
  \/ MarkXidDonePos(r)

ResetStep ==
  \/ ResetStart \/ ResetNoWaiters \/ ResetLock \/ ResetChainAbs
  \/ ResetChainCo \/ ResetReopen

\* Everything but crashes.
ServerStep ==
  \/ \E t \in Trx : CommitStep(t)
  \/ \E r \in Thread : RotateStep(r) \/ CheckpointStep(r)
  \/ FlushStart \/ FlushUnlock
  \/ \E f \in File : EngineNotify(f) \/ BackgroundProcess(f) \/ PurgeLog(f)
  \/ ResetStep

\* Nothing is left to do: all clients have returned, no request is pending.
\* A RESET MASTER that met a closed log is not followed.
Quiescent ==
  /\ \A t \in Trx : pc[t] = "done"
  /\ pc[Flush] = "idle" /\ pc[Background] = "idle"
  /\ pc[Reset] \in {"idle", "done"} \/ (mode = "off" /\ pc[Reset] = "wantLog")
  /\ requests = {} /\ notified = {}

Idle == (Quiescent \/ mode = "aborted") /\ UNCHANGED vars

Next == ServerStep \/ RecoverAbort \/ CrashRecover \/ Idle

Spec == Init /\ [][Next]_vars

\* Threads that hold or can get their mutexes run; engines answer every
\* checkpoint request (handler.h: "should not be postponed indefinitely");
\* a mutex is handed to everyone who keeps asking for it.  Nothing obliges a
\* client to issue FLUSH LOGS, RESET MASTER or PURGE BINARY LOGS.
Fairness ==
  /\ \A t \in Trx : SF_vars(CommitStep(t) \/ RotateStep(t) \/ CheckpointStep(t))
  /\ SF_vars(RotateStep(Flush) \/ FlushUnlock \/ CheckpointStep(Flush))
  /\ SF_vars(CheckpointStep(Background) \/ \E f \in File : BackgroundProcess(f))
  /\ SF_vars((ResetStep /\ ~ResetStart) \/ CheckpointStep(Reset))
  /\ WF_vars(\E f \in File : EngineNotify(f))

FairSpec == Spec /\ Fairness

-----------------------------------------------------------------------------
(* Properties.                                                             *)

PcValues == {"prepared", "queued", "log", "rotate", "open", "link", "rotated",
             "abs", "co", "busyWait", "request", "requested", "commit", "unlog",
             "markWait", "markWrite", "markPos", "done", "idle", "pending",
             "wantLog", "wantAbs", "wantCo", "drain", "down"}

TypeOK ==
  /\ pc \in [Thread -> PcValues]
  /\ resume \in [Thread -> PcValues]
  /\ bid \in [Thread -> File]
  /\ group \in [Trx -> SUBSET Trx]
  /\ checkPurge \in [Thread -> BOOLEAN]
  /\ lockLog \in Thread \cup {Nobody}
  /\ lockAbs \in Thread \cup {Nobody}
  /\ lockCo \in Thread \cup {Nobody}
  /\ busy \in BOOLEAN /\ resetPending \in BOOLEAN
  /\ current \in File /\ listHead \in 1..current
  /\ openName \in File
  /\ xidCount \in [File -> Int]
  /\ requests \subseteq File /\ notified \subseteq File /\ files \subseteq File
  /\ snapshot \in [File -> SUBSET Trx]
  /\ ckpt \in [File -> File]
  /\ xidFile \in [Trx -> File \cup {0}]
  /\ failed \subseteq Trx /\ ordered \subseteq Trx /\ lost \subseteq Trx
  /\ durPlain \subseteq Trx /\ durCkpt \subseteq Trx
  /\ crashes \in 0..MaxCrash
  /\ mode \in {"up", "off", "aborted"}

\* t has been counted by mark_xids_active() and has yet to call unlog().
OwesUnlog(t) ==
  /\ XidCounted(t)
  /\ \/ pc[t] \in {"queued", "log", "rotate", "open", "link", "rotated", "abs",
                   "co", "busyWait", "request", "requested", "commit", "unlog"}
     \/ pc[t] \in {"markWait", "markWrite", "markPos"} /\ resume[t] # "done"

\* r has pinned the file it rotates away from, or resets.
Pins(r) ==
  \/ pc[r] \in {"rotate", "open", "link", "request", "requested"}
  \/ checkPurge[r] /\ pc[r] \in {"rotated", "abs", "co", "busyWait"}
  \/ r \in Trx /\ checkPurge[r] /\ group[r] # {} /\ r \notin group[r]

\* Everything that holds a count on file f.
Holders(f) ==
  {<<"xid", t>> : t \in {u \in Trx : OwesUnlog(u) /\ bid[u] = f}}
  \cup {<<"pin", r>> : r \in {q \in Thread : Pins(q) /\ bid[q] = f}}
  \cup {<<"engine", g>> : g \in {h \in requests \cup notified : h = f}}

\* xid_count is exactly the number of XIDs, rotations and engine requests
\* outstanding for the file, so that it never goes negative, reaches zero only
\* when nothing is outstanding, and no decrement is lost or repeated
\* (mark_xids_active(), mark_xid_done(), do_checkpoint_request()).
XidAccounting == \A f \in File : xidCount[f] = Cardinality(Holders(f))

\* An entry anyone still refers to is in the list: the DBUG_ASSERT(b) of
\* mark_xids_active() and mark_xid_done(), and of do_checkpoint_request().
EntryInList == \A f \in File : Holders(f) # {} => f \in listHead..current

\* If the server crashed now, recovery would find the XID of every
\* transaction that is in the binlog and not yet durable in its engines: the
\* file is still in the index and the checkpoint has not moved past it.  This
\* is while the log is open; once a failed rotation has closed it nothing is
\* scanned, and NoLostTransaction says what is left.
XidRecoverable ==
  mode = "up" =>
    \A t \in Trx : xidFile[t] # 0 /\ NeedsRecovery(t) /\ t \notin lost
                     => xidFile[t] \in ScannedFiles

\* No crash makes recovery roll back, in any engine, a transaction whose XID
\* had reached the binlog: binlog and engines agree after recover(), also when
\* the log was closed (the server then refuses to start with such a transaction).
NoLostTransaction == \A t \in lost : xidFile[t] = 0

\* The file that the last checkpoint event names is in the binlog index, so
\* that recover() does not abort.
CheckpointFileKept == mode = "up" => ckpt[LastFile] \in files

\* Binlog_checkpoint events are logged in order: recovery may take the last
\* one it finds (chaining of LOCK_xid_list and LOCK_log in mark_xid_done()).
CheckpointInOrder == [][ckpt[LastFile]' >= ckpt[LastFile]]_vars

\* The checkpoint catches up: when all clients have returned, old files are
\* eventually released and the last checkpoint event names the current file.
CheckpointCatchesUp == <>[](listHead = current /\ ckpt[current] = current)

\* RESET MASTER, which waits for all counts with LOCK_log held, terminates.
ResetCompletes == (pc[Reset] = "pending") ~> (pc[Reset] = "done")
=============================================================================
