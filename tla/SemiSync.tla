------------------------------ MODULE SemiSync -------------------------------
(***************************************************************************)
(* Semi-synchronous replication: ReplSemiSyncMaster and ActiveTranx of     *)
(* plugin/semisync, with the dump threads and slaves it talks to.          *)
(*                                                                         *)
(* A transaction is the binlog position of its last event.  Its session    *)
(* reports the position when the group is written (writeTranxInBinlog),    *)
(* and later waits in commitTrx() until some slave has acknowledged it,    *)
(* until the timeout switches semi-sync off, or until it is killed.  This  *)
(* is the wait point AFTER_COMMIT; with AFTER_SYNC the leader of the group *)
(* makes the same calls one after the other.                               *)
(*                                                                         *)
(* Everything runs under LOCK_binlog_, so that an action is a critical     *)
(* section.  COND_binlog_send_ is broadcast after the mutex has been       *)
(* released in reportReplyBinlog(), and a session whose wait times out     *)
(* has to get the mutex back first: these are steps of their own.          *)
(***************************************************************************)
EXTENDS Integers, FiniteSets

CONSTANTS
  NTrx,            \* transactions, in binlog order
  Slaves,          \* semi-sync slaves, each with its dump thread
  Killable,        \* transactions whose session may be killed
  WaitNoSlave,     \* values rpl_semi_sync_master_wait_no_slave takes
  OutOfMemory,     \* a node of the active list cannot be allocated
  MaxToggles,      \* bound: changes of rpl_semi_sync_master_enabled
  MaxDisconnects   \* bound: broken connections

ASSUME SemiSyncAssumption ==
  /\ NTrx \in Nat /\ MaxToggles \in Nat /\ MaxDisconnects \in Nat
  /\ IsFiniteSet(Slaves)
  /\ Killable \subseteq 1..NTrx
  /\ WaitNoSlave \subseteq BOOLEAN /\ OutOfMemory \in BOOLEAN

Trx == 1..NTrx
Positions == 0..NTrx
\* A position whose _inited_ flag is false.
Unset == -1

VARIABLES
  enabled,       \* master_enabled_
  on,            \* state_
  active,        \* the list and hash table of ActiveTranx
  commitPos,     \* commit_file_name_, commit_file_pos_
  replyPos,      \* reply_file_name_, reply_file_pos_
  waitPos,       \* wait_file_name_, wait_file_pos_, kept when not inited
  waitInited,    \* wait_file_name_inited_
  clients,       \* rpl_semi_sync_master_clients
  pc,            \* sessions
  killed,
  answer,        \* yes_transactions, no_transactions: how each was counted
  written,       \* end of the binlog
  reported,      \* history: what the master was told of since it was enabled
  dump,          \* dump threads
  sent, needReply,     \* last event sent, and its kPacketFlagSync
  received,      \* the slave's relay log
  crashed,       \* the server is down
  toggles, disconnects

semiVars == <<enabled, on, active, commitPos, replyPos, waitPos, waitInited, reported>>
sessionVars == <<pc, killed, answer, written>>
slaveVars == <<dump, sent, needReply, received, clients>>
boundVars == <<toggles, disconnects>>
vars == <<semiVars, sessionVars, slaveVars, boundVars, crashed>>

Init ==
  /\ enabled = TRUE /\ on = TRUE /\ active = {}
  /\ commitPos = Unset /\ replyPos = Unset /\ waitPos = 0 /\ waitInited = FALSE
  /\ clients = 0
  /\ pc = [t \in Trx |-> "start"] /\ killed = {} /\ answer = [t \in Trx |-> "none"]
  /\ written = 0 /\ reported = {}
  /\ dump = [d \in Slaves |-> "off"] /\ sent = [d \in Slaves |-> 0]
  /\ needReply = [d \in Slaves |-> FALSE] /\ received = [d \in Slaves |-> 0]
  /\ crashed = FALSE /\ toggles = 0 /\ disconnects = 0

\* cond_broadcast()
WakeAll(f) == [t \in Trx |-> IF f[t] = "wait" THEN "woken" ELSE f[t]]
\* rpl_semi_sync_master_wait_sessions > 0
SomeoneWaits == \E t \in Trx : pc[t] \in {"wait", "woken", "timedout"}

(* ActiveTranx: the list, and the hash table that finds an event in it.     *)

\* insert_tranx_node(); positions arrive in binlog order.
InsertTranxNode(t) == active \cup {t}
IsTranxEndPos(p) == p \in active

\* Wrong: the transaction that was acknowledged stays in the list.
WrongClearActiveTranxNodes(p) == {t \in active : t >= p}

\* Wrong: every reply empties the list.
WrongClearAll(p) == {}

\* clear_active_tranx_nodes()
ClearActiveTranxNodes(p) == {t \in active : t > p}

\* switch_off(); f is what the calling session does to pc.
SwitchOff(f) ==
  /\ on' = FALSE /\ active' = {}
  /\ waitInited' = FALSE /\ replyPos' = Unset
  /\ pc' = WakeAll(f)

-----------------------------------------------------------------------------
(* Sessions                                                                *)

\* writeTranxInBinlog(), from the after_flush hook; then the events can be sent.
WriteTranxInBinlog(t) ==
  LET f == [pc EXCEPT ![t] = "written"] IN
  /\ pc[t] = "start" /\ t = written + 1
  /\ written' = t
  /\ commitPos' = IF enabled /\ t > commitPos THEN t ELSE commitPos
  /\ reported' = IF enabled THEN reported \cup {t} ELSE reported
  /\ \/ /\ enabled /\ on
        /\ active' = InsertTranxNode(t) /\ pc' = f
        /\ UNCHANGED <<on, replyPos, waitInited>>
     \/ /\ enabled /\ on /\ OutOfMemory
        /\ SwitchOff(f)
     \/ /\ ~(enabled /\ on) /\ pc' = f
        /\ UNCHANGED <<on, active, replyPos, waitInited>>
  /\ UNCHANGED <<enabled, waitPos, killed, answer, slaveVars, boundVars>>

\* Wrong: counted by getMasterEnabled() instead of is_on().
WrongLeave(t) ==
  /\ pc' = [pc EXCEPT ![t] = "done"]
  /\ answer' = [answer EXCEPT ![t] = IF enabled THEN "yes" ELSE "no"]
  /\ UNCHANGED <<semiVars, killed, written, slaveVars, boundVars>>

\* The end of commitTrx().
Leave(t) ==
  /\ pc' = [pc EXCEPT ![t] = "done"]
  /\ answer' = [answer EXCEPT ![t] = IF on THEN "yes" ELSE "no"]
  /\ UNCHANGED <<semiVars, killed, written, slaveVars, boundVars>>

\* The plugin is disabled: commitTrx() does nothing, or, if it saw that before
\* it had the mutex, only counts.
NoSemiSync(t) ==
  /\ pc[t] = "written" /\ ~enabled
  /\ pc' = [pc EXCEPT ![t] = "done"]
  /\ \E counted \in {"none", "no"} : answer' = [answer EXCEPT ![t] = counted]
  /\ UNCHANGED <<semiVars, killed, written, slaveVars, boundVars>>

InCommitTrx(t) == (pc[t] = "written" /\ enabled) \/ pc[t] = "woken"
Acknowledged(t) == replyPos # Unset /\ replyPos >= t

StopWaiting(t) ==
  /\ InCommitTrx(t)
  /\ ~on \/ t \in killed \/ Acknowledged(t)
  /\ Leave(t)

\* Wrong: the position of the last to wait is kept, not the smallest.
WrongWaitForReply(t) ==
  /\ InCommitTrx(t)
  /\ on /\ t \notin killed /\ ~Acknowledged(t)
  /\ waitPos' = t /\ waitInited' = TRUE
  /\ pc' = [pc EXCEPT ![t] = "wait"]
  /\ UNCHANGED <<enabled, on, active, commitPos, replyPos, reported, killed, answer,
                 written, slaveVars, boundVars>>

\* Move the wait position back if this is the smallest, and sleep.
WaitForReply(t) ==
  /\ InCommitTrx(t)
  /\ on /\ t \notin killed /\ ~Acknowledged(t)
  /\ waitPos' = IF waitInited /\ waitPos < t THEN waitPos ELSE t
  /\ waitInited' = TRUE
  /\ pc' = [pc EXCEPT ![t] = "wait"]
  /\ UNCHANGED <<enabled, on, active, commitPos, replyPos, reported, killed, answer,
                 written, slaveVars, boundVars>>

Kill(t) ==
  /\ t \in Killable \ killed /\ pc[t] \in {"written", "wait"}
  /\ killed' = killed \cup {t}
  /\ pc' = [pc EXCEPT ![t] = IF @ = "wait" THEN "woken" ELSE @]
  /\ UNCHANGED <<semiVars, answer, written, slaveVars, boundVars>>

\* The timeout expires; the session still has to get LOCK_binlog_.
Expire(t) ==
  /\ pc[t] = "wait"
  /\ pc' = [pc EXCEPT ![t] = "timedout"]
  /\ UNCHANGED <<semiVars, killed, answer, written, slaveVars, boundVars>>

\* Semi-sync is switched off, whatever was acknowledged in between, and
\* commitTrx() ends.  If it was disabled in between there is no list any more,
\* and switch_off() crashes the server.
TimeOut(t) ==
  /\ pc[t] = "timedout"
  /\ \/ /\ enabled
        /\ SwitchOff([pc EXCEPT ![t] = "done"])
        /\ answer' = [answer EXCEPT ![t] = "no"]
        /\ UNCHANGED crashed
     \/ /\ ~enabled /\ crashed' = TRUE
        /\ UNCHANGED <<on, active, waitInited, replyPos, pc, answer>>
  /\ UNCHANGED <<enabled, commitPos, waitPos, reported, killed, written, slaveVars,
                 boundVars>>

-----------------------------------------------------------------------------
(* Dump threads                                                            *)

\* Wrong: semi-sync is switched on by any reply.
WrongTrySwitchOn(p) == TRUE

\* try_switch_on(): has the slave all that was written?
TrySwitchOn(p) == on \/ p >= commitPos

\* reportReplyBinlog(): dump thread d reports that its slave has p.
ReportReplyBinlog(d, p) ==
  LET copy == replyPos = Unset \/ p >= replyPos
      release == SomeoneWaits /\ replyPos' >= waitPos IN
  \/ /\ enabled
     /\ on' = TrySwitchOn(p)
     /\ replyPos' = IF copy THEN p ELSE replyPos
     /\ active' = IF copy THEN ClearActiveTranxNodes(p) ELSE active
     /\ waitInited' = (waitInited /\ ~release)
     /\ dump' = [dump EXCEPT ![d] = IF release THEN "broadcast" ELSE "idle"]
  \/ /\ ~enabled
     /\ dump' = [dump EXCEPT ![d] = "idle"]
     /\ UNCHANGED <<on, replyPos, active, waitInited>>

\* repl_semi_binlog_dump_start(): add_slave() counts the slave in ...
AddSlave(d) ==
  /\ dump[d] = "off"
  /\ clients' = clients + 1
  /\ dump' = [dump EXCEPT ![d] = "starting"]
  /\ UNCHANGED <<semiVars, sessionVars, sent, needReply, received, boundVars>>

\* ... and the slave is taken to have all before the position it asks for.
DumpStart(d) ==
  /\ dump[d] = "starting"
  /\ sent' = [sent EXCEPT ![d] = received[d]]
  /\ ReportReplyBinlog(d, received[d])
  /\ UNCHANGED <<enabled, commitPos, waitPos, reported, sessionVars, needReply, received,
                 clients, boundVars>>

\* Wrong: not for the event that the first session waits for.
WrongUpdateSyncHeader(p) ==
  /\ enabled
  /\ IF on THEN /\ p > replyPos
                /\ waitInited => p > waitPos
                /\ IsTranxEndPos(p)
     ELSE p >= commitPos

\* updateSyncHeader(): is the slave asked for a reply to event p?
UpdateSyncHeader(p) ==
  /\ enabled
  /\ IF on THEN /\ p > replyPos
                /\ waitInited => p >= waitPos
                /\ IsTranxEndPos(p)
     ELSE p >= commitPos

\* The dump thread sends the next event.
SendEvent(d) ==
  /\ dump[d] = "idle" /\ sent[d] < written
  /\ sent' = [sent EXCEPT ![d] = @ + 1]
  /\ needReply' = [needReply EXCEPT ![d] = UpdateSyncHeader(sent[d] + 1)]
  /\ dump' = [dump EXCEPT ![d] = IF needReply'[d] THEN "reading" ELSE "idle"]
  /\ UNCHANGED <<semiVars, sessionVars, received, clients, boundVars>>

\* The slave writes the event to its relay log and replies if asked to.
SlaveReply(d) ==
  /\ dump[d] \in {"idle", "reading"} /\ received[d] < sent[d]
  /\ received' = [received EXCEPT ![d] = @ + 1]
  /\ dump' = [dump EXCEPT ![d] = IF needReply[d] /\ received'[d] = sent[d]
                                 THEN "reply" ELSE @]
  /\ UNCHANGED <<semiVars, sessionVars, sent, needReply, clients, boundVars>>

\* readSlaveReply() gets the reply.
ReadSlaveReply(d) ==
  /\ dump[d] = "reply"
  /\ ReportReplyBinlog(d, sent[d])
  /\ needReply' = [needReply EXCEPT ![d] = FALSE]
  /\ UNCHANGED <<enabled, commitPos, waitPos, reported, sessionVars, sent, received,
                 clients, boundVars>>

\* Wake up the sessions, LOCK_binlog_ having been released.
Broadcast(d) ==
  /\ dump[d] = "broadcast"
  /\ pc' = WakeAll(pc)
  /\ dump' = [dump EXCEPT ![d] = "idle"]
  /\ UNCHANGED <<semiVars, killed, answer, written, sent, needReply, received, clients,
                 boundVars>>

\* Wrong: the slave is not counted out while semi-sync is off.
WrongDumpEnd(d) ==
  /\ dump[d] \in {"idle", "reading", "reply"} /\ disconnects < MaxDisconnects
  /\ disconnects' = disconnects + 1
  /\ dump' = [dump EXCEPT ![d] = "off"]
  /\ needReply' = [needReply EXCEPT ![d] = FALSE]
  /\ clients' = IF enabled /\ on THEN clients - 1 ELSE clients
  /\ \E waitNoSlave \in WaitNoSlave :
       \/ enabled /\ on /\ ~waitNoSlave /\ clients = 1 /\ SwitchOff(pc)
       \/ /\ ~(enabled /\ on /\ ~waitNoSlave /\ clients = 1)
          /\ UNCHANGED <<on, active, waitInited, replyPos, pc>>
  /\ UNCHANGED <<enabled, commitPos, waitPos, reported, killed, answer, written, sent,
                 received, toggles>>

\* The connection breaks, with what is under way; remove_slave().
DumpEnd(d) ==
  /\ dump[d] \in {"idle", "reading", "reply"} /\ disconnects < MaxDisconnects
  /\ disconnects' = disconnects + 1
  /\ dump' = [dump EXCEPT ![d] = "off"]
  /\ needReply' = [needReply EXCEPT ![d] = FALSE]
  /\ clients' = clients - 1
  /\ \E waitNoSlave \in WaitNoSlave :
       \/ enabled /\ on /\ ~waitNoSlave /\ clients = 1 /\ SwitchOff(pc)
       \/ /\ ~(enabled /\ on /\ ~waitNoSlave /\ clients = 1)
          /\ UNCHANGED <<on, active, waitInited, replyPos, pc>>
  /\ UNCHANGED <<enabled, commitPos, waitPos, reported, killed, answer, written, sent,
                 received, toggles>>

-----------------------------------------------------------------------------
(* SET GLOBAL rpl_semi_sync_master_enabled                                 *)

EnableMaster ==
  /\ ~enabled /\ toggles < MaxToggles
  /\ enabled' = TRUE /\ on' = TRUE /\ active' = {}
  /\ commitPos' = Unset /\ replyPos' = Unset /\ waitInited' = FALSE /\ reported' = {}
  /\ toggles' = toggles + 1
  /\ UNCHANGED <<waitPos, sessionVars, slaveVars, disconnects>>

DisableMaster ==
  /\ enabled /\ toggles < MaxToggles
  /\ SwitchOff(pc)
  /\ enabled' = FALSE /\ commitPos' = Unset /\ reported' = {}
  /\ toggles' = toggles + 1
  /\ UNCHANGED <<waitPos, killed, answer, written, slaveVars, disconnects>>

-----------------------------------------------------------------------------
SessionStep(t) == StopWaiting(t) \/ WaitForReply(t) \/ NoSemiSync(t)
DumpStep(d) ==
  \/ AddSlave(d) \/ DumpStart(d) \/ SendEvent(d) \/ SlaveReply(d)
  \/ ReadSlaveReply(d) \/ Broadcast(d)

Step ==
  \/ \E t \in Trx : SessionStep(t) \/ WriteTranxInBinlog(t) \/ Kill(t) \/ Expire(t)
  \/ \E d \in Slaves : DumpStep(d) \/ DumpEnd(d)
  \/ EnableMaster \/ DisableMaster

Next ==
  /\ ~crashed
  /\ \/ Step /\ UNCHANGED crashed
     \/ \E t \in Trx : TimeOut(t)

Spec == Init /\ [][Next]_vars

\* A session that can run does, a slave reconnects and reads the binlog.  The
\* timeout may be as long as one likes.
FairSpec ==
  /\ Spec
  /\ \A t \in Trx : WF_vars(~crashed /\ UNCHANGED crashed /\ SessionStep(t))
  /\ \A d \in Slaves : WF_vars(~crashed /\ UNCHANGED crashed /\ DumpStep(d))

-----------------------------------------------------------------------------
(* Properties                                                              *)

\* Types of the variables.
TypeOK ==
  /\ enabled \in BOOLEAN /\ on \in BOOLEAN /\ waitInited \in BOOLEAN
  /\ active \subseteq Trx /\ reported \subseteq Trx
  /\ {commitPos, replyPos} \subseteq Positions \cup {Unset} /\ waitPos \in Positions
  /\ clients = Cardinality({d \in Slaves : dump[d] # "off"})
  /\ pc \in [Trx -> {"start", "written", "wait", "woken", "timedout", "done"}]
  /\ killed \subseteq Trx /\ answer \in [Trx -> {"none", "yes", "no"}]
  /\ written \in Positions /\ crashed \in BOOLEAN
  /\ dump \in [Slaves -> {"off", "starting", "idle", "reading", "reply", "broadcast"}]
  /\ sent \in [Slaves -> Positions] /\ received \in [Slaves -> Positions]
  /\ needReply \in [Slaves -> BOOLEAN]
  /\ toggles \in 0..MaxToggles /\ disconnects \in 0..MaxDisconnects

\* What semi-sync is for: a transaction that is counted as acknowledged, and
\* whose session was not killed, is in the relay log of some slave.
YesIsReceived ==
  \A t \in Trx \ killed : answer[t] = "yes" => \E d \in Slaves : received[d] >= t

\* A session does not sleep on when it could leave: reportReplyBinlog() only
\* compares the reply with the smallest wait position, which the sessions
\* maintain on their own, and broadcasts without the mutex.
NoMissedBroadcast ==
  \A t \in Trx : pc[t] = "wait" =>
    \/ on /\ ~Acknowledged(t)
    \/ \E d \in Slaves : dump[d] = "broadcast"

\* The assertion at the end of commitTrx(): the transaction has left the
\* list of active transactions, unless its session was killed.
DoneNotActive ==
  \A t \in Trx \ killed : pc[t] = "done" => t \notin active

\* Without the help of the timeout: a session that waits for an active
\* transaction is released, by the reply to this or to a later one.  Replies
\* are not asked for to events before the wait position.
WaiterIsReleased ==
  \A t \in Trx : pc[t] = "wait" /\ t \in active ~> pc[t] # "wait" \/ crashed

\* Semi-sync is switched on again only by a dump thread d (the one that steps)
\* whose own slave has every transaction the master was told of since it was
\* enabled, those written while semi-sync was off included; that another slave
\* has them does not count.
SwitchedOnCaughtUp ==
  [][~on /\ on' /\ enabled =>
       \E d \in Slaves : dump'[d] # dump[d] /\ \A t \in reported : received[d] >= t]_vars

\* While semi-sync is on no transaction slips through: each one reported since
\* the master was enabled is in the active list, where commitTrx() waits for it
\* and a reply is asked for, or in the relay log of some slave.  Only
\* commit_file_pos_ remembers the transactions written while semi-sync was off.
OnCoversAll ==
  enabled /\ on =>
    \A t \in reported : t \in active \/ \E d \in Slaves : received[d] >= t

\* The assertion in switch_off(): there is a list of active transactions.
SwitchOffHasList == ~crashed
=============================================================================
