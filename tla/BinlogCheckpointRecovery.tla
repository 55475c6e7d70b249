--------------------- MODULE BinlogCheckpointRecovery -----------------------
(***************************************************************************)
(* Recovery finds every transaction that is in the binlog and not durable  *)
(* in its engines, for every set of transactions and every bound, crashes, *)
(* write errors, failed rotations, RESET MASTER and PURGE BINARY LOGS      *)
(* included, as long as the log is open and nothing of what the violation  *)
(* runs show happens (SafeConfig); and recovery never rolls back such a    *)
(* transaction, also when a failed rotation has closed the log.            *)
(***************************************************************************)
EXTENDS BinlogCheckpointOrder

\* No FLUSH LOGS (its checkpoint request does not wait for the groups that are
\* still to run commit_ordered()); the leader runs commit_ordered() for its
\* group (otherwise a group that waits for the previous one can be overtaken by
\* the group that requests the checkpoint); and a transaction with an engine
\* that is durable only when commit() returns is one that
\* write_transaction_to_binlog() recognises as such.
SafeConfig ==
  /\ "flush" \notin Commands
  /\ OptimizeThreadScheduling
  /\ \A t \in Trx : "plain" \in Engines(t) => NeedUnlog(t)

\* t is in the binlog that recovery will read; it is open in an engine until the
\* engine is durable.
InBinlog(t) == mode = "up" /\ xidFile[t] # 0 /\ t \notin failed /\ t \notin lost
PlainOpen(t) == InBinlog(t) /\ "plain" \in Engines(t) /\ t \notin durPlain
CkptOpen(t) == InBinlog(t) /\ "ckpt" \in Engines(t) /\ t \notin durCkpt

\* The leaders hold the mutex of their stage.
StageInv ==
  /\ \A t \in Trx : /\ pc[t] = "abs" => lockAbs = t
                    /\ pc[t] = "co" => lockCo = t
                    /\ pc[t] # "busyWait"
  /\ pc[Reset] = "wantCo" => lockAbs = Reset
  /\ pc[Flush] \in {"idle", "down"}

\* A group that has rotated the log is the last one in its file.
Behind(l, r) ==
  \/ pc[r] = "abs" /\ pc[l] \in {"log", "rotate", "open", "link", "rotated"}
  \/ pc[r] = "co" /\ pc[l] \in {"log", "rotate", "open", "link", "rotated", "abs"}

BehindInv == \A l, r \in Trx : Behind(l, r) /\ checkPurge[r] => bid[l] # bid[r]

WrittenInv == \A t \in Trx :
  xidFile[t] # 0 => xidFile[t] = bid[t] /\ xidFile[t] <= current

\* A transaction calls unlog() when the engine is durable, or on the error path.
PlainInv == \A t \in Trx :
  /\ pc[t] = "unlog" => t \in failed \/ t \in durPlain
  /\ resume[t] = "unlog" => t \in failed
  /\ PlainOpen(t) => OwesUnlog(t)

\* When the checkpoint of a file is requested, every transaction in it has run
\* commit_ordered().
OrderedInv ==
  /\ \A t \in Trx : CkptOpen(t) =>
       t \in ordered \/ \E l \in Trx : pc[l] \in LeaderPc /\ t \in group[l]
  /\ \A r \in Thread : pc[r] = "request" =>
       \A t \in Trx : CkptOpen(t) /\ xidFile[t] = bid[r] => t \in ordered

\* An open transaction of an old file is covered by a request that is still to
\* be made, or by one that the engine has not answered.
Covered(t) ==
  \/ \E r \in Thread : Pins(r) /\ pc[r] # "requested" /\ bid[r] = xidFile[t]
  \/ xidFile[t] \in requests /\ t \in snapshot[xidFile[t]]

CoveredInv == \A t \in Trx :
  CkptOpen(t) /\ (xidFile[t] < current \/ pc[Reset] \in {"request", "requested", "drain"})
    => Covered(t)

KeptInv == \A t \in Trx : PlainOpen(t) \/ CkptOpen(t) => xidFile[t] \in files

RecoverInv ==
  StageInv /\ BehindInv /\ WrittenInv /\ PlainInv /\ OrderedInv /\ CoveredInv /\ KeptInv

\* No step but a leader's write opens a transaction.
NoneOpened == \A t \in Trx : /\ InBinlog(t)' => InBinlog(t)
                             /\ PlainOpen(t)' => PlainOpen(t)
                             /\ CkptOpen(t)' => CkptOpen(t)

LEMMA NoneOpenedHolds ==
  ASSUME xidFile' = xidFile, mode' = mode \/ mode' = "off", failed \subseteq failed', lost \subseteq lost',
         durPlain \subseteq durPlain', durCkpt \subseteq durCkpt'
  PROVE  NoneOpened
BY DEF NoneOpened, InBinlog, PlainOpen, CkptOpen

\* Which transactions are covered changes with the pins and the requests only.
LEMMA SameCovered ==
  ASSUME CoveredInv, NoneOpened, SamePins,
         UNCHANGED <<xidFile, current, requests, snapshot>>,
         \A r \in Thread : pc'[r] = "requested" => pc[r] = "requested",
         pc'[Reset] \in {"request", "requested", "drain"}
           => pc[Reset] \in {"request", "requested", "drain"}
  PROVE  CoveredInv'
<1> SUFFICES ASSUME NEW t \in Trx, CkptOpen(t),
                    xidFile[t] < current \/ pc[Reset] \in {"request", "requested", "drain"}
             PROVE  Covered(t)'
  BY DEF CoveredInv, NoneOpened
<1>1. Covered(t)
  BY DEF CoveredInv
<1> QED BY <1>1 DEF Covered, SamePins

\* The files of open transactions are in the list.
LEMMA OpenInList ==
  ASSUME TypeInv, AccInv, RecoverInv, NEW t \in Trx, PlainOpen(t) \/ CkptOpen(t)
  PROVE  /\ xidFile[t] \in listHead..current
         /\ xidFile[t] < current => xidCount[xidFile[t]] # 0
<1>1. /\ xidFile[t] = bid[t] /\ xidFile[t] \in File /\ xidFile[t] <= current
      /\ current \in Int /\ listHead \in Int /\ listHead <= current
  BY ConstantsAssumption DEF RecoverInv, WrittenInv, PlainOpen, CkptOpen, InBinlog, TypeInv,
     TypeOK, Thread, File
<1>2. CASE PlainOpen(t)
  <2>1. OwesUnlog(t)
    BY <1>2 DEF RecoverInv, PlainInv
  <2>2. t \in Xids(xidFile[t])
    BY <1>1, <2>1 DEF Xids
  <2> QED BY <1>1, <2>1, <2>2, HeldInList, ZeroCount DEF TypeInv, AccInv
<1>3. CASE CkptOpen(t) /\ xidFile[t] < current
  <2>1. Covered(t)
    BY <1>3 DEF RecoverInv, CoveredInv
  <2>2. (\E r \in Thread : r \in Pinners(xidFile[t])) \/ xidFile[t] \in Asked(xidFile[t])
    BY <2>1 DEF Covered, Pinners, Asked
  <2>3. xidCount[xidFile[t]] # 0
    BY <1>1, <2>2, ZeroCount DEF AccInv
  <2> QED BY <1>1, <2>3 DEF AccInv, ListInv
<1>4. CASE xidFile[t] = current
  BY <1>1, <1>4
<1> QED BY <1>1, <1>2, <1>3, <1>4 DEF File

\* If the server crashed now, recovery would find every open transaction.
LEMMA RecoverInvRecoverable ==
  ASSUME TypeInv, AccInv, OrderInv, RecoverInv
  PROVE  XidRecoverable
<1> SUFFICES ASSUME mode = "up", NEW t \in Trx, xidFile[t] # 0, NeedsRecovery(t), t \notin lost
             PROVE  xidFile[t] \in ScannedFiles
  BY DEF XidRecoverable
<1>1. PlainOpen(t) \/ CkptOpen(t)
  BY DEF NeedsRecovery, PlainOpen, CkptOpen, InBinlog
<1>2. /\ xidFile[t] \in files /\ xidFile[t] \in listHead..current /\ xidFile[t] \in Int
      /\ xidFile[t] < current => xidCount[xidFile[t]] # 0
  BY <1>1, OpenInList DEF RecoverInv, KeptInv
<1>3. /\ current \in Int /\ listHead \in Int /\ ckpt[LastFile] \in Int
  <2>1. ckpt[LastFile] \in Int
    BY CheckpointType DEF Checkpoint
  <2> QED BY <2>1, ConstantsAssumption DEF TypeInv, TypeOK, File
<1>4. CASE \A r \in Thread : pc[r] # "link"
  <2>1. LastFile = current /\ ckpt[LastFile] <= listHead
    BY <1>4, LastFileIs DEF OrderInv
  <2> QED BY <1>2, <1>3, <2>1 DEF ScannedFiles
<1>5. CASE \E r \in Thread : pc[r] = "link"
  <2>1. PICK r \in Thread : pc[r] = "link"
    BY <1>5
  <2>2. LastFile = current + 1 /\ ckpt[LastFile] = openName
    BY <2>1, LastFileIs DEF OrderInv
  <2>3. openName \in listHead..current + 1 /\ \A j \in listHead..openName - 1 : xidCount[j] = 0
    BY <2>1 DEF OrderInv
  <2>4. xidCount[current] # 0
    <3>1. r \in Pinners(current) /\ current \in File
      BY <2>1 DEF Pinners, Pins, AccInv, BidInv, TypeInv, TypeOK
    <3> QED BY <3>1, ZeroCount DEF AccInv
  <2>5. xidCount[xidFile[t]] # 0
    BY <1>2, <1>3, <2>4
  <2>6. openName <= xidFile[t]
    BY <1>2, <1>3, <2>3, <2>5
  <2> QED BY <1>2, <2>2, <2>6 DEF ScannedFiles
<1> QED BY <1>4, <1>5

LEMMA LeaderWriteRec ==
  ASSUME SafeConfig, TypeInv, AccInv, PreparedInv, OrderInv, RecoverInv,
         NEW l \in Trx, NEW G \in SUBSET Trx, NEW E \in SUBSET G, NEW W \in SUBSET G,
         LeaderWrite(l, G, E, W)
  PROVE  RecoverInv'
<1> USE ConstantsAssumption DEF TypeInv, TypeOK, AccInv, RecoverInv, Thread, engineVars
<1>1. /\ l \in G /\ \A t \in G : pc[t] = "prepared" /\ ~checkPurge[t] /\ group[t] = {}
      /\ \A r \in Thread : pc'[r] = IF r = l THEN "log" ELSE IF r \in G THEN "queued" ELSE pc[r]
      /\ \A r \in Thread : bid'[r] = IF r \in G THEN current ELSE bid[r]
      /\ G \ E \subseteq W
      /\ \A t \in Trx : xidFile'[t] = IF t \in W THEN current ELSE xidFile[t]
      /\ group' = [group EXCEPT ![l] = G] /\ failed' = failed \cup E
      /\ lockLog = Nobody
  BY DEF LeaderWrite, CheckPurgeInv, GroupInv
<1>2. UNCHANGED <<resume, checkPurge, lockAbs, lockCo, current, listHead, requests, snapshot,
                  ordered, durPlain, durCkpt, files, lost, mode>>
  BY DEF LeaderWrite
<1>3. mode = "up" /\ current \in files /\ current \in Int
  <2>1. mode = "up"
    BY DEF LeaderWrite
  <2> QED BY <2>1 DEF OrderInv, File
<1>4. /\ \A r \in Thread : pc[r] \notin {"log", "rotate", "open", "link", "rotated"}
      /\ pc[Reset] \notin {"request", "requested", "drain"}
  BY <1>1 DEF LogInv, InLog
<1>5. \A t \in Trx : t \notin G \ E => /\ InBinlog(t)' => InBinlog(t)
                                       /\ PlainOpen(t)' => PlainOpen(t)
                                       /\ CkptOpen(t)' => CkptOpen(t)
  BY <1>1, <1>2 DEF InBinlog, PlainOpen, CkptOpen
<1>6. \A t \in G : ~InBinlog(t) /\ ~PlainOpen(t) /\ ~CkptOpen(t)
  BY <1>1 DEF PreparedInv, InBinlog, PlainOpen, CkptOpen
<1>7. \A t \in Trx : t \in E => ~InBinlog(t)' /\ ~PlainOpen(t)' /\ ~CkptOpen(t)'
  BY <1>1 DEF InBinlog, PlainOpen, CkptOpen
<1>8. StageInv'
  <2>1. /\ \A t \in Trx : pc'[t] \in {pc[t], "log", "queued"}
        /\ pc'[Reset] = pc[Reset] /\ pc'[Flush] = pc[Flush]
    BY <1>1
  <2> QED BY <1>2, <2>1 DEF StageInv
<1>9. BehindInv'
  <2> SUFFICES ASSUME NEW m \in Trx, NEW r \in Trx, Behind(m, r)', checkPurge'[r]
               PROVE  bid'[m] # bid'[r]
    BY DEF BehindInv
  <2>1. r \notin G /\ pc[r] \in {"abs", "co"} /\ checkPurge[r]
    BY <1>1, <1>2 DEF Behind
  <2>2. bid'[r] = bid[r] /\ bid[r] < current
    BY <1>1, <2>1 DEF BidInv, Pins
  <2>3. CASE m = l
    <3>1. bid'[m] = current
      BY <1>1, <2>3
    <3> QED BY <1>3, <2>2, <3>1
  <2>4. CASE m # l
    <3>1. m \notin G /\ Behind(m, r)
      BY <1>1, <2>1, <2>4 DEF Behind
    <3> QED BY <1>1, <2>1, <3>1 DEF BehindInv
  <2> QED BY <2>3, <2>4
<1>10. WrittenInv'
  <2> SUFFICES ASSUME NEW t \in Trx, xidFile'[t] # 0
               PROVE  xidFile'[t] = bid'[t] /\ xidFile'[t] <= current'
    BY DEF WrittenInv
  <2>1. CASE t \in G
    <3>1. bid'[t] = current
      BY <1>1, <2>1
    <3>2. xidFile'[t] = current
      BY <1>1, <2>1 DEF PreparedInv
    <3> QED BY <1>2, <1>3, <3>1, <3>2
  <2>2. CASE t \notin G
    BY <1>1, <1>2, <1>5, <2>2 DEF WrittenInv
  <2> QED BY <2>1, <2>2
<1>11. PlainInv'
  <2> SUFFICES ASSUME NEW t \in Trx
               PROVE  /\ pc'[t] = "unlog" => t \in failed' \/ t \in durPlain'
                      /\ resume'[t] = "unlog" => t \in failed'
                      /\ PlainOpen(t)' => OwesUnlog(t)'
    BY DEF PlainInv
  <2>1. resume'[t] = "unlog" => t \in failed'
    BY <1>1, <1>2 DEF PlainInv
  <2>2. CASE t \in G
    <3>1. PlainOpen(t)' => XidCounted(t)'
      BY DEF PlainOpen, InBinlog, SafeConfig, XidCounted, NeedUnlog
    <3> QED BY <1>1, <2>1, <2>2, <3>1 DEF OwesUnlog
  <2>3. CASE t \notin G
    <3>1. pc'[t] = pc[t] /\ OwesUnlog(t)' = OwesUnlog(t)
      <4>1. XidCounted(t)' = XidCounted(t)
        BY <1>1, <2>3 DEF XidCounted, NeedUnlog
      <4> QED BY <1>1, <1>2, <2>3, <4>1 DEF OwesUnlog
    <3> QED BY <1>1, <1>2, <1>5, <2>1, <2>3, <3>1 DEF PlainInv
  <2> QED BY <2>2, <2>3
<1>12. OrderedInv'
  <2>1. \A t \in Trx : CkptOpen(t)' =>
          t \in ordered \/ \E m \in Trx : pc'[m] \in LeaderPc /\ t \in group'[m]
    <3> SUFFICES ASSUME NEW t \in Trx, CkptOpen(t)'
                 PROVE  t \in ordered \/ \E m \in Trx : pc'[m] \in LeaderPc /\ t \in group'[m]
      OBVIOUS
    <3>1. CASE t \in G
      <4>1. pc'[l] \in LeaderPc /\ t \in group'[l]
        BY <1>1, <3>1 DEF LeaderPc
      <4> QED BY <4>1
    <3>2. CASE t \notin G
      <4>1. t \in ordered \/ \E m \in Trx : pc[m] \in LeaderPc /\ t \in group[m]
        BY <1>5, <3>2 DEF OrderedInv
      <4>2. \A m \in Trx : pc[m] \in LeaderPc => pc'[m] = pc[m] /\ group'[m] = group[m]
        BY <1>1 DEF LeaderPc
      <4> QED BY <4>1, <4>2
    <3> QED BY <3>1, <3>2
  <2>2. \A r \in Thread : pc'[r] = "request" =>
          \A t \in Trx : CkptOpen(t)' /\ xidFile'[t] = bid'[r] => t \in ordered
    <3> SUFFICES ASSUME NEW r \in Thread, pc'[r] = "request", NEW t \in Trx, CkptOpen(t)',
                        xidFile'[t] = bid'[r]
                 PROVE  t \in ordered
      OBVIOUS
    <3>1. r \notin G /\ pc[r] = "request" /\ bid'[r] = bid[r] /\ r # Reset
      <4>1. r \notin G /\ r # l
        BY <1>1
      <4>2. pc[r] = "request" /\ bid'[r] = bid[r]
        BY <1>1, <4>1
      <4> QED BY <1>4, <4>1, <4>2
    <3>2. bid[r] < current
      BY <3>1 DEF BidInv, Pins
    <3>3. t \notin G
      <4>1. t \in G => xidFile'[t] = current
        BY <1>1, <1>7
      <4> QED BY <1>3, <3>1, <3>2, <4>1
    <3> QED BY <1>1, <1>5, <3>1, <3>3 DEF OrderedInv
  <2> QED BY <1>2, <2>1, <2>2 DEF OrderedInv
<1>13. CoveredInv'
  <2> SUFFICES ASSUME NEW t \in Trx, CkptOpen(t)', xidFile'[t] < current
               PROVE  Covered(t)'
    BY <1>1, <1>2, <1>4 DEF CoveredInv
  <2>1. t \notin G
    <3>1. t \in G => xidFile'[t] = current
      BY <1>1, <1>7
    <3> QED BY <1>3, <3>1
  <2>2. Covered(t) /\ xidFile'[t] = xidFile[t]
    BY <1>1, <1>5, <2>1 DEF CoveredInv
  <2>3. \A r \in Thread : Pins(r) => r \notin G /\ Pins(r)'
    BY <1>1, <1>2 DEF Pins
  <2> QED BY <1>1, <1>2, <2>2, <2>3 DEF Covered
<1>14. KeptInv'
  BY <1>1, <1>2, <1>3, <1>5, <1>7 DEF KeptInv
<1> QED BY <1>8, <1>9, <1>10, <1>11, <1>12, <1>13, <1>14

\* Once the log has been closed nothing will be read, until the server is restarted.
LEMMA LeaderSkipRec ==
  ASSUME TypeInv, AccInv, PreparedInv, RecoverInv, NEW l \in Trx, NEW G \in SUBSET Trx,
         LeaderSkip(l, G)
  PROVE  RecoverInv'
<1> USE ConstantsAssumption
    DEF TypeInv, TypeOK, AccInv, RecoverInv, Thread, listVars, engineVars, diskVars, endVars
<1>1. /\ l \in G /\ \A t \in G : pc[t] = "prepared"
      /\ \A r \in Thread : pc'[r] = IF r = l THEN "rotated"
                                    ELSE IF r \in G THEN "queued" ELSE pc[r]
      /\ \A r \in Thread : bid'[r] = IF r \in G THEN current ELSE bid[r]
  BY DEF LeaderSkip
<1>2. UNCHANGED <<resume, checkPurge, lockAbs, lockCo, current, durPlain, xidFile, failed, mode>>
  BY DEF LeaderSkip
<1>3. mode' = "off"
  BY DEF LeaderSkip
<1>4. \A t \in Trx : ~PlainOpen(t)' /\ ~CkptOpen(t)'
  BY <1>3 DEF InBinlog, PlainOpen, CkptOpen
<1>5. StageInv'
  <2>1. /\ \A t \in Trx : pc'[t] \in {pc[t], "rotated", "queued"}
        /\ pc'[Reset] = pc[Reset] /\ pc'[Flush] = pc[Flush]
    BY <1>1
  <2> QED BY <1>2, <2>1 DEF StageInv
<1>6. BehindInv'
  <2> SUFFICES ASSUME NEW m \in Trx, NEW r \in Trx, Behind(m, r)', checkPurge'[r]
               PROVE  bid'[m] # bid'[r]
    BY DEF BehindInv
  <2>1. r \notin G /\ pc[r] \in {"abs", "co"} /\ checkPurge[r]
    BY <1>1, <1>2 DEF Behind
  <2>2. bid'[r] = bid[r] /\ bid[r] < current
    BY <1>1, <2>1 DEF BidInv, Pins
  <2>3. CASE m = l
    <3>1. bid'[m] = current
      BY <1>1, <2>3
    <3>2. bid[r] \in Int /\ current \in Int
      BY DEF File
    <3> QED BY <2>2, <3>1, <3>2
  <2>4. CASE m # l
    <3>1. m \notin G /\ Behind(m, r)
      BY <1>1, <2>1, <2>4 DEF Behind
    <3> QED BY <1>1, <1>2, <2>1, <3>1 DEF BehindInv
  <2> QED BY <2>3, <2>4
<1>7. WrittenInv'
  BY <1>1, <1>2 DEF WrittenInv, PreparedInv
<1>8. PlainInv'
  BY <1>1, <1>2, <1>4 DEF PlainInv
<1>9. OrderedInv' /\ CoveredInv' /\ KeptInv'
  BY <1>4 DEF OrderedInv, CoveredInv, KeptInv
<1> QED BY <1>5, <1>6, <1>7, <1>8, <1>9

LEMMA CommitRec ==
  ASSUME SafeConfig, TypeInv, AccInv, PreparedInv, OrderInv, RecoverInv, NEW t \in Trx, CommitStep(t)
  PROVE  RecoverInv'
<1> USE ConstantsAssumption
    DEF TypeInv, TypeOK, AccInv, RecoverInv, Thread, threadVars, lockVars, listVars, engineVars,
        diskVars, endVars
<1>1. CASE \E G \in SUBSET Trx : \E E, W \in SUBSET G : LeaderWrite(t, G, E, W)
  BY <1>1, LeaderWriteRec
<1>2. CASE LeaderSync(t)
  <2>1. SamePins
    BY <1>2 DEF LeaderSync, SamePins, Pins, PcInv, TrxPc, FlushPc, ResetActive, BackgroundPc,
       CheckPurgeInv, GroupInv, LeaderPc
  <2>2. SameXids
    BY <1>2 DEF LeaderSync, SameXids, OwesUnlog, XidCounted
  <2>3. NoneOpened
    BY <1>2, NoneOpenedHolds DEF LeaderSync
  <2>4. StageInv'
    BY <1>2 DEF LeaderSync, StageInv, PcInv, ResetActive
  <2>5. BehindInv'
    BY <1>2 DEF LeaderSync, BehindInv, Behind, LogInv, InLog, StageInv
  <2>6. WrittenInv'
    BY <1>2, <2>3 DEF LeaderSync, WrittenInv, NoneOpened
  <2>7. PlainInv'
    BY <1>2, <2>2, <2>3 DEF LeaderSync, PlainInv, NoneOpened, SameXids
  <2>8. OrderedInv'
    BY <1>2, <2>3 DEF LeaderSync, OrderedInv, NoneOpened, LeaderPc, PcInv, ResetActive
  <2>9. CoveredInv'
    BY <1>2, <2>1, <2>3, SameCovered DEF LeaderSync, PcInv, ResetActive
  <2>10. KeptInv'
    BY <1>2, <2>3 DEF LeaderSync, KeptInv, NoneOpened
  <2> QED BY <2>4, <2>5, <2>6, <2>7, <2>8, <2>9, <2>10
<1>3. CASE LeaderOrder(t)
  <2>1. SamePins
    BY <1>3 DEF LeaderOrder, SamePins, Pins, PcInv, TrxPc, FlushPc, ResetActive, BackgroundPc,
       CheckPurgeInv, GroupInv, LeaderPc
  <2>2. SameXids
    BY <1>3 DEF LeaderOrder, SameXids, OwesUnlog, XidCounted
  <2>3. NoneOpened
    BY <1>3, NoneOpenedHolds DEF LeaderOrder
  <2>4. StageInv'
    BY <1>3 DEF LeaderOrder, StageInv, PcInv, ResetActive
  <2>5. BehindInv'
    BY <1>3 DEF LeaderOrder, BehindInv, Behind, LogInv, InLog, StageInv
  <2>6. WrittenInv'
    BY <1>3, <2>3 DEF LeaderOrder, WrittenInv, NoneOpened
  <2>7. PlainInv'
    BY <1>3, <2>2, <2>3 DEF LeaderOrder, PlainInv, NoneOpened, SameXids
  <2>8. OrderedInv'
    BY <1>3, <2>3 DEF LeaderOrder, OrderedInv, NoneOpened, LeaderPc, PcInv, ResetActive
  <2>9. CoveredInv'
    BY <1>3, <2>1, <2>3, SameCovered DEF LeaderOrder, PcInv, ResetActive
  <2>10. KeptInv'
    BY <1>3, <2>3 DEF LeaderOrder, KeptInv, NoneOpened
  <2> QED BY <2>4, <2>5, <2>6, <2>7, <2>8, <2>9, <2>10
<1>4. CASE LeaderCommitOrdered(t)
  <2>1. /\ t \in group[t] /\ pc[t] = "co" /\ lockCo = t
        /\ \A u \in group[t] : u \in Trx
        /\ \A u \in group[t] \ {t} : pc[u] = "queued" /\ ~checkPurge[u] /\ group[u] = {}
    BY <1>4 DEF LeaderCommitOrdered, GroupInv, Live, LeaderPc, CheckPurgeInv, StageInv
  <2>2. /\ \A r \in Thread : r \notin group[t] => pc'[r] = pc[r]
        /\ \A u \in group[t] \ {t} : pc'[u] = IF u \in failed THEN "unlog" ELSE "commit"
        /\ pc'[t] = IF checkPurge[t] THEN "request" ELSE IF t \in failed THEN "unlog" ELSE "commit"
        /\ ordered' = ordered \cup (group[t] \ failed) /\ lockCo' = Nobody
    BY <1>4, <2>1 DEF LeaderCommitOrdered, AfterOrder
  <2>3. UNCHANGED <<resume, bid, group, checkPurge, lockAbs, current, listHead, requests, snapshot,
                    durPlain, durCkpt, files, xidFile, failed, lost, mode>>
    BY <1>4 DEF LeaderCommitOrdered
  <2>4. SamePins
    <3> SUFFICES ASSUME NEW r \in Thread PROVE Pins(r)' <=> Pins(r)
      BY <2>2, <2>3 DEF SamePins
    <3>1. CASE r \notin group[t]
      <4>1. pc'[r] = pc[r] /\ checkPurge'[r] = checkPurge[r] /\ (r \in Trx => group'[r] = group[r])
        BY <2>2, <2>3, <3>1
      <4> QED BY <4>1 DEF Pins
    <3>2. CASE r = t
      <4>1. /\ pc[r] = "co" /\ r \in group[r] /\ group'[r] = group[r] /\ checkPurge'[r] = checkPurge[r]
            /\ pc'[r] \in {"commit", "unlog", "request"} /\ (pc'[r] = "request" <=> checkPurge[r])
        BY <2>1, <2>2, <2>3, <3>2
      <4> QED BY <4>1 DEF Pins
    <3>3. CASE r \in group[t] /\ r # t
      <4>1. /\ pc[r] = "queued" /\ ~checkPurge[r] /\ ~checkPurge'[r]
            /\ pc'[r] \in {"commit", "unlog"}
        BY <2>1, <2>2, <2>3, <3>3
      <4> QED BY <4>1 DEF Pins
    <3> QED BY <3>1, <3>2, <3>3
  <2>5. SameXids
    BY <2>1, <2>2, <2>3 DEF SameXids, OwesUnlog, XidCounted
  <2>6. NoneOpened
    BY <2>3, NoneOpenedHolds
  <2>a. \A r \in Thread : pc'[r] = pc[r] \/ pc'[r] \in {"unlog", "commit", "request"}
    BY <2>1, <2>2
  <2>b. \A u \in Trx : pc[u] = "co" => u = t
    BY <2>1 DEF StageInv
  <2>7. StageInv'
    <3>1. Flush \notin group[t] /\ Reset \notin group[t] /\ pc'[t] # "co"
      BY <2>1, <2>2
    <3>2. pc'[Flush] = pc[Flush] /\ pc'[Reset] = pc[Reset]
      BY <2>2, <3>1
    <3> QED BY <2>3, <2>a, <2>b, <3>1, <3>2 DEF StageInv
  <2>8. \A l \in Trx : pc[l] \in LeaderPc /\ l # t => l \notin group[t] /\ pc'[l] = pc[l]
    BY <2>1, <2>2 DEF LeaderPc
  <2>9. BehindInv'
    BY <2>3, <2>a DEF BehindInv, Behind
  <2>10. WrittenInv'
    BY <2>1, <2>2, <2>3, <2>6 DEF WrittenInv, NoneOpened
  <2>11. PlainInv'
    <3>1. ASSUME NEW u \in Trx, pc'[u] = "unlog" PROVE u \in failed \/ pc[u] = "unlog"
      <4>1. CASE u \notin group[t]
        BY <2>2, <3>1, <4>1
      <4>2. CASE u = t
        BY <2>2, <3>1, <4>2
      <4>3. CASE u \in group[t] /\ u # t
        BY <2>2, <3>1, <4>3
      <4> QED BY <4>1, <4>2, <4>3
    <3>2. \A u \in Trx : OwesUnlog(u) => OwesUnlog(u)'
      BY <2>5 DEF SameXids
    <3> QED BY <2>3, <2>6, <3>1, <3>2 DEF PlainInv, NoneOpened
  <2>12. OrderedInv'
    <3>1. ASSUME NEW u \in Trx, CkptOpen(u), u \notin ordered'
          PROVE  \E l \in Trx : /\ pc[l] \in LeaderPc /\ l # t /\ pc'[l] = pc[l] /\ u \in group[l]
                                /\ bid[l] = xidFile[u]
      <4>1. u \notin failed /\ xidFile[u] = bid[u]
        BY <3>1 DEF CkptOpen, InBinlog, WrittenInv
      <4>2. PICK l \in Trx : pc[l] \in LeaderPc /\ u \in group[l]
        BY <2>2, <3>1 DEF OrderedInv
      <4>3. l # t
        BY <2>2, <3>1, <4>1, <4>2
      <4>4. bid[u] = bid[l]
        BY <4>2 DEF GroupInv, Live
      <4> QED BY <2>8, <4>1, <4>2, <4>3, <4>4
    <3>2. \A u \in Trx : CkptOpen(u)' =>
            u \in ordered' \/ \E l \in Trx : pc'[l] \in LeaderPc /\ u \in group[l]
      <4> SUFFICES ASSUME NEW u \in Trx, CkptOpen(u), u \notin ordered'
                   PROVE  \E l \in Trx : pc'[l] \in LeaderPc /\ u \in group[l]
        BY <2>6 DEF NoneOpened
      <4>1. PICK l \in Trx : pc[l] \in LeaderPc /\ pc'[l] = pc[l] /\ u \in group[l]
        BY <3>1
      <4> QED BY <4>1
    <3>3. \A r \in Thread : pc'[r] = "request" =>
            \A u \in Trx : CkptOpen(u)' /\ xidFile[u] = bid[r] => u \in ordered'
      <4> SUFFICES ASSUME NEW r \in Thread, pc'[r] = "request", NEW u \in Trx, CkptOpen(u),
                          xidFile[u] = bid[r], u \notin ordered'
                   PROVE  FALSE
        BY <2>6 DEF NoneOpened
      <4>1. CASE r = t
        <5>1. checkPurge[t]
          BY <2>2, <4>1
        <5>2. PICK l \in Trx : pc[l] \in LeaderPc /\ l # t /\ bid[l] = bid[t]
          BY <3>1, <4>1
        <5>3. pc[l] # "co" /\ pc[l] # "busyWait"
          BY <2>1, <5>2 DEF StageInv
        <5>4. Behind(l, t)
          BY <2>1, <5>2, <5>3 DEF Behind, LeaderPc
        <5> QED BY <5>1, <5>2, <5>4 DEF BehindInv
      <4>2. CASE r # t
        <5>1. pc[r] = "request"
          BY <2>2, <4>2
        <5> QED BY <2>2, <5>1 DEF OrderedInv
      <4> QED BY <4>1, <4>2
    <3> QED BY <2>3, <3>2, <3>3 DEF OrderedInv
  <2>13. CoveredInv'
    BY <2>1, <2>2, <2>3, <2>4, <2>6, SameCovered
  <2>14. KeptInv'
    BY <2>3, <2>6 DEF KeptInv, NoneOpened
  <2> QED BY <2>7, <2>9, <2>10, <2>11, <2>12, <2>13, <2>14
<1>5. CASE \/ LeaderWaitBusy(t) \/ LeaderOwnCommitOrdered(t)
           \/ \E l \in Trx : FollowerOwnCommitOrdered(t, l)
  BY <1>5 DEF LeaderWaitBusy, LeaderOwnCommitOrdered, FollowerOwnCommitOrdered, SafeConfig
<1>6. CASE EngineCommit(t)
  <2>1. SamePins
    BY <1>6 DEF EngineCommit, SamePins, Pins, PcInv, TrxPc, FlushPc, ResetActive, BackgroundPc,
       CheckPurgeInv, GroupInv, LeaderPc
  <2>2. SameXids
    BY <1>6 DEF EngineCommit, SameXids, OwesUnlog, XidCounted
  <2>3. NoneOpened
    BY <1>6, NoneOpenedHolds DEF EngineCommit
  <2>4. StageInv'
    BY <1>6 DEF EngineCommit, StageInv, PcInv, ResetActive
  <2>5. BehindInv'
    BY <1>6 DEF EngineCommit, BehindInv, Behind, LogInv, InLog, StageInv
  <2>6. WrittenInv'
    BY <1>6, <2>3 DEF EngineCommit, WrittenInv, NoneOpened
  <2>7. PlainInv'
    BY <1>6, <2>2, <2>3 DEF EngineCommit, PlainInv, NoneOpened, SameXids
  <2>8. OrderedInv'
    BY <1>6, <2>3 DEF EngineCommit, OrderedInv, NoneOpened, LeaderPc, PcInv, ResetActive
  <2>9. CoveredInv'
    BY <1>6, <2>1, <2>3, SameCovered DEF EngineCommit, PcInv, ResetActive
  <2>10. KeptInv'
    BY <1>6, <2>3 DEF EngineCommit, KeptInv, NoneOpened
  <2> QED BY <2>4, <2>5, <2>6, <2>7, <2>8, <2>9, <2>10
<1>7. CASE Unlog(t)
  <2>1. /\ pc[t] = "unlog"
        /\ \A r \in Thread : r # t => pc'[r] = pc[r] /\ resume'[r] = resume[r]
        /\ pc'[t] \in {"done", "markWait"} /\ resume'[t] \in {"done", resume[t]}
        /\ UNCHANGED <<bid, group, checkPurge, lockAbs, lockCo, current, requests, snapshot, ordered,
                       durPlain, durCkpt, files, xidFile, failed, lost, mode>>
    BY <1>7 DEF Unlog, MarkXidDone
  <2>2. SamePins
    BY <2>1 DEF SamePins, Pins
  <2>3. \A u \in Trx : u # t => (OwesUnlog(u)' <=> OwesUnlog(u))
    BY <2>1 DEF OwesUnlog, XidCounted
  <2>4. NoneOpened
    BY <2>1, NoneOpenedHolds
  <2>5. StageInv'
    BY <2>1, ZenonT(30) DEF StageInv
  <2>6. BehindInv'
    BY <2>1, ZenonT(30) DEF BehindInv, Behind
  <2>7. WrittenInv'
    BY <2>1, <2>4 DEF WrittenInv, NoneOpened
  <2>8. PlainInv'
    <3>1. ~PlainOpen(t)
      BY <2>1 DEF PlainInv, PlainOpen, InBinlog
    <3> QED BY <2>1, <2>3, <2>4, <3>1 DEF PlainInv, NoneOpened
  <2>9. OrderedInv'
    <3>1. \A l \in Trx : pc[l] \in LeaderPc => pc'[l] = pc[l]
      BY <2>1 DEF LeaderPc
    <3> QED BY <2>1, <2>4, <3>1 DEF OrderedInv, NoneOpened
  <2>10. CoveredInv'
    BY <2>1, <2>2, <2>4, SameCovered
  <2>11. KeptInv'
    BY <2>1, <2>4 DEF KeptInv, NoneOpened
  <2> QED BY <2>5, <2>6, <2>7, <2>8, <2>9, <2>10, <2>11
<1>8. CASE \E G \in SUBSET Trx : LeaderSkip(t, G)
  BY <1>8, LeaderSkipRec
<1> QED BY <1>1, <1>2, <1>3, <1>4, <1>5, <1>6, <1>7, <1>8 DEF CommitStep

LEMMA RotateRec ==
  ASSUME SafeConfig, TypeInv, AccInv, OrderInv, RecoverInv, NEW r \in Thread, RotateStep(r)
  PROVE  RecoverInv'
<1> USE ConstantsAssumption
    DEF TypeInv, TypeOK, AccInv, RecoverInv, Thread, threadVars, lockVars, listVars, engineVars,
        diskVars, endVars
<1>1. CASE RotateBegin(r)
  <2>1. /\ pc[r] = "log" /\ pc' = [pc EXCEPT ![r] = "rotate"] /\ r \in Trx
        /\ UNCHANGED <<resume, bid, group, checkPurge, lockAbs, lockCo, current, requests, snapshot,
                       ordered, durPlain, durCkpt, files, xidFile, failed, lost, mode>>
    BY <1>1 DEF RotateBegin, StageInv
  <2>2. \A q \in Thread : Pins(q) => Pins(q)'
    BY <2>1 DEF Pins
  <2>3. SameXids
    BY <2>1 DEF SameXids, OwesUnlog, XidCounted
  <2>4. NoneOpened
    BY <2>1, NoneOpenedHolds
  <2>5. StageInv'
    BY <2>1 DEF StageInv
  <2>6. BehindInv'
    BY <2>1 DEF BehindInv, Behind
  <2>7. WrittenInv'
    BY <2>1, <2>4 DEF WrittenInv, NoneOpened
  <2>8. PlainInv'
    BY <2>1, <2>3, <2>4 DEF PlainInv, NoneOpened, SameXids
  <2>9. OrderedInv'
    BY <2>1, <2>4 DEF OrderedInv, NoneOpened, LeaderPc
  <2>10. CoveredInv'
    <3> SUFFICES ASSUME NEW t \in Trx, CkptOpen(t),
                        xidFile[t] < current \/ pc[Reset] \in {"request", "requested", "drain"}
                 PROVE  Covered(t)'
      BY <2>1, <2>4 DEF CoveredInv, NoneOpened
    <3>1. Covered(t)
      BY DEF CoveredInv
    <3> QED BY <2>1, <2>2, <3>1 DEF Covered
  <2>11. KeptInv'
    BY <2>1, <2>4 DEF KeptInv, NoneOpened
  <2> QED BY <2>5, <2>6, <2>7, <2>8, <2>9, <2>10, <2>11
<1>2. CASE RotateFail(r) \/ RotateFailClose(r)
  <2>1. /\ pc[r] \in {"rotate", "open"} /\ pc' = [pc EXCEPT ![r] = "rotated"]
        /\ mode' = mode \/ mode' = "off"
        /\ UNCHANGED <<resume, bid, group, checkPurge, lockAbs, lockCo, current, requests, snapshot,
                       ordered, durPlain, durCkpt, files, xidFile, failed, lost>>
    BY <1>2 DEF RotateFail, RotateFailClose
  <2>2. /\ r \in Trx /\ bid[r] = current /\ pc[Reset] \notin {"request", "requested", "drain"}
        /\ pc'[Reset] = pc[Reset]
    BY <2>1 DEF StageInv, PcInv, ResetActive, BackgroundPc, BidInv, LogInv, InLog
  <2>3. SameXids
    BY <2>1 DEF SameXids, OwesUnlog, XidCounted
  <2>4. NoneOpened
    BY <2>1, NoneOpenedHolds
  <2>5. StageInv'
    BY <2>1, <2>2 DEF StageInv
  <2>6. BehindInv'
    BY <2>1 DEF BehindInv, Behind
  <2>7. WrittenInv'
    BY <2>1, <2>4 DEF WrittenInv, NoneOpened
  <2>8. PlainInv'
    BY <2>1, <2>3, <2>4 DEF PlainInv, NoneOpened, SameXids
  <2>9. OrderedInv'
    BY <2>1, <2>4 DEF OrderedInv, NoneOpened, LeaderPc
  <2>10. CoveredInv'
    <3> SUFFICES ASSUME NEW t \in Trx, CkptOpen(t), xidFile[t] < current
                 PROVE  Covered(t)'
      BY <2>1, <2>2, <2>4 DEF CoveredInv, NoneOpened
    <3>1. Covered(t)
      BY DEF CoveredInv
    <3>2. xidFile[t] # current
      BY DEF File
    <3>3. \A q \in Thread : q # r /\ Pins(q) => Pins(q)' /\ pc'[q] = pc[q]
      BY <2>1 DEF Pins
    <3> QED BY <2>1, <2>2, <3>1, <3>2, <3>3 DEF Covered
  <2>11. KeptInv'
    BY <2>1, <2>4 DEF KeptInv, NoneOpened
  <2> QED BY <2>5, <2>6, <2>7, <2>8, <2>9, <2>10, <2>11
<1>3. CASE OpenScan(r)
  <2>1. SamePins
    BY <1>3 DEF OpenScan, SamePins, Pins, PcInv, TrxPc, FlushPc, ResetActive, BackgroundPc,
       CheckPurgeInv, GroupInv, LeaderPc
  <2>2. SameXids
    BY <1>3 DEF OpenScan, SameXids, OwesUnlog, XidCounted
  <2>3. NoneOpened
    BY <1>3, NoneOpenedHolds DEF OpenScan
  <2>4. StageInv'
    BY <1>3 DEF OpenScan, StageInv, PcInv, ResetActive
  <2>5. BehindInv'
    BY <1>3 DEF OpenScan, BehindInv, Behind, LogInv, InLog, StageInv
  <2>6. WrittenInv'
    BY <1>3, <2>3 DEF OpenScan, WrittenInv, NoneOpened
  <2>7. PlainInv'
    BY <1>3, <2>2, <2>3 DEF OpenScan, PlainInv, NoneOpened, SameXids
  <2>8. OrderedInv'
    BY <1>3, <2>3 DEF OpenScan, OrderedInv, NoneOpened, LeaderPc, PcInv, ResetActive
  <2>9. CoveredInv'
    BY <1>3, <2>1, <2>3, SameCovered DEF OpenScan, PcInv, ResetActive
  <2>10. KeptInv'
    BY <1>3, <2>3 DEF OpenScan, KeptInv, NoneOpened
  <2> QED BY <2>4, <2>5, <2>6, <2>7, <2>8, <2>9, <2>10
<1>4. CASE OpenFile(r)
  <2>1. SamePins
    BY <1>4 DEF OpenFile, SamePins, Pins, PcInv, TrxPc, FlushPc, ResetActive, BackgroundPc,
       CheckPurgeInv, GroupInv, LeaderPc
  <2>2. SameXids
    BY <1>4 DEF OpenFile, SameXids, OwesUnlog, XidCounted
  <2>3. NoneOpened
    BY <1>4, NoneOpenedHolds DEF OpenFile
  <2>4. StageInv'
    BY <1>4 DEF OpenFile, StageInv, PcInv, ResetActive
  <2>5. BehindInv'
    BY <1>4 DEF OpenFile, BehindInv, Behind, LogInv, InLog, StageInv
  <2>6. WrittenInv'
    BY <1>4, <2>3 DEF OpenFile, WrittenInv, NoneOpened
  <2>7. PlainInv'
    BY <1>4, <2>2, <2>3 DEF OpenFile, PlainInv, NoneOpened, SameXids
  <2>8. OrderedInv'
    BY <1>4, <2>3 DEF OpenFile, OrderedInv, NoneOpened, LeaderPc, PcInv, ResetActive
  <2>9. CoveredInv'
    BY <1>4, <2>1, <2>3, SameCovered DEF OpenFile, PcInv, ResetActive
  <2>10. KeptInv'
    BY <1>4, <2>3 DEF OpenFile, KeptInv, NoneOpened
  <2> QED BY <2>4, <2>5, <2>6, <2>7, <2>8, <2>9, <2>10
<1>5. CASE OpenLink(r)
  <2>1. /\ pc[r] = "link" /\ pc' = [pc EXCEPT ![r] = "rotated"] /\ current' = current + 1
        /\ checkPurge' = [checkPurge EXCEPT ![r] = TRUE]
        /\ UNCHANGED <<resume, bid, group, lockAbs, lockCo, requests, snapshot, ordered, durPlain,
                       durCkpt, files, xidFile, failed, lost, mode>>
    BY <1>5 DEF OpenLink
  <2>2. /\ r \in Trx /\ bid[r] = current /\ r \in group[r]
        /\ pc[Reset] \notin {"request", "requested", "drain"} /\ pc'[Reset] = pc[Reset]
    BY <2>1 DEF StageInv, PcInv, ResetActive, BackgroundPc, BidInv, LogInv, InLog, GroupInv,
       LeaderPc
  <2>3. SameXids
    BY <2>1 DEF SameXids, OwesUnlog, XidCounted
  <2>4. NoneOpened
    BY <2>1, NoneOpenedHolds
  <2>5. StageInv'
    BY <2>1, <2>2 DEF StageInv
  <2>6. BehindInv'
    BY <2>1 DEF BehindInv, Behind
  <2>7. WrittenInv'
    <3>1. \A t \in Trx : xidFile[t] # 0 => xidFile[t] <= current + 1
      <4> SUFFICES ASSUME NEW t \in Trx, xidFile[t] # 0 PROVE xidFile[t] <= current + 1
        OBVIOUS
      <4>1. xidFile[t] <= current /\ xidFile[t] \in Int /\ current \in Int
        BY DEF WrittenInv, InBinlog, File
      <4> QED BY <4>1
    <3> QED BY <2>1, <2>4, <3>1 DEF WrittenInv, NoneOpened
  <2>8. PlainInv'
    BY <2>1, <2>3, <2>4 DEF PlainInv, NoneOpened, SameXids
  <2>9. OrderedInv'
    BY <2>1, <2>4 DEF OrderedInv, NoneOpened, LeaderPc
  <2>10. CoveredInv'
    <3> SUFFICES ASSUME NEW t \in Trx, CkptOpen(t)
                 PROVE  Covered(t)'
      BY <2>4 DEF CoveredInv, NoneOpened
    <3>1. Pins(r)' /\ pc'[r] # "requested" /\ bid'[r] = current
      BY <2>1, <2>2 DEF Pins
    <3>2. CASE xidFile[t] = current
      BY <2>1, <3>1, <3>2 DEF Covered
    <3>3. CASE xidFile[t] # current
      <4>1. xidFile[t] <= current /\ xidFile[t] \in Int /\ current \in Int
        BY DEF CkptOpen, WrittenInv, InBinlog, File
      <4>2. xidFile[t] < current
        BY <3>3, <4>1
      <4>3. Covered(t)
        BY <4>2 DEF CoveredInv
      <4>4. \A q \in Thread : q # r /\ Pins(q) => Pins(q)' /\ pc'[q] = pc[q]
        BY <2>1 DEF Pins
      <4> QED BY <2>1, <3>1, <4>3, <4>4 DEF Covered
    <3> QED BY <3>2, <3>3
  <2>11. KeptInv'
    BY <2>1, <2>4 DEF KeptInv, NoneOpened
  <2> QED BY <2>5, <2>6, <2>7, <2>8, <2>9, <2>10, <2>11
<1> QED BY <1>1, <1>2, <1>3, <1>4, <1>5 DEF RotateStep

\* The server goes down, or comes up again after a crash.
LEMMA CrashRec ==
  ASSUME SafeConfig, TypeInv, AccInv, PreparedInv, OrderInv, RecoverInv,
         ServerDown \/ CrashRecover
  PROVE  RecoverInv'
<1> USE ConstantsAssumption
    DEF TypeInv, TypeOK, AccInv, RecoverInv, Thread, threadVars, lockVars, listVars, engineVars,
        diskVars, endVars
<1>1. CASE ServerDown
  <2>1. /\ mode' = "aborted" /\ pc' = [r \in Thread |-> "down"]
        /\ UNCHANGED <<resume, failed, bid, xidFile, current>>
    BY <1>1 DEF ServerDown
  <2>2. \A t \in Trx : ~InBinlog(t)' /\ ~PlainOpen(t)' /\ ~CkptOpen(t)'
    BY <2>1 DEF InBinlog, PlainOpen, CkptOpen
  <2>3. StageInv' /\ BehindInv'
    BY <2>1 DEF StageInv, BehindInv, Behind
  <2>4. WrittenInv' /\ PlainInv'
    BY <2>1, <2>2 DEF WrittenInv, PlainInv
  <2>5. OrderedInv' /\ CoveredInv' /\ KeptInv'
    BY <2>2 DEF OrderedInv, CoveredInv, KeptInv
  <2> QED BY <2>3, <2>4, <2>5
<1>2. CASE CrashRecover
  <2>1. /\ \A r \in Thread : /\ pc'[r] \in {"prepared", "done", "idle"}
                             /\ pc'[r] = "prepared" => r \in Trx /\ pc[r] = "prepared"
        /\ pc'[Flush] = "idle"
        /\ durPlain' = durPlain \cup {t \in Trx \ failed : xidFile[t] \in ScannedFiles}
        /\ durCkpt' = durCkpt \cup {t \in Trx \ failed : xidFile[t] \in ScannedFiles}
        /\ current' = LastFile + 1 /\ lost \subseteq lost'
        /\ UNCHANGED <<resume, bid, xidFile, failed>>
    BY <1>2 DEF CrashRecover
  <2>2. mode = "up" \/ (mode = "off" /\ NothingPrepared)
    BY <1>2 DEF CrashRecover
  <2>4. \A t \in Trx : ~PlainOpen(t)' /\ ~CkptOpen(t)'
    <3> SUFFICES ASSUME NEW t \in Trx, PlainOpen(t)' \/ CkptOpen(t)' PROVE FALSE
      OBVIOUS
    <3>1. xidFile[t] # 0 /\ t \notin failed /\ t \notin lost /\ NeedsRecovery(t)
      BY <2>1 DEF PlainOpen, CkptOpen, InBinlog, NeedsRecovery
    <3>2. CASE mode = "up"
      <4>1. xidFile[t] \in ScannedFiles
        BY <3>1, <3>2, RecoverInvRecoverable DEF XidRecoverable
      <4> QED BY <2>1, <3>1, <4>1 DEF PlainOpen, CkptOpen
    <3>3. CASE mode = "off" /\ NothingPrepared
      BY <3>1, <3>3 DEF NothingPrepared, InFlight, PreparedInv
    <3> QED BY <2>2, <3>2, <3>3
  <2>5. StageInv' /\ BehindInv'
    BY <2>1 DEF StageInv, BehindInv, Behind
  <2>6. WrittenInv'
    <3>1. current \in Int /\ (LastFile = current \/ LastFile = current + 1)
      <4>1. LastFile = current \/ LastFile = current + 1
        BY <2>2, LastFileIs
      <4> QED BY <4>1 DEF File
    <3>2. \A t \in Trx : xidFile[t] # 0 => xidFile[t] <= LastFile + 1
      <4> SUFFICES ASSUME NEW t \in Trx, xidFile[t] # 0 PROVE xidFile[t] <= LastFile + 1
        OBVIOUS
      <4>1. xidFile[t] <= current /\ xidFile[t] \in Int
        BY DEF WrittenInv, File
      <4> QED BY <3>1, <4>1
    <3> QED BY <2>1, <3>2 DEF WrittenInv
  <2>7. PlainInv'
    BY <2>1, <2>4 DEF PlainInv
  <2>8. OrderedInv' /\ CoveredInv' /\ KeptInv'
    BY <2>4 DEF OrderedInv, CoveredInv, KeptInv
  <2> QED BY <2>5, <2>6, <2>7, <2>8
<1> QED BY <1>1, <1>2

LEMMA CheckpointRec ==
  ASSUME SafeConfig, TypeInv, AccInv, PreparedInv, OrderInv, RecoverInv, NEW r \in Thread, CheckpointStep(r)
  PROVE  RecoverInv'
<1> USE ConstantsAssumption
    DEF TypeInv, TypeOK, AccInv, RecoverInv, Thread, threadVars, lockVars, listVars, engineVars,
        diskVars, endVars
<1>1. CASE CheckpointRequest(r)
  <2>1. /\ pc[r] = "request" /\ pc' = [pc EXCEPT ![r] = "requested"]
        /\ requests' = requests \cup {bid[r]}
        /\ snapshot' = [snapshot EXCEPT ![bid[r]] = ordered]
        /\ UNCHANGED <<resume, bid, group, checkPurge, lockAbs, lockCo, current, ordered, durPlain,
                       durCkpt, files, xidFile, failed, lost, mode>>
    BY <1>1 DEF CheckpointRequest
  <2>2. Pins(r) /\ bid[r] \notin requests
    BY <2>1 DEF Pins, PinInv
  <2>3. SamePins
    BY <2>1 DEF SamePins, Pins
  <2>4. SameXids
    BY <2>1 DEF SameXids, OwesUnlog, XidCounted
  <2>5. NoneOpened
    BY <2>1, NoneOpenedHolds
  <2>6. StageInv'
    BY <2>1 DEF StageInv
  <2>7. BehindInv'
    BY <2>1 DEF BehindInv, Behind
  <2>8. WrittenInv'
    BY <2>1, <2>5 DEF WrittenInv, NoneOpened
  <2>9. PlainInv'
    BY <2>1, <2>4, <2>5 DEF PlainInv, NoneOpened, SameXids
  <2>10. OrderedInv'
    BY <2>1, <2>5 DEF OrderedInv, NoneOpened, LeaderPc
  <2>11. CoveredInv'
    <3> SUFFICES ASSUME NEW t \in Trx, CkptOpen(t),
                        xidFile[t] < current \/ pc[Reset] \in {"request", "requested", "drain"}
                 PROVE  Covered(t)'
      BY <2>1, <2>5 DEF CoveredInv, NoneOpened
    <3>1. Covered(t)
      BY DEF CoveredInv
    <3>2. CASE xidFile[t] = bid[r]
      <4>1. t \in ordered
        BY <2>1, <3>2 DEF OrderedInv
      <4>2. bid[r] \in File /\ snapshot'[bid[r]] = ordered
        BY <2>1
      <4> QED BY <2>1, <3>2, <4>1, <4>2 DEF Covered
    <3>3. CASE xidFile[t] # bid[r]
      <4>1. \A q \in Thread : Pins(q) /\ bid[q] = xidFile[t] => q # r /\ Pins(q)' /\ pc'[q] = pc[q]
        BY <2>1, <2>3, <3>3 DEF SamePins
      <4>2. snapshot'[xidFile[t]] = snapshot[xidFile[t]]
        BY <2>1, <3>3
      <4> QED BY <2>1, <3>1, <4>1, <4>2 DEF Covered
    <3> QED BY <3>2, <3>3
  <2>12. KeptInv'
    BY <2>1, <2>5 DEF KeptInv, NoneOpened
  <2> QED BY <2>6, <2>7, <2>8, <2>9, <2>10, <2>11, <2>12
<1>2. CASE CheckpointRequested(r)
  <2>1. /\ pc[r] = "requested" /\ checkPurge' = [checkPurge EXCEPT ![r] = FALSE]
        /\ UNCHANGED <<bid, group, lockAbs, lockCo, current, requests, snapshot, ordered, durPlain,
                       durCkpt, files, xidFile, failed, lost, mode>>
    BY <1>2 DEF CheckpointRequested
  <2>2. r \in Trx \cup {Reset} /\ (r = Reset => resetPending)
    BY <2>1 DEF PcInv, BackgroundPc, ResetActive, StageInv
  <2>3. PICK next \in {"drain", "unlog", "commit"} :
          /\ r = Reset => next = "drain"
          /\ r \in Trx => next = IF r \in failed THEN "unlog" ELSE "commit"
          /\ resume' = [resume EXCEPT ![r] = next]
          /\ pc' = [pc EXCEPT ![r] = next] \/ (r # Reset /\ pc' = [pc EXCEPT ![r] = "markWait"])
    BY <1>2, <2>2 DEF CheckpointRequested, MarkXidDone
  <2>4. /\ pc'[r] \in {next, "markWait"} /\ (r = Reset => pc'[r] = "drain")
        /\ \A q \in Thread \ {r} : pc'[q] = pc[q] /\ resume'[q] = resume[q]
        /\ resume'[r] = next
    BY <2>3
  <2>5. \A q \in Thread : q # r /\ Pins(q) => Pins(q)'
    BY <2>1, <2>4 DEF Pins
  <2>6. SameXids
    BY <2>1, <2>3, <2>4 DEF SameXids, OwesUnlog, XidCounted
  <2>7. NoneOpened
    BY <2>1, NoneOpenedHolds
  <2>8. StageInv'
    BY <2>1, <2>2, <2>3, <2>4 DEF StageInv
  <2>9. BehindInv'
    BY <2>1, <2>3, <2>4 DEF BehindInv, Behind
  <2>10. WrittenInv'
    BY <2>1, <2>3, <2>4, <2>7 DEF WrittenInv, NoneOpened
  <2>11. PlainInv'
    BY <2>1, <2>3, <2>4, <2>6, <2>7 DEF PlainInv, NoneOpened, SameXids
  <2>12. OrderedInv'
    <3>1. \A l \in Trx : pc[l] \in LeaderPc => pc'[l] = pc[l]
      BY <2>1, <2>4 DEF LeaderPc
    <3>2. \A q \in Thread : pc'[q] = "request" => pc[q] = "request"
      BY <2>3, <2>4
    <3> QED BY <2>1, <2>7, <3>1, <3>2 DEF OrderedInv, NoneOpened
  <2>13. CoveredInv'
    <3> SUFFICES ASSUME NEW t \in Trx, CkptOpen(t),
                        xidFile[t] < current \/ pc[Reset] \in {"request", "requested", "drain"}
                 PROVE  Covered(t)'
      BY <2>1, <2>4, <2>7 DEF CoveredInv, NoneOpened
    <3>1. Covered(t)
      BY DEF CoveredInv
    <3> QED BY <2>1, <2>4, <2>5, <3>1 DEF Covered
  <2>14. KeptInv'
    BY <2>1, <2>7 DEF KeptInv, NoneOpened
  <2> QED BY <2>8, <2>9, <2>10, <2>11, <2>12, <2>13, <2>14
<1>3. CASE MarkXidDoneLocked(r)
  <2>1. SamePins
    BY <1>3 DEF MarkXidDoneLocked, SamePins, Pins, PcInv, TrxPc, FlushPc, ResetActive, BackgroundPc,
       CheckPurgeInv, GroupInv, LeaderPc
  <2>2. SameXids
    BY <1>3 DEF MarkXidDoneLocked, SameXids, OwesUnlog, XidCounted
  <2>3. NoneOpened
    BY <1>3, NoneOpenedHolds DEF MarkXidDoneLocked
  <2>4. StageInv'
    BY <1>3 DEF MarkXidDoneLocked, StageInv, PcInv, ResetActive
  <2>5. BehindInv'
    BY <1>3 DEF MarkXidDoneLocked, BehindInv, Behind, LogInv, InLog, StageInv
  <2>6. WrittenInv'
    BY <1>3, <2>3 DEF MarkXidDoneLocked, WrittenInv, NoneOpened
  <2>7. PlainInv'
    BY <1>3, <2>2, <2>3 DEF MarkXidDoneLocked, PlainInv, NoneOpened, SameXids
  <2>8. OrderedInv'
    BY <1>3, <2>3 DEF MarkXidDoneLocked, OrderedInv, NoneOpened, LeaderPc, PcInv, ResetActive
  <2>9. CoveredInv'
    BY <1>3, <2>1, <2>3, SameCovered DEF MarkXidDoneLocked, PcInv, ResetActive
  <2>10. KeptInv'
    BY <1>3, <2>3 DEF MarkXidDoneLocked, KeptInv, NoneOpened
  <2> QED BY <2>4, <2>5, <2>6, <2>7, <2>8, <2>9, <2>10
<1>4. CASE MarkXidDoneWrite(r)
  <2>1. SamePins
    BY <1>4 DEF MarkXidDoneWrite, SamePins, Pins, PcInv, TrxPc, FlushPc, ResetActive, BackgroundPc,
       CheckPurgeInv, GroupInv, LeaderPc
  <2>2. SameXids
    BY <1>4 DEF MarkXidDoneWrite, SameXids, OwesUnlog, XidCounted
  <2>3. NoneOpened
    BY <1>4, NoneOpenedHolds DEF MarkXidDoneWrite
  <2>4. StageInv'
    BY <1>4 DEF MarkXidDoneWrite, StageInv, PcInv, ResetActive
  <2>5. BehindInv'
    BY <1>4 DEF MarkXidDoneWrite, BehindInv, Behind, LogInv, InLog, StageInv
  <2>6. WrittenInv'
    BY <1>4, <2>3 DEF MarkXidDoneWrite, WrittenInv, NoneOpened
  <2>7. PlainInv'
    BY <1>4, <2>2, <2>3 DEF MarkXidDoneWrite, PlainInv, NoneOpened, SameXids
  <2>8. OrderedInv'
    BY <1>4, <2>3 DEF MarkXidDoneWrite, OrderedInv, NoneOpened, LeaderPc, PcInv, ResetActive
  <2>9. CoveredInv'
    BY <1>4, <2>1, <2>3, SameCovered DEF MarkXidDoneWrite, PcInv, ResetActive
  <2>10. KeptInv'
    BY <1>4, <2>3 DEF MarkXidDoneWrite, KeptInv, NoneOpened
  <2> QED BY <2>4, <2>5, <2>6, <2>7, <2>8, <2>9, <2>10
<1>5. CASE MarkXidDonePos(r)
  <2>1. /\ pc[r] = "markPos" /\ pc' = [pc EXCEPT ![r] = resume[r]]
        /\ UNCHANGED <<resume, bid, group, checkPurge, lockAbs, lockCo, current, requests, snapshot,
                       ordered, durPlain, durCkpt, files, xidFile, failed, lost, mode>>
    BY <1>5 DEF MarkXidDonePos
  <2>2. /\ r # Reset
        /\ r \in Trx => resume[r] \in {"done", "commit", "unlog"}
        /\ r \notin Trx => resume[r] = "idle"
    BY <2>1 DEF PcInv, ResetActive
  <2>3. pc'[r] \in {"done", "commit", "unlog", "idle"} /\ \A q \in Thread \ {r} : pc'[q] = pc[q]
    BY <2>1, <2>2
  <2>4. SamePins
    BY <2>1, <2>2 DEF SamePins, Pins
  <2>5. SameXids
    <3>1. \A t \in Trx : OwesUnlog(t)' <=> OwesUnlog(t)
      <4> SUFFICES ASSUME NEW t \in Trx PROVE OwesUnlog(t)' <=> OwesUnlog(t)
        OBVIOUS
      <4>1. CASE t = r
        BY <2>1, <2>2, <4>1 DEF OwesUnlog, XidCounted
      <4>2. CASE t # r
        BY <2>1, <4>2 DEF OwesUnlog, XidCounted
      <4> QED BY <4>1, <4>2
    <3> QED BY <2>1, <3>1 DEF SameXids
  <2>6. NoneOpened
    BY <2>1, NoneOpenedHolds
  <2>7. StageInv'
    BY <2>1, <2>2, <2>3 DEF StageInv
  <2>8. BehindInv'
    BY <2>1, <2>3 DEF BehindInv, Behind
  <2>9. WrittenInv'
    BY <2>1, <2>3, <2>6 DEF WrittenInv, NoneOpened
  <2>10. PlainInv'
    BY <2>1, <2>3, <2>5, <2>6 DEF PlainInv, NoneOpened, SameXids
  <2>11. OrderedInv'
    <3>1. \A l \in Trx : pc[l] \in LeaderPc => pc'[l] = pc[l]
      BY <2>1, <2>3 DEF LeaderPc
    <3>2. \A q \in Thread : pc'[q] = "request" => pc[q] = "request"
      BY <2>3
    <3> QED BY <2>1, <2>6, <3>1, <3>2 DEF OrderedInv, NoneOpened
  <2>12. CoveredInv'
    <3>1. \A q \in Thread : pc'[q] = "requested" => pc[q] = "requested"
      BY <2>3
    <3> QED BY <2>1, <2>2, <2>3, <2>4, <2>6, <3>1, SameCovered
  <2>13. KeptInv'
    BY <2>1, <2>6 DEF KeptInv, NoneOpened
  <2> QED BY <2>7, <2>8, <2>9, <2>10, <2>11, <2>12, <2>13
<1>6. CASE MarkXidDoneWriteClosed(r)
  BY <1>6, CrashRec DEF MarkXidDoneWriteClosed
<1> QED BY <1>1, <1>2, <1>3, <1>4, <1>5, <1>6 DEF CheckpointStep

LEMMA FlushRec ==
  ASSUME SafeConfig, RecoverInv, FlushStart \/ FlushUnlock
  PROVE  RecoverInv'
BY DEF SafeConfig, RecoverInv, StageInv, FlushStart, FlushUnlock

LEMMA EngineRec ==
  ASSUME SafeConfig, TypeInv, AccInv, OrderInv, RecoverInv, NEW f \in File,
         EngineNotify(f) \/ BackgroundProcess(f) \/ PurgeLog(f)
  PROVE  RecoverInv'
<1> USE ConstantsAssumption
    DEF TypeInv, TypeOK, AccInv, RecoverInv, Thread, threadVars, lockVars, listVars, engineVars,
        diskVars, endVars
<1>1. CASE EngineNotify(f)
  <2>1. /\ f \in requests /\ durCkpt' = durCkpt \cup snapshot[f] /\ requests' = requests \ {f}
        /\ UNCHANGED <<pc, resume, bid, group, checkPurge, lockAbs, lockCo, current, snapshot,
                       ordered, durPlain, files, xidFile, failed, lost, mode>>
    BY <1>1 DEF EngineNotify
  <2>2. NoneOpened
    BY <2>1, NoneOpenedHolds
  <2>3. SamePins /\ SameXids
    BY <2>1 DEF SamePins, SameXids, Pins, OwesUnlog, XidCounted
  <2>4. StageInv' /\ BehindInv'
    BY <2>1 DEF StageInv, BehindInv, Behind
  <2>5. WrittenInv'
    BY <2>1, <2>2 DEF WrittenInv, NoneOpened
  <2>6. PlainInv'
    BY <2>1, <2>2, <2>3 DEF PlainInv, NoneOpened, SameXids
  <2>7. OrderedInv'
    BY <2>1, <2>2 DEF OrderedInv, NoneOpened
  <2>8. CoveredInv'
    <3> SUFFICES ASSUME NEW t \in Trx, CkptOpen(t)', CkptOpen(t),
                        xidFile[t] < current \/ pc[Reset] \in {"request", "requested", "drain"}
                 PROVE  Covered(t)'
      BY <2>1, <2>2 DEF CoveredInv, NoneOpened
    <3>1. Covered(t)
      BY DEF CoveredInv
    <3>2. t \notin snapshot[f]
      BY <2>1 DEF CkptOpen
    <3> QED BY <2>1, <2>3, <3>1, <3>2 DEF Covered, SamePins
  <2>9. KeptInv'
    BY <2>1, <2>2 DEF KeptInv, NoneOpened
  <2> QED BY <2>4, <2>5, <2>6, <2>7, <2>8, <2>9
<1>2. CASE BackgroundProcess(f)
  <2>1. /\ pc[Background] = "idle" /\ pc'[Background] \in {"idle", "markWait"}
        /\ \A r \in Thread \ {Background} : pc'[r] = pc[r] /\ resume'[r] = resume[r]
        /\ UNCHANGED <<bid, group, checkPurge, lockAbs, lockCo, current, requests, snapshot,
                       ordered, durPlain, durCkpt, files, xidFile, failed, lost, mode>>
    BY <1>2 DEF BackgroundProcess, MarkXidDone
  <2>2. NoneOpened
    BY <2>1, NoneOpenedHolds
  <2>3. SamePins /\ SameXids
    BY <2>1 DEF SamePins, SameXids, Pins, OwesUnlog, XidCounted
  <2>4. StageInv' /\ BehindInv'
    BY <2>1 DEF StageInv, BehindInv, Behind
  <2>5. WrittenInv'
    BY <2>1, <2>2 DEF WrittenInv, NoneOpened
  <2>6. PlainInv'
    BY <2>1, <2>2, <2>3 DEF PlainInv, NoneOpened, SameXids
  <2>7. OrderedInv'
    <3>1. \A l \in Trx : pc'[l] = pc[l]
      BY <2>1
    <3>2. \A q \in Thread : pc'[q] = "request" => pc[q] = "request"
      BY <2>1
    <3> QED BY <2>1, <2>2, <3>1, <3>2 DEF OrderedInv, NoneOpened
  <2>8. CoveredInv'
    <3>1. \A q \in Thread : pc'[q] = "requested" => pc[q] = "requested"
      BY <2>1
    <3> QED BY <2>1, <2>2, <2>3, <3>1, SameCovered
  <2>9. KeptInv'
    BY <2>1, <2>2 DEF KeptInv, NoneOpened
  <2> QED BY <2>4, <2>5, <2>6, <2>7, <2>8, <2>9
<1>3. CASE PurgeLog(f)
  <2>1. /\ files' = files \ {f} /\ f \notin listHead..current
        /\ UNCHANGED <<pc, resume, bid, group, checkPurge, lockAbs, lockCo, current, requests,
                       snapshot, ordered, durPlain, durCkpt, xidFile, failed, lost, mode>>
    BY <1>3 DEF PurgeLog
  <2>2. NoneOpened
    BY <2>1, NoneOpenedHolds
  <2>3. SamePins /\ SameXids
    BY <2>1 DEF SamePins, SameXids, Pins, OwesUnlog, XidCounted
  <2>4. StageInv' /\ BehindInv'
    BY <2>1 DEF StageInv, BehindInv, Behind
  <2>5. WrittenInv'
    BY <2>1, <2>2 DEF WrittenInv, NoneOpened
  <2>6. PlainInv'
    BY <2>1, <2>2, <2>3 DEF PlainInv, NoneOpened, SameXids
  <2>7. OrderedInv'
    BY <2>1, <2>2 DEF OrderedInv, NoneOpened
  <2>8. CoveredInv'
    BY <2>1, <2>2, <2>3, SameCovered
  <2>9. KeptInv'
    <3> SUFFICES ASSUME NEW t \in Trx, PlainOpen(t) \/ CkptOpen(t)
                 PROVE  xidFile[t] \in files'
      BY <2>1, <2>2 DEF KeptInv, NoneOpened
    <3>1. xidFile[t] \in files /\ xidFile[t] \in listHead..current
      BY OpenInList DEF KeptInv
    <3> QED BY <2>1, <3>1
  <2> QED BY <2>4, <2>5, <2>6, <2>7, <2>8, <2>9
<1> QED BY <1>1, <1>2, <1>3

LEMMA ResetRec ==
  ASSUME SafeConfig, TypeInv, AccInv, OrderInv, RecoverInv, ResetStep
  PROVE  RecoverInv'
<1> USE ConstantsAssumption
    DEF TypeInv, TypeOK, AccInv, RecoverInv, Thread, threadVars, lockVars, listVars, engineVars,
        diskVars, endVars
<1>1. CASE ResetStart
  <2>1. SamePins
    BY <1>1 DEF ResetStart, SamePins, Pins, PcInv, TrxPc, FlushPc, ResetActive, BackgroundPc,
       CheckPurgeInv, GroupInv, LeaderPc
  <2>2. SameXids
    BY <1>1 DEF ResetStart, SameXids, OwesUnlog, XidCounted
  <2>3. NoneOpened
    BY <1>1, NoneOpenedHolds DEF ResetStart
  <2>4. StageInv'
    BY <1>1 DEF ResetStart, StageInv, PcInv, ResetActive
  <2>5. BehindInv'
    BY <1>1 DEF ResetStart, BehindInv, Behind, LogInv, InLog, StageInv
  <2>6. WrittenInv'
    BY <1>1, <2>3 DEF ResetStart, WrittenInv, NoneOpened
  <2>7. PlainInv'
    BY <1>1, <2>2, <2>3 DEF ResetStart, PlainInv, NoneOpened, SameXids
  <2>8. OrderedInv'
    BY <1>1, <2>3 DEF ResetStart, OrderedInv, NoneOpened, LeaderPc, PcInv, ResetActive
  <2>9. CoveredInv'
    BY <1>1, <2>1, <2>3, SameCovered DEF ResetStart, PcInv, ResetActive
  <2>10. KeptInv'
    BY <1>1, <2>3 DEF ResetStart, KeptInv, NoneOpened
  <2> QED BY <2>4, <2>5, <2>6, <2>7, <2>8, <2>9, <2>10
<1>2. CASE ResetNoWaiters
  <2>1. SamePins
    BY <1>2 DEF ResetNoWaiters, SamePins, Pins, PcInv, TrxPc, FlushPc, ResetActive, BackgroundPc,
       CheckPurgeInv, GroupInv, LeaderPc
  <2>2. SameXids
    BY <1>2 DEF ResetNoWaiters, SameXids, OwesUnlog, XidCounted
  <2>3. NoneOpened
    BY <1>2, NoneOpenedHolds DEF ResetNoWaiters
  <2>4. StageInv'
    BY <1>2 DEF ResetNoWaiters, StageInv, PcInv, ResetActive
  <2>5. BehindInv'
    BY <1>2 DEF ResetNoWaiters, BehindInv, Behind, LogInv, InLog, StageInv
  <2>6. WrittenInv'
    BY <1>2, <2>3 DEF ResetNoWaiters, WrittenInv, NoneOpened
  <2>7. PlainInv'
    BY <1>2, <2>2, <2>3 DEF ResetNoWaiters, PlainInv, NoneOpened, SameXids
  <2>8. OrderedInv'
    BY <1>2, <2>3 DEF ResetNoWaiters, OrderedInv, NoneOpened, LeaderPc, PcInv, ResetActive
  <2>9. CoveredInv'
    BY <1>2, <2>1, <2>3, SameCovered DEF ResetNoWaiters, PcInv, ResetActive
  <2>10. KeptInv'
    BY <1>2, <2>3 DEF ResetNoWaiters, KeptInv, NoneOpened
  <2> QED BY <2>4, <2>5, <2>6, <2>7, <2>8, <2>9, <2>10
<1>3. CASE ResetLock
  <2>1. SamePins
    BY <1>3 DEF ResetLock, SamePins, Pins, PcInv, TrxPc, FlushPc, ResetActive, BackgroundPc,
       CheckPurgeInv, GroupInv, LeaderPc
  <2>2. SameXids
    BY <1>3 DEF ResetLock, SameXids, OwesUnlog, XidCounted
  <2>3. NoneOpened
    BY <1>3, NoneOpenedHolds DEF ResetLock
  <2>4. StageInv'
    BY <1>3 DEF ResetLock, StageInv, PcInv, ResetActive
  <2>5. BehindInv'
    BY <1>3 DEF ResetLock, BehindInv, Behind, LogInv, InLog, StageInv
  <2>6. WrittenInv'
    BY <1>3, <2>3 DEF ResetLock, WrittenInv, NoneOpened
  <2>7. PlainInv'
    BY <1>3, <2>2, <2>3 DEF ResetLock, PlainInv, NoneOpened, SameXids
  <2>8. OrderedInv'
    BY <1>3, <2>3 DEF ResetLock, OrderedInv, NoneOpened, LeaderPc, PcInv, ResetActive
  <2>9. CoveredInv'
    BY <1>3, <2>1, <2>3, SameCovered DEF ResetLock, PcInv, ResetActive
  <2>10. KeptInv'
    BY <1>3, <2>3 DEF ResetLock, KeptInv, NoneOpened
  <2> QED BY <2>4, <2>5, <2>6, <2>7, <2>8, <2>9, <2>10
<1>4. CASE ResetChainAbs
  <2>1. SamePins
    BY <1>4 DEF ResetChainAbs, SamePins, Pins, PcInv, TrxPc, FlushPc, ResetActive, BackgroundPc,
       CheckPurgeInv, GroupInv, LeaderPc
  <2>2. SameXids
    BY <1>4 DEF ResetChainAbs, SameXids, OwesUnlog, XidCounted
  <2>3. NoneOpened
    BY <1>4, NoneOpenedHolds DEF ResetChainAbs
  <2>4. StageInv'
    BY <1>4 DEF ResetChainAbs, StageInv, PcInv, ResetActive
  <2>5. BehindInv'
    BY <1>4 DEF ResetChainAbs, BehindInv, Behind, LogInv, InLog, StageInv
  <2>6. WrittenInv'
    BY <1>4, <2>3 DEF ResetChainAbs, WrittenInv, NoneOpened
  <2>7. PlainInv'
    BY <1>4, <2>2, <2>3 DEF ResetChainAbs, PlainInv, NoneOpened, SameXids
  <2>8. OrderedInv'
    BY <1>4, <2>3 DEF ResetChainAbs, OrderedInv, NoneOpened, LeaderPc, PcInv, ResetActive
  <2>9. CoveredInv'
    BY <1>4, <2>1, <2>3, SameCovered DEF ResetChainAbs, PcInv, ResetActive
  <2>10. KeptInv'
    BY <1>4, <2>3 DEF ResetChainAbs, KeptInv, NoneOpened
  <2> QED BY <2>4, <2>5, <2>6, <2>7, <2>8, <2>9, <2>10
<1>5. CASE ResetChainCo
  <2>1. /\ pc[Reset] = "wantCo" /\ lockCo = Nobody /\ pc' = [pc EXCEPT ![Reset] = "request"]
        /\ bid' = [bid EXCEPT ![Reset] = current] /\ lockAbs' = Nobody
        /\ UNCHANGED <<resume, group, checkPurge, lockCo, current, requests, snapshot, ordered,
                       durPlain, durCkpt, files, xidFile, failed, lost, mode>>
    BY <1>5 DEF ResetChainCo
  <2>2. /\ \A l \in Trx : pc[l] \notin LeaderPc
        /\ \A t \in Trx : bid'[t] = bid[t] /\ pc'[t] = pc[t]
    BY <2>1 DEF StageInv, LogInv, InLog, LeaderPc
  <2>3. NoneOpened
    BY <2>1, NoneOpenedHolds
  <2>4. SameXids
    BY <2>1 DEF SameXids, OwesUnlog, XidCounted
  <2>5. \A q \in Thread : Pins(q) => q # Reset /\ Pins(q)' /\ bid'[q] = bid[q] /\ pc'[q] = pc[q]
    BY <2>1 DEF Pins, CheckPurgeInv
  <2>6. \A t \in Trx : CkptOpen(t) => t \in ordered
    BY <2>2 DEF OrderedInv
  <2>7. StageInv'
    <3>1. \A t \in Trx : pc[t] # "abs" /\ pc[t] # "co"
      BY <2>2 DEF LeaderPc
    <3> QED BY <2>1, <2>2, <3>1 DEF StageInv
  <2>8. BehindInv'
    BY <2>1, <2>2 DEF BehindInv, Behind
  <2>9. WrittenInv'
    BY <2>1, <2>2, <2>3 DEF WrittenInv, NoneOpened
  <2>10. PlainInv'
    BY <2>1, <2>2, <2>3, <2>4 DEF PlainInv, NoneOpened, SameXids
  <2>11. OrderedInv'
    BY <2>1, <2>3, <2>6 DEF OrderedInv, NoneOpened
  <2>12. CoveredInv'
    <3> SUFFICES ASSUME NEW t \in Trx, CkptOpen(t) PROVE Covered(t)'
      BY <2>3 DEF CoveredInv, NoneOpened
    <3>1. CASE xidFile[t] = current
      <4>1. Pins(Reset)' /\ pc'[Reset] # "requested" /\ bid'[Reset] = xidFile'[t]
        BY <2>1, <3>1 DEF Pins
      <4> QED BY <4>1 DEF Covered
    <3>2. CASE xidFile[t] # current
      <4>1. xidFile[t] <= current /\ xidFile[t] \in Int /\ current \in Int
        BY DEF CkptOpen, WrittenInv, InBinlog, File
      <4>2. xidFile[t] < current
        BY <3>2, <4>1
      <4>3. Covered(t)
        BY <4>2 DEF CoveredInv
      <4> QED BY <2>1, <2>5, <4>3 DEF Covered
    <3> QED BY <3>1, <3>2
  <2>13. KeptInv'
    BY <2>1, <2>3 DEF KeptInv, NoneOpened
  <2> QED BY <2>7, <2>8, <2>9, <2>10, <2>11, <2>12, <2>13
<1>6. CASE ResetReopen
  <2>1. /\ pc[Reset] = "drain" /\ pc' = [pc EXCEPT ![Reset] = "done"]
        /\ \A f \in listHead..current : xidCount[f] = 0
        /\ current' = current + 1
        /\ UNCHANGED <<resume, bid, group, checkPurge, lockAbs, lockCo, requests, snapshot, ordered,
                       durPlain, durCkpt, xidFile, failed, lost, mode>>
    BY <1>6 DEF ResetReopen
  <2>2. NoneOpened
    BY <2>1, NoneOpenedHolds
  <2>3. \A t \in Trx : ~PlainOpen(t) /\ ~CkptOpen(t)
    <3> SUFFICES ASSUME NEW t \in Trx, PlainOpen(t) \/ CkptOpen(t) PROVE FALSE
      OBVIOUS
    <3>1. /\ xidFile[t] = bid[t] /\ xidFile[t] \in File /\ xidFile[t] \in listHead..current
      BY OpenInList DEF WrittenInv, PlainOpen, CkptOpen, InBinlog
    <3>2. Xids(xidFile[t]) = {} /\ Pinners(xidFile[t]) = {} /\ Asked(xidFile[t]) = {}
      BY <2>1, <3>1, ZeroCount
    <3>3. CASE PlainOpen(t)
      <4>1. t \in Xids(xidFile[t])
        BY <3>1, <3>3 DEF Xids, PlainInv
      <4> QED BY <3>2, <4>1
    <3>4. CASE CkptOpen(t)
      <4>1. Covered(t)
        BY <2>1, <3>4 DEF CoveredInv
      <4>2. (\E r \in Thread : r \in Pinners(xidFile[t])) \/ xidFile[t] \in Asked(xidFile[t])
        BY <4>1 DEF Covered, Pinners, Asked
      <4> QED BY <3>2, <4>2
    <3> QED BY <3>3, <3>4
  <2>4. \A t \in Trx : ~PlainOpen(t)' /\ ~CkptOpen(t)'
    BY <2>2, <2>3 DEF NoneOpened
  <2>5. StageInv'
    BY <2>1 DEF StageInv
  <2>6. BehindInv'
    BY <2>1 DEF BehindInv, Behind
  <2>7. WrittenInv'
    <3>1. \A t \in Trx : xidFile[t] # 0 => xidFile[t] <= current + 1
      <4> SUFFICES ASSUME NEW t \in Trx, xidFile[t] # 0 PROVE xidFile[t] <= current + 1
        OBVIOUS
      <4>1. xidFile[t] <= current /\ xidFile[t] \in Int /\ current \in Int
        BY DEF WrittenInv, InBinlog, File
      <4> QED BY <4>1
    <3> QED BY <2>1, <2>2, <3>1 DEF WrittenInv, NoneOpened
  <2>8. PlainInv'
    BY <2>1, <2>4 DEF PlainInv
  <2>9. OrderedInv' /\ CoveredInv' /\ KeptInv'
    BY <2>4 DEF OrderedInv, CoveredInv, KeptInv
  <2> QED BY <2>5, <2>6, <2>7, <2>8, <2>9
<1> QED BY <1>1, <1>2, <1>3, <1>4, <1>5, <1>6 DEF ResetStep

LEMMA InitRec == Init => RecoverInv
<1> SUFFICES ASSUME Init PROVE RecoverInv
  OBVIOUS
<1> USE ConstantsAssumption DEF Init, Thread
<1>1. \A t \in Trx : ~InBinlog(t) /\ ~PlainOpen(t) /\ ~CkptOpen(t)
  BY DEF InBinlog, PlainOpen, CkptOpen
<1>2. StageInv /\ BehindInv
  BY DEF StageInv, BehindInv, Behind
<1>3. WrittenInv /\ PlainInv
  BY <1>1 DEF WrittenInv, PlainInv
<1>4. OrderedInv /\ CoveredInv /\ KeptInv
  BY <1>1 DEF OrderedInv, CoveredInv, KeptInv
<1> QED BY <1>2, <1>3, <1>4 DEF RecoverInv

\* The invariant is inductive.
LEMMA NextRec ==
  ASSUME SafeConfig, TypeInv, AccInv, PreparedInv, OrderInv, RecoverInv, [Next]_vars
  PROVE  RecoverInv'
<1>1. CASE ServerStep
  BY <1>1, CommitRec, RotateRec, CheckpointRec, FlushRec, EngineRec, ResetRec DEF ServerStep
<1>2. CASE RecoverAbort \/ CrashRecover
  BY <1>2, CrashRec DEF RecoverAbort
<1>3. CASE UNCHANGED vars
  <2> USE <1>3 DEF vars, threadVars, lockVars, listVars, engineVars, diskVars, endVars, RecoverInv
  <2>1. NoneOpened
    BY NoneOpenedHolds
  <2>2. SamePins /\ SameXids
    BY DEF SamePins, SameXids, Pins, OwesUnlog, XidCounted
  <2>3. StageInv' /\ BehindInv'
    BY DEF StageInv, BehindInv, Behind
  <2>4. WrittenInv' /\ KeptInv' /\ OrderedInv'
    BY <2>1 DEF WrittenInv, KeptInv, OrderedInv, NoneOpened
  <2>5. PlainInv'
    BY <2>1, <2>2 DEF PlainInv, NoneOpened, SameXids
  <2>6. CoveredInv'
    BY <2>1, <2>2, SameCovered
  <2> QED BY <2>3, <2>4, <2>5, <2>6
<1> QED BY <1>1, <1>2, <1>3 DEF Next, Idle

\* In every reachable state of a server that SafeConfig describes, as long as
\* no failed rotation has closed the log, recovery from a crash finds the XID of every transaction that is in
\* the binlog and not durable in its engines: neither mark_xid_done(), nor
\* open(), nor purge_logs(), nor reset_logs() lets go of a file too early.
THEOREM XidRecoverableHolds ==
  ASSUME SafeConfig
  PROVE  Spec => []XidRecoverable
<1> DEFINE Inv == TypeInv /\ AccInv /\ PreparedInv /\ OrderInv /\ RecoverInv
<1>1. Init => Inv
  <2>1. Init => OrderInv
    BY ConstantsAssumption DEF Init, OrderInv, File, Thread
  <2> QED BY <2>1, InitTypeInv, InitAcc, InitPrepared, InitRec
<1>2. Inv /\ [Next]_vars => Inv'
  BY NextTypeInv, NextAcc, NextPrepared, NextOrderInv, NextRec
<1>3. Inv => XidRecoverable
  BY RecoverInvRecoverable
<1> QED BY <1>1, <1>2, <1>3, PTL DEF Spec

-----------------------------------------------------------------------------
(* What recovery rolls back.                                               *)

\* A transaction that recovery has rolled back never was in the binlog, and its
\* client is gone.
LostInv == \A t \in lost : xidFile[t] = 0 /\ pc[t] # "prepared"

LEMMA ServerLost ==
  ASSUME TypeInv, LostInv, ServerStep
  PROVE  LostInv'
<1>1. CASE \E l \in Trx : \E G \in SUBSET Trx : \E E, W \in SUBSET G : LeaderWrite(l, G, E, W)
  <2>1. PICK l \in Trx, G \in SUBSET Trx : \E E, W \in SUBSET G : LeaderWrite(l, G, E, W)
    BY <1>1
  <2>2. PICK E \in SUBSET G, W \in SUBSET G : LeaderWrite(l, G, E, W)
    BY <2>1
  <2>3. /\ lost' = lost /\ \A u \in G : pc[u] = "prepared"
        /\ \A u \in Trx : u \notin G => xidFile'[u] = xidFile[u] /\ pc'[u] = pc[u]
    BY <2>2 DEF LeaderWrite, Thread
  <2> QED BY <2>3 DEF LostInv, TypeInv, TypeOK
<1> QED BY <1>1, OnlyLeadersWrite DEF LostInv, TypeInv, TypeOK

LEMMA CrashLost ==
  ASSUME TypeInv, XidRecoverable, LostInv, RecoverAbort \/ CrashRecover
  PROVE  LostInv'
<1> USE ConstantsAssumption DEF TypeInv, TypeOK, Thread, diskVars
<1>1. CASE RecoverAbort
  BY <1>1 DEF RecoverAbort, ServerDown, LostInv
<1>2. CASE CrashRecover
  <2>1. /\ mode = "up" \/ NothingPrepared
        /\ xidFile' = xidFile
        /\ \A t \in lost' : t \in lost \/ ( /\ t \in Trx /\ pc[t] # "prepared" /\ NeedsRecovery(t)
                                            /\ xidFile[t] \notin ScannedFiles)
        /\ \A t \in Trx : pc'[t] = "prepared" => pc[t] = "prepared"
    BY <1>2 DEF CrashRecover, InFlight
  <2> SUFFICES ASSUME NEW t \in lost' PROVE xidFile[t] = 0 /\ pc'[t] # "prepared"
    BY <2>1 DEF LostInv
  <2>2. CASE t \in lost
    BY <2>1, <2>2 DEF LostInv
  <2>3. CASE t \notin lost
    <3>1. t \in Trx /\ pc[t] # "prepared" /\ NeedsRecovery(t) /\ xidFile[t] \notin ScannedFiles
      BY <2>1, <2>3
    <3>2. mode = "up"
      BY <2>1, <2>3, <3>1 DEF NothingPrepared, InFlight
    <3> QED BY <2>1, <2>3, <3>1, <3>2 DEF XidRecoverable
  <2> QED BY <2>2, <2>3
<1> QED BY <1>1, <1>2

\* In every reachable state of such a server, no transaction whose XID had
\* reached the binlog has been rolled back in an engine by the recovery after a
\* crash (TC_LOG_BINLOG::recover(), ha_recover()): binlog and engines agree.  This
\* includes a log that a failed rotation has closed, of which recovery reads
\* nothing: the server then only starts if the engines hold nothing prepared.
THEOREM NoLostTransactionHolds ==
  ASSUME SafeConfig
  PROVE  Spec => []NoLostTransaction
<1>1. Init => TypeInv /\ LostInv
  <2>1. Init => LostInv
    BY DEF Init, LostInv
  <2> QED BY <2>1, InitTypeInv
<1>2. TypeInv /\ LostInv /\ XidRecoverable /\ [Next]_vars => (TypeInv /\ LostInv)'
  <2> SUFFICES ASSUME TypeInv, LostInv, XidRecoverable, [Next]_vars PROVE LostInv'
    BY NextTypeInv
  <2>1. CASE ServerStep
    BY <2>1, ServerLost
  <2>2. CASE RecoverAbort \/ CrashRecover
    BY <2>2, CrashLost
  <2>3. CASE UNCHANGED vars
    BY <2>3 DEF vars, threadVars, diskVars, endVars, LostInv
  <2> QED BY <2>1, <2>2, <2>3 DEF Next, Idle
<1>3. LostInv => NoLostTransaction
  BY DEF LostInv, NoLostTransaction
<1> QED BY <1>1, <1>2, <1>3, XidRecoverableHolds, PTL DEF Spec
=============================================================================
