----------------------- MODULE BinlogCheckpointOrder ------------------------
(***************************************************************************)
(* Binlog checkpoints only move forward, for every set of transactions,    *)
(* engines, commands and bounds.                                           *)
(***************************************************************************)
EXTENDS BinlogCheckpointAccounting

\* The file that the last checkpoint event of the last file names.
Checkpoint == ckpt[LastFile]

\* The current file is the last of the index, but for the moment in which
\* open() has written the new file and not yet linked its entry, also when the
\* log has been closed; the checkpoint
\* is not ahead of the list, and the name open() has read is still what it
\* would find: no entry before it has got a count.
OrderInv ==
  /\ mode = "aborted" => \A r \in Thread : pc[r] = "down"
  /\ mode # "aborted" =>
       /\ current \in files /\ ckpt[current] <= listHead
       /\ \A f \in files : f <= current \/ (f = current + 1 /\ \E r \in Thread : pc[r] = "link")
       /\ \A r \in Thread : pc[r] = "link" => current + 1 \in files /\ ckpt[current + 1] = openName
       /\ \A r \in Thread : pc[r] \in {"open", "link"} =>
            /\ openName \in listHead..current + 1
            /\ \A j \in listHead..openName - 1 : xidCount[j] = 0

LEMMA MaxIs ==
  ASSUME NEW S \in SUBSET File, NEW m \in S, \A g \in S : g <= m
  PROVE  (CHOOSE f \in S : \A g \in S : g <= f) = m
<1> DEFINE c == CHOOSE f \in S : \A g \in S : g <= f
<1>1. c \in S /\ \A g \in S : g <= c
  OBVIOUS
<1>2. c <= m /\ m <= c
  BY <1>1
<1> HIDE DEF c
<1>3. c = m
  BY <1>1, <1>2 DEF File
<1> QED BY <1>3 DEF c

\* The last file of the index.
LEMMA LastFileIs ==
  ASSUME TypeInv, OrderInv, mode # "aborted"
  PROVE  /\ (\A r \in Thread : pc[r] # "link") => LastFile = current
         /\ (\E r \in Thread : pc[r] = "link") => LastFile = current + 1
<1>1. files \in SUBSET File /\ current \in files /\ current \in Int
  BY ConstantsAssumption DEF TypeInv, TypeOK, OrderInv, File
<1>2. CASE \A r \in Thread : pc[r] # "link"
  <2>1. \A g \in files : g <= current
    BY <1>2 DEF OrderInv
  <2> QED BY <1>1, <1>2, <2>1, MaxIs DEF LastFile
<1>3. CASE \E r \in Thread : pc[r] = "link"
  <2>1. current + 1 \in files
    BY <1>3 DEF OrderInv
  <2>2. \A g \in files : g <= current + 1
    <3> SUFFICES ASSUME NEW g \in files PROVE g <= current + 1
      OBVIOUS
    <3>1. g \in Int /\ (g <= current \/ g = current + 1)
      BY <1>1 DEF OrderInv, File
    <3> QED BY <1>1, <3>1
  <2> QED BY <1>1, <1>3, <2>1, <2>2, MaxIs DEF LastFile
<1> QED BY <1>2, <1>3

LEMMA CheckpointType ==
  ASSUME TypeInv
  PROVE  LastFile \in files /\ Checkpoint \in File /\ Checkpoint \in Int
<1>1. LastFile \in files /\ Checkpoint \in File
  BY LastFileMax DEF TypeInv, TypeOK, RoomInv, Checkpoint
<1> QED BY <1>1 DEF File

LEMMA SameCheckpoint ==
  ASSUME TypeInv, files' = files, ckpt' = ckpt
  PROVE  Checkpoint' = Checkpoint /\ Checkpoint \in Int
<1>1. Checkpoint \in Int
  BY CheckpointType
<1> QED BY <1>1 DEF Checkpoint, LastFile

\* A step that leaves the index, the list and the rotating thread alone.
LEMMA SameOrder ==
  ASSUME TypeInv, OrderInv, UNCHANGED <<current, listHead, openName, files, ckpt>>,
         mode' = mode \/ (mode # "aborted" /\ mode' = "off"),
         mode = "aborted" => \A r \in Thread : pc'[r] = pc[r],
         \A r \in Thread : /\ pc'[r] \in {"open", "link"} => pc'[r] = pc[r]
                           /\ pc[r] = "link" => pc'[r] = "link",
         (\E r \in Thread : pc[r] \in {"open", "link"}) =>
            \A j \in listHead..openName - 1 : xidCount[j] = 0 => xidCount'[j] = 0
  PROVE  OrderInv' /\ Checkpoint' >= Checkpoint
<1>1. Checkpoint' = Checkpoint /\ Checkpoint \in Int
  BY SameCheckpoint
<1>2. (mode = "aborted" => \A r \in Thread : pc[r] = "down")'
  BY DEF OrderInv
<1>3. CASE mode # "aborted"
  <2>1. (\A f \in files : f <= current \/ (f = current + 1 /\ \E r \in Thread : pc[r] = "link"))'
    BY <1>3 DEF OrderInv
  <2>2. (\A r \in Thread : pc[r] = "link" => current + 1 \in files /\ ckpt[current + 1] = openName)'
    BY <1>3 DEF OrderInv
  <2>3. (\A r \in Thread : pc[r] \in {"open", "link"} =>
            /\ openName \in listHead..current + 1
            /\ \A j \in listHead..openName - 1 : xidCount[j] = 0)'
    BY <1>3 DEF OrderInv
  <2> QED BY <1>1, <1>2, <1>3, <2>1, <2>2, <2>3 DEF OrderInv
<1>4. CASE mode = "aborted"
  BY <1>1, <1>2, <1>4 DEF OrderInv
<1> QED BY <1>3, <1>4

LEMMA CommitOrderInv ==
  ASSUME TypeInv, AccInv, OrderInv, NEW t \in Trx, CommitStep(t)
  PROVE  OrderInv' /\ Checkpoint' >= Checkpoint
<1> USE ConstantsAssumption
    DEF TypeInv, TypeOK, Thread, threadVars, lockVars, listVars, engineVars, diskVars, endVars
<1>1. CASE \E G \in SUBSET Trx : \E E, W \in SUBSET G : LeaderWrite(t, G, E, W)
  <2>0. PICK G \in SUBSET Trx : \E E, W \in SUBSET G : LeaderWrite(t, G, E, W)
    BY <1>1
  <2>1. PICK E \in SUBSET G, W \in SUBSET G : LeaderWrite(t, G, E, W)
    BY <2>0
  <2>2. \A r \in Thread : pc[r] \notin {"open", "link"}
    BY <2>1 DEF LeaderWrite, LogInv, InLog
  <2>3. /\ UNCHANGED <<current, listHead, openName, files, ckpt, mode>>
        /\ \A r \in Thread : pc'[r] \notin {"open", "link"}
        /\ pc[t] = "prepared"
    BY <2>1, <2>2 DEF LeaderWrite
  <2> QED BY <2>2, <2>3, SameOrder DEF OrderInv
<1>2. CASE LeaderSync(t)
  BY <1>2, SameOrder DEF LeaderSync, OrderInv
<1>3. CASE LeaderOrder(t)
  BY <1>3, SameOrder DEF LeaderOrder, OrderInv
<1>4. CASE LeaderCommitOrdered(t)
  <2>1. /\ UNCHANGED <<current, listHead, openName, files, ckpt, mode, xidCount>>
        /\ pc[t] = "co"
        /\ \A r \in Thread : r \notin group[t] => pc'[r] = pc[r]
        /\ \A r \in group[t] : pc'[r] \in {"request", "unlog", "commit"}
    BY <1>4 DEF LeaderCommitOrdered, AfterOrder
  <2>2. \A r \in group[t] : pc[r] \in {"co", "queued"}
    BY <2>1 DEF AccInv, GroupInv, Live, LeaderPc
  <2> QED BY <2>1, <2>2, SameOrder DEF OrderInv
<1>5. CASE LeaderWaitBusy(t)
  BY <1>5, SameOrder DEF LeaderWaitBusy, OrderInv
<1>6. CASE LeaderOwnCommitOrdered(t)
  BY <1>6, SameOrder DEF LeaderOwnCommitOrdered, OwnCommitOrdered, AfterOrder, OrderInv
<1>7. CASE \E l \in Trx : FollowerOwnCommitOrdered(t, l)
  BY <1>7, SameOrder, SMTT(30) DEF FollowerOwnCommitOrdered, OwnCommitOrdered, AfterOrder, OrderInv
<1>8. CASE EngineCommit(t)
  BY <1>8, SameOrder DEF EngineCommit, OrderInv
<1>9. CASE Unlog(t)
  <2>1. /\ UNCHANGED <<current, listHead, openName, files, ckpt, mode>>
        /\ pc[t] = "unlog"
        /\ \A r \in Thread : r # t => pc'[r] = pc[r]
        /\ pc'[t] \in {"done", "markWait"}
    BY <1>9 DEF Unlog, MarkXidDone
  <2>2. \A j \in File : xidCount[j] = 0 => xidCount'[j] = 0
    <3>1. CASE XidCounted(t)
      <4>1. t \in Xids(bid[t]) /\ bid[t] \in File
        BY <2>1, <3>1 DEF Xids, OwesUnlog
      <4>2. xidCount[bid[t]] # 0
        BY <4>1, ZeroCount DEF AccInv
      <4> QED BY <1>9, <3>1, <4>2 DEF Unlog, MarkXidDone
    <3>2. CASE ~XidCounted(t)
      BY <1>9, <3>2 DEF Unlog
    <3> QED BY <3>1, <3>2
  <2>3. mode # "aborted" => \A r \in Thread : pc[r] \in {"open", "link"} =>
                         \A j \in listHead..openName - 1 : j \in File
    BY DEF OrderInv, File
  <2> QED BY <2>1, <2>2, <2>3, SameOrder DEF OrderInv
<1>10. CASE \E G \in SUBSET Trx : LeaderSkip(t, G)
  <2>1. PICK G \in SUBSET Trx : LeaderSkip(t, G)
    BY <1>10
  <2>2. \A r \in Thread : pc[r] \notin {"open", "link"}
    BY <2>1 DEF LeaderSkip, LogInv, InLog
  <2>3. /\ UNCHANGED <<current, listHead, openName, files, ckpt, mode>>
        /\ \A r \in Thread : pc'[r] \notin {"open", "link"}
        /\ pc[t] = "prepared"
    BY <2>1, <2>2 DEF LeaderSkip
  <2> QED BY <2>2, <2>3, SameOrder DEF OrderInv
<1> QED BY <1>1, <1>2, <1>3, <1>4, <1>5, <1>6, <1>7, <1>8, <1>9, <1>10 DEF CommitStep

LEMMA RotateOrderInv ==
  ASSUME TypeInv, AccInv, OrderInv, NEW r \in Thread, RotateStep(r)
  PROVE  OrderInv' /\ Checkpoint' >= Checkpoint
<1> USE ConstantsAssumption
    DEF TypeInv, TypeOK, Thread, threadVars, lockVars, listVars, engineVars, diskVars, endVars
<1>a. mode # "aborted" /\ \A q \in Thread \ {r} : pc[q] \notin {"open", "link"}
  BY DEF RotateStep, RotateBegin, RotateFail, RotateFailClose, OpenScan, OpenFile, OpenLink, OrderInv,
     LogInv, InLog
<1>b. current \in Int /\ listHead \in Int /\ openName \in Int
  BY DEF File
<1>1. CASE RotateBegin(r)
  BY <1>1, <1>a, SameOrder DEF RotateBegin
<1>2. CASE RotateFail(r) \/ RotateFailClose(r)
  <2>1. /\ pc[r] \in {"rotate", "open"} /\ pc' = [pc EXCEPT ![r] = "rotated"]
        /\ xidCount' = [xidCount EXCEPT ![bid[r]] = @ - 1] /\ mode' \in {mode, "off"}
        /\ UNCHANGED <<current, listHead, openName, files, ckpt>>
    BY <1>2 DEF RotateFail, RotateFailClose
  <2>2. xidCount[bid[r]] # 0
    <3>1. r \in Pinners(bid[r]) /\ bid[r] \in File
      BY <2>1 DEF Pinners, Pins
    <3> QED BY <3>1, ZeroCount DEF AccInv
  <2>3. \A j \in File : xidCount[j] = 0 => xidCount'[j] = 0
    BY <2>1, <2>2
  <2>4. \A q \in Thread : pc[q] \in {"open", "link"} => \A j \in listHead..openName - 1 : j \in File
    BY <1>a DEF OrderInv, File
  <2> QED BY <1>a, <2>1, <2>3, <2>4, SameOrder
<1>3. CASE OpenScan(r)
  <2>1. /\ pc[r] = "rotate" /\ pc' = [pc EXCEPT ![r] = "open"] /\ openName' = FirstPending
        /\ UNCHANGED <<current, listHead, files, ckpt, mode, xidCount>>
    BY <1>3 DEF OpenScan
  <2>2. Checkpoint' = Checkpoint /\ Checkpoint \in Int
    BY <2>1, SameCheckpoint
  <2>3. /\ FirstPending \in listHead..current + 1
        /\ \A j \in listHead..FirstPending - 1 : xidCount[j] = 0
    BY FirstPendingIs
  <2>4. \A q \in Thread : pc'[q] # "link" /\ pc[q] # "link"
    BY <1>a, <2>1
  <2> QED BY <1>a, <2>1, <2>2, <2>3, <2>4 DEF OrderInv
<1>4. CASE OpenFile(r)
  <2>1. /\ pc[r] = "open" /\ pc' = [pc EXCEPT ![r] = "link"]
        /\ files' = files \cup {current + 1}
        /\ ckpt' = [ckpt EXCEPT ![current + 1] = openName]
        /\ UNCHANGED <<current, listHead, openName, mode, xidCount>>
    BY <1>4 DEF OpenFile
  <2>2. current + 1 \in File
    BY <2>1 DEF RoomInv, FileLimit, File
  <2>3. /\ \A q \in Thread : pc[q] # "link"
        /\ pc'[r] = "link"
    BY <1>a, <2>1
  <2>4. LastFile = current
    BY <1>a, <2>3, LastFileIs
  <2>5. \A f \in files' : f <= current + 1
    <3>1. \A f \in files : f \in Int /\ f <= current
      BY <1>a, <2>3 DEF OrderInv, File
    <3> QED BY <1>b, <2>1, <3>1
  <2>6. LastFile' = current + 1
    <3>1. files' \in SUBSET File /\ current + 1 \in files'
      BY <2>1, <2>2
    <3> QED BY <2>5, <3>1, MaxIs DEF LastFile
  <2>7. /\ openName \in listHead..current + 1 /\ ckpt[current] <= listHead
        /\ \A j \in listHead..openName - 1 : xidCount[j] = 0
    BY <1>a, <2>1 DEF OrderInv
  <2>8. ckpt'[current + 1] = openName /\ ckpt'[current] = ckpt[current]
    BY <1>b, <2>1, <2>2
  <2>9. Checkpoint' >= Checkpoint
    <3>1. Checkpoint = ckpt[current] /\ Checkpoint' = openName
      BY <2>4, <2>6, <2>8 DEF Checkpoint
    <3>2. ckpt[current] \in Int
      BY DEF File
    <3> QED BY <1>b, <2>7, <3>1, <3>2
  <2>10. (\A f \in files : f <= current \/ (f = current + 1 /\ \E q \in Thread : pc[q] = "link"))'
    BY <1>a, <2>1, <2>3 DEF OrderInv
  <2> QED BY <1>a, <2>1, <2>7, <2>8, <2>9, <2>10 DEF OrderInv
<1>5. CASE OpenLink(r)
  <2>1. /\ pc[r] = "link" /\ pc' = [pc EXCEPT ![r] = "rotated"]
        /\ current' = current + 1 /\ listHead' = FirstPending
        /\ UNCHANGED <<files, ckpt, mode, xidCount>>
    BY <1>5 DEF OpenLink
  <2>2. Checkpoint' = Checkpoint /\ Checkpoint \in Int
    BY <2>1, SameCheckpoint
  <2>3. /\ current + 1 \in files /\ ckpt[current + 1] = openName
        /\ openName \in listHead..current + 1
        /\ \A j \in listHead..openName - 1 : xidCount[j] = 0
        /\ \A f \in files : f <= current \/ f = current + 1
    BY <1>a, <2>1 DEF OrderInv
  <2>4. openName <= FirstPending
    <3>1. /\ FirstPending \in listHead..current + 1
          /\ FirstPending = current + 1 \/ xidCount[FirstPending] # 0
      BY FirstPendingIs
    <3>2. CASE FirstPending = current + 1
      BY <1>b, <2>3, <3>2
    <3>3. CASE xidCount[FirstPending] # 0
      BY <1>b, <2>3, <3>1, <3>3
    <3> QED BY <3>1, <3>2, <3>3
  <2>5. \A q \in Thread : pc'[q] \notin {"open", "link"}
    BY <1>a, <2>1
  <2>6. \A f \in files : f <= current + 1
    <3>1. \A f \in files : f \in Int
      BY DEF File
    <3> QED BY <1>b, <2>3, <3>1
  <2> QED BY <1>a, <2>1, <2>2, <2>3, <2>4, <2>5, <2>6 DEF OrderInv
<1> QED BY <1>1, <1>2, <1>3, <1>4, <1>5 DEF RotateStep

LEMMA CrashOrderInv ==
  ASSUME TypeInv, AccInv, OrderInv, ServerDown \/ CrashRecover
  PROVE  OrderInv' /\ Checkpoint' >= Checkpoint
<1> USE ConstantsAssumption
    DEF TypeInv, TypeOK, Thread, threadVars, lockVars, listVars, engineVars, diskVars, endVars
<1>1. CASE ServerDown
  <2>1. /\ mode' = "aborted" /\ pc' = [r \in Thread |-> "down"]
        /\ files' = files /\ ckpt' = ckpt
    BY <1>1 DEF ServerDown
  <2>2. Checkpoint' >= Checkpoint
    BY <2>1, SameCheckpoint
  <2> QED BY <2>1, <2>2 DEF OrderInv
<1>2. CASE CrashRecover
  <2>1. /\ mode # "aborted" /\ mode' = "up"
        /\ current' = LastFile + 1 /\ listHead' = LastFile + 1
        /\ files' = files \cup {LastFile + 1}
        /\ ckpt' = [ckpt EXCEPT ![LastFile + 1] = LastFile + 1]
        /\ \A r \in Thread : pc'[r] \in {"prepared", "done", "idle"}
        /\ LastFile < FileLimit
    BY <1>2 DEF CrashRecover
  <2>2. /\ LastFile \in files /\ LastFile \in Int /\ LastFile + 1 \in File
        /\ \A g \in files : g \in Int /\ g <= LastFile
    <3>1. LastFile \in files /\ \A g \in files : g <= LastFile
      BY LastFileMax DEF RoomInv
    <3> QED BY <2>1, <3>1 DEF FileLimit, File
  <2>3. \A g \in files' : g <= LastFile + 1
    BY <2>1, <2>2
  <2>4. LastFile' = LastFile + 1
    <3>1. files' \in SUBSET File /\ LastFile + 1 \in files'
      BY <2>1, <2>2
    <3> QED BY <2>3, <3>1, MaxIs DEF LastFile
  <2>5. Checkpoint' = LastFile + 1 /\ ckpt'[LastFile + 1] = LastFile + 1
    BY <2>1, <2>2, <2>4 DEF Checkpoint
  <2>6. Checkpoint \in Int /\ Checkpoint <= LastFile
    <3>0. Checkpoint \in Int
      BY CheckpointType
    <3>1. current \in Int /\ listHead \in Int /\ listHead <= current /\ Checkpoint \in Int
      BY <3>0 DEF File
    <3>2. CASE \A r \in Thread : pc[r] # "link"
      <4>1. LastFile = current /\ Checkpoint <= listHead
        BY <2>1, <3>2, LastFileIs DEF Checkpoint, OrderInv
      <4> QED BY <3>1, <4>1
    <3>3. CASE \E r \in Thread : pc[r] = "link"
      <4>1. LastFile = current + 1 /\ Checkpoint = openName /\ openName \in listHead..current + 1
        BY <2>1, <3>3, LastFileIs DEF Checkpoint, OrderInv
      <4> QED BY <3>1, <4>1
    <3> QED BY <3>2, <3>3
  <2>7. Checkpoint' >= Checkpoint
    BY <2>2, <2>5, <2>6
  <2> QED BY <2>1, <2>2, <2>3, <2>5, <2>7 DEF OrderInv
<1> QED BY <1>1, <1>2

LEMMA CheckpointOrderInv ==
  ASSUME TypeInv, AccInv, OrderInv, NEW r \in Thread, CheckpointStep(r)
  PROVE  OrderInv' /\ Checkpoint' >= Checkpoint
<1> USE ConstantsAssumption
    DEF TypeInv, TypeOK, Thread, threadVars, lockVars, listVars, engineVars, diskVars, endVars
<1>a. mode # "aborted"
  BY DEF CheckpointStep, CheckpointRequest, CheckpointRequested, MarkXidDoneLocked,
     MarkXidDoneWrite, MarkXidDoneWriteClosed, MarkXidDonePos, OrderInv
<1>b. current \in Int /\ listHead \in Int /\ openName \in Int
  BY DEF File
<1>c. \A q \in Thread : pc[q] \in {"open", "link"} => \A j \in listHead..openName - 1 : j \in File
  BY <1>a DEF OrderInv, File
<1>d. pc[r] \in {"request", "requested"} => xidCount[bid[r]] # 0
  <2>1. pc[r] \in {"request", "requested"} => r \in Pinners(bid[r]) /\ bid[r] \in File
    BY DEF Pinners, Pins
  <2> QED BY <2>1, ZeroCount DEF AccInv
<1>1. CASE CheckpointRequest(r)
  <2>1. \A j \in File : xidCount[j] = 0 => xidCount'[j] = 0
    BY <1>1, <1>d DEF CheckpointRequest
  <2> QED BY <1>1, <1>a, <1>c, <2>1, SameOrder DEF CheckpointRequest
<1>2. CASE CheckpointRequested(r)
  <2>1. \A j \in File : xidCount[j] = 0 => xidCount'[j] = 0
    BY <1>2, <1>d DEF CheckpointRequested, MarkXidDone
  <2>2. /\ UNCHANGED <<current, listHead, openName, files, ckpt, mode>>
        /\ pc[r] = "requested"
        /\ \A q \in Thread : q # r => pc'[q] = pc[q]
        /\ pc'[r] \in {"idle", "drain", "unlog", "commit", "markWait"}
    BY <1>2 DEF CheckpointRequested, MarkXidDone
  <2> QED BY <1>a, <1>c, <2>1, <2>2, SameOrder
<1>3. CASE MarkXidDoneLocked(r)
  <2>1. /\ pc[r] = "markWait" /\ pc' = [pc EXCEPT ![r] = "markWrite"]
        /\ listHead' = IF FirstPending > current THEN current ELSE FirstPending
        /\ UNCHANGED <<current, files, ckpt, mode, xidCount>>
        /\ lockLog = Nobody
    BY <1>3 DEF MarkXidDoneLocked
  <2>2. \A q \in Thread : pc[q] \notin {"open", "link"} /\ pc'[q] \notin {"open", "link"}
    BY <2>1 DEF LogInv, InLog
  <2>3. Checkpoint' = Checkpoint /\ Checkpoint \in Int
    BY <2>1, SameCheckpoint
  <2>4. listHead <= listHead' /\ listHead' \in Int
    <3>1. FirstPending \in listHead..current + 1
      BY FirstPendingIs
    <3> QED BY <1>b, <2>1, <3>1
  <2>5. ckpt[current] <= listHead'
    <3>1. ckpt[current] \in Int /\ ckpt[current] <= listHead
      BY <1>a DEF OrderInv, File
    <3> QED BY <1>b, <2>4, <3>1
  <2> QED BY <1>a, <2>1, <2>2, <2>3, <2>5 DEF OrderInv
<1>4. CASE MarkXidDoneWrite(r)
  <2>1. /\ pc[r] = "markWrite" /\ pc' = [pc EXCEPT ![r] = "markPos"]
        /\ UNCHANGED <<current, listHead, openName, files, mode, xidCount>>
        /\ ckpt' = [ckpt EXCEPT ![current] = listHead] \/ ckpt' = ckpt
    BY <1>4 DEF MarkXidDoneWrite
  <2>2. \A q \in Thread : pc[q] \notin {"open", "link"} /\ pc'[q] \notin {"open", "link"}
    BY <2>1 DEF LogInv, InLog
  <2>3. LastFile = current /\ LastFile' = LastFile
    BY <1>a, <2>1, <2>2, LastFileIs DEF LastFile
  <2>4. /\ ckpt[current] \in Int /\ ckpt[current] <= listHead
        /\ ckpt'[current] = listHead \/ ckpt'[current] = ckpt[current]
    <3>1. ckpt[current] \in Int /\ ckpt[current] <= listHead
      BY <1>a DEF OrderInv, File
    <3>2. ckpt'[current] = listHead \/ ckpt'[current] = ckpt[current]
      BY <2>1
    <3> QED BY <3>1, <3>2
  <2>5. Checkpoint' >= Checkpoint /\ ckpt'[current] <= listHead
    <3>1. Checkpoint = ckpt[current] /\ Checkpoint' = ckpt'[current]
      BY <2>3 DEF Checkpoint
    <3> QED BY <1>b, <2>4, <3>1
  <2> QED BY <1>a, <2>1, <2>2, <2>5 DEF OrderInv
<1>5. CASE MarkXidDonePos(r)
  <2>1. /\ UNCHANGED <<current, listHead, openName, files, ckpt, mode, xidCount>>
        /\ pc[r] = "markPos" /\ pc' = [pc EXCEPT ![r] = resume[r]]
    BY <1>5 DEF MarkXidDonePos
  <2>2. resume[r] \notin {"open", "link"}
    BY <2>1 DEF PcInv, ResetActive
  <2> QED BY <1>a, <2>1, <2>2, SameOrder
<1>6. CASE MarkXidDoneWriteClosed(r)
  BY <1>6, CrashOrderInv DEF MarkXidDoneWriteClosed
<1> QED BY <1>1, <1>2, <1>3, <1>4, <1>5, <1>6 DEF CheckpointStep

LEMMA FlushOrderInv ==
  ASSUME TypeInv, AccInv, OrderInv, FlushStart \/ FlushUnlock
  PROVE  OrderInv' /\ Checkpoint' >= Checkpoint
<1> USE ConstantsAssumption
    DEF TypeInv, TypeOK, Thread, threadVars, lockVars, listVars, engineVars, diskVars, endVars
<1>1. CASE FlushStart
  BY <1>1, SameOrder DEF FlushStart, OrderInv
<1>2. CASE FlushUnlock
  BY <1>2, SameOrder DEF FlushUnlock, OrderInv
<1> QED BY <1>1, <1>2

LEMMA EngineOrderInv ==
  ASSUME TypeInv, AccInv, OrderInv, NEW f \in File,
         EngineNotify(f) \/ BackgroundProcess(f) \/ PurgeLog(f)
  PROVE  OrderInv' /\ Checkpoint' >= Checkpoint
<1> USE ConstantsAssumption
    DEF TypeInv, TypeOK, Thread, threadVars, lockVars, listVars, engineVars, diskVars, endVars
<1>1. CASE EngineNotify(f)
  BY <1>1, SameOrder DEF EngineNotify
<1>2. CASE BackgroundProcess(f)
  <2>1. /\ UNCHANGED <<current, listHead, openName, files, ckpt, mode>>
        /\ pc[Background] = "idle" /\ f \in notified
        /\ \A r \in Thread : r # Background => pc'[r] = pc[r]
        /\ pc'[Background] \in {"idle", "markWait"}
        /\ xidCount' = [xidCount EXCEPT ![f] = @ - 1]
    BY <1>2 DEF BackgroundProcess, MarkXidDone
  <2>2. xidCount[f] # 0
    <3>1. f \in Asked(f)
      BY <2>1 DEF Asked
    <3> QED BY <3>1, ZeroCount DEF AccInv
  <2>3. \A j \in File : xidCount[j] = 0 => xidCount'[j] = 0
    BY <2>1, <2>2
  <2>4. mode # "aborted"
    BY <2>1 DEF OrderInv
  <2>5. \A q \in Thread : pc[q] \in {"open", "link"} => \A j \in listHead..openName - 1 : j \in File
    BY <2>4 DEF OrderInv, File
  <2> QED BY <2>1, <2>3, <2>4, <2>5, SameOrder
<1>3. CASE PurgeLog(f)
  <2>1. /\ mode # "aborted" /\ f # LastFile /\ files' = files \ {f} /\ f \notin listHead..current
        /\ UNCHANGED <<pc, current, listHead, openName, ckpt, mode, xidCount>>
    BY <1>3 DEF PurgeLog
  <2>2. /\ LastFile \in files /\ \A g \in files : g <= LastFile
        /\ files' \in SUBSET File /\ LastFile \in files' /\ Checkpoint \in Int
    BY <2>1, LastFileMax, CheckpointType DEF RoomInv
  <2>3. LastFile' = LastFile
    <3>1. \A g \in files' : g <= LastFile
      BY <2>1, <2>2
    <3> QED BY <2>2, <3>1, MaxIs DEF LastFile
  <2>4. Checkpoint' >= Checkpoint
    <3>1. Checkpoint' = Checkpoint
      BY <2>1, <2>3 DEF Checkpoint
    <3> QED BY <2>2, <3>1
  <2>5. current \in files'
    <3>1. current \in listHead..current
      BY DEF File
    <3> QED BY <2>1, <3>1 DEF OrderInv
  <2>6. \A r \in Thread : pc[r] = "link" => current + 1 \in files'
    <3> SUFFICES ASSUME NEW r \in Thread, pc[r] = "link" PROVE current + 1 \in files'
      OBVIOUS
    <3>1. LastFile = current + 1
      BY <2>1, LastFileIs
    <3> QED BY <2>2, <3>1
  <2> QED BY <2>1, <2>4, <2>5, <2>6 DEF OrderInv
<1> QED BY <1>1, <1>2, <1>3

LEMMA ResetOrderInv ==
  ASSUME TypeInv, AccInv, OrderInv, ResetStep
  PROVE  OrderInv' /\ Checkpoint' >= Checkpoint
<1> USE ConstantsAssumption
    DEF TypeInv, TypeOK, Thread, threadVars, lockVars, listVars, engineVars, diskVars, endVars
<1>1. CASE ResetStart
  BY <1>1, SameOrder DEF ResetStart, OrderInv
<1>2. CASE ResetNoWaiters
  BY <1>2, SameOrder DEF ResetNoWaiters, OrderInv
<1>3. CASE ResetLock
  BY <1>3, SameOrder DEF ResetLock, OrderInv
<1>4. CASE ResetChainAbs
  BY <1>4, SameOrder DEF ResetChainAbs, OrderInv
<1>5. CASE ResetChainCo
  <2>1. /\ UNCHANGED <<current, listHead, openName, files, ckpt, mode>>
        /\ pc[Reset] = "wantCo" /\ pc' = [pc EXCEPT ![Reset] = "request"]
    BY <1>5 DEF ResetChainCo
  <2>2. mode # "aborted" /\ \A q \in Thread : pc[q] \notin {"open", "link"}
    BY <2>1 DEF OrderInv, LogInv, InLog
  <2> QED BY <2>1, <2>2, SameOrder
<1>6. CASE ResetReopen
  <2>1. /\ pc[Reset] = "drain" /\ pc' = [pc EXCEPT ![Reset] = "done"]
        /\ current' = current + 1 /\ listHead' = current + 1
        /\ files' = {current + 1} /\ ckpt' = [ckpt EXCEPT ![current + 1] = current + 1]
        /\ UNCHANGED mode
    BY <1>6 DEF ResetReopen, endVars
  <2>2. mode # "aborted" /\ \A q \in Thread : pc[q] \notin {"open", "link"} /\ pc'[q] \notin {"open", "link"}
    BY <2>1 DEF OrderInv, LogInv, InLog
  <2>3. LastFile = current
    BY <2>2, LastFileIs
  <2>4. current + 1 \in File /\ current \in Int /\ listHead \in Int /\ listHead <= current
    BY <2>1 DEF PcInv, ResetActive, RoomInv, File
  <2>5. LastFile' = current + 1
    BY <2>1 DEF LastFile
  <2>6. Checkpoint' = current + 1 /\ ckpt'[current + 1] = current + 1
    BY <2>1, <2>4, <2>5 DEF Checkpoint
  <2>7. Checkpoint <= listHead /\ Checkpoint \in Int
    BY <2>2, <2>3, CheckpointType DEF Checkpoint, OrderInv, File
  <2>8. Checkpoint' >= Checkpoint
    BY <2>4, <2>6, <2>7
  <2> QED BY <2>1, <2>2, <2>4, <2>6, <2>8 DEF OrderInv
<1> QED BY <1>1, <1>2, <1>3, <1>4, <1>5, <1>6 DEF ResetStep

\* The invariant is inductive, and no step moves the checkpoint back.
LEMMA NextOrderInv ==
  TypeInv /\ AccInv /\ OrderInv /\ [Next]_vars => OrderInv' /\ Checkpoint' >= Checkpoint
<1> SUFFICES ASSUME TypeInv, AccInv, OrderInv, [Next]_vars
             PROVE  OrderInv' /\ Checkpoint' >= Checkpoint
  OBVIOUS
<1>1. CASE ServerStep
  BY <1>1, CommitOrderInv, RotateOrderInv, CheckpointOrderInv, FlushOrderInv, EngineOrderInv,
     ResetOrderInv DEF ServerStep
<1>2. CASE RecoverAbort \/ CrashRecover
  BY <1>2, CrashOrderInv DEF RecoverAbort
<1>3. CASE UNCHANGED vars
  BY <1>3, SameOrder DEF vars, threadVars, listVars, diskVars, endVars
<1> QED BY <1>1, <1>2, <1>3 DEF Next, Idle

\* Binlog_checkpoint events are logged in order: no step, a crash included,
\* makes the last checkpoint event name an earlier file than before, so that
\* recover() may take the last event it finds (mark_xid_done() chains
\* LOCK_log and LOCK_xid_list for this).
THEOREM CheckpointInOrderHolds == Spec => CheckpointInOrder
<1>1. Init => TypeInv /\ AccInv /\ PreparedInv /\ OrderInv
  <2>1. Init => OrderInv
    BY ConstantsAssumption DEF Init, OrderInv, File, Thread
  <2> QED BY <2>1, InitTypeInv, InitAcc, InitPrepared
<1>2. TypeInv /\ AccInv /\ PreparedInv /\ OrderInv /\ [Next]_vars
        => (TypeInv /\ AccInv /\ PreparedInv /\ OrderInv)' /\ [Checkpoint' >= Checkpoint]_vars
  BY NextTypeInv, NextAcc, NextPrepared, NextOrderInv
<1>3. Spec => [][Checkpoint' >= Checkpoint]_vars
  BY <1>1, <1>2, PTL DEF Spec
<1> QED BY <1>3 DEF CheckpointInOrder, Checkpoint
=============================================================================
