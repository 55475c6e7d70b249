----------------------- MODULE BinlogCheckpointProofs -----------------------
(***************************************************************************)
(* Theorems about BinlogCheckpoint, for every set of transactions, engines *)
(* and bounds.                                                             *)
(***************************************************************************)
EXTENDS BinlogCheckpoint, FiniteSetTheorems, WellFoundedInduction, TLAPS

-----------------------------------------------------------------------------
(* Natural numbers and the binlog_xid_count_list.                          *)

\* Every non-empty set of natural numbers has a smallest element.
LEMMA NatMin ==
  ASSUME NEW S \in SUBSET Nat, S # {}
  PROVE  \E m \in S : \A n \in S : m <= n
<1> DEFINE R == OpToRel(<, Nat)
<1>1. IsWellFoundedOn(R, Nat)
  BY NatLessThanWellFounded
<1>2. PICK x \in S : \A y \in S : ~ (<<y, x>> \in R)
  <2> HIDE DEF R
  <2> QED BY <1>1, WFMin
<1>3. \A y \in S : y < x => <<y, x>> \in R
  BY DEF OpToRel
<1>4. \A y \in S : ~ (y < x)
  <2> HIDE DEF R
  <2> QED BY <1>2, <1>3, Zenon
<1> HIDE DEF R
<1> QED BY <1>4

\* A non-empty set of binlog files has a last one.
LEMMA FileMax ==
  ASSUME NEW S \in SUBSET File, S # {}
  PROVE  \E m \in S : \A n \in S : n <= m
<1> DEFINE T == {MaxFile - n : n \in S}
<1>1. MaxFile \in Nat
  BY ConstantsAssumption
<1>2. T \in SUBSET Nat
  <2>1. \A n \in S : MaxFile - n \in Nat
    BY <1>1 DEF File
  <2> QED BY <2>1
<1>6. T # {}
  OBVIOUS
<1>3. PICK x \in T : \A y \in T : x <= y
  <2> HIDE DEF T
  <2> QED BY <1>2, <1>6, NatMin
<1>4. PICK m \in S : x = MaxFile - m
  BY <1>3
<1>5. \A n \in S : MaxFile - m <= MaxFile - n
  BY <1>3, <1>4
<1> QED BY <1>1, <1>5 DEF File

\* LastFile is the largest file of the index.
LEMMA LastFileMax ==
  ASSUME files \in SUBSET File, files # {}
  PROVE  LastFile \in files /\ \A g \in files : g <= LastFile
<1>1. \E f \in files : \A g \in files : g <= f
  BY FileMax
<1> QED BY <1>1 DEF LastFile

\* What the traversals of binlog_xid_count_list in open() and mark_xid_done()
\* find: the first entry from the head with a count, or the end of the list.
LEMMA FirstPendingIs ==
  ASSUME current \in File, listHead \in 1..current
  PROVE  /\ FirstPending \in listHead..current + 1
         /\ FirstPending = current + 1 \/ xidCount[FirstPending] # 0
         /\ \A j \in listHead..FirstPending - 1 : xidCount[j] = 0
<1> DEFINE S == {i \in listHead..current + 1 : i = current + 1 \/ xidCount[i] # 0}
<1>1. current \in Nat /\ listHead \in Nat /\ listHead <= current
  BY ConstantsAssumption DEF File
<1>2. S \in SUBSET Nat /\ current + 1 \in S
  BY <1>1
<1>3. PICK m \in S : \A n \in S : m <= n
  <2> HIDE DEF S
  <2> QED BY <1>2, NatMin
<1>4. \A j \in listHead..m - 1 : xidCount[j] = 0
  <2> SUFFICES ASSUME NEW j \in listHead..m - 1, xidCount[j] # 0
               PROVE  FALSE
    OBVIOUS
  <2>1. j \in listHead..current + 1 /\ j < m
    BY <1>1, <1>3
  <2> QED BY <1>1, <1>3, <2>1
<1>5. /\ m \in listHead..current + 1
      /\ m = current + 1 \/ xidCount[m] # 0
      /\ \A j \in listHead..m - 1 : xidCount[j] = 0
  BY <1>3, <1>4
<1> QED BY <1>5 DEF FirstPending

-----------------------------------------------------------------------------
(* The type invariant.  It needs to know which threads run which code, who *)
(* holds LOCK_log, and that there is room for the next file.               *)

TrxPc == {"prepared", "queued", "log", "rotate", "open", "link", "rotated", "abs",
          "co", "busyWait", "request", "requested", "commit", "unlog", "markWait",
          "markWrite", "markPos", "done", "down"}
FlushPc == {"idle", "log", "rotate", "open", "link", "rotated", "request",
            "requested", "markWait", "markWrite", "markPos", "down"}
ResetActive == {"pending", "wantLog", "wantAbs", "wantCo", "request", "requested",
                "drain"}
BackgroundPc == {"idle", "markWait", "markWrite", "markPos", "down"}

\* Each thread is in its own code, and mark_xid_done() returns there.
PcInv ==
  /\ \A t \in Trx : pc[t] \in TrxPc /\ resume[t] \in {"done", "commit", "unlog"}
  /\ pc[Flush] \in FlushPc
  /\ pc[Flush] \in {"markWait", "markWrite", "markPos"} => resume[Flush] = "idle"
  /\ pc[Background] \in BackgroundPc
  /\ pc[Background] \in {"markWait", "markWrite", "markPos"} => resume[Background] = "idle"
  /\ pc[Reset] \in ResetActive \cup {"idle", "done", "down"}
  /\ pc[Reset] \in ResetActive => resetPending /\ "reset" \in Commands

\* r is where it holds LOCK_log.
InLog(r) ==
  \/ pc[r] \in {"log", "rotate", "open", "link", "rotated", "markWrite", "markPos", "wantAbs",
                "wantCo", "drain"}
  \/ r = Reset /\ pc[r] \in {"request", "requested"}

LogInv == \A r \in Thread : InLog(r) => lockLog = r

RoomInv ==
  /\ \A r \in Thread : pc[r] \in {"rotate", "open", "link"} => current < FileLimit
  /\ "reset" \in Commands /\ pc[Reset] \notin {"done", "down"} => current < MaxFile
  /\ files # {}

TypeInv == TypeOK /\ PcInv /\ LogInv /\ RoomInv

LEMMA InitTypeInv == Init => TypeInv
<1> SUFFICES ASSUME Init PROVE TypeInv
  OBVIOUS
<1>1. TypeOK
  <2> USE ConstantsAssumption DEF Init, File, Thread
  <2>1. pc \in [Thread -> PcValues] /\ resume \in [Thread -> PcValues]
    BY DEF PcValues
  <2>2. /\ bid \in [Thread -> File] /\ group \in [Trx -> SUBSET Trx]
        /\ checkPurge \in [Thread -> BOOLEAN]
    OBVIOUS
  <2>3. /\ current \in File /\ listHead \in 1..current /\ openName \in File
        /\ xidCount \in [File -> Int]
    OBVIOUS
  <2>4. /\ snapshot \in [File -> SUBSET Trx] /\ ckpt \in [File -> File]
        /\ xidFile \in [Trx -> File \cup {0}]
    OBVIOUS
  <2>5. crashes \in 0..MaxCrash /\ files \subseteq File
    OBVIOUS
  <2> QED BY <2>1, <2>2, <2>3, <2>4, <2>5 DEF TypeOK
<1>2. PcInv
  BY ConstantsAssumption DEF Init, PcInv, TrxPc, FlushPc, ResetActive, BackgroundPc, Thread
<1>3. LogInv
  BY DEF Init, LogInv, InLog
<1>4. RoomInv
  BY ConstantsAssumption DEF Init, RoomInv, FileLimit, Thread
<1> QED BY <1>1, <1>2, <1>3, <1>4 DEF TypeInv

LEMMA LeaderWriteTypeInv ==
  ASSUME TypeInv, NEW l \in Trx, NEW G \in SUBSET Trx, NEW E \in SUBSET G,
         NEW W \in SUBSET G, LeaderWrite(l, G, E, W)
  PROVE  TypeInv'
<1> USE ConstantsAssumption DEF TypeInv
<1> DEFINE n == Cardinality({t \in G : NeedUnlog(t)})
<1>1. n \in Nat
  <2>1. IsFiniteSet({t \in G : NeedUnlog(t)})
    BY FS_Subset
  <2> QED BY <2>1, FS_CardinalityType
<1>2. xidCount' = [xidCount EXCEPT ![current] = @ + n]
  BY DEF LeaderWrite
<1> HIDE DEF n
<1> USE DEF LeaderWrite, TypeOK, Thread, engineVars
<1>3. TypeOK'
  <2>1. (pc \in [Thread -> PcValues] /\ bid \in [Thread -> File])'
    BY DEF PcValues
  <2>2. (xidCount \in [File -> Int] /\ group \in [Trx -> SUBSET Trx])'
    BY <1>1, <1>2
  <2>3. (xidFile \in [Trx -> File \cup {0}] /\ failed \subseteq Trx)'
    OBVIOUS
  <2> QED BY <2>1, <2>2, <2>3
<1>4. PcInv'
  BY DEF PcInv, TrxPc, FlushPc, ResetActive, BackgroundPc
<1>5. LogInv'
  BY DEF LogInv, InLog
<1>6. RoomInv'
  BY DEF RoomInv, FileLimit
<1> QED BY <1>3, <1>4, <1>5, <1>6

LEMMA LeaderSkipTypeInv ==
  ASSUME TypeInv, NEW l \in Trx, NEW G \in SUBSET Trx, LeaderSkip(l, G)
  PROVE  TypeInv'
<1> USE ConstantsAssumption
    DEF TypeInv, TypeOK, Thread, LeaderSkip, listVars, engineVars, diskVars, endVars
<1>1. TypeOK'
  <2>1. (pc \in [Thread -> PcValues] /\ bid \in [Thread -> File])'
    BY DEF PcValues
  <2>2. (group \in [Trx -> SUBSET Trx])'
    OBVIOUS
  <2> QED BY <2>1, <2>2
<1>2. PcInv'
  BY DEF PcInv, TrxPc, FlushPc, ResetActive, BackgroundPc
<1>3. LogInv'
  BY DEF LogInv, InLog
<1>4. RoomInv'
  BY DEF RoomInv, FileLimit
<1> QED BY <1>1, <1>2, <1>3, <1>4

LEMMA CommitTypeInv ==
  ASSUME TypeInv, NEW t \in Trx, CommitStep(t)
  PROVE  TypeInv'
<1> USE ConstantsAssumption
    DEF TypeInv, TypeOK, Thread, threadVars, lockVars, listVars, engineVars, diskVars, endVars
<1>1. CASE \E G \in SUBSET Trx : \E E, W \in SUBSET G : LeaderWrite(t, G, E, W)
  BY <1>1, LeaderWriteTypeInv
<1>2. CASE LeaderSync(t)
  <2>1. TypeOK'
    BY <1>2 DEF LeaderSync, PcValues
  <2>2. PcInv'
    BY <1>2 DEF LeaderSync, PcInv, TrxPc, FlushPc, ResetActive, BackgroundPc
  <2>3. LogInv'
    BY <1>2 DEF LeaderSync, LogInv, InLog
  <2>4. RoomInv'
    BY <1>2 DEF LeaderSync, RoomInv, FileLimit
  <2> QED BY <2>1, <2>2, <2>3, <2>4
<1>3. CASE LeaderOrder(t)
  <2>1. TypeOK'
    BY <1>3 DEF LeaderOrder, PcValues
  <2>2. PcInv'
    BY <1>3 DEF LeaderOrder, PcInv, TrxPc, FlushPc, ResetActive, BackgroundPc
  <2>3. LogInv'
    BY <1>3 DEF LeaderOrder, LogInv, InLog
  <2>4. RoomInv'
    BY <1>3 DEF LeaderOrder, RoomInv, FileLimit
  <2> QED BY <2>1, <2>2, <2>3, <2>4
<1>4. CASE LeaderCommitOrdered(t)
  <2>1. TypeOK'
    BY <1>4 DEF LeaderCommitOrdered, AfterOrder, PcValues
  <2>2. PcInv'
    BY <1>4 DEF LeaderCommitOrdered, AfterOrder, PcInv, TrxPc, FlushPc, ResetActive, BackgroundPc
  <2>3. LogInv'
    BY <1>4 DEF LeaderCommitOrdered, AfterOrder, LogInv, InLog
  <2>4. RoomInv'
    BY <1>4 DEF LeaderCommitOrdered, AfterOrder, RoomInv, FileLimit
  <2> QED BY <2>1, <2>2, <2>3, <2>4
<1>5. CASE LeaderWaitBusy(t)
  <2>1. TypeOK'
    BY <1>5 DEF LeaderWaitBusy, PcValues
  <2>2. PcInv'
    BY <1>5 DEF LeaderWaitBusy, PcInv, TrxPc, FlushPc, ResetActive, BackgroundPc
  <2>3. LogInv'
    BY <1>5 DEF LeaderWaitBusy, LogInv, InLog
  <2>4. RoomInv'
    BY <1>5 DEF LeaderWaitBusy, RoomInv, FileLimit
  <2> QED BY <2>1, <2>2, <2>3, <2>4
<1>6. CASE LeaderOwnCommitOrdered(t)
  <2>1. TypeOK'
    BY <1>6 DEF LeaderOwnCommitOrdered, OwnCommitOrdered, AfterOrder, PcValues
  <2>2. PcInv'
    BY <1>6 DEF LeaderOwnCommitOrdered, OwnCommitOrdered, AfterOrder, PcInv, TrxPc, FlushPc, ResetActive, BackgroundPc
  <2>3. LogInv'
    BY <1>6 DEF LeaderOwnCommitOrdered, OwnCommitOrdered, AfterOrder, LogInv, InLog
  <2>4. RoomInv'
    BY <1>6 DEF LeaderOwnCommitOrdered, OwnCommitOrdered, AfterOrder, RoomInv, FileLimit
  <2> QED BY <2>1, <2>2, <2>3, <2>4
<1>7. CASE \E l \in Trx : FollowerOwnCommitOrdered(t, l)
  <2>1. TypeOK'
    BY <1>7, SMTT(30) DEF FollowerOwnCommitOrdered, OwnCommitOrdered, AfterOrder, PcValues
  <2>2. PcInv'
    BY <1>7 DEF FollowerOwnCommitOrdered, OwnCommitOrdered, AfterOrder, PcInv, TrxPc, FlushPc, ResetActive, BackgroundPc
  <2>3. LogInv'
    BY <1>7 DEF FollowerOwnCommitOrdered, OwnCommitOrdered, AfterOrder, LogInv, InLog
  <2>4. RoomInv'
    BY <1>7, SMTT(30) DEF FollowerOwnCommitOrdered, OwnCommitOrdered, AfterOrder, RoomInv, FileLimit
  <2> QED BY <2>1, <2>2, <2>3, <2>4
<1>8. CASE EngineCommit(t)
  <2>1. TypeOK'
    BY <1>8 DEF EngineCommit, PcValues
  <2>2. PcInv'
    BY <1>8 DEF EngineCommit, PcInv, TrxPc, FlushPc, ResetActive, BackgroundPc
  <2>3. LogInv'
    BY <1>8 DEF EngineCommit, LogInv, InLog
  <2>4. RoomInv'
    BY <1>8 DEF EngineCommit, RoomInv, FileLimit
  <2> QED BY <2>1, <2>2, <2>3, <2>4
<1>9. CASE Unlog(t)
  <2>1. PICK next \in {"done", "markWait"} : pc' = [pc EXCEPT ![t] = next]
    BY <1>9 DEF Unlog, MarkXidDone
  <2>2. resume' = resume \/ resume' = [resume EXCEPT ![t] = "done"]
    BY <1>9 DEF Unlog, MarkXidDone
  <2>3. xidCount' \in [File -> Int]
    BY <1>9 DEF Unlog, MarkXidDone
  <2>4. UNCHANGED <<bid, group, checkPurge, lockVars, current, listHead, openName,
                    resetPending, engineVars, diskVars, endVars>>
    BY <1>9 DEF Unlog
  <2>5. TypeOK'
    <3>1. (pc \in [Thread -> PcValues] /\ resume \in [Thread -> PcValues])'
      BY <2>1, <2>2, ZenonT(30) DEF PcValues
    <3> QED BY <2>3, <2>4, <3>1, SMTT(30)
  <2>6. PcInv'
    BY <1>9, <2>1, <2>2, <2>3 DEF Unlog, PcInv, TrxPc, FlushPc, ResetActive, BackgroundPc
  <2>7. LogInv'
    BY <1>9, <2>1, <2>2, <2>3 DEF Unlog, LogInv, InLog
  <2>8. RoomInv'
    BY <1>9, <2>1, <2>2, <2>3 DEF Unlog, RoomInv, FileLimit
  <2> QED BY <2>5, <2>6, <2>7, <2>8
<1>10. CASE \E G \in SUBSET Trx : LeaderSkip(t, G)
  BY <1>10, LeaderSkipTypeInv
<1> QED BY <1>1, <1>2, <1>3, <1>4, <1>5, <1>6, <1>7, <1>8, <1>9, <1>10 DEF CommitStep

LEMMA RotateTypeInv ==
  ASSUME TypeInv, NEW r \in Thread, RotateStep(r)
  PROVE  TypeInv'
<1> USE ConstantsAssumption
    DEF TypeInv, TypeOK, Thread, threadVars, lockVars, listVars, engineVars, diskVars, endVars
<1>a. FirstPending \in listHead..current + 1
  BY FirstPendingIs
<1>b. pc[r] \in {"rotate", "open", "link"} => current + 1 \in File
  BY SMTT(30) DEF RoomInv, FileLimit, File
<1>1. CASE RotateBegin(r)
  <2>1. TypeOK'
    BY <1>1 DEF RotateBegin, PcValues
  <2>2. PcInv'
    BY <1>1 DEF RotateBegin, PcInv, TrxPc, FlushPc, ResetActive, BackgroundPc
  <2>3. LogInv'
    BY <1>1 DEF RotateBegin, LogInv, InLog
  <2>4. RoomInv'
    BY <1>1 DEF RotateBegin, RoomInv, FileLimit
  <2> QED BY <2>1, <2>2, <2>3, <2>4
<1>2. CASE RotateFail(r)
  <2>1. TypeOK'
    BY <1>2 DEF RotateFail, PcValues
  <2>2. PcInv'
    BY <1>2 DEF RotateFail, PcInv, TrxPc, FlushPc, ResetActive, BackgroundPc
  <2>3. LogInv'
    BY <1>2 DEF RotateFail, LogInv, InLog
  <2>4. RoomInv'
    BY <1>2 DEF RotateFail, RoomInv, FileLimit
  <2> QED BY <2>1, <2>2, <2>3, <2>4
<1>3. CASE OpenScan(r)
  <2>1. TypeOK'
    <3>1. openName' \in File
      BY <1>3, <1>a, <1>b DEF OpenScan, File
    <3> QED BY <1>3, <3>1 DEF OpenScan, PcValues
  <2>2. PcInv'
    BY <1>3 DEF OpenScan, File, PcInv, TrxPc, FlushPc, ResetActive, BackgroundPc
  <2>3. LogInv'
    BY <1>3 DEF OpenScan, File, LogInv, InLog
  <2>4. RoomInv'
    BY <1>3, <1>a, <1>b DEF OpenScan, File, RoomInv, FileLimit
  <2> QED BY <2>1, <2>2, <2>3, <2>4
<1>4. CASE OpenFile(r)
  <2>1. TypeOK'
    BY <1>4, <1>b, ZenonT(30) DEF OpenFile, File, PcValues
  <2>2. PcInv'
    BY <1>4 DEF OpenFile, File, PcInv, TrxPc, FlushPc, ResetActive, BackgroundPc
  <2>3. LogInv'
    BY <1>4 DEF OpenFile, File, LogInv, InLog
  <2>4. RoomInv'
    BY <1>4, <1>b DEF OpenFile, File, RoomInv, FileLimit
  <2> QED BY <2>1, <2>2, <2>3, <2>4
<1>5. CASE OpenLink(r)
  <2>1. TypeOK'
    <3>1. (current \in File /\ listHead \in 1..current)'
      BY <1>5, <1>a, <1>b DEF OpenLink, File
    <3> QED BY <1>5, <3>1 DEF OpenLink, PcValues
  <2>2. PcInv'
    BY <1>5 DEF OpenLink, File, PcInv, TrxPc, FlushPc, ResetActive, BackgroundPc
  <2>3. LogInv'
    BY <1>5 DEF OpenLink, File, LogInv, InLog
  <2>4. RoomInv'
    <3>0. pc[r] = "link" /\ current' = current + 1
      BY <1>5 DEF OpenLink
    <3>1. current \in Nat /\ current < FileLimit
      BY <3>0, SMTT(30) DEF RoomInv, File, FileLimit
    <3>2. \A q \in Thread : pc'[q] \notin {"rotate", "open", "link"}
      BY <1>5 DEF OpenLink, LogInv, InLog
    <3>3. pc[Reset] = pc'[Reset]
      BY <1>5 DEF OpenLink, PcInv, ResetActive
    <3> QED BY <1>5, <3>0, <3>1, <3>2, <3>3 DEF OpenLink, RoomInv, FileLimit
  <2> QED BY <2>1, <2>2, <2>3, <2>4
<1>6. CASE RotateFailClose(r)
  <2>1. TypeOK'
    BY <1>6 DEF RotateFailClose, PcValues
  <2>2. PcInv'
    BY <1>6 DEF RotateFailClose, PcInv, TrxPc, FlushPc, ResetActive, BackgroundPc
  <2>3. LogInv'
    BY <1>6 DEF RotateFailClose, LogInv, InLog
  <2>4. RoomInv'
    BY <1>6 DEF RotateFailClose, RoomInv, FileLimit
  <2> QED BY <2>1, <2>2, <2>3, <2>4
<1> QED BY <1>1, <1>2, <1>3, <1>4, <1>5, <1>6 DEF RotateStep

\* A server that stays down keeps the types.
LEMMA ServerDownTypeInv ==
  ASSUME TypeInv, ServerDown, crashes' \in 0..MaxCrash
  PROVE  TypeInv'
<1> USE ConstantsAssumption
    DEF TypeInv, TypeOK, Thread, ServerDown, lockVars, diskVars
<1>1. TypeOK'
  BY DEF PcValues
<1>2. PcInv'
  BY DEF PcInv, TrxPc, FlushPc, ResetActive, BackgroundPc
<1>3. LogInv'
  BY DEF LogInv, InLog
<1>4. RoomInv'
  BY DEF RoomInv, FileLimit
<1> QED BY <1>1, <1>2, <1>3, <1>4

LEMMA CheckpointTypeInv ==
  ASSUME TypeInv, NEW r \in Thread, CheckpointStep(r)
  PROVE  TypeInv'
<1> USE ConstantsAssumption
    DEF TypeInv, TypeOK, Thread, threadVars, lockVars, listVars, engineVars, diskVars, endVars
<1>a. FirstPending \in listHead..current + 1
  BY FirstPendingIs
<1>1. CASE CheckpointRequest(r)
  <2>1. TypeOK'
    BY <1>1 DEF CheckpointRequest, PcValues
  <2>2. PcInv'
    BY <1>1 DEF CheckpointRequest, PcInv, TrxPc, FlushPc, ResetActive, BackgroundPc
  <2>3. LogInv'
    BY <1>1 DEF CheckpointRequest, LogInv, InLog
  <2>4. RoomInv'
    BY <1>1 DEF CheckpointRequest, RoomInv, FileLimit
  <2> QED BY <2>1, <2>2, <2>3, <2>4
<1>2. CASE CheckpointRequested(r)
  <2> DEFINE next == CASE r = Flush -> "idle" [] r = Reset -> "drain"
                     [] OTHER -> IF r \in failed THEN "unlog" ELSE "commit"
  <2>0. r \in Trx \cup {Flush, Reset} /\ (r = Reset => resetPending)
    BY <1>2 DEF CheckpointRequested, PcInv, BackgroundPc, ResetActive
  <2>1. /\ pc' = [pc EXCEPT ![r] = next] \/ (r # Reset /\ pc' = [pc EXCEPT ![r] = "markWait"])
        /\ resume' = [resume EXCEPT ![r] = next]
    BY <1>2, <2>0 DEF CheckpointRequested, MarkXidDone
  <2>2. /\ r = Flush => next = "idle"
        /\ r = Reset => next = "drain"
        /\ r \in Trx => next \in {"unlog", "commit"}
    OBVIOUS
  <2>3. xidCount' \in [File -> Int] /\ checkPurge' \in [Thread -> BOOLEAN]
    BY <1>2, SMTT(30) DEF CheckpointRequested, MarkXidDone
  <2>4. /\ pc[r] = "requested"
        /\ UNCHANGED <<bid, group, lockVars, current, listHead, openName, resetPending,
                       engineVars, diskVars, endVars>>
    BY <1>2 DEF CheckpointRequested
  <2> HIDE DEF next
  <2>5. TypeOK'
    <3>1. (pc \in [Thread -> PcValues] /\ resume \in [Thread -> PcValues])'
      <4>1. next \in PcValues
        BY <2>0, <2>2 DEF PcValues
      <4>2. "markWait" \in PcValues
        BY DEF PcValues
      <4>3. resume' \in [Thread -> PcValues]
        BY <2>1, <4>1
      <4>4. pc' \in [Thread -> PcValues]
        <5>1. pc \in [Thread -> PcValues]
          OBVIOUS
        <5>2. CASE pc' = [pc EXCEPT ![r] = next]
          BY <4>1, <5>1, <5>2
        <5>3. CASE pc' = [pc EXCEPT ![r] = "markWait"]
          BY <4>2, <5>1, <5>3
        <5> QED BY <2>1, <5>2, <5>3
      <4> QED BY <4>3, <4>4
    <3> QED BY <2>3, <2>4, <3>1, ZenonT(30)
  <2>6. PcInv'
    BY <2>0, <2>1, <2>2, <2>3, <2>4, ZenonT(30) DEF PcInv, TrxPc, FlushPc, ResetActive, BackgroundPc
  <2>7. LogInv'
    BY <2>0, <2>1, <2>2, <2>3, <2>4 DEF LogInv, InLog
  <2>8. RoomInv'
    <3>1. /\ \A q \in Thread : pc'[q] = pc[q] \/ pc'[q] \in {"idle", "drain", "unlog", "commit", "markWait"}
          /\ pc[Reset] \in {"done", "down"} => pc'[Reset] = pc[Reset]
          /\ pc'[Reset] \in {"done", "down"} => pc'[Reset] = pc[Reset]
      BY <2>0, <2>1, <2>2, <2>4
    <3> QED BY <2>4, <3>1 DEF RoomInv, FileLimit
  <2> QED BY <2>5, <2>6, <2>7, <2>8
<1>3. CASE MarkXidDoneLocked(r)
  <2>1. TypeOK'
    <3>1. (listHead \in 1..current)'
      BY <1>3, <1>a DEF MarkXidDoneLocked, File
    <3> QED BY <1>3, <3>1 DEF MarkXidDoneLocked, PcValues
  <2>2. PcInv'
    BY <1>3 DEF MarkXidDoneLocked, File, PcInv, TrxPc, FlushPc, ResetActive, BackgroundPc
  <2>3. LogInv'
    BY <1>3 DEF MarkXidDoneLocked, File, LogInv, InLog
  <2>4. RoomInv'
    BY <1>3, <1>a DEF MarkXidDoneLocked, File, RoomInv, FileLimit
  <2> QED BY <2>1, <2>2, <2>3, <2>4
<1>4. CASE MarkXidDoneWrite(r)
  <2>1. /\ pc[r] = "markWrite" /\ pc' = [pc EXCEPT ![r] = "markPos"]
        /\ UNCHANGED <<resume, bid, group, checkPurge, lockVars, listVars, engineVars,
                       files, xidFile, endVars>>
    BY <1>4 DEF MarkXidDoneWrite
  <2>2. ckpt' \in [File -> File]
    <3>1. listHead \in File
      BY DEF File
    <3>2. ckpt' = [ckpt EXCEPT ![current] = listHead] \/ ckpt' = ckpt
      BY <1>4 DEF MarkXidDoneWrite
    <3> QED BY <3>1, <3>2
  <2>3. r # Reset
    BY <2>1 DEF PcInv, ResetActive
  <2>4. TypeOK'
    BY <2>1, <2>2 DEF PcValues
  <2>5. PcInv'
    BY <2>1, <2>3 DEF PcInv, TrxPc, FlushPc, ResetActive, BackgroundPc
  <2>6. LogInv'
    BY <2>1 DEF LogInv, InLog
  <2>7. RoomInv'
    BY <2>1, <2>3 DEF RoomInv, FileLimit
  <2> QED BY <2>4, <2>5, <2>6, <2>7
<1>5. CASE MarkXidDonePos(r)
  <2>1. /\ \/ r \in Trx /\ resume[r] \in {"done", "commit", "unlog"}
           \/ r \in {Flush, Background} /\ resume[r] = "idle"
        /\ pc' = [pc EXCEPT ![r] = resume[r]]
        /\ lockLog = r /\ lockLog' = Nobody
    <3>1. pc[r] = "markPos" /\ pc' = [pc EXCEPT ![r] = resume[r]] /\ lockLog' = Nobody
      BY <1>5 DEF MarkXidDonePos
    <3>2. lockLog = r
      BY <3>1 DEF LogInv, InLog
    <3>3. r # Reset
      BY <3>1 DEF PcInv, ResetActive
    <3>4. CASE r \in Trx
      BY <3>1, <3>2, <3>4 DEF PcInv
    <3>5. CASE r \in {Flush, Background}
      BY <3>1, <3>2, <3>5 DEF PcInv
    <3> QED BY <3>3, <3>4, <3>5
  <2>3. UNCHANGED <<resume, bid, group, checkPurge, lockAbs, lockCo, busy, listVars,
                    engineVars, diskVars, endVars>>
    BY <1>5 DEF MarkXidDonePos
  <2>5. TypeOK'
    <3>1. pc' \in [Thread -> PcValues]
      BY <2>1 DEF PcValues
    <3> QED BY <2>1, <2>3, <3>1
  <2>6. PcInv'
    BY <2>1, <2>3 DEF PcInv, TrxPc, FlushPc, ResetActive, BackgroundPc
  <2>7. LogInv'
    BY <2>1 DEF LogInv, InLog
  <2>8. RoomInv'
    BY <2>1, <2>3 DEF RoomInv, FileLimit
  <2> QED BY <2>5, <2>6, <2>7, <2>8
<1>6. CASE MarkXidDoneWriteClosed(r)
  BY <1>6, ServerDownTypeInv DEF MarkXidDoneWriteClosed
<1> QED BY <1>1, <1>2, <1>3, <1>4, <1>5, <1>6 DEF CheckpointStep

LEMMA FlushTypeInv ==
  ASSUME TypeInv, FlushStart \/ FlushUnlock
  PROVE  TypeInv'
<1> USE ConstantsAssumption
    DEF TypeInv, TypeOK, Thread, threadVars, lockVars, listVars, engineVars, diskVars, endVars
<1>1. CASE FlushStart
  <2>1. TypeOK'
    BY <1>1 DEF FlushStart, PcValues
  <2>2. PcInv'
    BY <1>1 DEF FlushStart, PcInv, TrxPc, FlushPc, ResetActive, BackgroundPc
  <2>3. LogInv'
    BY <1>1 DEF FlushStart, LogInv, InLog
  <2>4. RoomInv'
    BY <1>1 DEF FlushStart, RoomInv, FileLimit
  <2> QED BY <2>1, <2>2, <2>3, <2>4
<1>2. CASE FlushUnlock
  <2>1. TypeOK'
    BY <1>2 DEF FlushUnlock, PcValues
  <2>2. PcInv'
    BY <1>2 DEF FlushUnlock, PcInv, TrxPc, FlushPc, ResetActive, BackgroundPc
  <2>3. LogInv'
    BY <1>2 DEF FlushUnlock, LogInv, InLog
  <2>4. RoomInv'
    BY <1>2 DEF FlushUnlock, RoomInv, FileLimit
  <2> QED BY <2>1, <2>2, <2>3, <2>4
<1> QED BY <1>1, <1>2

LEMMA EngineTypeInv ==
  ASSUME TypeInv, NEW f \in File, EngineNotify(f) \/ BackgroundProcess(f) \/ PurgeLog(f)
  PROVE  TypeInv'
<1> USE ConstantsAssumption
    DEF TypeInv, TypeOK, Thread, threadVars, lockVars, listVars, engineVars, diskVars, endVars
<1>1. CASE EngineNotify(f)
  <2>1. TypeOK'
    BY <1>1 DEF EngineNotify, PcValues
  <2>2. PcInv'
    BY <1>1 DEF EngineNotify, PcInv, TrxPc, FlushPc, ResetActive, BackgroundPc
  <2>3. LogInv'
    BY <1>1 DEF EngineNotify, LogInv, InLog
  <2>4. RoomInv'
    BY <1>1 DEF EngineNotify, RoomInv, FileLimit
  <2> QED BY <2>1, <2>2, <2>3, <2>4
<1>2. CASE BackgroundProcess(f)
  <2>1. PICK next \in {"idle", "markWait"} : pc' = [pc EXCEPT ![Background] = next]
    BY <1>2 DEF BackgroundProcess, MarkXidDone
  <2>2. resume' = [resume EXCEPT ![Background] = "idle"]
    BY <1>2 DEF BackgroundProcess, MarkXidDone
  <2>3. xidCount' \in [File -> Int] /\ notified' \subseteq File
    BY <1>2 DEF BackgroundProcess, MarkXidDone
  <2>4. UNCHANGED <<bid, group, checkPurge, lockVars, current, listHead, openName,
                    resetPending, requests, snapshot, ordered, durPlain, durCkpt,
                    diskVars, endVars>>
    BY <1>2 DEF BackgroundProcess
  <2>5. TypeOK'
    <3>1. (pc \in [Thread -> PcValues] /\ resume \in [Thread -> PcValues])'
      BY <2>1, <2>2 DEF PcValues
    <3> QED BY <2>3, <2>4, <3>1, SMTT(30)
  <2>6. PcInv'
    BY <2>1, <2>2, <2>3, <2>4 DEF PcInv, TrxPc, FlushPc, ResetActive, BackgroundPc
  <2>7. LogInv'
    BY <2>1, <2>2, <2>3, <2>4 DEF LogInv, InLog
  <2>8. RoomInv'
    BY <2>1, <2>2, <2>3, <2>4 DEF RoomInv, FileLimit
  <2> QED BY <2>5, <2>6, <2>7, <2>8
<1>3. CASE PurgeLog(f)
  <2>1. files' # {}
    BY <1>3, LastFileMax DEF PurgeLog, RoomInv
  <2>2. TypeOK'
    BY <1>3 DEF PurgeLog
  <2>3. PcInv' /\ LogInv'
    BY <1>3 DEF PurgeLog, PcInv, LogInv, InLog
  <2>4. RoomInv'
    BY <1>3, <2>1 DEF PurgeLog, RoomInv, FileLimit
  <2> QED BY <2>2, <2>3, <2>4
<1> QED BY <1>1, <1>2, <1>3

LEMMA ResetTypeInv ==
  ASSUME TypeInv, ResetStep
  PROVE  TypeInv'
<1> USE ConstantsAssumption
    DEF TypeInv, TypeOK, Thread, threadVars, lockVars, listVars, engineVars, diskVars, endVars
<1>1. CASE ResetStart
  <2>1. TypeOK'
    BY <1>1 DEF ResetStart, PcValues
  <2>2. PcInv'
    BY <1>1 DEF ResetStart, PcInv, TrxPc, FlushPc, ResetActive, BackgroundPc
  <2>3. LogInv'
    BY <1>1 DEF ResetStart, LogInv, InLog
  <2>4. RoomInv'
    BY <1>1 DEF ResetStart, RoomInv, FileLimit
  <2> QED BY <2>1, <2>2, <2>3, <2>4
<1>2. CASE ResetNoWaiters
  <2>1. TypeOK'
    BY <1>2 DEF ResetNoWaiters, PcValues
  <2>2. PcInv'
    BY <1>2 DEF ResetNoWaiters, PcInv, TrxPc, FlushPc, ResetActive, BackgroundPc
  <2>3. LogInv'
    BY <1>2 DEF ResetNoWaiters, LogInv, InLog
  <2>4. RoomInv'
    BY <1>2 DEF ResetNoWaiters, RoomInv, FileLimit
  <2> QED BY <2>1, <2>2, <2>3, <2>4
<1>3. CASE ResetLock
  <2>1. TypeOK'
    BY <1>3 DEF ResetLock, PcValues
  <2>2. PcInv'
    BY <1>3 DEF ResetLock, PcInv, TrxPc, FlushPc, ResetActive, BackgroundPc
  <2>3. LogInv'
    BY <1>3 DEF ResetLock, LogInv, InLog
  <2>4. RoomInv'
    BY <1>3 DEF ResetLock, RoomInv, FileLimit
  <2> QED BY <2>1, <2>2, <2>3, <2>4
<1>4. CASE ResetChainAbs
  <2>1. TypeOK'
    BY <1>4 DEF ResetChainAbs, PcValues
  <2>2. PcInv'
    BY <1>4 DEF ResetChainAbs, PcInv, TrxPc, FlushPc, ResetActive, BackgroundPc
  <2>3. LogInv'
    BY <1>4 DEF ResetChainAbs, LogInv, InLog
  <2>4. RoomInv'
    BY <1>4 DEF ResetChainAbs, RoomInv, FileLimit
  <2> QED BY <2>1, <2>2, <2>3, <2>4
<1>5. CASE ResetChainCo
  <2>1. TypeOK'
    BY <1>5 DEF ResetChainCo, PcValues
  <2>2. PcInv'
    BY <1>5 DEF ResetChainCo, PcInv, TrxPc, FlushPc, ResetActive, BackgroundPc
  <2>3. LogInv'
    BY <1>5 DEF ResetChainCo, LogInv, InLog
  <2>4. RoomInv'
    BY <1>5 DEF ResetChainCo, RoomInv, FileLimit
  <2> QED BY <2>1, <2>2, <2>3, <2>4
<1>6. CASE ResetReopen
  <2>1. TypeOK'
    <3>1. current + 1 \in File
      BY <1>6 DEF ResetReopen, PcInv, ResetActive, RoomInv, File
    <3>2. current' \in File /\ files' \subseteq File /\ ckpt' \in [File -> File]
      BY <1>6, <3>1 DEF ResetReopen
    <3>3. listHead' \in 1..current'
      BY <1>6, <3>1 DEF ResetReopen, File
    <3> QED BY <1>6, <3>2, <3>3 DEF ResetReopen, PcValues
  <2>2. PcInv'
    BY <1>6 DEF ResetReopen, PcInv, TrxPc, FlushPc, ResetActive, BackgroundPc
  <2>3. LogInv'
    BY <1>6 DEF ResetReopen, LogInv, InLog
  <2>4. RoomInv'
    <3>1. \A q \in Thread : pc'[q] \notin {"rotate", "open", "link"}
      BY <1>6 DEF ResetReopen, LogInv, InLog
    <3> QED BY <1>6, <3>1 DEF ResetReopen, RoomInv, FileLimit
  <2> QED BY <2>1, <2>2, <2>3, <2>4
<1> QED BY <1>1, <1>2, <1>3, <1>4, <1>5, <1>6 DEF ResetStep

LEMMA CrashTypeInv ==
  ASSUME TypeInv, RecoverAbort \/ CrashRecover
  PROVE  TypeInv'
<1> USE ConstantsAssumption
    DEF TypeInv, TypeOK, Thread, threadVars, lockVars, listVars, engineVars, diskVars, endVars
<1>1. CASE RecoverAbort
  <2>1. crashes' \in 0..MaxCrash
    BY <1>1 DEF RecoverAbort
  <2> QED BY <1>1, <2>1, ServerDownTypeInv DEF RecoverAbort
<1>2. CASE CrashRecover
  <2>1. TypeOK'
    <3>1. LastFile \in File /\ LastFile + 1 \in File
      <4>1. LastFile \in File /\ LastFile < FileLimit
        BY <1>2, LastFileMax DEF CrashRecover, RoomInv
      <4> QED BY <4>1 DEF FileLimit, File
    <3>2. /\ current' \in File /\ files' \subseteq File
          /\ ckpt' \in [File -> File] /\ xidCount' \in [File -> Int]
      BY <1>2, <3>1, SMTT(30) DEF CrashRecover
    <3>5. listHead' \in 1..current'
      BY <1>2, <3>1 DEF CrashRecover, File
    <3>3. pc' \in [Thread -> PcValues]
      BY <1>2 DEF CrashRecover, PcValues
    <3>4. /\ lost' \subseteq Trx /\ durPlain' \subseteq Trx /\ durCkpt' \subseteq Trx
          /\ crashes' \in 0..MaxCrash
      BY <1>2, SMTT(30) DEF CrashRecover
    <3> QED BY <1>2, <3>2, <3>3, <3>4, <3>5 DEF CrashRecover
  <2>2. PcInv'
    BY <1>2, SMTT(30) DEF CrashRecover, PcInv, TrxPc, FlushPc, ResetActive, BackgroundPc
  <2>3. LogInv'
    BY <1>2 DEF CrashRecover, LogInv, InLog
  <2>4. RoomInv'
    <3>1. \A q \in Thread : pc'[q] \notin {"rotate", "open", "link"}
      BY <1>2 DEF CrashRecover
    <3>2. LastFile \in Nat /\ LastFile < FileLimit /\ current' = LastFile + 1
      BY <1>2, LastFileMax DEF CrashRecover, RoomInv, File
    <3>3. pc'[Reset] # "done" => pc[Reset] # "done"
      BY <1>2 DEF CrashRecover
    <3> QED BY <1>2, <3>1, <3>2, <3>3 DEF CrashRecover, RoomInv, FileLimit
  <2> QED BY <2>1, <2>2, <2>3, <2>4
<1> QED BY <1>1, <1>2

\* The type invariant is inductive.
LEMMA NextTypeInv == TypeInv /\ [Next]_vars => TypeInv'
<1> SUFFICES ASSUME TypeInv, [Next]_vars PROVE TypeInv'
  OBVIOUS
<1>1. CASE ServerStep
  BY <1>1, CommitTypeInv, RotateTypeInv, CheckpointTypeInv, FlushTypeInv, EngineTypeInv,
     ResetTypeInv DEF ServerStep
<1>2. CASE RecoverAbort \/ CrashRecover
  BY <1>2, CrashTypeInv
<1>3. CASE UNCHANGED vars
  BY <1>3 DEF TypeInv, TypeOK, PcInv, LogInv, InLog, RoomInv, FileLimit, vars, threadVars,
     lockVars, listVars, engineVars, diskVars, endVars
<1> QED BY <1>1, <1>2, <1>3 DEF Next, Idle

\* Every variable keeps its type: in particular binlog ids stay within the files
\* that exist, the list is never empty (listHead <= current, so mark_xid_done()
\* and open() always leave the entry of the current file), and RESET MASTER
\* and rotation find the file they need.
THEOREM TypeCorrect == Spec => []TypeOK
<1>1. Init => TypeInv
  BY InitTypeInv
<1>2. TypeInv /\ [Next]_vars => TypeInv'
  BY NextTypeInv
<1>3. TypeInv => TypeOK
  BY DEF TypeInv
<1> QED BY <1>1, <1>2, <1>3, PTL DEF Spec
=============================================================================
