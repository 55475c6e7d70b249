---------------------------- MODULE SemiSyncProofs ----------------------------
(***************************************************************************)
(* Theorems about SemiSync, for every number of transactions and slaves    *)
(* and every bound.                                                        *)
(***************************************************************************)
EXTENDS SemiSync, FiniteSetTheorems, TLAPS

-----------------------------------------------------------------------------
(* Types                                                                   *)

Connected == {d \in Slaves : dump[d] # "off"}

\* Types without the count of the slaves.
BasicType ==
  /\ enabled \in BOOLEAN /\ on \in BOOLEAN /\ waitInited \in BOOLEAN
  /\ active \subseteq Trx /\ reported \subseteq Trx
  /\ commitPos \in Positions \cup {Unset} /\ replyPos \in Positions \cup {Unset}
  /\ waitPos \in Positions
  /\ pc \in [Trx -> {"start", "written", "wait", "woken", "timedout", "done"}]
  /\ killed \subseteq Trx /\ answer \in [Trx -> {"none", "yes", "no"}]
  /\ written \in Positions /\ crashed \in BOOLEAN
  /\ dump \in [Slaves -> {"off", "starting", "idle", "reading", "reply", "broadcast"}]
  /\ sent \in [Slaves -> Positions] /\ received \in [Slaves -> Positions]
  /\ needReply \in [Slaves -> BOOLEAN]
  /\ toggles \in 0..MaxToggles /\ disconnects \in 0..MaxDisconnects

\* rpl_semi_sync_master_clients is the number of connected slaves.
Counted == clients = Cardinality(Connected)

LEMMA TypeOKParts == TypeOK <=> BasicType /\ Counted
  BY DEF TypeOK, BasicType, Counted, Connected

\* switch_off() keeps the types.
LEMMA SwitchOffType ==
  ASSUME NEW f \in [Trx -> {"start", "written", "wait", "woken", "timedout", "done"}],
         SwitchOff(f)
  PROVE  /\ on' \in BOOLEAN /\ active' \subseteq Trx /\ waitInited' \in BOOLEAN
         /\ replyPos' \in Positions \cup {Unset}
         /\ pc' \in [Trx -> {"start", "written", "wait", "woken", "timedout", "done"}]
  BY DEF SwitchOff, WakeAll

\* reportReplyBinlog() keeps the types.
LEMMA ReportReplyType ==
  ASSUME BasicType, NEW d \in Slaves, NEW p \in Positions, ReportReplyBinlog(d, p)
  PROVE  /\ on' \in BOOLEAN /\ active' \subseteq Trx /\ waitInited' \in BOOLEAN
         /\ replyPos' \in Positions \cup {Unset}
         /\ dump' \in [Slaves -> {"off", "starting", "idle", "reading", "reply", "broadcast"}]
         /\ dump' = [dump EXCEPT ![d] = dump'[d]] /\ dump'[d] # "off"
  BY DEF BasicType, ReportReplyBinlog, TrySwitchOn, ClearActiveTranxNodes, SomeoneWaits

LEMMA BasicTypeInit == Init => BasicType
<1>1. 0 \in Positions /\ 0 \in 0..MaxToggles /\ 0 \in 0..MaxDisconnects
  BY SemiSyncAssumption DEF Positions
<1> SUFFICES ASSUME Init PROVE BasicType
  OBVIOUS
<1>2. /\ enabled \in BOOLEAN /\ on \in BOOLEAN /\ waitInited \in BOOLEAN
      /\ crashed \in BOOLEAN /\ active = {} /\ reported = {} /\ killed = {}
      /\ commitPos = Unset /\ replyPos = Unset
  BY DEF Init
<1>3. /\ pc \in [Trx -> {"start", "written", "wait", "woken", "timedout", "done"}]
      /\ answer \in [Trx -> {"none", "yes", "no"}]
      /\ dump \in [Slaves -> {"off", "starting", "idle", "reading", "reply", "broadcast"}]
      /\ needReply \in [Slaves -> BOOLEAN]
  BY DEF Init
<1>4. /\ sent \in [Slaves -> Positions] /\ received \in [Slaves -> Positions]
      /\ waitPos \in Positions /\ written \in Positions
      /\ toggles \in 0..MaxToggles /\ disconnects \in 0..MaxDisconnects
  BY <1>1 DEF Init
<1> QED BY <1>2, <1>3, <1>4 DEF BasicType

LEMMA BasicTypeStep == BasicType /\ [Next]_vars => BasicType'
<1> SUFFICES ASSUME BasicType, [Next]_vars PROVE BasicType'
  OBVIOUS
<1> USE DEF semiVars, sessionVars, slaveVars, boundVars
<1>1. CASE UNCHANGED vars
  BY <1>1 DEF vars, BasicType
<1>2. ASSUME NEW t \in Trx, StopWaiting(t), UNCHANGED crashed PROVE BasicType'
  BY <1>2 DEF StopWaiting, Leave, BasicType
<1>3. ASSUME NEW t \in Trx, WaitForReply(t), UNCHANGED crashed PROVE BasicType'
  BY <1>3 DEF WaitForReply, BasicType, Trx, Positions
<1>4. ASSUME NEW t \in Trx, NoSemiSync(t), UNCHANGED crashed PROVE BasicType'
  BY <1>4 DEF NoSemiSync, BasicType
<1>5. ASSUME NEW t \in Trx, WriteTranxInBinlog(t), UNCHANGED crashed PROVE BasicType'
  <2> DEFINE f == [pc EXCEPT ![t] = "written"]
  <2>1. f \in [Trx -> {"start", "written", "wait", "woken", "timedout", "done"}]
    BY DEF BasicType
  <2>2. /\ written' \in Positions /\ commitPos' \in Positions \cup {Unset}
        /\ reported' \subseteq Trx
        /\ UNCHANGED <<enabled, waitPos, killed, answer, slaveVars, boundVars>>
    BY <1>5 DEF WriteTranxInBinlog, BasicType, Trx, Positions
  <2>3. CASE SwitchOff(f)
    BY <1>5, <2>1, <2>2, <2>3, SwitchOffType DEF BasicType
  <2>4. CASE /\ active' = active \cup {t} /\ pc' = f
             /\ UNCHANGED <<on, replyPos, waitInited>>
    BY <1>5, <2>1, <2>2, <2>4 DEF BasicType
  <2>5. CASE pc' = f /\ UNCHANGED <<on, active, replyPos, waitInited>>
    BY <1>5, <2>1, <2>2, <2>5 DEF BasicType
  <2> QED BY <1>5, <2>3, <2>4, <2>5 DEF WriteTranxInBinlog, InsertTranxNode
<1>6. ASSUME NEW t \in Trx, Kill(t), UNCHANGED crashed PROVE BasicType'
  BY <1>6 DEF Kill, BasicType
<1>7. ASSUME NEW t \in Trx, Expire(t), UNCHANGED crashed PROVE BasicType'
  BY <1>7 DEF Expire, BasicType
<1>8. ASSUME NEW t \in Trx, TimeOut(t) PROVE BasicType'
  <2> DEFINE f == [pc EXCEPT ![t] = "done"]
  <2>1. f \in [Trx -> {"start", "written", "wait", "woken", "timedout", "done"}]
    BY DEF BasicType
  <2>2. UNCHANGED <<enabled, commitPos, waitPos, reported, killed, written, slaveVars,
                    boundVars>>
    BY <1>8 DEF TimeOut
  <2>3. CASE /\ SwitchOff(f) /\ answer' = [answer EXCEPT ![t] = "no"]
             /\ UNCHANGED crashed
    BY <2>1, <2>2, <2>3, SwitchOffType DEF BasicType
  <2>4. CASE /\ crashed' = TRUE
             /\ UNCHANGED <<on, active, waitInited, replyPos, pc, answer>>
    BY <2>2, <2>4 DEF BasicType
  <2> QED BY <1>8, <2>3, <2>4 DEF TimeOut
<1>9. ASSUME NEW d \in Slaves, DumpStart(d), UNCHANGED crashed PROVE BasicType'
  <2>1. received[d] \in Positions
    BY DEF BasicType
  <2> QED BY <1>9, <2>1, ReportReplyType DEF DumpStart, BasicType
<1>10. ASSUME NEW d \in Slaves, SendEvent(d), UNCHANGED crashed PROVE BasicType'
  <2>1. UpdateSyncHeader(sent[d] + 1) \in BOOLEAN
    BY DEF UpdateSyncHeader, BasicType
  <2>2. sent[d] + 1 \in Positions
    BY <1>10, SemiSyncAssumption DEF SendEvent, BasicType, Positions
  <2> QED BY <1>10, <2>1, <2>2 DEF SendEvent, BasicType
<1>11. ASSUME NEW d \in Slaves, SlaveReply(d), UNCHANGED crashed PROVE BasicType'
  <2>1. received[d] + 1 \in Positions
    BY <1>11, SemiSyncAssumption DEF SlaveReply, BasicType, Positions
  <2> QED BY <1>11, <2>1 DEF SlaveReply, BasicType
<1>12. ASSUME NEW d \in Slaves, ReadSlaveReply(d), UNCHANGED crashed PROVE BasicType'
  <2>1. sent[d] \in Positions
    BY DEF BasicType
  <2> QED BY <1>12, <2>1, ReportReplyType DEF ReadSlaveReply, BasicType
<1>13. ASSUME NEW d \in Slaves, Broadcast(d), UNCHANGED crashed PROVE BasicType'
  BY <1>13 DEF Broadcast, WakeAll, BasicType
<1>14. ASSUME NEW d \in Slaves, DumpEnd(d), UNCHANGED crashed PROVE BasicType'
  <2>1. /\ disconnects' \in 0..MaxDisconnects
        /\ dump' = [dump EXCEPT ![d] = "off"]
        /\ needReply' = [needReply EXCEPT ![d] = FALSE]
        /\ UNCHANGED <<enabled, commitPos, waitPos, reported, killed, answer, written,
                       sent, received, toggles>>
    BY <1>14, SemiSyncAssumption DEF DumpEnd, BasicType
  <2>2. CASE SwitchOff(pc)
    BY <1>14, <2>1, <2>2, SwitchOffType DEF BasicType
  <2>3. CASE UNCHANGED <<on, active, waitInited, replyPos, pc>>
    BY <1>14, <2>1, <2>3 DEF BasicType
  <2> QED BY <1>14, <2>2, <2>3 DEF DumpEnd
<1>15. ASSUME EnableMaster, UNCHANGED crashed PROVE BasicType'
  <2>1. toggles' \in 0..MaxToggles
    BY <1>15, SemiSyncAssumption DEF EnableMaster, BasicType
  <2> QED BY <1>15, <2>1 DEF EnableMaster, BasicType
<1>16. ASSUME DisableMaster, UNCHANGED crashed PROVE BasicType'
  <2>1. toggles' \in 0..MaxToggles
    BY <1>16, SemiSyncAssumption DEF DisableMaster, BasicType
  <2>2. SwitchOff(pc) /\ enabled' = FALSE /\ commitPos' = Unset /\ reported' = {}
    BY <1>16 DEF DisableMaster
  <2> QED BY <1>16, <2>1, <2>2, SwitchOffType DEF DisableMaster, BasicType
<1>17. ASSUME NEW d \in Slaves, AddSlave(d), UNCHANGED crashed PROVE BasicType'
  BY <1>17 DEF AddSlave, BasicType
<1> QED
  BY <1>1, <1>2, <1>3, <1>4, <1>5, <1>6, <1>7, <1>8, <1>9, <1>10, <1>11, <1>12,
     <1>13, <1>14, <1>15, <1>16, <1>17
  DEF Next, Step, SessionStep, DumpStep

\* The count of the connected slaves follows dump.
LEMMA CountedStep == BasicType /\ Counted /\ [Next]_vars => Counted'
<1> SUFFICES ASSUME BasicType, Counted, [Next]_vars PROVE Counted'
  OBVIOUS
<1> USE DEF semiVars, sessionVars, slaveVars, boundVars
<1>1. IsFiniteSet(Connected)
  BY SemiSyncAssumption, FS_Subset DEF Connected
<1>2. ASSUME clients' = clients, Connected' = Connected PROVE Counted'
  BY <1>2 DEF Counted
<1>3. ASSUME UNCHANGED <<clients, dump>> PROVE Counted'
  BY <1>2, <1>3 DEF Connected
<1>4. ASSUME NEW d \in Slaves, dump[d] # "off", NEW v, v # "off",
             dump' = [dump EXCEPT ![d] = v], clients' = clients
      PROVE  Counted'
  <2>1. Connected' = Connected
    BY <1>4 DEF Connected, BasicType
  <2> QED BY <1>2, <1>4, <2>1
<1>5. ASSUME NEW d \in Slaves, AddSlave(d) PROVE Counted'
  <2>1. Connected' = Connected \cup {d} /\ d \notin Connected
    BY <1>5 DEF AddSlave, Connected, BasicType
  <2>2. clients' = clients + 1
    BY <1>5 DEF AddSlave
  <2> QED BY <1>1, <2>1, <2>2, FS_AddElement DEF Counted
<1>6. ASSUME NEW d \in Slaves, DumpEnd(d) PROVE Counted'
  <2>1. Connected' = Connected \ {d} /\ d \in Connected
    BY <1>6 DEF DumpEnd, Connected, BasicType
  <2>2. clients' = clients - 1
    BY <1>6 DEF DumpEnd
  <2> QED BY <1>1, <2>1, <2>2, FS_RemoveElement DEF Counted
<1>7. ASSUME NEW d \in Slaves, ReadSlaveReply(d) PROVE Counted'
  <2>1. sent[d] \in Positions /\ dump[d] # "off"
    BY <1>7 DEF BasicType, ReadSlaveReply
  <2> QED BY <1>4, <1>7, <2>1, ReportReplyType DEF ReadSlaveReply
<1>8. ASSUME NEW d \in Slaves, DumpStart(d) PROVE Counted'
  <2>1. received[d] \in Positions /\ dump[d] # "off"
    BY <1>8 DEF BasicType, DumpStart
  <2> QED BY <1>4, <1>8, <2>1, ReportReplyType DEF DumpStart
<1>9. ASSUME NEW d \in Slaves, SendEvent(d) \/ SlaveReply(d) \/ Broadcast(d)
      PROVE  Counted'
  <2>1. CASE SendEvent(d)
    BY <1>4, <2>1 DEF SendEvent
  <2>2. CASE SlaveReply(d)
    BY <1>4, <2>2 DEF SlaveReply
  <2>3. CASE Broadcast(d)
    BY <1>4, <2>3 DEF Broadcast
  <2> QED BY <1>9, <2>1, <2>2, <2>3
<1>10. ASSUME NEW t \in Trx,
             \/ SessionStep(t) \/ WriteTranxInBinlog(t) \/ Kill(t) \/ Expire(t)
             \/ TimeOut(t)
      PROVE  Counted'
  BY <1>3, <1>10 DEF SessionStep, StopWaiting, Leave, WaitForReply, NoSemiSync,
                    WriteTranxInBinlog, Kill, Expire, TimeOut
<1>11. ASSUME EnableMaster \/ DisableMaster \/ UNCHANGED vars PROVE Counted'
  BY <1>3, <1>11 DEF EnableMaster, DisableMaster, vars
<1> QED BY <1>5, <1>6, <1>7, <1>8, <1>9, <1>10, <1>11 DEF Next, Step, DumpStep

\* The types are an invariant of writeTranxInBinlog(), commitTrx() and the
\* dump threads; the master counts the slaves that are connected, whatever
\* happens to semi-sync meanwhile.
THEOREM TypeCorrect == Spec => []TypeOK
<1>1. Init => BasicType /\ Counted
  <2>1. Init => Connected = {}
    BY DEF Init, Connected
  <2> QED BY <2>1, BasicTypeInit, FS_EmptySet DEF Init, Counted
<1>2. (BasicType /\ Counted) /\ [Next]_vars => (BasicType /\ Counted)'
  BY BasicTypeStep, CountedStep
<1> QED BY <1>1, <1>2, TypeOKParts, PTL DEF Spec

-----------------------------------------------------------------------------
(* What the sessions rely on                                               *)

\* A slave has at most what it was sent, and all of it when it has replied.
SlaveOrder ==
  \A d \in Slaves : /\ received[d] <= sent[d] /\ sent[d] <= written
                    /\ dump[d] = "reply" => received[d] = sent[d]

\* Some slave has what reply_file_pos_ says.
ReplyHeld == replyPos # Unset => \E d \in Slaves : received[d] >= replyPos

\* While semi-sync is off, or disabled, no transaction is in the list.
OffIsEmpty == (~enabled => ~on) /\ (~on => active = {})

\* Transactions are written in order.
Entered == \A t \in Trx : pc[t] = "start" <=> t > written

\* The list holds written transactions that are not acknowledged.
ActiveAfterReply == \A t \in active : t <= written /\ t > replyPos

\* The wait position is at or before every sleeping session, unless a
\* broadcast is under way.
WaitPosCovers ==
  \A t \in Trx : pc[t] = "wait" =>
    /\ on
    /\ \/ waitInited /\ waitPos <= t /\ t > replyPos
       \/ \E d \in Slaves : dump[d] = "broadcast"

SafeInv == /\ SlaveOrder /\ ReplyHeld /\ OffIsEmpty /\ Entered
           /\ ActiveAfterReply /\ WaitPosCovers
           /\ YesIsReceived /\ DoneNotActive

LEMMA SafeInit == Init => SafeInv
<1> SUFFICES ASSUME Init PROVE SafeInv
  OBVIOUS
<1>1. /\ \A t \in Trx : pc[t] = "start" /\ t > 0 /\ answer[t] = "none"
      /\ \A d \in Slaves : received[d] = 0 /\ sent[d] = 0 /\ dump[d] = "off"
      /\ written = 0 /\ active = {} /\ replyPos = Unset /\ on /\ enabled
  BY DEF Init, Trx
<1> QED BY <1>1 DEF SafeInv, SlaveOrder, ReplyHeld, OffIsEmpty, Entered,
           ActiveAfterReply, WaitPosCovers, YesIsReceived, DoneNotActive

\* A sleeping session after switch_off() is none.
LEMMA NobodySleeps ==
  ASSUME NEW f, SwitchOff(f)
  PROVE  \A t \in Trx : /\ pc'[t] # "wait"
                        /\ (pc'[t] = f[t] \/ (f[t] = "wait" /\ pc'[t] = "woken"))
  BY DEF SwitchOff, WakeAll

\* Everything but the session's own part survives switch_off().
LEMMA SwitchOffSafe ==
  ASSUME NEW f, SwitchOff(f), SafeInv, UNCHANGED <<killed, answer>>
  PROVE  OffIsEmpty' /\ ActiveAfterReply' /\ WaitPosCovers' /\ DoneNotActive' /\ ReplyHeld'
  BY NobodySleeps
  DEF SwitchOff, OffIsEmpty, ActiveAfterReply, WaitPosCovers, DoneNotActive, ReplyHeld

\* The effect of reportReplyBinlog() for a position that the slave has.
LEMMA ReportReplySafe ==
  ASSUME BasicType, SafeInv, NEW d \in Slaves, NEW p \in Positions,
         ReportReplyBinlog(d, p), dump[d] # "broadcast", p <= received[d],
         UNCHANGED <<enabled, commitPos, waitPos, pc, killed, answer, written, received>>
  PROVE  /\ ReplyHeld' /\ OffIsEmpty' /\ Entered' /\ ActiveAfterReply'
         /\ WaitPosCovers' /\ YesIsReceived' /\ DoneNotActive'
<1>1. /\ Unset \in Int /\ Positions \subseteq Int /\ Trx \subseteq Int
      /\ \A q \in Positions : q # Unset /\ Unset < q
  BY DEF Unset, Positions, Trx
<1>2. Entered' /\ YesIsReceived'
  BY DEF SafeInv, Entered, YesIsReceived
<1>3. ReplyHeld'
  BY <1>1 DEF SafeInv, ReplyHeld, ReportReplyBinlog
<1>4. OffIsEmpty'
  <2>1. CASE ~enabled
    BY <2>1 DEF SafeInv, OffIsEmpty, ReportReplyBinlog
  <2>2. CASE enabled
    <3>1. on' = (on \/ p >= commitPos) /\ enabled' = enabled
      BY <2>2 DEF ReportReplyBinlog, TrySwitchOn
    <3>2. active' \subseteq active
      BY <2>2 DEF ReportReplyBinlog, ClearActiveTranxNodes
    <3>3. ~on => active = {}
      BY DEF SafeInv, OffIsEmpty
    <3>4. ~on' => ~on
      BY <3>1
    <3> QED BY <2>2, <3>1, <3>2, <3>3, <3>4 DEF OffIsEmpty
  <2> QED BY <2>1, <2>2
<1>5. ActiveAfterReply' /\ active' \subseteq active
  <2>1. active' \subseteq active
    BY DEF ReportReplyBinlog, ClearActiveTranxNodes
  <2>2. \A t \in active' : t > replyPos'
    <3> SUFFICES ASSUME NEW t \in active' PROVE t > replyPos'
      OBVIOUS
    <3>1. t > replyPos /\ t \in Int /\ replyPos \in Int
      BY <1>1, <2>1 DEF SafeInv, ActiveAfterReply, BasicType
    <3>2. CASE replyPos' = replyPos
      BY <3>1, <3>2
    <3>3. CASE replyPos' # replyPos
      BY <3>1, <3>3 DEF ReportReplyBinlog, ClearActiveTranxNodes
    <3> QED BY <3>2, <3>3
  <2> QED BY <2>1, <2>2 DEF SafeInv, ActiveAfterReply
<1>6. DoneNotActive'
  BY <1>5 DEF SafeInv, DoneNotActive
<1>7. on => on'
  <2>1. CASE ~enabled
    BY <2>1 DEF ReportReplyBinlog
  <2>2. CASE enabled
    BY <2>2 DEF ReportReplyBinlog, TrySwitchOn
  <2> QED BY <2>1, <2>2
<1>8. WaitPosCovers'
  <2> SUFFICES ASSUME NEW t \in Trx, pc[t] = "wait",
                      ~ \E e \in Slaves : dump'[e] = "broadcast"
               PROVE  on' /\ waitInited' /\ waitPos <= t /\ t > replyPos'
    <3>1. pc' = pc /\ waitPos' = waitPos
      OBVIOUS
    <3>2. \A t \in Trx : pc[t] = "wait" => on'
      BY <1>7 DEF SafeInv, WaitPosCovers
    <3> QED BY <3>1, <3>2, Zenon DEF WaitPosCovers
  <2>1. SomeoneWaits
    BY DEF SomeoneWaits
  <2>2. \A e \in Slaves : dump[e] # "broadcast"
    <3>1. dump' = [dump EXCEPT ![d] = dump'[d]]
      BY ReportReplyType
    <3>2. \A e \in Slaves \ {d} : dump'[e] = dump[e]
      BY <3>1 DEF BasicType
    <3> QED BY <3>2
  <2>3. on /\ waitInited /\ waitPos <= t /\ t > replyPos
    BY <2>2 DEF SafeInv, WaitPosCovers
  <2>4. dump'[d] # "broadcast"
    OBVIOUS
  <2>5. CASE ~enabled
    BY <2>3, <2>5 DEF SafeInv, OffIsEmpty
  <2>6. CASE enabled
    <3>1. ~ (replyPos' >= waitPos)
      BY <2>1, <2>4, <2>6 DEF BasicType, ReportReplyBinlog
    <3>2. replyPos' \in Int /\ waitPos \in Int /\ t \in Int
      BY <1>1, ReportReplyType DEF BasicType
    <3>3. on' /\ waitInited'
      BY <2>3, <2>6, <3>1 DEF ReportReplyBinlog, TrySwitchOn
    <3> QED BY <2>3, <3>1, <3>2, <3>3
  <2> QED BY <2>5, <2>6
<1> QED BY <1>2, <1>3, <1>4, <1>5, <1>6, <1>8

LEMMA SafeStep == BasicType /\ SafeInv /\ [Next]_vars => SafeInv'
<1> SUFFICES ASSUME BasicType, SafeInv, [Next]_vars PROVE SafeInv'
  OBVIOUS
<1> USE DEF semiVars, sessionVars, slaveVars, boundVars
<1>0. /\ Unset \in Int /\ Positions \subseteq Int /\ Trx \subseteq Int
      /\ \A q \in Positions : q # Unset /\ Unset < q
  BY DEF Unset, Positions, Trx
<1>1. CASE UNCHANGED vars
  BY <1>1 DEF vars, SafeInv, SlaveOrder, ReplyHeld, OffIsEmpty, Entered,
              ActiveAfterReply, WaitPosCovers, YesIsReceived, DoneNotActive
<1>2. ASSUME NEW t \in Trx, StopWaiting(t) PROVE SafeInv'
  <2>1. /\ pc' = [pc EXCEPT ![t] = "done"] /\ pc[t] # "start"
        /\ UNCHANGED <<semiVars, killed, written, slaveVars>>
    BY <1>2 DEF StopWaiting, InCommitTrx, Leave
  <2>2. SlaveOrder' /\ ReplyHeld' /\ OffIsEmpty' /\ ActiveAfterReply'
    BY <2>1 DEF SafeInv, SlaveOrder, ReplyHeld, OffIsEmpty, ActiveAfterReply
  <2>3. Entered' /\ WaitPosCovers'
    BY <2>1 DEF SafeInv, Entered, WaitPosCovers, BasicType
  <2>4. YesIsReceived'
    <3>1. CASE on /\ t \notin killed
      <4>1. \E d \in Slaves : received[d] >= t
        <5>1. replyPos # Unset /\ replyPos >= t /\ replyPos \in Int /\ t \in Int
          BY <1>0, <1>2, <3>1 DEF StopWaiting, Acknowledged, BasicType
        <5>2. PICK d \in Slaves : received[d] >= replyPos
          BY <5>1 DEF SafeInv, ReplyHeld
        <5>3. received[d] \in Int
          BY <1>0 DEF BasicType
        <5> QED BY <5>1, <5>2, <5>3
      <4> QED BY <1>2, <2>1, <4>1 DEF StopWaiting, Leave, SafeInv, YesIsReceived, BasicType
    <3>2. CASE ~on
      BY <1>2, <2>1, <3>2 DEF StopWaiting, Leave, SafeInv, YesIsReceived, BasicType
    <3>3. CASE t \in killed
      BY <1>2, <2>1, <3>3 DEF StopWaiting, Leave, SafeInv, YesIsReceived, BasicType
    <3> QED BY <3>1, <3>2, <3>3
  <2>5. DoneNotActive'
    <3>1. t \in killed \/ t \notin active
      <4>1. CASE ~on
        BY <4>1 DEF SafeInv, OffIsEmpty
      <4>2. CASE Acknowledged(t)
        BY <1>0, <4>2 DEF Acknowledged, SafeInv, ActiveAfterReply, BasicType
      <4> QED BY <1>2, <4>1, <4>2 DEF StopWaiting
    <3> QED BY <2>1, <3>1 DEF SafeInv, DoneNotActive, BasicType
  <2> QED BY <2>2, <2>3, <2>4, <2>5 DEF SafeInv
<1>3. ASSUME NEW t \in Trx, WaitForReply(t) PROVE SafeInv'
  <2>1. /\ pc' = [pc EXCEPT ![t] = "wait"] /\ pc[t] # "start"
        /\ UNCHANGED <<enabled, on, active, replyPos, killed, answer, written, slaveVars>>
    BY <1>3 DEF WaitForReply, InCommitTrx
  <2>2. SlaveOrder' /\ ReplyHeld' /\ OffIsEmpty' /\ ActiveAfterReply'
    BY <2>1 DEF SafeInv, SlaveOrder, ReplyHeld, OffIsEmpty, ActiveAfterReply
  <2>3. Entered' /\ YesIsReceived' /\ DoneNotActive'
    BY <2>1 DEF SafeInv, Entered, YesIsReceived, DoneNotActive, BasicType
  <2>4. WaitPosCovers'
    <3>1. on /\ t > replyPos
      <4>1. replyPos = Unset \/ ~ (replyPos >= t)
        BY <1>3 DEF WaitForReply, Acknowledged
      <4>2. t > Unset /\ t \in Int /\ replyPos \in Int
        BY <1>0 DEF BasicType, Unset, Trx
      <4> QED BY <1>3, <4>1, <4>2 DEF WaitForReply
    <3>2. /\ waitInited' /\ waitPos' <= t
          /\ waitInited => waitPos' <= waitPos
      BY <1>0, <1>3 DEF WaitForReply, BasicType
    <3>3. waitPos \in Int /\ waitPos' \in Int
      BY <1>0, <1>3 DEF WaitForReply, BasicType
    <3> SUFFICES ASSUME NEW u \in Trx, pc'[u] = "wait"
                 PROVE  on' /\ \/ waitInited' /\ waitPos' <= u /\ u > replyPos'
                               \/ \E d \in Slaves : dump'[d] = "broadcast"
      BY DEF WaitPosCovers
    <3>4. CASE u = t
      BY <2>1, <3>1, <3>2, <3>4
    <3>5. CASE u # t
      <4>1. pc[u] = "wait" /\ u \in Int
        BY <1>0, <2>1, <3>5 DEF BasicType
      <4>2. \/ waitInited /\ waitPos <= u /\ u > replyPos
            \/ \E d \in Slaves : dump[d] = "broadcast"
        BY <4>1 DEF SafeInv, WaitPosCovers
      <4>3. CASE waitInited /\ waitPos <= u /\ u > replyPos
        <5>1. waitPos' <= u
          BY <3>2, <3>3, <4>1, <4>3
        <5> QED BY <2>1, <3>1, <3>2, <4>3, <5>1
      <4>4. CASE \E d \in Slaves : dump[d] = "broadcast"
        BY <2>1, <3>1, <4>4
      <4> QED BY <4>2, <4>3, <4>4
    <3> QED BY <3>4, <3>5
  <2> QED BY <2>2, <2>3, <2>4 DEF SafeInv
<1>4. ASSUME NEW t \in Trx, NoSemiSync(t) PROVE SafeInv'
  <2>1. /\ pc' = [pc EXCEPT ![t] = "done"] /\ pc[t] = "written" /\ ~enabled
        /\ \E a \in {"none", "no"} : answer' = [answer EXCEPT ![t] = a]
        /\ UNCHANGED <<semiVars, killed, written, slaveVars>>
    BY <1>4 DEF NoSemiSync
  <2>2. SlaveOrder' /\ ReplyHeld' /\ OffIsEmpty' /\ ActiveAfterReply' /\ active = {}
    BY <2>1 DEF SafeInv, SlaveOrder, ReplyHeld, OffIsEmpty, ActiveAfterReply
  <2>3. Entered' /\ WaitPosCovers' /\ DoneNotActive'
    BY <2>1, <2>2 DEF SafeInv, Entered, WaitPosCovers, DoneNotActive, BasicType
  <2>4. YesIsReceived'
    BY <2>1 DEF SafeInv, YesIsReceived, BasicType
  <2> QED BY <2>2, <2>3, <2>4 DEF SafeInv
<1>5. ASSUME NEW t \in Trx, WriteTranxInBinlog(t) PROVE SafeInv'
  <2> DEFINE f == [pc EXCEPT ![t] = "written"]
  <2>1. /\ pc[t] = "start" /\ t = written + 1 /\ written' = t
        /\ UNCHANGED <<enabled, waitPos, killed, answer, slaveVars>>
    BY <1>5 DEF WriteTranxInBinlog
  <2>2. SlaveOrder'
    <3>1. \A d \in Slaves : sent[d] \in Int /\ sent[d] <= written
      BY <1>0 DEF SafeInv, SlaveOrder, BasicType
    <3>2. written \in Int
      BY <1>0 DEF BasicType
    <3>3. \A d \in Slaves : sent[d] <= written'
      BY <2>1, <3>1, <3>2
    <3> QED BY <2>1, <3>3 DEF SafeInv, SlaveOrder
  <2>3. YesIsReceived'
    BY <2>1 DEF SafeInv, YesIsReceived
  <2>4. written \in Int /\ (replyPos = Unset \/ replyPos <= written)
    <3>1. written \in Int /\ replyPos \in Int
      BY <1>0 DEF BasicType
    <3>2. ASSUME replyPos # Unset PROVE replyPos <= written
      <4>1. PICK d \in Slaves : received[d] >= replyPos
        BY <3>2 DEF SafeInv, ReplyHeld
      <4>2. received[d] \in Int /\ sent[d] \in Int
        BY <1>0 DEF BasicType
      <4>3. received[d] <= sent[d] /\ sent[d] <= written
        BY DEF SafeInv, SlaveOrder
      <4> QED BY <3>1, <4>1, <4>2, <4>3
    <3> QED BY <3>1, <3>2
  <2>5. CASE SwitchOff(f)
    <3>1. Entered'
      <4> SUFFICES ASSUME NEW u \in Trx PROVE (pc'[u] = "start" <=> u > written')
        BY DEF Entered
      <4>1. pc'[u] = f[u] \/ (f[u] = "wait" /\ pc'[u] = "woken")
        BY <2>5, NobodySleeps
      <4>2. pc'[u] = "start" <=> f[u] = "start"
        BY <4>1
      <4>3. f[u] = "start" <=> u # t /\ pc[u] = "start"
        BY DEF BasicType
      <4> QED BY <1>0, <2>1, <2>4, <4>2, <4>3 DEF SafeInv, Entered
    <3> QED BY <2>1, <2>2, <2>3, <2>5, <3>1, SwitchOffSafe DEF SafeInv
  <2>6. CASE pc' = f /\ active' \subseteq active \cup {t} /\ (active' # active => on)
             /\ UNCHANGED <<on, replyPos, waitInited>>
    <3>1. Entered'
      BY <1>0, <2>1, <2>4, <2>6 DEF SafeInv, Entered, BasicType
    <3>2. ReplyHeld' /\ OffIsEmpty'
      BY <2>1, <2>6 DEF SafeInv, ReplyHeld, OffIsEmpty
    <3>3. ActiveAfterReply'
      <4>1. t > replyPos /\ t <= written'
        BY <1>0, <2>1, <2>4 DEF BasicType, Unset, Positions
      <4>2. \A u \in active : u \in Int /\ u <= written'
        BY <1>0, <2>1, <2>4 DEF SafeInv, ActiveAfterReply, BasicType
      <4> QED BY <2>6, <4>1, <4>2 DEF SafeInv, ActiveAfterReply
    <3>4. WaitPosCovers' /\ DoneNotActive'
      BY <2>1, <2>6 DEF SafeInv, WaitPosCovers, DoneNotActive, BasicType
    <3> QED BY <2>2, <2>3, <3>1, <3>2, <3>3, <3>4 DEF SafeInv
  <2> QED BY <1>5, <2>5, <2>6 DEF WriteTranxInBinlog, InsertTranxNode
<1>6. ASSUME NEW t \in Trx, Kill(t) PROVE SafeInv'
  <2>1. /\ pc[t] \in {"written", "wait"} /\ killed' = killed \cup {t}
        /\ pc' = [pc EXCEPT ![t] = IF @ = "wait" THEN "woken" ELSE @]
        /\ UNCHANGED <<semiVars, answer, written, slaveVars>>
    BY <1>6 DEF Kill
  <2>2. SlaveOrder' /\ ReplyHeld' /\ OffIsEmpty' /\ ActiveAfterReply' /\ YesIsReceived'
    BY <2>1 DEF SafeInv, SlaveOrder, ReplyHeld, OffIsEmpty, ActiveAfterReply, YesIsReceived
  <2>3. Entered' /\ WaitPosCovers' /\ DoneNotActive'
    BY <2>1 DEF SafeInv, Entered, WaitPosCovers, DoneNotActive, BasicType
  <2> QED BY <2>2, <2>3 DEF SafeInv
<1>7. ASSUME NEW t \in Trx, Expire(t) PROVE SafeInv'
  <2>1. /\ pc[t] = "wait" /\ pc' = [pc EXCEPT ![t] = "timedout"]
        /\ UNCHANGED <<semiVars, killed, answer, written, slaveVars>>
    BY <1>7 DEF Expire
  <2>2. SlaveOrder' /\ ReplyHeld' /\ OffIsEmpty' /\ ActiveAfterReply' /\ YesIsReceived'
    BY <2>1 DEF SafeInv, SlaveOrder, ReplyHeld, OffIsEmpty, ActiveAfterReply, YesIsReceived
  <2>3. Entered' /\ WaitPosCovers' /\ DoneNotActive'
    BY <2>1 DEF SafeInv, Entered, WaitPosCovers, DoneNotActive, BasicType
  <2> QED BY <2>2, <2>3 DEF SafeInv
<1>8. ASSUME NEW t \in Trx, TimeOut(t) PROVE SafeInv'
  <2> DEFINE f == [pc EXCEPT ![t] = "done"]
  <2>1. /\ pc[t] = "timedout"
        /\ UNCHANGED <<enabled, commitPos, waitPos, killed, written, slaveVars>>
    BY <1>8 DEF TimeOut
  <2>2. CASE SwitchOff(f) /\ answer' = [answer EXCEPT ![t] = "no"]
    <3>1. SlaveOrder' /\ YesIsReceived'
      BY <2>1, <2>2 DEF SafeInv, SlaveOrder, YesIsReceived, BasicType
    <3>2. /\ OffIsEmpty' /\ ActiveAfterReply' /\ WaitPosCovers' /\ DoneNotActive'
          /\ ReplyHeld'
      BY <2>2, NobodySleeps DEF SwitchOff, OffIsEmpty, ActiveAfterReply, WaitPosCovers,
                                DoneNotActive, ReplyHeld
    <3>3. Entered'
      <4> SUFFICES ASSUME NEW u \in Trx PROVE (pc'[u] = "start" <=> u > written')
        BY DEF Entered
      <4>1. pc'[u] = f[u] \/ (f[u] = "wait" /\ pc'[u] = "woken")
        BY <2>2, NobodySleeps
      <4>2. pc'[u] = "start" <=> pc[u] = "start"
        BY <2>1, <4>1 DEF BasicType
      <4> QED BY <2>1, <4>2 DEF SafeInv, Entered
    <3> QED BY <3>1, <3>2, <3>3 DEF SafeInv
  <2>3. CASE UNCHANGED <<on, active, waitInited, replyPos, pc, answer>>
    BY <2>1, <2>3 DEF SafeInv, SlaveOrder, ReplyHeld, OffIsEmpty, Entered,
                      ActiveAfterReply, WaitPosCovers, YesIsReceived, DoneNotActive
  <2> QED BY <1>8, <2>2, <2>3 DEF TimeOut
<1>9. ASSUME NEW d \in Slaves, DumpStart(d) PROVE SafeInv'
  <2>1. /\ dump[d] = "starting" /\ sent' = [sent EXCEPT ![d] = received[d]]
        /\ ReportReplyBinlog(d, received[d])
        /\ UNCHANGED <<enabled, commitPos, waitPos, sessionVars, received>>
    BY <1>9 DEF DumpStart
  <2>2. received[d] \in Positions /\ received[d] \in Int /\ sent[d] \in Int /\ written \in Int
    BY <1>0 DEF BasicType
  <2>3. SlaveOrder'
    <3>1. dump' = [dump EXCEPT ![d] = dump'[d]]
      BY <2>1, <2>2, ReportReplyType
    <3>2. received[d] <= written
      BY <2>2 DEF SafeInv, SlaveOrder
    <3> QED BY <2>1, <2>2, <3>1, <3>2 DEF SafeInv, SlaveOrder, BasicType
  <2> QED BY <2>1, <2>2, <2>3, ReportReplySafe DEF SafeInv
<1>10. ASSUME NEW d \in Slaves, SendEvent(d) PROVE SafeInv'
  <2>1. /\ dump[d] = "idle" /\ sent[d] < written /\ sent' = [sent EXCEPT ![d] = @ + 1]
        /\ \E v \in {"reading", "idle"} : dump' = [dump EXCEPT ![d] = v]
        /\ UNCHANGED <<semiVars, sessionVars, received>>
    BY <1>10 DEF SendEvent
  <2>2. SlaveOrder'
    <3>1. sent[d] \in Int /\ received[d] \in Int /\ written \in Int
      BY <1>0 DEF BasicType
    <3>2. received[d] <= sent[d] + 1 /\ sent[d] + 1 <= written
      BY <2>1, <3>1 DEF SafeInv, SlaveOrder
    <3> QED BY <2>1, <3>2 DEF SafeInv, SlaveOrder, BasicType
  <2>3. /\ ReplyHeld' /\ OffIsEmpty' /\ Entered' /\ ActiveAfterReply'
        /\ YesIsReceived' /\ DoneNotActive'
    BY <2>1 DEF SafeInv, ReplyHeld, OffIsEmpty, Entered, ActiveAfterReply, YesIsReceived,
                DoneNotActive
  <2>4. WaitPosCovers'
    <3>1. \A e \in Slaves : dump[e] = "broadcast" => dump'[e] = "broadcast"
      BY <2>1 DEF BasicType
    <3> QED BY <2>1, <3>1 DEF SafeInv, WaitPosCovers
  <2> QED BY <2>2, <2>3, <2>4 DEF SafeInv
<1>11. ASSUME NEW d \in Slaves, SlaveReply(d) PROVE SafeInv'
  <2>1. /\ dump[d] \in {"idle", "reading"} /\ received[d] < sent[d]
        /\ received' = [received EXCEPT ![d] = @ + 1]
        /\ dump' = [dump EXCEPT ![d] = IF needReply[d] /\ received'[d] = sent[d]
                                       THEN "reply" ELSE @]
        /\ UNCHANGED <<semiVars, sessionVars, sent>>
    BY <1>11 DEF SlaveReply
  <2>2. \A e \in Slaves : received[e] \in Int /\ received'[e] \in Int /\ received[e] <= received'[e]
    <3>1. \A e \in Slaves : received[e] \in Int
      BY <1>0 DEF BasicType
    <3>2. \A e \in Slaves : received'[e] = IF e = d THEN received[d] + 1 ELSE received[e]
      BY <2>1 DEF BasicType
    <3> QED BY <3>1, <3>2
  <2>3. SlaveOrder'
    <3>1. received'[d] = received[d] + 1 /\ received'[d] <= sent[d]
      <4>1. received[d] \in Int /\ sent[d] \in Int
        BY <1>0 DEF BasicType
      <4>2. received'[d] = received[d] + 1
        BY <2>1 DEF BasicType
      <4> QED BY <2>1, <4>1, <4>2
    <3> QED BY <2>1, <3>1 DEF SafeInv, SlaveOrder, BasicType
  <2>4. ReplyHeld' /\ YesIsReceived'
    <3>1. \A q \in Int : \A e \in Slaves : received[e] >= q => received'[e] >= q
      BY <2>2
    <3>2. replyPos \in Int
      BY <1>0 DEF BasicType
    <3> QED BY <1>0, <2>1, <3>1, <3>2 DEF SafeInv, ReplyHeld, YesIsReceived
  <2>5. OffIsEmpty' /\ Entered' /\ ActiveAfterReply' /\ DoneNotActive'
    BY <2>1 DEF SafeInv, OffIsEmpty, Entered, ActiveAfterReply, DoneNotActive
  <2>6. WaitPosCovers'
    <3>1. \A e \in Slaves : dump[e] = "broadcast" => dump'[e] = "broadcast"
      BY <2>1 DEF BasicType
    <3> QED BY <2>1, <3>1 DEF SafeInv, WaitPosCovers
  <2> QED BY <2>3, <2>4, <2>5, <2>6 DEF SafeInv
<1>12. ASSUME NEW d \in Slaves, ReadSlaveReply(d) PROVE SafeInv'
  <2>1. /\ dump[d] = "reply" /\ ReportReplyBinlog(d, sent[d])
        /\ UNCHANGED <<enabled, commitPos, waitPos, sessionVars, sent, received>>
    BY <1>12 DEF ReadSlaveReply
  <2>2. sent[d] \in Positions /\ sent[d] \in Int /\ sent[d] = received[d]
    BY <1>0, <2>1 DEF BasicType, SafeInv, SlaveOrder
  <2>3. SlaveOrder'
    <3>1. dump' = [dump EXCEPT ![d] = dump'[d]]
      BY <2>1, <2>2, ReportReplyType
    <3> QED BY <2>1, <2>2, <3>1 DEF SafeInv, SlaveOrder, BasicType
  <2> QED BY <2>1, <2>2, <2>3, ReportReplySafe DEF SafeInv
<1>13. ASSUME NEW d \in Slaves, Broadcast(d) PROVE SafeInv'
  <2>1. /\ pc' = WakeAll(pc) /\ dump' = [dump EXCEPT ![d] = "idle"]
        /\ UNCHANGED <<semiVars, killed, answer, written, sent, received>>
    BY <1>13 DEF Broadcast
  <2>2. SlaveOrder' /\ ReplyHeld' /\ OffIsEmpty' /\ ActiveAfterReply' /\ YesIsReceived'
    BY <2>1 DEF SafeInv, SlaveOrder, ReplyHeld, OffIsEmpty, ActiveAfterReply, YesIsReceived, BasicType
  <2>3. \A t \in Trx : /\ pc'[t] # "wait" /\ (pc'[t] = "start" <=> pc[t] = "start")
                        /\ (pc'[t] = "done" <=> pc[t] = "done")
    BY <2>1 DEF WakeAll
  <2> QED BY <2>1, <2>2, <2>3 DEF SafeInv, Entered, WaitPosCovers, DoneNotActive
<1>14. ASSUME NEW d \in Slaves, DumpEnd(d) PROVE SafeInv'
  <2>1. /\ dump[d] \in {"idle", "reading", "reply"} /\ dump' = [dump EXCEPT ![d] = "off"]
        /\ UNCHANGED <<enabled, waitPos, killed, answer, written, sent, received>>
    BY <1>14 DEF DumpEnd
  <2>2. SlaveOrder' /\ YesIsReceived'
    BY <2>1 DEF SafeInv, SlaveOrder, YesIsReceived, BasicType
  <2>3. CASE SwitchOff(pc)
    <3>1. \A t \in Trx : pc'[t] = "start" <=> pc[t] = "start"
      BY <2>3, NobodySleeps
    <3>2. Entered'
      BY <2>1, <3>1 DEF SafeInv, Entered
    <3> QED BY <2>1, <2>2, <2>3, <3>2, SwitchOffSafe DEF SafeInv
  <2>4. CASE UNCHANGED <<on, active, waitInited, replyPos, pc>>
    <3>1. ReplyHeld' /\ OffIsEmpty' /\ Entered' /\ ActiveAfterReply' /\ DoneNotActive'
      BY <2>1, <2>4 DEF SafeInv, ReplyHeld, OffIsEmpty, Entered, ActiveAfterReply, DoneNotActive
    <3>2. \A e \in Slaves : dump[e] = "broadcast" => dump'[e] = "broadcast"
      BY <2>1 DEF BasicType
    <3>3. WaitPosCovers'
      BY <2>1, <2>4, <3>2 DEF SafeInv, WaitPosCovers
    <3> QED BY <2>2, <3>1, <3>3 DEF SafeInv
  <2> QED BY <1>14, <2>3, <2>4 DEF DumpEnd
<1>15. ASSUME EnableMaster PROVE SafeInv'
  <2>1. /\ ~enabled /\ enabled' = TRUE /\ on' = TRUE /\ active' = {} /\ replyPos' = Unset
        /\ UNCHANGED <<sessionVars, slaveVars>>
    BY <1>15 DEF EnableMaster
  <2>2. SlaveOrder' /\ Entered' /\ YesIsReceived'
    BY <2>1 DEF SafeInv, SlaveOrder, Entered, YesIsReceived
  <2>3. ReplyHeld' /\ OffIsEmpty' /\ ActiveAfterReply' /\ DoneNotActive'
    BY <2>1 DEF ReplyHeld, OffIsEmpty, ActiveAfterReply, DoneNotActive
  <2>4. WaitPosCovers'
    BY <2>1 DEF SafeInv, OffIsEmpty, WaitPosCovers
  <2> QED BY <2>2, <2>3, <2>4 DEF SafeInv
<1>16. ASSUME DisableMaster PROVE SafeInv'
  <2>1. SwitchOff(pc) /\ UNCHANGED <<killed, answer, written, slaveVars>>
    BY <1>16 DEF DisableMaster
  <2>2. SlaveOrder' /\ YesIsReceived'
    BY <2>1 DEF SafeInv, SlaveOrder, YesIsReceived
  <2>3. \A t \in Trx : pc'[t] = "start" <=> pc[t] = "start"
    BY <2>1, NobodySleeps
  <2>4. Entered'
    BY <2>1, <2>3 DEF SafeInv, Entered
  <2> QED BY <2>1, <2>2, <2>4, SwitchOffSafe DEF SafeInv
<1>17. ASSUME NEW d \in Slaves, AddSlave(d) PROVE SafeInv'
  <2>1. /\ dump[d] = "off" /\ dump' = [dump EXCEPT ![d] = "starting"]
        /\ UNCHANGED <<semiVars, sessionVars, sent, received>>
    BY <1>17 DEF AddSlave
  <2>2. SlaveOrder'
    BY <2>1 DEF SafeInv, SlaveOrder, BasicType
  <2>3. /\ ReplyHeld' /\ OffIsEmpty' /\ Entered' /\ ActiveAfterReply'
        /\ YesIsReceived' /\ DoneNotActive'
    BY <2>1 DEF SafeInv, ReplyHeld, OffIsEmpty, Entered, ActiveAfterReply, YesIsReceived,
                DoneNotActive
  <2>4. WaitPosCovers'
    <3>1. \A e \in Slaves : dump[e] = "broadcast" => dump'[e] = "broadcast"
      BY <2>1 DEF BasicType
    <3> QED BY <2>1, <3>1 DEF SafeInv, WaitPosCovers
  <2> QED BY <2>2, <2>3, <2>4 DEF SafeInv
<1> QED
  BY <1>1, <1>2, <1>3, <1>4, <1>5, <1>6, <1>7, <1>8, <1>9, <1>10, <1>11, <1>12,
     <1>13, <1>14, <1>15, <1>16, <1>17
  DEF Next, Step, SessionStep, DumpStep

\* The invariant that the safety theorems rest on.
THEOREM Safe == Spec => [](BasicType /\ SafeInv)
<1>1. BasicType /\ SafeInv /\ [Next]_vars => BasicType' /\ SafeInv'
  BY BasicTypeStep, SafeStep
<1> QED BY <1>1, BasicTypeInit, SafeInit, PTL DEF Spec

\* A transaction that commitTrx() counts as acknowledged, of a session that was
\* not killed, is in the relay log of a slave: through timeouts, reconnections,
\* late broadcasts and changes of rpl_semi_sync_master_enabled.
THEOREM AcknowledgedIsReceived == Spec => []YesIsReceived
<1>1. SafeInv => YesIsReceived
  BY DEF SafeInv
<1> QED BY <1>1, Safe, PTL

\* No session sleeps on in commitTrx() although it could leave, unless
\* reportReplyBinlog() is about to broadcast.
THEOREM BroadcastsReachAll == Spec => []NoMissedBroadcast
<1>1. BasicType /\ SafeInv => NoMissedBroadcast
  <2> SUFFICES ASSUME BasicType, SafeInv, NEW t \in Trx, pc[t] = "wait",
                      ~ \E d \in Slaves : dump[d] = "broadcast"
               PROVE  on /\ ~Acknowledged(t)
    BY DEF NoMissedBroadcast
  <2>1. on /\ t > replyPos
    BY DEF SafeInv, WaitPosCovers
  <2>2. t \in Int /\ replyPos \in Int
    BY DEF BasicType, Trx, Positions, Unset
  <2> QED BY <2>1, <2>2 DEF Acknowledged
<1> QED BY <1>1, Safe, PTL

\* The assertion at the end of commitTrx() holds.
THEOREM FinishedNotActive == Spec => []DoneNotActive
<1>1. SafeInv => DoneNotActive
  BY DEF SafeInv
<1> QED BY <1>1, Safe, PTL

-----------------------------------------------------------------------------
(* Switching on again                                                      *)

\* commit_file_pos_ is at or after every transaction that was reported.
ReportedInv == \A t \in reported : t <= commitPos

CoverInv == ReportedInv /\ OnCoversAll

\* A reply that switches semi-sync on is from a slave that has all.
LEMMA CaughtUp ==
  ASSUME BasicType, ReportedInv, NEW d \in Slaves, ~on, on', enabled,
         ReportReplyBinlog(d, received[d])
  PROVE  \A t \in reported : received[d] >= t
<1>1. received[d] >= commitPos
  BY DEF ReportReplyBinlog, TrySwitchOn
<1>2. \A t \in reported : t \in Int /\ t <= commitPos
  BY DEF BasicType, ReportedInv, Trx
<1>3. received[d] \in Int /\ commitPos \in Int
  BY DEF BasicType, Positions, Unset
<1> QED BY <1>1, <1>2, <1>3

LEMMA CoverReport ==
  ASSUME BasicType, CoverInv, NEW d \in Slaves, ReportReplyBinlog(d, received[d]),
         UNCHANGED <<enabled, commitPos, reported, received>>
  PROVE  CoverInv'
<1>1. ReportedInv'
  BY DEF CoverInv, ReportedInv
<1>2. OnCoversAll'
  <2> SUFFICES ASSUME enabled, on', NEW t \in reported
               PROVE  t \in active' \/ \E e \in Slaves : received[e] >= t
    BY DEF OnCoversAll
  <2>1. CASE ~on
    BY <2>1, CaughtUp DEF CoverInv
  <2>2. CASE on
    <3>1. \/ t \in active
          \/ \E e \in Slaves : received[e] >= t
      BY <2>2 DEF CoverInv, OnCoversAll
    <3>2. active' = active \/ active' = ClearActiveTranxNodes(received[d])
      BY DEF ReportReplyBinlog
    <3>3. ASSUME t \in active, t \notin active' PROVE received[d] >= t
      <4>1. ~(t > received[d])
        BY <3>2, <3>3 DEF ClearActiveTranxNodes
      <4>2. t \in Int /\ received[d] \in Int
        BY <3>3 DEF BasicType, Trx, Positions
      <4> QED BY <4>1, <4>2
    <3> QED BY <3>1, <3>3
  <2> QED BY <2>1, <2>2
<1> QED BY <1>1, <1>2 DEF CoverInv

LEMMA CoverStep == BasicType /\ SafeInv /\ CoverInv /\ [Next]_vars => CoverInv'
<1> SUFFICES ASSUME BasicType, SafeInv, CoverInv, [Next]_vars PROVE CoverInv'
  OBVIOUS
<1> USE DEF semiVars, sessionVars, slaveVars, boundVars
<1>1. ASSUME UNCHANGED <<enabled, on, active, commitPos, reported>>,
             \A d \in Slaves : \A t \in Trx : received[d] >= t => received'[d] >= t
      PROVE  CoverInv'
  <2>1. reported \subseteq Trx
    BY DEF BasicType
  <2> QED BY <1>1, <2>1 DEF CoverInv, ReportedInv, OnCoversAll
<1>2. ASSUME UNCHANGED <<enabled, on, active, commitPos, reported, received>> PROVE CoverInv'
  BY <1>1, <1>2
<1>3. ASSUME UNCHANGED <<commitPos, reported>>, ~on' PROVE CoverInv'
  BY <1>3 DEF CoverInv, ReportedInv, OnCoversAll
<1>4. ASSUME reported' = {} PROVE CoverInv'
  BY <1>4 DEF CoverInv, ReportedInv, OnCoversAll
<1>5. ASSUME NEW t \in Trx, SessionStep(t) \/ Kill(t) \/ Expire(t) PROVE CoverInv'
  BY <1>2, <1>5 DEF SessionStep, StopWaiting, Leave, WaitForReply, NoSemiSync, Kill, Expire
<1>6. ASSUME NEW t \in Trx, TimeOut(t) PROVE CoverInv'
  BY <1>2, <1>3, <1>6 DEF TimeOut, SwitchOff
<1>7. ASSUME NEW t \in Trx, WriteTranxInBinlog(t) PROVE CoverInv'
  <2>1. /\ UNCHANGED <<enabled, received>> /\ t \in Int /\ commitPos \in Int
        /\ \A u \in reported : u \in Int /\ u <= commitPos
    BY <1>7 DEF WriteTranxInBinlog, BasicType, Trx, Positions, Unset, CoverInv, ReportedInv
  <2>2. ReportedInv'
    <3>1. CASE enabled
      <4>1. /\ commitPos' = IF t > commitPos THEN t ELSE commitPos
            /\ reported' = reported \cup {t}
        BY <1>7, <3>1 DEF WriteTranxInBinlog
      <4>2. t <= commitPos' /\ commitPos <= commitPos' /\ commitPos' \in Int
        BY <2>1, <4>1
      <4> QED BY <2>1, <4>1, <4>2 DEF ReportedInv
    <3>2. CASE ~enabled
      BY <1>7, <3>2 DEF WriteTranxInBinlog, CoverInv, ReportedInv
    <3> QED BY <3>1, <3>2
  <2>3. OnCoversAll'
    <3> SUFFICES ASSUME enabled, on' PROVE OnCoversAll'
      BY <2>1 DEF OnCoversAll
    <3>1. on /\ active' = active \cup {t} /\ reported' = reported \cup {t}
      BY <1>7 DEF WriteTranxInBinlog, InsertTranxNode, SwitchOff
    <3> QED BY <2>1, <3>1 DEF CoverInv, OnCoversAll
  <2> QED BY <2>2, <2>3 DEF CoverInv
<1>8. ASSUME NEW d \in Slaves, AddSlave(d) \/ SendEvent(d) \/ Broadcast(d) PROVE CoverInv'
  BY <1>2, <1>8 DEF AddSlave, SendEvent, Broadcast
<1>9. ASSUME NEW d \in Slaves, SlaveReply(d) PROVE CoverInv'
  <2>1. /\ UNCHANGED <<enabled, on, active, commitPos, reported>>
        /\ received' = [received EXCEPT ![d] = @ + 1]
    BY <1>9 DEF SlaveReply
  <2>2. \A e \in Slaves : received'[e] = received[e] \/ received'[e] = received[e] + 1
    BY <2>1 DEF BasicType
  <2>3. \A e \in Slaves : \A t \in Trx : received[e] >= t => received'[e] >= t
    <3>1. \A e \in Slaves : received[e] \in Int
      BY DEF BasicType, Positions
    <3>2. \A t \in Trx : t \in Int
      BY DEF Trx
    <3> QED BY <2>2, <3>1, <3>2
  <2> QED BY <1>1, <2>1, <2>3
<1>10. ASSUME NEW d \in Slaves, DumpStart(d) PROVE CoverInv'
  BY <1>10, CoverReport DEF DumpStart
<1>11. ASSUME NEW d \in Slaves, ReadSlaveReply(d) PROVE CoverInv'
  <2>1. sent[d] = received[d]
    BY <1>11 DEF ReadSlaveReply, SafeInv, SlaveOrder
  <2> QED BY <1>11, <2>1, CoverReport DEF ReadSlaveReply
<1>12. ASSUME NEW d \in Slaves, DumpEnd(d) PROVE CoverInv'
  BY <1>2, <1>3, <1>12 DEF DumpEnd, SwitchOff
<1>13. ASSUME EnableMaster \/ DisableMaster PROVE CoverInv'
  BY <1>4, <1>13 DEF EnableMaster, DisableMaster
<1>14. CASE UNCHANGED vars
  BY <1>2, <1>14 DEF vars
<1> QED BY <1>5, <1>6, <1>7, <1>8, <1>9, <1>10, <1>11, <1>12, <1>13, <1>14
        DEF Next, Step, DumpStep

\* The invariant of what was reported since semi-sync was enabled.
THEOREM Cover == Spec => [](BasicType /\ SafeInv /\ CoverInv)
<1>1. Init => CoverInv
  BY DEF Init, CoverInv, ReportedInv, OnCoversAll
<1>2. BasicType /\ SafeInv /\ CoverInv /\ [Next]_vars => CoverInv'
  BY CoverStep
<1> QED BY <1>1, <1>2, Safe, PTL DEF Spec

\* While semi-sync is on, every transaction that writeTranxInBinlog() was told
\* of since the master was enabled is in the active list or on a slave.
THEOREM OnCoversAllHolds == Spec => []OnCoversAll
<1>1. CoverInv => OnCoversAll
  BY DEF CoverInv
<1> QED BY <1>1, Cover, PTL

\* try_switch_on(): the dump thread that switches semi-sync on again is the one
\* whose own slave has all that was reported since the master was enabled.
THEOREM SwitchOnAfterCatchUp == Spec => SwitchedOnCaughtUp
<1> DEFINE By(d) == dump'[d] # dump[d] /\ \A t \in reported : received[d] >= t
           A == ~on /\ on' /\ enabled => \E d \in Slaves : By(d)
<1>1. BasicType /\ SafeInv /\ CoverInv /\ [Next]_vars => [A]_vars
  <2> SUFFICES ASSUME BasicType, SafeInv, CoverInv, Next, ~on, on', enabled
               PROVE  \E d \in Slaves : By(d)
    BY DEF vars, semiVars
  <2> USE DEF semiVars, sessionVars, slaveVars, boundVars
  <2>1. \A d \in Slaves : received[d] \in Positions
    BY DEF BasicType
  <2>2. ASSUME NEW d \in Slaves, ReportReplyBinlog(d, received[d])
        PROVE  \A t \in reported : received[d] >= t
    BY <2>1, <2>2, CaughtUp DEF CoverInv
  <2>3. ASSUME NEW d \in Slaves, DumpStart(d)
        PROVE  \E e \in Slaves : By(e)
    <3>1. \A t \in reported : received[d] >= t
      BY <2>2, <2>3 DEF DumpStart
    <3>2. dump[d] = "starting" /\ dump'[d] # "starting"
      BY <2>3 DEF DumpStart, ReportReplyBinlog, BasicType
    <3> QED BY <3>1, <3>2
  <2>4. ASSUME NEW d \in Slaves, ReadSlaveReply(d)
        PROVE  \E e \in Slaves : By(e)
    <3>1. sent[d] = received[d] /\ ReportReplyBinlog(d, sent[d])
      BY <2>4 DEF ReadSlaveReply, SafeInv, SlaveOrder
    <3>2. \A t \in reported : received[d] >= t
      BY <2>2, <3>1
    <3>3. dump[d] = "reply" /\ dump'[d] # "reply"
      BY <2>4 DEF ReadSlaveReply, ReportReplyBinlog, BasicType
    <3> QED BY <3>2, <3>3
  <2>5. ASSUME NEW e \in Slaves,
               AddSlave(e) \/ SendEvent(e) \/ SlaveReply(e) \/ Broadcast(e) \/ DumpEnd(e)
        PROVE  FALSE
    BY <2>5 DEF AddSlave, SendEvent, SlaveReply, Broadcast, DumpEnd, SwitchOff
  <2>6. ASSUME NEW t \in Trx,
               SessionStep(t) \/ WriteTranxInBinlog(t) \/ Kill(t) \/ Expire(t) \/ TimeOut(t)
        PROVE  FALSE
    BY <2>6 DEF SessionStep, StopWaiting, Leave, WaitForReply, NoSemiSync,
                WriteTranxInBinlog, Kill, Expire, TimeOut, SwitchOff
  <2>7. ASSUME EnableMaster \/ DisableMaster PROVE FALSE
    BY <2>7 DEF EnableMaster, DisableMaster, SwitchOff
  <2> QED BY <2>3, <2>4, <2>5, <2>6, <2>7 DEF Next, Step, DumpStep
<1> QED BY <1>1, Cover, PTL DEF Spec, SwitchedOnCaughtUp
=============================================================================
