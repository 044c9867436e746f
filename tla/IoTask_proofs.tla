--------------------------- MODULE IoTask_proofs ----------------------------
(***************************************************************************)
(* Proofs about IoTask, for any number of requests, any mix of priorities   *)
(* and any commands: type correctness, that no request is lost or in two    *)
(* hands, that WaitIO() is sound, that no message is slept on, that the     *)
(* disk-change poll is never dropped and that a pause is not ended by a     *)
(* stale signal.                                                           *)
(***************************************************************************)
EXTENDS IoTask, DataLemmas

-----------------------------------------------------------------------------
(* The inductive invariant behind OnePlace and WaitIOSound.                   *)

\* A queued request is queued once and is nowhere else.
QueueInv ==
  /\ IsInjective(iomp)
  /\ \A r \in Queued :
       cpc[r] = "out" /\ r # cur /\ r \notin changeInts /\ replies[r] = 0

\* process_ioreq() has a request exactly between GetMsg() and ReplyMsg().
CurInv ==
  /\ cur = NoReq <=> tpc \notin {"io", "setPaused", "replyPause"}
  /\ cur # NoReq =>
       cpc[cur] = "out" /\ cur \notin changeInts /\ replies[cur] = 0

\* Message type, reply port and change-interrupt list agree with the client's
\* progress, and a request that is out is somewhere.
RequestInv(r) ==
  /\ replies[r] \in {0, 1}
  /\ replies[r] = 1 => cpc[r] = "out" /\ lnType[r] = "NT_REPLYMSG"
  /\ cpc[r] = "out" /\ lnType[r] = "NT_REPLYMSG" => replies[r] = 1
  /\ cpc[r] = "dispatch" => lnType[r] = "NT_MESSAGE" /\ r \in ValidReqs
  /\ r \in changeInts =>
       /\ r \in ValidReqs
       /\ replies[r] = 0
       /\ \/ cpc[r] = "out"
          \/ cpc[r] \in {"check", "dispatch"} /\ cmd[r] = "TD_REMCHANGEINT"
  /\ cpc[r] = "out" =>
       r \in Queued \/ r = cur \/ r \in changeInts \/ replies[r] = 1

IInv == TypeOK /\ QueueInv /\ CurInv /\ \A r \in Reqs : RequestInv(r)

-----------------------------------------------------------------------------

\* The model starts with every request at its client and an idle task.
LEMMA InitIInv == ASSUME ConstantsAssumption, Init PROVE IInv
<1>1. TypeOK
  BY EmptySeq DEF ConstantsAssumption, Init, TypeOK, ClientPcs, Commands, Errors, TaskPcs, PausePcs, Signals
<1>2. iomp = <<>> /\ iomp \in Seq(Reqs) /\ Len(iomp) = 0 /\ Queued = {} /\ IsInjective(iomp)
  BY EmptySeq DEF Init, Queued, ToSet, IsInjective
<1>3. QueueInv
  BY <1>2 DEF QueueInv
<1>4. CurInv
  BY DEF Init, CurInv
<1>5. \A r \in Reqs : RequestInv(r)
  BY DEF Init, RequestInv
<1> QED
  BY <1>1, <1>3, <1>4, <1>5 DEF IInv

\* Every step of a client leaves the types right.
LEMMA ClientTypeOK ==
  ASSUME ConstantsAssumption, IInv, NEW r \in Reqs, Client(r)
  PROVE  TypeOK'
<1> USE DEF IInv, At, Answer, ReplyMsg, Forget, clientVars, taskVars
<1>1. ASSUME NEW c \in Sends[r], NEW q \in BOOLEAN, CallBeginIO(r, c, q) PROVE TypeOK'
  <2>1. c \in Commands
    BY <1>1 DEF ConstantsAssumption
  <2> QED
    BY <1>1, <2>1 DEF CallBeginIO, TypeOK, ClientPcs
<1>2. CASE AcceptIoreq(r)
  BY <1>2 DEF AcceptIoreq, TypeOK, ClientPcs
<1>3. CASE RejectIoreq(r)
  BY <1>3 DEF RejectIoreq, TypeOK, ClientPcs, Errors
<1>4. CASE Immediate(r)
  BY <1>4 DEF Immediate, TypeOK, ClientPcs, Errors
<1>5. CASE AddChangeInt(r)
  BY <1>5 DEF AddChangeInt, TypeOK, ClientPcs, Errors
<1>6. CASE RemChangeInt(r)
  BY <1>6 DEF RemChangeInt, TypeOK, ClientPcs, Errors
<1>7. CASE ResumeTest(r)
  <2>1. \/ At(r, "dispatch", "signal") /\ UNCHANGED ioError
        \/ At(r, "dispatch", "finish") /\ Answer(r, "IOERR_ABORTED")
    BY <1>7, Zenon DEF ResumeTest
  <2>2. UNCHANGED <<cmd, quick, lnType, replies, runs, recalled, changeInts, iomp, sigs, paused, taskVars>>
    BY <1>7, Zenon DEF ResumeTest
  <2>3. cpc' \in [Reqs -> ClientPcs] /\ ioError' \in [Reqs -> Errors]
    <3>1. CASE At(r, "dispatch", "signal") /\ UNCHANGED ioError
      BY <3>1 DEF TypeOK, ClientPcs, Errors
    <3>2. CASE At(r, "dispatch", "finish") /\ Answer(r, "IOERR_ABORTED")
      BY <3>2 DEF TypeOK, ClientPcs, Errors
    <3> QED
      BY <2>1, <3>1, <3>2
  <2> QED
    BY <2>2, <2>3 DEF TypeOK
<1>8. CASE ResumeSignal(r)
  BY <1>8 DEF ResumeSignal, TypeOK, ClientPcs, Signals
<1>9. CASE ResumeClear(r)
  BY <1>9 DEF ResumeClear, TypeOK, ClientPcs, Errors
<1>10. CASE PauseTest(r)
  <2>1. \/ At(r, "dispatch", "finish") /\ Answer(r, "IOERR_UNITBUSY")
        \/ At(r, "dispatch", "put") /\ UNCHANGED ioError
    BY <1>10, Zenon DEF PauseTest
  <2>2. UNCHANGED <<cmd, quick, lnType, replies, runs, recalled, changeInts, iomp, sigs, paused, taskVars>>
    BY <1>10, Zenon DEF PauseTest
  <2>3. cpc' \in [Reqs -> ClientPcs] /\ ioError' \in [Reqs -> Errors]
    <3>1. CASE At(r, "dispatch", "finish") /\ Answer(r, "IOERR_UNITBUSY")
      BY <3>1 DEF TypeOK, ClientPcs, Errors
    <3>2. CASE At(r, "dispatch", "put") /\ UNCHANGED ioError
      BY <3>2 DEF TypeOK, ClientPcs, Errors
    <3> QED
      BY <2>1, <3>1, <3>2
  <2> QED
    BY <2>2, <2>3 DEF TypeOK
<1>11. CASE ForTask(r)
  BY <1>11 DEF ForTask, TypeOK, ClientPcs
<1>12. CASE SendToTask(r)
  <2>1. iomp' \in Seq(Reqs)
    BY <1>12, AppendProperties DEF SendToTask, TypeOK
  <2> QED
    BY <1>12, <2>1 DEF SendToTask, TypeOK, ClientPcs, Signals
<1>13. CASE FinishWithReply(r)
  BY <1>13 DEF FinishWithReply, TypeOK, ClientPcs
<1>14. CASE FinishQuick(r)
  BY <1>14 DEF FinishQuick, TypeOK, ClientPcs, Commands, Errors
<1>15. CASE WaitIO(r)
  <2>1. replies[r] = 1
    BY <1>15 DEF WaitIO, RequestInv
  <2> QED
    BY <1>15, <2>1 DEF WaitIO, TypeOK, ClientPcs, Commands, Errors
<1>16. CASE AbortIO(r)
  <2>1. iomp' \in Seq(Reqs)
    BY <1>16, RemoveAtFacts DEF AbortIO, TypeOK, QueueInv
  <2>2. Answer(r, "IOERR_ABORTED") /\ ReplyMsg(r)
        /\ UNCHANGED <<cpc, cmd, quick, runs, changeInts, sigs, paused, taskVars>>
        /\ recalled' = recalled \cup {r}
    BY <1>16, Zenon DEF AbortIO
  <2> QED
    BY <2>1, <2>2 DEF TypeOK, Errors
<1> QED
  BY <1>1, <1>2, <1>3, <1>4, <1>5, <1>6, <1>7, <1>8, <1>9, <1>10, <1>11, <1>12,
     <1>13, <1>14, <1>15, <1>16 DEF Client, BeginIO

\* Every step of the IO task and of its timer leaves the types right.
LEMMA TaskTypeOK ==
  ASSUME ConstantsAssumption, IInv, Task \/ TimerExpires
  PROVE  TypeOK'
<1> USE DEF IInv, Goto, Answer, ReplyMsg, clientVars
<1>1. CASE TaskWait
  BY <1>1 DEF TaskWait, TypeOK, TaskPcs
<1>2. CASE GetMsg
  <2>1. iomp' \in Seq(Reqs) /\ cur' \in Reqs
    BY <1>2, TailFacts DEF GetMsg, TypeOK, QueueInv
  <2> QED
    BY <1>2, <2>1 DEF GetMsg, TypeOK, TaskPcs, PausePcs
<1>3. CASE Drained
  BY <1>3 DEF Drained, TypeOK, TaskPcs
<1>4. CASE ProcessIoreq
  <2>1. cur \in Reqs
    BY <1>4 DEF ProcessIoreq, CurInv, TypeOK
  <2> QED
    BY <1>4, <2>1 DEF ProcessIoreq, TypeOK, TaskPcs, Errors
<1>5. CASE SetPaused
  BY <1>5 DEF SetPaused, TypeOK, TaskPcs, PausePcs
<1>6. CASE ReplyPause
  <2>1. cur \in Reqs
    BY <1>6 DEF ReplyPause, CurInv, TypeOK
  <2> QED
    BY <1>6, <2>1 DEF ReplyPause, TypeOK, TaskPcs, PausePcs, Errors
<1>7. CASE ClearCtrlD
  BY <1>7 DEF ClearCtrlD, TypeOK, TaskPcs, PausePcs
<1>8. CASE Resumed
  BY <1>8 DEF Resumed, TypeOK, TaskPcs
<1>9. CASE NoTimer
  BY <1>9 DEF NoTimer, TypeOK, TaskPcs
<1>10. CASE TimerFired
  BY <1>10 DEF TimerFired, TypeOK, TaskPcs
<1>11. CASE DiskChangeCheck
  BY <1>11 DEF DiskChangeCheck, TypeOK, TaskPcs
<1>12. CASE TimerExpires
  BY <1>12 DEF TimerExpires, TypeOK, Signals
<1> QED
  BY <1>1, <1>2, <1>3, <1>4, <1>5, <1>6, <1>7, <1>8, <1>9, <1>10, <1>11, <1>12 DEF Task

-----------------------------------------------------------------------------
(* Every step keeps the inductive invariant.                                  *)

\* Steps that leave the queue and the task alone, and touch one request only.
LEMMA LocalStep ==
  ASSUME IInv, TypeOK', NEW r \in Reqs,
         UNCHANGED <<iomp, taskVars>>,
         \A s \in Reqs \ {r} :
           /\ cpc'[s] = cpc[s] /\ cmd'[s] = cmd[s]
           /\ lnType'[s] = lnType[s] /\ replies'[s] = replies[s]
           /\ s \in changeInts' <=> s \in changeInts,
         r \notin Queued, r # cur,
         RequestInv(r)'
  PROVE  IInv'
<1>1. QueueInv'
  <2>1. UNCHANGED <<iomp, cur>> /\ Queued' = Queued
    BY DEF taskVars, Queued
  <2>2. IsInjective(iomp)'
    BY <2>1 DEF IInv, QueueInv
  <2>3. ASSUME NEW s \in Queued
        PROVE  cpc'[s] = "out" /\ s # cur /\ s \notin changeInts' /\ replies'[s] = 0
    <3>1. s \in Reqs \ {r}
      BY SetOfSequence DEF IInv, TypeOK, Queued
    <3>2. cpc[s] = "out" /\ s # cur /\ s \notin changeInts /\ replies[s] = 0
      BY DEF IInv, QueueInv
    <3> QED
      BY <3>1, <3>2
  <2> QED
    BY <2>1, <2>2, <2>3 DEF QueueInv
<1>2. CurInv'
  BY DEF IInv, CurInv, TypeOK, taskVars
<1>3. ASSUME NEW s \in Reqs PROVE RequestInv(s)'
  <2>1. CASE s = r
    BY <2>1
  <2>2. CASE s # r
    <3>1. RequestInv(s)
      BY DEF IInv
    <3> QED
      BY <2>2, <3>1 DEF RequestInv, Queued, taskVars
  <2> QED
    BY <2>1, <2>2
<1> QED
  BY <1>1, <1>2, <1>3 DEF IInv

\* begin_io() runs while its request is nowhere else.
LEMMA InBeginIO ==
  ASSUME ConstantsAssumption, IInv, NEW r \in Reqs, cpc[r] # "out"
  PROVE  /\ r \notin Queued /\ r # cur /\ replies[r] = 0
         /\ r \in changeInts =>
              /\ r \in ValidReqs /\ cmd[r] = "TD_REMCHANGEINT"
              /\ cpc[r] \in {"check", "dispatch"}
<1>1. RequestInv(r)
  BY DEF IInv
<1>2. r \notin Queued
  BY DEF IInv, QueueInv
<1>3. r # cur
  BY DEF IInv, CurInv, ConstantsAssumption
<1> QED
  BY <1>1, <1>2, <1>3 DEF RequestInv

\* A request on its port or in the list of change interrupts is nowhere else.
LEMMA Answered ==
  ASSUME ConstantsAssumption, IInv, NEW r \in Reqs, replies[r] = 1 \/ r \in changeInts
  PROVE  r \notin Queued /\ r # cur
<1>1. r \notin Queued
  BY DEF IInv, QueueInv
<1>2. r # cur
  BY DEF IInv, CurInv, ConstantsAssumption
<1> QED
  BY <1>1, <1>2

\* Every step of a client keeps the invariant.
LEMMA ClientIInv ==
  ASSUME ConstantsAssumption, IInv, NEW r \in Reqs, Client(r)
  PROVE  IInv'
<1>1. TypeOK'
  BY ClientTypeOK
<1>2. RequestInv(r) /\ TypeOK
  BY DEF IInv
<1> USE DEF At, Answer, ReplyMsg, Forget, clientVars, taskVars
<1>3. ASSUME NEW c \in Sends[r], NEW q \in BOOLEAN, CallBeginIO(r, c, q) PROVE IInv'
  <2>1. r \notin Queued /\ r # cur
    BY <1>3, InBeginIO, Answered DEF CallBeginIO
  <2>2. RequestInv(r)'
    BY <1>2, <1>3, InBeginIO DEF CallBeginIO, RequestInv, TypeOK
  <2> QED
    BY <1>1, <1>2, <1>3, <2>1, <2>2, LocalStep DEF CallBeginIO, TypeOK
<1>4. CASE AcceptIoreq(r)
  <2>1. RequestInv(r)'
    BY <1>2, <1>4, InBeginIO DEF AcceptIoreq, RequestInv, TypeOK
  <2> QED
    BY <1>1, <1>2, <1>4, <2>1, InBeginIO, LocalStep DEF AcceptIoreq, TypeOK
<1>5. CASE RejectIoreq(r)
  <2>1. RequestInv(r)'
    BY <1>2, <1>5, InBeginIO DEF RejectIoreq, RequestInv, TypeOK
  <2> QED
    BY <1>1, <1>2, <1>5, <2>1, InBeginIO, LocalStep DEF RejectIoreq, TypeOK
<1>6. CASE Immediate(r)
  <2>1. RequestInv(r)'
    BY <1>2, <1>6, InBeginIO DEF Immediate, RequestInv, TypeOK
  <2> QED
    BY <1>1, <1>2, <1>6, <2>1, InBeginIO, LocalStep DEF Immediate, TypeOK
<1>7. CASE AddChangeInt(r)
  <2>1. r \in ValidReqs
    BY <1>2, <1>7 DEF AddChangeInt, RequestInv
  <2>2. RequestInv(r)'
    BY <1>2, <1>7, <2>1, InBeginIO DEF AddChangeInt, RequestInv, TypeOK
  <2> QED
    BY <1>1, <1>2, <1>7, <2>2, InBeginIO, LocalStep DEF AddChangeInt, TypeOK
<1>8. CASE RemChangeInt(r)
  <2>1. RequestInv(r)'
    BY <1>2, <1>8, InBeginIO DEF RemChangeInt, RequestInv, TypeOK
  <2> QED
    BY <1>1, <1>2, <1>8, <2>1, InBeginIO, LocalStep DEF RemChangeInt, TypeOK
<1>9. CASE ResumeTest(r) \/ PauseTest(r)
  <2>1. /\ cpc[r] = "dispatch" /\ cmd[r] # "TD_REMCHANGEINT"
        /\ cpc' = [cpc EXCEPT ![r] = cpc'[r]]
        /\ cpc'[r] \in {"signal", "put", "finish"}
        /\ UNCHANGED <<cmd, lnType, replies, changeInts, iomp, taskVars>>
    BY <1>2, <1>9, Zenon DEF ResumeTest, PauseTest, TypeOK
  <2>2. RequestInv(r)'
    BY <1>2, <2>1, InBeginIO DEF RequestInv, TypeOK
  <2> QED
    BY <1>1, <1>2, <2>1, <2>2, InBeginIO, LocalStep DEF TypeOK
<1>10. CASE ResumeSignal(r)
  <2>1. RequestInv(r)'
    BY <1>2, <1>10, InBeginIO DEF ResumeSignal, RequestInv, TypeOK
  <2> QED
    BY <1>1, <1>2, <1>10, <2>1, InBeginIO, LocalStep DEF ResumeSignal, TypeOK
<1>11. CASE ResumeClear(r)
  <2>1. RequestInv(r)'
    BY <1>2, <1>11, InBeginIO DEF ResumeClear, RequestInv, TypeOK
  <2> QED
    BY <1>1, <1>2, <1>11, <2>1, InBeginIO, LocalStep DEF ResumeClear, TypeOK
<1>12. CASE ForTask(r)
  <2>1. RequestInv(r)'
    BY <1>2, <1>12, InBeginIO DEF ForTask, RequestInv, TypeOK
  <2> QED
    BY <1>1, <1>2, <1>12, <2>1, InBeginIO, LocalStep DEF ForTask, TypeOK
<1>13. CASE SendToTask(r)
  <2>1. /\ r \notin Queued /\ r # cur /\ replies[r] = 0 /\ r \notin changeInts
    BY <1>13, InBeginIO DEF SendToTask
  <2>2. Queued' = Queued \cup {r} /\ IsInjective(iomp')
    BY <1>2, <1>13, <2>1, AppendFacts DEF SendToTask, IInv, QueueInv, Queued, TypeOK
  <2>3. QueueInv'
    BY <1>2, <1>13, <2>1, <2>2, SetOfSequence DEF SendToTask, IInv, QueueInv, TypeOK
  <2>4. CurInv'
    BY <1>2, <1>13, <2>1 DEF SendToTask, IInv, CurInv, TypeOK
  <2>5. ASSUME NEW s \in Reqs PROVE RequestInv(s)'
    <3>1. RequestInv(s)
      BY DEF IInv
    <3> QED
      BY <1>2, <1>13, <2>1, <2>2, <3>1 DEF SendToTask, RequestInv, TypeOK
  <2> QED
    BY <1>1, <2>3, <2>4, <2>5 DEF IInv
<1>14. CASE FinishWithReply(r)
  <2>1. RequestInv(r)'
    BY <1>2, <1>14, InBeginIO DEF FinishWithReply, RequestInv, TypeOK
  <2> QED
    BY <1>1, <1>2, <1>14, <2>1, InBeginIO, LocalStep DEF FinishWithReply, TypeOK
<1>15. CASE FinishQuick(r)
  <2>1. RequestInv(r)'
    BY <1>2, <1>15, InBeginIO DEF FinishQuick, RequestInv, TypeOK
  <2> QED
    BY <1>1, <1>2, <1>15, <2>1, InBeginIO, LocalStep DEF FinishQuick, TypeOK
<1>16. CASE WaitIO(r)
  <2>1. replies[r] = 1 /\ r \notin changeInts
    BY <1>2, <1>16 DEF WaitIO, RequestInv
  <2>2. RequestInv(r)'
    BY <1>2, <1>16, <2>1 DEF WaitIO, RequestInv, TypeOK
  <2> QED
    BY <1>1, <1>2, <1>16, <2>1, <2>2, Answered, LocalStep DEF WaitIO, TypeOK
<1>17. CASE AbortIO(r)
  <2>1. PICK i \in 1 .. Len(iomp) : iomp[i] = r /\ iomp' = RemoveAt(iomp, i)
    BY <1>17 DEF AbortIO
  <2>2. Queued' = Queued \ {r} /\ IsInjective(iomp') /\ r \in Queued
    BY <1>2, <2>1, RemoveAtFacts, SetOfSequence DEF IInv, QueueInv, Queued, TypeOK
  <2>3. r # cur /\ r \notin changeInts /\ replies[r] = 0
    BY <2>2 DEF IInv, QueueInv
  <2>4. QueueInv'
    BY <1>2, <1>17, <2>2, SetOfSequence DEF AbortIO, IInv, QueueInv, Queued, TypeOK
  <2>5. CurInv'
    BY <1>2, <1>17, <2>3 DEF AbortIO, IInv, CurInv, TypeOK
  <2>6. ASSUME NEW s \in Reqs PROVE RequestInv(s)'
    <3>1. RequestInv(s)
      BY DEF IInv
    <3> QED
      BY <1>2, <1>17, <2>2, <2>3, <3>1 DEF AbortIO, RequestInv, TypeOK
  <2> QED
    BY <1>1, <2>4, <2>5, <2>6 DEF IInv
<1> QED
  BY <1>3, <1>4, <1>5, <1>6, <1>7, <1>8, <1>9, <1>10, <1>11, <1>12, <1>13, <1>14,
     <1>15, <1>16, <1>17 DEF Client, BeginIO

\* Every step of the task and its timer keeps the invariant.
LEMMA TaskIInv ==
  ASSUME ConstantsAssumption, IInv, Task \/ TimerExpires
  PROVE  IInv'
<1>1. TypeOK'
  BY TaskTypeOK
<1>2. TypeOK
  BY DEF IInv
<1> USE DEF Goto, Answer, ReplyMsg, clientVars
<1>3. CASE GetMsg
  <2>1. /\ Queued' = Queued \ {cur'} /\ IsInjective(iomp')
        /\ cur' \in Queued /\ cur' \in Reqs /\ cur = NoReq
    BY <1>2, <1>3, TailFacts DEF GetMsg, IInv, QueueInv, CurInv, Queued, TypeOK
  <2>2. QueueInv'
    BY <1>2, <1>3, <2>1 DEF GetMsg, IInv, QueueInv
  <2>3. CurInv'
    <3>1. cpc[cur'] = "out" /\ cur' \notin changeInts /\ replies[cur'] = 0
      BY <2>1 DEF IInv, QueueInv
    <3>2. cur' # NoReq /\ tpc' \in {"setPaused", "io"}
      BY <1>3, <2>1 DEF GetMsg, ConstantsAssumption
    <3> QED
      BY <1>3, <3>1, <3>2 DEF GetMsg, CurInv
  <2>4. ASSUME NEW s \in Reqs PROVE RequestInv(s)'
    <3>1. RequestInv(s)
      BY DEF IInv
    <3> QED
      BY <1>3, <2>1, <3>1, ConstantsAssumption DEF GetMsg, RequestInv, ConstantsAssumption
  <2> QED
    BY <1>1, <2>2, <2>3, <2>4 DEF IInv
<1>4. CASE ProcessIoreq \/ ReplyPause
  <2>1. /\ cur \in Reqs /\ cur' = NoReq
        /\ cpc[cur] = "out" /\ cur \notin changeInts /\ replies[cur] = 0 /\ cur \notin Queued
        /\ tpc' \in {"drain", "clearCtrlD"}
        /\ UNCHANGED <<cpc, cmd, changeInts, iomp>>
        /\ lnType' = [lnType EXCEPT ![cur] = "NT_REPLYMSG"]
        /\ replies' = [replies EXCEPT ![cur] = @ + 1]
    BY <1>2, <1>4 DEF ProcessIoreq, ReplyPause, IInv, CurInv, QueueInv, TypeOK
  <2>2. QueueInv'
    BY <1>2, <2>1, SetOfSequence DEF IInv, QueueInv, Queued, TypeOK, ConstantsAssumption
  <2>3. CurInv'
    BY <2>1 DEF CurInv
  <2>4. ASSUME NEW s \in Reqs PROVE RequestInv(s)'
    <3>1. RequestInv(s) /\ Queued' = Queued
      BY <2>1 DEF IInv, Queued
    <3> QED
      BY <1>2, <2>1, <3>1 DEF RequestInv, TypeOK
  <2> QED
    BY <1>1, <2>2, <2>3, <2>4 DEF IInv
<1>5. CASE UNCHANGED <<clientVars, changeInts, iomp, cur>> /\ CurInv'
  <2>1. QueueInv' /\ \A s \in Reqs : RequestInv(s)'
    BY <1>5 DEF IInv, QueueInv, RequestInv, Queued
  <2> QED
    BY <1>1, <1>5, <2>1 DEF IInv
<1>6. CASE TaskWait \/ Drained \/ SetPaused \/ ClearCtrlD \/ Resumed \/ NoTimer
           \/ TimerFired \/ DiskChangeCheck \/ TimerExpires
  <2>1. UNCHANGED <<clientVars, changeInts, iomp, cur>>
    BY <1>6 DEF TaskWait, Drained, SetPaused, ClearCtrlD, Resumed, NoTimer, TimerFired,
                DiskChangeCheck, TimerExpires
  <2>2. \/ tpc' = tpc
        \/ tpc \notin {"io", "setPaused", "replyPause"} /\ tpc' \notin {"io", "setPaused", "replyPause"}
        \/ tpc = "setPaused" /\ tpc' = "replyPause"
    BY <1>6, Zenon DEF TaskWait, Drained, SetPaused, ClearCtrlD, Resumed, NoTimer, TimerFired,
                DiskChangeCheck, TimerExpires
  <2>3. CurInv'
    BY <2>1, <2>2 DEF IInv, CurInv
  <2> QED
    BY <1>5, <2>1, <2>3
<1> QED
  BY <1>3, <1>4, <1>6 DEF Task

\* IInv holds in every state of every behaviour.
THEOREM Invariance == Spec => []IInv
<1>1. Init => IInv
  BY InitIInv, ConstantsAssumption
<1>2. IInv /\ [Next]_vars => IInv'
  <2> SUFFICES ASSUME IInv, [Next]_vars PROVE IInv'
    OBVIOUS
  <2>1. CASE UNCHANGED vars
    BY <2>1 DEF vars, clientVars, taskVars, IInv, TypeOK, QueueInv, CurInv, RequestInv, Queued
  <2>2. CASE Next
    BY <2>2, ClientIInv, TaskIInv, ConstantsAssumption DEF Next
  <2> QED
    BY <2>1, <2>2
<1> QED
  BY <1>1, <1>2, PTL DEF Spec

\* Every variable keeps its type.
THEOREM TypeCorrect == Spec => []TypeOK
BY Invariance, PTL DEF IInv

\* No request is lost, and none is in two hands.
THEOREM OnePlaceHolds == Spec => []OnePlace
<1>1. IInv => OnePlace
  <2> SUFFICES ASSUME IInv PROVE OnePlace
    OBVIOUS
  <2>1. ASSUME NEW r \in Reqs, cpc[r] = "out"
        PROVE  \E p \in Places(r) : Places(r) = {p}
    <3>1. RequestInv(r) /\ QueueInv /\ CurInv
      BY DEF IInv
    <3>2. CASE r \in Queued
      <4>1. r # cur /\ r \notin changeInts /\ ~(replies[r] > 0)
        BY <3>1, <3>2 DEF QueueInv
      <4>2. Places(r) = {"queue"}
        BY <3>2, <4>1 DEF Places
      <4> QED
        BY <4>2
    <3>3. CASE r = cur
      <4>1. r \notin Queued /\ r \notin changeInts /\ ~(replies[r] > 0)
        BY <3>1, <3>3, ConstantsAssumption DEF QueueInv, CurInv, ConstantsAssumption
      <4>2. Places(r) = {"task"}
        BY <3>3, <4>1 DEF Places
      <4> QED
        BY <4>2
    <3>4. CASE r \in changeInts
      <4>1. r \notin Queued /\ r # cur /\ ~(replies[r] > 0)
        BY <3>1, <3>4, Answered, ConstantsAssumption DEF RequestInv
      <4>2. Places(r) = {"list"}
        BY <3>4, <4>1 DEF Places
      <4> QED
        BY <4>2
    <3>5. CASE replies[r] = 1
      <4>1. r \notin Queued /\ r # cur /\ r \notin changeInts
        BY <3>1, <3>5, Answered, ConstantsAssumption DEF RequestInv
      <4>2. Places(r) = {"port"}
        BY <3>5, <4>1 DEF Places
      <4> QED
        BY <4>2
    <3> QED
      BY <2>1, <3>1, <3>2, <3>3, <3>4, <3>5 DEF RequestInv
  <2>2. ASSUME NEW r \in Reqs, cpc[r] = "idle" PROVE Places(r) = {}
    <3>1. r \notin Queued /\ r # cur /\ r \notin changeInts /\ ~(replies[r] > 0)
      BY <2>2, InBeginIO, ConstantsAssumption
    <3> QED
      BY <3>1 DEF Places
  <2>3. \A r \in Reqs : replies[r] <= 1
    BY DEF IInv, RequestInv
  <2>4. IsInjective(iomp)
    BY DEF IInv, QueueInv
  <2> QED
    BY <2>1, <2>2, <2>3, <2>4 DEF OnePlace
<1> QED
  BY <1>1, Invariance, PTL

\* WaitIO() returns for a request exactly when its answer is on the port.
THEOREM WaitIOSoundHolds == Spec => []WaitIOSound
<1>1. IInv => WaitIOSound
  BY DEF IInv, RequestInv, WaitIOSound
<1> QED
  BY <1>1, Invariance, PTL

-----------------------------------------------------------------------------
(* Signals: nothing is slept on.                                              *)

\* The steps that touch neither the queue, nor the signals, nor the task.
QuietStep == UNCHANGED <<iomp, sigs, taskVars>>

LEMMA ClientSignals ==
  ASSUME NEW r \in Reqs, Client(r)
  PROVE  \/ QuietStep
         \/ SendToTask(r)
         \/ ResumeSignal(r)
         \/ AbortIO(r)
BY Zenon DEF Client, BeginIO, QuietStep, CallBeginIO, AcceptIoreq, RejectIoreq, Immediate,
   AddChangeInt, RemChangeInt, ResumeTest, ResumeClear, PauseTest, ForTask,
   FinishWithReply, FinishQuick, WaitIO

\* The task does not sleep while its queue holds a request it was not
\* signalled about.
THEOREM NoLostMessageHolds == Spec => []NoLostMessage
<1>1. Init => NoLostMessage
  BY DEF Init, NoLostMessage
<1>2. IInv /\ NoLostMessage /\ [Next]_vars => NoLostMessage'
  <2> SUFFICES ASSUME IInv, NoLostMessage, [Next]_vars PROVE NoLostMessage'
    OBVIOUS
  <2> USE DEF NoLostMessage, Goto, taskVars
  <2>1. CASE UNCHANGED vars \/ QuietStep
    BY <2>1 DEF vars, QuietStep
  <2>2. ASSUME NEW r \in Reqs, SendToTask(r) PROVE NoLostMessage'
    BY <2>2 DEF SendToTask
  <2>3. ASSUME NEW r \in Reqs, ResumeSignal(r) PROVE NoLostMessage'
    BY <2>3 DEF ResumeSignal
  <2>4. ASSUME NEW r \in Reqs, AbortIO(r) PROVE NoLostMessage'
    <3>1. iomp # <<>>
      BY <2>4, EmptySeq DEF AbortIO, IInv, TypeOK
    <3> QED
      BY <2>4, <3>1 DEF AbortIO
  <2>5. CASE TaskWait
    BY <2>5 DEF TaskWait, SignalMask
  <2>6. CASE GetMsg \/ ProcessIoreq \/ SetPaused \/ ReplyPause \/ ClearCtrlD \/ Resumed
    <3>1. tpc' \notin {"timer", "check", "wait"}
      BY <2>6 DEF GetMsg, ProcessIoreq, SetPaused, ReplyPause, ClearCtrlD, Resumed
    <3> QED
      BY <3>1
  <2>7. CASE Drained
    BY <2>7 DEF Drained
  <2>8. CASE NoTimer \/ TimerFired \/ DiskChangeCheck
    BY <2>8 DEF NoTimer, TimerFired, DiskChangeCheck
  <2>9. CASE TimerExpires
    BY <2>9 DEF TimerExpires
  <2> QED
    BY <2>1, <2>2, <2>3, <2>4, <2>5, <2>6, <2>7, <2>8, <2>9, ClientSignals DEF Next, Task
<1> QED
  BY <1>1, <1>2, Invariance, PTL DEF Spec

\* The disk-change timer is always running, on its way, or being served.
THEOREM PollPendingHolds == Spec => []PollPending
<1>1. Init => PollPending
  BY DEF Init, PollPending
<1>2. PollPending /\ [Next]_vars => PollPending'
  <2> SUFFICES ASSUME PollPending, [Next]_vars PROVE PollPending'
    OBVIOUS
  <2> USE DEF PollPending, Goto, taskVars
  <2>1. CASE UNCHANGED vars \/ QuietStep
    BY <2>1 DEF vars, QuietStep
  <2>2. ASSUME NEW r \in Reqs, SendToTask(r) \/ ResumeSignal(r) \/ AbortIO(r) PROVE PollPending'
    BY <2>2 DEF SendToTask, ResumeSignal, AbortIO
  <2>3. CASE TaskWait
    BY <2>3 DEF TaskWait, SignalMask
  <2>4. CASE GetMsg \/ ProcessIoreq \/ SetPaused \/ ReplyPause \/ Drained
    BY <2>4 DEF GetMsg, ProcessIoreq, SetPaused, ReplyPause, Drained
  <2>5. CASE ClearCtrlD \/ Resumed
    BY <2>5 DEF ClearCtrlD, Resumed
  <2>6. CASE NoTimer \/ TimerFired \/ DiskChangeCheck \/ TimerExpires
    BY <2>6 DEF NoTimer, TimerFired, DiskChangeCheck, TimerExpires
  <2> QED
    BY <2>1, <2>2, <2>3, <2>4, <2>5, <2>6, ClientSignals DEF Next, Task
<1> QED
  BY <1>1, <1>2, PTL DEF Spec

-----------------------------------------------------------------------------
(* Pause and resume.                                                          *)

\* A paused task that finds the resume signal was signalled by a client that
\* has still to clear the flag: SetSignal(0,CTRL_D) removed every older one.
PauseInv ==
  /\ PausedMeansQuiet
  /\ tpc = "pauseWait" /\ "ctrl_d" \in sigs /\ paused =>
       \E r \in Reqs : cpc[r] = "unpause"

\* A stale signal does not end a pause.
THEOREM PausedMeansQuietHolds == Spec => []PausedMeansQuiet
<1>1. Init => PauseInv
  BY DEF Init, PauseInv, PausedMeansQuiet
<1>2. IInv /\ PauseInv /\ [Next]_vars => PauseInv'
  <2> SUFFICES ASSUME IInv, PauseInv, [Next]_vars PROVE PauseInv'
    OBVIOUS
  <2> USE DEF PauseInv, PausedMeansQuiet, PausePcs, Goto, taskVars
  <2>1. CASE UNCHANGED vars
    BY <2>1 DEF vars, clientVars
  <2>2. ASSUME NEW r \in Reqs, Client(r) PROVE PauseInv'
    <3>1. CASE ResumeSignal(r)
      BY <3>1 DEF ResumeSignal, At, IInv, TypeOK
    <3>2. CASE ResumeClear(r)
      BY <3>2 DEF ResumeClear
    <3>3. CASE ~ResumeSignal(r) /\ ~ResumeClear(r)
      <4>1. /\ UNCHANGED <<paused, tpc>>
            /\ "ctrl_d" \in sigs' <=> "ctrl_d" \in sigs
        BY <2>2, <3>3, Zenon DEF Client, BeginIO, CallBeginIO, AcceptIoreq, RejectIoreq, Immediate,
           AddChangeInt, RemChangeInt, ResumeTest, PauseTest, ForTask, SendToTask,
           FinishWithReply, FinishQuick, WaitIO, AbortIO
      <4>2. \A s \in Reqs : cpc[s] = "unpause" => cpc'[s] = "unpause"
        BY <2>2, <3>3 DEF Client, BeginIO, CallBeginIO, AcceptIoreq, RejectIoreq, Immediate,
           AddChangeInt, RemChangeInt, ResumeTest, PauseTest, ForTask, SendToTask,
           FinishWithReply, FinishQuick, WaitIO, AbortIO, At, IInv, TypeOK
      <4> QED
        BY <4>1, <4>2
    <3> QED
      BY <3>1, <3>2, <3>3
  <2>3. CASE Task \/ TimerExpires
    <3>1. UNCHANGED cpc
      BY <2>3, Zenon DEF Task, TaskWait, GetMsg, Drained, ProcessIoreq, SetPaused, ReplyPause, ClearCtrlD,
         Resumed, NoTimer, TimerFired, DiskChangeCheck, TimerExpires, clientVars
    <3>2. CASE SetPaused \/ ReplyPause \/ ClearCtrlD
      BY <3>1, <3>2 DEF SetPaused, ReplyPause, ClearCtrlD
    <3>3. CASE Resumed
      BY <3>1, <3>3 DEF Resumed
    <3>4. CASE ~(SetPaused \/ ReplyPause \/ ClearCtrlD \/ Resumed)
      <4>1. \/ TaskWait \/ GetMsg \/ Drained \/ ProcessIoreq \/ NoTimer \/ TimerFired
            \/ DiskChangeCheck \/ TimerExpires
        BY <2>3, <3>4, Zenon DEF Task
      <4>2. paused' = paused
        BY <4>1, Zenon DEF TaskWait, GetMsg, Drained, ProcessIoreq, NoTimer, TimerFired,
           DiskChangeCheck, TimerExpires
      <4>3. tpc' = tpc \/ (tpc \notin PausePcs /\ tpc' # "pauseWait")
        BY <4>1 DEF TaskWait, GetMsg, Drained, ProcessIoreq, NoTimer, TimerFired,
           DiskChangeCheck, TimerExpires
      <4>4. "ctrl_d" \in sigs' => "ctrl_d" \in sigs
        BY <4>1 DEF TaskWait, GetMsg, Drained, ProcessIoreq, NoTimer, TimerFired,
           DiskChangeCheck, TimerExpires
      <4> QED
        BY <3>1, <4>2, <4>3, <4>4
    <3> QED
      BY <3>2, <3>3, <3>4
  <2> QED
    BY <2>1, <2>2, <2>3 DEF Next
<1>3. PauseInv => PausedMeansQuiet
  BY DEF PauseInv
<1> QED
  BY <1>1, <1>2, <1>3, Invariance, PTL DEF Spec

-----------------------------------------------------------------------------
(* Answers.                                                                   *)

\* Until it is answered a command for the drive has not run and was not taken
\* back; a client never finishes it by itself.
TruthInv(r) ==
  r \in ValidReqs /\ cmd[r] = "TO_TASK" =>
    /\ cpc[r] \notin {"finish", "signal", "unpause"}
    /\ cpc[r] # "idle" /\ replies[r] = 0 => runs[r] = 0 /\ r \notin recalled
    /\ replies[r] > 0 =>
         /\ runs[r] = IF r \in recalled THEN 0 ELSE 1
         /\ r \in recalled => ioError[r] = "IOERR_ABORTED"

\* The statements of CMD_PAUSE are reached with that command only.
CurIsPause == tpc \in {"setPaused", "replyPause"} => cmd[cur] = "CMD_PAUSE"

AnswerInv == CurIsPause /\ \A r \in Reqs : TruthInv(r)

\* A step of the client of r.
LEMMA ClientAnswers ==
  ASSUME ConstantsAssumption, IInv, AnswerInv, NEW r \in Reqs, Client(r)
  PROVE  AnswerInv'
<1>1. TypeOK /\ RequestInv(r) /\ TruthInv(r)
  BY DEF IInv, AnswerInv
<1>2. \A s \in Reqs \ {r} :
        /\ cpc'[s] = cpc[s] /\ cmd'[s] = cmd[s] /\ replies'[s] = replies[s]
        /\ runs'[s] = runs[s] /\ ioError'[s] = ioError[s]
        /\ s \in recalled' <=> s \in recalled
  BY <1>1 DEF Client, BeginIO, CallBeginIO, AcceptIoreq, RejectIoreq, Immediate,
     AddChangeInt, RemChangeInt, ResumeTest, ResumeSignal, ResumeClear, PauseTest, ForTask,
     SendToTask, FinishWithReply, FinishQuick, WaitIO, AbortIO, At, Answer, ReplyMsg, Forget,
     TypeOK
<1>3. UNCHANGED <<tpc, cur>>
  BY Zenon DEF Client, BeginIO, CallBeginIO, AcceptIoreq, RejectIoreq, Immediate,
     AddChangeInt, RemChangeInt, ResumeTest, ResumeSignal, ResumeClear, PauseTest, ForTask,
     SendToTask, FinishWithReply, FinishQuick, WaitIO, AbortIO, taskVars
<1>4. cmd'[r] = cmd[r] \/ r # cur
  <2>1. CASE UNCHANGED cmd
    BY <2>1
  <2>2. CASE ~(UNCHANGED cmd)
    <3>1. \/ \E c \in Sends[r], q \in BOOLEAN : CallBeginIO(r, c, q)
          \/ FinishQuick(r) \/ WaitIO(r)
      BY <2>2, Zenon DEF Client, BeginIO, AcceptIoreq, RejectIoreq, Immediate,
         AddChangeInt, RemChangeInt, ResumeTest, ResumeSignal, ResumeClear, PauseTest, ForTask,
         SendToTask, FinishWithReply, AbortIO
    <3>2. \/ cpc[r] = "idle"
          \/ cpc[r] = "finish"
          \/ lnType[r] = "NT_REPLYMSG" /\ cpc[r] = "out"
          \/ r \in changeInts
      BY <3>1 DEF CallBeginIO, FinishQuick, WaitIO, At
    <3> QED
      BY <3>2, <1>1, Answered, ConstantsAssumption DEF IInv, CurInv, RequestInv, ConstantsAssumption
  <2> QED
    BY <2>1, <2>2
<1>5. TruthInv(r)'
  <2> USE <1>1 DEF TruthInv, TypeOK
  <2>1. ASSUME NEW c \in Sends[r], NEW q \in BOOLEAN, CallBeginIO(r, c, q) PROVE TruthInv(r)'
    BY <2>1 DEF CallBeginIO, RequestInv
  <2>2. CASE AcceptIoreq(r) \/ RejectIoreq(r)
    BY <2>2 DEF AcceptIoreq, RejectIoreq, At
  <2>3. CASE Immediate(r) \/ AddChangeInt(r) \/ RemChangeInt(r)
    BY <2>3 DEF Immediate, AddChangeInt, RemChangeInt
  <2>4. CASE ResumeTest(r) \/ PauseTest(r)
    BY <2>4 DEF ResumeTest, PauseTest
  <2>5. CASE ResumeSignal(r) \/ ResumeClear(r) \/ FinishWithReply(r)
    BY <2>5 DEF ResumeSignal, ResumeClear, FinishWithReply, At
  <2>6. CASE ForTask(r)
    BY <2>6 DEF ForTask, At
  <2>7. CASE SendToTask(r)
    BY <2>7 DEF SendToTask, At
  <2>8. CASE FinishQuick(r) \/ WaitIO(r)
    BY <2>8 DEF FinishQuick, WaitIO, Forget
  <2>9. CASE AbortIO(r)
    <3>1. r \in Queued
      BY <2>9, SetOfSequence DEF AbortIO, Queued
    <3>2. cpc[r] = "out" /\ replies[r] = 0
      BY <3>1 DEF IInv, QueueInv
    <3>3. /\ Answer(r, "IOERR_ABORTED") /\ ReplyMsg(r) /\ UNCHANGED <<cpc, cmd, runs>>
          /\ recalled' = recalled \cup {r}
      BY <2>9, Zenon DEF AbortIO
    <3> QED
      BY <3>2, <3>3 DEF Answer, ReplyMsg
  <2> QED
    BY <2>1, <2>2, <2>3, <2>4, <2>5, <2>6, <2>7, <2>8, <2>9 DEF Client, BeginIO
<1>6. ASSUME NEW s \in Reqs PROVE TruthInv(s)'
  <2>1. CASE s = r
    BY <1>5, <2>1
  <2>2. CASE s # r
    BY <1>2, <2>2 DEF AnswerInv, TruthInv
  <2> QED
    BY <2>1, <2>2
<1>7. CurIsPause'
  <2> SUFFICES ASSUME tpc' \in {"setPaused", "replyPause"} PROVE cmd'[cur'] = "CMD_PAUSE"
    BY DEF CurIsPause
  <2>1. cmd[cur] = "CMD_PAUSE" /\ cur \in Reqs
    BY <1>1, <1>3 DEF AnswerInv, CurIsPause, IInv, CurInv, TypeOK
  <2> QED
    BY <1>2, <1>3, <1>4, <2>1
<1> QED
  BY <1>6, <1>7 DEF AnswerInv

\* A step of the task.
LEMMA TaskAnswers ==
  ASSUME ConstantsAssumption, IInv, AnswerInv, Task \/ TimerExpires
  PROVE  AnswerInv'
<1>1. TypeOK
  BY DEF IInv
<1>2. CASE UNCHANGED <<cpc, cmd, ioError, replies, runs, recalled>> /\ CurIsPause'
  BY <1>2 DEF AnswerInv, TruthInv
<1>3. CASE GetMsg
  <2>1. UNCHANGED clientVars /\ CurIsPause'
    BY <1>3 DEF GetMsg, Goto, CurIsPause, clientVars
  <2> QED
    BY <1>2, <2>1 DEF clientVars
<1>4. CASE SetPaused
  <2>1. UNCHANGED clientVars /\ CurIsPause'
    BY <1>4 DEF SetPaused, Goto, CurIsPause, AnswerInv, clientVars
  <2> QED
    BY <1>2, <2>1 DEF clientVars
<1>5. CASE ProcessIoreq \/ ReplyPause
  <2>1. cur \in Reqs /\ cpc[cur] = "out" /\ replies[cur] = 0
    BY <1>1, <1>5 DEF ProcessIoreq, ReplyPause, Goto, IInv, CurInv, TypeOK
  <2>2. UNCHANGED <<cpc, cmd>> /\ ReplyMsg(cur) /\ runs' = [runs EXCEPT ![cur] = @ + 1]
        /\ tpc' \notin {"setPaused", "replyPause"} /\ UNCHANGED recalled
    BY <1>5 DEF ProcessIoreq, ReplyPause, Goto
  <2>3. \E e : Answer(cur, e)
    BY <1>5 DEF ProcessIoreq, ReplyPause
  <2>4. ASSUME NEW r \in Reqs PROVE TruthInv(r)'
    <3>1. TruthInv(r)
      BY DEF AnswerInv
    <3> QED
      BY <1>1, <2>1, <2>2, <2>3, <3>1 DEF TruthInv, ReplyMsg, Answer, TypeOK
  <2> QED
    BY <2>2, <2>4 DEF AnswerInv, CurIsPause
<1>6. CASE TaskWait \/ Drained \/ ClearCtrlD \/ Resumed \/ NoTimer \/ TimerFired
           \/ DiskChangeCheck \/ TimerExpires
  <2>1. UNCHANGED <<cpc, cmd, ioError, replies, runs, recalled, cur>>
    BY <1>6, Zenon DEF TaskWait, Drained, ClearCtrlD, Resumed, NoTimer, TimerFired,
       DiskChangeCheck, TimerExpires, clientVars
  <2>2. tpc' = tpc \/ tpc' \notin {"setPaused", "replyPause"}
    BY <1>6, Zenon DEF TaskWait, Drained, ClearCtrlD, Resumed, NoTimer, TimerFired,
       DiskChangeCheck, TimerExpires, Goto
  <2>3. CurIsPause'
    BY <2>1, <2>2 DEF CurIsPause, AnswerInv
  <2> QED
    BY <1>2, <2>1, <2>3
<1> QED
  BY <1>3, <1>4, <1>5, <1>6 DEF Task

\* A command for the drive that is answered ran exactly once, unless abort_io()
\* took it back: then it never ran, and the client reads IOERR_ABORTED.
THEOREM AnswerTellsTruthHolds == Spec => []AnswerTellsTruth
<1>1. Init => AnswerInv
  BY DEF Init, AnswerInv, CurIsPause, TruthInv
<1>2. IInv /\ AnswerInv /\ [Next]_vars => AnswerInv'
  <2>1. ASSUME IInv, AnswerInv, UNCHANGED vars PROVE AnswerInv'
    BY <2>1 DEF vars, clientVars, taskVars, AnswerInv, CurIsPause, TruthInv
  <2> QED
    BY <2>1, ClientAnswers, TaskAnswers, ConstantsAssumption DEF Next
<1>3. AnswerInv => AnswerTellsTruth
  <2> SUFFICES ASSUME AnswerInv, NEW r \in ValidReqs, cmd[r] = "TO_TASK", replies[r] > 0
               PROVE  /\ runs[r] = IF r \in recalled THEN 0 ELSE 1
                      /\ r \in recalled => ioError[r] = "IOERR_ABORTED"
    BY DEF AnswerTellsTruth
  <2>1. TruthInv(r)
    BY ConstantsAssumption DEF AnswerInv, ConstantsAssumption
  <2> QED
    BY <2>1 DEF TruthInv
<1> QED
  BY <1>1, <1>2, <1>3, Invariance, PTL DEF Spec

-----------------------------------------------------------------------------
(* A pause can be ended.                                                      *)

\* As lideflash is meant to be used: one client pauses and resumes, and it runs
\* only while the task sleeps.
Pauser(p) ==
  /\ p \in Reqs \ Preempting
  /\ \A r \in Reqs \ {p} : Sends[r] \cap {"CMD_PAUSE", "CMD_RESUME"} = {}

\* From SetPaused on the task stays marked: the pauser's own request is with the
\* task until it is answered, then it cannot move before the task sleeps, and a
\* resume that has signalled has woken the task before it clears the flag.
StrandInv(p) ==
  /\ \A r \in Reqs : cmd[r] \in {"CMD_PAUSE", "CMD_RESUME"} => r = p
  /\ \A r \in Reqs : cpc[r] \in {"signal", "unpause"} => cmd[r] = "CMD_RESUME"
  /\ tpc \in {"replyPause", "clearCtrlD", "pauseWait"} => paused
  /\ tpc = "clearCtrlD" => cpc[p] = "out"
  /\ tpc = "pauseWait" /\ cpc[p] = "unpause" => "ctrl_d" \in sigs

\* A step of a client other than the three of CMD_RESUME: the flag and the task
\* stay, and no client comes to the statements of CMD_RESUME.
LEMMA ClientStrand ==
  ASSUME ConstantsAssumption, IInv, AnswerInv, NEW p, Pauser(p), StrandInv(p),
         NEW r \in Reqs, Client(r)
  PROVE  StrandInv(p)'
<1>1. TypeOK /\ UNCHANGED tpc
  BY Zenon DEF IInv, Client, BeginIO, CallBeginIO, AcceptIoreq, RejectIoreq, Immediate,
     AddChangeInt, RemChangeInt, ResumeTest, ResumeSignal, ResumeClear, PauseTest, ForTask,
     SendToTask, FinishWithReply, FinishQuick, WaitIO, AbortIO, taskVars
<1>2. \A s \in Reqs \ {r} : cpc'[s] = cpc[s] /\ cmd'[s] = cmd[s]
  BY <1>1 DEF Client, BeginIO, CallBeginIO, AcceptIoreq, RejectIoreq, Immediate,
     AddChangeInt, RemChangeInt, ResumeTest, ResumeSignal, ResumeClear, PauseTest, ForTask,
     SendToTask, FinishWithReply, FinishQuick, WaitIO, AbortIO, At, Forget, TypeOK
<1>3. "ctrl_d" \in sigs => "ctrl_d" \in sigs'
  BY DEF Client, BeginIO, CallBeginIO, AcceptIoreq, RejectIoreq, Immediate,
     AddChangeInt, RemChangeInt, ResumeTest, ResumeSignal, ResumeClear, PauseTest, ForTask,
     SendToTask, FinishWithReply, FinishQuick, WaitIO, AbortIO
<1>4. MayRun(r)
  BY Zenon DEF Client, BeginIO, CallBeginIO, AcceptIoreq, RejectIoreq, Immediate,
     AddChangeInt, RemChangeInt, ResumeTest, ResumeSignal, ResumeClear, PauseTest, ForTask,
     SendToTask, FinishWithReply, FinishQuick, WaitIO, AbortIO, At
<1>5. tpc = "clearCtrlD" => r # p
  BY <1>4 DEF MayRun, TaskSleeps, Pauser
<1>6. cmd'[r] \in {"CMD_PAUSE", "CMD_RESUME"} => r = p
  <2>1. ASSUME NEW c \in Sends[r], NEW q \in BOOLEAN, CallBeginIO(r, c, q)
        PROVE  cmd'[r] \in {"CMD_PAUSE", "CMD_RESUME"} => r = p
    BY <1>1, <2>1 DEF CallBeginIO, Pauser, TypeOK
  <2>2. CASE FinishQuick(r) \/ WaitIO(r)
    BY <1>1, <2>2 DEF FinishQuick, WaitIO, Forget, TypeOK
  <2>3. CASE UNCHANGED cmd
    BY <2>3 DEF StrandInv
  <2> QED
    BY <2>1, <2>2, <2>3, Zenon DEF Client, BeginIO, AcceptIoreq, RejectIoreq, Immediate,
       AddChangeInt, RemChangeInt, ResumeTest, ResumeSignal, ResumeClear, PauseTest, ForTask,
       SendToTask, FinishWithReply, AbortIO
<1>7. cpc'[r] \in {"signal", "unpause"} => cmd'[r] = "CMD_RESUME"
  BY <1>1 DEF StrandInv, Client, BeginIO, CallBeginIO, AcceptIoreq, RejectIoreq, Immediate,
     AddChangeInt, RemChangeInt, ResumeTest, ResumeSignal, ResumeClear, PauseTest, ForTask,
     SendToTask, FinishWithReply, FinishQuick, WaitIO, AbortIO, At, Forget, TypeOK
<1>8. tpc = "pauseWait" /\ cpc'[r] = "unpause" => "ctrl_d" \in sigs'
  <2>1. CASE ResumeSignal(r)
    BY <2>1 DEF ResumeSignal
  <2>2. CASE ~ResumeSignal(r)
    <3>1. cpc'[r] = "unpause" => cpc[r] = "unpause" /\ r \in Reqs
      BY <1>1, <2>2 DEF Client, BeginIO, CallBeginIO, AcceptIoreq, RejectIoreq, Immediate,
         AddChangeInt, RemChangeInt, ResumeTest, ResumeClear, PauseTest, ForTask,
         SendToTask, FinishWithReply, FinishQuick, WaitIO, AbortIO, At, TypeOK
    <3>2. cpc[r] = "unpause" => r = p
      BY DEF StrandInv
    <3> QED
      BY <1>3, <3>1, <3>2 DEF StrandInv
  <2> QED
    BY <2>1, <2>2
<1>9. tpc \in {"replyPause", "clearCtrlD", "pauseWait"} => paused'
  <2>1. CASE ResumeClear(r)
    <3>1. r = p /\ cpc[p] = "unpause" /\ cmd[p] = "CMD_RESUME"
      BY <2>1 DEF ResumeClear, At, StrandInv
    <3>2. tpc # "replyPause"
      BY <3>1 DEF IInv, CurInv, AnswerInv, CurIsPause, StrandInv, TypeOK
    <3>3. tpc # "pauseWait"
      BY <1>4, <3>1 DEF StrandInv, MayRun, TaskSleeps, Pauser
    <3> QED
      BY <3>1, <3>2, <3>3 DEF StrandInv
  <2>2. CASE UNCHANGED paused
    BY <2>2 DEF StrandInv
  <2> QED
    BY <2>1, <2>2, Zenon DEF Client, BeginIO, CallBeginIO, AcceptIoreq, RejectIoreq, Immediate,
       AddChangeInt, RemChangeInt, ResumeTest, ResumeSignal, PauseTest, ForTask,
       SendToTask, FinishWithReply, FinishQuick, WaitIO, AbortIO
<1> QED
  BY <1>1, <1>2, <1>3, <1>5, <1>6, <1>7, <1>8, <1>9 DEF StrandInv, Pauser

\* A step of the task.
LEMMA TaskStrand ==
  ASSUME ConstantsAssumption, IInv, AnswerInv, NEW p, Pauser(p), StrandInv(p),
         Task \/ TimerExpires
  PROVE  StrandInv(p)'
<1>1. UNCHANGED <<cpc, cmd>>
  BY Zenon DEF Task, TaskWait, GetMsg, Drained, ProcessIoreq, SetPaused, ReplyPause, ClearCtrlD,
     Resumed, NoTimer, TimerFired, DiskChangeCheck, TimerExpires, clientVars
<1>2. CASE SetPaused
  BY <1>1, <1>2 DEF SetPaused, Goto, StrandInv
<1>3. CASE ReplyPause
  <2>1. cur = p /\ cpc[cur] = "out"
    BY <1>3 DEF ReplyPause, Goto, IInv, CurInv, AnswerInv, CurIsPause, StrandInv, TypeOK
  <2> QED
    BY <1>1, <1>3, <2>1 DEF ReplyPause, Goto, StrandInv
<1>4. CASE ClearCtrlD
  BY <1>1, <1>4 DEF ClearCtrlD, Goto, StrandInv
<1>5. CASE TimerExpires
  BY <1>1, <1>5 DEF TimerExpires, StrandInv
<1>6. CASE TaskWait \/ GetMsg \/ Drained \/ ProcessIoreq \/ Resumed \/ NoTimer
           \/ TimerFired \/ DiskChangeCheck
  <2>1. tpc' \notin {"replyPause", "clearCtrlD", "pauseWait"}
    BY <1>6 DEF TaskWait, GetMsg, Drained, ProcessIoreq, Resumed, NoTimer, TimerFired,
       DiskChangeCheck, Goto
  <2> QED
    BY <1>1, <2>1 DEF StrandInv
<1> QED
  BY <1>2, <1>3, <1>4, <1>5, <1>6 DEF Task

\* A task that waits to be resumed can be, where one client below its priority
\* pauses and resumes: begin_io() signals a task only while it is marked paused
\* (device.c), and the task stays marked until it is signalled.
THEOREM NotStrandedHolds ==
  ASSUME NEW p, Pauser(p)
  PROVE  Spec => []NotStranded
<1>1. Init => AnswerInv /\ StrandInv(p)
  BY DEF Init, AnswerInv, CurIsPause, TruthInv, StrandInv
<1>2. IInv /\ AnswerInv /\ StrandInv(p) /\ [Next]_vars => AnswerInv' /\ StrandInv(p)'
  <2>1. ASSUME IInv, AnswerInv, StrandInv(p), UNCHANGED vars
        PROVE  AnswerInv' /\ StrandInv(p)'
    BY <2>1 DEF vars, clientVars, taskVars, AnswerInv, CurIsPause, TruthInv, StrandInv
  <2> QED
    BY <2>1, ClientAnswers, TaskAnswers, ClientStrand, TaskStrand, ConstantsAssumption DEF Next
<1>3. StrandInv(p) => NotStranded
  BY DEF StrandInv, NotStranded
<1> QED
  BY <1>1, <1>2, <1>3, Invariance, PTL DEF Spec
=============================================================================
