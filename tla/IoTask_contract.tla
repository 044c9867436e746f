--------------------------- MODULE IoTask_contract ---------------------------
(***************************************************************************)
(* IoTask implements ExecIO, for any requests, priorities and commands: the *)
(* initial state maps to the contract's, and every step of a client or of   *)
(* the IO task maps to one step of the contract or to none.                 *)
(***************************************************************************)
EXTENDS IoTask_proofs

\* The contract's variable phase, as the mapping of IoTask gives it.
PhaseMap == [r \in Reqs |-> PhaseOf(r)]

\* A request that is out waits for a message, never for a quick return.
OutIsNotQuick == \A r \in Reqs : cpc[r] = "out" => ~quick[r]

-----------------------------------------------------------------------------

\* begin_io() clears IOF_QUICK, or finds it clear, before it leaves a request
\* to the task, to the list of change interrupts or to its reply port.
LEMMA OutIsNotQuickStep ==
  ASSUME TypeOK, OutIsNotQuick, [Next]_vars
  PROVE  OutIsNotQuick'
<1> USE DEF At, Forget, clientVars, taskVars
<1>1. ASSUME NEW r \in Reqs, NEW c \in Sends[r], NEW q \in BOOLEAN, CallBeginIO(r, c, q)
      PROVE  OutIsNotQuick'
  BY <1>1 DEF CallBeginIO, OutIsNotQuick, TypeOK
<1>2. ASSUME NEW r \in Reqs,
             AcceptIoreq(r) \/ RejectIoreq(r) \/ Immediate(r) \/ RemChangeInt(r)
             \/ ResumeTest(r) \/ ResumeSignal(r) \/ ResumeClear(r) \/ PauseTest(r)
             \/ ForTask(r)
      PROVE  OutIsNotQuick'
  <2>1. UNCHANGED quick /\ \E next \in ClientPcs \ {"out"} : cpc' = [cpc EXCEPT ![r] = next]
    BY <1>2, Zenon DEF AcceptIoreq, RejectIoreq, Immediate, RemChangeInt, ResumeTest,
       ResumeSignal, ResumeClear, PauseTest, ForTask, ClientPcs
  <2> QED
    BY <2>1 DEF OutIsNotQuick, TypeOK
<1>3. ASSUME NEW r \in Reqs, AddChangeInt(r) \/ SendToTask(r)
      PROVE  OutIsNotQuick'
  BY <1>3 DEF AddChangeInt, SendToTask, OutIsNotQuick, TypeOK
<1>4. ASSUME NEW r \in Reqs, FinishWithReply(r)
      PROVE  OutIsNotQuick'
  BY <1>4 DEF FinishWithReply, OutIsNotQuick, TypeOK
<1>5. ASSUME NEW r \in Reqs, FinishQuick(r) \/ WaitIO(r)
      PROVE  OutIsNotQuick'
  BY <1>5 DEF FinishQuick, WaitIO, OutIsNotQuick, TypeOK
<1>6. ASSUME UNCHANGED <<cpc, quick>>
      PROVE  OutIsNotQuick'
  BY <1>6 DEF OutIsNotQuick
<1>7. ASSUME NEW r \in Reqs, AbortIO(r)
      PROVE  OutIsNotQuick'
  BY <1>6, <1>7 DEF AbortIO
<1>8. CASE Task \/ TimerExpires
  BY <1>6, <1>8 DEF Task, TimerExpires, TaskWait, GetMsg, Drained, ProcessIoreq, SetPaused,
     ReplyPause, ClearCtrlD, Resumed, NoTimer, TimerFired, DiskChangeCheck
<1>9. CASE UNCHANGED vars
  BY <1>6, <1>9 DEF vars
<1> QED
  BY <1>1, <1>2, <1>3, <1>4, <1>5, <1>7, <1>8, <1>9 DEF Next, Client, BeginIO

\* What a step that touches one request only does to the mapping.
LEMMA PhaseStep ==
  ASSUME NEW r \in Reqs,
         \A s \in Reqs \ {r} :
           /\ cpc'[s] = cpc[s] /\ replies'[s] = replies[s]
           /\ s \in changeInts' <=> s \in changeInts
  PROVE  PhaseMap' = [PhaseMap EXCEPT ![r] = PhaseOf(r)']
<1>1. \A s \in Reqs \ {r} : PhaseOf(s)' = PhaseOf(s)
  BY DEF PhaseOf
<1> QED
  BY <1>1 DEF PhaseMap

\* A step that leaves the fields of the mapping alone is no step of the contract.
LEMMA NoPhaseStep ==
  ASSUME UNCHANGED <<cpc, replies, changeInts>>
  PROVE  PhaseMap' = PhaseMap
BY DEF PhaseMap, PhaseOf

-----------------------------------------------------------------------------
(* Every step keeps the contract.                                             *)

ContractStep == [Contract!Next]_(Contract!vars)

\* A client's step: begin_io() accepts, keeps or answers its request, WaitIO()
\* collects it, abort_io() answers it; between these it stays the driver's.
LEMMA ClientContract ==
  ASSUME ConstantsAssumption, IInv, IInv', OutIsNotQuick, NEW r \in Reqs, Client(r)
  PROVE  ContractStep
<1> DEFINE Moves(from, to) ==
      /\ PhaseMap[r] = from
      /\ PhaseMap' = [PhaseMap EXCEPT ![r] = to]
<1>1. RequestInv(r) /\ RequestInv(r)' /\ TypeOK /\ TypeOK'
  BY DEF IInv
<1>2. ASSUME \A s \in Reqs \ {r} :
               /\ cpc'[s] = cpc[s] /\ replies'[s] = replies[s]
               /\ s \in changeInts' <=> s \in changeInts,
             NEW p, NEW q, PhaseOf(r) = p, PhaseOf(r)' = q
      PROVE  Moves(p, q)
  BY <1>2, PhaseStep DEF PhaseMap
<1>3. ASSUME NEW p, Moves(p, p), UNCHANGED quick
      PROVE  ContractStep
  <2>1. PhaseMap' = PhaseMap
    BY <1>3 DEF PhaseMap
  <2> QED
    BY <1>3, <2>1 DEF ContractStep, Contract!vars, PhaseMap
<1> USE DEF At, Forget, ReplyMsg, Answer, clientVars, taskVars
<1>4. ASSUME NEW c \in Sends[r], NEW q \in BOOLEAN, CallBeginIO(r, c, q)
      PROVE  ContractStep
  <2>1. Moves("client", "driver") \/ Moves("held", "driver")
    <3>1. replies[r] = 0 /\ replies'[r] = 0
      BY <1>1, <1>4, InBeginIO DEF CallBeginIO, RequestInv
    <3>2. PhaseOf(r) = "client" \/ PhaseOf(r) = "held"
      BY <1>4, <3>1 DEF CallBeginIO, PhaseOf
    <3>3. PhaseOf(r)' = "driver"
      BY <1>1, <1>4, <3>1 DEF CallBeginIO, PhaseOf, TypeOK
    <3> QED
      BY <1>1, <1>2, <1>4, <3>2, <3>3 DEF CallBeginIO, TypeOK
  <2>2. quick' = [quick EXCEPT ![r] = q]
    BY <1>4 DEF CallBeginIO
  <2>3. Contract!Send(r) \/ Contract!Recall(r)
    BY <2>1, <2>2 DEF Contract!Send, Contract!Recall, Contract!Move, PhaseMap
  <2> QED
    BY <2>3 DEF ContractStep, Contract!Next
<1>5. CASE AcceptIoreq(r) \/ RejectIoreq(r) \/ Immediate(r) \/ RemChangeInt(r)
           \/ ResumeTest(r) \/ ResumeSignal(r) \/ ResumeClear(r) \/ PauseTest(r)
           \/ ForTask(r)
  <2>1. /\ UNCHANGED <<quick, replies>>
        /\ cpc[r] \notin {"idle", "out"}
        /\ \E next \in ClientPcs \ {"idle", "out"} : cpc' = [cpc EXCEPT ![r] = next]
        /\ changeInts' = changeInts \/ changeInts' = changeInts \ {r}
    BY <1>5, Zenon DEF AcceptIoreq, RejectIoreq, Immediate, RemChangeInt, ResumeTest,
       ResumeSignal, ResumeClear, PauseTest, ForTask, ClientPcs
  <2>2. replies[r] = 0
    BY <1>1, <2>1 DEF RequestInv
  <2>3. PhaseOf(r) = "driver" /\ PhaseOf(r)' = "driver"
    BY <1>1, <2>1, <2>2 DEF PhaseOf, TypeOK
  <2>4. Moves("driver", "driver")
    BY <1>1, <1>2, <2>1, <2>3 DEF TypeOK
  <2> QED
    BY <1>3, <2>1, <2>4
<1>6. CASE AddChangeInt(r)
  <2>1. Moves("driver", "held")
    <3>1. replies[r] = 0
      BY <1>1, <1>6 DEF AddChangeInt, RequestInv
    <3>2. PhaseOf(r) = "driver" /\ PhaseOf(r)' = "held"
      BY <1>1, <1>6, <3>1 DEF AddChangeInt, PhaseOf, TypeOK
    <3> QED
      BY <1>1, <1>2, <1>6, <3>2 DEF AddChangeInt, TypeOK
  <2>2. Contract!Hold(r)
    BY <1>6, <2>1 DEF AddChangeInt, Contract!Hold, Contract!Move, PhaseMap
  <2> QED
    BY <2>2 DEF ContractStep, Contract!Next
<1>7. CASE SendToTask(r)
  <2>1. Moves("driver", "driver")
    <3>1. replies[r] = 0 /\ r \notin changeInts
      BY <1>1, <1>7 DEF SendToTask, RequestInv
    <3>2. PhaseOf(r) = "driver" /\ PhaseOf(r)' = "driver"
      BY <1>1, <1>7, <3>1 DEF SendToTask, PhaseOf, TypeOK
    <3> QED
      BY <1>1, <1>2, <1>7, <3>2 DEF SendToTask, TypeOK
  <2>2. PhaseMap[r] = "driver" /\ PhaseMap' = PhaseMap
    BY <2>1 DEF PhaseMap
  <2>3. Contract!Defer(r)
    BY <1>7, <2>2 DEF SendToTask, Contract!Defer, PhaseMap
  <2> QED
    BY <2>3 DEF ContractStep, Contract!Next
<1>8. CASE FinishWithReply(r)
  <2>1. Moves("driver", "port")
    <3>1. replies[r] = 0 /\ replies'[r] = 1
      BY <1>1, <1>8, InBeginIO DEF FinishWithReply, TypeOK
    <3>2. PhaseOf(r) = "driver" /\ PhaseOf(r)' = "port"
      BY <1>1, <1>8, <3>1 DEF FinishWithReply, PhaseOf, TypeOK
    <3> QED
      BY <1>1, <1>2, <1>8, <3>2 DEF FinishWithReply, TypeOK
  <2>2. Contract!Reply(r)
    BY <1>8, <2>1 DEF FinishWithReply, Contract!Reply, Contract!Move, PhaseMap
  <2> QED
    BY <2>2 DEF ContractStep, Contract!Next
<1>9. CASE FinishQuick(r)
  <2>1. Moves("driver", "client")
    <3>1. replies[r] = 0
      BY <1>1, <1>9, InBeginIO DEF FinishQuick
    <3>2. PhaseOf(r) = "driver" /\ PhaseOf(r)' = "client"
      BY <1>1, <1>9, <3>1 DEF FinishQuick, PhaseOf, TypeOK
    <3> QED
      BY <1>1, <1>2, <1>9, <3>2 DEF FinishQuick, TypeOK
  <2>2. Contract!Return(r)
    BY <1>9, <2>1 DEF FinishQuick, Contract!Return, Contract!Move, PhaseMap
  <2> QED
    BY <2>2 DEF ContractStep, Contract!Next
<1>10. CASE WaitIO(r)
  <2>1. Moves("port", "client")
    <3>1. replies[r] = 1 /\ replies'[r] = 0
      BY <1>1, <1>10 DEF WaitIO, RequestInv, TypeOK
    <3>2. PhaseOf(r) = "port" /\ PhaseOf(r)' = "client"
      BY <1>1, <1>10, <3>1 DEF WaitIO, PhaseOf, TypeOK
    <3> QED
      BY <1>1, <1>2, <1>10, <3>2 DEF WaitIO, TypeOK
  <2>2. UNCHANGED quick
    <3>1. quick[r] \in BOOLEAN /\ ~quick[r] /\ quick' = [quick EXCEPT ![r] = FALSE]
      BY <1>1, <1>10 DEF WaitIO, TypeOK
    <3>2. quick[r] = FALSE
      BY <3>1
    <3> QED
      BY <1>1, <3>1, <3>2 DEF TypeOK
  <2>3. Contract!Collect(r)
    BY <2>1, <2>2 DEF Contract!Collect, Contract!Move, PhaseMap
  <2> QED
    BY <2>3 DEF ContractStep, Contract!Next
<1>11. CASE AbortIO(r)
  <2>1. /\ cpc[r] = "out" /\ ReplyMsg(r)
        /\ UNCHANGED <<cpc, quick, changeInts>>
        /\ \E i \in 1 .. Len(iomp) : iomp[i] = r
    BY <1>11, Zenon DEF AbortIO
  <2>2. r \in Queued
    BY <1>1, <2>1, SetOfSequence DEF Queued, TypeOK
  <2>3. Moves("driver", "port")
    <3>1. replies[r] = 0 /\ replies'[r] = 1 /\ r \notin changeInts
      BY <1>1, <2>1, <2>2 DEF IInv, QueueInv, TypeOK
    <3>2. PhaseOf(r) = "driver" /\ PhaseOf(r)' = "port"
      BY <2>1, <3>1 DEF PhaseOf
    <3> QED
      BY <1>1, <1>2, <2>1, <3>2 DEF TypeOK
  <2>4. Contract!Reply(r)
    BY <2>1, <2>3 DEF OutIsNotQuick, Contract!Reply, Contract!Move, PhaseMap
  <2> QED
    BY <2>4 DEF ContractStep, Contract!Next
<1> QED
  BY <1>4, <1>5, <1>6, <1>7, <1>8, <1>9, <1>10, <1>11 DEF Client, BeginIO

\* The task answers the request it works on, and touches no other.
LEMMA TaskContract ==
  ASSUME ConstantsAssumption, IInv, OutIsNotQuick, Task \/ TimerExpires
  PROVE  ContractStep
<1>1. CASE ProcessIoreq \/ ReplyPause
  <2>1. /\ cur \in Reqs
        /\ cpc[cur] = "out" /\ cur \notin changeInts /\ replies[cur] = 0
        /\ UNCHANGED <<cpc, quick, changeInts>>
        /\ replies' = [replies EXCEPT ![cur] = @ + 1]
        /\ TypeOK
    BY <1>1 DEF ProcessIoreq, ReplyPause, Goto, ReplyMsg, IInv, CurInv, TypeOK
  <2>2. PhaseOf(cur) = "driver"
    BY <2>1 DEF PhaseOf
  <2>3. PhaseMap[cur] = "driver" /\ PhaseMap' = [PhaseMap EXCEPT ![cur] = "port"]
    <3>1. \A s \in Reqs \ {cur} : PhaseOf(s)' = PhaseOf(s)
      BY <2>1 DEF PhaseOf, TypeOK
    <3>2. \A s \in Reqs : PhaseMap[s] = PhaseOf(s) /\ PhaseMap'[s] = PhaseOf(s)'
      BY DEF PhaseMap
    <3>3. \A s \in Reqs : s = cur => PhaseOf(s)' = "port"
      BY <2>1 DEF PhaseOf, TypeOK
    <3> QED
      BY <2>1, <2>2, <3>1, <3>3 DEF PhaseMap
  <2>4. Contract!Reply(cur)
    BY <2>1, <2>3 DEF OutIsNotQuick, Contract!Reply, Contract!Move, PhaseMap
  <2> QED
    BY <2>1, <2>4 DEF ContractStep, Contract!Next
<1>2. CASE UNCHANGED <<cpc, quick, replies, changeInts>>
  BY <1>2, NoPhaseStep DEF ContractStep, Contract!vars, PhaseMap
<1>3. CASE TaskWait \/ GetMsg \/ Drained \/ SetPaused \/ ClearCtrlD \/ Resumed \/ NoTimer
           \/ TimerFired \/ DiskChangeCheck \/ TimerExpires
  <2>1. UNCHANGED <<cpc, quick, replies, changeInts>>
    BY <1>3 DEF TaskWait, GetMsg, Drained, SetPaused, ClearCtrlD, Resumed, NoTimer,
       TimerFired, DiskChangeCheck, TimerExpires, clientVars
  <2> QED
    BY <1>2, <2>1
<1> QED
  BY <1>1, <1>3 DEF Task

\* lide.device keeps the contract of an Exec device: it accepts each request
\* once, answers it once (in the call, or by one message), keeps only those of
\* TD_ADDCHANGEINT, and takes back nothing.
THEOREM ContractIsKept == Spec => ContractKept
<1>1. Init => Contract!Init /\ OutIsNotQuick
  BY DEF Init, Contract!Init, PhaseOf, OutIsNotQuick
<1>2. IInv /\ IInv' /\ OutIsNotQuick /\ [Next]_vars => OutIsNotQuick' /\ ContractStep
  <2> SUFFICES ASSUME IInv, IInv', OutIsNotQuick, [Next]_vars
               PROVE  OutIsNotQuick' /\ ContractStep
    OBVIOUS
  <2>1. OutIsNotQuick'
    BY OutIsNotQuickStep DEF IInv
  <2>2. CASE UNCHANGED vars
    BY <2>1, <2>2, NoPhaseStep DEF vars, clientVars, ContractStep, Contract!vars, PhaseMap
  <2>3. CASE Next
    BY <2>1, <2>3, ClientContract, TaskContract, ConstantsAssumption DEF Next
  <2> QED
    BY <2>1, <2>2, <2>3
<1> QED
  BY <1>1, <1>2, Invariance, PTL DEF Spec, ContractKept, Contract!Spec, ContractStep
=============================================================================
