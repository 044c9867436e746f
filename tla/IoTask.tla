------------------------------- MODULE IoTask -------------------------------
(***************************************************************************)
(* One running IO task of lide.device and the clients that use it.          *)
(*                                                                         *)
(* A client's task executes begin_io() and abort_io() (device.c) itself, so *)
(* the reads and writes of begin_io() that other tasks can see are separate *)
(* steps; cpc[r] says how far the client of request r has come.  The IO     *)
(* task runs io_task() and process_ioreq() (iotask.c); tpc says where it   *)
(* is.  PutMsg(), GetMsg(), ReplyMsg(), Signal() and what happens between   *)
(* Disable() and Enable() are single steps, as Exec makes them.             *)
(*                                                                         *)
(* Abstractions.  Each request is sent by a client of its own, one call at  *)
(* a time.  Commands are classed by the path they take (see Commands).  A   *)
(* drive operation is one step: its result is "ok" or "failed".  The task   *)
(* is running (init_units() succeeded), so begin_io()'s exit for a dead     *)
(* task is not taken here.                                                  *)
(***************************************************************************)
EXTENDS Integers, SequencesExt

CONSTANTS
  Reqs,           \* the IOStdReqs of all clients
  NoReq,          \* "the task is not working on a request"
  ValidReqs,      \* those whose io_Device and io_Unit are this device's
  Sends,          \* Sends[r]: the commands the client of r sends
  Preempting,     \* those sent by a task of the IO task's priority or above
  HasRemovables   \* itask->hasRemovables: the task polls for disk changes

Commands ==
  { "IMMEDIATE",        \* every command begin_io() completes itself: TD_MOTOR,
                        \* TD_CHANGENUM, ..., and unknown commands
    "TD_ADDCHANGEINT", "TD_REMCHANGEINT", "CMD_PAUSE", "CMD_RESUME",
    "TO_TASK",          \* reads, writes, HD_SCSICMD, TD_EJECT, ...
    "CMD_XFER" }        \* for the task too; a mode it does not know is
                        \* answered IOERR_ABORTED

ASSUME ConstantsAssumption ==
  /\ NoReq \notin Reqs
  /\ ValidReqs \subseteq Reqs
  /\ Sends \in [Reqs -> SUBSET Commands]
  /\ Preempting \subseteq Reqs
  /\ HasRemovables \in BOOLEAN

VARIABLES
  cpc,         \* cpc[r]: where the client of r is
  cmd,         \* cmd[r]: io_Command
  quick,       \* quick[r]: IOF_QUICK is set in io_Flags
  ioError,     \* ioError[r]: io_Error
  lnType,      \* lnType[r]: ln_Type of the request's message node
  replies,     \* replies[r]: how often r hangs on its reply port
  changeInts,  \* requests linked in their unit's changeInts list
  iomp,        \* itask->iomp: the queue of requests for the task
  sigs,        \* signals sent to the IO task and not yet taken
  tpc,         \* where the IO task is
  got,         \* signalsSet: what the last Wait() returned
  cur,         \* the request process_ioreq() is working on
  paused,      \* itask->paused
  timerReq,    \* itask->dcTimerReq: "idle", "running" or "done"
  runs,        \* history: how often the task has run r since it was sent
  recalled     \* history: requests abort_io() answered since they were sent

clientVars == <<cpc, cmd, quick, ioError, lnType, replies, runs, recalled>>
taskVars   == <<tpc, got, cur, timerReq>>
vars == <<clientVars, changeInts, iomp, sigs, paused, taskVars>>

ClientPcs ==
  {"idle", "check", "dispatch", "put", "signal", "unpause", "finish", "out"}
PausePcs == {"setPaused", "replyPause", "clearCtrlD", "pauseWait"}
TaskPcs  == {"wait", "drain", "io", "timer", "check"} \cup PausePcs
Errors   == {"ok", "failed", "IOERR_ABORTED", "IOERR_UNITBUSY", "TDERR_NotSpecified"}
Signals  == {"iomp", "timer", "ctrl_d"}

TypeOK ==
  /\ cpc \in [Reqs -> ClientPcs]
  /\ cmd \in [Reqs -> Commands]
  /\ quick \in [Reqs -> BOOLEAN]
  /\ ioError \in [Reqs -> Errors]
  /\ lnType \in [Reqs -> {"NT_UNKNOWN", "NT_MESSAGE", "NT_REPLYMSG"}]
  /\ replies \in [Reqs -> Nat]
  /\ runs \in [Reqs -> Nat]
  /\ recalled \subseteq Reqs
  /\ changeInts \subseteq Reqs
  /\ iomp \in Seq(Reqs)
  /\ sigs \subseteq Signals
  /\ tpc \in TaskPcs
  /\ got \subseteq Signals
  /\ cur \in Reqs \cup {NoReq}
  /\ paused \in BOOLEAN
  /\ timerReq \in {"idle", "running", "done"}

Init ==
  /\ cpc = [r \in Reqs |-> "idle"]
  /\ cmd = [r \in Reqs |-> "IMMEDIATE"]
  /\ quick = [r \in Reqs |-> FALSE]
  /\ ioError = [r \in Reqs |-> "ok"]
  /\ lnType = [r \in Reqs |-> "NT_UNKNOWN"]
  /\ replies = [r \in Reqs |-> 0]
  /\ runs = [r \in Reqs |-> 0]
  /\ recalled = {}
  /\ changeInts = {}
  /\ iomp = <<>>
  /\ sigs = {}
  /\ tpc = "wait"
  /\ got = {}
  /\ cur = NoReq
  /\ paused = FALSE
  /\ timerReq = IF HasRemovables THEN "running" ELSE "idle"

-----------------------------------------------------------------------------
(* Scheduling.  Exec runs the ready task of highest priority, the IO task has *)
(* priority 11 (TASK_PRIORITY): a client below it runs only while the IO task *)
(* sleeps, in Wait() or in a drive operation (which sleeps on a timer).       *)

SignalMask == IF HasRemovables THEN {"iomp", "timer"} ELSE {"iomp"}

TaskSleeps ==
  \/ tpc = "wait" /\ sigs \cap SignalMask = {}
  \/ tpc = "pauseWait" /\ "ctrl_d" \notin sigs
  \/ tpc \in {"io", "check"}

MayRun(r) == r \in Preempting \/ TaskSleeps

\* ReplyMsg(): the message type changes and the message goes to its port.
ReplyMsg(r) ==
  /\ lnType' = [lnType EXCEPT ![r] = "NT_REPLYMSG"]
  /\ replies' = [replies EXCEPT ![r] = @ + 1]

At(r, here, next) ==
  /\ MayRun(r)
  /\ cpc[r] = here
  /\ cpc' = [cpc EXCEPT ![r] = next]

-----------------------------------------------------------------------------
(* The client: begin_io(), abort_io() and Exec's WaitIO().                    *)

\* The client fills in its request and calls BeginIO(), directly or through
\* SendIO() (q = FALSE) or DoIO() (q = TRUE).  A request the driver keeps for
\* TD_ADDCHANGEINT is used again to send TD_REMCHANGEINT, for nothing else.
CallBeginIO(r, c, q) ==
  /\ MayRun(r)
  /\ \/ cpc[r] = "idle"
     \/ cpc[r] = "out" /\ r \in changeInts /\ c = "TD_REMCHANGEINT"
  /\ cpc' = [cpc EXCEPT ![r] = "check"]
  /\ cmd' = [cmd EXCEPT ![r] = c]
  /\ quick' = [quick EXCEPT ![r] = q]
  /\ runs' = [runs EXCEPT ![r] = 0]
  /\ recalled' = recalled \ {r}
  /\ UNCHANGED <<ioError, lnType, replies, changeInts, iomp, sigs, paused, taskVars>>

\* Mutant: a valid request keeps the type its last reply gave it.
AcceptIoreqKeepsType(r) ==
  /\ r \in ValidReqs
  /\ At(r, "check", "dispatch")
  /\ UNCHANGED <<cmd, quick, ioError, lnType, replies, runs, recalled, changeInts, iomp, sigs, paused, taskVars>>

\* ioreq_is_valid(), and the message type a valid request is given at once.
AcceptIoreq(r) ==
  /\ r \in ValidReqs
  /\ At(r, "check", "dispatch")
  /\ lnType' = [lnType EXCEPT ![r] = "NT_MESSAGE"]
  /\ UNCHANGED <<cmd, quick, ioError, replies, runs, recalled, changeInts, iomp, sigs, paused, taskVars>>

Answer(r, e) == ioError' = [ioError EXCEPT ![r] = e]

RejectIoreq(r) ==
  /\ r \notin ValidReqs
  /\ At(r, "check", "finish")
  /\ Answer(r, "TDERR_NotSpecified")
  /\ UNCHANGED <<cmd, quick, lnType, replies, runs, recalled, changeInts, iomp, sigs, paused, taskVars>>

\* Commands completed by the caller's own task.
Immediate(r) ==
  /\ cmd[r] = "IMMEDIATE"
  /\ At(r, "dispatch", "finish")
  /\ \E e \in {"ok", "failed"} : Answer(r, e)
  /\ UNCHANGED <<cmd, quick, lnType, replies, runs, recalled, changeInts, iomp, sigs, paused, taskVars>>

\* Mutant: IOF_QUICK is left as the client set it.
AddChangeIntStaysQuick(r) ==
  /\ cmd[r] = "TD_ADDCHANGEINT"
  /\ At(r, "dispatch", "out")
  /\ Answer(r, "ok")
  /\ changeInts' = changeInts \cup {r}
  /\ UNCHANGED <<cmd, quick, lnType, replies, runs, recalled, iomp, sigs, paused, taskVars>>

\* TD_ADDCHANGEINT links the request and returns without an answer.
AddChangeInt(r) ==
  /\ cmd[r] = "TD_ADDCHANGEINT"
  /\ At(r, "dispatch", "out")
  /\ Answer(r, "ok")
  /\ quick' = [quick EXCEPT ![r] = FALSE]
  /\ changeInts' = changeInts \cup {r}
  /\ UNCHANGED <<cmd, lnType, replies, runs, recalled, iomp, sigs, paused, taskVars>>

RemChangeInt(r) ==
  /\ cmd[r] = "TD_REMCHANGEINT"
  /\ At(r, "dispatch", "finish")
  /\ Answer(r, "ok")
  /\ changeInts' = changeInts \ {r}
  /\ UNCHANGED <<cmd, quick, lnType, replies, runs, recalled, iomp, sigs, paused, taskVars>>

\* CMD_RESUME tests itask->paused, signals the task and then clears the flag.
ResumeTest(r) ==
  /\ cmd[r] = "CMD_RESUME"
  /\ \/ paused /\ At(r, "dispatch", "signal") /\ UNCHANGED ioError
     \/ ~paused /\ At(r, "dispatch", "finish") /\ Answer(r, "IOERR_ABORTED")
  /\ UNCHANGED <<cmd, quick, lnType, replies, runs, recalled, changeInts, iomp, sigs, paused, taskVars>>

ResumeSignal(r) ==
  /\ At(r, "signal", "unpause")
  /\ sigs' = sigs \cup {"ctrl_d"}
  /\ UNCHANGED <<cmd, quick, ioError, lnType, replies, runs, recalled, changeInts, iomp, paused, taskVars>>

ResumeClear(r) ==
  /\ At(r, "unpause", "finish")
  /\ paused' = FALSE
  /\ Answer(r, "ok")
  /\ UNCHANGED <<cmd, quick, lnType, replies, runs, recalled, changeInts, iomp, sigs, taskVars>>

\* CMD_PAUSE is refused while the task is paused, or goes to the task.
PauseTest(r) ==
  /\ cmd[r] = "CMD_PAUSE"
  /\ \/ paused /\ At(r, "dispatch", "finish") /\ Answer(r, "IOERR_UNITBUSY")
     \/ ~paused /\ At(r, "dispatch", "put") /\ UNCHANGED ioError
  /\ UNCHANGED <<cmd, quick, lnType, replies, runs, recalled, changeInts, iomp, sigs, paused, taskVars>>

ForTask(r) ==
  /\ cmd[r] \in {"TO_TASK", "CMD_XFER"}
  /\ At(r, "dispatch", "put")
  /\ UNCHANGED <<cmd, quick, ioError, lnType, replies, runs, recalled, changeInts, iomp, sigs, paused, taskVars>>

\* Mutant: the request is linked without signalling the task.
SendToTaskSilently(r) ==
  /\ At(r, "put", "out")
  /\ quick' = [quick EXCEPT ![r] = FALSE]
  /\ iomp' = Append(iomp, r)
  /\ lnType' = [lnType EXCEPT ![r] = "NT_MESSAGE"]
  /\ UNCHANGED <<cmd, ioError, replies, runs, recalled, changeInts, sigs, paused, taskVars>>

\* sendToTask: the answer comes later, from the task.
SendToTask(r) ==
  /\ At(r, "put", "out")
  /\ quick' = [quick EXCEPT ![r] = FALSE]
  /\ iomp' = Append(iomp, r)
  /\ lnType' = [lnType EXCEPT ![r] = "NT_MESSAGE"]
  /\ sigs' = sigs \cup {"iomp"}
  /\ UNCHANGED <<cmd, ioError, replies, runs, recalled, changeInts, paused, taskVars>>

\* What is left of a request that is the client's own again: its message type;
\* the client overwrites the other fields before it sends it.
Forget(r) ==
  /\ cmd' = [cmd EXCEPT ![r] = "IMMEDIATE"]
  /\ ioError' = [ioError EXCEPT ![r] = "ok"]
  /\ quick' = [quick EXCEPT ![r] = FALSE]
  /\ runs' = [runs EXCEPT ![r] = 0]
  /\ recalled' = recalled \ {r}

\* The end of begin_io(): reply, unless the caller asked for a quick answer.
FinishWithReply(r) ==
  /\ ~quick[r]
  /\ At(r, "finish", "out")
  /\ ReplyMsg(r)
  /\ UNCHANGED <<cmd, quick, ioError, runs, recalled, changeInts, iomp, sigs, paused, taskVars>>

FinishQuick(r) ==
  /\ quick[r]
  /\ At(r, "finish", "idle")
  /\ Forget(r)
  /\ UNCHANGED <<lnType, replies, changeInts, iomp, sigs, paused, taskVars>>

\* WaitIO() goes by the message type, then takes the message off the port.
WaitIO(r) ==
  /\ ~quick[r]
  /\ lnType[r] = "NT_REPLYMSG"
  /\ At(r, "out", "idle")
  /\ replies' = [replies EXCEPT ![r] = @ - 1]
  /\ Forget(r)
  /\ UNCHANGED <<lnType, changeInts, iomp, sigs, paused, taskVars>>

\* Mutant: the aborted request is answered but stays in the queue.
AbortIOLeavesQueued(r) ==
  /\ r \in ValidReqs
  /\ MayRun(r)
  /\ cpc[r] = "out"
  /\ \E i \in 1 .. Len(iomp) : iomp[i] = r
  /\ Answer(r, "IOERR_ABORTED")
  /\ ReplyMsg(r)
  /\ recalled' = recalled \cup {r}
  /\ UNCHANGED <<cpc, cmd, quick, runs, changeInts, iomp, sigs, paused, taskVars>>

\* Mutant: a request the task works on is answered as well (the message type
\* is asked, not the queue).
AbortIOWhileItRuns(r) ==
  /\ r \in ValidReqs
  /\ MayRun(r)
  /\ cpc[r] = "out"
  /\ lnType[r] = "NT_MESSAGE"
  /\ iomp' = SelectSeq(iomp, LAMBDA s : s # r)
  /\ Answer(r, "IOERR_ABORTED")
  /\ ReplyMsg(r)
  /\ recalled' = recalled \cup {r}
  /\ UNCHANGED <<cpc, cmd, quick, runs, changeInts, sigs, paused, taskVars>>

\* abort_io() on a request still in the queue; on any other request it
\* returns 0 and changes nothing.
AbortIO(r) ==
  /\ r \in ValidReqs
  /\ MayRun(r)
  /\ cpc[r] = "out"
  /\ \E i \in 1 .. Len(iomp) : iomp[i] = r /\ iomp' = RemoveAt(iomp, i)
  /\ Answer(r, "IOERR_ABORTED")
  /\ ReplyMsg(r)
  /\ recalled' = recalled \cup {r}
  /\ UNCHANGED <<cpc, cmd, quick, runs, changeInts, sigs, paused, taskVars>>

-----------------------------------------------------------------------------
(* The IO task: io_task() and process_ioreq().                                *)

Goto(here, next) == tpc = here /\ tpc' = next

\* Wait(signalMask) returns and clears every signal of the mask that is set.
TaskWait ==
  /\ sigs \cap SignalMask # {}
  /\ got' = sigs \cap SignalMask
  /\ sigs' = sigs \ SignalMask
  /\ Goto("wait", IF "iomp" \in got' THEN "drain" ELSE "timer")
  /\ UNCHANGED <<clientVars, changeInts, iomp, paused, cur, timerReq>>

\* GetMsg() until the queue is empty.
GetMsg ==
  /\ iomp # <<>>
  /\ cur' = Head(iomp)
  /\ iomp' = Tail(iomp)
  /\ Goto("drain", IF cmd[cur'] = "CMD_PAUSE" THEN "setPaused" ELSE "io")
  /\ UNCHANGED <<clientVars, changeInts, sigs, paused, got, timerReq>>

\* Mutant: one GetMsg() for each Wait().
DrainedAfterOne ==
  /\ Goto("drain", "timer")
  /\ UNCHANGED <<clientVars, changeInts, iomp, sigs, paused, got, cur, timerReq>>

Drained ==
  /\ iomp = <<>>
  /\ Goto("drain", "timer")
  /\ UNCHANGED <<clientVars, changeInts, iomp, sigs, paused, got, cur, timerReq>>

\* process_ioreq() for every command but CMD_PAUSE: work, then reply.  What
\* atapi_packet() returns reaches the client through TD_PROTSTATUS, through the
\* tries of a transfer and through HD_SCSICMD: IOERR_ABORTED is one of its
\* errors, so a command that ran may be answered as one that was aborted.
ProcessIoreq ==
  /\ Goto("io", "drain")
  /\ runs' = [runs EXCEPT ![cur] = @ + 1]
  /\ \E e \in {"ok", "IOERR_ABORTED"} \cup (IF cmd[cur] = "TO_TASK" THEN {"failed"} ELSE {}) :
       Answer(cur, e)
  /\ ReplyMsg(cur)
  /\ cur' = NoReq
  /\ UNCHANGED <<cpc, cmd, quick, recalled, changeInts, iomp, sigs, paused, got, timerReq>>

\* Mutant: the task waits without saying that it is paused.
SetPausedForgotten ==
  /\ Goto("setPaused", "replyPause")
  /\ UNCHANGED <<clientVars, changeInts, iomp, sigs, paused, got, cur, timerReq>>

\* process_ioreq() for CMD_PAUSE, statement by statement.
SetPaused ==
  /\ Goto("setPaused", "replyPause")
  /\ paused' = TRUE
  /\ UNCHANGED <<clientVars, changeInts, iomp, sigs, got, cur, timerReq>>

ReplyPause ==
  /\ Goto("replyPause", "clearCtrlD")
  /\ runs' = [runs EXCEPT ![cur] = @ + 1]
  /\ Answer(cur, "ok")
  /\ ReplyMsg(cur)
  /\ cur' = NoReq
  /\ UNCHANGED <<cpc, cmd, quick, recalled, changeInts, iomp, sigs, paused, got, timerReq>>

\* Mutant: a signal left from an earlier resume stays.
ClearCtrlDForgotten ==
  /\ Goto("clearCtrlD", "pauseWait")
  /\ UNCHANGED <<clientVars, changeInts, iomp, sigs, paused, got, cur, timerReq>>

ClearCtrlD ==
  /\ Goto("clearCtrlD", "pauseWait")
  /\ sigs' = sigs \ {"ctrl_d"}
  /\ UNCHANGED <<clientVars, changeInts, iomp, paused, got, cur, timerReq>>

Resumed ==
  /\ "ctrl_d" \in sigs
  /\ Goto("pauseWait", "drain")
  /\ sigs' = sigs \ {"ctrl_d"}
  /\ UNCHANGED <<clientVars, changeInts, iomp, paused, got, cur, timerReq>>

\* After the queue: the disk-change timer, if the task has one and it fired.
NoTimer ==
  /\ "timer" \notin got
  /\ Goto("timer", "wait")
  /\ UNCHANGED <<clientVars, changeInts, iomp, sigs, paused, got, cur, timerReq>>

TimerFired ==
  /\ "timer" \in got
  /\ timerReq = "done"                        \* WaitIO(dcTimerReq)
  /\ timerReq' = "idle"
  /\ Goto("timer", "check")
  /\ UNCHANGED <<clientVars, changeInts, iomp, sigs, paused, got, cur>>

\* Mutant: the timer request is not sent again.
DiskChangeCheckOnce ==
  /\ Goto("check", "wait")
  /\ UNCHANGED <<clientVars, changeInts, iomp, sigs, paused, got, cur, timerReq>>

\* diskchange_check() talks to the drives and leaves all of this state alone;
\* then run_timer() sends the request again.
DiskChangeCheck ==
  /\ Goto("check", "wait")
  /\ timerReq' = "running"
  /\ UNCHANGED <<clientVars, changeInts, iomp, sigs, paused, got, cur>>

\* timer.device replies to dcTimerReq.
TimerExpires ==
  /\ timerReq = "running"
  /\ timerReq' = "done"
  /\ sigs' = sigs \cup {"timer"}
  /\ UNCHANGED <<clientVars, changeInts, iomp, paused, tpc, got, cur>>

-----------------------------------------------------------------------------

BeginIO(r) ==
  \/ AcceptIoreq(r) \/ RejectIoreq(r) \/ Immediate(r)
  \/ AddChangeInt(r) \/ RemChangeInt(r)
  \/ ResumeTest(r) \/ ResumeSignal(r) \/ ResumeClear(r)
  \/ PauseTest(r) \/ ForTask(r) \/ SendToTask(r)
  \/ FinishWithReply(r) \/ FinishQuick(r)

Client(r) ==
  \/ \E c \in Sends[r], q \in BOOLEAN : CallBeginIO(r, c, q)
  \/ BeginIO(r)
  \/ WaitIO(r)
  \/ AbortIO(r)

Task ==
  \/ TaskWait \/ GetMsg \/ Drained \/ ProcessIoreq
  \/ SetPaused \/ ReplyPause \/ ClearCtrlD \/ Resumed
  \/ NoTimer \/ TimerFired \/ DiskChangeCheck

Next == (\E r \in Reqs : Client(r)) \/ Task \/ TimerExpires

Spec == Init /\ [][Next]_vars

\* Drive operations time out, so the task always gets on.  Every client's task
\* gets the processor now and then (equal priorities are time-sliced), and a
\* client that can send CMD_RESUME does not leave a paused task paused.
Fairness ==
  /\ WF_vars(Task)
  /\ WF_vars(TimerExpires)
  /\ \A r \in Reqs :
       /\ SF_vars(BeginIO(r) \/ WaitIO(r))
       /\ "CMD_RESUME" \in Sends[r] =>
            SF_vars(paused /\ CallBeginIO(r, "CMD_RESUME", TRUE))

FairSpec == Spec /\ Fairness

-----------------------------------------------------------------------------
(* Properties.                                                                *)

Queued == ToSet(iomp)

\* The places a request can be once begin_io() has returned without an answer.
Places(r) ==
  {p \in {"queue", "task", "list", "port"} :
     \/ p = "queue" /\ r \in Queued
     \/ p = "task"  /\ r = cur
     \/ p = "list"  /\ r \in changeInts
     \/ p = "port"  /\ replies[r] > 0}

\* No request is lost and none is in two hands: after begin_io() returned, the
\* request is in exactly one of the task's queue, process_ioreq(), the list of
\* change interrupts and the client's reply port, linked there once
\* (begin_io(), abort_io() and process_ioreq() move it between them).
OnePlace ==
  /\ \A r \in Reqs : cpc[r] = "out" => \E p \in Places(r) : Places(r) = {p}
  /\ \A r \in Reqs : cpc[r] = "idle" => Places(r) = {}
  /\ \A r \in Reqs : replies[r] <= 1
  /\ IsInjective(iomp)

\* WaitIO() returns when the message type says "replied": it does so only for
\* a request that hangs on its reply port (device.c sets the type of every
\* valid request before it does anything else with it).
WaitIOSound ==
  \A r \in Reqs :
    cpc[r] = "out" => (lnType[r] = "NT_REPLYMSG" <=> replies[r] = 1)

\* The task never goes to sleep on a request: when it is past the drain loop,
\* a queued request has its signal pending (Wait() and PutMsg()).
NoLostMessage ==
  tpc \in {"timer", "check", "wait"} /\ iomp # <<>> => "iomp" \in sigs

\* While itask->paused says so the task is quiet: it is out of CMD_PAUSE only
\* when a resume has signalled it and is about to clear the flag.  A signal
\* left over from an earlier resume does not end a later pause.
PausedMeansQuiet ==
  paused /\ tpc \notin PausePcs => \E r \in Reqs : cpc[r] = "unpause"

\* abort_io() and the task never both have a request: a command for the drive
\* that is answered has run exactly once, unless abort_io() took it back, and
\* then it never runs.  (IOERR_ABORTED alone tells the client nothing: a packet
\* that failed is answered so too.  Every other answer says that it ran.)
AnswerTellsTruth ==
  \A r \in ValidReqs :
    cmd[r] = "TO_TASK" /\ replies[r] > 0 =>
      /\ runs[r] = IF r \in recalled THEN 0 ELSE 1
      /\ r \in recalled => ioError[r] = "IOERR_ABORTED"

\* The poll for disk changes is never dropped: the timer runs, or its signal
\* is on the way to the task, or the task is at the poll.
PollPending ==
  HasRemovables =>
    \/ timerReq = "running"
    \/ /\ timerReq = "done"
       /\ \/ "timer" \in sigs
          \/ "timer" \in got /\ tpc \notin {"wait", "check"}
    \/ tpc = "check"

\* A task that waits to be resumed can be: it is marked paused (so CMD_RESUME
\* will signal it), or the signal is there or about to be sent.
NotStranded ==
  tpc = "pauseWait" =>
    paused \/ "ctrl_d" \in sigs \/ \E r \in Reqs : cpc[r] = "signal"

\* A request the task was given is answered, or aborted, whatever the others do.
QueuedIsAnswered == \A r \in Reqs : (cpc[r] = "put") ~> (replies[r] > 0)

-----------------------------------------------------------------------------
(* IoTask keeps the contract of ExecIO.                                       *)

PhaseOf(r) ==
  IF replies[r] > 1 THEN "twice on its port"
  ELSE IF replies[r] = 1 THEN "port"
  ELSE IF cpc[r] = "idle" THEN "client"
  ELSE IF cpc[r] = "out" /\ r \in changeInts THEN "held"
  ELSE "driver"

Contract == INSTANCE ExecIO WITH phase <- [r \in Reqs |-> PhaseOf(r)]

\* Each request is accepted, answered once, and taken back, as ExecIO says.
ContractKept == Contract!Spec
=============================================================================
