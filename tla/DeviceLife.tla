------------------------------ MODULE DeviceLife ------------------------------
(***************************************************************************)
(* The life of the device: init_device() (device.c) starts an IO task per   *)
(* channel of every board it may claim and waits for each to report; the    *)
(* task (io_task(), iotask.c) allocates what it needs, finds its units, and *)
(* either serves requests for good or cleans up and ends.  A task that has  *)
(* ATAPI drives polls every unit of the device, under dev->ulSem.  Clients  *)
(* then open and close units, and Exec may ask the device to expunge        *)
(* itself.  The tasks have a higher priority than init_device()'s caller,   *)
(* which runs only while each of them sleeps.                               *)
(*                                                                         *)
(* Memory is a set of live objects; pointers that are not NULL are a set of *)
(* their own, so a pointer may outlive what it points to.  Any allocation   *)
(* in MayFail may fail, at any time.                                        *)
(***************************************************************************)
EXTENDS Integers, Sequences, FiniteSets

CONSTANTS
  Boards,         \* Boards[b]: the kind of the b-th ConfigDev, see Kinds
  Attached,       \* Attached[u]: the kinds of drives that may be where unit u is
  MayFail,        \* the allocations that may fail
  Reqs,           \* IORequests of clients
  UnitNums,       \* the unit numbers clients ask OpenDevice() for
  MaxOpens        \* bound: how often a client opens the device

Kinds == {"ripple", "atbus", "other", "configured"}

\* A library, the binding, memory for the task structure and the task, ports,
\* timer requests, timer.device, units and the two SCSI commands of a unit.
Allocations == {"expansion", "binding", "itask", "task", "port", "tport", "treq",
                "topen", "dcport", "dcreq", "dcopen", "unit", "scsiCmd", "senseCmd"}

VARIABLES
  dev,         \* "init", "ready" (init_device() returned the base) or "gone"
  ipc,         \* where init_device() is
  board,       \* index of the board at hand
  numBoards,   \* boards seen so far that were to be configured
  channels,    \* detectChannels() for the board at hand
  channel,     \* c, the channel at hand
  single,      \* SIGF_SINGLE of init_device()'s task is set
  configme,    \* boards with CDF_CONFIGME set
  listed,      \* dev->ideTasks
  units,       \* dev->units, the units in the list
  tpc,         \* tpc[t]: where the IO task t is
  next,        \* next[t]: the drive init_units() comes to next
  active,      \* itask->active
  number,      \* number[t]: itask->boardNum
  removables,  \* tasks with itask->hasRemovables
  highestUnit, \* dev->highestUnit
  mem,         \* objects that are allocated
  ptrs,        \* objects a structure has a pointer to
  misuse,      \* history: kinds of objects freed again or used after that
  overtaken,   \* history: tasks listed while their cleanup() waits for dev->ulSem
  io,          \* io[r]: [unit, dev, held, opens] of a client's IORequest, see Request
  openCount,   \* unit->openCount
  libOpenCnt,  \* lib_OpenCnt
  delexp       \* LIBF_DELEXP

initVars   == <<ipc, board, numBoards, channels, channel>>
taskVars   == <<tpc, next, active, removables, highestUnit>>
clientVars == <<io, openCount, libOpenCnt, delexp>>
vars == <<dev, initVars, single, configme, listed, units, taskVars, number, mem,
          ptrs, misuse, overtaken, clientVars>>

-----------------------------------------------------------------------------
(* Tasks are named by their board and channel, units by task and drive.       *)

Tasks == (1..Len(Boards)) \X {0, 1}
Units == (1..Len(Boards)) \X {0, 1} \X {0, 1}
TaskOf(u) == <<u[1], u[2]>>
NoUnit == <<>>

ASSUME ConstantsAssumption ==
  /\ Boards \in Seq(Kinds)
  /\ Attached \in [Units -> SUBSET {"ata", "atapi"}]
  /\ MayFail \subseteq Allocations
  /\ IsFiniteSet(Reqs)
  /\ UnitNums \subseteq Nat
  /\ MaxOpens \in Nat

TaskObjects == {"itask", "port", "tport", "treq", "dcport", "dcreq"} \X Tasks
UnitObjects == {"unit", "scsiCmd", "senseCmd"} \X Units
Objects == TaskObjects \cup UnitObjects

KindsOf(objs) == {o[1] : o \in objs}

ObjectsOf(t) == {o \in Objects : o[2] = t \/ (o \in UnitObjects /\ TaskOf(o[2]) = t)}

UnitNumNoShift(u) == number[TaskOf(u)] * 4 + u[2] + u[3]
UnitNum(u) == number[TaskOf(u)] * 4 + u[2] * 2 + u[3]

Listed(u) == u \in units

\* io_Unit, whether io_Device is set, whether the client has the request open,
\* and how often it opened it.
Request == [unit : Units \cup {NoUnit}, dev : BOOLEAN, held : BOOLEAN, opens : 0..MaxOpens]

TaskPcs == {"none", "port", "timer", "units", "dctimer", "run", "poll",
            "cleanup", "freeUnits", "report", "dead"}
InitPcs == {"library", "binding", "board", "channel", "wait", "check", "out"}

TypeOK ==
  /\ dev \in {"init", "ready", "gone"}
  /\ ipc \in InitPcs
  /\ board \in 1..Len(Boards) + 1
  /\ numBoards \in 0..Len(Boards)
  /\ channels \in 0..2 /\ channel \in 0..2
  /\ single \in BOOLEAN
  /\ configme \subseteq 1..Len(Boards)
  /\ listed \subseteq Tasks
  /\ units \subseteq Units
  /\ tpc \in [Tasks -> TaskPcs]
  /\ next \in [Tasks -> 0..2]
  /\ active \in [Tasks -> BOOLEAN]
  /\ number \in [Tasks -> 0..Len(Boards)]
  /\ removables \subseteq Tasks
  /\ highestUnit \in 0..4 * Len(Boards) + 3
  /\ mem \subseteq Objects /\ ptrs \subseteq Objects
  /\ misuse \subseteq KindsOf(Objects)
  /\ overtaken \subseteq Tasks
  /\ io \in [Reqs -> Request]
  /\ openCount \in [Units -> Nat]
  /\ libOpenCnt \in Nat
  /\ delexp \in BOOLEAN

Init ==
  /\ dev = "init" /\ ipc = "library"
  /\ board = 1 /\ numBoards = 0 /\ channels = 0 /\ channel = 0
  /\ single = FALSE
  /\ configme = {b \in 1..Len(Boards) : Boards[b] # "configured"}
  /\ listed = {} /\ units = {}
  /\ tpc = [t \in Tasks |-> "none"]
  /\ next = [t \in Tasks |-> 0]
  /\ active = [t \in Tasks |-> FALSE]
  /\ number = [t \in Tasks |-> 0]
  /\ highestUnit = 0
  /\ removables = {} /\ mem = {} /\ ptrs = {} /\ misuse = {} /\ overtaken = {}
  /\ io = [r \in Reqs |-> [unit |-> NoUnit, dev |-> FALSE, held |-> FALSE, opens |-> 0]]
  /\ openCount = [u \in Units |-> 0]
  /\ libOpenCnt = 0
  /\ delexp = FALSE

Fails(a) == a \in MayFail

\* AllocMem() and a pointer to the result; FreeMem() of what pointers lead to.
Allocate(objs) == mem' = mem \cup objs /\ ptrs' = ptrs \cup objs

\* frees is what is freed, keeps whether the pointers stay as they are.
Free(frees, keeps) ==
  /\ mem' = mem \ frees
  /\ ptrs' = IF keeps THEN ptrs ELSE ptrs \ frees
  /\ misuse' = misuse \cup KindsOf(frees \ mem)

Found(t) == {u \in Units : TaskOf(u) = t /\ Listed(u)}

\* diskchange_check() of a task has dev->ulSem, shared with other polls.
Polling == \E t \in Tasks : tpc[t] = "poll"

\* A task sleeps when it has not begun or has ended, waits for its drives or in
\* its loop, or, in cleanup(), waits for dev->ulSem.
Sleeps(t) ==
  \/ tpc[t] \in {"none", "units", "run", "poll", "dead"}
  \/ tpc[t] = "freeUnits" /\ Found(t) # {} /\ Polling

TasksSleep == \A t \in Tasks : Sleeps(t)

-----------------------------------------------------------------------------
(* init_device().                                                             *)

InitOnly == UNCHANGED <<listed, units, taskVars, number, mem, ptrs, misuse, overtaken,
                        clientVars>>

\* Cleanup(): no task is in the list when init_device() calls it.
Cleanup == dev' = "gone" /\ ipc' = "out"

GetLibrary ==
  /\ ipc = "library"
  /\ \/ ipc' = "binding" /\ UNCHANGED dev
     \/ Fails("expansion") /\ Cleanup
  /\ UNCHANGED <<board, numBoards, channels, channel, single, configme>>
  /\ InitOnly

GetBinding ==
  /\ ipc = "binding"
  /\ \/ ipc' = "board" /\ UNCHANGED dev
     \/ Fails("binding") /\ Cleanup
  /\ UNCHANGED <<board, numBoards, channels, channel, single, configme>>
  /\ InitOnly

\* detectChannels(): a RIPPLE has two, an AT-Bus card that shows the footer of
\* its ROM one; on others the registers of the second channel are probed.
DetectChannels(kind) ==
  IF kind = "ripple" THEN {2} ELSE IF kind = "atbus" THEN {1} ELSE {1, 2}

NextBoard ==
  /\ ipc = "board" /\ board <= Len(Boards)
  /\ IF board \in configme
     THEN /\ numBoards' = numBoards + 1
          /\ channels' \in DetectChannels(Boards[board])
          /\ channel' = 0
          /\ ipc' = "channel"
          /\ UNCHANGED board
     ELSE board' = board + 1 /\ UNCHANGED <<ipc, numBoards, channels, channel>>
  /\ UNCHANGED <<dev, single, configme>>
  /\ InitOnly

NoMoreBoards ==
  /\ ipc = "board" /\ board > Len(Boards)
  /\ IF listed = {} THEN Cleanup ELSE dev' = "ready" /\ ipc' = "out"
  /\ UNCHANGED <<board, numBoards, channels, channel, single, configme>>
  /\ InitOnly

This == <<board, channel>>

NoMoreChannels ==
  /\ ipc = "channel" /\ channel = channels
  /\ board' = board + 1
  /\ ipc' = "board"
  /\ UNCHANGED <<dev, numBoards, channels, channel, single, configme>>
  /\ InitOnly

\* Without memory the other channels of the board are given up too.
NoTaskMemory ==
  /\ ipc = "channel" /\ channel < channels /\ Fails("itask")
  /\ board' = board + 1
  /\ ipc' = "board"
  /\ UNCHANGED <<dev, numBoards, channels, channel, single, configme>>
  /\ InitOnly

\* L_CreateTask(): the task and its stack are one allocation.
CreateTask(t) == tpc' = [tpc EXCEPT ![t] = "port"]

\* AllocMem(), SetSignal() and L_CreateTask(), which may fail.
StartTask ==
  /\ ipc = "channel" /\ channel < channels
  /\ number' = [number EXCEPT ![This] = numBoards - 1]
  /\ single' = FALSE
  /\ \/ /\ CreateTask(This)
        /\ Allocate({<<"itask", This>>})
        /\ ipc' = "wait"
        /\ UNCHANGED channel
     \/ /\ Fails("task")
        /\ channel' = channel + 1
        /\ UNCHANGED <<tpc, ipc, mem, ptrs>>
  /\ UNCHANGED <<dev, board, numBoards, channels, configme, listed, units, next, active,
                 removables, highestUnit, misuse, overtaken, clientVars>>

WaitTaskForgotten ==
  /\ ipc = "wait"
  /\ single' = FALSE
  /\ ipc' = "check"
  /\ UNCHANGED <<dev, board, numBoards, channels, channel, configme>>
  /\ InitOnly

WaitTask ==
  /\ ipc = "wait" /\ single
  /\ single' = FALSE
  /\ ipc' = "check"
  /\ UNCHANGED <<dev, board, numBoards, channels, channel, configme>>
  /\ InitOnly

CheckTask ==
  /\ ipc = "check"
  /\ IF active[This]
     THEN /\ listed' = listed \cup {This}
          /\ configme' = configme \ {board}
          /\ overtaken' = overtaken \cup {t \in {This} : tpc[t] = "freeUnits"}
          /\ UNCHANGED <<mem, ptrs, misuse>>
     ELSE /\ Free({<<"itask", This>>}, FALSE)
          /\ UNCHANGED <<listed, configme, overtaken>>
  /\ channel' = channel + 1
  /\ ipc' = "channel"
  /\ UNCHANGED <<dev, board, numBoards, channels, single, units, taskVars, number,
                 clientVars>>

InitDevice ==
  /\ TasksSleep
  /\ \/ GetLibrary \/ GetBinding \/ NextBoard \/ NoMoreBoards \/ NoMoreChannels
     \/ NoTaskMemory \/ StartTask \/ WaitTask \/ CheckTask

-----------------------------------------------------------------------------
(* io_task() up to its main loop, and its end.                                *)

Goes(t, here, there) == tpc[t] = here /\ tpc' = [tpc EXCEPT ![t] = there]

TaskOnly == UNCHANGED <<dev, initVars, configme, listed, number, overtaken, clientVars>>

\* Every step of the task reads its IOTask structure.
UsesTask(t) == misuse' = misuse \cup KindsOf({<<"itask", t>>} \ mem)

CreatePort(t) ==
  /\ \/ Goes(t, "port", "timer") /\ Allocate({<<"port", t>>})
     \/ Fails("port") /\ Goes(t, "port", "cleanup") /\ UNCHANGED <<mem, ptrs>>
  /\ UsesTask(t)
  /\ UNCHANGED <<single, units, next, active, removables, highestUnit>>
  /\ TaskOnly

\* create_timer(): the port and the request go where *mp and *tr point, and
\* stay there when what they point to is freed again.
CreateTimer(t, mp, tr, open, here, there) ==
  /\ \/ Goes(t, here, there) /\ Allocate({<<mp, t>>, <<tr, t>>})
     \/ /\ Fails(mp) /\ Goes(t, here, "cleanup")
        /\ UNCHANGED <<mem, ptrs>>
     \/ /\ Fails(tr) /\ Goes(t, here, "cleanup")
        /\ ptrs' = ptrs \cup {<<mp, t>>} /\ UNCHANGED mem
     \/ /\ Fails(open) /\ Goes(t, here, "cleanup")
        /\ ptrs' = ptrs \cup {<<mp, t>>, <<tr, t>>} /\ UNCHANGED mem
  /\ UsesTask(t)
  /\ UNCHANGED <<single, units, next, active, removables, highestUnit>>
  /\ TaskOnly

CreateTaskTimer(t) == CreateTimer(t, "tport", "treq", "topen", "timer", "units")

\* run_timer() follows: the timer is armed when the task reaches its loop.
CreatePollTimer(t) == CreateTimer(t, "dcport", "dcreq", "dcopen", "dctimer", "run")

Commands(u) == {<<"scsiCmd", u>>, <<"senseCmd", u>>}

UnitFoundOneMore(t) ==
  LET u == <<t[1], t[2], next[t]>> IN
  /\ tpc[t] = "units" /\ next[t] <= 2
  /\ Allocate({<<"unit", u>>})
  /\ units' = units \cup {u}
  /\ highestUnit' = UnitNum(u)
  /\ next' = [next EXCEPT ![t] = @ + 1]
  /\ UsesTask(t)
  /\ UNCHANGED <<single, tpc, active, removables>>
  /\ TaskOnly

\* The next drive of init_units(): ata_init_unit() finds an ATA drive, or
\* atapi_init_unit() an ATAPI drive and makes its two SCSI commands.  The unit
\* goes into the list under dev->ulSem.
UnitFound(t) ==
  LET u == <<t[1], t[2], next[t]>> IN
  /\ tpc[t] = "units" /\ next[t] < 2 /\ ~Polling
  /\ \/ "ata" \in Attached[u] /\ Allocate({<<"unit", u>>}) /\ UNCHANGED removables
     \/ /\ "atapi" \in Attached[u]
        /\ Allocate({<<"unit", u>>} \cup Commands(u))
        /\ removables' = removables \cup {t}
  /\ units' = units \cup {u}
  /\ highestUnit' = UnitNum(u)
  /\ next' = [next EXCEPT ![t] = @ + 1]
  /\ UsesTask(t)
  /\ UNCHANGED <<single, tpc, active>>
  /\ TaskOnly

\* No memory for the unit, no drive, one that is not understood, or no memory
\* for its first SCSI command: the unit is freed again.
UnitNotFound(t) ==
  /\ tpc[t] = "units" /\ next[t] < 2
  /\ next' = [next EXCEPT ![t] = @ + 1]
  /\ UsesTask(t)
  /\ UNCHANGED <<single, tpc, active, removables, units, mem, ptrs, highestUnit>>
  /\ TaskOnly

\* No memory for the sense command: atapi_init_unit() frees scsiCmd and
\* init_units(), which finds the pointer still set, frees it again.
SenseCommandFails(t) ==
  /\ tpc[t] = "units" /\ next[t] < 2 /\ Fails("senseCmd")
  /\ "atapi" \in Attached[<<t[1], t[2], next[t]>>]
  /\ next' = [next EXCEPT ![t] = @ + 1]
  /\ misuse' = misuse \cup {"scsiCmd"}
  /\ UNCHANGED <<single, tpc, active, removables, units, mem, ptrs, highestUnit>>
  /\ TaskOnly

NoUnitsSilently(t) ==
  /\ next[t] = 2 /\ Found(t) = {}
  /\ Goes(t, "units", "dead")
  /\ UsesTask(t)
  /\ UNCHANGED <<single, next, active, removables, units, mem, ptrs, highestUnit>>
  /\ TaskOnly

NoUnits(t) ==
  /\ next[t] = 2 /\ Found(t) = {}
  /\ Goes(t, "units", "cleanup")
  /\ UsesTask(t)
  /\ UNCHANGED <<single, next, active, removables, units, mem, ptrs, highestUnit>>
  /\ TaskOnly

\* The task is active and says so before it makes its poll timer.
Ready(t) ==
  /\ next[t] = 2 /\ Found(t) # {}
  /\ Goes(t, "units", IF t \in removables THEN "dctimer" ELSE "run")
  /\ active' = [active EXCEPT ![t] = TRUE]
  /\ single' = TRUE
  /\ UsesTask(t)
  /\ UNCHANGED <<next, removables, units, mem, ptrs, highestUnit>>
  /\ TaskOnly

\* cleanup(): the ports and the timers, by the pointers.
CleanupTimers(t) ==
  LET mine == ptrs \cap ({"port", "tport", "treq", "dcport", "dcreq"} \X {t}) IN
  /\ Goes(t, "cleanup", "freeUnits")
  /\ Free(mine, TRUE)
  /\ UNCHANGED <<single, next, active, removables, units, highestUnit>>
  /\ TaskOnly

FirstFound(t) == CHOOSE u \in Found(t) : \A v \in Found(t) : u[3] <= v[3]

FreeUnitButSense(t) ==
  LET u == FirstFound(t)
      mine == {o \in ptrs \cap UnitObjects : o[2] = u /\ o[1] # "senseCmd"} IN
  /\ tpc[t] = "freeUnits" /\ Found(t) # {} /\ ~Polling
  /\ units' = units \ {u}
  /\ mem' = mem \ mine
  /\ ptrs' = ptrs \ mine
  /\ misuse' = misuse \cup KindsOf(mine \ mem) \cup KindsOf({<<"itask", t>>} \ mem) \cup {"unit"}
  /\ UNCHANGED <<single, tpc, next, active, removables, highestUnit>>
  /\ TaskOnly

\* cleanup(): a unit of the task leaves the list under dev->ulSem and is freed
\* with its commands; the loop then takes the successor out of that unit.
FreeUnit(t) ==
  LET u == FirstFound(t)
      mine == {o \in ptrs \cap UnitObjects : o[2] = u} IN
  /\ tpc[t] = "freeUnits" /\ Found(t) # {} /\ ~Polling
  /\ units' = units \ {u}
  /\ mem' = mem \ mine
  /\ ptrs' = ptrs \ mine
  /\ misuse' = misuse \cup KindsOf(mine \ mem) \cup KindsOf({<<"itask", t>>} \ mem) \cup {"unit"}
  /\ UNCHANGED <<single, tpc, next, active, removables, highestUnit>>
  /\ TaskOnly

UnitsFreed(t) ==
  /\ Found(t) = {}
  /\ Goes(t, "freeUnits", "report")
  /\ UsesTask(t)
  /\ UNCHANGED <<single, units, mem, ptrs, next, active, removables, highestUnit>>
  /\ TaskOnly

ReportEndStaysActive(t) ==
  /\ Goes(t, "report", "dead")
  /\ single' = TRUE
  /\ next' = [next EXCEPT ![t] = 0]
  /\ removables' = removables \ {t}
  /\ ptrs' = ptrs \ ObjectsOf(t)
  /\ UsesTask(t)
  /\ UNCHANGED <<active, units, mem, highestUnit>>
  /\ TaskOnly

\* The end of cleanup(), then RemTask(): the stack and what the IOTask says
\* are not looked at again.
ReportEnd(t) ==
  /\ Goes(t, "report", "dead")
  /\ active' = [active EXCEPT ![t] = FALSE]
  /\ single' = TRUE
  /\ next' = [next EXCEPT ![t] = 0]
  /\ removables' = removables \ {t}
  /\ ptrs' = ptrs \ ObjectsOf(t)
  /\ UsesTask(t)
  /\ UNCHANGED <<units, mem, highestUnit>>
  /\ TaskOnly

\* The poll timer is due: diskchange_check() obtains dev->ulSem ...
StartPoll(t) ==
  /\ t \in removables
  /\ Goes(t, "run", "poll")
  /\ UsesTask(t)
  /\ UNCHANGED <<single, units, mem, ptrs, next, active, removables, highestUnit>>
  /\ TaskOnly

\* What it reads of unit u; an ATAPI unit is asked with the commands of the unit
\* and the timer of the task that found it, whoever polls.
PollUses(u) ==
  {<<"unit", u>>, <<"itask", TaskOf(u)>>} \cup
    IF <<"scsiCmd", u>> \in ptrs THEN Commands(u) \cup {<<"treq", TaskOf(u)>>} ELSE {}

\* ... and releases it when it has been to every unit in the list.
EndPoll(t) ==
  /\ Goes(t, "poll", "run")
  /\ misuse' = misuse \cup KindsOf((UNION {PollUses(u) : u \in units}) \ mem)
                      \cup KindsOf({<<"itask", t>>} \ mem)
  /\ UNCHANGED <<single, units, mem, ptrs, next, active, removables, highestUnit>>
  /\ TaskOnly

Task(t) ==
  \/ CreatePort(t) \/ CreateTaskTimer(t) \/ CreatePollTimer(t)
  \/ UnitFound(t) \/ UnitNotFound(t) \/ SenseCommandFails(t)
  \/ NoUnits(t) \/ Ready(t)
  \/ StartPoll(t) \/ EndPoll(t)
  \/ CleanupTimers(t) \/ FreeUnit(t) \/ UnitsFreed(t) \/ ReportEnd(t)

-----------------------------------------------------------------------------
(* Clients.  Exec calls open(), close() and expunge() under Forbid().         *)

ClientOnly == UNCHANGED <<dev, initVars, single, configme, listed, units, taskVars,
                          number, mem, ptrs, overtaken>>

\* open(): the LUN is n / 10 in a byte, the unit what is left of n.
Lun(n) == (n \div 10) % 256

Opens(n, u) ==
  /\ Lun(n) = 0
  /\ n % 10 <= highestUnit
  /\ Listed(u) /\ UnitNum(u) = n % 10
  /\ active[TaskOf(u)]

OpenStaysCounted(r, n, u) ==
  /\ dev = "ready"
  /\ io[r].opens < MaxOpens /\ ~io[r].held
  /\ Opens(n, u)
  /\ io' = [io EXCEPT ![r] = [unit |-> u, dev |-> TRUE, held |-> TRUE, opens |-> @.opens + 1]]
  /\ openCount' = [openCount EXCEPT ![u] = @ + 1]
  /\ libOpenCnt' = libOpenCnt + 2
  /\ delexp' = FALSE
  /\ UNCHANGED misuse
  /\ ClientOnly

Open(r, n, u) ==
  /\ dev = "ready"
  /\ io[r].opens < MaxOpens /\ ~io[r].held
  /\ Opens(n, u)
  /\ io' = [io EXCEPT ![r] = [unit |-> u, dev |-> TRUE, held |-> TRUE, opens |-> @.opens + 1]]
  /\ openCount' = [openCount EXCEPT ![u] = @ + 1]
  /\ libOpenCnt' = libOpenCnt + 1
  /\ delexp' = FALSE
  /\ misuse' = misuse \cup KindsOf({<<"unit", u>>, <<"itask", TaskOf(u)>>} \ mem)
  /\ ClientOnly

OpenFails(r, n) ==
  /\ dev = "ready"
  /\ io[r].opens < MaxOpens /\ ~io[r].held
  /\ \A u \in Units : ~Opens(n, u)
  /\ io' = [io EXCEPT ![r] = [unit |-> NoUnit, dev |-> FALSE, held |-> FALSE, opens |-> @.opens + 1]]
  /\ UNCHANGED <<openCount, libOpenCnt, delexp, misuse>>
  /\ ClientOnly

Less(n) == IF n > 0 THEN n - 1 ELSE 0

\* close() of a request that is open; when the last is closed and the device
\* was to be expunged, the request keeps its device and unit.
Close(r) ==
  LET u == io[r].unit IN
  /\ dev = "ready" /\ io[r].held /\ io[r].dev /\ Listed(u)
  /\ libOpenCnt' = Less(libOpenCnt)
  /\ openCount' = [openCount EXCEPT ![u] = Less(@)]
  /\ io' = IF libOpenCnt' = 0 /\ delexp
           THEN [io EXCEPT ![r].held = FALSE]
           ELSE [io EXCEPT ![r].held = FALSE, ![r].unit = NoUnit, ![r].dev = FALSE]
  /\ UNCHANGED <<delexp, misuse>>
  /\ ClientOnly

\* close() of a request whose unit has left the list counts nothing.
CloseUnlisted(r) ==
  /\ dev = "ready" /\ io[r].held /\ ~Listed(io[r].unit)
  /\ io' = [io EXCEPT ![r].held = FALSE, ![r].unit = NoUnit, ![r].dev = FALSE]
  /\ UNCHANGED <<openCount, libOpenCnt, delexp, misuse>>
  /\ ClientOnly

\* expunge() only remembers that it was asked.
Expunge ==
  /\ dev = "ready"
  /\ delexp' = TRUE
  /\ UNCHANGED <<io, openCount, libOpenCnt, misuse>>
  /\ ClientOnly

Client ==
  \/ \E r \in Reqs, n \in UnitNums : OpenFails(r, n) \/ \E u \in Units : Open(r, n, u)
  \/ \E r \in Reqs : Close(r) \/ CloseUnlisted(r)
  \/ Expunge

-----------------------------------------------------------------------------
Next == InitDevice \/ (\E t \in Tasks : Task(t)) \/ Client

\* Exec runs every IO task that is ready to run, or becomes ready again and
\* again, and init_device()'s task when they sleep; polls take a moment every
\* CHANGEINT_INTERVAL seconds, so dev->ulSem is free again and again.
Fairness ==
  /\ WF_vars(InitDevice)
  /\ \A t \in Tasks : SF_vars(Task(t))
  /\ []<>~Polling

Spec == Init /\ [][Next]_vars /\ Fairness

-----------------------------------------------------------------------------
(* Properties.                                                                *)

\* No step of a task, of init_device() or of a client uses or frees an IOTask,
\* a request port or a sense command that was freed before, and a unit a
\* client has open is there: init_device() frees a task's structure only after
\* the task's last use of it (device.c 472), whatever could not be allocated,
\* unless it has overtaken a task whose cleanup() waits (iotask.c 317).
UsesWhatIsThere ==
  overtaken = {} =>
    /\ misuse \cap {"itask", "port", "senseCmd"} = {}
    /\ \A r \in Reqs : io[r].dev => <<"unit", io[r].unit>> \in mem

\* cleanup() and init_device() between them give everything back: what a task
\* that ended had is gone with it, and a device that could not start holds
\* nothing and leaves every board to be configured by another driver; unless
\* init_device() has overtaken a task's cleanup().
NothingIsLeft ==
  overtaken = {} =>
    /\ \A t \in Tasks : <<"itask", t>> \notin mem => ObjectsOf(t) \cap mem = {}
    /\ dev = "gone" => /\ mem = {}
                       /\ configme = {b \in 1..Len(Boards) : Boards[b] # "configured"}

Serving(t) == tpc[t] \in {"run", "poll"}

\* init_device() keeps the tasks that serve requests and no other, and claims
\* exactly their boards: a task that gives up after it was active (its poll
\* timer failed, iotask.c 634) is found out too, unless another task polls and
\* keeps dev->ulSem from its cleanup().
ListedServe ==
  overtaken = {} /\ ipc \in {"channel", "board", "out"} =>
    /\ listed = {t \in Tasks : Serving(t)}
    /\ \A t \in Tasks : t \in listed <=> active[t] /\ Found(t) # {}
    /\ \A b \in 1..Len(Boards) :
         b \in configme <=> Boards[b] # "configured" /\ \A t \in listed : t[1] # b

\* Units have numbers of their own, none above highestUnit, so open() finds
\* every unit whose number has one digit.
UnitsAreFound ==
  overtaken = {} =>
    \A u, v \in units :
      /\ UnitNum(u) = UnitNum(v) => u = v
      /\ UnitNum(u) <= highestUnit

\* The counts of openers are right whatever clients open, close and expunge: a
\* count that is too low would let a device in use be expunged, one that is too
\* high would keep it for good.
CountsAgree ==
  overtaken = {} =>
    /\ libOpenCnt = Cardinality({r \in Reqs : io[r].held})
    /\ \A u \in Units : openCount[u] = Cardinality({r \in Reqs : io[r].held /\ io[r].unit = u})

\* init_device() always comes back, whatever fails: a task that ends says so.
InitReturns == <>(dev # "init")

\* "Clean up after the task, freeing resources etc back to the system"
\* (cleanup(), iotask.c 301): nothing is freed twice or used after.
CleansUp == misuse = {}

=============================================================================
