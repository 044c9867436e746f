--------------------------- MODULE DeviceLife_proofs ---------------------------
(***************************************************************************)
(* Proofs about DeviceLife, for any boards, any allocations that may fail   *)
(* and any clients: what is used is there, what is not kept is given back,  *)
(* the device keeps the tasks that serve, and its counts are right.         *)
(*                                                                         *)
(* init_device() may overtake a task whose cleanup() waits for dev->ulSem,  *)
(* and nothing but the types is then promised.  The invariant therefore has *)
(* two parts: TypeInv holds always, IInv while no task is overtaken.        *)
(***************************************************************************)
EXTENDS DeviceLife, FiniteSetTheorems, TLAPS

-----------------------------------------------------------------------------
(* The inductive invariant.                                                   *)

\* init_device() waits for task t, or has just heard.
Starting(t) == ipc \in {"wait", "check"} /\ t = This

\* Tasks init_device() has not come to.
Ahead(t) ==
  \/ t[1] > board
  \/ /\ t[1] = board
     /\ \/ ipc \in {"library", "binding", "board"}
        \/ ipc = "channel" /\ t[2] >= channel
        \/ ipc \in {"wait", "check"} /\ t[2] > channel

\* Where init_device() is, and how many boards it has counted.
InitInv ==
  /\ ipc \in {"library", "binding"} => board = 1 /\ listed = {}
  /\ ipc = "out" <=> dev # "init"
  /\ dev = "gone" => listed = {}
  /\ ipc \in {"channel", "wait", "check"} =>
       board <= Len(Boards) /\ channel <= channels /\ numBoards \in 1..board
  /\ ipc \notin {"channel", "wait", "check"} => numBoards < board
  /\ ipc \in {"wait", "check"} => channel < channels

Timers == {"port", "tport", "treq", "dcport", "dcreq"}
UnitKinds == {"unit", "scsiCmd", "senseCmd"}

\* A task other than the one that is starting has not run, runs for good or has
\* ended; init_device() keeps the second kind and has freed the others.
TaskOk(t) ==
  /\ Ahead(t) => tpc[t] = "none"
  /\ tpc[t] = "none" => next[t] = 0 /\ t \notin removables
  /\ IF Starting(t)
       THEN tpc[t] # "none" /\ t \notin listed
       ELSE /\ tpc[t] \in {"none", "run", "poll", "dead"}
            /\ t \in listed <=> Serving(t)
  /\ <<"itask", t>> \in mem <=> Starting(t) \/ t \in listed
  /\ active[t] => tpc[t] \in {"dctimer", "run", "poll", "cleanup", "freeUnits", "report"}
  /\ tpc[t] \in {"dctimer", "run", "poll"} =>
       active[t] /\ \E u \in units : TaskOf(u) = t

\* The signal init_device() waits for is that of the task it has started.
SignalInv ==
  ipc = "check" \/ (ipc = "wait" /\ single) => active[This] \/ tpc[This] = "dead"

\* Units are in the list while their task has them, and numbers go up.
UnitOk(u) ==
  /\ tpc[TaskOf(u)] \in {"units", "dctimer", "run", "poll", "cleanup", "freeUnits"}
  /\ u[3] < next[TaskOf(u)] /\ UnitNum(u) <= highestUnit
  /\ <<"unit", u>> \in mem

NumberOk(t) ==
  tpc[t] # "none" =>
    /\ number[t] < numBoards
    /\ ipc \in {"channel", "wait", "check"} => (t[1] = board <=> number[t] = numBoards - 1)

\* What is allocated has a pointer, and belongs to a task that has not ended or
\* to a unit in the list.
TimersOk(t) ==
  /\ \A k \in Timers : <<k, t>> \in mem =>
       <<k, t>> \in ptrs /\ tpc[t] \notin {"none", "freeUnits", "report", "dead"}
  /\ <<"port", t>> \in ptrs => <<"port", t>> \in mem \/ tpc[t] \in {"freeUnits", "report"}

UnitMemOk(u) ==
  /\ \A k \in UnitKinds : /\ <<k, u>> \in mem <=> <<k, u>> \in ptrs
                          /\ <<k, u>> \in mem => u \in units
  /\ <<"scsiCmd", u>> \in mem => <<"senseCmd", u>> \in mem

TaskInv == \A t \in Tasks : TaskOk(t) /\ NumberOk(t) /\ TimersOk(t)
UnitInv == (\A u \in units : UnitOk(u)) /\ \A u \in Units : UnitMemOk(u)
MisuseInv == misuse \cap {"itask", "port", "senseCmd"} = {}

ConfigInv ==
  \A b \in 1..Len(Boards) :
    b \in configme <=> Boards[b] # "configured" /\ \A t \in listed : t[1] # b

\* Requests are open only when the device is ready, and of units in the list.
ClientInv ==
  \A r \in Reqs : /\ io[r].held => io[r].dev
                  /\ io[r].dev => dev = "ready" /\ io[r].unit \in units

TypeInv == TypeOK /\ InitInv

IInv ==
  /\ overtaken = {}
  /\ TypeInv /\ TaskInv /\ SignalInv /\ UnitInv
  /\ MisuseInv /\ ConfigInv /\ ClientInv /\ CountsAgree /\ UnitsAreFound

-----------------------------------------------------------------------------
(* Helpers.                                                                   *)

LEMMA Shapes ==
  /\ Len(Boards) \in Nat /\ IsFiniteSet(Reqs)
  /\ \A t \in Tasks : t = <<t[1], t[2]>> /\ t[1] \in 1..Len(Boards) /\ t[2] \in {0, 1}
  /\ \A u \in Units : /\ TaskOf(u) \in Tasks /\ TaskOf(u)[1] = u[1] /\ TaskOf(u)[2] = u[2]
                      /\ u = <<u[1], u[2], u[3]>> /\ u[3] \in {0, 1}
  /\ \A t \in Tasks, n \in {0, 1} :
       /\ <<t[1], t[2], n>> \in Units /\ TaskOf(<<t[1], t[2], n>>) = t
       /\ <<t[1], t[2], n>>[3] = n
  /\ NoUnit \notin Units
<1>1. Len(Boards) \in Nat /\ IsFiniteSet(Reqs)
  BY ConstantsAssumption DEF ConstantsAssumption
<1>2. \A t \in Tasks : t = <<t[1], t[2]>> /\ t[1] \in 1..Len(Boards) /\ t[2] \in {0, 1}
  BY DEF Tasks
<1>3. \A u \in Units : /\ u[1] \in 1..Len(Boards) /\ u[2] \in {0, 1} /\ u[3] \in {0, 1}
                      /\ u = <<u[1], u[2], u[3]>>
  BY DEF Units
<1>4. \A u \in Units : TaskOf(u) \in Tasks /\ TaskOf(u)[1] = u[1] /\ TaskOf(u)[2] = u[2]
  BY <1>3 DEF TaskOf, Tasks
<1>5. \A t \in Tasks, n \in {0, 1} :
       /\ <<t[1], t[2], n>> \in Units /\ TaskOf(<<t[1], t[2], n>>) = t
       /\ <<t[1], t[2], n>>[3] = n
  BY <1>2 DEF TaskOf, Units
<1>6. NoUnit \notin Units
  BY DEF NoUnit, Units
<1> QED
  BY <1>1, <1>2, <1>3, <1>4, <1>5, <1>6

LEMMA KindsFacts ==
  /\ KindsOf({}) = {}
  /\ \A A, B : A \subseteq B => KindsOf(A) \subseteq KindsOf(B)
  /\ \A A, B : KindsOf(A \cup B) = KindsOf(A) \cup KindsOf(B)
BY DEF KindsOf

-----------------------------------------------------------------------------
(* The types, and where init_device() is: they hold whatever happens.         *)

LEMMA InitTypes == ASSUME Init PROVE TypeInv
<1>1. configme \subseteq 1..Len(Boards)
  BY DEF Init
<1>2. io \in [Reqs -> Request]
  BY ConstantsAssumption DEF Init, Request, NoUnit, ConstantsAssumption
<1>3. board \in 1..Len(Boards) + 1 /\ numBoards \in 0..Len(Boards)
      /\ highestUnit \in 0..4 * Len(Boards) + 3
  BY Shapes DEF Init
<1>4. /\ tpc \in [Tasks -> TaskPcs] /\ next \in [Tasks -> 0..2]
      /\ active \in [Tasks -> BOOLEAN] /\ number \in [Tasks -> 0..Len(Boards)]
      /\ openCount \in [Units -> Nat]
  BY Shapes DEF Init, TaskPcs
<1>5. /\ dev \in {"init", "ready", "gone"} /\ ipc \in InitPcs
      /\ channels \in 0..2 /\ channel \in 0..2 /\ libOpenCnt \in Nat
  BY DEF Init, InitPcs
<1>6. single \in BOOLEAN /\ delexp \in BOOLEAN
  BY Zenon DEF Init
<1>7. /\ listed \subseteq Tasks /\ units \subseteq Units /\ removables \subseteq Tasks
      /\ mem \subseteq Objects /\ ptrs \subseteq Objects /\ misuse \subseteq KindsOf(Objects)
      /\ overtaken \subseteq Tasks
  BY Zenon DEF Init
<1>8. InitInv
  BY DEF Init, InitInv
<1> QED
  BY <1>1, <1>2, <1>3, <1>4, <1>5, <1>6, <1>7, <1>8 DEF TypeInv, TypeOK

LEMMA BoardTypes ==
  ASSUME TypeInv,
         GetLibrary \/ GetBinding \/ NextBoard \/ NoMoreBoards \/ NoMoreChannels \/ NoTaskMemory
  PROVE  TypeInv'
<1> USE DEF TypeInv
<1>0. /\ Len(Boards) \in Nat
      /\ board \in 1..Len(Boards) + 1 /\ numBoards \in 0..Len(Boards)
      /\ channels \in 0..2 /\ channel \in 0..2
  BY Shapes DEF TypeOK
<1>1. InitOnly /\ UNCHANGED <<single, configme>> /\ ipc' \in InitPcs
  BY Zenon DEF GetLibrary, GetBinding, NextBoard, NoMoreBoards, NoMoreChannels, NoTaskMemory,
        Cleanup, InitPcs
<1>2. UNCHANGED <<listed, units, tpc, next, active, removables, highestUnit, number, mem,
                  ptrs, misuse, overtaken, io, openCount, libOpenCnt, delexp>>
  BY <1>1 DEF InitOnly, taskVars, clientVars
<1>3. ASSUME /\ board' \in 1..Len(Boards) + 1 /\ numBoards' \in 0..Len(Boards)
             /\ channels' \in 0..2 /\ channel' \in 0..2 /\ dev' \in {"init", "ready", "gone"}
      PROVE  TypeOK'
  BY <1>1, <1>2, <1>3 DEF TypeOK
<1>4. CASE GetLibrary \/ GetBinding
  <2>1. /\ ipc \in {"library", "binding"} /\ ipc' \in {"binding", "board", "out"}
        /\ UNCHANGED <<board, numBoards, channels, channel>>
        /\ dev' \in {"init", "gone"} /\ (ipc' = "out" <=> dev' # "init")
        /\ listed = {}
    BY <1>4 DEF GetLibrary, GetBinding, Cleanup, InitInv
  <2>2. InitInv'
    BY <1>2, <2>1 DEF InitInv
  <2> QED
    BY <1>0, <1>3, <2>1, <2>2
<1>5. CASE NextBoard
  <2>1. ipc = "board" /\ board <= Len(Boards) /\ UNCHANGED dev
        /\ \/ /\ numBoards' = numBoards + 1 /\ channels' \in {1, 2}
              /\ channel' = 0 /\ ipc' = "channel" /\ UNCHANGED board
           \/ board' = board + 1 /\ UNCHANGED <<ipc, numBoards, channels, channel>>
    BY <1>5 DEF NextBoard, DetectChannels
  <2>2. InitInv'
    BY <1>0, <1>2, <2>1 DEF InitInv
  <2>3. /\ board' \in 1..Len(Boards) + 1 /\ numBoards' \in 0..Len(Boards)
        /\ channels' \in 0..2 /\ channel' \in 0..2 /\ dev' \in {"init", "ready", "gone"}
    BY <1>0, <2>1 DEF InitInv, TypeOK
  <2> QED
    BY <1>3, <2>2, <2>3
<1>6. CASE NoMoreBoards
  <2>1. /\ ipc = "board" /\ ipc' = "out" /\ dev' \in {"ready", "gone"}
        /\ dev' = "gone" => listed = {}
        /\ UNCHANGED <<board, numBoards, channels, channel>>
    BY <1>6 DEF NoMoreBoards, Cleanup
  <2>2. InitInv'
    BY <1>2, <2>1 DEF InitInv
  <2> QED
    BY <1>0, <1>3, <2>1, <2>2
<1>7. CASE NoMoreChannels \/ NoTaskMemory
  <2>1. /\ ipc = "channel" /\ ipc' = "board" /\ board' = board + 1
        /\ UNCHANGED <<dev, numBoards, channels, channel>>
    BY <1>7 DEF NoMoreChannels, NoTaskMemory
  <2>2. InitInv'
    BY <1>0, <1>2, <2>1 DEF InitInv
  <2>3. /\ board' \in 1..Len(Boards) + 1 /\ numBoards' \in 0..Len(Boards)
        /\ channels' \in 0..2 /\ channel' \in 0..2 /\ dev' \in {"init", "ready", "gone"}
    BY <1>0, <2>1 DEF InitInv, TypeOK
  <2> QED
    BY <1>3, <2>2, <2>3
<1> QED
  BY <1>4, <1>5, <1>6, <1>7

\* The task init_device() has come to is one of Tasks.
LEMMA ThisTask ==
  ASSUME TypeInv, ipc \in {"channel", "wait", "check"}, channel < channels
  PROVE  /\ board \in 1..Len(Boards) /\ numBoards \in 1..board /\ channel \in {0, 1}
         /\ This \in Tasks /\ This[1] = board /\ This[2] = channel
<1>1. board \in 1..Len(Boards) /\ numBoards \in 1..board /\ channel \in {0, 1}
  BY Shapes DEF TypeInv, TypeOK, InitInv
<1> QED
  BY <1>1 DEF This, Tasks

LEMMA StartTypes == ASSUME TypeInv, StartTask PROVE TypeInv'
<1> USE DEF TypeInv
<1>1. /\ ipc = "channel" /\ channel < channels /\ single' = FALSE
      /\ number' = [number EXCEPT ![This] = numBoards - 1]
      /\ \/ /\ tpc' = [tpc EXCEPT ![This] = "port"] /\ Allocate({<<"itask", This>>})
            /\ ipc' = "wait" /\ UNCHANGED channel
         \/ channel' = channel + 1 /\ UNCHANGED <<tpc, ipc, mem, ptrs>>
      /\ UNCHANGED <<dev, board, numBoards, channels, configme, listed, units, next, active,
                     removables, highestUnit, misuse, overtaken, io, openCount, libOpenCnt,
                     delexp>>
  BY Zenon DEF StartTask, CreateTask, clientVars
<1>2. /\ board \in 1..Len(Boards) /\ numBoards \in 1..board /\ channel \in {0, 1}
      /\ This \in Tasks /\ Len(Boards) \in Nat
      /\ channels \in 0..2 /\ numBoards \in 0..Len(Boards)
  BY <1>1, ThisTask, Shapes DEF TypeOK
<1>3. number' \in [Tasks -> 0..Len(Boards)] /\ tpc' \in [Tasks -> TaskPcs]
      /\ channel' \in 0..2 /\ ipc' \in InitPcs
  <2>1. number \in [Tasks -> 0..Len(Boards)] /\ tpc \in [Tasks -> TaskPcs]
    BY DEF TypeOK
  <2>2. numBoards - 1 \in 0..Len(Boards) /\ channel' \in 0..2
    BY <1>1, <1>2
  <2>3. number' \in [Tasks -> 0..Len(Boards)]
    BY <1>1, <2>1, <2>2
  <2>4. tpc' \in [Tasks -> TaskPcs]
    BY <1>1, <2>1 DEF TaskPcs
  <2>5. ipc' \in InitPcs
    BY <1>1 DEF InitPcs
  <2> QED
    BY <2>2, <2>3, <2>4, <2>5
<1>4. mem' \subseteq Objects /\ ptrs' \subseteq Objects
  <2>1. <<"itask", This>> \in Objects
    BY <1>2 DEF Objects, TaskObjects
  <2> QED
    BY <1>1, <2>1 DEF Allocate, TypeOK
<1>5. single' \in BOOLEAN
  BY <1>1, Zenon
<1>6. InitInv'
  BY <1>1, <1>2 DEF InitInv
<1> QED
  BY <1>1, <1>3, <1>4, <1>5, <1>6 DEF TypeOK

LEMMA WaitTypes == ASSUME TypeInv, WaitTask PROVE TypeInv'
<1> USE DEF TypeInv
<1>1. /\ ipc = "wait" /\ ipc' = "check" /\ single' = FALSE
      /\ UNCHANGED <<dev, board, numBoards, channels, channel, configme, listed, units, tpc,
                     next, active, removables, highestUnit, number, mem, ptrs, misuse,
                     overtaken, io, openCount, libOpenCnt, delexp>>
  BY DEF WaitTask, InitOnly, taskVars, clientVars
<1>2. single' \in BOOLEAN
  BY <1>1, Zenon
<1>3. InitInv'
  BY <1>1 DEF InitInv
<1> QED
  BY <1>1, <1>2, <1>3 DEF TypeOK, InitPcs

LEMMA CheckTypes == ASSUME TypeInv, CheckTask PROVE TypeInv'
<1> USE DEF TypeInv
<1>1. /\ ipc = "check" /\ ipc' = "channel" /\ channel' = channel + 1
      /\ \/ /\ listed' = listed \cup {This} /\ configme' = configme \ {board}
            /\ overtaken' = overtaken \cup {t \in {This} : tpc[t] = "freeUnits"}
            /\ UNCHANGED <<mem, ptrs, misuse>>
         \/ Free({<<"itask", This>>}, FALSE) /\ UNCHANGED <<listed, configme, overtaken>>
      /\ UNCHANGED <<dev, board, numBoards, channels, single, units, tpc, next, active,
                     removables, highestUnit, number, io, openCount, libOpenCnt, delexp>>
  BY Zenon DEF CheckTask, taskVars, clientVars
<1>2. /\ board \in 1..Len(Boards) /\ numBoards \in 1..board /\ channel \in {0, 1}
      /\ channel < channels /\ This \in Tasks /\ channels \in 0..2
  BY <1>1, ThisTask DEF InitInv, TypeOK
<1>3. /\ channel' \in 0..2 /\ listed' \subseteq Tasks /\ configme' \subseteq 1..Len(Boards)
      /\ overtaken' \subseteq Tasks
  <2>1. channel' \in 0..2
    BY <1>1, <1>2
  <2>2. listed \subseteq Tasks /\ configme \subseteq 1..Len(Boards) /\ overtaken \subseteq Tasks
    BY DEF TypeOK
  <2>3. listed' \subseteq Tasks /\ configme' \subseteq 1..Len(Boards)
    BY <1>1, <1>2, <2>2
  <2>4. overtaken' \subseteq Tasks
    BY <1>1, <1>2, <2>2
  <2> QED
    BY <2>1, <2>3, <2>4
<1>4. /\ mem' \subseteq Objects /\ ptrs' \subseteq Objects
      /\ misuse' \subseteq KindsOf(Objects)
  <2>1. {<<"itask", This>>} \ mem \subseteq Objects
    BY <1>2 DEF Objects, TaskObjects
  <2> QED
    BY <1>1, <2>1, KindsFacts DEF Free, TypeOK
<1>5. InitInv'
  BY <1>1, <1>2 DEF InitInv
<1> QED
  BY <1>1, <1>3, <1>4, <1>5 DEF TypeOK, InitPcs

\* A step of a task.
LEMMA TaskKeepsTypes ==
  ASSUME TypeInv, TaskOnly, single' \in BOOLEAN,
         tpc' \in [Tasks -> TaskPcs], next' \in [Tasks -> 0..2],
         active' \in [Tasks -> BOOLEAN], removables' \subseteq Tasks,
         highestUnit' \in 0..4 * Len(Boards) + 3, units' \subseteq Units,
         mem' \subseteq Objects, ptrs' \subseteq Objects, misuse' \subseteq KindsOf(Objects)
  PROVE  TypeInv'
<1>1. UNCHANGED <<dev, ipc, board, numBoards, channels, channel, configme, listed, number,
                  overtaken, io, openCount, libOpenCnt, delexp>>
  BY DEF TaskOnly, initVars, clientVars
<1>2. InitInv'
  BY <1>1 DEF TypeInv, InitInv
<1>3. TypeOK'
  BY <1>1 DEF TypeInv, TypeOK
<1> QED
  BY <1>2, <1>3 DEF TypeInv

LEMMA TaskTypes == ASSUME TypeInv, NEW t \in Tasks, Task(t) PROVE TypeInv'
<1>0. /\ single \in BOOLEAN /\ tpc \in [Tasks -> TaskPcs] /\ next \in [Tasks -> 0..2]
      /\ active \in [Tasks -> BOOLEAN] /\ removables \subseteq Tasks
      /\ highestUnit \in 0..4 * Len(Boards) + 3 /\ units \subseteq Units
      /\ mem \subseteq Objects /\ ptrs \subseteq Objects /\ misuse \subseteq KindsOf(Objects)
  BY DEF TypeInv, TypeOK
<1>1. \A k \in Timers \cup {"itask"} : <<k, t>> \in Objects
  BY DEF Objects, TaskObjects, Timers
<1>2. \A pc \in TaskPcs : [tpc EXCEPT ![t] = pc] \in [Tasks -> TaskPcs]
  BY <1>0
<1>3. \A A : A \subseteq Objects => misuse \cup KindsOf(A \ mem) \subseteq KindsOf(Objects)
  <2>1. ASSUME NEW A, A \subseteq Objects PROVE misuse \cup KindsOf(A \ mem) \subseteq KindsOf(Objects)
    <3>1. A \ mem \subseteq Objects
      BY <2>1
    <3> QED
      BY <1>0, <3>1, KindsFacts
  <2> QED
    BY <2>1
<1>4. {<<"itask", t>>} \subseteq Objects
  BY <1>1
<1>5. UsesTask(t) => misuse' \subseteq KindsOf(Objects)
  BY <1>3, <1>4 DEF UsesTask
<1>6. \A k \in {"unit", "scsiCmd"} : k \in KindsOf(Objects)
  <2>1. ASSUME NEW k \in {"unit", "scsiCmd"} PROVE k \in KindsOf(Objects)
    <3> DEFINE o == <<k, <<t[1], t[2], 0>>>>
    <3>1. o \in Objects /\ o[1] = k
      BY Shapes DEF Objects, UnitObjects
    <3> QED
      BY <3>1 DEF KindsOf
  <2> QED
    BY <2>1
<1>7. CASE CreatePort(t)
  <2>1. /\ tpc' \in [Tasks -> TaskPcs] /\ mem' \subseteq Objects /\ ptrs' \subseteq Objects
        /\ UsesTask(t) /\ TaskOnly
        /\ UNCHANGED <<single, units, next, active, removables, highestUnit>>
    BY <1>0, <1>1, <1>2, <1>7 DEF CreatePort, Goes, Allocate, TaskPcs, Timers
  <2> QED
    BY <1>0, <1>5, <2>1, TaskKeepsTypes
<1>8. CASE CreateTaskTimer(t) \/ CreatePollTimer(t)
  <2>1. PICK mp \in Timers, tr \in Timers, open \in {"topen", "dcopen"},
             here \in {"timer", "dctimer"}, there \in {"units", "run"} :
          CreateTimer(t, mp, tr, open, here, there)
    BY <1>8 DEF CreateTaskTimer, CreatePollTimer, Timers
  <2>2. tpc' \in [Tasks -> TaskPcs]
    BY <1>2, <2>1 DEF CreateTimer, Goes, TaskPcs
  <2>3. mem' \subseteq Objects /\ ptrs' \subseteq Objects
    BY <1>0, <1>1, <2>1 DEF CreateTimer, Allocate
  <2>4. /\ UsesTask(t) /\ TaskOnly
        /\ UNCHANGED <<single, units, next, active, removables, highestUnit>>
    BY <2>1 DEF CreateTimer
  <2> QED
    BY <1>0, <1>5, <2>2, <2>3, <2>4, TaskKeepsTypes
<1>9. CASE UnitFound(t)
  <2> DEFINE u == <<t[1], t[2], next[t]>>
  <2>1. /\ next[t] < 2 /\ removables' \subseteq Tasks
        /\ \/ Allocate({<<"unit", u>>}) \/ Allocate({<<"unit", u>>} \cup Commands(u))
        /\ units' = units \cup {u} /\ highestUnit' = UnitNum(u)
        /\ next' = [next EXCEPT ![t] = @ + 1]
        /\ UsesTask(t) /\ UNCHANGED <<single, tpc, active>> /\ TaskOnly
    BY <1>0, <1>9 DEF UnitFound
  <2>2. next[t] \in {0, 1} /\ next' \in [Tasks -> 0..2]
    BY <1>0, <2>1
  <2>3. u \in Units /\ TaskOf(u) = t /\ u[2] = t[2] /\ u[3] = next[t]
    BY <2>2, Shapes
  <2> HIDE DEF u
  <2>4. \A k \in UnitKinds : <<k, u>> \in Objects
    BY <2>3 DEF Objects, UnitObjects, UnitKinds
  <2>5. mem' \subseteq Objects /\ ptrs' \subseteq Objects /\ units' \subseteq Units
    BY <1>0, <2>1, <2>3, <2>4 DEF Allocate, Commands, UnitKinds
  <2>6. highestUnit' \in 0..4 * Len(Boards) + 3
    <3>1. /\ highestUnit' = number[t] * 4 + t[2] * 2 + next[t]
          /\ t[2] \in {0, 1} /\ Len(Boards) \in Nat
      BY <2>1, <2>3, Shapes DEF UnitNum
    <3>2. number[t] \in 0..Len(Boards)
      BY DEF TypeInv, TypeOK
    <3> QED
      BY <2>2, <3>1, <3>2
  <2> QED
    BY <1>0, <1>5, <2>1, <2>2, <2>5, <2>6, TaskKeepsTypes
<1>10. CASE UnitNotFound(t) \/ SenseCommandFails(t)
  <2>1. /\ next[t] < 2 /\ next' = [next EXCEPT ![t] = @ + 1] /\ TaskOnly
        /\ UsesTask(t) \/ misuse' = misuse \cup {"scsiCmd"}
        /\ UNCHANGED <<single, tpc, active, removables, units, mem, ptrs, highestUnit>>
    BY <1>10 DEF UnitNotFound, SenseCommandFails
  <2>2. next' \in [Tasks -> 0..2]
    BY <1>0, <2>1
  <2>3. misuse' \subseteq KindsOf(Objects)
    BY <1>0, <1>5, <1>6, <2>1
  <2> QED
    BY <1>0, <2>1, <2>2, <2>3, TaskKeepsTypes
<1>11. CASE NoUnits(t) \/ UnitsFreed(t) \/ StartPoll(t)
  <2>1. /\ tpc' \in [Tasks -> TaskPcs] /\ UsesTask(t) /\ TaskOnly
        /\ UNCHANGED <<single, units, mem, ptrs, next, active, removables, highestUnit>>
    BY <1>2, <1>11 DEF NoUnits, UnitsFreed, StartPoll, Goes, TaskPcs
  <2> QED
    BY <1>0, <1>5, <2>1, TaskKeepsTypes
<1>12. CASE Ready(t)
  <2>1. /\ tpc' \in [Tasks -> TaskPcs] /\ UsesTask(t) /\ TaskOnly
        /\ UNCHANGED <<next, removables, units, mem, ptrs, highestUnit>>
    BY <1>2, <1>12 DEF Ready, Goes, TaskPcs
  <2>2. active' \in [Tasks -> BOOLEAN] /\ single' \in BOOLEAN
    <3>1. active' = [active EXCEPT ![t] = TRUE] /\ single' = TRUE
      BY <1>12 DEF Ready
    <3> QED
      BY <1>0, <3>1, Zenon
  <2> QED
    BY <1>0, <1>5, <2>1, <2>2, TaskKeepsTypes
<1>13. CASE CleanupTimers(t)
  <2> DEFINE mine == ptrs \cap (Timers \X {t})
  <2>1. /\ tpc' \in [Tasks -> TaskPcs] /\ mem' = mem \ mine /\ UNCHANGED ptrs
        /\ misuse' = misuse \cup KindsOf(mine \ mem) /\ TaskOnly
        /\ UNCHANGED <<single, next, active, removables, units, highestUnit>>
    BY <1>2, <1>13 DEF CleanupTimers, Free, Goes, Timers, TaskPcs
  <2>2. mine \subseteq Objects
    BY <1>0
  <2>3. mem' \subseteq Objects /\ misuse' \subseteq KindsOf(Objects)
    BY <1>0, <1>3, <2>1, <2>2
  <2> QED
    BY <1>0, <2>1, <2>3, TaskKeepsTypes
<1>14. CASE FreeUnit(t)
  <2>1. PICK mine \in SUBSET Objects :
          /\ mem' = mem \ mine /\ ptrs' = ptrs \ mine
          /\ misuse' = misuse \cup KindsOf(mine \ mem) \cup KindsOf({<<"itask", t>>} \ mem)
                              \cup {"unit"}
    <3>1. {o \in ptrs \cap UnitObjects : o[2] = FirstFound(t)} \in SUBSET Objects
      BY <1>0
    <3> QED
      BY <1>14, <3>1 DEF FreeUnit
  <2>2. units' \subseteq units /\ TaskOnly
        /\ UNCHANGED <<single, tpc, next, active, removables, highestUnit>>
    BY <1>14 DEF FreeUnit
  <2>3. misuse' \subseteq KindsOf(Objects)
    BY <1>3, <1>4, <1>6, <2>1
  <2> QED
    BY <1>0, <2>1, <2>2, <2>3, TaskKeepsTypes
<1>15. CASE ReportEnd(t)
  <2>1. /\ tpc' \in [Tasks -> TaskPcs] /\ next' = [next EXCEPT ![t] = 0]
        /\ active' = [active EXCEPT ![t] = FALSE] /\ single' = TRUE
        /\ removables' = removables \ {t} /\ ptrs' = ptrs \ ObjectsOf(t)
        /\ UsesTask(t) /\ TaskOnly /\ UNCHANGED <<units, mem, highestUnit>>
    BY <1>2, <1>15 DEF ReportEnd, Goes, TaskPcs
  <2>2. active' \in [Tasks -> BOOLEAN] /\ single' \in BOOLEAN
    BY <1>0, <2>1, Zenon
  <2>3. next' \in [Tasks -> 0..2] /\ removables' \subseteq Tasks /\ ptrs' \subseteq Objects
    BY <1>0, <2>1
  <2> QED
    BY <1>0, <1>5, <2>1, <2>2, <2>3, TaskKeepsTypes
<1>16. CASE EndPoll(t)
  <2>1. /\ tpc' \in [Tasks -> TaskPcs] /\ TaskOnly
        /\ misuse' = misuse \cup KindsOf((UNION {PollUses(u) : u \in units}) \ mem)
                            \cup KindsOf({<<"itask", t>>} \ mem)
        /\ UNCHANGED <<single, units, mem, ptrs, next, active, removables, highestUnit>>
    BY <1>2, <1>16 DEF EndPoll, Goes, TaskPcs
  <2>2. UNION {PollUses(u) : u \in units} \subseteq Objects
    <3> SUFFICES ASSUME NEW u \in units PROVE PollUses(u) \subseteq Objects
      OBVIOUS
    <3>1. u \in Units /\ TaskOf(u) \in Tasks
      BY <1>0, Shapes
    <3>2. /\ \A k \in UnitKinds : <<k, u>> \in Objects
          /\ <<"itask", TaskOf(u)>> \in Objects /\ <<"treq", TaskOf(u)>> \in Objects
      BY <3>1 DEF Objects, UnitObjects, TaskObjects, UnitKinds
    <3> QED
      BY <3>2 DEF PollUses, Commands, UnitKinds
  <2>3. misuse' \subseteq KindsOf(Objects)
    BY <1>3, <1>4, <2>1, <2>2
  <2> QED
    BY <1>0, <2>1, <2>3, TaskKeepsTypes
<1> QED
  BY <1>7, <1>8, <1>9, <1>10, <1>11, <1>12, <1>13, <1>14, <1>15, <1>16 DEF Task

\* A step of a client.
LEMMA ClientKeepsTypes ==
  ASSUME TypeInv, ClientOnly, io' \in [Reqs -> Request], openCount' \in [Units -> Nat],
         libOpenCnt' \in Nat, delexp' \in BOOLEAN, misuse' \subseteq KindsOf(Objects)
  PROVE  TypeInv'
<1>1. UNCHANGED <<dev, ipc, board, numBoards, channels, channel, single, configme, listed,
                  units, tpc, next, active, removables, highestUnit, number, mem, ptrs,
                  overtaken>>
  BY DEF ClientOnly, initVars, taskVars
<1>2. InitInv'
  BY <1>1 DEF TypeInv, InitInv
<1>3. TypeOK'
  BY <1>1 DEF TypeInv, TypeOK
<1> QED
  BY <1>2, <1>3 DEF TypeInv

LEMMA ClientTypes == ASSUME TypeInv, Client PROVE TypeInv'
<1>0. /\ io \in [Reqs -> Request] /\ openCount \in [Units -> Nat] /\ libOpenCnt \in Nat
      /\ delexp \in BOOLEAN /\ mem \subseteq Objects /\ misuse \subseteq KindsOf(Objects)
      /\ MaxOpens \in Nat
  BY ConstantsAssumption DEF TypeInv, TypeOK, ConstantsAssumption
<1>1. \A r \in Reqs, q \in Request : [io EXCEPT ![r] = q] \in [Reqs -> Request]
  BY <1>0
<1>2. ASSUME NEW r \in Reqs, NEW n \in UnitNums, NEW u \in Units, Open(r, n, u)
      PROVE  TypeInv'
  <2> DEFINE q == [unit |-> u, dev |-> TRUE, held |-> TRUE, opens |-> io[r].opens + 1]
  <2>1. /\ io[r].opens < MaxOpens /\ io' = [io EXCEPT ![r] = q]
        /\ openCount' = [openCount EXCEPT ![u] = @ + 1]
        /\ libOpenCnt' = libOpenCnt + 1 /\ delexp' = FALSE
        /\ misuse' = misuse \cup KindsOf({<<"unit", u>>, <<"itask", TaskOf(u)>>} \ mem)
        /\ ClientOnly
    BY <1>2 DEF Open
  <2>2. q \in Request
    <3>1. io[r].opens \in 0..MaxOpens
      BY <1>0 DEF Request
    <3> QED
      BY <1>0, <2>1, <3>1 DEF Request
  <2> HIDE DEF q
  <2>3. io' \in [Reqs -> Request] /\ openCount' \in [Units -> Nat] /\ libOpenCnt' \in Nat
    BY <1>0, <1>1, <2>1, <2>2
  <2>4. delexp' \in BOOLEAN
    BY <2>1, Zenon
  <2>5. {<<"unit", u>>, <<"itask", TaskOf(u)>>} \ mem \subseteq Objects
    <3>1. TaskOf(u) \in Tasks
      BY Shapes
    <3> QED
      BY <3>1 DEF Objects, UnitObjects, TaskObjects
  <2>6. misuse' \subseteq KindsOf(Objects)
    BY <1>0, <2>1, <2>5, KindsFacts
  <2> QED
    BY <2>1, <2>3, <2>4, <2>6, ClientKeepsTypes
<1>3. ASSUME NEW r \in Reqs, NEW n \in UnitNums, OpenFails(r, n)
      PROVE  TypeInv'
  <2> DEFINE q == [unit |-> NoUnit, dev |-> FALSE, held |-> FALSE, opens |-> io[r].opens + 1]
  <2>1. /\ io[r].opens < MaxOpens /\ io' = [io EXCEPT ![r] = q]
        /\ UNCHANGED <<openCount, libOpenCnt, delexp, misuse>> /\ ClientOnly
    BY <1>3 DEF OpenFails
  <2>2. q \in Request
    <3>1. io[r].opens \in 0..MaxOpens
      BY <1>0 DEF Request
    <3> QED
      BY <1>0, <2>1, <3>1 DEF Request
  <2> HIDE DEF q
  <2> QED
    BY <1>0, <1>1, <2>1, <2>2, ClientKeepsTypes
<1>4. ASSUME NEW r \in Reqs, Close(r) \/ CloseUnlisted(r)
      PROVE  TypeInv'
  <2> DEFINE a == [io[r] EXCEPT !.held = FALSE]
  <2> DEFINE b == [io[r] EXCEPT !.held = FALSE, !.unit = NoUnit, !.dev = FALSE]
  <2>1. a \in Request /\ b \in Request
    <3>1. io[r] \in Request
      BY <1>0
    <3> QED
      BY <3>1 DEF Request
  <2>2. /\ io' = [io EXCEPT ![r] = a] \/ io' = [io EXCEPT ![r] = b]
        /\ ClientOnly /\ UNCHANGED <<delexp, misuse>>
    BY <1>0, <1>4 DEF Close, CloseUnlisted
  <2>3. openCount' \in [Units -> Nat] /\ libOpenCnt' \in Nat
    BY <1>0, <1>4 DEF Close, CloseUnlisted, Less
  <2> HIDE DEF a, b
  <2> QED
    BY <1>0, <1>1, <2>1, <2>2, <2>3, ClientKeepsTypes
<1>5. ASSUME Expunge PROVE TypeInv'
  <2>1. /\ delexp' = TRUE /\ UNCHANGED <<io, openCount, libOpenCnt, misuse>> /\ ClientOnly
    BY <1>5 DEF Expunge
  <2>2. delexp' \in BOOLEAN
    BY <2>1, Zenon
  <2> QED
    BY <1>0, <2>1, <2>2, ClientKeepsTypes
<1> QED
  BY <1>2, <1>3, <1>4, <1>5 DEF Client

\* No step forgets a type, or that a task was overtaken.
LEMMA NextTypes == ASSUME TypeInv, [Next]_vars PROVE TypeInv' /\ overtaken \subseteq overtaken'
<1>1. CASE InitDevice
  <2>1. TypeInv'
    BY <1>1, BoardTypes, StartTypes, WaitTypes, CheckTypes DEF InitDevice
  <2>2. overtaken \subseteq overtaken'
    BY <1>1 DEF InitDevice, InitOnly, GetLibrary, GetBinding, NextBoard, NoMoreBoards,
                NoMoreChannels, NoTaskMemory, StartTask, WaitTask, CheckTask
  <2> QED
    BY <2>1, <2>2
<1>2. CASE \E t \in Tasks : Task(t)
  <2>1. \A t \in Tasks : Task(t) => TaskOnly
    BY DEF Task, CreatePort, CreateTaskTimer, CreatePollTimer, CreateTimer, UnitFound,
           UnitNotFound, SenseCommandFails, NoUnits, Ready, StartPoll, EndPoll,
           CleanupTimers, FreeUnit, UnitsFreed, ReportEnd
  <2> QED
    BY <1>2, <2>1, TaskTypes DEF TaskOnly
<1>3. CASE Client
  <2>1. ClientOnly
    BY <1>3, Zenon DEF Client, Open, OpenFails, Close, CloseUnlisted, Expunge
  <2> QED
    BY <1>3, <2>1, ClientTypes DEF ClientOnly
<1>4. CASE UNCHANGED vars
  <2>1. ClientOnly /\ UNCHANGED <<io, openCount, libOpenCnt, delexp, misuse, overtaken>>
    BY <1>4 DEF vars, clientVars, ClientOnly
  <2> QED
    BY <2>1, ClientKeepsTypes DEF TypeInv, TypeOK
<1> QED
  BY <1>1, <1>2, <1>3, <1>4 DEF Next

-----------------------------------------------------------------------------
(* init_device().                                                             *)

LEMMA InitIInv == ASSUME Init PROVE IInv
<1>1. TypeInv /\ overtaken = {}
  BY InitTypes DEF Init
<1>2. SignalInv
  BY DEF Init, SignalInv
<1>3. TaskInv
  BY DEF Init, TaskInv, TaskOk, NumberOk, TimersOk, Starting, Serving
<1>4. UnitInv /\ MisuseInv /\ UnitsAreFound
  BY DEF Init, UnitInv, UnitMemOk, MisuseInv, UnitsAreFound
<1>5. ConfigInv /\ ClientInv
  BY DEF Init, ConfigInv, ClientInv
<1>6. CountsAgree
  <2>1. {r \in Reqs : io[r].held} = {}
    BY DEF Init
  <2>2. \A u \in Units : {r \in Reqs : io[r].held /\ io[r].unit = u} = {}
    BY DEF Init
  <2>3. Cardinality({}) = 0
    BY FS_EmptySet
  <2> QED
    BY <2>1, <2>2, <2>3 DEF Init, CountsAgree
<1> QED
  BY <1>1, <1>2, <1>3, <1>4, <1>5, <1>6 DEF IInv

\* init_device() goes on between tasks: those are as they were.
LEMMA InitMoves ==
  ASSUME IInv, InitOnly, UNCHANGED configme, TypeInv',
         ipc \notin {"wait", "check"}, ipc' \notin {"wait", "check"},
         \A t \in Tasks : Ahead(t)' => Ahead(t),
         \A t \in Tasks : NumberOk(t)',
         dev = "ready" => dev' = "ready"
  PROVE  IInv'
<1> USE DEF IInv, TypeInv
<1>1. UNCHANGED <<listed, units, tpc, next, active, removables, highestUnit, number, mem,
                  ptrs, misuse, overtaken, io, openCount, libOpenCnt, delexp, configme>>
  BY DEF InitOnly, taskVars, clientVars
<1>2. \A t \in Tasks : ~Starting(t) /\ ~Starting(t)'
  BY DEF Starting
<1>3. TaskInv'
  BY <1>1, <1>2 DEF TaskInv, TaskOk, TimersOk, Serving
<1>4. UnitInv' /\ MisuseInv' /\ UnitsAreFound'
  BY <1>1 DEF UnitInv, UnitOk, UnitMemOk, MisuseInv, UnitsAreFound, UnitNum
<1>5. ConfigInv' /\ ClientInv' /\ CountsAgree' /\ SignalInv'
  BY <1>1 DEF ConfigInv, ClientInv, CountsAgree, SignalInv
<1> QED
  BY <1>1, <1>3, <1>4, <1>5

LEMMA BoardStep ==
  ASSUME IInv,
         GetLibrary \/ GetBinding \/ NextBoard \/ NoMoreBoards \/ NoMoreChannels \/ NoTaskMemory
  PROVE  IInv'
<1> USE DEF IInv
<1>0. /\ Len(Boards) \in Nat
      /\ board \in 1..Len(Boards) + 1 /\ numBoards \in 0..Len(Boards)
      /\ channels \in 0..2 /\ channel \in 0..2
      /\ \A t \in Tasks : /\ t[1] \in 1..Len(Boards) /\ t[2] \in {0, 1}
                          /\ number[t] \in 0..Len(Boards)
      /\ \A t \in Tasks : NumberOk(t) /\ (tpc[t] # "none" => ~Ahead(t))
  BY Shapes DEF TypeInv, TypeOK, TaskInv, TaskOk
<1>1. /\ InitOnly /\ UNCHANGED <<single, configme>>
      /\ ipc \notin {"wait", "check"} /\ ipc' \notin {"wait", "check"}
      /\ dev # "ready" /\ TypeInv'
  <2>1. TypeInv'
    BY BoardTypes
  <2> QED
    BY <2>1, Zenon DEF GetLibrary, GetBinding, NextBoard, NoMoreBoards, NoMoreChannels,
       NoTaskMemory, Cleanup, TypeInv, InitInv
<1>2. UNCHANGED <<listed, tpc, number>>
  BY <1>1 DEF InitOnly, taskVars
<1>3. ASSUME \A t \in Tasks : (Ahead(t)' => Ahead(t)) /\ NumberOk(t)' PROVE IInv'
  BY <1>1, <1>3, InitMoves
<1>4. CASE GetLibrary \/ GetBinding
  <2>1. /\ ipc \in {"library", "binding"} /\ ipc' \in {"binding", "board", "out"}
        /\ UNCHANGED <<board, numBoards, channels, channel>>
    BY <1>4 DEF GetLibrary, GetBinding, Cleanup
  <2>2. \A t \in Tasks : (Ahead(t)' => Ahead(t)) /\ NumberOk(t)'
    BY <1>0, <1>2, <2>1 DEF Ahead, NumberOk
  <2> QED
    BY <1>3, <2>2
<1>5. CASE NextBoard
  <2>1. ipc = "board" /\ board <= Len(Boards) /\ UNCHANGED dev
        /\ \/ /\ numBoards' = numBoards + 1 /\ channels' \in {1, 2}
              /\ channel' = 0 /\ ipc' = "channel" /\ UNCHANGED board
           \/ board' = board + 1 /\ UNCHANGED <<ipc, numBoards, channels, channel>>
    BY <1>5 DEF NextBoard, DetectChannels
  <2>2. \A t \in Tasks : (Ahead(t)' => Ahead(t)) /\ NumberOk(t)'
    BY <1>0, <1>2, <2>1 DEF Ahead, NumberOk
  <2> QED
    BY <1>3, <2>2
<1>6. CASE NoMoreBoards
  <2>1. /\ ipc = "board" /\ ipc' = "out"
        /\ UNCHANGED <<board, numBoards, channels, channel>>
    BY <1>6 DEF NoMoreBoards, Cleanup
  <2>2. \A t \in Tasks : (Ahead(t)' => Ahead(t)) /\ NumberOk(t)'
    BY <1>0, <1>2, <2>1 DEF Ahead, NumberOk
  <2> QED
    BY <1>3, <2>2
<1>7. CASE NoMoreChannels \/ NoTaskMemory
  <2>1. /\ ipc = "channel" /\ ipc' = "board" /\ board' = board + 1
        /\ UNCHANGED <<numBoards, channels, channel>>
    BY <1>7 DEF NoMoreChannels, NoTaskMemory
  <2>2. \A t \in Tasks : (Ahead(t)' => Ahead(t)) /\ NumberOk(t)'
    BY <1>0, <1>2, <2>1 DEF Ahead, NumberOk
  <2> QED
    BY <1>3, <2>2
<1> QED
  BY <1>4, <1>5, <1>6, <1>7

\* A task is started, or not.
LEMMA StartStep == ASSUME IInv, StartTask PROVE IInv'
<1> USE DEF IInv, TypeInv
<1>0. /\ Len(Boards) \in Nat
      /\ board \in 1..Len(Boards) + 1 /\ numBoards \in 0..Len(Boards)
      /\ channels \in 0..2 /\ channel \in 0..2
      /\ \A t \in Tasks : /\ t[1] \in 1..Len(Boards) /\ t[2] \in {0, 1}
                          /\ t = <<t[1], t[2]>>
      /\ tpc \in [Tasks -> TaskPcs] /\ number \in [Tasks -> 0..Len(Boards)]
  BY Shapes DEF TypeOK
<1>1. /\ ipc = "channel" /\ channel < channels /\ single' = FALSE
      /\ number' = [number EXCEPT ![This] = numBoards - 1]
      /\ UNCHANGED <<dev, board, numBoards, channels, configme, listed, units, next, active,
                     removables, highestUnit, misuse, overtaken, io, openCount, libOpenCnt,
                     delexp>>
      /\ TypeInv'
  BY Zenon, StartTypes DEF StartTask, clientVars
<1>2. /\ board \in 1..Len(Boards) /\ numBoards \in 1..board /\ channel \in {0, 1}
      /\ This \in Tasks /\ This[1] = board /\ This[2] = channel
  BY <1>1, ThisTask
<1>3. Ahead(This) /\ tpc[This] = "none" /\ next[This] = 0 /\ This \notin listed
  <2>1. Ahead(This)
    BY <1>0, <1>1, <1>2 DEF Ahead
  <2>2. ~Starting(This)
    BY <1>1 DEF Starting
  <2> QED
    BY <1>2, <2>1, <2>2 DEF TaskInv, TaskOk, Serving
<1>4. \A u \in units : TaskOf(u) # This /\ TaskOf(u) \in Tasks /\ u \in Units
  BY <1>3, Shapes DEF UnitInv, UnitOk, TypeOK
<1>5. /\ number' \in [Tasks -> 0..Len(Boards)] /\ number'[This] = numBoards - 1
      /\ \A t \in Tasks : t # This => number'[t] = number[t]
      /\ \A u \in units : UnitNum(u)' = UnitNum(u)
  <2>1. number' \in [Tasks -> 0..Len(Boards)] /\ number'[This] = numBoards - 1
        /\ \A t \in Tasks : t # This => number'[t] = number[t]
    BY <1>0, <1>1, <1>2
  <2> QED
    BY <1>4, <2>1 DEF UnitNum
<1>6. UnitsAreFound'
  BY <1>1, <1>5 DEF UnitsAreFound
<1>7. ConfigInv' /\ ClientInv' /\ CountsAgree' /\ MisuseInv'
  BY <1>1 DEF ConfigInv, ClientInv, CountsAgree, MisuseInv
<1>8. CASE /\ CreateTask(This) /\ Allocate({<<"itask", This>>})
           /\ ipc' = "wait" /\ UNCHANGED channel
  <2>1. /\ tpc' = [tpc EXCEPT ![This] = "port"] /\ ipc' = "wait" /\ channel' = channel
        /\ mem' = mem \cup {<<"itask", This>>} /\ ptrs' = ptrs \cup {<<"itask", This>>}
    BY <1>8 DEF CreateTask, Allocate
  <2>2. /\ tpc' \in [Tasks -> TaskPcs] /\ tpc'[This] = "port"
        /\ \A t \in Tasks : t # This => tpc'[t] = tpc[t]
    BY <1>0, <1>2, <2>1 DEF TaskPcs
  <2>5. This' = This /\ \A t \in Tasks : /\ Starting(t)' <=> t = This
                                         /\ Ahead(t)' => Ahead(t) /\ t # This
                                         /\ ~Starting(t)
    BY <1>0, <1>1, <1>2, <2>1 DEF This, Starting, Ahead
  <2>6. TaskInv'
    <3> SUFFICES ASSUME NEW t \in Tasks PROVE TaskOk(t)' /\ NumberOk(t)' /\ TimersOk(t)'
      BY DEF TaskInv
    <3>1. TaskOk(t) /\ NumberOk(t) /\ TimersOk(t)
      BY DEF TaskInv
    <3>2. <<"itask", t>> \in mem' <=> <<"itask", t>> \in mem \/ t = This
      BY <2>1
    <3>3. TaskOk(t)'
      BY <1>1, <1>3, <2>1, <2>2, <2>5, <3>1, <3>2 DEF TaskOk, Serving
    <3>4. NumberOk(t)'
      BY <1>0, <1>1, <1>2, <1>5, <2>1, <2>2, <3>1 DEF NumberOk
    <3>5. \A k \in Timers : /\ <<k, t>> \in mem' <=> <<k, t>> \in mem
                            /\ <<k, t>> \in ptrs' <=> <<k, t>> \in ptrs
      BY <2>1 DEF Timers
    <3>6. TimersOk(t)'
      BY <1>3, <2>2, <3>1, <3>5 DEF TimersOk, Timers
    <3> QED
      BY <3>3, <3>4, <3>6
  <2>7. UnitInv'
    <3>1. \A u \in units : UnitOk(u)'
      BY <1>1, <1>4, <1>5, <2>1, <2>2 DEF UnitInv, UnitOk
    <3>2. \A u \in Units : UnitMemOk(u)'
      BY <1>1, <2>1 DEF UnitInv, UnitMemOk, UnitKinds
    <3> QED
      BY <1>1, <3>1, <3>2 DEF UnitInv
  <2>8. SignalInv'
    BY <1>1, <2>1 DEF SignalInv
  <2> QED
    BY <1>1, <1>6, <1>7, <2>6, <2>7, <2>8
<1>9. CASE channel' = channel + 1 /\ UNCHANGED <<tpc, ipc, mem, ptrs>>
  <2>3. \A t \in Tasks : ~Starting(t) /\ ~Starting(t)' /\ (Ahead(t)' => Ahead(t))
    BY <1>0, <1>1, <1>2, <1>9 DEF Starting, Ahead
  <2>4. TaskInv'
    <3> SUFFICES ASSUME NEW t \in Tasks PROVE TaskOk(t)' /\ NumberOk(t)' /\ TimersOk(t)'
      BY DEF TaskInv
    <3>1. TaskOk(t) /\ NumberOk(t) /\ TimersOk(t)
      BY DEF TaskInv
    <3>2. TaskOk(t)' /\ TimersOk(t)'
      BY <1>1, <1>9, <2>3, <3>1 DEF TaskOk, TimersOk, Serving
    <3>3. NumberOk(t)'
      BY <1>1, <1>3, <1>5, <1>9, <3>1 DEF NumberOk
    <3> QED
      BY <3>2, <3>3
  <2>5. UnitInv'
    BY <1>1, <1>5, <1>9 DEF UnitInv, UnitOk, UnitMemOk
  <2>6. SignalInv'
    BY <1>1, <1>9 DEF SignalInv
  <2> QED
    BY <1>1, <1>6, <1>7, <2>4, <2>5, <2>6
<1> QED
  BY <1>8, <1>9, Zenon DEF StartTask

\* The task that was started is active, or has ended.
LEMMA WaitStep == ASSUME IInv, WaitTask PROVE IInv'
<1> USE DEF IInv, TypeInv
<1>1. /\ ipc = "wait" /\ single /\ ipc' = "check"
      /\ UNCHANGED <<dev, board, numBoards, channels, channel, configme>>
      /\ InitOnly /\ TypeInv'
  BY WaitTypes DEF WaitTask
<1>2. UNCHANGED <<listed, units, tpc, next, active, removables, highestUnit, number, mem,
                  ptrs, misuse, overtaken, io, openCount, libOpenCnt, delexp>>
  BY <1>1 DEF InitOnly, taskVars, clientVars
<1>3. SignalInv'
  BY <1>1, <1>2 DEF SignalInv, This
<1>4. \A t \in Tasks : (Starting(t)' <=> Starting(t)) /\ (Ahead(t)' => Ahead(t))
  BY <1>1 DEF Starting, Ahead, This
<1>5. TaskInv'
  BY <1>1, <1>2, <1>4 DEF TaskInv, TaskOk, NumberOk, TimersOk, Serving
<1>6. UnitInv' /\ UnitsAreFound' /\ MisuseInv' /\ ConfigInv' /\ ClientInv' /\ CountsAgree'
  BY <1>1, <1>2 DEF UnitInv, UnitOk, UnitMemOk, UnitNum, UnitsAreFound, MisuseInv,
     ConfigInv, ClientInv, CountsAgree
<1> QED
  BY <1>1, <1>2, <1>3, <1>5, <1>6

\* It is kept if it serves requests; if not, its structure is freed.
LEMMA CheckStep == ASSUME IInv, TasksSleep, CheckTask, overtaken' = {} PROVE IInv'
<1> USE DEF IInv, TypeInv
<1>0. /\ Len(Boards) \in Nat
      /\ board \in 1..Len(Boards) + 1 /\ numBoards \in 0..Len(Boards)
      /\ channels \in 0..2 /\ channel \in 0..2
      /\ \A t \in Tasks : /\ t[1] \in 1..Len(Boards) /\ t[2] \in {0, 1}
                          /\ t = <<t[1], t[2]>>
  BY Shapes DEF TypeOK
<1>1. /\ ipc = "check" /\ ipc' = "channel" /\ channel' = channel + 1
      /\ \/ /\ active[This] /\ listed' = listed \cup {This}
            /\ configme' = configme \ {board} /\ UNCHANGED <<mem, ptrs, misuse>>
            /\ overtaken' = overtaken \cup {t \in {This} : tpc[t] = "freeUnits"}
         \/ /\ ~active[This] /\ Free({<<"itask", This>>}, FALSE)
            /\ UNCHANGED <<listed, configme>>
      /\ UNCHANGED <<dev, board, numBoards, channels, single, units, tpc, next, active,
                     removables, highestUnit, number, io, openCount, libOpenCnt, delexp>>
      /\ TypeInv'
  BY Zenon, CheckTypes DEF CheckTask, taskVars, clientVars
<1>2. /\ board \in 1..Len(Boards) /\ numBoards \in 1..board /\ channel \in {0, 1}
      /\ channel < channels /\ This \in Tasks /\ This[1] = board /\ This[2] = channel
  <2>1. channel < channels
    BY <1>1 DEF InitInv
  <2> QED
    BY <1>1, <2>1, ThisTask
<1>3. /\ Starting(This) /\ This \notin listed /\ <<"itask", This>> \in mem
      /\ active[This] => Serving(This)
      /\ ~active[This] => tpc[This] = "dead"
  <2>1. Starting(This) /\ TaskOk(This)
    BY <1>1, <1>2 DEF Starting, TaskInv
  <2>2. active[This] => tpc[This] # "freeUnits"
    BY <1>1
  <2>3. active[This] => Serving(This)
    BY <1>2, <2>1, <2>2 DEF TaskOk, TasksSleep, Sleeps, Serving
  <2> QED
    BY <1>1, <2>1, <2>3 DEF TaskOk, SignalInv
<1>4. \A t \in Tasks : /\ Ahead(t)' => Ahead(t) /\ t # This
                       /\ Starting(t) <=> t = This
                       /\ ~Starting(t)'
  BY <1>0, <1>1, <1>2 DEF Ahead, Starting
<1>5. /\ misuse' = misuse /\ mem' \subseteq mem /\ ptrs' \subseteq ptrs
      /\ \A o : o # <<"itask", This>> => (o \in mem' <=> o \in mem) /\ (o \in ptrs' <=> o \in ptrs)
      /\ <<"itask", This>> \in mem' <=> active[This]
  <2>1. CASE active[This]
    BY <1>1, <1>3, <2>1
  <2>2. CASE ~active[This]
    <3>1. /\ mem' = mem \ {<<"itask", This>>} /\ ptrs' = ptrs \ {<<"itask", This>>}
          /\ misuse' = misuse \cup KindsOf({<<"itask", This>>} \ mem)
      BY <1>1, <2>2 DEF Free
    <3>2. {<<"itask", This>>} \ mem = {}
      BY <1>3
    <3> QED
      BY <2>2, <3>1, <3>2, KindsFacts
  <2> QED
    BY <2>1, <2>2
<1>6. \A t \in Tasks : t \in listed' <=> t \in listed \/ (t = This /\ active[This])
  BY <1>1
<1>7. SignalInv'
  BY <1>1 DEF SignalInv
<1>9. TaskInv'
  <2> SUFFICES ASSUME NEW t \in Tasks PROVE TaskOk(t)' /\ NumberOk(t)' /\ TimersOk(t)'
    BY DEF TaskInv
  <2>1. TaskOk(t) /\ NumberOk(t) /\ TimersOk(t)
    BY DEF TaskInv
  <2>2. /\ Ahead(t)' => Ahead(t) /\ t # This
        /\ Starting(t) <=> t = This
        /\ ~Starting(t)'
        /\ t \in listed' <=> t \in listed \/ (t = This /\ active[This])
    BY <1>4, <1>6
  <2>3. /\ t # This => (<<"itask", t>> \in mem' <=> <<"itask", t>> \in mem)
        /\ t = This => (<<"itask", t>> \in mem' <=> active[This])
    BY <1>5
  <2>4. TaskOk(t)'
    <3>1. UNCHANGED <<tpc, next, removables, units, active>>
      BY <1>1
    <3>2. CASE t = This
      BY <1>3, <2>1, <2>2, <2>3, <3>1, <3>2 DEF TaskOk, Serving
    <3>3. CASE t # This
      BY <2>1, <2>2, <2>3, <3>1, <3>3 DEF TaskOk, Serving
    <3> QED
      BY <3>2, <3>3
  <2>5. NumberOk(t)'
    BY <1>1, <2>1 DEF NumberOk
  <2>6. \A k \in Timers : /\ <<k, t>> \in mem' <=> <<k, t>> \in mem
                          /\ <<k, t>> \in ptrs' <=> <<k, t>> \in ptrs
    BY <1>5 DEF Timers
  <2>7. TimersOk(t)'
    BY <1>1, <2>1, <2>6 DEF TimersOk, Timers
  <2> QED
    BY <2>4, <2>5, <2>7
<1>10. UnitInv'
  <2>1. \A k \in UnitKinds, u \in Units : /\ <<k, u>> \in mem' <=> <<k, u>> \in mem
                                          /\ <<k, u>> \in ptrs' <=> <<k, u>> \in ptrs
    BY <1>5 DEF UnitKinds
  <2>2. units \subseteq Units
    BY DEF TypeOK
  <2>3. \A u \in units : UnitOk(u)'
    BY <1>1, <2>1, <2>2 DEF UnitInv, UnitOk, UnitNum, UnitKinds
  <2>4. \A u \in Units : UnitMemOk(u)'
    BY <1>1, <2>1 DEF UnitInv, UnitMemOk, UnitKinds
  <2> QED
    BY <1>1, <2>3, <2>4 DEF UnitInv
<1>11. UnitsAreFound' /\ MisuseInv' /\ ClientInv' /\ CountsAgree'
  BY <1>1, <1>5 DEF UnitsAreFound, UnitNum, MisuseInv, ClientInv, CountsAgree
<1>12. ConfigInv'
  <2> SUFFICES ASSUME NEW b \in 1..Len(Boards)
               PROVE  b \in configme' <=>
                        Boards[b] # "configured" /\ \A t \in listed' : t[1] # b
    BY DEF ConfigInv
  <2>1. b \in configme <=> Boards[b] # "configured" /\ \A t \in listed : t[1] # b
    BY DEF ConfigInv
  <2> QED
    BY <1>1, <1>2, <2>1
<1> QED
  BY <1>1, <1>7, <1>9, <1>10, <1>11, <1>12

-----------------------------------------------------------------------------
(* The task that is starting.                                                 *)

\* What a step of task t leaves alone: the other tasks and their units.
TaskFrame(t) ==
  /\ \A s \in Tasks : s # t =>
       /\ tpc'[s] = tpc[s] /\ next'[s] = next[s] /\ active'[s] = active[s]
       /\ s \in removables' <=> s \in removables
       /\ \A k \in Timers : /\ <<k, s>> \in mem' <=> <<k, s>> \in mem
                            /\ <<k, s>> \in ptrs' <=> <<k, s>> \in ptrs
  /\ \A s \in Tasks : <<"itask", s>> \in mem' <=> <<"itask", s>> \in mem
  /\ \A u \in Units : TaskOf(u) # t =>
       /\ u \in units' <=> u \in units
       /\ \A k \in UnitKinds : /\ <<k, u>> \in mem' <=> <<k, u>> \in mem
                               /\ <<k, u>> \in ptrs' <=> <<k, u>> \in ptrs

LEMMA TaskAt ==
  ASSUME IInv, NEW t \in Tasks, tpc[t] \notin {"none", "run", "poll", "dead"}
  PROVE  /\ Starting(t) /\ t = This /\ ipc \in {"wait", "check"} /\ dev = "init"
         /\ <<"itask", t>> \in mem /\ KindsOf({<<"itask", t>>} \ mem) = {}
         /\ t[1] = board /\ t[2] = channel
         /\ board <= Len(Boards) /\ numBoards \in 1..board
         /\ number[t] = numBoards - 1
<1> USE DEF IInv, TypeInv
<1>1. Starting(t) /\ t = This /\ ipc \in {"wait", "check"}
  BY DEF TaskInv, TaskOk, Starting
<1>2. <<"itask", t>> \in mem
  BY <1>1 DEF TaskInv, TaskOk
<1>3. dev = "init"
  BY <1>1 DEF InitInv, TypeOK
<1>4. {<<"itask", t>>} \ mem = {}
  BY <1>2
<1>5. t[1] = board /\ t[2] = channel
  BY <1>1 DEF This
<1>6. board <= Len(Boards) /\ numBoards \in 1..board
  BY <1>1 DEF InitInv
<1>7. number[t] = numBoards - 1
  BY <1>1, <1>5 DEF TaskInv, NumberOk
<1> QED
  BY <1>1, <1>2, <1>3, <1>4, <1>5, <1>6, <1>7, KindsFacts

LEMMA TaskMoves ==
  ASSUME IInv, NEW t \in Tasks, tpc[t] \notin {"none", "run", "poll", "dead"}, TaskOnly, TypeInv',
         TaskFrame(t), tpc'[t] # "none", TimersOk(t)',
         active'[t] => tpc'[t] \in {"dctimer", "run", "poll", "cleanup", "freeUnits", "report"},
         tpc'[t] \in {"dctimer", "run", "poll"} =>
           active'[t] /\ \E u \in units' : TaskOf(u) = t,
         active'[t] \/ tpc'[t] = "dead" \/ UNCHANGED <<single, active>>,
         \A u \in units : UnitNum(u) <= highestUnit',
         \A u \in units' : TaskOf(u) = t => UnitOk(u)',
         \A u \in Units : TaskOf(u) = t => UnitMemOk(u)',
         MisuseInv', UnitsAreFound'
  PROVE  IInv'
<1> USE DEF IInv, TypeInv
<1>1. UNCHANGED <<dev, ipc, board, numBoards, channels, channel, configme, listed, number,
                  overtaken, io, openCount, libOpenCnt, delexp>>
  BY DEF TaskOnly, initVars, clientVars
<1>2. Starting(t) /\ t = This /\ ipc \in {"wait", "check"} /\ dev = "init"
  BY TaskAt
<1>3. \A s \in Tasks : (Starting(s)' <=> Starting(s)) /\ (Ahead(s)' <=> Ahead(s))
                       /\ (Starting(s) => s = t)
  BY <1>1, <1>2 DEF Starting, Ahead, This
<1>4. units \subseteq Units /\ units' \subseteq Units
  BY DEF TypeOK
<1>5. TaskInv'
  <2> SUFFICES ASSUME NEW s \in Tasks PROVE TaskOk(s)' /\ NumberOk(s)' /\ TimersOk(s)'
    BY DEF TaskInv
  <2>1. TaskOk(s) /\ NumberOk(s) /\ TimersOk(s)
    BY DEF TaskInv
  <2>2. tpc[s] # "none" <=> tpc'[s] # "none"
    BY DEF TaskFrame
  <2>3. NumberOk(s)'
    BY <1>1, <2>1, <2>2 DEF NumberOk
  <2>4. CASE s = t
    BY <1>1, <1>2, <1>3, <2>1, <2>3, <2>4 DEF TaskOk, TaskFrame, Serving
  <2>5. CASE s # t
    <3>1. /\ tpc'[s] = tpc[s] /\ next'[s] = next[s] /\ active'[s] = active[s]
          /\ s \in removables' <=> s \in removables
          /\ <<"itask", s>> \in mem' <=> <<"itask", s>> \in mem
          /\ \A k \in Timers : /\ <<k, s>> \in mem' <=> <<k, s>> \in mem
                               /\ <<k, s>> \in ptrs' <=> <<k, s>> \in ptrs
      BY <2>5 DEF TaskFrame
    <3>2. \A u \in Units : TaskOf(u) = s => (u \in units' <=> u \in units)
      BY <2>5 DEF TaskFrame
    <3>3. TimersOk(s)'
      BY <2>1, <3>1 DEF TimersOk, Timers
    <3>4. TaskOk(s)'
      <4>1. (\E u \in units : TaskOf(u) = s) => \E u \in units' : TaskOf(u) = s
        BY <1>4, <3>2
      <4>2. /\ Starting(s)' <=> Starting(s)
            /\ Ahead(s)' <=> Ahead(s)
            /\ ~Starting(s)
        BY <1>3, <2>5
      <4> QED
        BY <1>1, <2>1, <3>1, <4>1, <4>2 DEF TaskOk, Serving
    <3> QED
      BY <2>3, <3>3, <3>4
  <2> QED
    BY <2>4, <2>5
<1>6. UnitInv'
  <2>1. ASSUME NEW u \in units' PROVE UnitOk(u)'
    <3>1. CASE TaskOf(u) # t
      <4>1. u \in units /\ TaskOf(u) \in Tasks /\ u \in Units
        BY <1>4, <2>1, <3>1, Shapes DEF TaskFrame
      <4>2. UnitOk(u)
        BY <4>1 DEF UnitInv
      <4>3. /\ tpc'[TaskOf(u)] = tpc[TaskOf(u)] /\ next'[TaskOf(u)] = next[TaskOf(u)]
            /\ <<"unit", u>> \in mem' <=> <<"unit", u>> \in mem
        BY <3>1, <4>1 DEF TaskFrame, UnitKinds
      <4>4. UnitNum(u)' = UnitNum(u) /\ UnitNum(u) <= highestUnit'
        BY <1>1, <4>1 DEF UnitNum
      <4> QED
        BY <4>2, <4>3, <4>4 DEF UnitOk
    <3> QED
      BY <2>1, <3>1
  <2>2. ASSUME NEW u \in Units PROVE UnitMemOk(u)'
    <3>1. CASE TaskOf(u) # t
      BY <3>1 DEF UnitInv, UnitMemOk, TaskFrame, UnitKinds
    <3> QED
      BY <3>1
  <2> QED
    BY <2>1, <2>2 DEF UnitInv
<1>7. ConfigInv' /\ CountsAgree'
  BY <1>1 DEF ConfigInv, CountsAgree
<1>8. ClientInv'
  BY <1>1, <1>2 DEF ClientInv
<1>9. SignalInv'
  BY <1>1, <1>2 DEF SignalInv, This
<1> QED
  BY <1>1, <1>5, <1>6, <1>7, <1>8, <1>9

\* The request port and the two timers.
LEMMA PortStep == ASSUME IInv, NEW t \in Tasks, CreatePort(t) PROVE IInv'
<1> USE DEF IInv, TypeInv
<1>1. PICK pc \in {"timer", "cleanup"} :
        /\ tpc[t] = "port" /\ tpc' = [tpc EXCEPT ![t] = pc]
        /\ \/ mem' = mem \cup {<<"port", t>>} /\ ptrs' = ptrs \cup {<<"port", t>>}
           \/ UNCHANGED <<mem, ptrs>>
  BY DEF CreatePort, Goes, Allocate
<1>2. /\ TaskOnly /\ UsesTask(t)
      /\ UNCHANGED <<single, units, next, active, removables, highestUnit>>
  BY DEF CreatePort
<1>3. misuse' = misuse
  BY <1>1, <1>2, TaskAt DEF UsesTask
<1>4. tpc \in [Tasks -> TaskPcs] /\ units \subseteq Units
  BY DEF TypeOK
<1>5. TypeInv'
  BY TaskTypes DEF Task
<1>6. TaskFrame(t)
  BY <1>1, <1>2, <1>4 DEF TaskFrame, Timers, UnitKinds
<1>7. TimersOk(t)'
  <2>1. TimersOk(t)
    BY DEF TaskInv
  <2> QED
    BY <1>1, <1>4, <2>1 DEF TimersOk, Timers
<1>8. \A u \in units : TaskOf(u) # t /\ UnitNum(u) <= highestUnit
  BY <1>1 DEF UnitInv, UnitOk
<1>9. \A u \in Units : UnitMemOk(u)'
  <2>1. \A k \in UnitKinds, u \in Units : <<k, u>> # <<"port", t>>
    BY DEF UnitKinds
  <2>2. \A k \in UnitKinds, u \in Units : /\ <<k, u>> \in mem' <=> <<k, u>> \in mem
                                          /\ <<k, u>> \in ptrs' <=> <<k, u>> \in ptrs
    BY <1>1, <2>1
  <2> QED
    BY <1>2, <2>2 DEF UnitInv, UnitMemOk, UnitKinds
<1>10. ~active[t]
  BY <1>1 DEF TaskInv, TaskOk
<1>11. UnitsAreFound' /\ MisuseInv'
  BY <1>2, <1>3 DEF UnitsAreFound, MisuseInv, UnitNum, TaskOnly
<1> QED
  BY <1>1, <1>2, <1>4, <1>5, <1>6, <1>7, <1>8, <1>9, <1>10, <1>11, TaskMoves

LEMMA TimerStep ==
  ASSUME IInv, NEW t \in Tasks, CreateTaskTimer(t) \/ CreatePollTimer(t)
  PROVE  IInv'
<1> USE DEF IInv, TypeInv
<1>1. PICK mp \in Timers, tr \in Timers, open \in {"topen", "dcopen"},
          here \in {"timer", "dctimer"}, there \in {"units", "run"} :
        /\ CreateTimer(t, mp, tr, open, here, there)
        /\ mp # "port" /\ tr # "port"
        /\ \/ here = "timer" /\ there = "units"
           \/ here = "dctimer" /\ there = "run"
  <2>1. CASE CreateTaskTimer(t)
    BY <2>1 DEF CreateTaskTimer, Timers
  <2>2. CASE CreatePollTimer(t)
    BY <2>2 DEF CreatePollTimer, Timers
  <2> QED
    BY <2>1, <2>2
<1>2. PICK pc \in {there, "cleanup"} :
        /\ tpc[t] = here /\ tpc' = [tpc EXCEPT ![t] = pc]
        /\ \/ /\ mem' = mem \cup {<<mp, t>>, <<tr, t>>}
              /\ ptrs' = ptrs \cup {<<mp, t>>, <<tr, t>>}
           \/ UNCHANGED <<mem, ptrs>>
           \/ UNCHANGED mem /\ ptrs' = ptrs \cup {<<mp, t>>}
           \/ UNCHANGED mem /\ ptrs' = ptrs \cup {<<mp, t>>, <<tr, t>>}
  BY <1>1, Zenon DEF CreateTimer, Goes, Allocate
<1>3. /\ TaskOnly /\ UsesTask(t)
      /\ UNCHANGED <<single, units, next, active, removables, highestUnit>>
  BY <1>1 DEF CreateTimer
<1>4. misuse' = misuse
  BY <1>1, <1>2, <1>3, TaskAt DEF UsesTask
<1>5. tpc \in [Tasks -> TaskPcs] /\ units \subseteq Units
  BY DEF TypeOK
<1>6. /\ \A k \in Timers \ {mp, tr} : /\ <<k, t>> \in mem' <=> <<k, t>> \in mem
                                      /\ <<k, t>> \in ptrs' <=> <<k, t>> \in ptrs
      /\ \A k \in {mp, tr} : <<k, t>> \in mem' => <<k, t>> \in mem \/ <<k, t>> \in ptrs'
      /\ ptrs \subseteq ptrs'
      /\ \A o : (o # <<mp, t>> /\ o # <<tr, t>>) =>
                  (o \in mem' <=> o \in mem) /\ (o \in ptrs' <=> o \in ptrs)
  BY <1>2
<1>7. TypeInv'
  BY TaskTypes DEF Task
<1>8. TaskFrame(t)
  <2>1. \A s \in Tasks : s # t => tpc'[s] = tpc[s]
    BY <1>2, <1>5
  <2>2. \A k \in Timers, s \in Tasks : s # t => <<k, s>> # <<mp, t>> /\ <<k, s>> # <<tr, t>>
    OBVIOUS
  <2>3. \A s \in Tasks : <<"itask", s>> # <<mp, t>> /\ <<"itask", s>> # <<tr, t>>
    BY DEF Timers
  <2>4. \A k \in UnitKinds, u \in Units : <<k, u>> # <<mp, t>> /\ <<k, u>> # <<tr, t>>
    BY DEF Timers, UnitKinds
  <2> QED
    BY <1>3, <1>6, <2>1, <2>2, <2>3, <2>4 DEF TaskFrame
<1>9. tpc'[t] = pc /\ pc \notin {"none", "freeUnits", "report", "dead", "dctimer", "poll"}
  BY <1>1, <1>2, <1>5
<1>10. TimersOk(t)'
  <2>1. TimersOk(t)
    BY DEF TaskInv
  <2>2. \A k \in Timers : <<k, t>> \in mem' => <<k, t>> \in ptrs'
    BY <1>6, <2>1 DEF TimersOk
  <2>3. "port" \in Timers \ {mp, tr}
    BY <1>1 DEF Timers
  <2>4. <<"port", t>> \in ptrs' => <<"port", t>> \in mem'
    BY <1>1, <1>2, <1>6, <2>1, <2>3 DEF TimersOk
  <2> QED
    BY <1>9, <2>2, <2>4 DEF TimersOk
<1>11. \A u \in units : /\ UnitNum(u) <= highestUnit
                        /\ TaskOf(u) = t => here = "dctimer"
                        /\ UnitOk(u)
  BY <1>1, <1>2 DEF UnitInv, UnitOk
<1>12. \A u \in units : TaskOf(u) = t => UnitOk(u)'
  <2> SUFFICES ASSUME NEW u \in units, TaskOf(u) = t PROVE UnitOk(u)'
    OBVIOUS
  <2>1. UnitOk(u) /\ here = "dctimer"
    BY <1>11
  <2>2. tpc'[t] \in {"run", "cleanup"}
    BY <1>1, <1>9, <2>1
  <2>3. <<"unit", u>> # <<mp, t>> /\ <<"unit", u>> # <<tr, t>>
    BY DEF Timers
  <2>4. <<"unit", u>> \in mem'
    BY <1>6, <2>1, <2>3 DEF UnitOk
  <2> QED
    BY <1>3, <2>1, <2>2, <2>4 DEF UnitOk, UnitNum, TaskOnly
<1>13. \A u \in Units : UnitMemOk(u)'
  <2>1. \A k \in UnitKinds, u \in Units : <<k, u>> # <<mp, t>> /\ <<k, u>> # <<tr, t>>
    BY DEF Timers, UnitKinds
  <2> QED
    BY <1>3, <1>6, <2>1 DEF UnitInv, UnitMemOk, UnitKinds
<1>14. /\ active[t] => here = "dctimer"
       /\ here = "dctimer" => active[t] /\ \E u \in units : TaskOf(u) = t
  BY <1>1, <1>2 DEF TaskInv, TaskOk
<1>15. UnitsAreFound' /\ MisuseInv'
  BY <1>3, <1>4 DEF UnitsAreFound, MisuseInv, UnitNum, TaskOnly
<1>16. /\ active'[t] => tpc'[t] \in {"run", "cleanup"}
       /\ tpc'[t] \in {"dctimer", "run", "poll"} => active'[t] /\ \E u \in units' : TaskOf(u) = t
  BY <1>1, <1>3, <1>9, <1>14
<1>17. tpc[t] \notin {"none", "run", "poll", "dead"}
  BY <1>1, <1>2
<1> QED
  BY <1>3, <1>7, <1>8, <1>9, <1>10, <1>11, <1>12, <1>13, <1>15, <1>16, <1>17, TaskMoves

\* init_units(): the drives of the channel, one after the other.
LEMMA UnitFoundStep == ASSUME IInv, NEW t \in Tasks, UnitFound(t) PROVE IInv'
<1> USE DEF IInv, TypeInv
<1> DEFINE u == <<t[1], t[2], next[t]>>
<1>1. /\ tpc[t] = "units" /\ next[t] < 2
      /\ \/ Allocate({<<"unit", u>>}) /\ UNCHANGED removables
         \/ Allocate({<<"unit", u>>} \cup Commands(u)) /\ removables' = removables \cup {t}
      /\ units' = units \cup {u} /\ highestUnit' = UnitNum(u)
      /\ next' = [next EXCEPT ![t] = @ + 1]
      /\ UsesTask(t) /\ UNCHANGED <<single, tpc, active>> /\ TaskOnly
  BY DEF UnitFound
<1>2. /\ next[t] \in {0, 1} /\ next \in [Tasks -> 0..2] /\ units \subseteq Units
      /\ \A s \in Tasks : number[s] \in 0..Len(Boards)
      /\ removables \subseteq Tasks /\ mem \subseteq Objects /\ ptrs \subseteq Objects
  BY <1>1 DEF TypeOK
<1>3. u \in Units /\ TaskOf(u) = t /\ u[3] = next[t] /\ u[2] = t[2]
  BY <1>2, Shapes
<1> HIDE DEF u
<1>4. /\ t[1] = board /\ t[2] = channel /\ t = This
      /\ Starting(t) /\ ipc \in {"wait", "check"} /\ board <= Len(Boards) /\ numBoards \in 1..board
      /\ number[t] = numBoards - 1 /\ KindsOf({<<"itask", t>>} \ mem) = {}
  BY <1>1, TaskAt
<1>5. misuse' = misuse
  BY <1>1, <1>4 DEF UsesTask
<1>6. UnitNum(u) = number[t] * 4 + t[2] * 2 + next[t]
  BY <1>3 DEF UnitNum
<1>7. ASSUME NEW v \in units PROVE UnitNum(v) < UnitNum(u)
  <2>1. /\ UnitOk(v) /\ v \in Units /\ TaskOf(v) \in Tasks /\ v[3] \in {0, 1}
        /\ TaskOf(v)[1] = v[1] /\ TaskOf(v)[2] = v[2] /\ v[2] \in {0, 1}
        /\ UnitNum(v) = number[TaskOf(v)] * 4 + v[2] * 2 + v[3]
    BY <1>2, <1>7, Shapes DEF UnitInv, UnitNum
  <2> DEFINE s == TaskOf(v)
  <2>2. tpc[s] # "none" /\ ~Ahead(s) /\ NumberOk(s) /\ v[3] < next[s]
        /\ number[s] \in 0..Len(Boards)
    BY <1>2, <2>1 DEF UnitOk, TaskInv, TaskOk
  <2>3. /\ number[s] < numBoards
        /\ s[1] = board <=> number[s] = numBoards - 1
        /\ s[1] = board => s[2] <= channel
    <3>1. board \in Int /\ channel \in Int /\ s[1] \in Int /\ s[2] \in Int
      BY <2>1, Shapes DEF TypeOK
    <3> QED
      BY <1>4, <2>2, <3>1 DEF NumberOk, Ahead
  <2>4. s[1] = board /\ s[2] = channel => s = t
    BY <1>3, <1>4, <2>1, Shapes
  <2>5. numBoards \in Int /\ channel \in {0, 1} /\ number[s] \in Int
    <3>1. t[2] \in {0, 1}
      BY Shapes
    <3> QED
      BY <1>4, <2>2, <3>1 DEF TypeOK
  <2>6. UnitNum(u) = (numBoards - 1) * 4 + channel * 2 + next[t]
    BY <1>4, <1>6
  <2> HIDE DEF s
  <2>7. UnitNum(v) = number[s] * 4 + v[2] * 2 + v[3] /\ v[2] = s[2]
    BY <2>1 DEF s
  <2>8. CASE s = t
    <3>1. v[2] = channel /\ v[3] < next[t] /\ number[s] = numBoards - 1
      BY <1>4, <2>2, <2>7, <2>8
    <3>2. v[3] \in {0, 1}
      BY <2>1
    <3>3. UnitNum(v) = (numBoards - 1) * 4 + channel * 2 + v[3]
      BY <2>7, <3>1
    <3> QED
      BY <1>2, <2>5, <2>6, <3>1, <3>2, <3>3
  <2>9. CASE s # t /\ s[1] = board
    <3>1. v[2] = 0 /\ channel = 1 /\ number[s] = numBoards - 1 /\ v[3] \in {0, 1}
      BY <2>1, <2>3, <2>4, <2>5, <2>7, <2>9
    <3>2. UnitNum(v) = (numBoards - 1) * 4 + 0 * 2 + v[3]
      BY <2>7, <3>1
    <3> QED
      BY <1>2, <2>5, <2>6, <3>1, <3>2
  <2>10. CASE s[1] # board
    <3>1. number[s] < numBoards - 1 /\ v[2] \in {0, 1} /\ v[3] \in {0, 1}
      BY <2>1, <2>3, <2>5, <2>10
    <3>2. /\ number[s] * 4 <= (numBoards - 1) * 4 - 4
          /\ v[2] * 2 + v[3] <= 3
      BY <2>5, <3>1
    <3> QED
      BY <1>2, <2>5, <2>6, <2>7, <3>1, <3>2
  <2> QED
    BY <2>8, <2>9, <2>10
<1>8. \A v \in Units : UnitNum(v)' = UnitNum(v)
  BY <1>1 DEF UnitNum, TaskOnly
<1>N. \A v \in Units : UnitNum(v) \in Int
  <2>1. \A v \in Units : /\ number[TaskOf(v)] \in Int /\ v[2] \in Int /\ v[3] \in Int
    BY <1>2, Shapes
  <2> QED
    BY <2>1 DEF UnitNum
<1>9. UnitsAreFound'
  <2> SUFFICES ASSUME NEW v \in units', NEW w \in units'
               PROVE  (UnitNum(v) = UnitNum(w) => v = w) /\ UnitNum(v) <= UnitNum(u)
    BY <1>1, <1>2, <1>3, <1>8 DEF UnitsAreFound
  <2>2. v \in units \cup {u} /\ w \in units \cup {u}
    BY <1>1
  <2> QED
    BY <1>2, <1>3, <1>7, <1>N, <2>2 DEF UnitsAreFound
<1>10. /\ <<"unit", u>> \in mem'
       /\ \A k \in UnitKinds : <<k, u>> \in mem' <=> <<k, u>> \in ptrs'
       /\ <<"scsiCmd", u>> \in mem' => <<"senseCmd", u>> \in mem'
       /\ mem' \subseteq Objects /\ ptrs' \subseteq Objects
       /\ \A o : (\A k \in UnitKinds : o # <<k, u>>) =>
                   (o \in mem' <=> o \in mem) /\ (o \in ptrs' <=> o \in ptrs)
  <2>1. PICK new \in SUBSET (UnitKinds \X {u}) :
          /\ <<"unit", u>> \in new /\ mem' = mem \cup new /\ ptrs' = ptrs \cup new
          /\ <<"scsiCmd", u>> \in new => <<"senseCmd", u>> \in new
    <3>1. CASE Allocate({<<"unit", u>>})
      <4>1. {<<"unit", u>>} \in SUBSET (UnitKinds \X {u})
        BY DEF UnitKinds
      <4> QED
        BY <3>1, <4>1 DEF Allocate
    <3>2. CASE Allocate({<<"unit", u>>} \cup Commands(u))
      <4>1. {<<"unit", u>>} \cup Commands(u) \in SUBSET (UnitKinds \X {u})
        BY DEF UnitKinds, Commands
      <4>2. <<"senseCmd", u>> \in {<<"unit", u>>} \cup Commands(u)
        BY DEF Commands
      <4> QED
        BY <3>2, <4>1, <4>2 DEF Allocate
    <3> QED
      BY <1>1, <3>1, <3>2
  <2>2. new \subseteq Objects
    BY <1>3 DEF Objects, UnitObjects, UnitKinds
  <2>3. /\ \A k \in UnitKinds : <<k, u>> \in mem <=> <<k, u>> \in ptrs
        /\ <<"scsiCmd", u>> \in mem => <<"senseCmd", u>> \in mem
    BY <1>3 DEF UnitInv, UnitMemOk
  <2>4. \A o \in new : \E k \in UnitKinds : o = <<k, u>>
    OBVIOUS
  <2> QED
    BY <1>2, <2>1, <2>2, <2>3, <2>4
<1>11. TypeInv'
  BY TaskTypes DEF Task
<1>12. TaskFrame(t)
  <2>1. \A k \in Timers \cup {"itask"}, s \in Tasks, j \in UnitKinds : <<k, s>> # <<j, u>>
    BY DEF Timers, UnitKinds
  <2>2. \A k \in UnitKinds, v \in Units, j \in UnitKinds :
          TaskOf(v) # t => <<k, v>> # <<j, u>>
    BY <1>3
  <2>3. \A s \in Tasks : s # t => /\ tpc'[s] = tpc[s] /\ next'[s] = next[s]
                                  /\ active'[s] = active[s]
                                  /\ s \in removables' <=> s \in removables
    BY <1>1, <1>2
  <2>4. \A k \in Timers \cup {"itask"}, s \in Tasks :
          (<<k, s>> \in mem' <=> <<k, s>> \in mem) /\ (<<k, s>> \in ptrs' <=> <<k, s>> \in ptrs)
    BY <1>10, <2>1
  <2>5. \A v \in Units : TaskOf(v) # t =>
          /\ v \in units' <=> v \in units
          /\ \A k \in UnitKinds : /\ <<k, v>> \in mem' <=> <<k, v>> \in mem
                                  /\ <<k, v>> \in ptrs' <=> <<k, v>> \in ptrs
    BY <1>1, <1>3, <1>10, <2>2
  <2> QED
    BY <2>3, <2>4, <2>5 DEF TaskFrame
<1>13. TimersOk(t)'
  <2>1. \A k \in Timers, j \in UnitKinds : <<k, t>> # <<j, u>>
    BY DEF Timers, UnitKinds
  <2>2. \A k \in Timers : /\ <<k, t>> \in mem' <=> <<k, t>> \in mem
                          /\ <<k, t>> \in ptrs' <=> <<k, t>> \in ptrs
    BY <1>10, <2>1
  <2> QED
    BY <1>1, <2>2 DEF TaskInv, TimersOk, Timers
<1>14. \A v \in units : UnitNum(v) <= highestUnit'
  BY <1>1, <1>2, <1>3, <1>7, <1>N
<1>15. ASSUME NEW v \in units', TaskOf(v) = t PROVE UnitOk(v)'
  <2>1. /\ tpc'[t] = "units" /\ next'[t] = next[t] + 1 /\ UnitNum(v)' = UnitNum(v)
        /\ v \in Units
    BY <1>1, <1>2, <1>3, <1>8
  <2>2. CASE v = u
    <3>1. UnitNum(u) \in Int
      BY <1>3, <1>N
    <3> QED
      BY <1>1, <1>2, <1>3, <1>10, <2>1, <2>2, <3>1 DEF UnitOk
  <2>3. CASE v # u
    <3>1. v \in units /\ UnitOk(v) /\ v[3] \in Int
      BY <1>1, <1>15, <2>1, <2>3, Shapes DEF UnitInv
    <3>2. <<"unit", v>> \in mem'
      BY <1>10, <2>3, <3>1 DEF UnitOk
    <3> QED
      BY <1>2, <1>14, <1>15, <2>1, <3>1, <3>2 DEF UnitOk
  <2> QED
    BY <2>2, <2>3
<1>16. ASSUME NEW v \in Units PROVE UnitMemOk(v)'
  <2>1. CASE v = u
    BY <1>1, <1>10, <2>1 DEF UnitMemOk
  <2>2. CASE v # u
    <3>1. \A k \in UnitKinds : /\ <<k, v>> \in mem' <=> <<k, v>> \in mem
                               /\ <<k, v>> \in ptrs' <=> <<k, v>> \in ptrs
      BY <1>10, <2>2
    <3> QED
      BY <1>1, <3>1 DEF UnitInv, UnitMemOk, UnitKinds
  <2> QED
    BY <2>1, <2>2
<1>17. ~active[t] /\ MisuseInv'
  BY <1>1, <1>5 DEF TaskInv, TaskOk, MisuseInv
<1> QED
  BY <1>1, <1>9, <1>11, <1>12, <1>13, <1>14, <1>15, <1>16, <1>17, TaskMoves

\* A drive that is not there, and what init_units() ends with.
LEMMA UnitsEndStep ==
  ASSUME IInv, NEW t \in Tasks, UnitNotFound(t) \/ SenseCommandFails(t) \/ NoUnits(t) \/ Ready(t)
  PROVE  IInv'
<1> USE DEF IInv, TypeInv
<1>1. /\ tpc[t] = "units" /\ TaskOnly
      /\ UNCHANGED <<removables, units, mem, ptrs, highestUnit>>
  BY Zenon DEF UnitNotFound, SenseCommandFails, NoUnits, Ready, Goes
<1>2. PICK pc \in {"units", "cleanup", "dctimer", "run"} :
        /\ tpc' = [tpc EXCEPT ![t] = pc]
        /\ pc \in {"dctimer", "run"} => active'[t] /\ \E u \in units : TaskOf(u) = t
        /\ active'[t] => pc \in {"dctimer", "run"}
        /\ \A s \in Tasks : s # t => active'[s] = active[s]
        /\ active'[t] \/ UNCHANGED <<single, active>>
  <2>0. active \in [Tasks -> BOOLEAN] /\ tpc \in [Tasks -> TaskPcs] /\ ~active[t]
    BY <1>1 DEF TypeOK, TaskInv, TaskOk
  <2>1. CASE UnitNotFound(t) \/ SenseCommandFails(t)
    <3>1. UNCHANGED <<tpc, active, single>>
      BY <2>1 DEF UnitNotFound, SenseCommandFails
    <3>2. tpc' = [tpc EXCEPT ![t] = "units"]
      BY <1>1, <2>0, <3>1
    <3> QED
      BY <2>0, <3>1, <3>2
  <2>2. CASE NoUnits(t)
    BY <2>0, <2>2 DEF NoUnits, Goes
  <2>3. CASE Ready(t)
    <3>1. /\ active' = [active EXCEPT ![t] = TRUE]
          /\ tpc' = [tpc EXCEPT ![t] = IF t \in removables THEN "dctimer" ELSE "run"]
          /\ \E u \in units : TaskOf(u) = t
      BY <2>3 DEF Ready, Goes, Found, Listed
    <3>2. active'[t] /\ (\A s \in Tasks : s # t => active'[s] = active[s])
      BY <2>0, <3>1
    <3> DEFINE pc == IF t \in removables THEN "dctimer" ELSE "run"
    <3>3. pc \in {"dctimer", "run"} /\ tpc' = [tpc EXCEPT ![t] = pc]
      BY <3>1
    <3> HIDE DEF pc
    <3> QED
      BY <3>1, <3>2, <3>3
  <2> QED
    BY <2>1, <2>2, <2>3
<1>3. /\ next' \in [Tasks -> 0..2] /\ next'[t] >= next[t]
      /\ \A s \in Tasks : s # t => next'[s] = next[s]
  <2>0. next \in [Tasks -> 0..2]
    BY DEF TypeOK
  <2>1. CASE UnitNotFound(t) \/ SenseCommandFails(t)
    <3>1. next' = [next EXCEPT ![t] = @ + 1] /\ next[t] < 2
      BY <2>1 DEF UnitNotFound, SenseCommandFails
    <3> QED
      BY <2>0, <3>1
  <2>2. CASE NoUnits(t) \/ Ready(t)
    BY <2>0, <2>2 DEF NoUnits, Ready
  <2> QED
    BY <2>1, <2>2
<1>5. misuse' \subseteq misuse \cup {"scsiCmd"}
  <2>1. misuse' = misuse \/ misuse' = misuse \cup {"scsiCmd"}
    BY <1>1, TaskAt DEF UnitNotFound, SenseCommandFails, NoUnits, Ready, UsesTask
  <2> QED
    BY <2>1
<1>6. tpc \in [Tasks -> TaskPcs] /\ units \subseteq Units
  BY DEF TypeOK
<1>7. TypeInv'
  BY TaskTypes DEF Task
<1>8. TaskFrame(t) /\ tpc'[t] = pc
  BY <1>1, <1>2, <1>3, <1>6 DEF TaskFrame
<1>9. TimersOk(t)'
  BY <1>1, <1>8 DEF TaskInv, TimersOk
<1>10. ASSUME NEW u \in units
       PROVE  UnitNum(u) <= highestUnit' /\ (TaskOf(u) = t => UnitOk(u)')
  <2>1. UnitOk(u) /\ u[3] \in Int /\ next[t] \in Int /\ next'[t] \in Int
    BY <1>3, <1>6, <1>10, Shapes DEF UnitInv, TypeOK
  <2>2. TaskOf(u) = t => pc # "none" /\ u[3] < next'[t]
    BY <1>3, <2>1 DEF UnitOk
  <2>3. UnitNum(u)' = UnitNum(u)
    BY <1>1 DEF UnitNum, TaskOnly
  <2> QED
    BY <1>1, <1>8, <2>1, <2>2, <2>3 DEF UnitOk
<1>11. \A u \in Units : UnitMemOk(u)'
  BY <1>1 DEF UnitInv, UnitMemOk
<1>12. UnitsAreFound' /\ MisuseInv'
  BY <1>1, <1>5 DEF UnitsAreFound, MisuseInv, UnitNum, TaskOnly
<1> QED
  BY <1>1, <1>2, <1>7, <1>8, <1>9, <1>10, <1>11, <1>12, TaskMoves

\* cleanup().
LEMMA CleanupTimersStep == ASSUME IInv, NEW t \in Tasks, CleanupTimers(t) PROVE IInv'
<1> USE DEF IInv, TypeInv
<1> DEFINE mine == ptrs \cap (Timers \X {t})
<1>1. /\ tpc[t] = "cleanup" /\ tpc' = [tpc EXCEPT ![t] = "freeUnits"]
      /\ mem' = mem \ mine /\ UNCHANGED ptrs
      /\ misuse' = misuse \cup KindsOf(mine \ mem)
      /\ UNCHANGED <<single, next, active, removables, units, highestUnit>>
      /\ TaskOnly
  BY DEF CleanupTimers, Free, Goes, Timers
<1>2. tpc \in [Tasks -> TaskPcs] /\ units \subseteq Units
  BY DEF TypeOK
<1>3. KindsOf(mine \ mem) \subseteq Timers \ {"port"}
  <2>1. <<"port", t>> \in mine => <<"port", t>> \in mem
    BY <1>1 DEF TaskInv, TimersOk
  <2>2. \A o \in mine \ mem : o[1] \in Timers \ {"port"}
    BY <2>1
  <2> QED
    BY <2>2 DEF KindsOf
<1>4. MisuseInv'
  BY <1>1, <1>3, KindsFacts DEF MisuseInv, Timers
<1>5. \A o : o \in mem' <=> o \in mem /\ o \notin mine
  BY <1>1
<1>6. TypeInv'
  BY TaskTypes DEF Task
<1>7. \A k \in UnitKinds \cup {"itask"} : \A x : <<k, x>> \notin mine
  BY DEF UnitKinds, Timers
<1>8. TaskFrame(t)
  <2>1. \A k \in Timers, s \in Tasks : s # t => <<k, s>> \notin mine
    OBVIOUS
  <2>2. \A s \in Tasks : s # t => tpc'[s] = tpc[s]
    BY <1>1, <1>2
  <2> HIDE DEF mine
  <2> QED
    BY <1>1, <1>5, <1>7, <2>1, <2>2 DEF TaskFrame
<1>9. tpc'[t] = "freeUnits"
  BY <1>1, <1>2
<1>10. TimersOk(t)'
  <2>1. \A k \in Timers : <<k, t>> \notin mem'
    <3>1. \A k \in Timers : <<k, t>> \in mem => <<k, t>> \in mine
      BY DEF TaskInv, TimersOk
    <3> QED
      BY <1>5, <3>1
  <2> QED
    BY <1>9, <2>1 DEF TimersOk
<1>11. ASSUME NEW u \in units
       PROVE  UnitNum(u) <= highestUnit' /\ (TaskOf(u) = t => UnitOk(u)')
  <2>1. UnitOk(u) /\ <<"unit", u>> \in mem'
    BY <1>5, <1>7 DEF UnitInv, UnitOk, UnitKinds
  <2> QED
    BY <1>1, <1>9, <2>1 DEF UnitOk, UnitNum, TaskOnly
<1>12. \A u \in Units : UnitMemOk(u)'
  BY <1>1, <1>5, <1>7 DEF UnitInv, UnitMemOk, UnitKinds
<1>13. UnitsAreFound'
  BY <1>1 DEF UnitsAreFound, UnitNum, TaskOnly
<1> QED
  BY <1>1, <1>4, <1>6, <1>8, <1>9, <1>10, <1>11, <1>12, <1>13, TaskMoves

\* The unit cleanup() comes to next is in the list.
LEMMA FirstFoundIs ==
  ASSUME TypeInv, NEW t \in Tasks, Found(t) # {}
  PROVE  FirstFound(t) \in Found(t)
<1>1. \A u \in Found(t) : u[3] \in {0, 1}
  BY Shapes DEF Found
<1>2. \E u \in Found(t) : \A v \in Found(t) : u[3] <= v[3]
  <2>1. CASE \E u \in Found(t) : u[3] = 0
    BY <1>1, <2>1
  <2>2. CASE \A u \in Found(t) : u[3] = 1
    BY <2>2
  <2> QED
    BY <1>1, <2>1, <2>2
<1> QED
  BY <1>2 DEF FirstFound

LEMMA FreeUnitStep == ASSUME IInv, NEW t \in Tasks, FreeUnit(t) PROVE IInv'
<1> USE DEF IInv, TypeInv
<1> DEFINE w == FirstFound(t)
<1> DEFINE mine == {o \in ptrs \cap UnitObjects : o[2] = w}
<1>1. /\ tpc[t] = "freeUnits" /\ units' = units \ {w}
      /\ mem' = mem \ mine /\ ptrs' = ptrs \ mine
      /\ misuse' = misuse \cup KindsOf(mine \ mem) \cup KindsOf({<<"itask", t>>} \ mem)
                          \cup {"unit"}
      /\ UNCHANGED <<single, tpc, next, active, removables, highestUnit>>
      /\ TaskOnly
  BY DEF FreeUnit
<1>2. units \subseteq Units /\ w \in units /\ w \in Units /\ TaskOf(w) = t
  BY FirstFoundIs DEF FreeUnit, Found, Listed, TypeOK
<1> HIDE DEF w
<1>3. MisuseInv'
  <2>1. mine \ mem = {}
    <3>1. \A o \in mine : \E k \in UnitKinds, u \in Units : o = <<k, u>>
      BY DEF UnitObjects, UnitKinds
    <3> QED
      BY <3>1 DEF UnitInv, UnitMemOk
  <2>2. KindsOf({<<"itask", t>>} \ mem) = {}
    BY <1>1, TaskAt
  <2> QED
    BY <1>1, <2>1, <2>2, KindsFacts DEF MisuseInv
<1>4. /\ \A o : o \in mem' <=> o \in mem /\ o \notin mine
      /\ \A o : o \in ptrs' <=> o \in ptrs /\ o \notin mine
      /\ \A k \in UnitKinds, u \in Units : <<k, u>> \in mine <=> <<k, u>> \in ptrs /\ u = w
      /\ \A k \in Timers \cup {"itask"} : \A x : <<k, x>> \notin mine
  <2>1. \A k \in UnitKinds, u \in Units : <<k, u>> \in UnitObjects
    BY DEF UnitObjects, UnitKinds
  <2>2. \A k \in Timers \cup {"itask"} : \A x : <<k, x>> \notin UnitObjects
    BY DEF UnitObjects, Timers
  <2> QED
    BY <1>1, <2>1, <2>2
<1> HIDE DEF mine
<1>5. TypeInv'
  BY TaskTypes DEF Task
<1>6. TaskFrame(t)
  BY <1>1, <1>2, <1>4 DEF TaskFrame
<1>7. TimersOk(t)'
  BY <1>1, <1>4 DEF TaskInv, TimersOk, Timers
<1>8. ASSUME NEW u \in units', TaskOf(u) = t PROVE UnitOk(u)'
  <2>1. u \in units /\ u # w /\ u \in Units /\ UnitOk(u)
    BY <1>1, <1>2 DEF UnitInv
  <2>2. <<"unit", u>> \in mem'
    BY <1>4, <2>1 DEF UnitOk, UnitKinds
  <2> QED
    BY <1>1, <2>1, <2>2 DEF UnitOk, UnitNum, TaskOnly
<1>9. \A u \in units : UnitNum(u) <= highestUnit'
  BY <1>1 DEF UnitInv, UnitOk
<1>10. \A u \in Units : UnitMemOk(u)'
  BY <1>1, <1>4 DEF UnitInv, UnitMemOk, UnitKinds
<1>11. UnitsAreFound'
  BY <1>1 DEF UnitsAreFound, UnitNum, TaskOnly
<1> QED
  BY <1>1, <1>3, <1>5, <1>6, <1>7, <1>8, <1>9, <1>10, <1>11, TaskMoves DEF TaskInv, TaskOk

LEMMA UnitsFreedStep == ASSUME IInv, NEW t \in Tasks, UnitsFreed(t) PROVE IInv'
<1> USE DEF IInv, TypeInv
<1>1. /\ tpc[t] = "freeUnits" /\ tpc' = [tpc EXCEPT ![t] = "report"]
      /\ \A u \in units : TaskOf(u) # t
      /\ UsesTask(t) /\ TaskOnly
      /\ UNCHANGED <<single, units, mem, ptrs, next, active, removables, highestUnit>>
  BY DEF UnitsFreed, Goes, Found, Listed, TypeOK
<1>2. tpc \in [Tasks -> TaskPcs]
  BY DEF TypeOK
<1>3. misuse' = misuse
  BY <1>1, TaskAt DEF UsesTask
<1>4. TypeInv'
  BY TaskTypes DEF Task
<1>5. TaskFrame(t) /\ tpc'[t] = "report"
  BY <1>1, <1>2 DEF TaskFrame
<1>6. TimersOk(t)'
  BY <1>1, <1>5 DEF TaskInv, TimersOk
<1>7. \A u \in units : UnitNum(u) <= highestUnit
  BY DEF UnitInv, UnitOk
<1>8. \A u \in Units : UnitMemOk(u)'
  BY <1>1 DEF UnitInv, UnitMemOk
<1>9. UnitsAreFound' /\ MisuseInv'
  BY <1>1, <1>3 DEF UnitsAreFound, MisuseInv, UnitNum, TaskOnly
<1> QED
  BY <1>1, <1>4, <1>5, <1>6, <1>7, <1>8, <1>9, TaskMoves

LEMMA ReportStep == ASSUME IInv, NEW t \in Tasks, ReportEnd(t) PROVE IInv'
<1> USE DEF IInv, TypeInv
<1>1. /\ tpc[t] = "report" /\ tpc' = [tpc EXCEPT ![t] = "dead"]
      /\ active' = [active EXCEPT ![t] = FALSE] /\ single' = TRUE
      /\ next' = [next EXCEPT ![t] = 0] /\ removables' = removables \ {t}
      /\ ptrs' = ptrs \ ObjectsOf(t) /\ UsesTask(t)
      /\ UNCHANGED <<units, mem, highestUnit>> /\ TaskOnly
  BY DEF ReportEnd, Goes
<1>2. /\ tpc \in [Tasks -> TaskPcs] /\ units \subseteq Units /\ next \in [Tasks -> 0..2]
      /\ active \in [Tasks -> BOOLEAN] /\ removables \subseteq Tasks /\ ptrs \subseteq Objects
  BY DEF TypeOK
<1>3. misuse' = misuse
  BY <1>1, TaskAt DEF UsesTask
<1>4. TypeInv'
  BY TaskTypes DEF Task
<1>5. /\ \A k \in Timers, s \in Tasks : <<k, s>> \in ObjectsOf(t) <=> s = t
      /\ \A k \in UnitKinds, u \in Units : <<k, u>> \in ObjectsOf(t) => TaskOf(u) = t
  <2>1. \A k \in Timers, s \in Tasks : <<k, s>> \in Objects /\ <<k, s>> \notin UnitObjects
    BY DEF Objects, TaskObjects, UnitObjects, Timers
  <2>2. t \notin Units
    <3>1. Len(t) = 2 /\ \A u \in Units : Len(u) = 3
      BY DEF Tasks, Units
    <3> QED
      BY <3>1
  <2> QED
    BY <2>1, <2>2 DEF ObjectsOf
<1>6. TaskFrame(t)
  <2>1. \A s \in Tasks : s # t =>
          /\ tpc'[s] = tpc[s] /\ next'[s] = next[s] /\ active'[s] = active[s]
          /\ s \in removables' <=> s \in removables
    BY <1>1, <1>2
  <2> QED
    BY <1>1, <1>5, <2>1 DEF TaskFrame
<1>7. tpc'[t] = "dead" /\ ~active'[t]
  BY <1>1, <1>2
<1>8. TimersOk(t)'
  <2>1. \A k \in Timers : <<k, t>> \notin mem' /\ <<k, t>> \notin ptrs'
    BY <1>1, <1>5 DEF TaskInv, TimersOk
  <2> QED
    BY <2>1 DEF TimersOk, Timers
<1>9. \A u \in units : TaskOf(u) # t /\ UnitNum(u) <= highestUnit
  BY <1>1 DEF UnitInv, UnitOk
<1>10. ASSUME NEW u \in Units, TaskOf(u) = t PROVE UnitMemOk(u)'
  <2>1. u \notin units /\ UnitMemOk(u)
    BY <1>9, <1>10 DEF UnitInv
  <2>2. \A k \in UnitKinds : <<k, u>> \notin mem /\ <<k, u>> \notin ptrs
    BY <2>1 DEF UnitMemOk
  <2> QED
    BY <1>1, <2>2 DEF UnitMemOk, UnitKinds
<1>11. UnitsAreFound' /\ MisuseInv'
  BY <1>1, <1>3 DEF UnitsAreFound, MisuseInv, UnitNum, TaskOnly
<1> QED
  BY <1>1, <1>4, <1>6, <1>7, <1>8, <1>9, <1>10, <1>11, TaskMoves

-----------------------------------------------------------------------------
(* Polls.                                                                     *)

\* The units in the list, their tasks and their commands are there.
LEMMA PollIsSafe ==
  ASSUME IInv, NEW t \in Tasks, StartPoll(t) \/ EndPoll(t)
  PROVE  MisuseInv'
<1> USE DEF IInv, TypeInv
<1>1. tpc[t] \in {"run", "poll"}
  BY DEF StartPoll, EndPoll, Goes
<1>2. <<"itask", t>> \in mem
  BY <1>1 DEF TaskInv, TaskOk, Serving
<1>3. KindsOf({<<"itask", t>>} \ mem) = {}
  <2>1. {<<"itask", t>>} \ mem = {}
    BY <1>2
  <2> QED
    BY <2>1, KindsFacts
<1>4. \A u \in units : \A o \in PollUses(u) : o \in mem \/ o[1] = "treq"
  <2> SUFFICES ASSUME NEW u \in units, NEW o \in PollUses(u), o[1] # "treq" PROVE o \in mem
    OBVIOUS
  <2>1. u \in Units /\ TaskOf(u) \in Tasks /\ UnitOk(u) /\ UnitMemOk(u)
    BY Shapes DEF UnitInv, TypeOK
  <2>2. <<"unit", u>> \in mem /\ <<"itask", TaskOf(u)>> \in mem
    BY <2>1 DEF UnitOk, TaskInv, TaskOk, Serving
  <2>3. CASE o \in {<<"unit", u>>, <<"itask", TaskOf(u)>>}
    BY <2>2, <2>3
  <2>4. CASE <<"scsiCmd", u>> \in ptrs /\ o \in Commands(u)
    BY <2>1, <2>4 DEF UnitMemOk, UnitKinds, Commands
  <2> QED
    BY <2>3, <2>4 DEF PollUses
<1>5. KindsOf((UNION {PollUses(u) : u \in units}) \ mem) \subseteq {"treq"}
  BY <1>4 DEF KindsOf
<1>6. misuse' \subseteq misuse \cup {"treq"}
  BY <1>3, <1>5 DEF StartPoll, EndPoll, UsesTask
<1> QED
  BY <1>6 DEF MisuseInv

LEMMA PollStep == ASSUME IInv, NEW t \in Tasks, StartPoll(t) \/ EndPoll(t) PROVE IInv'
<1> USE DEF IInv, TypeInv
<1>1. PICK pc \in {"run", "poll"} :
        /\ tpc[t] \in {"run", "poll"} /\ tpc' = [tpc EXCEPT ![t] = pc]
        /\ TaskOnly
        /\ UNCHANGED <<single, units, mem, ptrs, next, active, removables, highestUnit>>
  BY DEF StartPoll, EndPoll, Goes
<1>2. UNCHANGED <<dev, ipc, board, numBoards, channels, channel, configme, listed, number,
                  overtaken, io, openCount, libOpenCnt, delexp>>
  BY <1>1 DEF TaskOnly, initVars, clientVars
<1>3. /\ tpc'[t] \in {"run", "poll"} /\ tpc[t] \in {"run", "poll"}
      /\ \A s \in Tasks : s # t => tpc'[s] = tpc[s]
  BY <1>1 DEF TypeOK
<1>4. \A s \in Tasks : /\ Starting(s)' <=> Starting(s)
                       /\ Ahead(s)' <=> Ahead(s)
                       /\ Serving(s)' <=> Serving(s)
  BY <1>2, <1>3 DEF Starting, Ahead, This, Serving
<1>5. TypeInv' /\ MisuseInv'
  BY TaskTypes, PollIsSafe DEF Task
<1>6. TaskInv'
  <2> SUFFICES ASSUME NEW s \in Tasks PROVE TaskOk(s)' /\ NumberOk(s)' /\ TimersOk(s)'
    BY DEF TaskInv
  <2>1. TaskOk(s) /\ NumberOk(s) /\ TimersOk(s)
    BY DEF TaskInv
  <2>2. tpc'[s] = tpc[s] \/ {tpc[s], tpc'[s]} \subseteq {"run", "poll"}
    BY <1>3
  <2>3. TaskOk(s)'
    BY <1>1, <1>2, <1>4, <2>1, <2>2 DEF TaskOk
  <2>4. NumberOk(s)' /\ TimersOk(s)'
    BY <1>1, <1>2, <2>1, <2>2 DEF NumberOk, TimersOk
  <2> QED
    BY <2>3, <2>4
<1>7. UnitInv'
  <2>1. ASSUME NEW u \in units PROVE UnitOk(u)'
    <3>1. UnitOk(u) /\ TaskOf(u) \in Tasks
      BY Shapes DEF UnitInv, TypeOK
    <3> QED
      BY <1>1, <1>2, <1>3, <3>1 DEF UnitOk, UnitNum
  <2>2. \A u \in Units : UnitMemOk(u)'
    BY <1>1 DEF UnitInv, UnitMemOk
  <2> QED
    BY <1>1, <2>1, <2>2 DEF UnitInv
<1>8. SignalInv'
  BY <1>1, <1>2, <1>3 DEF SignalInv, This
<1>9. UnitsAreFound' /\ ConfigInv' /\ ClientInv' /\ CountsAgree'
  BY <1>1, <1>2 DEF UnitsAreFound, UnitNum, ConfigInv, ClientInv, CountsAgree
<1> QED
  BY <1>2, <1>5, <1>6, <1>7, <1>8, <1>9

-----------------------------------------------------------------------------
(* The clients.                                                               *)

\* Opening, closing and expunging touch the requests and the counts only.
LEMMA ClientMoves ==
  ASSUME IInv, ClientOnly, TypeInv', ClientInv', CountsAgree', misuse' = misuse
  PROVE  IInv'
<1> USE DEF IInv, TypeInv
<1>1. UNCHANGED <<dev, ipc, board, numBoards, channels, channel, single, configme, listed,
                  units, tpc, next, active, removables, highestUnit, number, mem, ptrs,
                  overtaken>>
  BY DEF ClientOnly, initVars, taskVars
<1>2. ConfigInv' /\ MisuseInv' /\ UnitsAreFound'
  BY <1>1 DEF ConfigInv, MisuseInv, UnitsAreFound, UnitNum
<1>3. TaskInv'
  BY <1>1 DEF TaskInv, TaskOk, NumberOk, TimersOk, Starting, Ahead, This, Serving
<1>4. UnitInv'
  BY <1>1 DEF UnitInv, UnitOk, UnitMemOk, UnitNum
<1>5. SignalInv'
  BY <1>1 DEF SignalInv, This
<1> QED
  BY <1>1, <1>2, <1>3, <1>4, <1>5

LEMMA OpenStep ==
  ASSUME IInv, NEW r \in Reqs, NEW n \in UnitNums, NEW u \in Units, Open(r, n, u)
  PROVE  IInv'
<1> USE DEF IInv, TypeInv
<1>1. /\ dev = "ready" /\ io[r].opens < MaxOpens /\ ~io[r].held /\ u \in units
      /\ io' = [io EXCEPT ![r] =
           [unit |-> u, dev |-> TRUE, held |-> TRUE, opens |-> io[r].opens + 1]]
      /\ openCount' = [openCount EXCEPT ![u] = @ + 1]
      /\ libOpenCnt' = libOpenCnt + 1 /\ delexp' = FALSE
      /\ misuse' = misuse \cup KindsOf({<<"unit", u>>, <<"itask", TaskOf(u)>>} \ mem)
      /\ ClientOnly
  BY DEF Open, Opens, Listed
<1>2. UNCHANGED <<dev, units>>
  BY <1>1 DEF ClientOnly
<1>3. io \in [Reqs -> Request] /\ openCount \in [Units -> Nat] /\ libOpenCnt \in Nat
      /\ io[r].opens \in 0..MaxOpens /\ MaxOpens \in Nat
  BY ConstantsAssumption DEF TypeOK, Request, ConstantsAssumption
<1>4. misuse' = misuse
  <2>1. <<"unit", u>> \in mem /\ TaskOf(u) \in Tasks /\ UnitOk(u)
    BY <1>1, Shapes DEF UnitInv, UnitOk
  <2>2. ~Starting(TaskOf(u))
    BY <1>1 DEF InitInv, Starting
  <2>3. TaskOf(u) \in listed
    BY <2>1, <2>2 DEF TaskInv, TaskOk, UnitOk, Serving
  <2>4. {<<"unit", u>>, <<"itask", TaskOf(u)>>} \ mem = {}
    BY <2>1, <2>3 DEF TaskInv, TaskOk
  <2> QED
    BY <1>1, <2>4, KindsFacts
<1> DEFINE q == [unit |-> u, dev |-> TRUE, held |-> TRUE, opens |-> io[r].opens + 1]
<1>5. q \in Request /\ q.unit = u /\ q.dev /\ q.held
  BY <1>1, <1>3 DEF Request
<1>6. io' = [io EXCEPT ![r] = q]
  BY <1>1
<1> HIDE DEF q
<1>7. /\ io' \in [Reqs -> Request] /\ io'[r] = q
      /\ \A s \in Reqs : s # r => io'[s] = io[s]
  BY <1>3, <1>5, <1>6
<1>8. TypeInv'
  BY ClientTypes DEF Client
<1>9. ClientInv'
  BY <1>1, <1>2, <1>5, <1>7 DEF ClientInv
<1>10. CountsAgree'
  <2>1. ASSUME NEW S, NEW T, S \subseteq Reqs, r \notin S, T = S \cup {r}
        PROVE  Cardinality(T) = Cardinality(S) + 1
    <3>1. IsFiniteSet(S)
      BY <2>1, Shapes, FS_Subset
    <3> QED
      BY <2>1, <3>1, FS_AddElement
  <2>2. libOpenCnt' = Cardinality({s \in Reqs : io'[s].held})
    <3>1. {s \in Reqs : io'[s].held} = {s \in Reqs : io[s].held} \cup {r}
      BY <1>5, <1>7
    <3> QED
      BY <1>1, <2>1, <3>1 DEF CountsAgree
  <2>3. ASSUME NEW v \in Units
        PROVE  openCount'[v] = Cardinality({s \in Reqs : io'[s].held /\ io'[s].unit = v})
    <3> DEFINE S == {s \in Reqs : io[s].held /\ io[s].unit = v}
    <3> DEFINE T == {s \in Reqs : io'[s].held /\ io'[s].unit = v}
    <3>0. openCount[v] = Cardinality(S)
      BY DEF CountsAgree
    <3>1. CASE v = u
      <4>1. T = S \cup {r} /\ r \notin S /\ S \subseteq Reqs
        BY <1>1, <1>5, <1>7, <3>1
      <4>2. openCount'[v] = openCount[v] + 1
        BY <1>1, <1>3, <3>1
      <4> HIDE DEF S, T
      <4>3. Cardinality(T) = Cardinality(S) + 1
        BY <2>1, <4>1
      <4> QED
        BY <3>0, <4>2, <4>3 DEF T
    <3>2. CASE v # u
      <4>1. T = S
        BY <1>1, <1>5, <1>7, <3>2
      <4>2. openCount'[v] = openCount[v]
        BY <1>1, <1>3, <3>2
      <4> QED
        BY <3>0, <4>1, <4>2
    <3> QED
      BY <3>1, <3>2
  <2> QED
    BY <2>2, <2>3 DEF CountsAgree
<1> QED
  BY <1>1, <1>4, <1>8, <1>9, <1>10, ClientMoves

LEMMA OpenFailsStep ==
  ASSUME IInv, NEW r \in Reqs, NEW n \in UnitNums, OpenFails(r, n)
  PROVE  IInv'
<1> USE DEF IInv, TypeInv
<1> DEFINE q == [unit |-> NoUnit, dev |-> FALSE, held |-> FALSE, opens |-> io[r].opens + 1]
<1>1. /\ dev = "ready" /\ io[r].opens < MaxOpens /\ ~io[r].held
      /\ io' = [io EXCEPT ![r] = q]
      /\ UNCHANGED <<openCount, libOpenCnt, delexp, misuse>> /\ ClientOnly
  BY DEF OpenFails
<1>2. UNCHANGED <<dev, units>>
  BY <1>1 DEF ClientOnly
<1>3. io \in [Reqs -> Request] /\ io[r].opens \in 0..MaxOpens /\ MaxOpens \in Nat
  BY ConstantsAssumption DEF TypeOK, Request, ConstantsAssumption
<1>4. q \in Request /\ ~q.dev /\ ~q.held
  BY <1>1, <1>3 DEF Request
<1> HIDE DEF q
<1>5. /\ io' \in [Reqs -> Request] /\ io'[r] = q
      /\ \A s \in Reqs : s # r => io'[s] = io[s]
  BY <1>1, <1>3, <1>4
<1>6. TypeInv'
  BY ClientTypes DEF Client
<1>7. ClientInv'
  BY <1>2, <1>4, <1>5 DEF ClientInv
<1>8. CountsAgree'
  <2>1. {s \in Reqs : io'[s].held} = {s \in Reqs : io[s].held}
    BY <1>1, <1>4, <1>5
  <2>2. \A v \in Units : {s \in Reqs : io'[s].held /\ io'[s].unit = v}
                         = {s \in Reqs : io[s].held /\ io[s].unit = v}
    BY <1>1, <1>4, <1>5
  <2> QED
    BY <1>1, <2>1, <2>2 DEF CountsAgree
<1> QED
  BY <1>1, <1>6, <1>7, <1>8, ClientMoves

LEMMA CloseStep == ASSUME IInv, NEW r \in Reqs, Close(r) PROVE IInv'
<1> USE DEF IInv, TypeInv
<1> DEFINE u == io[r].unit
<1>0. /\ io \in [Reqs -> Request] /\ openCount \in [Units -> Nat] /\ libOpenCnt \in Nat
      /\ units \subseteq Units /\ io[r] \in Request
  BY DEF TypeOK
<1>1. /\ dev = "ready" /\ io[r].held /\ io[r].dev /\ u \in units /\ u \in Units
      /\ libOpenCnt' = Less(libOpenCnt)
      /\ openCount' = [openCount EXCEPT ![u] = Less(openCount[u])]
      /\ UNCHANGED <<delexp, misuse>> /\ ClientOnly
  BY <1>0 DEF Close, Listed
<1>2. PICK q \in Request :
        io' = [io EXCEPT ![r] = q] /\ ~q.held /\ (q.dev => q.unit = u)
  <2> DEFINE a == [io[r] EXCEPT !.held = FALSE]
  <2> DEFINE b == [io[r] EXCEPT !.held = FALSE, !.unit = NoUnit, !.dev = FALSE]
  <2>1. a \in Request /\ ~a.held /\ a.unit = u
    BY <1>0 DEF Request
  <2>2. b \in Request /\ ~b.held /\ ~b.dev
    BY <1>0 DEF Request
  <2>3. io' = [io EXCEPT ![r] = a] \/ io' = [io EXCEPT ![r] = b]
    BY <1>0 DEF Close
  <2> HIDE DEF a, b
  <2> QED
    BY <2>1, <2>2, <2>3
<1>3. /\ io' \in [Reqs -> Request] /\ io'[r] = q
      /\ \A s \in Reqs : s # r => io'[s] = io[s]
  BY <1>0, <1>2
<1>4. TypeInv'
  BY ClientTypes DEF Client
<1>5. ClientInv'
  BY <1>1, <1>2, <1>3 DEF ClientInv, ClientOnly
<1> HIDE DEF u
<1>6. CountsAgree'
  <2>1. ASSUME NEW S, NEW T, S \subseteq Reqs, r \in S, T = S \ {r}
        PROVE  /\ Cardinality(S) \in Nat
               /\ Cardinality(T) = Less(Cardinality(S))
    <3>1. IsFiniteSet(S)
      BY <2>1, Shapes, FS_Subset
    <3>2. /\ Cardinality(S) \in Nat /\ Cardinality(T) \in Nat
          /\ Cardinality(T) = Cardinality(S) - 1
      <4>1. IsFiniteSet(T)
        BY <2>1, <3>1, FS_RemoveElement
      <4> QED
        BY <2>1, <3>1, <4>1, FS_RemoveElement, FS_CardinalityType
    <3> QED
      BY <3>2 DEF Less
  <2>2. libOpenCnt' = Cardinality({s \in Reqs : io'[s].held})
    <3>1. {s \in Reqs : io'[s].held} = {s \in Reqs : io[s].held} \ {r}
      BY <1>2, <1>3
    <3>2. r \in {s \in Reqs : io[s].held}
      BY <1>1
    <3> QED
      BY <1>1, <2>1, <3>1, <3>2 DEF CountsAgree
  <2>3. ASSUME NEW v \in Units
        PROVE  openCount'[v] = Cardinality({s \in Reqs : io'[s].held /\ io'[s].unit = v})
    <3> DEFINE S == {s \in Reqs : io[s].held /\ io[s].unit = v}
    <3> DEFINE T == {s \in Reqs : io'[s].held /\ io'[s].unit = v}
    <3>0. openCount[v] = Cardinality(S)
      BY DEF CountsAgree
    <3>1. CASE v = u
      <4>1. T = S \ {r} /\ r \in S /\ S \subseteq Reqs
        BY <1>1, <1>2, <1>3, <3>1 DEF u
      <4>2. openCount'[v] = Less(openCount[v])
        BY <1>0, <1>1, <3>1
      <4> HIDE DEF S, T
      <4>3. Cardinality(T) = Less(Cardinality(S))
        BY <2>1, <4>1
      <4> QED
        BY <3>0, <4>2, <4>3 DEF T
    <3>2. CASE v # u
      <4>1. T = S
        BY <1>2, <1>3, <3>2 DEF u
      <4>2. openCount'[v] = openCount[v]
        BY <1>0, <1>1, <3>2
      <4> QED
        BY <3>0, <4>1, <4>2
    <3> QED
      BY <3>1, <3>2
  <2> QED
    BY <2>2, <2>3 DEF CountsAgree
<1> QED
  BY <1>1, <1>4, <1>5, <1>6, ClientMoves

\* A request that is open has a unit in the list.
LEMMA CloseUnlistedStep == ASSUME IInv, NEW r \in Reqs, CloseUnlisted(r) PROVE FALSE
BY DEF IInv, ClientInv, CloseUnlisted, Listed

LEMMA ExpungeStep == ASSUME IInv, Expunge PROVE IInv'
<1> USE DEF IInv, TypeInv
<1>1. /\ delexp' = TRUE /\ UNCHANGED <<io, openCount, libOpenCnt, misuse>> /\ ClientOnly
  BY DEF Expunge
<1>2. TypeInv'
  BY ClientTypes DEF Client
<1>3. ClientInv' /\ CountsAgree'
  BY <1>1 DEF ClientInv, CountsAgree, ClientOnly
<1> QED
  BY <1>1, <1>2, <1>3, ClientMoves

-----------------------------------------------------------------------------
(* The specification keeps the invariant.                                     *)

LEMMA TaskStep == ASSUME IInv, NEW t \in Tasks, Task(t) PROVE IInv'
BY PortStep, TimerStep, UnitFoundStep, UnitsEndStep, CleanupTimersStep, FreeUnitStep,
   UnitsFreedStep, ReportStep, PollStep DEF Task

LEMMA ClientStep == ASSUME IInv, Client PROVE IInv'
<1>1. CASE \E r \in Reqs, n \in UnitNums : OpenFails(r, n)
  BY <1>1, OpenFailsStep
<1>2. CASE \E r \in Reqs, n \in UnitNums, u \in Units : Open(r, n, u)
  BY <1>2, OpenStep
<1>3. CASE \E r \in Reqs : Close(r) \/ CloseUnlisted(r)
  BY <1>3, CloseStep, CloseUnlistedStep
<1>4. CASE Expunge
  BY <1>4, ExpungeStep
<1> QED
  BY <1>1, <1>2, <1>3, <1>4, Zenon DEF Client

LEMMA StutterStep == ASSUME IInv, UNCHANGED vars PROVE IInv'
<1>1. ClientOnly /\ UNCHANGED <<io, openCount, libOpenCnt, delexp, misuse>>
  BY DEF vars, clientVars, ClientOnly
<1>2. TypeInv'
  BY NextTypes DEF IInv
<1>3. ClientInv' /\ CountsAgree'
  BY <1>1 DEF IInv, ClientInv, CountsAgree, ClientOnly
<1> QED
  BY <1>1, <1>2, <1>3, ClientMoves

LEMMA NextInv == ASSUME IInv, [Next]_vars, overtaken' = {} PROVE IInv'
<1>1. CASE InitDevice
  BY <1>1, BoardStep, StartStep, WaitStep, CheckStep DEF InitDevice
<1>2. CASE \E t \in Tasks : Task(t)
  BY <1>2, TaskStep
<1>3. CASE Client
  BY <1>3, ClientStep
<1>4. CASE UNCHANGED vars
  BY <1>4, StutterStep
<1> QED
  BY <1>1, <1>2, <1>3, <1>4 DEF Next

-----------------------------------------------------------------------------
(* The theorems.                                                              *)

\* The types hold in every reachable state, and the whole invariant in every
\* one in which init_device() has overtaken no task.
THEOREM Invariance == Spec => [](TypeInv /\ (overtaken = {} => IInv))
<1>1. Init => TypeInv /\ (overtaken = {} => IInv)
  BY InitTypes, InitIInv
<1>2. TypeInv /\ (overtaken = {} => IInv) /\ [Next]_vars
        => (TypeInv /\ (overtaken = {} => IInv))'
  BY NextTypes, NextInv
<1> QED
  BY <1>1, <1>2, PTL DEF Spec

\* Every variable keeps its type, overtaken tasks or not: board numbers, drives
\* and unit numbers stay in the tables they index.
THEOREM TypeCorrect == Spec => []TypeOK
<1>1. TypeInv => TypeOK
  BY DEF TypeInv
<1> QED
  BY <1>1, Invariance, PTL

\* Nothing but units and their first commands is ever used or freed when it is
\* gone, and a unit that a client has open is there: whatever allocation fails,
\* whichever boards there are and whatever the clients do.
THEOREM UsesWhatIsThereHolds == Spec => []UsesWhatIsThere
<1>1. (overtaken = {} => IInv) => UsesWhatIsThere
  BY DEF IInv, MisuseInv, ClientInv, UnitInv, UnitOk, UsesWhatIsThere
<1> QED
  BY <1>1, Invariance, PTL

\* The structure of a task is freed last: when it is gone so is all the task
\* had, and the units it had found.
LEMMA NothingOf ==
  ASSUME IInv, NEW t \in Tasks, <<"itask", t>> \notin mem
  PROVE  ObjectsOf(t) \cap mem = {}
<1> USE DEF IInv, TypeInv
<1>1. tpc[t] \in {"none", "dead"}
  BY DEF TaskInv, TaskOk, Serving
<1>2. \A k \in Timers : <<k, t>> \notin mem
  BY <1>1 DEF TaskInv, TimersOk
<1>3. \A k \in UnitKinds, u \in Units : TaskOf(u) = t => <<k, u>> \notin mem
  BY <1>1 DEF UnitInv, UnitOk, UnitMemOk
<1>4. \A o \in TaskObjects : o[2] = t => o \notin mem
  BY <1>2 DEF TaskObjects, Timers
<1>5. \A o \in UnitObjects : o[2] # t /\ (TaskOf(o[2]) = t => o \notin mem)
  <2>1. Len(t) = 2 /\ \A u \in Units : Len(u) = 3
    BY DEF Tasks, Units
  <2> QED
    BY <1>3, <2>1 DEF UnitObjects, UnitKinds
<1> QED
  BY <1>4, <1>5 DEF ObjectsOf, Objects

\* A task that ended has given everything back, and a device that could not
\* start holds nothing and has claimed no board.
THEOREM NothingIsLeftHolds == Spec => []NothingIsLeft
<1>1. ASSUME IInv, dev = "gone"
      PROVE  /\ mem = {}
             /\ configme = {b \in 1..Len(Boards) : Boards[b] # "configured"}
  <2> USE <1>1 DEF IInv, TypeInv
  <2>1. ipc = "out" /\ listed = {}
    BY DEF InitInv
  <2>2. \A t \in Tasks : <<"itask", t>> \notin mem
    BY <2>1 DEF TaskInv, TaskOk, Starting
  <2>3. \A o \in Objects : \E t \in Tasks : o \in ObjectsOf(t)
    BY Shapes DEF Objects, ObjectsOf, TaskObjects, UnitObjects
  <2>4. mem = {}
    BY <2>2, <2>3, NothingOf DEF TypeOK
  <2>5. configme = {b \in 1..Len(Boards) : Boards[b] # "configured"}
    BY <2>1 DEF ConfigInv, TypeOK
  <2> QED
    BY <2>4, <2>5
<1>2. (overtaken = {} => IInv) => NothingIsLeft
  BY <1>1, NothingOf DEF NothingIsLeft
<1> QED
  BY <1>2, Invariance, PTL

\* Between two channels and when it is done, init_device() has kept exactly the
\* tasks that serve requests, each of which has a unit, and claimed their boards.
THEOREM ListedServeHolds == Spec => []ListedServe
<1>1. ASSUME IInv, ipc \in {"channel", "board", "out"}
      PROVE  /\ listed = {t \in Tasks : Serving(t)}
             /\ \A t \in Tasks : t \in listed <=> active[t] /\ Found(t) # {}
             /\ ConfigInv
  <2> USE <1>1 DEF IInv, TypeInv
  <2>1. \A t \in Tasks : /\ tpc[t] \in {"none", "run", "poll", "dead"}
                         /\ t \in listed <=> Serving(t)
    BY DEF TaskInv, TaskOk, Starting
  <2>2. listed = {t \in Tasks : Serving(t)}
    BY <2>1 DEF TypeOK
  <2>3. \A t \in Tasks : active[t] <=> Serving(t)
    BY <2>1 DEF TaskInv, TaskOk, Serving
  <2>4. \A t \in Tasks : Serving(t) => Found(t) # {}
    BY DEF TaskInv, TaskOk, Serving, Found, Listed, TypeOK
  <2> QED
    BY <2>1, <2>2, <2>3, <2>4
<1>2. (overtaken = {} => IInv) => ListedServe
  BY <1>1, Zenon DEF ListedServe, ConfigInv
<1> QED
  BY <1>2, Invariance, PTL

\* No two units share a number and none is above highestUnit, however the
\* drives are spread over boards and channels.
THEOREM UnitsAreFoundHolds == Spec => []UnitsAreFound
<1>1. (overtaken = {} => IInv) => UnitsAreFound
  BY DEF IInv, UnitsAreFound
<1> QED
  BY <1>1, Invariance, PTL

\* lib_OpenCnt counts the requests that are open and openCount those of its
\* unit, for any number of clients.
THEOREM CountsAgreeHolds == Spec => []CountsAgree
<1>1. (overtaken = {} => IInv) => CountsAgree
  BY DEF IInv, CountsAgree
<1> QED
  BY <1>1, Invariance, PTL
=============================================================================
