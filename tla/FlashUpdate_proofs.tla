------------------------- MODULE FlashUpdate_proofs -------------------------
(***************************************************************************)
(* Proofs about FlashUpdate, for any machine, any request, any set of file  *)
(* systems and devices: while a flash chip is written, or an IDE interface  *)
(* is off, nothing uses a drive; a program that ends without a reboot has   *)
(* let everything go again; and a board holds what was asked for when it    *)
(* is done, and no bank that was not meant has changed.                     *)
(***************************************************************************)
EXTENDS FlashUpdate, SequenceTheorems, WellFoundedInduction, TLAPS

-----------------------------------------------------------------------------
(* What the two loops of suspend_lide() have come to.                         *)

\* The pairs of device and unit that suspend_lide() sends a command to.
Addressed ==
  {p \in (DOMAIN Drives) \X (0..MaxUnits - 1) : p[1] \notin OldDrivers /\ p[2] \in Drives[p[1]]}

\* The loops have passed the pair p.
Passed(p) == p[1] < name \/ (p[1] = name /\ p[2] < unit)

\* File systems that can be told to keep off their disks.
Able == FileSystems \ Unable

\* main() has heard from all file systems, and has not let them go.
InScan == {"scan", "prompt", "finish", "suspend", "rebooted"} \cup FlashPcs

FieldsInv ==
  /\ config \in Request
  /\ boards \in Machines
  /\ at \in 0..Len(boards)
  /\ board.rebootRequired \in BOOLEAN
  /\ name \in 1..Len(Drives) + 1 /\ unit \in 0..MaxUnits
  /\ files \subseteq FileSystems /\ inhibited \subseteq FileSystems

\* Who keeps off its disk.
FilesInv ==
  /\ pc \in {"start"} => inhibited = {}
  /\ pc = "inhibit" => skipped \/ refused \/ Able \ files \subseteq inhibited
  /\ pc \in InScan => skipped \/ Able \subseteq inhibited
  /\ pc \in {"giveUp", "uninhibit"} => skipped \/ inhibited \subseteq files
  /\ pc = "exit" => skipped \/ inhibited = {}

\* Which tasks are paused.
PausedInv ==
  /\ \A t \in paused : \E p \in Addressed : t = TaskOf(p[1], p[2])
  /\ pc \in {"start", "inhibit", "giveUp"} => paused = {}
  /\ pc = "suspend" => \A p \in Addressed : Passed(p) => TaskOf(p[1], p[2]) \in paused
  /\ pc \in FlashPcs \/ ideOff # {} =>
       skipped \/ \A p \in Addressed : TaskOf(p[1], p[2]) \in paused
  /\ pc = "resume" => \A t \in paused : \E p \in Addressed : ~Passed(p) /\ t = TaskOf(p[1], p[2])
  /\ pc \in {"resumed", "uninhibit", "exit"} => skipped \/ paused = {}

\* An IDE interface that is off will be on again after the reboot.
RebootInv ==
  ideOff # {} => config.reboot /\ pc \in InScan

IInv == FieldsInv /\ FilesInv /\ PausedInv /\ RebootInv

-----------------------------------------------------------------------------

\* The largest of some numbers of one digit.
LEMMA MaxIsLargest ==
  ASSUME NEW S \in SUBSET (0..9), S # {}
  PROVE  Max(S) \in S /\ \A u \in S : u <= Max(S)
<1> DEFINE T == {9 - y : y \in S}
<1>1. \E x \in S : \A y \in S : x >= y
  <2>1. T \subseteq Nat /\ T # {}
    <3>1. \A y \in S : 9 - y \in Nat /\ 9 - y \in T
      OBVIOUS
    <3> QED
      BY <3>1
  <2>2. PICK m \in T : \A n \in T : ~(<<n, m>> \in OpToRel(<, Nat))
    BY <2>1, WFMin, NatLessThanWellFounded
  <2>3. \A n \in T : ~(n < m)
    BY <2>1, <2>2 DEF OpToRel
  <2>4. PICK x \in S : m = 9 - x
    OBVIOUS
  <2>5. ASSUME NEW y \in S PROVE x >= y
    <3>1. x \in 0..9 /\ y \in 0..9 /\ ~(9 - y < 9 - x)
      BY <2>3, <2>4
    <3> QED
      BY <3>1
  <2> QED
    BY <2>5
<1>2. Max(S) \in S /\ \A y \in S : Max(S) >= y
  BY <1>1 DEF Max
<1>3. \A y \in S : y \in Int
  OBVIOUS
<1> QED
  BY <1>2, <1>3

\* The devices, as ConstantsAssumption has them.
LEMMA DrivesType ==
  /\ Len(Drives) \in Nat /\ DOMAIN Drives = 1..Len(Drives)
  /\ \A d \in DOMAIN Drives : Drives[d] \in SUBSET (0..9) /\ Drives[d] # {}
BY ConstantsAssumption DEF ConstantsAssumption

\* A task that is to be paused has a unit the program addresses.
LEMMA PausableAddressed ==
  \A t \in Pausable : \E p \in Addressed : t = TaskOf(p[1], p[2])
<1> SUFFICES ASSUME NEW t \in Pausable
             PROVE  \E p \in Addressed : t = TaskOf(p[1], p[2])
  OBVIOUS
<1>1. PICK d \in DOMAIN Drives \ OldDrivers, u \in 0..MaxUnits - 1 : t = <<d, u \div 2>>
  BY DEF Pausable, TaskOf
<1>2. PICK e \in DOMAIN Drives : \E w \in Drives[e] : t = <<e, w \div 2>>
  BY DEF Pausable, TaskOf
<1> PICK v \in Drives[e] : t = <<e, v \div 2>>
  BY <1>2
<1>3. e = d /\ v \div 2 = u \div 2
  BY <1>1, <1>2
<1>4. v \in 0..9 /\ u \in 0..3
  BY <1>1, <1>2, DrivesType DEF MaxUnits
<1>5. v \in 0..3
  <2>1. u \div 2 \in 0..1
    BY <1>4
  <2>2. v \div 2 \in 0..1
    BY <1>3, <2>1
  <2> QED
    BY <1>4, <2>2
<1>6. <<e, v>> \in Addressed
  <2>1. <<e, v>> \in (DOMAIN Drives) \X (0..MaxUnits - 1)
    BY <1>5 DEF MaxUnits
  <2> QED
    BY <1>3, <2>1 DEF Addressed
<1>7. t = TaskOf(<<e, v>>[1], <<e, v>>[2])
  BY DEF TaskOf
<1> QED
  BY <1>6, <1>7

-----------------------------------------------------------------------------

\* The program starts with nothing paused, inhibited or off.
LEMMA InitIInv == ASSUME Init PROVE IInv
<1>1. FieldsInv
  BY DrivesType, ConstantsAssumption
  DEF Init, FieldsInv, ConstantsAssumption, SetupLiv2, MaxUnits
<1>2. FilesInv /\ PausedInv /\ RebootInv
  BY DEF Init, FilesInv, PausedInv, RebootInv, InScan, FlashPcs
<1> QED
  BY <1>1, <1>2 DEF IInv

\* Asking the file systems, and letting them go.
LEMMA FilesStep ==
  ASSUME IInv,
         \/ ReadFiles \/ AllAsked \/ Exit
         \/ \E f \in FileSystems : Inhibit(f) \/ Uninhibit(f)
  PROVE  IInv'
<1> USE DEF IInv
<1>1. CASE ReadFiles
  <2>1. /\ pc = "start"
        /\ UNCHANGED <<boards, config, inhibited, name, unit, paused, at, board, ideOff>>
        /\ \/ pc' = "exit"
           \/ pc' = "inhibit" /\ \E listed \in SUBSET FileSystems :
                files' = listed /\ (skipped' \/ listed = FileSystems)
        /\ files' = files \/ files' \in SUBSET FileSystems
    BY <1>1 DEF ReadFiles, ListDevices, boardVars
  <2>2. FieldsInv' /\ RebootInv'
    BY <2>1 DEF FieldsInv, RebootInv, InScan, FlashPcs
  <2>3. FilesInv'
    BY <2>1 DEF FilesInv, FieldsInv, InScan, FlashPcs, Able
  <2>4. PausedInv'
    BY <2>1 DEF PausedInv, RebootInv, InScan, FlashPcs
  <2> QED
    BY <2>2, <2>3, <2>4
<1>2. ASSUME NEW f \in FileSystems, Inhibit(f)
      PROVE  IInv'
  <2>1. /\ pc = "inhibit" /\ files' = files \ {f}
        /\ UNCHANGED <<boards, config, pc, name, unit, paused, skipped, at, board, ideOff>>
        /\ \/ f \in Unable /\ UNCHANGED <<inhibited, refused>>
           \/ inhibited' = inhibited \cup {f} /\ UNCHANGED refused
           \/ refused' = TRUE /\ UNCHANGED inhibited
    BY <1>2, Zenon DEF Inhibit, boardVars
  <2>2. FieldsInv' /\ RebootInv'
    BY <2>1 DEF FieldsInv, RebootInv
  <2>3. FilesInv'
    <3>1. skipped \/ refused \/ Able \ files \subseteq inhibited
      BY <2>1 DEF FilesInv
    <3>2. skipped' \/ refused' \/ Able \ files' \subseteq inhibited'
      BY <2>1, <3>1 DEF Able
    <3> QED
      BY <2>1, <3>2 DEF FilesInv, InScan, FlashPcs
  <2>4. PausedInv'
    BY <2>1 DEF PausedInv, FlashPcs
  <2> QED
    BY <2>2, <2>3, <2>4
<1>3. CASE AllAsked
  <2>1. /\ pc = "inhibit" /\ files = {}
        /\ UNCHANGED <<boards, config, inhibited, name, unit, paused, at, board, ideOff>>
        /\ \/ ~refused /\ pc' \in {"scan", "finish"} /\ UNCHANGED <<files, skipped>>
           \/ pc' = "giveUp" /\ \E listed \in SUBSET FileSystems :
                files' = listed /\ (skipped' \/ listed = FileSystems)
    BY <1>3 DEF AllAsked, ListDevices, boardVars
  <2>2. FieldsInv' /\ RebootInv'
    BY <2>1 DEF FieldsInv, RebootInv, InScan, FlashPcs
  <2>3. FilesInv'
    BY <2>1 DEF FilesInv, FieldsInv, InScan, FlashPcs, Able
  <2>4. PausedInv'
    BY <2>1 DEF PausedInv, RebootInv, InScan, FlashPcs
  <2> QED
    BY <2>2, <2>3, <2>4
<1>4. ASSUME NEW f \in FileSystems, Uninhibit(f)
      PROVE  IInv'
  <2>1. /\ pc \in {"uninhibit", "giveUp"} /\ files' = files \ {f} /\ inhibited' = inhibited \ {f}
        /\ UNCHANGED <<boards, config, pc, name, unit, paused, skipped, at, board, ideOff>>
    BY <1>4 DEF Uninhibit, boardVars
  <2>2. FieldsInv' /\ RebootInv'
    BY <2>1 DEF FieldsInv, RebootInv
  <2>3. FilesInv'
    BY <2>1 DEF FilesInv, InScan, FlashPcs
  <2>4. PausedInv'
    BY <2>1 DEF PausedInv, FlashPcs
  <2> QED
    BY <2>2, <2>3, <2>4
<1>5. CASE Exit
  <2>1. /\ pc \in {"uninhibit", "giveUp"} /\ files = {} /\ pc' = "exit"
        /\ UNCHANGED <<boards, config, quietVars, boardVars>>
    BY <1>5 DEF Exit
  <2>2. FieldsInv' /\ RebootInv'
    BY <2>1 DEF FieldsInv, RebootInv, quietVars, boardVars, InScan, FlashPcs
  <2>3. FilesInv'
    BY <2>1 DEF FilesInv, InScan, FlashPcs, quietVars
  <2>4. PausedInv'
    BY <2>1 DEF PausedInv, RebootInv, InScan, FlashPcs, quietVars, boardVars
  <2> QED
    BY <2>2, <2>3, <2>4
<1> QED
  BY <1>1, <1>2, <1>3, <1>4, <1>5

\* Going through the boards.
LEMMA BoardStep ==
  ASSUME IInv,
         \/ NextBoard \/ NoMoreBoards \/ Decline
         \/ \E all \in BOOLEAN : Agree(all)
  PROVE  IInv'
<1> USE DEF IInv
<1>1. CASE NextBoard
  <2>1. /\ pc = "scan" /\ at < Len(boards) /\ at' = at + 1 /\ pc' \in {"scan", "prompt"}
        /\ board' = board \/ board' = Setup(boards[at + 1])
        /\ UNCHANGED <<boards, config, ideOff, files, refused, inhibited, name, unit, paused, skipped>>
    BY <1>1 DEF NextBoard, quietVars
  <2>2. FieldsInv'
    <3>1. boards \in Seq(Board) /\ at + 1 \in 1..Len(boards)
      BY <2>1, ConstantsAssumption DEF ConstantsAssumption, FieldsInv
    <3>2. board'.rebootRequired \in BOOLEAN
      <4>1. \A b : Setup(b).rebootRequired = TRUE \/ Setup(b).rebootRequired = FALSE
        BY DEF Setup, SetupLiv2, SetupMatze
      <4>2. Setup(boards[at + 1]).rebootRequired \in BOOLEAN
        BY <4>1, Zenon
      <4>3. board.rebootRequired \in BOOLEAN
        BY DEF FieldsInv
      <4> QED
        BY <2>1, <4>2, <4>3, Zenon
    <3> QED
      BY <2>1, <3>1, <3>2 DEF FieldsInv
  <2>3. FilesInv' /\ RebootInv'
    BY <2>1 DEF FilesInv, RebootInv, InScan, FlashPcs
  <2>4. PausedInv'
    BY <2>1 DEF PausedInv, FlashPcs
  <2> QED
    BY <2>2, <2>3, <2>4
<1>2. CASE NoMoreBoards \/ Decline
  <2>1. /\ pc \in {"scan", "prompt"} /\ pc' \in {"finish", "scan"}
        /\ UNCHANGED <<boards, config, quietVars, boardVars>>
    BY <1>2 DEF NoMoreBoards, Decline
  <2>2. FieldsInv'
    BY <2>1 DEF FieldsInv, quietVars, boardVars
  <2>3. FilesInv' /\ RebootInv'
    BY <2>1 DEF FilesInv, RebootInv, InScan, FlashPcs, quietVars, boardVars
  <2>4. PausedInv'
    BY <2>1 DEF PausedInv, FlashPcs, quietVars, boardVars
  <2> QED
    BY <2>2, <2>3, <2>4
<1>3. ASSUME NEW all \in BOOLEAN, Agree(all)
      PROVE  IInv'
  <2>1. /\ pc = "prompt" /\ config' = [config EXCEPT !.yes = @ \/ all]
        /\ \/ pc' = "suspend" /\ name' = 1 /\ unit' = 0 /\ UNCHANGED skipped
           \/ pc' = "enable" /\ skipped' = TRUE /\ UNCHANGED <<name, unit>>
        /\ UNCHANGED <<boards, files, refused, inhibited, paused, at, board, ideOff>>
    BY <1>3, Zenon DEF Agree, StartSuspend
  <2>2. config' \in Request /\ config'.reboot = config.reboot
    <3>1. config \in Request
      BY DEF FieldsInv
    <3>2. (config.yes \/ all) \in BOOLEAN
      OBVIOUS
    <3> DEFINE y == config.yes \/ all
    <3>3. config' = [config EXCEPT !.yes = y]
      BY <2>1
    <3> HIDE DEF y
    <3>4. y \in BOOLEAN
      BY <3>2 DEF y
    <3> QED
      BY <3>1, <3>3, <3>4 DEF Request
  <2>3. FieldsInv'
    BY <2>1, <2>2, DrivesType DEF FieldsInv, MaxUnits
  <2>4. FilesInv' /\ RebootInv'
    BY <2>1, <2>2 DEF FilesInv, RebootInv, InScan, FlashPcs
  <2>5. PausedInv'
    <3>1. \A p \in Addressed : p[1] \in Nat \ {0} /\ p[2] \in Nat
      BY DrivesType DEF Addressed, MaxUnits
    <3>2. ASSUME pc' = "suspend", NEW p \in Addressed
          PROVE  ~Passed(p)'
      BY <2>1, <3>1, <3>2 DEF Passed
    <3> QED
      BY <2>1, <3>2 DEF PausedInv, FlashPcs
  <2> QED
    BY <2>3, <2>4, <2>5
<1> QED
  BY <1>1, <1>2, <1>3

\* A step of suspend_lide() passes only pairs it has dealt with.
LEMMA SuspendStep ==
  ASSUME IInv, SuspendLide \/ Suspended
  PROVE  IInv'
<1> USE DEF IInv
<1> DEFINE T(p) == TaskOf(p[1], p[2])
<1>0. /\ name \in Nat \ {0} /\ unit \in Nat /\ unit <= MaxUnits
      /\ \A p \in Addressed : /\ p[1] \in 1..Len(Drives) /\ p[2] \in 0..MaxUnits - 1
                              /\ p[1] \notin OldDrivers /\ p[2] \in Drives[p[1]]
                              /\ p[2] <= Max(Drives[p[1]])
  <2>1. name \in Nat \ {0} /\ unit \in Nat /\ unit <= MaxUnits
    BY DrivesType DEF FieldsInv, MaxUnits
  <2>2. \A d \in DOMAIN Drives : \A u \in Drives[d] : u <= Max(Drives[d])
    BY DrivesType, MaxIsLargest
  <2>3. \A p \in Addressed : /\ p[1] \in 1..Len(Drives) /\ p[2] \in 0..MaxUnits - 1
                             /\ p[1] \notin OldDrivers /\ p[2] \in Drives[p[1]]
    BY DrivesType DEF Addressed
  <2> QED
    BY <2>1, <2>2, <2>3, DrivesType
<1>1. ASSUME pc \in {"suspend", "resume"}, UNCHANGED pc,
             UNCHANGED <<boards, config, at, board, ideOff, files, refused, inhibited, skipped>>,
             name' \in 1..Len(Drives) + 1, unit' \in 0..MaxUnits
      PROVE  FieldsInv' /\ FilesInv' /\ RebootInv'
  BY <1>1 DEF FieldsInv, FilesInv, RebootInv, InScan, FlashPcs
<1>2. ASSUME SuspendLide, (NoSuchUnit \/ LastUnit)
      PROVE  IInv'
  <2>1. /\ pc \in {"suspend", "resume"}
        /\ UNCHANGED <<boards, config, pc, at, board, ideOff, files, refused, inhibited, skipped>>
        /\ UNCHANGED paused
    BY <1>2 DEF SuspendLide, boardVars, NoSuchUnit, LastUnit
  <2>2. name' \in 1..Len(Drives) + 1 /\ unit' \in 0..MaxUnits
    BY <1>2, <1>0, DrivesType DEF NoSuchUnit, LastUnit, Loaded, NextUnit, NextName, MaxUnits
  <2>3. ASSUME NEW p \in Addressed
        PROVE  Passed(p)' <=> Passed(p)
    <3>1. CASE NoSuchUnit
      <4>1. p[1] = name => p[2] # unit
        BY <3>1, <1>0 DEF NoSuchUnit
      <4> QED
        BY <3>1, <1>0, <4>1 DEF NoSuchUnit, NextUnit, Passed
    <3>2. CASE LastUnit
      <4>1. p[1] = name => p[2] < unit \/ unit > p[2]
        <5>1. CASE unit = MaxUnits
          BY <5>1, <1>0 DEF MaxUnits
        <5>2. CASE unit > Max(Drives[name])
          <6> SUFFICES ASSUME p[1] = name PROVE p[2] < unit
            BY <1>0
          <6>1. p[2] <= Max(Drives[name]) /\ p[2] \in 0..9 /\ p[2] \in Drives[name]
            BY <1>0 DEF MaxUnits
          <6>2. Max(Drives[name]) \in Int
            <7>1. Drives[name] \in SUBSET (0..9) /\ Drives[name] # {}
              BY <3>2, DrivesType DEF LastUnit, Loaded
            <7>2. Max(Drives[name]) \in Drives[name]
              BY <7>1, MaxIsLargest
            <7> QED
              BY <7>1, <7>2
          <6> QED
            BY <6>1, <6>2, <5>2, <1>0
        <5>3. CASE name \in OldDrivers /\ unit \in Drives[name]
          BY <5>3, <1>0
        <5> QED
          BY <3>2, <5>1, <5>2, <5>3 DEF LastUnit
      <4> QED
        BY <3>2, <1>0, <4>1 DEF LastUnit, NextName, Passed, MaxUnits
    <3> QED
      BY <1>2, <3>1, <3>2
  <2>4. PausedInv'
    BY <2>1, <2>3 DEF PausedInv, FlashPcs
  <2> QED
    BY <1>1, <2>1, <2>2, <2>4
<1>3. ASSUME SuspendLide, Command
      PROVE  IInv'
  <2>1. /\ pc \in {"suspend", "resume"}
        /\ UNCHANGED <<boards, config, pc, at, board, ideOff, files, refused, inhibited, skipped>>
        /\ pc = "suspend" => paused' = paused \cup {TaskOf(name, unit)}
        /\ pc = "resume" => paused' = paused \ {TaskOf(name, unit)}
        /\ name' = name /\ unit' = unit + 1 /\ unit < MaxUnits
    BY <1>3 DEF SuspendLide, boardVars, Command, NextUnit
  <2>2. name' \in 1..Len(Drives) + 1 /\ unit' \in 0..MaxUnits
    BY <2>1 DEF FieldsInv, MaxUnits
  <2>3. <<name, unit>> \in Addressed
    BY <1>3, <1>0, DrivesType DEF Command, Loaded, Addressed, MaxUnits
  <2>4. ASSUME NEW p \in Addressed
        PROVE  Passed(p)' <=> (Passed(p) \/ p = <<name, unit>>)
    <3>1. p = <<p[1], p[2]>>
      BY DEF Addressed
    <3> QED
      BY <2>1, <1>0, <3>1 DEF Passed, MaxUnits
  <2>5. PausedInv'
    <3>1. CASE pc = "suspend"
      <4>1. \A t \in paused' : \E p \in Addressed : t = TaskOf(p[1], p[2])
        <5>1. TaskOf(name, unit) = TaskOf(<<name, unit>>[1], <<name, unit>>[2])
          OBVIOUS
        <5> QED
          BY <2>1, <3>1, <2>3, <5>1 DEF PausedInv
      <4>2. \A p \in Addressed : Passed(p)' => TaskOf(p[1], p[2]) \in paused'
        <5>1. ASSUME NEW p \in Addressed, Passed(p)'
              PROVE  TaskOf(p[1], p[2]) \in paused'
          <6>1. CASE Passed(p)
            BY <6>1, <2>1, <3>1 DEF PausedInv
          <6>2. CASE p = <<name, unit>>
            BY <6>2, <2>1, <3>1
          <6> QED
            BY <5>1, <2>4, <6>1, <6>2
        <5> QED
          BY <5>1
      <4>3. ideOff # {} =>
              skipped \/ \A p \in Addressed : TaskOf(p[1], p[2]) \in paused'
        BY <2>1, <3>1 DEF PausedInv
      <4> QED
        BY <2>1, <3>1, <4>1, <4>2, <4>3 DEF PausedInv, FlashPcs
    <3>2. CASE pc = "resume"
      <4>1. ideOff = {}
        BY <3>2 DEF RebootInv, InScan, FlashPcs
      <4>2. ASSUME NEW t \in paused'
            PROVE  \E p \in Addressed : ~Passed(p)' /\ t = TaskOf(p[1], p[2])
        <5>1. t \in paused /\ t # TaskOf(name, unit)
          BY <2>1, <3>2
        <5>2. PICK p \in Addressed : ~Passed(p) /\ t = TaskOf(p[1], p[2])
          BY <5>1, <3>2 DEF PausedInv
        <5>3. p # <<name, unit>>
          BY <5>1, <5>2
        <5>4. ~Passed(p)'
          BY <2>4, <5>2, <5>3
        <5> QED
          BY <5>2, <5>4
      <4> QED
        BY <2>1, <3>2, <4>1, <4>2 DEF PausedInv, FlashPcs
    <3> QED
      BY <2>1, <3>1, <3>2
  <2> QED
    BY <1>1, <2>1, <2>2, <2>5
<1>4. CASE Suspended
  <2>1. /\ pc = "suspend" /\ ~Loaded /\ pc' = "enable"
        /\ UNCHANGED <<boards, config, quietVars, boardVars>>
    BY <1>4 DEF Suspended
  <2>2. FieldsInv'
    BY <2>1 DEF FieldsInv, quietVars, boardVars
  <2>3. FilesInv' /\ RebootInv'
    BY <2>1 DEF FilesInv, RebootInv, InScan, FlashPcs, quietVars, boardVars
  <2>4. PausedInv'
    <3>1. \A p \in Addressed : Passed(p)
      BY <2>1, <1>0, DrivesType DEF Loaded, Passed, FieldsInv
    <3>2. \A p \in Addressed : TaskOf(p[1], p[2]) \in paused
      BY <2>1, <3>1 DEF PausedInv
    <3>3. UNCHANGED <<paused, skipped, ideOff>>
      BY <2>1 DEF quietVars, boardVars
    <3> QED
      BY <2>1, <3>2, <3>3 DEF PausedInv
  <2> QED
    BY <2>2, <2>3, <2>4
<1> QED
  BY <1>2, <1>3, <1>4 DEF SuspendLide

\* The flash of a board is written, or left alone.
LEMMA FlashStep ==
  ASSUME IInv,
         \/ EnableFlash \/ BeginRom \/ NoRom \/ EraseBank \/ WriteBuf
         \/ BeginMisc \/ NoMisc
  PROVE  IInv'
<1> USE DEF IInv
<1>1. CASE EnableFlash
  <2>1. /\ pc = "enable" /\ pc' \in {"scan", "rom"}
        /\ config' = [config EXCEPT !.reboot = @ \/ board.rebootRequired]
        /\ ideOff' = IF board.rebootRequired THEN ideOff \cup {at} ELSE ideOff
        /\ UNCHANGED <<boards, at, board, quietVars>>
    BY <1>1, Zenon DEF EnableFlash
  <2>2. config' \in Request /\ (ideOff' # {} => config'.reboot)
    <3> DEFINE r == config.reboot \/ board.rebootRequired
    <3>1. config \in Request /\ board.rebootRequired \in BOOLEAN
      BY DEF FieldsInv
    <3>2. config' = [config EXCEPT !.reboot = r]
      BY <2>1
    <3>3. r \in BOOLEAN
      OBVIOUS
    <3>4. ideOff' # {} => r
      BY <2>1 DEF RebootInv
    <3> HIDE DEF r
    <3> QED
      BY <3>1, <3>2, <3>3, <3>4 DEF Request
  <2>3. FieldsInv'
    BY <2>1, <2>2 DEF FieldsInv, quietVars
  <2>4. FilesInv' /\ RebootInv'
    BY <2>1, <2>2 DEF FilesInv, RebootInv, InScan, FlashPcs, quietVars
  <2>5. PausedInv'
    BY <2>1 DEF PausedInv, FlashPcs, quietVars
  <2> QED
    BY <2>3, <2>4, <2>5
<1>2. ASSUME \/ BeginRom \/ NoRom \/ EraseBank \/ WriteBuf
             \/ BeginMisc \/ NoMisc
      PROVE  IInv'
  <2>1. /\ pc \in FlashPcs /\ pc' \in FlashPcs \cup {"scan"}
        /\ UNCHANGED <<boards, config, quietVars, boardVars>>
    BY <1>2 DEF BeginRom, NoRom, EraseBank, WriteBuf, BeginMisc, NoMisc, FlashPcs
  <2>2. FieldsInv'
    BY <2>1 DEF FieldsInv, quietVars, boardVars
  <2>3. FilesInv' /\ RebootInv'
    BY <2>1 DEF FilesInv, RebootInv, InScan, FlashPcs, quietVars, boardVars
  <2>4. PausedInv'
    BY <2>1 DEF PausedInv, FlashPcs, quietVars, boardVars
  <2> QED
    BY <2>2, <2>3, <2>4
<1> QED
  BY <1>1, <1>2

\* The reboot, or the way back: the tasks go again, then the file systems.
LEMMA FinishStep ==
  ASSUME IInv, Finish \/ Resumed
  PROVE  IInv'
<1> USE DEF IInv
<1>0. \A p \in Addressed : p[1] \in 1..Len(Drives) /\ p[2] \in Nat
  BY DrivesType DEF Addressed, MaxUnits
<1>1. CASE Finish
  <2>1. /\ pc = "finish"
        /\ \/ pc' = "rebooted" /\ UNCHANGED <<name, unit, skipped>>
           \/ ~config.reboot /\ pc' = "resume" /\ name' = 1 /\ unit' = 0 /\ UNCHANGED skipped
           \/ ~config.reboot /\ pc' = "resumed" /\ skipped' = TRUE /\ UNCHANGED <<name, unit>>
        /\ UNCHANGED <<boards, config, files, inhibited, paused, at, board, ideOff>>
    BY <1>1, Zenon DEF Finish, StartSuspend, boardVars
  <2>2. FieldsInv'
    BY <2>1, DrivesType DEF FieldsInv, MaxUnits
  <2>3. FilesInv' /\ RebootInv'
    BY <2>1 DEF FilesInv, RebootInv, InScan, FlashPcs
  <2>4. PausedInv'
    <3>1. ASSUME pc' = "resume", NEW p \in Addressed
          PROVE  ~Passed(p)'
      BY <2>1, <3>1, <1>0 DEF Passed
    <3> QED
      BY <2>1, <3>1 DEF PausedInv, FlashPcs
  <2> QED
    BY <2>2, <2>3, <2>4
<1>2. CASE Resumed
  <2>1. /\ pc = "resumed" \/ (pc = "resume" /\ ~Loaded)
        /\ pc' = "uninhibit" /\ files' \in SUBSET FileSystems
        /\ skipped' = (skipped \/ files' # FileSystems)
        /\ UNCHANGED <<boards, config, inhibited, name, unit, paused, at, board, ideOff>>
    BY <1>2 DEF Resumed, ListDevices, boardVars
  <2>2. FieldsInv'
    BY <2>1 DEF FieldsInv
  <2>3. FilesInv' /\ RebootInv'
    BY <2>1 DEF FilesInv, FieldsInv, RebootInv, InScan, FlashPcs
  <2>4. skipped \/ paused = {}
    <3>1. CASE pc = "resume" /\ ~Loaded
      <4>1. name = Len(Drives) + 1 /\ Len(Drives) \in Nat
        BY <3>1, DrivesType DEF Loaded, FieldsInv
      <4>2. \A p \in Addressed : Passed(p)
        BY <4>1, <1>0 DEF Passed
      <4> QED
        BY <3>1, <4>2 DEF PausedInv
    <3>2. CASE pc = "resumed"
      BY <3>2 DEF PausedInv
    <3> QED
      BY <2>1, <3>1, <3>2
  <2>5. PausedInv'
    BY <2>1, <2>4 DEF PausedInv, FlashPcs, RebootInv, InScan
  <2> QED
    BY <2>2, <2>3, <2>5
<1> QED
  BY <1>1, <1>2

-----------------------------------------------------------------------------

\* What main() knows of file systems, tasks and the reboot holds throughout.
THEOREM Invariance == Spec => []IInv
<1>1. Init => IInv
  BY InitIInv
<1>2. IInv /\ [Next]_vars => IInv'
  <2> SUFFICES ASSUME IInv, [Next]_vars PROVE IInv'
    OBVIOUS
  <2>1. CASE Next
    BY <2>1, FilesStep, BoardStep, SuspendStep, FlashStep, FinishStep DEF Next
  <2>2. CASE UNCHANGED vars
    <3>1. UNCHANGED <<boards, config, pc, quietVars, boardVars>>
      BY <2>2 DEF vars
    <3>2. FieldsInv' /\ FilesInv' /\ RebootInv'
      BY <3>1 DEF IInv, FieldsInv, FilesInv, RebootInv, quietVars, boardVars
    <3>3. PausedInv'
      BY <3>1 DEF IInv, PausedInv, Passed, quietVars, boardVars
    <3> QED
      BY <3>2, <3>3 DEF IInv
  <2> QED
    BY <2>1, <2>2
<1> QED
  BY <1>1, <1>2, PTL DEF Spec

\* While lideflash writes a chip, or the IDE of a board is off, no file system
\* that can be told so and no IO task it can pause uses a drive.
THEOREM QuietHolds == Spec => []Quiet
<1>1. IInv => Quiet
  <2> SUFFICES ASSUME IInv, pc \in FlashPcs \/ ideOff # {}, ~skipped
               PROVE  Able \subseteq inhibited /\ Pausable \subseteq paused
    BY DEF Quiet, Able
  <2>1. pc \in InScan
    BY DEF IInv, RebootInv, InScan
  <2>2. Able \subseteq inhibited
    BY <2>1 DEF IInv, FilesInv
  <2>3. \A p \in Addressed : TaskOf(p[1], p[2]) \in paused
    BY DEF IInv, PausedInv
  <2> QED
    BY <2>2, <2>3, PausableAddressed
<1> QED
  BY <1>1, Invariance, PTL

\* On each of its ways out but the reboot, lideflash has let every file system
\* and every IO task go again, and has turned off no IDE.
THEOREM RestoresAllHolds == Spec => []RestoresAll
<1>1. IInv => RestoresAll
  BY DEF IInv, FilesInv, PausedInv, RebootInv, RestoresAll, InScan, FlashPcs
<1> QED
  BY <1>1, Invariance, PTL

-----------------------------------------------------------------------------
(* What the flash holds.                                                      *)

\* A board the user agreed to is at hand.
Busy == {"suspend", "enable"} \cup FlashPcs

\* The program has been told to write, and the files fit.
PlanInv ==
  /\ refused \in BOOLEAN /\ skipped \in BOOLEAN
  /\ pc \in {"start", "scan", "prompt", "finish"} \cup QuietPcs \cup FlashPcs \cup EndPcs
  /\ pc \notin {"start", "exit"} => FilesFit(config)
  /\ chosen \subseteq 1..at /\ ideOff \subseteq 1..at
  /\ pc \in {"start", "inhibit", "giveUp"} => at = 0
  /\ pc = "prompt" => at \notin chosen
  /\ pc \in Busy => at \in chosen
  /\ pc \in Busy \cup {"prompt"} => at # 0 /\ board = Setup(boards[at])
  /\ pc \in FlashPcs \ {"enable"} => Chip # "unknown"

\* The bank that is shown is the one that is meant, and no loop leaves it.
ShownInv ==
  /\ pc = "rom" => flashbase = 0
  /\ pc \in {"rom", "misc"} => i = 0
  /\ pc \in {"eraseRom", "writeRom"} => Shown = 0 /\ config.rom # "none"
  /\ pc \in {"eraseMisc", "writeMisc"} => Shown = config.misc /\ config.misc # 0 /\ MiscFits
  /\ pc \in {"eraseRom", "eraseMisc"} => i <= Sectors /\ Chip = "sectors" /\ ~config.erase
  /\ pc \in {"writeRom", "writeMisc"} => i <= Len(Image)

Cell == {Old, Erased, Bad, Header, Pad, PastEnd}
          \cup ({"boot", "driver", "misc"} \X (1..BankSize))

CellsType ==
  /\ cells = [b \in DOMAIN boards |-> cells[b]]
  /\ \A b \in DOMAIN boards : cells[b] \in [Banks(boards[b]) -> [1..BankSize -> Cell]]

FlashType ==
  /\ board \in [bootrom : Types, bankSelect : Selects, rebootRequired : BOOLEAN, banks : {1, 2, 4}]
  /\ flashbase \in {0, 1}
  /\ bankReg \in [DOMAIN boards -> 0..3]
  /\ i \in 0..BankSize
  /\ CellsType

\* What Written says of one board.
RomDone(b) ==
  config.rom # "none" => Holds(b, 0, RomFile(Setup(boards[b]).bootrom, config.romSize))

MiscDone(b) ==
  config.misc \in Banks(boards[b]) \ {0} /\ (boards[b].chip = "sectors" \/ config.rom # "none")
    => Holds(b, config.misc, MiscFile(config.miscSize))

Done(b) == ~boards[b].worn /\ boards[b].chip # "unknown" => RomDone(b) /\ MiscDone(b)

DoneInv == \A b \in chosen : (b = at /\ pc \in Busy) \/ Done(b)

\* Everything is erased before the first bank is written.
Purged == config.erase \/ (Chip = "whole" /\ config.rom # "none")

Blank(k) == \A c \in 1..BankSize : cells[at][k][c] = Erased

\* How far erasing or writing bank k has come.
ErasedTo(k) == \A c \in 1..BankSize : (c - 1) \div SectorSize < i => cells[at][k][c] = Erased

WrittenTo(k, image) ==
  \A c \in 1..BankSize : cells[at][k][c] = IF c <= i THEN image[c] ELSE Erased

ProgressInv ==
  pc \in FlashPcs /\ ~boards[at].worn =>
    /\ pc = "rom" /\ config.erase => \A k \in Banks(boards[at]) : Blank(k)
    /\ pc \in {"writeRom", "misc"} /\ Purged => \A k \in Banks(boards[at]) \ {0} : Blank(k)
    /\ pc = "eraseRom" => ErasedTo(0)
    /\ pc = "writeRom" => WrittenTo(0, Image)
    /\ pc \in {"misc", "eraseMisc", "writeMisc"} => RomDone(at)
    /\ pc = "eraseMisc" => ErasedTo(config.misc)
    /\ pc = "writeMisc" => WrittenTo(config.misc, Image)

FlashInv ==
  PlanInv /\ ShownInv /\ FlashType /\ OnlyAskedBanks /\ DoneInv /\ ProgressInv

-----------------------------------------------------------------------------

\* Sectors divide a bank, and every cell of it lies in one of them.
LEMMA Sizes ==
  /\ BankSize \in Nat /\ BootSize \in 2..BankSize /\ SectorSize \in 1..BankSize
  /\ Sectors \in 0..BankSize
  /\ \A c \in 1..BankSize : (c - 1) \div SectorSize \in Nat /\ (c - 1) \div SectorSize < Sectors
<1>1. /\ BankSize \in Nat /\ BootSize \in 2..BankSize /\ SectorSize \in 1..BankSize
      /\ BankSize % SectorSize = 0
  BY ConstantsAssumption DEF ConstantsAssumption
<1>2. Sectors \in 0..BankSize
  BY <1>1 DEF Sectors
<1>3. \A c \in 1..BankSize : (c - 1) \div SectorSize \in Nat /\ (c - 1) \div SectorSize < Sectors
  BY <1>1 DEF Sectors
<1> QED
  BY <1>1, <1>2, <1>3

\* A function on 1..n is a sequence of that length.
LEMMA LenOf ==
  ASSUME NEW S, NEW n \in Nat, NEW s \in [1..n -> S]
  PROVE  Len(s) = n
<1>1. s \in Seq(S)
  BY SeqDef
<1>2. Len(s) \in Nat /\ DOMAIN s = 1..Len(s)
  BY <1>1, LenProperties
<1>3. 1..Len(s) = 1..n
  BY <1>2
<1> QED
  BY <1>2, <1>3

\* Either form of the ROM file becomes the form the board needs.
LEMMA Assembled ==
  ASSUME NEW from \in Types, NEW to \in Types, NEW n \in BootSize..BankSize
  PROVE  LET image == AssembleRom(RomFile(from, n), to)
             right == RomFile(to, n)
         IN  /\ image \in [1..n -> Cell] /\ Len(image) = n
             /\ DOMAIN right = 1..n /\ right # <<>>
             /\ \A c \in 1..n : image[c] = right[c] \/ (c = BootSize /\ right[1] = <<"boot", 1>>)
<1> DEFINE src == RomFile(from, n)
<1> DEFINE image == AssembleRom(src, to)
<1> DEFINE right == RomFile(to, n)
<1>0. BankSize \in Nat /\ BootSize \in 2..BankSize /\ n \in Nat /\ BootSize <= n /\ n <= BankSize
  BY Sizes
<1>1. /\ DOMAIN src = 1..n /\ DOMAIN right = 1..n
      /\ \A c \in 1..n : c > BootSize => src[c] = <<"driver", c - BootSize>> /\ right[c] = src[c]
  BY <1>0 DEF RomFile
<1>2. /\ from = "ATBUS" => /\ src[BootSize] = Pad
                           /\ \A c \in 1..n : c < BootSize => src[c] = <<"boot", c>>
      /\ from = "CIDER" => /\ src[1] = Header
                           /\ \A c \in 1..n : 1 < c /\ c <= BootSize => src[c] = <<"boot", c - 1>>
      /\ to = "ATBUS" => /\ right[BootSize] = Pad
                         /\ \A c \in 1..n : c < BootSize => right[c] = <<"boot", c>>
      /\ to = "CIDER" => /\ right[1] = Header
                         /\ \A c \in 1..n : 1 < c /\ c <= BootSize => right[c] = <<"boot", c - 1>>
  BY <1>0 DEF RomFile
<1>3. (IF src[1] = Header THEN "CIDER" ELSE "ATBUS") = from
  BY <1>0, <1>2 DEF Header, Types
<1>4. /\ DOMAIN image = 1..n
      /\ image = [c \in 1..n |-> image[c]]
      /\ \A c \in 1..n :
           /\ from = to \/ c > BootSize => image[c] = src[c]
           /\ from # to /\ c <= BootSize /\ to = "ATBUS" =>
                image[c] = IF c + 1 \in 1..n THEN src[c + 1] ELSE PastEnd
           /\ from # to /\ c <= BootSize /\ to = "CIDER" =>
                image[c] = IF c = 1 THEN Header ELSE src[c - 1]
  BY <1>0, <1>1, <1>3 DEF AssembleRom, Types
<1> HIDE DEF src, image, right
<1>5. ASSUME NEW c \in 1..n
      PROVE  src[c] \in Cell
  <2>1. CASE c > BootSize
    <3>1. c - BootSize \in 1..BankSize
      BY <2>1, <1>0
    <3>2. src[c] = <<"driver", c - BootSize>>
      BY <2>1, <1>1
    <3>3. <<"driver", c - BootSize>> \in {"boot", "driver", "misc"} \X (1..BankSize)
      BY <3>1
    <3> QED
      BY <3>2, <3>3 DEF Cell
  <2>2. CASE c <= BootSize /\ from = "ATBUS"
    <3>1. c \in 1..BankSize /\ (c < BootSize \/ c = BootSize)
      BY <2>2, <1>0
    <3> QED
      BY <2>2, <3>1, <1>2 DEF Cell
  <2>3. CASE c <= BootSize /\ from = "CIDER"
    <3>1. c = 1 \/ (1 < c /\ c - 1 \in 1..BankSize)
      BY <2>3, <1>0
    <3> QED
      BY <2>3, <3>1, <1>2 DEF Cell
  <2> QED
    BY <2>1, <2>2, <2>3, <1>0 DEF Types
<1>6. \A c \in 1..n : image[c] \in Cell
  BY <1>0, <1>4, <1>5 DEF Cell, Types
<1>7. image \in [1..n -> Cell]
  BY <1>4, <1>6
<1>8. Len(image) = n
  BY <1>0, <1>7, LenOf
<1>9. right # <<>>
  BY <1>0, <1>1
<1>10. ASSUME NEW c \in 1..n
       PROVE  image[c] = right[c] \/ (c = BootSize /\ right[1] = <<"boot", 1>>)
  <2>1. CASE from = to
    BY <2>1, <1>4 DEF src, right
  <2>2. CASE c > BootSize
    BY <2>2, <1>1, <1>4
  <2>3. CASE c <= BootSize /\ from = "CIDER" /\ to = "ATBUS"
    <3>1. c = BootSize \/ (c < BootSize /\ c + 1 \in 1..n /\ 1 < c + 1 /\ c + 1 <= BootSize)
      BY <2>3, <1>0
    <3>2. 1 \in 1..n /\ right[1] = <<"boot", 1>>
      BY <2>3, <1>0, <1>2
    <3>3. CASE c < BootSize
      <4>1. image[c] = src[c + 1] /\ src[c + 1] = <<"boot", (c + 1) - 1>>
        BY <2>3, <3>1, <3>3, <1>2, <1>4
      <4>2. right[c] = <<"boot", c>>
        BY <2>3, <3>3, <1>2
      <4> QED
        BY <4>1, <4>2, <1>0
    <3> QED
      BY <3>1, <3>2, <3>3
  <2>4. CASE c <= BootSize /\ from = "ATBUS" /\ to = "CIDER"
    <3>1. CASE c = 1
      BY <2>4, <3>1, <1>2, <1>4
    <3>2. CASE 1 < c
      <4>1. image[c] = src[c - 1] /\ right[c] = <<"boot", c - 1>>
        BY <2>4, <3>2, <1>2, <1>4
      <4>2. c - 1 \in 1..n /\ c - 1 < BootSize
        BY <2>4, <3>2, <1>0
      <4> QED
        BY <2>4, <4>1, <4>2, <1>2
    <3> QED
      BY <3>1, <3>2
  <2> QED
    BY <2>1, <2>2, <2>3, <2>4, <1>0 DEF Types
<1> QED
  BY <1>1, <1>7, <1>8, <1>9, <1>10 DEF src, image, right

LEMMA MiscImage ==
  ASSUME NEW n \in 0..BankSize
  PROVE  MiscFile(n) \in [1..n -> Cell] /\ Len(MiscFile(n)) = n
<1>1. MiscFile(n) \in [1..n -> Cell]
  BY Sizes DEF MiscFile, Cell
<1> QED
  BY <1>1, Sizes, LenOf

\* What a board is set up as.
LEMMA SetupFacts ==
  ASSUME NEW b
  PROVE  /\ Setup(b) \in [bootrom : Types, bankSelect : Selects, rebootRequired : BOOLEAN,
                          banks : {1, 2, 4}]
         /\ Setup(b).bootrom \in Types /\ Setup(b).banks \in {1, 2, 4}
         /\ 0 \in Banks(b) /\ Banks(b) = 0..Setup(b).banks - 1 /\ Banks(b) \subseteq 0..3
         /\ b.make # "MATZE" => Setup(b).bankSelect = "bankSelect"
         /\ b.make = "MATZE" => \/ Setup(b).bankSelect = "matzetk_bankSelect"
                                                 /\ Banks(b) = {0, 1}
                                \/ Setup(b).bankSelect = "NULL" /\ Banks(b) = {0}
<1>1. SetupLiv2(b) \in [bootrom : Types, bankSelect : Selects, rebootRequired : BOOLEAN,
                        banks : {1, 2, 4}]
  BY DEF SetupLiv2, Types, Selects
<1>2. SetupMatze(b) \in [bootrom : Types, bankSelect : Selects, rebootRequired : BOOLEAN,
                         banks : {1, 2, 4}]
  BY DEF SetupMatze, Types, Selects
<1>3. b.make = "MATZE" => \/ Setup(b).bankSelect = "matzetk_bankSelect" /\ Setup(b).banks = 2
                          \/ Setup(b).bankSelect = "NULL" /\ Setup(b).banks = 1
  BY DEF Setup, SetupMatze
<1>4. b.make # "MATZE" => Setup(b).bankSelect = "bankSelect"
  BY DEF Setup, SetupLiv2
<1>5. Setup(b) \in [bootrom : Types, bankSelect : Selects, rebootRequired : BOOLEAN,
                    banks : {1, 2, 4}]
  BY <1>1, <1>2 DEF Setup
<1>6. Setup(b).bootrom \in Types /\ Setup(b).banks \in {1, 2, 4}
  BY <1>5
<1>7. 0 \in Banks(b) /\ Banks(b) = 0..Setup(b).banks - 1 /\ Banks(b) \subseteq 0..3
  BY <1>6 DEF Banks
<1> QED
  BY <1>3, <1>4, <1>5, <1>6, <1>7

\* The image that is being written.
LEMMA ImageFacts ==
  ASSUME IInv, FlashInv, pc \in {"writeRom", "writeMisc"}
  PROVE  /\ Len(Image) \in 0..BankSize /\ Image \in [1..Len(Image) -> Cell]
         /\ pc = "writeRom" => /\ config.rom # "none" /\ config.romSize \in BootSize..BankSize
                               /\ Len(Image) = config.romSize
         /\ pc = "writeMisc" => Image = MiscFile(config.miscSize) /\ Len(Image) = config.miscSize
<1>1. config \in Request /\ FilesFit(config) /\ board.bootrom \in Types
  BY DEF IInv, FieldsInv, FlashInv, PlanInv, FlashType
<1>2. CASE pc = "writeRom"
  <2>1. config.rom \in Types /\ config.romSize \in BootSize..BankSize /\ config.rom # "none"
    BY <1>1, <1>2 DEF FlashInv, ShownInv, FilesFit, Request
  <2>2. Image = AssembleRom(RomFile(config.rom, config.romSize), board.bootrom)
    BY <1>2 DEF Image
  <2>3. Image \in [1..config.romSize -> Cell] /\ Len(Image) = config.romSize
    BY <1>1, <2>1, <2>2, Assembled
  <2> QED
    BY <1>2, <2>1, <2>3, Sizes
<1>3. CASE pc = "writeMisc"
  <2>1. config.miscSize \in 0..BankSize
    BY <1>1, <1>3, Sizes DEF FlashInv, ShownInv, FilesFit
  <2>2. Image = MiscFile(config.miscSize)
    BY <1>3 DEF Image
  <2> QED
    BY <1>3, <2>1, <2>2, MiscImage
<1> QED
  BY <1>2, <1>3

\* When the image is written, its bank is as it was asked for.
LEMMA RomWritten ==
  ASSUME IInv, FlashInv, pc = "writeRom", i = Len(Image), WrittenTo(0, Image)
  PROVE  RomDone(at)
<1>1. /\ config \in Request /\ board = Setup(boards[at]) /\ config.rom \in Types
      /\ config.romSize \in BootSize..BankSize /\ i = config.romSize
  BY ImageFacts DEF IInv, FieldsInv, FlashInv, PlanInv, FlashPcs, Busy, Request
<1> DEFINE right == RomFile(board.bootrom, config.romSize)
<1>2. board.bootrom \in Types
  BY DEF FlashInv, FlashType
<1>3. /\ DOMAIN right = 1..config.romSize /\ right # <<>>
      /\ \A c \in 1..config.romSize :
           Image[c] = right[c] \/ (c = BootSize /\ right[1] = <<"boot", 1>>)
  BY <1>1, <1>2, Assembled DEF Image
<1> HIDE DEF right
<1>4. ASSUME NEW c \in 1..BankSize
      PROVE  \/ cells[at][0][c] = IF c \in DOMAIN right THEN right[c] ELSE Erased
             \/ c = BootSize /\ right # <<>> /\ right[1] = <<"boot", 1>>
  <2>1. c \in 1..config.romSize <=> c <= i
    BY <1>1, Sizes
  <2>2. cells[at][0][c] = IF c <= i THEN Image[c] ELSE Erased
    BY DEF WrittenTo
  <2> QED
    BY <1>3, <2>1, <2>2
<1>5. Holds(at, 0, right)
  BY <1>4 DEF Holds
<1> QED
  BY <1>1, <1>5 DEF RomDone, right

LEMMA MiscWritten ==
  ASSUME IInv, FlashInv, pc = "writeMisc", i = Len(Image), WrittenTo(config.misc, Image)
  PROVE  MiscDone(at)
<1>1. /\ Image = MiscFile(config.miscSize) /\ i = config.miscSize
      /\ config.miscSize \in 0..BankSize /\ DOMAIN Image = 1..config.miscSize
  BY ImageFacts
<1>2. ASSUME NEW c \in 1..BankSize
      PROVE  cells[at][config.misc][c] = IF c \in DOMAIN Image THEN Image[c] ELSE Erased
  <2>1. c \in DOMAIN Image <=> c <= i
    BY <1>1, Sizes
  <2> QED
    BY <2>1 DEF WrittenTo
<1> QED
  BY <1>1, <1>2 DEF MiscDone, Holds

\* BankSelect() shows the bank it was called with.
LEMMA Selected ==
  ASSUME FlashType, at \in DOMAIN boards, board = Setup(boards[at]),
         NEW k \in Banks(boards[at]), k = 0 => flashbase = 0,
         BankSelect(k), UNCHANGED <<boards, at>>
  PROVE  /\ Shown' = k
         /\ bankReg' \in [DOMAIN boards -> 0..3] /\ flashbase' \in {0, 1}
<1>1. k \in 0..3 /\ bankReg \in [DOMAIN boards -> 0..3] /\ flashbase \in {0, 1}
  BY SetupFacts DEF FlashType
<1>2. CASE boards[at].make # "MATZE"
  <2>1. bankReg' = [bankReg EXCEPT ![at] = k] /\ flashbase' = flashbase
    BY <1>2, SetupFacts DEF BankSelect
  <2>2. bankReg'[at] = k
    BY <1>1, <2>1
  <2> QED
    BY <1>1, <1>2, <2>1, <2>2 DEF Shown, Window
<1>3. CASE boards[at].make = "MATZE"
  <2>1. bankReg' = bankReg
    BY <1>3, SetupFacts DEF BankSelect
  <2>2. CASE board.bankSelect = "matzetk_bankSelect"
    <3>1. flashbase' = k /\ k \in {0, 1}
      BY <1>3, <2>2, SetupFacts DEF BankSelect
    <3> QED
      BY <1>1, <1>3, <2>1, <3>1 DEF Shown, Window
  <2>3. CASE board.bankSelect = "NULL"
    <3>1. flashbase' = 0 /\ k = 0
      BY <1>3, <2>3, SetupFacts DEF BankSelect
    <3> QED
      BY <1>1, <1>3, <2>1, <3>1 DEF Shown, Window
  <2> QED
    BY <1>3, <2>2, <2>3, SetupFacts
<1> QED
  BY <1>2, <1>3

\* What the user asked for stays what it was.
SameFiles ==
  /\ config'.rom = config.rom /\ config'.romSize = config.romSize
  /\ config'.misc = config.misc /\ config'.miscSize = config.miscSize
  /\ config'.erase = config.erase

LEMMA DoneFrame ==
  ASSUME UNCHANGED boards, SameFiles, NEW b, cells'[b] = cells[b], Done(b)
  PROVE  Done(b)'
<1>1. \A k, image : Holds(b, k, image) => Holds(b, k, image)'
  BY DEF Holds
<1> QED
  BY <1>1 DEF Done, RomDone, MiscDone, SameFiles

\* The flash stays as it is while nothing is written.
LEMMA CalmStep ==
  ASSUME FlashInv, UNCHANGED <<flashVars, boards>>, SameFiles, PlanInv',
         board' \in [bootrom : Types, bankSelect : Selects, rebootRequired : BOOLEAN,
                     banks : {1, 2, 4}],
         pc' \notin FlashPcs \ {"enable"}, chosen \subseteq chosen',
         \A b \in chosen' : (b = at' /\ pc' \in Busy) \/ (b \in chosen /\ Done(b))
  PROVE  FlashInv'
<1>1. UNCHANGED <<flashbase, bankReg, i, cells, boards>>
  BY DEF flashVars
<1>2. ShownInv' /\ ProgressInv'
  BY DEF ShownInv, ProgressInv, FlashPcs
<1>3. FlashType'
  BY <1>1 DEF FlashInv, FlashType, CellsType
<1>4. OnlyAskedBanks'
  BY <1>1 DEF FlashInv, OnlyAskedBanks, SameFiles
<1>5. DoneInv'
  BY <1>1, DoneFrame DEF DoneInv
<1> QED
  BY <1>2, <1>3, <1>4, <1>5 DEF FlashInv

\* Before anything is written, and after it.
LEMMA CalmFiles ==
  ASSUME IInv, FlashInv,
         \/ ReadFiles \/ AllAsked \/ Exit \/ Finish \/ Resumed
         \/ \E f \in FileSystems : Inhibit(f) \/ Uninhibit(f)
  PROVE  FlashInv'
<1>0. refused \in BOOLEAN /\ skipped \in BOOLEAN /\ PlanInv /\ at \in Nat
  BY DEF FlashInv, PlanInv, IInv, FieldsInv
<1>1. UNCHANGED <<boards, config, flashVars, boardVars>>
  BY DEF ReadFiles, AllAsked, Exit, Finish, Resumed, Inhibit, Uninhibit
<1>2. refused' \in BOOLEAN /\ skipped' \in BOOLEAN
  <2>1. \A listed : (skipped \/ listed # FileSystems) \in BOOLEAN
    OBVIOUS
  <2>2. \A then, listed : \A failed \in BOOLEAN :
          ListDevices(then, listed, failed) => refused' \in BOOLEAN /\ skipped' \in BOOLEAN
    BY <2>1, Zenon DEF ListDevices
  <2>3. TRUE \in BOOLEAN
    OBVIOUS
  <2> QED
    BY <1>0, <2>2, <2>3, Zenon
    DEF ReadFiles, AllAsked, Exit, Finish, Resumed, Inhibit, Uninhibit, StartSuspend, quietVars
<1>3. /\ pc' \in {"inhibit", "exit", "scan", "finish", "giveUp", "rebooted", "resume",
                 "resumed", "uninhibit"}
      /\ pc' \notin {"inhibit", "exit", "giveUp"} => pc # "start"
      /\ pc' \in {"inhibit", "giveUp"} => pc \in {"start", "inhibit", "giveUp"}
      /\ pc \notin FlashPcs \cup {"suspend", "prompt"}
      /\ pc' \notin {"start", "exit"} => FilesFit(config)
      /\ UNCHANGED <<boards, config>>
  <2>1. pc # "start" /\ pc # "exit" => FilesFit(config)
    BY <1>0 DEF PlanInv
  <2> QED
    BY <2>1 DEF ReadFiles, AllAsked, Exit, Finish, Resumed, Inhibit, Uninhibit, ListDevices,
        StartSuspend, FlashPcs
<1>4. PlanInv'
  <2>1. UNCHANGED <<at, chosen, ideOff, board>>
    BY <1>1 DEF boardVars
  <2>2. FilesFit(config)' <=> FilesFit(config)
    BY <1>3 DEF FilesFit
  <2> QED
    BY <1>0, <1>2, <1>3, <2>1, <2>2 DEF PlanInv, Busy, FlashPcs, QuietPcs, EndPcs
<1> QED
  BY <1>1, <1>3, <1>4, CalmStep
  DEF SameFiles, boardVars, Busy, FlashInv, FlashType, DoneInv, FlashPcs

LEMMA CalmBoards ==
  ASSUME IInv, FlashInv,
         \/ NextBoard \/ NoMoreBoards \/ Decline \/ SuspendLide \/ Suspended
         \/ \E all \in BOOLEAN : Agree(all)
  PROVE  FlashInv'
<1>0. /\ refused \in BOOLEAN /\ skipped \in BOOLEAN /\ PlanInv /\ at \in 0..Len(boards)
      /\ Len(boards) \in Nat /\ config \in Request
      /\ DoneInv /\ FlashType
  BY ConstantsAssumption DEF FlashInv, PlanInv, IInv, FieldsInv, ConstantsAssumption
<1>1. CASE NextBoard
  <2>1. /\ pc = "scan" /\ at' = at + 1 /\ at < Len(boards)
        /\ \/ pc' = "prompt" /\ board' = Setup(boards[at + 1])
           \/ pc' = "scan" /\ board' = board
        /\ UNCHANGED <<boards, config, chosen, ideOff, flashVars, refused, skipped>>
    BY <1>1 DEF NextBoard, quietVars
  <2>2. FilesFit(config)'
    BY <1>0, <2>1 DEF PlanInv, FilesFit
  <2>3. PlanInv'
    BY <1>0, <2>1, <2>2 DEF PlanInv, Busy, FlashPcs, QuietPcs, EndPcs
  <2>4. board' \in [bootrom : Types, bankSelect : Selects, rebootRequired : BOOLEAN,
                    banks : {1, 2, 4}]
    BY <1>0, <2>1, SetupFacts DEF FlashType
  <2> QED
    BY <1>0, <2>1, <2>3, <2>4, CalmStep DEF SameFiles, DoneInv, Busy, FlashPcs
<1>2. CASE NoMoreBoards \/ Decline \/ SuspendLide \/ Suspended
  <2>1. /\ \/ pc = "scan" /\ pc' = "finish"
           \/ pc = "prompt" /\ pc' = "scan"
           \/ pc \in {"suspend", "resume"} /\ pc' = pc
           \/ pc = "suspend" /\ pc' = "enable"
        /\ UNCHANGED <<boards, config, at, board, chosen, ideOff, flashVars, refused, skipped>>
    BY <1>2 DEF NoMoreBoards, Decline, SuspendLide, Suspended, quietVars, boardVars
  <2>2. FilesFit(config)'
    BY <1>0, <2>1 DEF PlanInv, FilesFit
  <2>3. PlanInv'
    BY <1>0, <2>1, <2>2 DEF PlanInv, Busy, FlashPcs, QuietPcs, EndPcs
  <2>4. board' \in [bootrom : Types, bankSelect : Selects, rebootRequired : BOOLEAN,
                    banks : {1, 2, 4}]
    BY <1>0, <2>1 DEF FlashType
  <2> QED
    BY <1>0, <2>1, <2>3, <2>4, CalmStep DEF SameFiles, DoneInv, Busy, FlashPcs, PlanInv
<1>3. ASSUME NEW all \in BOOLEAN, Agree(all)
      PROVE  FlashInv'
  <2>1. /\ pc = "prompt" /\ pc' \in {"suspend", "enable"}
        /\ config' = [config EXCEPT !.yes = @ \/ all] /\ chosen' = chosen \cup {at}
        /\ skipped' = skipped \/ skipped' = TRUE
        /\ UNCHANGED <<boards, at, board, ideOff, flashVars, refused>>
    BY <1>3, Zenon DEF Agree, StartSuspend
  <2>2. SameFiles
    <3> DEFINE y == config.yes \/ all
    <3>1. config' = [config EXCEPT !.yes = y]
      BY <2>1
    <3> HIDE DEF y
    <3> QED
      BY <1>0, <3>1 DEF SameFiles, Request
  <2>3. FilesFit(config)'
    BY <1>0, <2>1, <2>2 DEF PlanInv, FilesFit, SameFiles
  <2>4. skipped' \in BOOLEAN
    <3>1. TRUE \in BOOLEAN
      OBVIOUS
    <3> QED
      BY <1>0, <2>1, <3>1, Zenon
  <2>5. PlanInv'
    BY <1>0, <2>1, <2>3, <2>4 DEF PlanInv, Busy, FlashPcs, QuietPcs, EndPcs
  <2>6. board' \in [bootrom : Types, bankSelect : Selects, rebootRequired : BOOLEAN,
                    banks : {1, 2, 4}]
    BY <1>0, <2>1 DEF FlashType
  <2> QED
    BY <1>0, <2>1, <2>2, <2>5, <2>6, CalmStep DEF DoneInv, Busy, FlashPcs, PlanInv
<1> QED
  BY <1>1, <1>2, <1>3

\* Changing one bank changes nothing else.
LEMMA OneBank ==
  ASSUME CellsType, at \in DOMAIN boards, UNCHANGED boards,
         NEW k \in Banks(boards[at]), NEW f \in [1..BankSize -> Cell],
         cells' = [cells EXCEPT ![at][k] = f]
  PROVE  /\ CellsType' /\ cells'[at][k] = f
         /\ \A j \in Banks(boards[at]) \ {k} : cells'[at][j] = cells[at][j]
         /\ \A b \in DOMAIN boards \ {at} : cells'[b] = cells[b]
<1> DEFINE g == [cells[at] EXCEPT ![k] = f]
<1>1. cells' = [cells EXCEPT ![at] = g]
  OBVIOUS
<1>2. cells[at] \in [Banks(boards[at]) -> [1..BankSize -> Cell]] /\ DOMAIN cells = DOMAIN boards
  BY DEF CellsType
<1>3. /\ g \in [Banks(boards[at]) -> [1..BankSize -> Cell]] /\ g[k] = f
      /\ \A j \in Banks(boards[at]) \ {k} : g[j] = cells[at][j]
  BY <1>2
<1> HIDE DEF g
<1>4. /\ cells'[at] = g /\ DOMAIN cells' = DOMAIN boards
      /\ cells' = [b \in DOMAIN cells' |-> cells'[b]]
      /\ \A b \in DOMAIN boards \ {at} : cells'[b] = cells[b]
  BY <1>1, <1>2
<1>5. CellsType'
  BY <1>3, <1>4 DEF CellsType
<1> QED
  BY <1>3, <1>4, <1>5

LEMMA AllBanks ==
  ASSUME CellsType, at \in DOMAIN boards, UNCHANGED <<boards, at>>, EraseChip
  PROVE  /\ CellsType' /\ \A k \in Banks(boards[at]) : Blank(k)'
         /\ \A b \in DOMAIN boards \ {at} : cells'[b] = cells[b]
<1> DEFINE g == [k \in Banks(boards[at]) |-> [c \in 1..BankSize |-> Erased]]
<1>1. cells[at] \in [Banks(boards[at]) -> [1..BankSize -> Cell]] /\ DOMAIN cells = DOMAIN boards
  BY DEF CellsType
<1>2. cells' = [cells EXCEPT ![at] = g]
  BY <1>1 DEF EraseChip
<1>3. /\ g \in [Banks(boards[at]) -> [1..BankSize -> Cell]]
      /\ \A k \in Banks(boards[at]), c \in 1..BankSize : g[k][c] = Erased
  BY DEF Cell
<1> HIDE DEF g
<1>4. /\ cells'[at] = g /\ DOMAIN cells' = DOMAIN boards
      /\ cells' = [b \in DOMAIN cells' |-> cells'[b]]
      /\ \A b \in DOMAIN boards \ {at} : cells'[b] = cells[b]
  BY <1>1, <1>2
<1>5. CellsType'
  BY <1>3, <1>4 DEF CellsType
<1>6. \A k \in Banks(boards[at]) : Blank(k)'
  BY <1>3, <1>4 DEF Blank
<1> QED
  BY <1>4, <1>5, <1>6

\* A step that writes touches the board at hand only, in banks that are meant.
LEMMA FlashMoves ==
  ASSUME FlashInv, UNCHANGED <<boards, board, at, chosen>>, SameFiles, PlanInv',
         pc \in FlashPcs, pc' \in FlashPcs \cup {"scan"}, pc' = "scan" => Done(at)',
         ShownInv', ProgressInv', CellsType',
         bankReg' \in [DOMAIN boards -> 0..3], flashbase' \in {0, 1}, i' \in 0..BankSize,
         at \in DOMAIN boards, chosen \subseteq DOMAIN boards,
         \A b \in DOMAIN boards \ {at} : cells'[b] = cells[b],
         \A k \in Banks(boards[at]) :
           \/ cells'[at][k] = cells[at][k]
           \/ config.erase
           \/ config.rom # "none" /\ (k = 0 \/ Chip = "whole")
           \/ config.misc = k /\ k # 0
  PROVE  FlashInv'
<1>1. FlashType'
  BY DEF FlashInv, FlashType
<1>2. at \in chosen
  BY DEF FlashInv, PlanInv, Busy
<1>3. OnlyAskedBanks'
  BY <1>2 DEF FlashInv, OnlyAskedBanks, SameFiles, Chip
<1>4. DoneInv'
  <2>1. ASSUME NEW b \in chosen, b # at PROVE Done(b)'
    BY <2>1, DoneFrame DEF FlashInv, DoneInv
  <2> QED
    BY <2>1 DEF DoneInv, Busy
<1> QED
  BY <1>1, <1>3, <1>4 DEF FlashInv

\* What is known while a board is written.
LEMMA AtHand ==
  ASSUME IInv, FlashInv, pc \in FlashPcs
  PROVE  /\ at \in DOMAIN boards /\ chosen \subseteq DOMAIN boards
         /\ board = Setup(boards[at]) /\ boards[at] \in Board
         /\ pc # "enable" => Chip \in {"sectors", "whole"}
         /\ config \in Request /\ FilesFit(config)
         /\ refused \in BOOLEAN /\ skipped \in BOOLEAN
         /\ CellsType /\ bankReg \in [DOMAIN boards -> 0..3] /\ flashbase \in {0, 1}
         /\ i \in 0..BankSize
<1>1. /\ boards \in Seq(Board) /\ at \in 0..Len(boards) /\ config \in Request
  BY ConstantsAssumption DEF IInv, FieldsInv, ConstantsAssumption
<1>2. /\ at # 0 /\ board = Setup(boards[at]) /\ chosen \subseteq 1..at
      /\ (pc # "enable" => Chip # "unknown") /\ FilesFit(config)
      /\ refused \in BOOLEAN /\ skipped \in BOOLEAN
  BY DEF FlashInv, PlanInv, Busy, FlashPcs
<1>3. at \in DOMAIN boards /\ chosen \subseteq DOMAIN boards /\ boards[at] \in Board
  BY <1>1, <1>2
<1>4. Chip \in {"sectors", "whole", "unknown"}
  BY <1>3 DEF Chip, Board
<1> QED
  BY <1>1, <1>2, <1>3, <1>4 DEF FlashInv, FlashType

\* writeEnable() and flash_init().
LEMMA EnableStep == ASSUME IInv, FlashInv, EnableFlash PROVE FlashInv'
<1>0. /\ pc = "enable" /\ pc \in FlashPcs /\ flashbase' = 0 /\ i' = 0
      /\ config' = [config EXCEPT !.reboot = @ \/ board.rebootRequired]
      /\ ideOff' = IF board.rebootRequired THEN ideOff \cup {at} ELSE ideOff
      /\ UNCHANGED <<boards, bankReg, at, board, chosen, quietVars>>
      /\ \/ Chip = "unknown" /\ pc' = "scan" /\ UNCHANGED cells
         \/ Chip # "unknown" /\ pc' = "rom" /\ config.erase /\ EraseChip
         \/ Chip # "unknown" /\ pc' = "rom" /\ ~config.erase /\ UNCHANGED cells
  BY Zenon DEF EnableFlash, FlashPcs
<1>1. SameFiles
  <2> DEFINE y == config.reboot \/ board.rebootRequired
  <2>1. config' = [config EXCEPT !.reboot = y] /\ config \in Request
    BY <1>0, AtHand
  <2> HIDE DEF y
  <2> QED
    BY <2>1 DEF SameFiles, Request
<1>2. PlanInv'
  <2>1. FilesFit(config)'
    BY <1>0, <1>1, AtHand DEF FilesFit, SameFiles
  <2>2. /\ at \in chosen /\ at # 0 /\ board = Setup(boards[at])
        /\ chosen \subseteq 1..at /\ ideOff \subseteq 1..at /\ at \in Nat
    BY <1>0 DEF FlashInv, PlanInv, Busy, IInv, FieldsInv
  <2>3. ideOff' \subseteq 1..at
    BY <1>0, <2>2
  <2>4. UNCHANGED <<refused, skipped>> /\ Chip' = Chip
    BY <1>0 DEF quietVars, Chip
  <2> QED
    BY <1>0, <2>1, <2>2, <2>3, <2>4, AtHand DEF PlanInv, Busy, FlashPcs
<1>3. ShownInv'
  BY <1>0 DEF ShownInv
<1>4. CellsType' /\ (\A b \in DOMAIN boards \ {at} : cells'[b] = cells[b]) /\ ProgressInv'
  <2>1. CASE UNCHANGED cells /\ (pc' = "scan" \/ ~config.erase)
    BY <1>0, <1>1, <2>1, AtHand DEF CellsType, ProgressInv, FlashPcs, SameFiles
  <2>2. CASE EraseChip /\ pc' = "rom"
    BY <1>0, <1>1, <2>2, AtHand, AllBanks DEF ProgressInv, FlashPcs, SameFiles
  <2> QED
    BY <1>0, <2>1, <2>2
<1>5. pc' = "scan" => Done(at)'
  BY <1>0 DEF Done, Chip
<1> QED
  BY <1>0, <1>1, <1>2, <1>3, <1>4, <1>5, AtHand, Sizes, FlashMoves DEF FlashPcs

\* While the board at hand is written, main() changes nothing else.
LEMMA PlanKept ==
  ASSUME IInv, FlashInv, pc \in FlashPcs \ {"enable"},
         pc' \in (FlashPcs \ {"enable"}) \cup {"scan"},
         UNCHANGED <<boards, config, quietVars, boardVars>>
  PROVE  PlanInv'
<1>1. UNCHANGED <<boards, config, refused, skipped, at, board, chosen, ideOff>>
  BY DEF quietVars, boardVars
<1>2. FilesFit(config)' /\ Chip' = Chip
  BY <1>1, AtHand DEF FilesFit, Chip
<1>3. /\ at \in chosen /\ at # 0 /\ Chip # "unknown"
      /\ chosen \subseteq 1..at /\ ideOff \subseteq 1..at
  BY DEF FlashInv, PlanInv, Busy
<1> QED
  BY <1>1, <1>2, <1>3, AtHand DEF PlanInv, Busy, FlashPcs

\* The bank for the ROM is selected, and erased if need be.
LEMMA BeginRomStep == ASSUME IInv, FlashInv, BeginRom PROVE FlashInv'
<1>0. /\ pc = "rom" /\ pc \in FlashPcs /\ config.rom # "none" /\ BankSelect(0)
      /\ \/ config.erase /\ pc' = "writeRom" /\ UNCHANGED cells
         \/ ~config.erase /\ Chip = "sectors" /\ pc' = "eraseRom" /\ UNCHANGED cells
         \/ ~config.erase /\ Chip = "whole" /\ pc' = "writeRom" /\ EraseChip
      /\ UNCHANGED <<boards, config, i, quietVars, boardVars>>
      /\ UNCHANGED <<at, board, chosen, ideOff>>
  BY DEF BeginRom, FlashPcs, boardVars
<1>1. i = 0 /\ flashbase = 0
  BY <1>0 DEF FlashInv, ShownInv
<1>2. /\ Shown' = 0 /\ bankReg' \in [DOMAIN boards -> 0..3] /\ flashbase' \in {0, 1}
  BY <1>0, <1>1, AtHand, SetupFacts, Selected DEF FlashInv
<1>3. SameFiles /\ Chip' = Chip
  BY <1>0 DEF SameFiles, Chip
<1>4. PlanInv'
  BY <1>0, PlanKept DEF FlashPcs
<1>5. ShownInv'
  <2>1. pc' = "writeRom" => Len(Image)' \in Nat
    <3> SUFFICES ASSUME pc' = "writeRom" PROVE Len(Image)' \in Nat
      OBVIOUS
    <3>1. Image' = AssembleRom(RomFile(config.rom, config.romSize), board.bootrom)
      BY <1>0 DEF Image
    <3>2. config.rom \in Types /\ config.romSize \in BootSize..BankSize
      BY <1>0, AtHand DEF FilesFit, Request
    <3>3. board.bootrom \in Types
      BY <1>0, AtHand, SetupFacts
    <3>4. Len(Image') = config.romSize
      BY <3>1, <3>2, <3>3, Assembled
    <3> QED
      BY <3>2, <3>4, Sizes
  <2> QED
    BY <1>0, <1>1, <1>2, <1>3, <2>1, Sizes DEF ShownInv
<1>6. /\ CellsType' /\ (\A b \in DOMAIN boards \ {at} : cells'[b] = cells[b])
      /\ EraseChip \/ UNCHANGED cells
  <2>1. CASE UNCHANGED cells
    BY <1>0, <2>1, AtHand DEF CellsType
  <2>2. CASE EraseChip
    BY <1>0, <2>2, AtHand, AllBanks
  <2> QED
    BY <1>0, <2>1, <2>2
<1>7. ProgressInv'
  <2> SUFFICES ASSUME ~boards[at].worn PROVE ProgressInv'
    BY <1>0 DEF ProgressInv
  <2>1. pc' = "writeRom" => \A k \in Banks(boards[at]) : Blank(k)'
    <3>1. CASE EraseChip
      BY <3>1, <1>0, AtHand, AllBanks
    <3>2. CASE config.erase /\ UNCHANGED cells
      <4>1. \A k \in Banks(boards[at]) : Blank(k)
        BY <3>2, <1>0 DEF FlashInv, ProgressInv
      <4> QED
        BY <3>2, <4>1, <1>0 DEF Blank
    <3> QED
      BY <1>0, <3>1, <3>2
  <2>2. pc' = "writeRom" => WrittenTo(0, Image)'
    <3> SUFFICES ASSUME pc' = "writeRom" PROVE WrittenTo(0, Image)'
      OBVIOUS
    <3>1. 0 \in Banks(boards[at])
      BY SetupFacts
    <3>2. Blank(0)'
      BY <2>1, <3>1
    <3>3. i' = 0 /\ \A c \in 1..BankSize : ~(c <= 0)
      BY <1>0, <1>1, Sizes
    <3> QED
      BY <3>2, <3>3 DEF WrittenTo, Blank
  <2>3. pc' = "eraseRom" => ErasedTo(0)'
    BY <1>0, <1>1, Sizes DEF ErasedTo
  <2> QED
    BY <1>0, <2>1, <2>2, <2>3 DEF ProgressInv
<1>8. \A k \in Banks(boards[at]) : cells'[at][k] = cells[at][k] \/ config.erase \/ Chip = "whole"
  BY <1>0
<1> QED
  BY <1>0, <1>1, <1>2, <1>3, <1>4, <1>5, <1>6, <1>7, <1>8, AtHand, Sizes, FlashMoves DEF FlashPcs

LEMMA NoRomStep == ASSUME IInv, FlashInv, NoRom PROVE FlashInv'
<1>0. /\ pc = "rom" /\ pc \in FlashPcs /\ config.rom = "none" /\ pc' = "misc"
      /\ UNCHANGED <<boards, config, flashVars, quietVars, boardVars>>
      /\ UNCHANGED <<at, board, chosen, ideOff, flashbase, bankReg, i, cells>>
  BY DEF NoRom, FlashPcs, boardVars, flashVars
<1>1. i = 0 /\ SameFiles
  BY <1>0 DEF FlashInv, ShownInv, SameFiles
<1>2. PlanInv' /\ ShownInv' /\ CellsType'
  BY <1>0, <1>1, PlanKept, AtHand DEF ShownInv, CellsType, FlashPcs
<1>3. ProgressInv'
  <2> SUFFICES ASSUME ~boards[at].worn PROVE ProgressInv'
    BY <1>0 DEF ProgressInv
  <2>1. Purged' => \A k \in Banks(boards[at]) : Blank(k)'
    BY <1>0 DEF FlashInv, ProgressInv, Purged, Blank
  <2>2. RomDone(at)'
    BY <1>0 DEF RomDone
  <2> QED
    BY <1>0, <2>1, <2>2 DEF ProgressInv
<1> QED
  BY <1>0, <1>1, <1>2, <1>3, AtHand, FlashMoves DEF FlashPcs

\* The misc bank is selected, and erased if it has not been.
LEMMA BeginMiscStep == ASSUME IInv, FlashInv, BeginMisc PROVE FlashInv'
<1>0. /\ pc = "misc" /\ pc \in FlashPcs /\ config.misc # 0 /\ MiscFits
      /\ BankSelect(config.misc)
      /\ pc' = IF ~config.erase /\ Chip = "sectors" THEN "eraseMisc" ELSE "writeMisc"
      /\ UNCHANGED <<boards, config, i, cells, quietVars, boardVars>>
      /\ UNCHANGED <<at, board, chosen, ideOff>>
  BY DEF BeginMisc, FlashPcs, boardVars
<1>1. /\ i = 0 /\ SameFiles /\ Chip' = Chip /\ MiscFits'
  BY <1>0 DEF FlashInv, ShownInv, SameFiles, Chip, MiscFits
<1>2. config.misc \in Banks(boards[at]) /\ config.misc \in 0..3
  BY <1>0, AtHand, SetupFacts DEF MiscFits, Request
<1>3. Shown' = config.misc /\ bankReg' \in [DOMAIN boards -> 0..3] /\ flashbase' \in {0, 1}
  BY <1>0, <1>2, AtHand, Selected DEF FlashInv
<1>4. PlanInv'
  BY <1>0, PlanKept DEF FlashPcs
<1>5. ShownInv'
  <2>1. pc' = "writeMisc" => Len(Image)' \in Nat
    <3>1. config.miscSize \in 0..BankSize
      BY <1>0, AtHand, Sizes DEF FilesFit
    <3>2. pc' = "writeMisc" => Image' = MiscFile(config.miscSize)
      BY <1>0 DEF Image
    <3> QED
      BY <3>1, <3>2, MiscImage, Sizes
  <2> QED
    BY <1>0, <1>1, <1>3, <2>1, Sizes DEF ShownInv
<1>6. CellsType'
  BY <1>0, AtHand DEF CellsType
<1>7. ProgressInv'
  <2> SUFFICES ASSUME ~boards[at].worn PROVE ProgressInv'
    BY <1>0 DEF ProgressInv
  <2>1. RomDone(at)'
    BY <1>0 DEF FlashInv, ProgressInv, RomDone, Holds
  <2>2. pc' = "eraseMisc" => ErasedTo(config.misc)'
    BY <1>0, <1>1, Sizes DEF ErasedTo
  <2>3. pc' = "writeMisc" => WrittenTo(config.misc, Image)'
    <3> SUFFICES ASSUME pc' = "writeMisc" PROVE WrittenTo(config.misc, Image)'
      OBVIOUS
    <3>1. Purged
      BY <1>0, AtHand DEF Purged, MiscFits
    <3>2. Blank(config.misc)
      BY <1>0, <1>2, <3>1 DEF FlashInv, ProgressInv
    <3>3. i' = 0 /\ \A c \in 1..BankSize : ~(c <= 0)
      BY <1>0, <1>1, Sizes
    <3> QED
      BY <1>0, <3>2, <3>3 DEF WrittenTo, Blank
  <2> QED
    BY <1>0, <2>1, <2>2, <2>3 DEF ProgressInv
<1> QED
  BY <1>0, <1>1, <1>3, <1>4, <1>5, <1>6, <1>7, AtHand, FlashMoves DEF FlashPcs

LEMMA NoMiscStep == ASSUME IInv, FlashInv, NoMisc PROVE FlashInv'
<1>0. /\ pc = "misc" /\ pc \in FlashPcs /\ ~(config.misc # 0 /\ MiscFits) /\ pc' = "scan"
      /\ UNCHANGED <<boards, config, flashVars, quietVars, boardVars>>
      /\ UNCHANGED <<at, board, chosen, ideOff, flashbase, bankReg, i, cells>>
  BY DEF NoMisc, FlashPcs, boardVars, flashVars
<1>1. SameFiles
  BY <1>0 DEF SameFiles
<1>2. PlanInv' /\ ShownInv' /\ CellsType' /\ ProgressInv'
  BY <1>0, PlanKept, AtHand DEF ShownInv, CellsType, ProgressInv, FlashPcs
<1>3. Done(at)'
  <2>1. MiscDone(at)
    <3>1. config.misc \in Banks(boards[at]) => config.misc < board.banks
      BY <1>0, AtHand, SetupFacts
    <3> QED
      BY <1>0, <3>1 DEF MiscDone, MiscFits, Chip
  <2>2. Done(at)
    BY <1>0, <2>1 DEF FlashInv, ProgressInv, Done
  <2> QED
    BY <1>0, <1>1, <2>2, DoneFrame
<1> QED
  BY <1>0, <1>1, <1>2, <1>3, AtHand, FlashMoves DEF FlashPcs

\* The bank that is erased or written, and how pc says which.
Target == IF pc \in {"eraseRom", "writeRom"} THEN 0 ELSE config.misc

LEMMA TargetFacts ==
  ASSUME IInv, FlashInv, pc \in {"eraseRom", "writeRom", "eraseMisc", "writeMisc"}
  PROVE  /\ Target \in Banks(boards[at]) /\ Shown = Target
         /\ \/ config.rom # "none" /\ Target = 0
            \/ config.misc = Target /\ Target # 0
<1>1. pc \in FlashPcs
  BY DEF FlashPcs
<1>2. CASE pc \in {"eraseRom", "writeRom"}
  BY <1>1, <1>2, AtHand, SetupFacts DEF FlashInv, ShownInv, Target
<1>3. CASE pc \in {"eraseMisc", "writeMisc"}
  <2>1. Target = config.misc /\ config.misc # 0 /\ MiscFits /\ Shown = config.misc
    BY <1>3 DEF FlashInv, ShownInv, Target
  <2>2. config.misc \in Banks(boards[at])
    BY <1>1, <2>1, AtHand, SetupFacts DEF MiscFits, Request
  <2> QED
    BY <2>1, <2>2
<1> QED
  BY <1>2, <1>3

LEMMA EraseStep == ASSUME IInv, FlashInv, EraseBank PROVE FlashInv'
<1>0. /\ pc \in {"eraseRom", "eraseMisc"} /\ pc \in FlashPcs
      /\ \/ i < Sectors /\ EraseSector /\ i' = i + 1 /\ pc' = pc
         \/ i = Sectors /\ i' = 0 /\ UNCHANGED cells
            /\ pc' = IF pc = "eraseRom" THEN "writeRom" ELSE "writeMisc"
      /\ UNCHANGED <<boards, config, flashbase, bankReg, quietVars, boardVars>>
      /\ UNCHANGED <<at, board, chosen, ideOff>>
  BY DEF EraseBank, FlashPcs, boardVars
<1>1. /\ SameFiles /\ Chip' = Chip /\ MiscFits' = MiscFits /\ Shown' = Shown
      /\ PlanInv'
  BY <1>0, PlanKept DEF SameFiles, Chip, MiscFits, Shown, Window, FlashPcs
<1>2. Chip = "sectors" /\ ~config.erase /\ i <= Sectors /\ i \in 0..BankSize
  BY <1>0, AtHand DEF FlashInv, ShownInv
<1>3. /\ Target \in Banks(boards[at]) /\ Shown = Target
      /\ \/ config.rom # "none" /\ Target = 0
         \/ config.misc = Target /\ Target # 0
      /\ pc = "eraseRom" => Target = 0
      /\ pc = "eraseMisc" => Target = config.misc /\ Target # 0
  BY <1>0, TargetFacts DEF Target, FlashInv, ShownInv
<1>4. CASE i < Sectors
  <2> DEFINE f == [c \in 1..BankSize |->
                     IF (c - 1) \div SectorSize = i THEN Erased ELSE cells[at][Shown][c]]
  <2>0. i' = i + 1 /\ pc' = pc /\ i' <= Sectors /\ i' \in 0..BankSize
    BY <1>0, <1>2, <1>4, Sizes
  <2>1. cells' = [cells EXCEPT ![at][Shown] = f]
    <3>1. EraseSector
      BY <1>0, <1>4, <1>2, Sizes
    <3> QED
      BY <3>1, Zenon DEF EraseSector
  <2>2. f \in [1..BankSize -> Cell]
    <3>1. cells[at][Shown] \in [1..BankSize -> Cell]
      BY <1>0, <1>3, AtHand DEF CellsType
    <3>2. Erased \in Cell
      BY DEF Cell
    <3> QED
      BY <3>1, <3>2
  <2>3. \A c \in 1..BankSize :
          f[c] = IF (c - 1) \div SectorSize = i THEN Erased ELSE cells[at][Target][c]
    BY <1>3
  <2> HIDE DEF f
  <2>4. /\ CellsType' /\ cells'[at][Target] = f
        /\ \A j \in Banks(boards[at]) \ {Target} : cells'[at][j] = cells[at][j]
        /\ \A b \in DOMAIN boards \ {at} : cells'[b] = cells[b]
    BY <1>0, <1>3, <2>1, <2>2, AtHand, OneBank
  <2>5. ShownInv'
    BY <1>0, <1>1, <2>0 DEF FlashInv, ShownInv
  <2>6. ProgressInv'
    <3> SUFFICES ASSUME ~boards[at].worn PROVE ProgressInv'
      BY <1>0 DEF ProgressInv
    <3>1. ErasedTo(Target)
      BY <1>0, <1>3 DEF FlashInv, ProgressInv
    <3>2. ASSUME NEW c \in 1..BankSize, (c - 1) \div SectorSize < i'
          PROVE  cells'[at][Target][c] = Erased
      <4>1. (c - 1) \div SectorSize = i \/ (c - 1) \div SectorSize < i
        BY <1>2, <2>0, <3>2, Sizes
      <4> QED
        BY <2>3, <2>4, <3>1, <4>1 DEF ErasedTo
    <3>3. pc = "eraseRom" => ErasedTo(0)'
      BY <1>0, <1>3, <3>2 DEF ErasedTo
    <3>4. pc = "eraseMisc" => ErasedTo(config.misc)'
      BY <1>0, <1>3, <3>2 DEF ErasedTo
    <3>5. pc = "eraseMisc" => RomDone(at)'
      <4> SUFFICES ASSUME pc = "eraseMisc" PROVE RomDone(at)'
        OBVIOUS
      <4>1. RomDone(at)
        BY <1>0 DEF FlashInv, ProgressInv
      <4>2. cells'[at][0] = cells[at][0]
        BY <1>3, <2>4, SetupFacts
      <4> QED
        BY <1>0, <4>1, <4>2 DEF RomDone, Holds
    <3> QED
      BY <1>0, <2>0, <3>3, <3>4, <3>5 DEF ProgressInv
  <2> QED
    BY <1>0, <1>1, <1>3, <2>0, <2>4, <2>5, <2>6, AtHand, FlashMoves DEF FlashPcs
<1>5. CASE i = Sectors
  <2>0. i' = 0 /\ UNCHANGED cells /\ pc' = IF pc = "eraseRom" THEN "writeRom" ELSE "writeMisc"
    BY <1>0, <1>5, Sizes
  <2>1. Len(Image)' \in Nat
    <3>1. CASE pc = "eraseRom"
      <4>1. Image' = AssembleRom(RomFile(config.rom, config.romSize), board.bootrom)
        BY <1>0, <2>0, <3>1 DEF Image
      <4>2. config.rom \in Types /\ config.romSize \in BootSize..BankSize
        BY <1>0, <1>3, <3>1, AtHand DEF FilesFit, Request, FlashInv, ShownInv
      <4>3. board.bootrom \in Types
        BY <1>0, AtHand, SetupFacts
      <4>4. Len(Image') = config.romSize
        BY <4>1, <4>2, <4>3, Assembled
      <4> QED
        BY <4>2, <4>4, Sizes
    <3>2. CASE pc = "eraseMisc"
      <4>1. config.miscSize \in 0..BankSize
        BY <1>0, <1>3, <3>2, AtHand, Sizes DEF FilesFit
      <4>2. Image' = MiscFile(config.miscSize)
        BY <1>0, <2>0, <3>2 DEF Image
      <4> QED
        BY <4>1, <4>2, MiscImage, Sizes
    <3> QED
      BY <1>0, <3>1, <3>2
  <2>2. ShownInv' /\ CellsType'
    BY <1>0, <1>1, <2>0, <2>1, AtHand DEF FlashInv, ShownInv, CellsType
  <2>3. ProgressInv'
    <3> SUFFICES ASSUME ~boards[at].worn PROVE ProgressInv'
      BY <1>0 DEF ProgressInv
    <3>1. ErasedTo(Target)
      BY <1>0, <1>3 DEF FlashInv, ProgressInv
    <3>2. \A c \in 1..BankSize : cells'[at][Target][c] = Erased /\ ~(c <= i')
      BY <1>5, <2>0, <3>1, Sizes DEF ErasedTo
    <3>3. pc = "eraseRom" => WrittenTo(0, Image)'
      BY <1>0, <1>3, <3>2 DEF WrittenTo
    <3>4. pc = "eraseMisc" => WrittenTo(config.misc, Image)'
      BY <1>0, <1>3, <3>2 DEF WrittenTo
    <3>5. pc = "eraseMisc" => RomDone(at)'
      BY <1>0, <2>0 DEF FlashInv, ProgressInv, RomDone, Holds
    <3>6. ~Purged'
      BY <1>0, <1>1, <1>2 DEF Purged
    <3> QED
      BY <1>0, <2>0, <3>3, <3>4, <3>5, <3>6 DEF ProgressInv
  <2> QED
    BY <1>0, <1>1, <1>3, <2>0, <2>2, <2>3, AtHand, Sizes, FlashMoves DEF FlashPcs
<1> QED
  BY <1>0, <1>4, <1>5

\* writeBufToFlash() programs the next byte, or is done.
LEMMA WriteStep == ASSUME IInv, FlashInv, WriteBuf PROVE FlashInv'
<1>0. /\ pc \in {"writeRom", "writeMisc"} /\ pc \in FlashPcs
      /\ \/ i < Len(Image) /\ WriteByte(Image) /\ i' = i + 1 /\ pc' = pc
         \/ i = Len(Image) /\ i' = 0 /\ UNCHANGED cells
            /\ pc' = IF pc = "writeRom" THEN "misc" ELSE "scan"
      /\ UNCHANGED <<boards, config, flashbase, bankReg, quietVars, boardVars>>
      /\ UNCHANGED <<at, board, chosen, ideOff>>
  BY DEF WriteBuf, FlashPcs, boardVars
<1>1. /\ SameFiles /\ Chip' = Chip /\ MiscFits' = MiscFits /\ Shown' = Shown /\ PlanInv'
  BY <1>0, PlanKept DEF SameFiles, Chip, MiscFits, Shown, Window, FlashPcs
<1>2. /\ i \in 0..BankSize /\ Len(Image) \in 0..BankSize /\ i <= Len(Image)
      /\ Image \in [1..Len(Image) -> Cell]
  BY <1>0, AtHand, ImageFacts DEF FlashInv, ShownInv
<1>3. /\ Target \in Banks(boards[at]) /\ Shown = Target
      /\ \/ config.rom # "none" /\ Target = 0
         \/ config.misc = Target /\ Target # 0
      /\ pc = "writeRom" => Target = 0
      /\ pc = "writeMisc" => Target = config.misc /\ Target # 0
  BY <1>0, TargetFacts DEF Target, FlashInv, ShownInv
<1>4. ~boards[at].worn => /\ WrittenTo(Target, Image)
                          /\ pc = "writeMisc" => RomDone(at)
                          /\ pc = "writeRom" /\ Purged =>
                               \A k \in Banks(boards[at]) \ {0} : Blank(k)
  BY <1>0, <1>3 DEF FlashInv, ProgressInv
<1>5. CASE i < Len(Image)
  <2> DEFINE was == cells[at][Shown][i + 1]
  <2> DEFINE now == IF was \in {Erased, Image[i + 1]} /\ ~(boards[at].worn /\ i + 1 = 2)
                    THEN Image[i + 1] ELSE Bad
  <2> DEFINE f == [cells[at][Shown] EXCEPT ![i + 1] = now]
  <2>0. /\ WriteByte(Image) /\ i' = i + 1 /\ pc' = pc /\ i' <= Len(Image) /\ i' \in 0..BankSize
        /\ i + 1 \in 1..BankSize /\ i + 1 \in 1..Len(Image)
    <3> DEFINE n == Len(Image)
    <3>1. i < n /\ n \in 0..BankSize /\ i \in 0..BankSize
      BY <1>2, <1>5
    <3> HIDE DEF n
    <3>2. i # n
      BY <3>1, Sizes
    <3>3. WriteByte(Image) /\ i' = i + 1 /\ pc' = pc
      BY <1>0, <3>2, Zenon DEF n
    <3>4. i' <= n /\ i' \in 0..BankSize /\ i + 1 \in 1..BankSize /\ i + 1 \in 1..n
      BY <3>1, <3>3, Sizes
    <3> QED
      BY <3>3, <3>4 DEF n
  <2>1. cells' = [cells EXCEPT ![at][Shown] = f]
    BY <2>0 DEF WriteByte
  <2>2. cells[at][Shown] \in [1..BankSize -> Cell] /\ now \in Cell
    BY <1>0, <1>2, <1>3, <2>0, AtHand DEF CellsType, Cell
  <2>3. /\ f \in [1..BankSize -> Cell] /\ f[i + 1] = now
        /\ \A c \in 1..BankSize : c # i + 1 => f[c] = cells[at][Target][c]
    BY <1>3, <2>0, <2>2
  <2>4. ~boards[at].worn /\ was = Erased => now = Image[i + 1]
    OBVIOUS
  <2>5. was = cells[at][Target][i + 1]
    BY <1>3
  <2> HIDE DEF was, now, f
  <2>6. /\ CellsType' /\ cells'[at][Target] = f
        /\ \A j \in Banks(boards[at]) \ {Target} : cells'[at][j] = cells[at][j]
        /\ \A b \in DOMAIN boards \ {at} : cells'[b] = cells[b]
    BY <1>0, <1>3, <2>1, <2>3, AtHand, OneBank
  <2>7. Image' = Image
    BY <1>0, <2>0 DEF Image
  <2>8. ShownInv'
    BY <1>0, <1>1, <2>0, <2>7 DEF FlashInv, ShownInv
  <2>9. ProgressInv'
    <3> SUFFICES ASSUME ~boards[at].worn PROVE ProgressInv'
      BY <1>0 DEF ProgressInv
    <3>1. now = Image[i + 1]
      <4>1. was = Erased
        BY <1>2, <1>4, <2>0, <2>5 DEF WrittenTo
      <4> QED
        BY <2>4, <4>1
    <3>2. ASSUME NEW c \in 1..BankSize
          PROVE  cells'[at][Target][c] = IF c <= i' THEN Image[c] ELSE Erased
      <4>1. CASE c = i + 1
        BY <2>0, <2>3, <2>6, <3>1, <4>1, <1>2
      <4>2. CASE c # i + 1
        <5>1. c <= i' <=> c <= i
          BY <1>2, <2>0, <4>2, Sizes
        <5> QED
          BY <1>4, <2>3, <2>6, <4>2, <5>1 DEF WrittenTo
      <4> QED
        BY <4>1, <4>2
    <3>3. WrittenTo(Target, Image)'
      BY <1>0, <2>0, <2>7, <3>2 DEF WrittenTo, Target
    <3>4. pc = "writeRom" /\ Purged' => \A k \in Banks(boards[at]) \ {0} : Blank(k)'
      <4> SUFFICES ASSUME pc = "writeRom", Purged', NEW k \in Banks(boards[at]) \ {0}
                   PROVE  Blank(k)'
        OBVIOUS
      <4>1. Purged
        BY <1>0, <1>1 DEF Purged
      <4>2. cells'[at][k] = cells[at][k] /\ Blank(k)
        BY <1>3, <1>4, <2>6, <4>1
      <4> QED
        BY <1>0, <4>2 DEF Blank
    <3>5. pc = "writeMisc" => RomDone(at)'
      <4> SUFFICES ASSUME pc = "writeMisc" PROVE RomDone(at)'
        OBVIOUS
      <4>1. cells'[at][0] = cells[at][0]
        BY <1>0, <1>3, <2>6, AtHand, SetupFacts
      <4> QED
        BY <1>0, <1>4, <4>1 DEF RomDone, Holds
    <3>6. Target' = Target
      BY <1>0, <2>0 DEF Target
    <3> QED
      BY <1>0, <1>3, <2>0, <3>3, <3>4, <3>5, <3>6 DEF ProgressInv
  <2> QED
    BY <1>0, <1>1, <1>3, <2>0, <2>6, <2>8, <2>9, AtHand, FlashMoves DEF FlashPcs
<1>6. CASE i = Len(Image)
  <2>0. i' = 0 /\ UNCHANGED cells /\ pc' = IF pc = "writeRom" THEN "misc" ELSE "scan"
    BY <1>0, <1>2, <1>6
  <2>1. ShownInv' /\ CellsType'
    BY <1>0, <2>0, AtHand DEF ShownInv, CellsType
  <2>2. ~boards[at].worn => RomDone(at) /\ (pc = "writeMisc" => MiscDone(at))
    BY <1>0, <1>3, <1>4, <1>6, RomWritten, MiscWritten
  <2>3. ProgressInv'
    <3> SUFFICES ASSUME ~boards[at].worn, pc = "writeRom" PROVE ProgressInv'
      BY <1>0, <2>0 DEF ProgressInv, FlashPcs
    <3>1. RomDone(at)'
      BY <1>0, <2>0, <2>2 DEF RomDone, Holds
    <3>2. Purged' => \A k \in Banks(boards[at]) \ {0} : Blank(k)'
      BY <1>0, <1>1, <1>4, <2>0 DEF Purged, Blank
    <3> QED
      BY <1>0, <2>0, <3>1, <3>2 DEF ProgressInv
  <2>4. pc' = "scan" => Done(at)'
    <3> SUFFICES ASSUME pc = "writeMisc" PROVE Done(at)'
      BY <1>0, <2>0
    <3>1. Done(at)
      BY <2>2 DEF Done
    <3> QED
      BY <1>0, <1>1, <2>0, <3>1, DoneFrame
  <2> QED
    BY <1>0, <1>1, <1>3, <2>0, <2>1, <2>3, <2>4, AtHand, Sizes, FlashMoves DEF FlashPcs
<1> QED
  BY <1>0, <1>5, <1>6

-----------------------------------------------------------------------------

LEMMA InitFlash == ASSUME Init PROVE FlashInv
<1>1. /\ pc = "start" /\ at = 0 /\ chosen = {} /\ ideOff = {} /\ i = 0 /\ flashbase = 0
      /\ board = SetupLiv2([make |-> "CIDER"])
      /\ cells = [b \in DOMAIN boards |-> [k \in Banks(boards[b]) |-> [c \in 1..BankSize |-> Old]]]
      /\ bankReg \in {[b \in DOMAIN boards |-> k] : k \in {0, 1}}
  BY DEF Init
<1>2. PlanInv
  <2>1. refused \in BOOLEAN /\ skipped \in BOOLEAN
    <3>1. FALSE \in BOOLEAN
      OBVIOUS
    <3> QED
      BY <3>1, Zenon DEF Init
  <2> QED
    BY <1>1, <2>1 DEF PlanInv, Busy, FlashPcs
<1>3. ShownInv /\ ProgressInv /\ DoneInv
  BY <1>1 DEF ShownInv, ProgressInv, DoneInv, FlashPcs
<1>4. CellsType /\ OnlyAskedBanks
  BY <1>1 DEF CellsType, OnlyAskedBanks, Cell
<1>5. FlashType
  <2>1. board \in [bootrom : Types, bankSelect : Selects, rebootRequired : BOOLEAN,
                   banks : {1, 2, 4}]
    BY <1>1 DEF SetupLiv2, Types, Selects
  <2>2. bankReg \in [DOMAIN boards -> 0..3]
    BY <1>1
  <2> QED
    BY <1>1, <1>4, <2>1, <2>2, Sizes DEF FlashType
<1> QED
  BY <1>2, <1>3, <1>4, <1>5 DEF FlashInv

LEMMA NextFlash == ASSUME IInv, FlashInv, [Next]_vars PROVE FlashInv'
<1>1. CASE Next
  BY <1>1, CalmFiles, CalmBoards, EnableStep, BeginRomStep, NoRomStep, EraseStep, WriteStep,
     BeginMiscStep, NoMiscStep DEF Next
<1>2. CASE UNCHANGED vars
  <2>1. UNCHANGED <<boards, config, pc, flashbase, bankReg, i, cells, refused, skipped,
                    at, board, chosen, ideOff>>
    BY <1>2 DEF vars, flashVars, quietVars, boardVars
  <2>2. Chip' = Chip /\ Shown' = Shown /\ Image' = Image /\ MiscFits' = MiscFits /\ Purged' = Purged
    BY <2>1 DEF Chip, Shown, Window, Image, MiscFits, Purged
  <2>3. PlanInv' /\ ShownInv' /\ FlashType' /\ OnlyAskedBanks'
    BY <2>1, <2>2 DEF FlashInv, PlanInv, FilesFit, ShownInv, FlashType, CellsType, OnlyAskedBanks
  <2>4. DoneInv'
    BY <2>1, DoneFrame DEF FlashInv, DoneInv, SameFiles
  <2>5. ProgressInv'
    BY <2>1, <2>2
    DEF FlashInv, ProgressInv, Blank, ErasedTo, WrittenTo, RomDone, Holds
  <2> QED
    BY <2>3, <2>4, <2>5 DEF FlashInv
<1> QED
  BY <1>1, <1>2

\* The state of the flash is what main() has come to, throughout.
THEOREM FlashInvariance == Spec => []FlashInv
<1>1. Init => FlashInv
  BY InitFlash
<1>2. IInv /\ FlashInv /\ [Next]_vars => FlashInv'
  BY NextFlash
<1> QED
  BY <1>1, <1>2, Invariance, PTL DEF Spec

\* Every variable keeps its type: no loop leaves its bank, its units or the
\* names of devices.
THEOREM TypeCorrect == Spec => []TypeOK
<1>1. IInv /\ FlashInv => TypeOK
  <2> SUFFICES ASSUME IInv, FlashInv PROVE TypeOK
    OBVIOUS
  <2>1. paused \subseteq Tasks
    <3>1. \A p \in Addressed : TaskOf(p[1], p[2]) \in Tasks
      BY DrivesType DEF Addressed, Tasks, TaskOf, MaxUnits
    <3> QED
      BY <3>1 DEF IInv, PausedInv
  <2>2. \A b \in DOMAIN boards : cells[b] \in [Banks(boards[b]) -> Bank]
    BY DEF FlashInv, FlashType, CellsType, Bank, Cell
  <2>3. DOMAIN boards = 1..Len(boards) /\ Len(boards) \in Nat
    BY ConstantsAssumption DEF IInv, FieldsInv, ConstantsAssumption
  <2>4. chosen \subseteq DOMAIN boards /\ ideOff \subseteq DOMAIN boards
    BY <2>3 DEF IInv, FieldsInv, FlashInv, PlanInv
  <2> QED
    BY <2>1, <2>2, <2>4 DEF IInv, FieldsInv, FlashInv, PlanInv, FlashType, TypeOK
<1> QED
  BY <1>1, Invariance, FlashInvariance, PTL

\* A bank that has changed is one the user asked to change, on a board he
\* agreed to, whatever the machine and whatever fails.
THEOREM OnlyAskedBanksHolds == Spec => []OnlyAskedBanks
<1>1. FlashInv => OnlyAskedBanks
  BY DEF FlashInv
<1> QED
  BY <1>1, FlashInvariance, PTL

\* Every board the program has done with holds what the user asked for, in the
\* form that board needs: for any sizes of banks, sectors and files.
THEOREM WrittenHolds == Spec => []Written
<1>1. IInv /\ FlashInv => Written
  <2> SUFFICES ASSUME IInv, FlashInv, NEW b \in chosen, b < at \/ pc \in EndPcs,
                      ~boards[b].worn, boards[b].chip # "unknown"
               PROVE  RomDone(b) /\ MiscDone(b)
    BY DEF Written, RomDone, MiscDone
  <2>1. at \in Nat
    BY DEF IInv, FieldsInv
  <2>2. ~(b = at /\ pc \in Busy)
    BY <2>1 DEF Busy, FlashPcs, EndPcs
  <2>3. Done(b)
    BY <2>2 DEF FlashInv, DoneInv
  <2> QED
    BY <2>3 DEF Done
<1> QED
  BY <1>1, Invariance, FlashInvariance, PTL
=============================================================================
