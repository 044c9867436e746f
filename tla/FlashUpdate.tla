------------------------------ MODULE FlashUpdate ------------------------------
(***************************************************************************)
(* lideflash: the program that replaces the ROM of an IDE board while the    *)
(* machine runs from drives on that board.  main() (lideflash/main.c) keeps *)
(* the file systems and the IO tasks away, goes through the boards, erases  *)
(* and programs the banks the user asked for, and lets everything run       *)
(* again, or reboots.                                                       *)
(*                                                                         *)
(* Abstractions.  A bank has BankSize cells and BootSize of them hold what   *)
(* comes before the driver (0x1000 bytes); a cell stands for equal shares of *)
(* both.  A step is one thing others can see the state after: a packet, a   *)
(* command to the driver, a sector erased, a byte programmed.  Erasing       *)
(* always works, programming may fail on a worn chip.  Memory that runs out *)
(* makes the code skip a call without a word: skipped remembers it.          *)
(***************************************************************************)
EXTENDS Integers, Sequences, FiniteSets, FiniteSetsExt

CONSTANTS
  Machines,      \* what boards may be in the machine: sequences of boards
  Requests,      \* what the user may ask for
  FileSystems,   \* processes of the DOS devices
  Unable,        \* those that do not know ACTION_INHIBIT
  Drives,        \* Drives[d]: unit numbers of the device of the d-th name
  OldDrivers,    \* devices that do not know CMD_PAUSE
  MemoryFails,   \* an allocation may fail
  BankSize,      \* cells of a bank, 32768 bytes
  BootSize,      \* cells in front of the driver
  SectorSize     \* cells of a sector, for the chips that can erase one

Makes == {"CIDER", "RIPPLE", "RIDE", "MATZE", "other"}
Board == [make : Makes, big : BOOLEAN, firmware : BOOLEAN,
          chip : {"sectors", "whole", "unknown"}, worn : BOOLEAN]
Types == {"CIDER", "ATBUS"}

\* What configure() makes of the options.  rom: kind of the -I file; misc: bank
\* of the last -C, -1, -2 or -3 file, 0 for none; -E, -R and -Y.
Request == [rom : Types \cup {"none"}, romSize : Nat, misc : 0..3, miscSize : Nat,
            erase : BOOLEAN, reboot : BOOLEAN, yes : BOOLEAN]

\* A misc file of one byte is left out: its progress is divided by zero.
ASSUME ConstantsAssumption ==
  /\ Machines \subseteq Seq(Board)
  /\ Requests \subseteq Request
  /\ \A q \in Requests :
       /\ q.rom # "none" \/ q.misc # 0 \/ q.erase
       /\ q.miscSize # 1
  /\ Unable \subseteq FileSystems
  /\ Drives \in Seq((SUBSET (0..9)) \ {{}}) /\ Len(Drives) <= 8
  /\ OldDrivers \subseteq DOMAIN Drives
  /\ MemoryFails \in BOOLEAN
  /\ BankSize \in Nat /\ BootSize \in 2..BankSize
  /\ SectorSize \in 1..BankSize /\ BankSize % SectorSize = 0

VARIABLES
  boards,      \* the machine
  config,      \* the request; assumeYes and rebootRequired may be set later
  pc,          \* where main() is
  files,       \* file systems inhibitDosDevs() has yet to ask
  refused,     \* ... and whether one refused
  inhibited,   \* file systems that keep off their disks
  name, unit,  \* the loop variables of suspend_lide()
  paused,      \* IO tasks that are paused
  at,          \* index of the board at hand
  board,       \* struct ideBoard
  flashbase,   \* the bank flashbase points to, on boards that map all
  bankReg,     \* bankReg[b]: the bank select register of a board
  i,           \* loop variable of erasing and programming
  chosen,      \* history: boards the user agreed to
  ideOff,      \* boards whose IDE is off until the machine reboots
  cells,       \* cells[b][k]: the cells of bank k
  skipped      \* history: an allocation has failed and was passed over

flashVars == <<flashbase, bankReg, i, cells>>
quietVars == <<files, refused, inhibited, name, unit, paused, skipped>>
boardVars == <<at, board, chosen, ideOff>>
vars == <<boards, config, pc, flashVars, quietVars, boardVars>>

-----------------------------------------------------------------------------
(* ROM images.                                                                *)

Old == <<"old", 0>>
Erased == <<"erased", 0>>
Bad == <<"bad", 0>>
Header == <<"LIV2", 0>>
Pad == <<"pad", 0>>
PastEnd == <<"past end", 0>>

\* The ROM files of the project: lide.rom has a header, lide-atbus.rom none.
RomFile(type, size) ==
  [c \in 1..size |->
     IF c > BootSize THEN <<"driver", c - BootSize>>
     ELSE IF type = "ATBUS" THEN IF c = BootSize THEN Pad ELSE <<"boot", c>>
     ELSE IF c = 1 THEN Header ELSE <<"boot", c - 1>>]

MiscFile(size) == [c \in 1..size |-> <<"misc", c>>]

\* Mutant: the file is programmed as it is.
AssembleRomAsIs(src, to) == src

\* assemble_rom(): the header is taken off or put on, the driver stays.
AssembleRom(src, to) ==
  LET from == IF src[1] = Header THEN "CIDER" ELSE "ATBUS"
  IN  [c \in DOMAIN src |->
         IF from = to \/ c > BootSize THEN src[c]
         ELSE IF to = "ATBUS"
           THEN IF c + 1 \in DOMAIN src THEN src[c + 1] ELSE PastEnd
         ELSE IF c = 1 THEN Header ELSE src[c - 1]]

\* main()'s tests of the file sizes (0 is a file that cannot be read).
FilesFit(q) ==
  /\ q.rom # "none" => q.romSize \in BootSize..BankSize
  /\ q.misc # 0 => q.miscSize \in 1..BankSize

-----------------------------------------------------------------------------
(* Boards: setup_liv2_board(), setup_matzetk_board() and struct ideBoard.     *)

Selects == {"NULL", "bankSelect", "matzetk_bankSelect"}

SetupLiv2(b) ==
  [bootrom |-> "CIDER", bankSelect |-> "bankSelect", rebootRequired |-> FALSE,
   banks |-> IF b.make = "RIPPLE" THEN 2 ELSE IF b.make = "RIDE" THEN 4 ELSE 1]

\* writeEnable() turns IDE off, hence rebootRequired.
SetupMatze(b) ==
  [bootrom |-> "ATBUS", rebootRequired |-> TRUE,
   bankSelect |-> IF b.big THEN "matzetk_bankSelect" ELSE "NULL",
   banks |-> IF b.big THEN 2 ELSE 1]

Setup(b) == IF b.make = "MATZE" THEN SetupMatze(b) ELSE SetupLiv2(b)

\* The manufacturer and product are known, and the firmware is new enough.
Recognised(b) == b.make # "other" /\ (b.make = "MATZE" => b.firmware)

Banks(b) == 0..Setup(b).banks - 1

Tasks == {<<d, u \div 2>> : d \in DOMAIN Drives, u \in 0..9}
Bank == [1..BankSize -> {Old, Erased, Bad, Header, Pad, PastEnd}
          \cup ({"boot", "driver", "misc"} \X (1..BankSize))]

MaxUnits == 4

QuietPcs == {"inhibit", "suspend", "resume", "resumed", "uninhibit", "giveUp"}
FlashPcs == {"enable", "rom", "eraseRom", "writeRom", "misc", "eraseMisc", "writeMisc"}
EndPcs == {"exit", "rebooted"}

TypeOK ==
  /\ boards \in Machines /\ config \in Request
  /\ pc \in {"start", "scan", "prompt", "finish"} \cup QuietPcs \cup FlashPcs \cup EndPcs
  /\ files \subseteq FileSystems /\ inhibited \subseteq FileSystems
  /\ refused \in BOOLEAN /\ skipped \in BOOLEAN
  /\ name \in 1..Len(Drives) + 1 /\ unit \in 0..MaxUnits
  /\ paused \subseteq Tasks
  /\ at \in 0..Len(boards)
  /\ board \in [bootrom : Types, bankSelect : Selects, rebootRequired : BOOLEAN, banks : {1, 2, 4}]
  /\ flashbase \in {0, 1}
  /\ bankReg \in [DOMAIN boards -> 0..3]
  /\ i \in 0..BankSize
  /\ chosen \subseteq DOMAIN boards /\ ideOff \subseteq DOMAIN boards
  /\ \A b \in DOMAIN boards : cells[b] \in [Banks(boards[b]) -> Bank]

Init ==
  /\ boards \in Machines /\ config \in Requests
  /\ pc = "start"
  /\ files = {} /\ refused = FALSE /\ inhibited = {}
  /\ name = 1 /\ unit = 0 /\ paused = {}
  /\ at = 0
  /\ board = SetupLiv2([make |-> "CIDER"])
  /\ flashbase = 0
  /\ bankReg \in {[b \in DOMAIN boards |-> k] : k \in {0, 1}}
  /\ i = 0
  /\ chosen = {} /\ ideOff = {} /\ skipped = FALSE
  /\ cells = [b \in DOMAIN boards |-> [k \in Banks(boards[b]) |-> [c \in 1..BankSize |-> Old]]]

-----------------------------------------------------------------------------
(* inhibitDosDevs(): every file system process is asked to keep off its disk  *)
(* and, to begin with, to write out what it holds.                            *)

\* The processes are listed; one there is no memory for is not asked, and
\* without a port none is.
ListDevices(then, listed, failed) ==
  /\ MemoryFails \/ (listed = FileSystems /\ ~failed)
  /\ failed => listed = {}
  /\ pc' = then
  /\ files' = listed
  /\ refused' = failed
  /\ skipped' = (skipped \/ listed # FileSystems)

ReadFiles ==
  /\ pc = "start"
  /\ \/ FilesFit(config)
        /\ \E listed \in SUBSET FileSystems, failed \in BOOLEAN :
             ListDevices("inhibit", listed, failed)
     \/ pc' = "exit" /\ UNCHANGED <<files, refused, skipped>>
  /\ UNCHANGED <<boards, config, inhibited, name, unit, paused, flashVars, boardVars>>

\* A file system with open files may refuse all three times it is asked.  One
\* that answers ERROR_ACTION_NOT_KNOWN is no reason to stop.
Inhibit(f) ==
  /\ pc = "inhibit" /\ f \in files
  /\ files' = files \ {f}
  /\ \/ f \in Unable /\ UNCHANGED <<inhibited, refused>>
     \/ f \notin Unable /\ inhibited' = inhibited \cup {f} /\ UNCHANGED refused
     \/ f \notin Unable /\ refused' = TRUE /\ UNCHANGED inhibited
  /\ UNCHANGED <<boards, config, pc, name, unit, paused, skipped, flashVars, boardVars>>

\* Mutant: the program gives up and leaves the file systems inhibited.
AllAskedNoUndo ==
  /\ pc = "inhibit" /\ files = {}
  /\ pc' = IF refused THEN "exit" ELSE "scan"
  /\ UNCHANGED <<files, refused, skipped>>
  /\ UNCHANGED <<boards, config, inhibited, name, unit, paused, flashVars, boardVars>>

\* If one refused, all are let go again.  No board is looked for without
\* expansion.library.
AllAsked ==
  /\ pc = "inhibit" /\ files = {}
  /\ \/ ~refused /\ pc' \in {"scan", "finish"} /\ UNCHANGED <<files, refused, skipped>>
     \/ refused /\ \E listed \in SUBSET FileSystems, failed \in BOOLEAN :
                     ListDevices("giveUp", listed, failed)
  /\ UNCHANGED <<boards, config, inhibited, name, unit, paused, flashVars, boardVars>>

Uninhibit(f) ==
  /\ pc \in {"uninhibit", "giveUp"} /\ f \in files
  /\ files' = files \ {f}
  /\ inhibited' = inhibited \ {f}
  /\ UNCHANGED <<boards, config, pc, refused, name, unit, paused, skipped, flashVars, boardVars>>

Exit ==
  /\ pc \in {"uninhibit", "giveUp"} /\ files = {}
  /\ pc' = "exit"
  /\ UNCHANGED <<boards, config, flashVars, quietVars, boardVars>>

-----------------------------------------------------------------------------
(* The boards, one after the other.                                           *)

\* FindConfigDev(): past the last board the pointer is NULL.
NextBoard ==
  /\ pc = "scan" /\ at < Len(boards)
  /\ at' = at + 1
  /\ IF Recognised(boards[at + 1])
       THEN pc' = "prompt" /\ board' = Setup(boards[at + 1])
       ELSE UNCHANGED <<pc, board>>
  /\ UNCHANGED <<boards, config, chosen, ideOff, flashVars, quietVars>>

NoMoreBoards ==
  /\ pc = "scan" /\ at = Len(boards)
  /\ pc' = "finish"
  /\ UNCHANGED <<boards, config, flashVars, quietVars, boardVars>>

\* suspend_lide() needs memory, a port and a request; without, it returns.
StartSuspend(here, then) ==
  \/ pc' = here /\ name' = 1 /\ unit' = 0 /\ UNCHANGED skipped
  \/ MemoryFails /\ pc' = then /\ skipped' = TRUE /\ UNCHANGED <<name, unit>>

\* promptUser(): yes, or yes to all.
Agree(all) ==
  /\ pc = "prompt"
  /\ config.yes => ~all
  /\ config' = [config EXCEPT !.yes = @ \/ all]
  /\ chosen' = chosen \cup {at}
  /\ StartSuspend("suspend", "enable")
  /\ UNCHANGED <<boards, files, refused, inhibited, paused, at, board, ideOff, flashVars>>

\* Mutant: after a no the same board comes up again.
DeclineAsksAgain ==
  /\ pc = "prompt" /\ ~config.yes
  /\ pc' = "scan" /\ at' = at - 1
  /\ UNCHANGED <<boards, config, board, chosen, ideOff, flashVars, quietVars>>

Decline ==
  /\ pc = "prompt" /\ ~config.yes
  /\ pc' = "scan"
  /\ UNCHANGED <<boards, config, flashVars, quietVars, boardVars>>

-----------------------------------------------------------------------------
(* suspend_lide(): CMD_PAUSE or CMD_RESUME to units 0 to 3 of every device    *)
(* that is loaded.  Names that no device has are passed over.                 *)

Loaded == name \in DOMAIN Drives
TaskOf(d, u) == <<d, u \div 2>>

NextName == name' = name + 1 /\ unit' = 0
NextUnit == unit' = unit + 1 /\ UNCHANGED name

\* Mutant: the loop goes one unit too far.
NoSuchUnitPastMax ==
  /\ Loaded
  /\ unit \notin Drives[name] /\ unit < Max(Drives[name])
  /\ NextUnit /\ UNCHANGED paused

\* Mutant: a unit number nobody has ends the search, as IOERR_OPENFAIL does.
NoSuchUnitEnds ==
  /\ Loaded /\ unit < MaxUnits
  /\ unit \notin Drives[name]
  /\ NextName /\ UNCHANGED paused

\* open() answers TDERR_BadUnitNum.
NoSuchUnit ==
  /\ Loaded /\ unit < MaxUnits
  /\ unit \notin Drives[name] /\ unit < Max(Drives[name])
  /\ NextUnit /\ UNCHANGED paused

\* The loop ends, open() answers IOERR_OPENFAIL, or the driver IOERR_NOCMD.
LastUnit ==
  /\ Loaded
  /\ \/ unit = MaxUnits
     \/ unit > Max(Drives[name])
     \/ name \in OldDrivers /\ unit \in Drives[name]
  /\ NextName /\ UNCHANGED paused

\* The second unit of a task is told IOERR_UNITBUSY or IOERR_ABORTED.
Command ==
  /\ Loaded /\ name \notin OldDrivers /\ unit < MaxUnits
  /\ unit \in Drives[name]
  /\ paused' = IF pc = "suspend" THEN paused \cup {TaskOf(name, unit)}
               ELSE paused \ {TaskOf(name, unit)}
  /\ NextUnit

SuspendLide ==
  /\ pc \in {"suspend", "resume"}
  /\ NoSuchUnit \/ LastUnit \/ Command
  /\ UNCHANGED <<boards, config, pc, files, refused, inhibited, skipped, flashVars, boardVars>>

Suspended ==
  /\ pc = "suspend" /\ ~Loaded
  /\ pc' = "enable"
  /\ UNCHANGED <<boards, config, flashVars, quietVars, boardVars>>

-----------------------------------------------------------------------------
(* Flash: the cells a board shows, and how they change.                       *)

\* What its ids tell: a known chip, and one with sectors that fit a bank.
Chip == boards[at].chip

\* The bank that is at the address programs and erases go to.
Window == IF boards[at].make = "MATZE" THEN flashbase ELSE bankReg[at]

\* On boards with one bank the select register is without effect.
Shown == IF Window \in Banks(boards[at]) THEN Window ELSE 0

\* Mutant: the bank that is shown is taken as it is.
BankSelectForgotten(k) == UNCHANGED <<flashbase, bankReg>>

\* bankSelect() and matzetk_bankSelect(): a register, or another address.
BankSelect(k) ==
  /\ bankReg' = IF board.bankSelect = "bankSelect" THEN [bankReg EXCEPT ![at] = k]
                ELSE bankReg
  /\ flashbase' = IF board.bankSelect = "matzetk_bankSelect" THEN k ELSE flashbase

EraseChip ==
  cells' = [cells EXCEPT ![at] = [k \in DOMAIN @ |-> [c \in 1..BankSize |-> Erased]]]

Sectors == BankSize \div SectorSize

\* flash_erase_sector(), the i-th of the bank that is shown.
EraseSector ==
  cells' = [cells EXCEPT ![at][Shown] =
              [c \in 1..BankSize |->
                 IF (c - 1) \div SectorSize = i THEN Erased ELSE @[c]]]

\* flash_writeByte(): programming only clears bits.  The second cell of a worn
\* chip does not take what is written.
WriteByte(image) ==
  LET c == i + 1
      was == cells[at][Shown][c]
      now == IF was \in {Erased, image[c]} /\ ~(boards[at].worn /\ c = 2)
             THEN image[c] ELSE Bad
  IN  cells' = [cells EXCEPT ![at][Shown][c] = now]

\* writeEnable(), then flash_init(), which makes flashbase the board's first
\* bank.  A chip that is not known is left alone.
EnableFlash ==
  /\ pc = "enable"
  /\ config' = [config EXCEPT !.reboot = @ \/ board.rebootRequired]
  /\ ideOff' = IF board.rebootRequired THEN ideOff \cup {at} ELSE ideOff
  /\ flashbase' = 0
  /\ IF Chip = "unknown" THEN pc' = "scan" /\ UNCHANGED cells
     ELSE pc' = "rom" /\ IF config.erase THEN EraseChip ELSE UNCHANGED cells
  /\ i' = 0
  /\ UNCHANGED <<boards, bankReg, at, board, chosen, quietVars>>

\* The IDE ROM goes into bank 0.  A chip that cannot erase a sector is erased
\* as a whole, unless the user had that done before.
BeginRom ==
  /\ pc = "rom" /\ config.rom # "none"
  /\ BankSelect(0)
  /\ \/ config.erase /\ pc' = "writeRom" /\ UNCHANGED cells
     \/ ~config.erase /\ Chip = "sectors" /\ pc' = "eraseRom" /\ UNCHANGED cells
     \/ ~config.erase /\ Chip = "whole" /\ pc' = "writeRom" /\ EraseChip
  /\ UNCHANGED <<boards, config, i, quietVars, boardVars>>

NoRom ==
  /\ pc = "rom" /\ config.rom = "none"
  /\ pc' = "misc"
  /\ UNCHANGED <<boards, config, flashVars, quietVars, boardVars>>

\* flash_erase_bank() comes to its next sector, or to its end.
EraseBank ==
  /\ pc \in {"eraseRom", "eraseMisc"}
  /\ \/ i < Sectors /\ EraseSector /\ i' = i + 1 /\ UNCHANGED pc
     \/ i = Sectors /\ i' = 0 /\ UNCHANGED cells
        /\ pc' = IF pc = "eraseRom" THEN "writeRom" ELSE "writeMisc"
  /\ UNCHANGED <<boards, config, flashbase, bankReg, quietVars, boardVars>>

Image ==
  IF pc = "writeRom" THEN AssembleRom(RomFile(config.rom, config.romSize), board.bootrom)
  ELSE MiscFile(config.miscSize)

\* writeBufToFlash().  It compares what it wrote and says what it finds, but
\* nobody uses its result.
WriteBuf ==
  /\ pc \in {"writeRom", "writeMisc"}
  /\ \/ i < Len(Image) /\ WriteByte(Image) /\ i' = i + 1 /\ UNCHANGED pc
     \/ i = Len(Image) /\ i' = 0 /\ UNCHANGED cells
        /\ pc' = IF pc = "writeRom" THEN "misc" ELSE "scan"
  /\ UNCHANGED <<boards, config, flashbase, bankReg, quietVars, boardVars>>

\* A bank the board has, on a chip where it can be erased without the ROM or
\* the ROM was programmed just before.
MiscFits == config.misc < board.banks /\ (Chip = "sectors" \/ config.rom # "none")

BeginMisc ==
  /\ pc = "misc" /\ config.misc # 0 /\ MiscFits
  /\ BankSelect(config.misc)
  /\ pc' = IF ~config.erase /\ Chip = "sectors" THEN "eraseMisc" ELSE "writeMisc"
  /\ UNCHANGED <<boards, config, i, cells, quietVars, boardVars>>

NoMisc ==
  /\ pc = "misc" /\ ~(config.misc # 0 /\ MiscFits)
  /\ pc' = "scan"
  /\ UNCHANGED <<boards, config, flashVars, quietVars, boardVars>>

Finish ==
  /\ pc = "finish"
  /\ \/ config.reboot /\ pc' = "rebooted" /\ UNCHANGED <<name, unit, skipped>>
     \/ ~config.reboot /\ StartSuspend("resume", "resumed")
  /\ UNCHANGED <<boards, config, files, refused, inhibited, paused, flashVars, boardVars>>

Resumed ==
  /\ pc = "resumed" \/ (pc = "resume" /\ ~Loaded)
  /\ \E listed \in SUBSET FileSystems, failed \in BOOLEAN :
       ListDevices("uninhibit", listed, failed)
  /\ UNCHANGED <<boards, config, inhibited, name, unit, paused, flashVars, boardVars>>

Next ==
  \/ ReadFiles \/ AllAsked \/ Exit \/ NextBoard \/ NoMoreBoards
  \/ \E f \in FileSystems : Inhibit(f) \/ Uninhibit(f)
  \/ \E all \in BOOLEAN : Agree(all)
  \/ Decline \/ SuspendLide \/ Suspended
  \/ EnableFlash \/ BeginRom \/ NoRom \/ EraseBank \/ WriteBuf
  \/ BeginMisc \/ NoMisc \/ Finish \/ Resumed

Spec == Init /\ [][Next]_vars

\* main() is one task, and it waits only for the user and for processes that
\* answer each packet they are sent.
FairSpec == Spec /\ WF_vars(Next)

-----------------------------------------------------------------------------
(* Properties.                                                                *)

\* A bank that has changed is one the user asked to change, on a board he
\* agreed to: bank 0 for a ROM, the bank of the misc file, all with -E.  A chip
\* that erases only as a whole loses the others with the ROM (main.c:783).
OnlyAskedBanks ==
  \A b \in DOMAIN boards : \A k \in Banks(boards[b]) :
    (\E c \in 1..BankSize : cells[b][k][c] # Old) =>
      /\ b \in chosen
      /\ \/ config.erase
         \/ config.rom # "none" /\ (k = 0 \/ boards[b].chip = "whole")
         \/ config.misc = k /\ k # 0

\* The IO tasks that suspend_lide() is there to pause: with a unit below
\* MAX_UNITS, of drivers that know the command.
Pausable ==
  {TaskOf(d, u) : d \in DOMAIN Drives \ OldDrivers, u \in 0..MaxUnits - 1}
    \cap UNION {{TaskOf(d, u) : u \in Drives[d]} : d \in DOMAIN Drives}

\* No file system that can be told so and no IO task uses a drive while a flash chip is written, nor
\* from the moment the IDE of a board is off until the reboot: "to pause the lide
\* IO task while we disable the IDE interface" (main.c:197-199).
Quiet ==
  pc \in FlashPcs \/ ideOff # {} =>
    skipped \/ (FileSystems \ Unable \subseteq inhibited /\ Pausable \subseteq paused)

\* A program that ends without a reboot has let every file system and every
\* IO task go again, on each of its ways out, and has turned off no IDE.
RestoresAll ==
  pc = "exit" => ideOff = {} /\ (skipped \/ (inhibited = {} /\ paused = {}))

\* What bank k of a board holds, but for the four bytes of padding in front of
\* the driver in an AT-Bus ROM.
Holds(b, k, image) ==
  \A c \in 1..BankSize :
    \/ cells[b][k][c] = IF c \in DOMAIN image THEN image[c] ELSE Erased
    \/ c = BootSize /\ image # <<>> /\ image[1] = <<"boot", 1>>

\* Every board the user agreed to, up to the one at hand, holds what he asked
\* for: the ROM in the form that board needs, whichever form the file has, and
\* the other file in its bank.  A power failure harms no board but one.
Written ==
  \A b \in chosen :
    (b < at \/ pc \in EndPcs) /\ ~boards[b].worn /\ boards[b].chip # "unknown" =>
      /\ config.rom # "none" =>
           Holds(b, 0, RomFile(Setup(boards[b]).bootrom, config.romSize))
      /\ config.misc \in Banks(boards[b]) \ {0}
           /\ (boards[b].chip = "sectors" \/ config.rom # "none") =>
           Holds(b, config.misc, MiscFile(config.miscSize))

\* The program comes to an end, for every machine and every answer.
Ends == <>(pc \in EndPcs)
=============================================================================
