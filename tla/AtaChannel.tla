----------------------------- MODULE AtaChannel -----------------------------
(***************************************************************************)
(* One IDE channel: two drives, the registers they share, and the IO task    *)
(* of the channel, the owner, that uses them through ata.c.  It finds the   *)
(* drives (ata_init_unit()) and then serves one job at a time, a step per   *)
(* register access that matters.                                            *)
(*                                                                         *)
(* A drive works on its own between the host's steps: it may finish, offer  *)
(* a DRQ block, fail, or stay busy past every time limit and answer later.  *)
(* Both drives latch what is written to the registers; the one the          *)
(* drive/head register selects executes the command and answers reads.  A   *)
(* busy drive ignores a command; one that offers data drops it for the new  *)
(* command.                                                                 *)
(***************************************************************************)
EXTENDS Integers, Sequences

CONSTANTS
  Drives,         \* the two positions, primary and secondary
  Modes,          \* Modes[d]: how drive d may turn out to work
  Jobs,           \* [op, drive, lba, count]: what the IO task is asked for
  NoJob,          \* nothing was asked yet
  NoSelect,       \* the shadow register when no drive is known to be selected
  MaxTransfer,    \* MAX_TRANSFER_SECTORS, and what a count register of 0 means
  LowRange,       \* how many addresses the three LBA registers tell apart
  Heads,          \* the geometry of a CHS drive
  SectorsPerTrack,
  DrqBlock        \* sectors per DRQ block of a drive with SET MULTIPLE

ModeKinds == {"chs", "lba", "lba48", "atapi"}

\* The drive/head register.
DevHead == [dev : Drives, lba : BOOLEAN, head : Nat]

\* One number per constant, and jobs that stay below the drive's last block.
ASSUME ConstantsAssumption ==
  /\ Drives \subseteq Nat /\ Drives # {}
  /\ Modes \in [Drives -> SUBSET ModeKinds]
  /\ NoSelect \notin DevHead
  /\ NoJob \notin Jobs
  /\ {MaxTransfer, LowRange, Heads, SectorsPerTrack, DrqBlock} \subseteq Nat \ {0}
  /\ \A j \in Jobs :
       /\ j.op \in {"read", "write"}
       /\ j.drive \in Drives
       /\ j.lba \in Nat /\ j.count \in Nat \ {0}

VARIABLES
  mode,        \* mode[d]: what IDENTIFY says of drive d
  unit,        \* unit[d]: the fields of its struct IDEUnit, see Unit
  shadow,      \* itask->shadowDevHead
  devHead,     \* the drive/head register: [dev, lba, head]
  regs,        \* the other task file registers: [low, mid, hob, count, hobCount]
  drv,         \* drv[d]: what drive d is doing, see Drive
  pc,          \* where the owner is
  call,        \* the function of ata.c it is in: [op, drive]
  job,         \* the transfer it was last asked for
  lba,         \* the caller's lba, advanced with every command
  left,        \* count: sectors no command was sent for yet
  txn,         \* txn_count: sectors of the command not yet transferred
  burst,       \* i: sectors transferred since DRQ was seen
  moved,       \* history: the sectors moved for this job, in order
  answer       \* "none" while the job runs, then "ok" or "failed"

ownerVars == <<pc, call, job, lba, left, txn, burst, moved, answer>>
vars == <<mode, unit, shadow, devHead, regs, drv, ownerVars>>

-----------------------------------------------------------------------------
Transfers == {"read", "write"}

\* Functions of ata.c with a command that moves one sector, and with none.
OneSector == {"identify", "passthrough_in", "passthrough_out"}
NoData    == {"set_multiple", "set_pio", "passthrough", "packet"}
Called    == {"set_pio", "passthrough", "passthrough_in", "passthrough_out", "packet"}
Ops       == Transfers \cup OneSector \cup NoData \cup {"none"}

\* The owner is in no function of ata.c.
NoCall == [op |-> "none", drive |-> CHOOSE d \in Drives : TRUE]

Unit == [state : {"new", "identified", "up", "gone"},
         multipleCount : Nat, xferMultiple : BOOLEAN]

\* What a drive does: at is the address of the next sector, todo the sectors
\* its command still has to move, block how many it offers at a time, offered
\* those of the DRQ block on offer, multiple what SET MULTIPLE set.
Drive == [st : {"idle", "busy", "drq"}, cmd : Ops, at : Nat, todo : Nat,
          block : Nat, offered : Nat, multiple : Nat, err : BOOLEAN]

Pcs == {"idle", "select", "settle", "ready", "next", "registers", "command",
        "drq", "xfer", "nodata"}

TypeOK ==
  /\ mode \in [Drives -> ModeKinds]
  /\ unit \in [Drives -> Unit]
  /\ shadow \in DevHead \cup {NoSelect}
  /\ devHead \in DevHead
  /\ regs \in [low : Nat, mid : Nat, hob : Nat, count : Nat, hobCount : Nat]
  /\ drv \in [Drives -> Drive]
  /\ pc \in Pcs
  /\ call \in [op : Ops, drive : Drives]
  /\ job \in Jobs \cup {NoJob}
  /\ {lba, left, txn, burst} \subseteq Nat
  /\ moved \in Seq((Transfers \cup {"nothing"}) \X Drives \X Nat)
  /\ answer \in {"none", "ok", "failed"}

\* A drive that has nothing to do; what its last command was is forgotten.
Idle(dr, err) ==
  [st |-> "idle", cmd |-> "none", at |-> 0, todo |-> 0, block |-> 1, offered |-> 0,
   multiple |-> dr.multiple, err |-> err]

NoRegs == [low |-> 0, mid |-> 0, hob |-> 0, count |-> 0, hobCount |-> 0]

Init ==
  /\ mode \in {m \in [Drives -> ModeKinds] : \A d \in Drives : m[d] \in Modes[d]}
  /\ unit = [d \in Drives |->
       [state |-> "new", multipleCount |-> 0, xferMultiple |-> FALSE]]
  /\ shadow = NoSelect
  /\ devHead \in [dev : Drives, lba : {FALSE}, head : {0}]
  /\ regs = NoRegs
  /\ drv = [d \in Drives |->
       Idle([multiple |-> 0], FALSE)]
  /\ pc = "idle"
  /\ call = NoCall
  /\ job = NoJob
  /\ lba = 0 /\ left = 0 /\ txn = 0 /\ burst = 0
  /\ moved = <<>>
  /\ answer = "failed"

-----------------------------------------------------------------------------
(* The drives.                                                               *)

Least(a, b) == IF a < b THEN a ELSE b

\* The drive that executes commands and whose status the host reads.
Selected == drv[devHead.dev]

\* The address a drive takes from the registers.
AddressIn(ext) ==
  IF ~devHead.lba
  THEN (regs.mid * Heads + devHead.head) * SectorsPerTrack + regs.low - 1
  ELSE (IF ext THEN regs.hob ELSE devHead.head) * LowRange + regs.low

\* A count of 0 is MaxTransfer (256), with 16 bits MaxTransfer^2 (65536).
CountIn(ext) ==
  IF ~ext THEN IF regs.count = 0 THEN MaxTransfer ELSE regs.count
  ELSE LET n == regs.hobCount * MaxTransfer + regs.count
       IN  IF n = 0 THEN MaxTransfer * MaxTransfer ELSE n

\* The selected drive gets a command.  multi: READ or WRITE MULTIPLE, which a
\* drive that has no multiple setting rejects.
GetCommand(op, ext, multi) ==
  LET d == devHead.dev IN
  drv' = IF drv[d].st = "busy" THEN drv ELSE
    [drv EXCEPT ![d] =
      [st |-> "busy", cmd |-> op,
       at |-> IF op \in Transfers THEN AddressIn(ext) ELSE 0,
       todo |-> IF op \in Transfers THEN CountIn(ext)
                ELSE IF op \in OneSector THEN 1 ELSE 0,
       block |-> IF multi THEN @.multiple ELSE 1,
       offered |-> 0, multiple |-> @.multiple, err |-> FALSE]]

Accepts(d) ==
  /\ drv[d].block > 0
  /\ drv[d].cmd = "identify" => mode[d] # "atapi"

DriveOffers(d) ==
  /\ drv[d].st = "busy" /\ drv[d].todo > 0 /\ Accepts(d)
  /\ drv' = [drv EXCEPT ![d].st = "drq",
                        ![d].offered = Least(drv[d].todo, drv[d].block)]
  /\ UNCHANGED <<mode, unit, shadow, devHead, regs, ownerVars>>

DriveDone(d) ==
  /\ drv[d].st = "busy" /\ drv[d].todo = 0 /\ Accepts(d)
  /\ drv' = [drv EXCEPT ![d] = Idle(
       IF drv[d].cmd = "set_multiple" THEN [multiple |-> DrqBlock] ELSE drv[d], FALSE)]
  /\ UNCHANGED <<mode, unit, shadow, devHead, regs, ownerVars>>

DriveFails(d) ==
  /\ drv[d].st = "busy"
  /\ drv' = [drv EXCEPT ![d] = Idle(drv[d], TRUE)]
  /\ UNCHANGED <<mode, unit, shadow, devHead, regs, ownerVars>>

\* A sector goes over the data register: what the selected drive offers, in the
\* direction it offers it, or nothing that means anything.
MoveSector(op) ==
  LET d == devHead.dev
      dr == drv[d]
      good == dr.st = "drq" /\ dr.cmd = op
      last == dr.offered = 1
  IN /\ moved' = IF op \notin Transfers THEN moved ELSE
          Append(moved, IF good THEN <<op, d, dr.at>> ELSE <<"nothing", d, 0>>)
     /\ drv' = IF dr.st # "drq" THEN drv
               ELSE IF dr.todo = 1 /\ dr.cmd \notin {"write", "passthrough_out"}
               THEN [drv EXCEPT ![d] = Idle(dr, FALSE)]
               ELSE [drv EXCEPT ![d].at = @ + 1, ![d].todo = @ - 1, ![d].offered = @ - 1,
                                ![d].st = IF last THEN "busy" ELSE "drq"]

-----------------------------------------------------------------------------
(* The owner.                                                                *)

\* unit->flags.lba, known once the drive has been identified.
HasLba(d) == unit[d].state # "new" /\ mode[d] \in {"lba", "lba48"}

\* The drive/head value for drive d, as ata_select() corrects it.
DrvSel(d) == [dev |-> d, lba |-> HasLba(d), head |-> 0]

\* 0xE0 or 0xF0, as written where ata_select() is not asked.
RawSel(d) == [dev |-> d, lba |-> TRUE, head |-> 0]

\* init_units() and ata_init_unit(): the primary drive first, the select
\* written to the register and to the shadow at once.
AttachUnit(d) ==
  /\ pc = "idle" /\ unit[d].state = "new"
  /\ \A e \in Drives : e < d => unit[e].state \in {"up", "gone"}
  /\ devHead' = RawSel(d)
  /\ shadow' = RawSel(d)
  /\ call' = [op |-> "identify", drive |-> d]
  /\ pc' = "select"
  /\ UNCHANGED <<mode, unit, regs, drv, job, lba, left, txn, burst, moved, answer>>

\* No drive answers there: the unit is freed and the shadow forgotten.
NoDrive(d) ==
  /\ pc = "idle" /\ unit[d].state = "new"
  /\ \A e \in Drives : e < d => unit[e].state \in {"up", "gone"}
  /\ devHead' = RawSel(d)
  /\ shadow' = NoSelect
  /\ unit' = [unit EXCEPT ![d].state = "gone"]
  /\ UNCHANGED <<mode, regs, drv, ownerVars>>

Running == \A d \in Drives : unit[d].state \in {"up", "gone"}

\* ata_read() and ata_write() are called for a transfer.
Ask(j) ==
  /\ pc = "idle" /\ Running
  /\ unit[j.drive].state = "up" /\ mode[j.drive] # "atapi"
  /\ job' = j
  /\ lba' = j.lba
  /\ left' = j.count
  /\ moved' = <<>>
  /\ answer' = "none"
  /\ call' = [op |-> j.op, drive |-> j.drive]
  /\ pc' = "select"
  /\ UNCHANGED <<mode, unit, shadow, devHead, regs, drv, txn, burst>>

\* scsi_ata_passthrough(), for the ATAPI drive atapi_packet(), and for either
\* ata_set_pio(), which does not select the drive first.
Call(op, d) ==
  /\ pc = "idle" /\ Running
  /\ unit[d].state = "up"
  /\ op # "set_pio" => (op = "packet" <=> mode[d] = "atapi")
  /\ call' = [op |-> op, drive |-> d]
  /\ pc' = IF op = "set_pio" THEN "registers" ELSE "select"
  /\ UNCHANGED <<mode, unit, shadow, devHead, regs, drv, job, lba, left, txn,
                 burst, moved, answer>>

\* ata_select() up to its write; nothing to do if the shadow has that value.
\* It waits for the drive selected so far, and goes on if that stays busy.
Select ==
  /\ pc = "select"
  /\ IF shadow = DrvSel(call.drive)
     THEN pc' = "ready" /\ UNCHANGED devHead
     ELSE pc' = "settle" /\ devHead' = DrvSel(call.drive)
  /\ UNCHANGED <<mode, unit, shadow, regs, drv, call, job, lba, left, txn, burst,
                 moved, answer>>

\* The rest of it: the shadow is set after a delay.
Settle ==
  /\ pc = "settle"
  /\ shadow' = DrvSel(call.drive)
  /\ pc' = "ready"
  /\ UNCHANGED <<mode, unit, devHead, regs, drv, call, job, lba, left, txn, burst,
                 moved, answer>>

Returned == pc' = "idle" /\ call' = NoCall

\* init_units() frees a unit it cannot use, and forgets the shadow.
GiveUp(d) ==
  /\ unit' = [unit EXCEPT ![d].state = "gone"]
  /\ shadow' = NoSelect
  /\ Returned

\* What the owner finds when ata_identify() returns in ata_init_unit(): the
\* drive has a multiple count to set or none; it may be an ATAPI drive; or it
\* has a geometry the driver cannot use, is no drive the driver knows, or
\* atapi_init_unit() fails.
EndIdentify(ok) ==
  LET d == call.drive IN
  /\ call.op = "identify"
  /\ \/ /\ ok
        /\ unit' = [unit EXCEPT ![d].state = "identified"]
        /\ call' = [call EXCEPT !.op = "set_multiple"]
        /\ pc' = "select"
        /\ UNCHANGED shadow
     \/ /\ ok \/ mode[d] = "atapi"
        /\ unit' = [unit EXCEPT ![d].state = "up", ![d].multipleCount = 1]
        /\ Returned
        /\ UNCHANGED shadow
     \/ GiveUp(d)
  /\ UNCHANGED <<job, moved, answer>>

\* Mutant: the count is kept although the drive did not take it.
EndSetMultipleKeepsCount(ok) ==
  /\ call.op = "set_multiple"
  /\ unit' = [unit EXCEPT ![call.drive] =
       [state |-> "up", xferMultiple |-> ok, multipleCount |-> DrqBlock]]
  /\ Returned
  /\ UNCHANGED <<shadow, job, moved, answer>>

\* Mutant: what ata_set_multiple() returns is not looked at.
EndSetMultipleUnchecked(ok) ==
  /\ call.op = "set_multiple"
  /\ unit' = [unit EXCEPT ![call.drive] =
       [state |-> "up", xferMultiple |-> TRUE, multipleCount |-> DrqBlock]]
  /\ Returned
  /\ UNCHANGED <<shadow, job, moved, answer>>

\* The drive may still turn out to have no usable geometry.
EndSetMultiple(ok) ==
  /\ call.op = "set_multiple"
  /\ \/ /\ unit' = [unit EXCEPT ![call.drive] =
            [state |-> "up", xferMultiple |-> ok, multipleCount |-> IF ok THEN DrqBlock ELSE 1]]
        /\ Returned
        /\ UNCHANGED shadow
     \/ GiveUp(call.drive)
  /\ UNCHANGED <<job, moved, answer>>

EndTransfer(ok) ==
  /\ call.op \in Transfers
  /\ answer' = IF ok THEN "ok" ELSE "failed"
  /\ job' = NoJob
  /\ moved' = <<>>
  /\ Returned
  /\ UNCHANGED <<shadow, unit>>

EndCall(ok) ==
  /\ call.op \notin Transfers \cup {"identify", "set_multiple"}
  /\ Returned
  /\ UNCHANGED <<shadow, unit, job, moved, answer>>

\* The function returns, and its local variables are gone.
End(ok) ==
  /\ EndIdentify(ok) \/ EndSetMultiple(ok) \/ EndTransfer(ok) \/ EndCall(ok)
  /\ lba' = 0 /\ left' = 0 /\ txn' = 0 /\ burst' = 0
  /\ UNCHANGED <<mode, devHead, regs, drv>>

\* ata_wait_ready(), ata_wait_not_busy() or, for a packet, no data on offer
\* either; if the time is up, the call fails.
IsReady == IF call.op = "packet" THEN Selected.st = "idle" ELSE Selected.st # "busy"

WaitReady ==
  /\ pc = "ready"
  /\ IsReady
  /\ pc' = IF call.op \in Transfers THEN "next" ELSE "registers"
  /\ UNCHANGED <<mode, unit, shadow, devHead, regs, drv, call, job, lba, left, txn,
                 burst, moved, answer>>

ReadyTimeout ==
  /\ pc = "ready"
  /\ ~IsReady
  /\ End(FALSE)

\* Mutant: a whole command's worth is counted off even for the remainder.
NextCommandCountsWhole ==
  /\ pc = "next" /\ left > 0
  /\ txn' = Least(left, MaxTransfer)
  /\ left' = left - MaxTransfer
  /\ pc' = "registers"
  /\ UNCHANGED <<mode, unit, shadow, devHead, regs, drv, call, job, lba, burst,
                 moved, answer>>

\* The loop over commands: at most MaxTransfer sectors each.
NextCommand ==
  /\ pc = "next" /\ left > 0
  /\ txn' = Least(left, MaxTransfer)
  /\ left' = left - txn'
  /\ pc' = "registers"
  /\ UNCHANGED <<mode, unit, shadow, devHead, regs, drv, call, job, lba, burst,
                 moved, answer>>

AllMoved ==
  /\ pc = "next" /\ left = 0
  /\ End(TRUE)

\* write_taskfile_chs(), _lba() and _lba48(): the sector count is one byte, and
\* only the first two write the drive/head register and its shadow.
TaskfileChs(d, l, n) ==
  /\ devHead' = [dev |-> d, lba |-> FALSE, head |-> (l \div SectorsPerTrack) % Heads]
  /\ shadow' = devHead'
  /\ regs' = [low |-> (l % SectorsPerTrack) + 1, mid |-> l \div (Heads * SectorsPerTrack),
              hob |-> 0, count |-> n % MaxTransfer, hobCount |-> 0]

\* Mutant: the shadow of the drive/head register is forgotten.
TaskfileLbaNoShadow(d, l, n) ==
  /\ devHead' = [dev |-> d, lba |-> TRUE, head |-> l \div LowRange]
  /\ regs' = [low |-> l % LowRange, mid |-> 0, hob |-> 0,
              count |-> n % MaxTransfer, hobCount |-> 0]
  /\ UNCHANGED shadow

TaskfileLba(d, l, n) ==
  /\ devHead' = [dev |-> d, lba |-> TRUE, head |-> l \div LowRange]
  /\ shadow' = devHead'
  /\ regs' = [low |-> l % LowRange, mid |-> 0, hob |-> 0,
              count |-> n % MaxTransfer, hobCount |-> 0]

TaskfileLba48(l, n) ==
  /\ regs' = [low |-> l % LowRange, mid |-> 0, hob |-> l \div LowRange,
              count |-> n % MaxTransfer, hobCount |-> IF n % MaxTransfer = 0 THEN 1 ELSE 0]
  /\ UNCHANGED <<devHead, shadow>>

\* ata_identify() and atapi_packet() write the register past the shadow;
\* ata_set_multiple() leaves it alone.
OwnRegisters(d) ==
  /\ devHead' = IF call.op = "set_multiple" THEN devHead ELSE RawSel(d)
  /\ regs' = NoRegs
  /\ UNCHANGED shadow

ByTaskfile == call.op \notin {"identify", "set_multiple", "packet"}

WriteRegisters ==
  LET d == call.drive IN
  /\ pc = "registers"
  /\ ByTaskfile => Selected.st # "busy"
  /\ \/ call.op \in Transfers /\ mode[d] = "chs" /\ TaskfileChs(d, lba, txn)
     \/ call.op \in Transfers /\ mode[d] = "lba" /\ TaskfileLba(d, lba, txn)
     \/ call.op \in Transfers /\ mode[d] = "lba48" /\ TaskfileLba48(lba, txn)
     \/ ByTaskfile /\ call.op \notin Transfers /\ TaskfileLba(d, 0, 0)
     \/ ~ByTaskfile /\ OwnRegisters(d)
  /\ pc' = "command"
  /\ UNCHANGED <<mode, unit, drv, call, job, lba, left, txn, burst, moved, answer>>

\* An ATAPI drive need not show that it is ready (DRDY), even when it is idle.
RegistersTimeout ==
  /\ pc = "registers"
  /\ ByTaskfile
  /\ Selected.st = "busy" \/ mode[devHead.dev] = "atapi"
  /\ End(FALSE)

\* Mutant: the address is not advanced after a command.
CommandSameLba ==
  LET u == unit[call.drive]
      ext == mode[call.drive] = "lba48"
  IN
  /\ pc = "command"
  /\ GetCommand(call.op, ext, call.op \in Transfers /\ (ext \/ u.xferMultiple))
  /\ lba' = lba
  /\ txn' = IF call.op \in Transfers THEN txn ELSE IF call.op \in OneSector THEN 1 ELSE 0
  /\ pc' = IF call.op \in NoData THEN "nodata" ELSE "drq"
  /\ regs' = NoRegs
  /\ UNCHANGED <<mode, unit, shadow, devHead, call, job, left, burst, moved,
                 answer>>

\* Every command has its registers written anew, so they are forgotten here.
Command ==
  LET u == unit[call.drive]
      ext == mode[call.drive] = "lba48"
  IN
  /\ pc = "command"
  /\ GetCommand(call.op, ext, call.op \in Transfers /\ (ext \/ u.xferMultiple))
  /\ IF call.op \in Transfers
     THEN lba' = lba + txn /\ txn' = txn
     ELSE lba' = lba /\ txn' = IF call.op \in OneSector THEN 1 ELSE 0
  /\ pc' = IF call.op \in NoData THEN "nodata" ELSE "drq"
  /\ regs' = NoRegs
  /\ UNCHANGED <<mode, unit, shadow, devHead, call, job, left, burst, moved,
                 answer>>

\* ata_wait_drq(): the call fails on an error, and when the time is up.
WaitDrq ==
  /\ pc = "drq"
  /\ Selected.st = "drq"
  /\ pc' = "xfer"
  /\ UNCHANGED <<mode, unit, shadow, devHead, regs, drv, call, job, lba, left, txn,
                 burst, moved, answer>>

NoDrq ==
  /\ pc = "drq"
  /\ Selected.st # "drq"
  /\ End(FALSE)

\* Up to multipleCount sectors before DRQ is looked at again.
Transfer ==
  /\ pc = "xfer"
  /\ MoveSector(call.op)
  /\ txn' = txn - 1
  /\ IF txn > 1 /\ burst + 1 < unit[call.drive].multipleCount
     THEN burst' = burst + 1 /\ pc' = "xfer"
     ELSE /\ burst' = 0
          /\ pc' = IF txn > 1 THEN "drq"
                   ELSE IF call.op \in Transfers \cup {"identify"} THEN "next" ELSE "nodata"
  /\ UNCHANGED <<mode, unit, shadow, devHead, regs, call, job, lba, left, answer>>

\* The end of a command without data: wait, then look for an error.
Finish ==
  /\ pc = "nodata"
  /\ End(Selected.st # "busy" /\ ~Selected.err)

OwnerStep ==
  \/ Select \/ Settle \/ WaitReady \/ ReadyTimeout \/ NextCommand \/ AllMoved
  \/ WriteRegisters \/ RegistersTimeout \/ Command \/ WaitDrq \/ NoDrq
  \/ Transfer \/ Finish

-----------------------------------------------------------------------------
DriveStep == \E d \in Drives : DriveOffers(d) \/ DriveDone(d) \/ DriveFails(d)

Next ==
  \/ \E d \in Drives : AttachUnit(d) \/ NoDrive(d)
  \/ \E j \in Jobs : Ask(j)
  \/ \E d \in Drives, op \in Called :
       Call(op, d)
  \/ OwnerStep
  \/ DriveStep

\* Every wait of the owner ends: it tries a bounded number of times.
Spec == Init /\ [][Next]_vars /\ WF_vars(OwnerStep)

-----------------------------------------------------------------------------
(* Properties.                                                               *)

\* ata_read() and ata_write() move exactly the sectors asked for, of the drive
\* asked for, in order, whatever mode each drive is in, whatever the other
\* drive was last told, and whatever an earlier call left unfinished; they
\* succeed only when all are moved, and always return.
Promise == INSTANCE BlockTransfer
KeepsPromise == Promise!Spec

\* The shadow tells the truth about what matters to ata_select(): a call that
\* finds its own value there writes nothing, so the drive must be selected, in
\* the addressing it will use.
ShadowIsTrue ==
  pc \in {"ready", "next"} /\ call.op \in Transfers =>
    /\ devHead.dev = call.drive
    /\ mode[call.drive] = "lba48" => devHead.lba

\* The host never takes more sectors from the drive than it has on offer: the
\* count of the unit and the drive's own setting agree.
TakesWhatIsOffered == pc = "xfer" => Selected.st = "drq"

\* What init_units() leaves behind suits what every later transfer assumes: a
\* unit that transfers MULTIPLE has a drive that was told the same count.
MultipleAgrees ==
  \A d \in Drives : unit[d].xferMultiple =>
    drv[d].multiple = unit[d].multipleCount
=============================================================================
