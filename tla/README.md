# Verification of lide.device

`lide.device` is an AmigaOS driver for IDE disks and ATAPI drives, with two
tools (`lideflash`, `lidetool`) and a boot ROM. This directory holds TLA+
specifications translated from its C sources, TLC configurations that check
them on small instances, and proofs checked by TLAPS.

    tlc -config MCIoTask_commands.cfg MCIoTask       # a run (see PROJECT.json)
    tlapm IoTask_proofs.tla                          # the proofs of a module

`PROJECT.json` lists the runs, the lines each definition stands for, the
mutants that show that each property can fail, the findings and the hazards.

## 1. The system

Every client program calls `begin_io()` and `abort_io()` in its own task. A
command is either completed there or put into the message port of the IO task
that owns the unit's channel. The system is preemptive: Exec runs the ready task
of highest priority (IO tasks have 11), `Forbid()` and `Disable()` exclude others.

| Part | State | Operations | Hard to get right | Correct when |
|---|---|---|---|---|
| Requests and IO task (`device.c` 211-239, 723-942, `iotask.c` 399-666) | `iomp`, `paused`, signals, `changeInts`, `dcTimerReq`; flags, type and error of each request | `begin_io`, `abort_io`, `process_ioreq`, `io_task`, CMD_PAUSE/RESUME, TD_ADD/REMCHANGEINT | queue against abort, signal against sleep, stale CTRL_D, timer against queue | each request is answered once and truthfully; nothing is slept on; a pause can be resumed |
| ATAPI media and transfers (`atapi.c` 257-384, 616-788, 1081-1190, `iotask.c` 344-389, 423-534) | `mediumPresent`, `mediumPresentPrev`, `changeCount`, geometry | poll, TD_CHANGESTATE, CMD_START/STOP, TD_EJECT, transfers with retries | the user changes discs between packets; packets fail; sense data is late | geometry is that of the disc; no transfer on another disc; answers tell what happened |
| Start and end of an IO task (`iotask.c` 34-99, 230-335, 590-640, `device.c` 341-499, `lide_alib.c`) | `itask->active`, `ideTasks`, unit list, ports, timers | `create_timer`, `init_units`, `cleanup`, CMD_DIE, handshake with `init_device` | any allocation fails; `SIGF_SINGLE` is shared; `cleanup()` may wait for another task's poll | nothing is freed twice or used after; every listed task is alive |
| Open, close, expunge (`device.c` 246-271, 510-681) | `openCount`, `lib_OpenCnt`, unit list | `open`, `close`, `expunge` | semaphore under `Forbid()`; change interrupts of a closed client | no unit goes while it is open |
| Two channels (`iotask.c` 344-389, `scsi.c` 142-213) | `scsiCmdInUse`, registers, timer of a unit | each task's poll of all units | two tasks on one channel | each channel has one user at a time |
| ATA driver (`ata.c`) | shadow and real drive/head register, DRQ phase, `multipleCount` | `ata_select`, `ata_read`, `ata_write`, task files, `ata_set_multiple`, pass-through | two drives on one shadow; the last block's status | blocks go to the selected drive; errors are reported |
| ATAPI packets and SCSI translation (`atapi.c` 400-604, 803-1069, 1200-1482) | packet phase, converted CDBs and data | `atapi_packet`, MODE SENSE/SELECT(6), READ/WRITE(6), audio | phases, byte counts, short buffers | no more bytes than the buffer has; equal meaning of both forms |
| SCSI emulation (`scsi.c`, `iotask.c` 107-227) | none | INQUIRY, READ CAPACITY, MODE SENSE, sense data | limits of 32 bits, division by the cylinder | answers describe the drive |
| Addresses, geometry, names (`iotask.c` 495-527, `device.c` 73-110, 623-654) | none | LBA from offset, block shift, CHS, device names | shifts by 32, truncation | the block the client named |
| lideflash (`lideflash/*.c`) | flash contents, bank select, paused tasks, inhibited file systems | inhibit, suspend, erase, program, verify, reboot | many exits, boards of several makes, failures on the way | only what was asked for is written, nothing uses a drive meanwhile, everything runs again |
| lidetool, boot ROM, mounter, debug | - | - | tools, assembler, third-party, logging | - |

Interactions: clients and IO task share the request (message node, `io_Flags`,
`io_Error`), the port and `paused`. IO task and unit share the unit's flags,
which `begin_io()` reads for TD_CHANGENUM. The IO task drives the hardware with
waits that always time out. lideflash is a client that sends CMD_PAUSE and
CMD_RESUME to each task at priority 20. `init_device()` waits for each new task.

The hazards, each at its line and with the properties that are about it, are in
`PROJECT.json`; section 8 has those that no property covers.

## 2. The plan

Done, in this order: the request's contract and the IO task (`ExecIO`, `IoTask`),
removable media (`AtapiUnit`), the channel (`BlockTransfer`, `AtaChannel`) and its
foreign users (`ForeignPoll`), start and end (`DeviceLife`), SCSI commands and
addresses (`ScsiDirect`, `Address`), the flash tool (`FlashUpdate`); proofs of every
safety invariant that a passing run checks, of the contract of IoTask and of the
steps of BlockTransfer.

Left:

1. The race for a unit's own SCSICmd between the poll of another task and the
   unit's task (`scsi.c` 142-213), as one more step of `ForeignPoll`.
2. The choice of PIO modes, the length of pass-through commands and the names of
   devices, as operators next to `Address`.
3. Proofs: what of DeviceLife still holds once a task was overtaken; that
   ForeignPoll's other tasks leave alone what AtaChannel's invariant says of the
   drives they do not command.

## 3. The modules

| Module | Models | Composed with |
|---|---|---|
| ExecIO | what an Exec device promises for each request | implemented by IoTask |
| IoTask | `begin_io()`, `abort_io()`, `io_task()`, CMD_PAUSE and CMD_RESUME | |
| AtapiUnit | one ATAPI unit, its medium, transfers and the poll, packet by packet | the step "drive operation" of IoTask |
| BlockTransfer | what `ata_read()` and `ata_write()` promise | implemented by AtaChannel |
| AtaChannel | `ata.c` on one channel with two drives, register by register | |
| ForeignPoll | another channel's task that polls this one | EXTENDS AtaChannel |
| DeviceLife | `init_device()`, life of the IO tasks, open, close, expunge | |
| Address | block addresses, end of the drive and of a cylinder | used by ScsiDirect |
| ScsiDirect | SCSI commands, emulated or sent as packets, phase by phase | EXTENDS Address |
| FlashUpdate | `lideflash` | a client as in IoTask |

MC modules instantiate them; `IoTask_proofs`, `IoTask_contract`, `AtapiUnit_proofs`,
`AtaChannel_proofs`, `DeviceLife_proofs`, `ScsiDirect_proofs` (with what is proved
of Address) and `FlashUpdate_proofs` hold the proofs, `DataLemmas` what they share.
Definitions called "Mutant" in a comment are the plausible bugs that show that a
property can fail; no specification uses them.

**ExecIO** says what an Exec device promises for each request: it is with its
client, with the driver, held (TD_ADDCHANGEINT) or on the client's port; it is
answered once, and only what is on the port is collected.

**IoTask** is the detailed specification. A client is at `cpc[r]`: the steps of
`begin_io()` that others can see are separate (the type of the message, the
tests of `paused`, `PutMsg()`, the signal and the clearing of the flag). The IO
task is at `tpc`: `wait`, `drain` (the `GetMsg()` loop), `io` (a command), the
four statements of CMD_PAUSE, `timer` and `check` (the poll). Commands are
classed by path: all that `begin_io()` completes itself are `IMMEDIATE`, all for
the task `TO_TASK`, but for CMD_XFER, whose answer to an unknown mode is
IOERR_ABORTED. `MayRun` is the scheduler: clients of lower priority run only while
the task sleeps; those in `Preempting` run at any time. Exec's own operations are
single steps and marked external. `runs` is history. `abort_io()` on a request
that is not queued changes nothing and is no step. Exec's `Wait()` returns all
signals of the mask, which `got` keeps. `Contract` instantiates ExecIO with the
phase computed from `replies`, `cpc` and `changeInts`.

**AtapiUnit** takes the drive operation apart. One task works on one `job`; one
step is one packet (`TestUnitReady`, `TurSense`, `GetCapacity`, `Transfer`,
`TransferSense`, `StartStopUnit`), so that `Insert`, `Remove` and `SpinUp` come
between any two, also between the tries of one transfer. A disc is the number of its insertion; `geom` is the disc whose
capacity the unit holds. `Packet` is `atapi_packet()`: it ends as the drive's
state says (unit attention first, then medium, then readiness), or by one of
`MaxFaults` faults. `try`, `ret` and `status2` are the locals of the retry
loops: `ret` keeps what an earlier try left, and `status2` is the `scsi_Status`
that nobody clears. The commands to start, stop and eject do what they say or
not, and a TEST UNIT READY follows; their own answer is left out.

**BlockTransfer** is a transfer without registers: blocks are moved in order, of
the drive and from the address asked for, and success means all of them.

**AtaChannel** has the two drives as processes of their own (`drv`): a drive that
got a command may offer a DRQ block, finish, fail, or stay busy past every time
limit and answer later, which is how a call that gave up meets the next one. The
task file is shared; what counts is what the selected drive makes of it
(`AddressIn`, `CountIn`). The owner goes through `pc`, from `select` (the shadow
compared, the register written) and `settle` (the shadow set) over `registers`,
`command` and `drq` to `xfer`, a sector at a time. `init_units()` comes first, so
every transfer runs with what identification and SET MULTIPLE left. `moved` is
history and is what BlockTransfer sees; a sector taken from a drive that does not
offer it, or offers it in the other direction, is recorded as `nothing`. The
maximum of 256 sectors, the 8 bit registers and the CHS geometry are constants,
so that a transfer crosses all of them at small sizes; the module uses the same
arithmetic with `MaxTransfer` for 256 and `LowRange` for the three LBA registers.
What is in the registers or in a local after its last use is reset, which merges
states that differ in nothing the code reads.

**ForeignPoll** adds tasks of other channels that have removable drives: each
goes through `dev->units` in `diskchange_check()` and so selects and commands this
channel's ATAPI drive at any moment.

**DeviceLife** keeps memory as a set of live objects, and pointers that are not
NULL as another: freeing what is no longer alive, or using it, is recorded in
`misuse`. `init_device()` goes over boards and channels (`ipc`), each task over
`tpc`; every allocation in `MayFail` may fail at any time. `single` is SIGF_SINGLE.
The driver creates its tasks with priority 11, so `init_device()`, whose caller has
less, takes a step only while each of them sleeps (`Sleeps`): it has not begun or
has ended, waits for its drives, for requests, in the middle of a poll, or in
`cleanup()` for `dev->ulSem` while another task polls. The last is how a task that
gave up after it was `active` is `overtaken`: listed by `init_device()`, with its
signal still to come. That is the history by which the properties say when they
promise something; the steps of the model go on after it as the code's do. A poll
reads each unit in the list, its commands and the timer of its task (`PollUses`).
`units` is the
unit list as a set: its order matters to nobody, since numbers are unique
(`UnitsAreFound`). Then clients open and close, and Exec asks to expunge; `held`
says that a request is open, which `CountsAgree` compares with the counts of the
device and of each unit.

**Address** has the arithmetic of `process_ioreq()` and READ CAPACITY with the
word sizes as constants; shifts are products cut to a word.

**ScsiDirect** is one request at a time, from `process_ioreq()` to the phases of
`atapi_packet()`, for an ATA unit (emulation) or an ATAPI unit. `frames` is the
stack of calls of `atapi_packet()`, because autosense sends REQUEST SENSE from
within the failed one; `mem` and `inUse` are what a translation holds meanwhile.
Data are lengths in bytes. In each phase the drive does what it likes: too little,
an error, the wrong phase, nothing. It offers no DRQ block above the limit that it
was told, once for a command, in the byte count registers (`MayOffer`); how much it
offers in all is its own affair, but for commands of the driver's own, whose CDBs
say it: REQUEST SENSE, MODE SENSE and the table of contents. A table of
contents is any that has its tracks below the lead-out's number and a lead-out that
is not at 00:00:00. TD_PROTSTATUS takes the same way through the packets, but its
answer goes straight to the client: it has neither a status nor sense data.

**FlashUpdate** is `main()` of lideflash. A cell stands for a share of a bank; the
first `BootSize` of `BankSize` are what comes in front of the driver. A ROM image
is a function from cells to what they hold, so that `AssembleRom` (the header put
on or taken off) is the code's own shift of data. Bank registers belong to the
boards, `flashbase` and `board` to the program, as in the code. Memory that runs
out skips a call silently; `skipped` remembers that it did.

## 4. The runs

| Run | Instance | Question |
|---|---|---|
| iotask_commands | 2 preempting clients, all commands, polling | is a request lost, duplicated or answered untruly; does IoTask implement ExecIO |
| iotask_pauser | 1 pauser below the task's priority, 1 user, 1 with a foreign request | is the pause always ended, is every request answered |
| atapi_media | 3 discs, 2 faults, starts and stops | is the geometry that of the disc, which disc does a transfer touch, does the poll settle |
| ata_channel | a CHS or LBA48 drive with an LBA or ATAPI drive | does `ata.c` implement BlockTransfer whatever the other drive does and earlier calls left |
| device_life | 3 boards, every allocation may fail, tasks poll, 2 clients | are things freed, tasks kept, units found, openers counted; does `init_device()` return |
| scsi | requests of every kind with good and bad buffers and addresses | is every request answered truthfully, and everything given back; how far may an answer leave its buffer |
| flash | 2 boards of 9 kinds, all options | are only the asked banks changed, quietly, and does everything run again |
| iotask_resume_race, atapi_timeouts, ata_shared, life_failures, scsi_six | | findings, section 5 |

Bounds.

- IoTask: two clients suffice for a race between two requests and the task, a
  third for one that disturbs a pair that pauses and resumes; each client sends
  for ever, so no number of commands is bounded. Clients that send the same are
  interchangeable; symmetry is used there and never with a liveness property.
- AtapiUnit: three discs let the disc be exchanged twice during one job; two
  faults let REQUEST SENSE fail after the packet it is for; four exhaust a
  transfer's tries. `MaxCount` bounds only how often clients stop the drive.
  Tries are the code's own nine, four and three.
- AtaChannel: a command moves at most 2 sectors, LBA registers tell 4 addresses
  apart, CHS has 2 heads of 2 sectors and a DRQ block has 2 sectors. The
  transfer of 3 sectors from 2 takes two commands, ends with a remainder and
  crosses a track, a head, a cylinder and the LBA registers.
- DeviceLife: the boards cover configured, one channel, two channels; the three
  tasks they make are one that polls, one that ends and one that starts, so a task
  can be overtaken. `Attached` says which drives there may be: an ATAPI drive alone
  or with an ATA drive, on one channel an ATA drive alone; each may be missing. Unit
  5 may exist, 10 does not. `MaxOpens` bounds how often a client opens: once each.
- ScsiDirect: lengths are one below, at and above each limit of the code; a client
  of a drive has room for 9 bytes where blocks are of 6 or 9. A word is 16: the
  drive of 14 blocks in cylinders of 3 is the largest that READ CAPACITY (10) has a
  number for, its last cylinder goes past its end, and the end of the
  last cylinder asked about does not fit a word; the drive of 20 blocks is too
  large. Transfers begin around the end of the drive, READ (16) also around the last
  address of 64 bits.
- FlashUpdate: 4 cells with 3 in front of the driver, sectors of 2; file sizes
  below, at and above the limits, banks that some boards have and none has, a
  device with a gap in its units and one whose driver is older. A file of one
  byte is left out by an assumption (the progress is divided by its size less one).

Deadlock is checked but in the runs of DeviceLife (the device may fail to start),
AtaChannel (there may be no drive) and FlashUpdate (the program ends).

Fairness. IoTask: the task is weakly fair, because drive operations time out;
clients are strongly fair, because Exec shares the processor between equal
priorities and the task sleeps in its drive operations; a client that may resume
does resume a paused task. AtapiUnit: the driver is weakly fair; a starting drive
gets up; the poll is strongly fair, which the code gives when the queue is empty
now and then (section 8). AtaChannel: the owner is weakly fair, because each of
its waits counts its tries; drives are not fair at all. DeviceLife:
`init_device()` is weakly fair and tasks strongly, as tasks are that wait for a
semaphore again and again free; it is free again and again (`[]<>~Polling`), because
a poll ends within its time limits and then its task sleeps for two seconds. ScsiDirect: the task is
weakly fair for the same reason as AtaChannel's. FlashUpdate: the program is weakly
fair; the user answers, and so do processes that are sent a packet.

What the properties are about is said at each of them. The refinements are
`ContractKept` (IoTask implements ExecIO; also proved) and `KeepsPromise`
(AtaChannel implements BlockTransfer, its fairness included). `Written` is
also what a power failure leaves: every board before the one at hand holds what
was asked, so at most that one is harmed.

## 5. What the checks found

- A CMD_RESUME between the answer to CMD_PAUSE and `SetSignal()` is lost and the
  task waits for ever (`iotask_resume_race`); it takes a client that preempts
  the IO task, as lideflash does.
- A transfer whose tries all time out is answered 0 (`atapi_timeouts`).
- Another channel's poll in the middle of a transfer moves the wrong blocks
  (`ata_shared`).
- A timer that cannot be created is freed twice (`life_failures`); so are the
  SCSI command of an ATAPI unit without a sense command, and the list of units
  is followed through freed memory.
- READ (6) and WRITE (6) on an ATAPI drive are sent with a block count of 0 and
  answered 0 (`scsi_six`).

Three more are steps of passing runs. Their properties make an exception for each,
and say that nothing else goes wrong in that way:

- A disc exchanged while its unit counts as present is announced by the drive, but
  the unit attention is taken for "ready" (`atapi.c` 656) or tried again (357), so
  neither the change count nor the geometry follows: transfers, ETD ones included,
  go on with those of the old disc (`unseen` in `PresentGeometry` and
  `TransferOnKnownDisc`).
- A task that gives up after it was active, and in `cleanup()` waits for another
  task's poll (`iotask.c` 317), is listed by `init_device()`; its late signal is then
  taken for that of the next task, whose structure is freed while it starts, although
  `device.c` 471 says that a task that is not active has exited (`overtaken` in the
  properties of DeviceLife).
- A block of an ATAPI drive that begins before the end of the client's buffer is
  stored whole, since what remains is counted block by block (`atapi.c` 539, 561): it
  ends past the buffer. The branch that is meant for such data (549) is reached only
  by blocks that begin when nothing remains. `OverrunIsBounded` says how far it goes.

## 6. The proofs

`IoTask_proofs`: for any requests, commands and priorities, `Spec` implies the
type invariant, `OnePlace`, `WaitIOSound`, `NoLostMessage`, `PollPending`,
`PausedMeansQuiet` and `AnswerTellsTruth`. The invariants are not inductive:
OnePlace needs to know which requests a client at each point may have in the
queue, that `cur` is set exactly while the task is at a command, and that
TD_REMCHANGEINT finds its own request; PausedMeansQuiet needs to know where a
resuming client is when the signal is pending. `IInv` is their conjunction. A
step of `begin_io()` that touches only its own request is dealt with by one lemma,
the others one by one. `AnswerTellsTruth` has an invariant of its own over `IInv`,
`AnswerInv`: an unanswered command for the drive has not run and was not taken back,
and its client never answers it itself. The property speaks of a history of what
`abort_io()` answered (`recalled`), not of the error alone: a packet that fails is
answered IOERR_ABORTED too, after it ran (atapi.c:471, 504). `NotStranded` is proved for one client below the task's priority
that pauses and resumes, any others doing anything else: `StrandInv` says that the
task, once it waits, is still marked paused or has its signal. For a client that
preempts the task it is false (`iotask_resume_race`). `DataLemmas` gives what Append, Tail and RemoveAt do to the
elements of a queue without duplicates.

`IoTask_contract`: `Spec => ContractKept`. The initial states map to the contract's,
and under `IInv` each step maps to one of its steps or to none: CallBeginIO to Send
or Recall, SendToTask to Defer, AddChangeInt to Hold, FinishQuick to Return, the
three replies to Reply, WaitIO to Collect. It needs one more fact, that a request
that is out waits for a message (`OutIsNotQuick`): only then is an answer by the
task, or by `abort_io()`, the contract's Reply.

`AtapiUnit_proofs`: for any number of discs and faults, the type invariant,
`PresentGeometry` and `TransferOnKnownDisc`. Both speak of exchanges as well:
`unseen` is the history of a disc put in while the unit counted as present, the one
thing that may make a transfer touch another disc than the one it was checked
against. `IInv` adds what a step of a job
relies on: READ CAPACITY is asked only of an absent unit, a transfer is under
way only on a present one and with the count of this presence, data has moved
only at the end of a transfer, and the current count stands for the disc whose
geometry is held.

`AtaChannel_proofs`: for any drives, jobs, sizes of a command, of a DRQ block and of
the registers, the type invariant, `ShadowIsTrue`, `TakesWhatIsOffered` and
`MultipleAgrees`, and in `MovesWhatWasAsked` that each step is one of BlockTransfer's
or none: the safety half of `KeepsPromise`. `IInv` says which function may be where
(`CallInv`); that but between the two halves of `ata_select()` the shadow names the
selected drive (`SelectInv`); that a drive offers a part of what it has to move, and
that a unit with MULTIPLE has a drive that was told so (`DriveInv`,
`SetMultipleInv`: an answer to SET MULTIPLE without an error is that command's); how
`lba`, `left` and `txn` stand to the blocks moved (`CountInv`); that the drive was
told this address and count in the form it understands (`ToldInv`, which needs
that CHS and LBA are undone by the drive's own arithmetic); and that sectors are
taken while some are offered (`BurstInv`).

`DeviceLife_proofs`: for any boards, any allocations that fail, any polls and any
clients, the type invariant, and `UsesWhatIsThere`, `NothingIsLeft`, `ListedServe`,
`UnitsAreFound` and `CountsAgree`, which promise something until a task is
overtaken: afterwards the structure of a task that runs may be freed. The invariant is `TypeInv /\ (overtaken = {} => IInv)`.
`IInv` divides the tasks into those ahead of `init_device()`, the one it waits for,
and the others, which run for good and are listed or have ended and are freed
(`TaskInv`); the signal is set only when the task waited for has reported
(`SignalInv`); what is allocated has a pointer and belongs to a task or a unit that
is still there (`TimersOk`, `UnitMemOk`), which is what makes a poll safe
(`PollIsSafe`); a board is kept exactly for its listed tasks
(`ConfigInv`); requests are open only for units in the list (`ClientInv`).

`ScsiDirect_proofs`: first the arithmetic of Address, for all sizes: `Lba` is the
64 bit byte address divided by the block size, although it is put together from
shifted halves; the end of the cylinder is its last block and never before the
block asked about; the test for the end of the drive is right where the sum does not
wrap. Then, for any requests, buffers, drives and discs, the type invariant,
`GivesAllBack`, `AnswerIsTold`, `OverrunIsBounded`, `ModeDataIsTrue`, `PlayIsTrue` and
`AddressIsTrue`. `IInv` says what each function holds while its packet is under way
(`OwnerInv`); that the stack is empty, or the call of that function (`Outer`), or
this one and the REQUEST SENSE it waits for (`Inner`), each with an even number of
bytes that fits or, in a client's own packet, leaves its buffer by less than one
block (`StackInv`, `Fills`); that sense data are told only by a call that wanted
them and failed (`ToldInv`); and that what was sent is what the request says
(`SentInv`, `DataInv`). `AddressIsTrue` has one hypothesis: blocks have more than
one byte. Then the sum in the test for the end does not wrap for a plain transfer
(`PlainFits`) or for addresses of 32 bits (`SumOfWords`), and a READ (16) that passes
the test either is on the drive or has an end of more than 64 bits (`NotPastEnd`).
That `OverrunIsBounded` excludes TD_PROTSTATUS, whose
`io_Actual` is a truth value, and that a disc whose lead-out is at 00:00:00 would
have no frame before it, are what the attempts at these proofs showed.

`FlashUpdate_proofs`: `Quiet` and `RestoresAll`, for any machine, request, file
systems and devices. `IInv` has a part for each thing main() must remember: that
every file system that can be told is inhibited from the scan of the boards on,
and that those not yet let go are still in the list (`FilesInv`); which tasks are
paused (`PausedInv`): at any point of `suspend_lide()`'s two loops those of the
pairs of device and unit that the loops have passed, all of them while a chip is
written, none that was passed on the way back; and that an IDE interface that is
off will see a reboot (`RebootInv`). The loops skip pairs without a command:
`MaxIsLargest` and `PausableAddressed` show that no task is reached only by those.
The type invariant, `OnlyAskedBanks` and `Written` rest on a second one over it,
`FlashInv`: the bank that is shown is the one meant and no loop leaves it
(`ShownInv`); what the loops have erased and written so far, and that banks to be
written later are still blank if the chip was erased (`ProgressInv`); and that boards
done with hold what was asked (`DoneInv`). The lemma `Assembled` compares the ROM
image that `AssembleRom` builds by shifting with the form `Written` asks for.

Assumptions: the named assumptions of each module (types and ranges of the
constants), which TLC evaluates in every run.

Only model-checked: liveness (`QueuedIsAnswered`, `PollConverges`, `InitReturns`,
`Answered`, `Ends` and the fairness part of `KeepsPromise`), which is beyond the
prover, as are ENABLED and induction over recursive definitions (none is used).

## 7. What is not modelled

- `begin_io()`'s exit for a task that has ended: a listed task serves for good,
  as `ListedServe` shows.
- TD_GETGEOMETRY, NSCMD_DEVICEQUERY and the contents of INQUIRY data and mode
  pages (copies of fields), `set_dev_name()` and the boot list (loops over
  lists that nobody changes meanwhile), the choice of a PIO mode, the decoding
  of pass-through commands, the sense data of CMD_START, CMD_STOP and TD_EJECT.
- lidetool: its commands are in IoTask and AtaChannel, it keeps no state.
- The data bus: bytes of a sector are not modelled, so neither are the copy
  routines of `blockcopy.h`.
- Machine code (boot ROM, boot block), the third-party mounter, debug output.

## 8. Known hazards without a property

Some are in a model as a step, but neither a doc, a comment nor a test of the
repository promises what should happen; others need numbers or contents that the
models abstract from.

- Two tasks may get one unit's own SCSICmd, or take a busy one for an absent
  medium (`scsi.c` 173); `io_Actual` is read from it after its release (`atapi.c` 383).
- A queue that is kept filled puts off the poll without bound (`iotask.c` 649).
- A transfer that succeeds when tried again is answered with the error of its
  first try (`atapi.c` 331), and `io_Actual` is the whole length although an ATA
  transfer failed (`iotask.c` 536). `ata_write()` does not look at the status after
  its last block (`ata.c` 607).
- `changeCount` has 16 bits and goes up at every poll of a disc whose capacity
  cannot be read (`atapi.c` 1176); the count of blocks is cut to 16 bits
  (`atapi.c` 329).
- `ata_set_pio()` neither selects its drive nor waits for it (`ata.c` 759); a
  pass-through clears the field that holds its length (`ata.c` 801); lidetool
  writes `multipleCount` from another task (`lidetool/main.c` 389).
- A second TD_ADDCHANGEINT with one request (`device.c` 790) and a close that
  leaves change interrupts linked (`device.c` 663): clients must not do that.
- `L_CreatePort()` keeps its signal when there is no memory (`lide_alib.c` 47).
- A request refused before any command fetches the sense data of an earlier one
  (`atapi.c` 577); REQUEST SENSE is repeated after the drive has cleared them
  (`atapi.c` 1410); the version is written into INQUIRY data of any length
  (`atapi.c` 1438); a table of contents may be inconsistent (`atapi.c` 1267).
- lideflash does not use the result of its verification (`lideflash/main.c` 788),
  erases a whole chip before it refuses the only file (796), touches the IDE
  registers of a board before it pauses its tasks (291) and divides by the size
  of a file less one (974).
