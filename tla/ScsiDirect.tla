----------------------------- MODULE ScsiDirect -----------------------------
(***************************************************************************)
(* HD_SCSICMD and plain transfers of one unit, from process_ioreq() down to *)
(* the phases of atapi_packet().  An ATA unit gets its SCSI commands        *)
(* emulated (scsi.c, handle_scsi_command()); an ATAPI unit gets packets,    *)
(* with those commands translated that ATAPI drives do not know (atapi.c).  *)
(*                                                                         *)
(* The IO task is sequential: the drive chooses how each phase goes.  A     *)
(* packet that fails may call for another one, REQUEST SENSE, while it is   *)
(* still active, and translations use the unit's own command while the      *)
(* client's waits: frames is the stack of active atapi_packet() calls.      *)
(* Data are their lengths in bytes.                                         *)
(***************************************************************************)
EXTENDS Address, Sequences, FiniteSets

CONSTANTS
  AtaRequests,    \* what clients may ask an ATA unit for, see Request
  AtapiRequests,  \* and an ATAPI unit
  NoRequest,      \* nothing was asked yet
  PerCylinder,    \* sectorsPerTrack * heads of an ATA drive
  SenseSize,      \* sizeof(struct SCSI_FIXED_SENSE)
  AnswerSize,     \* bytes of the emulated INQUIRY and READ CAPACITY (16) data
  Burst,          \* how much a drive offers at a time if not all of it
  ModeTotals,     \* how long the mode data of an ATAPI drive may be
  Tocs,           \* the tables of contents of discs, see Toc
  TocSize         \* SCSI_TOC_SIZE

VARIABLES
  atapi,          \* unit->flags.atapi
  req,            \* the request being served, or the last one served
  pc,             \* the function that waits for its packet, or where it is
  cmd,            \* the fields of the client's SCSICmd that are written
  error,          \* error of handle_scsi_command() and process_ioreq()
  sense,          \* whose sense data are in the client's buffer
  frames,         \* the calls of atapi_packet() that are active, newest first
  back,           \* the call that returned last
  inUse,          \* scsiCmdInUse and senseCmdInUse of the unit
  mem,            \* the buffers allocated for this request
  tries,          \* retry of atapi_autosense()
  toc,            \* the table of contents read for this request
  drive,          \* the drive's BSY and ERR
  sent            \* history: the commands given to the drive for this request,
                  \* other than REQUEST SENSE

vars == <<atapi, req, pc, cmd, error, sense, frames, back, inUse, mem, tries,
          toc, drive, sent>>

-----------------------------------------------------------------------------
ReadWrite == {"rw6", "rw10", "rw16"}
Emulated  == {"tur", "inquiry", "modesense6", "cap10", "cap16", "passthrough"}
ScsiOps   == ReadWrite \cup Emulated \cup {"modeselect6", "play", "other"}
Ops       == ScsiOps \cup {"io", "protstatus"}

\* data says whether scsi_Data is even, odd or NULL; alloc is the length byte
\* of a mode command or INQUIRY; lba and count are those of the CDB, or
\* io_Actual and io_Offset of a plain transfer; from and to are tracks; sectors
\* is unit->logicalSectors of the unit it names, a drive without a sector not
\* being usable (ata_init_unit()).
Request == [op : Ops, cdb : Nat, data : {"even", "odd", "null"}, length : Nat,
            auto : BOOLEAN, senseLength : Nat, alloc : Nat, lba : Nat,
            count : Nat, page : {"all", "one", "unknown"}, pmi : BOOLEAN,
            from : Nat, to : Nat, sectors : Nat \ {0}]

ASSUME RequestsAssumption ==
  /\ AtaRequests \cup AtapiRequests \subseteq Request
  /\ \A r \in AtaRequests :
       /\ r.op # "protstatus"
       /\ r.op = "io" => r.lba < Word /\ r.count < Word /\ r.length < Word
       /\ r.op \in {"rw6", "rw10", "cap10"} => r.lba < Word /\ r.count < Word
       /\ r.op = "rw16" => r.lba < Word * Word /\ r.count < Word
  /\ \A r \in AtapiRequests : r.op # "io"
  /\ NoRequest \notin Request
  /\ {SenseSize, AnswerSize, PerCylinder, Burst, TocSize} \subseteq Nat \ {0}

Leadout == 170

\* Time on a disc: minute, second, frame.
FrameOf(msf) == (msf[1] * 60 + msf[2]) * 75 + msf[3]
Msf == Nat \X Nat \X Nat

\* A table of contents.  Tracks are numbered below the lead-out.
Toc == [first : Nat, last : 0 .. (Leadout - 1), td : Seq([track : Nat, msf : Msf])]

\* A lead-out is not where the disc begins.
ASSUME DrivesAssumption ==
  /\ ModeTotals \subseteq Nat
  /\ Tocs \subseteq Toc
  /\ \A t \in Tocs : \A i \in DOMAIN t.td :
       t.td[i].track = Leadout => FrameOf(t.td[i].msf) > 0

\* Sense data are made up by the driver, or the drive's.
Senses == {"none", "fake", "drive"}

Ats == {"check", "data", "end", "error", "autosense", "return"}
Errors == {"ok", "address", "length", "nomem", "nocmd", "busy", "aborted",
           "phase", "badstatus", "ata", "protected"}
Pcs == {"idle", "serve", "direct", "unaligned", "rw6", "modesense6",
        "modeselect6", "toc", "play", "wp", "answer", "replied"}

TypeOK ==
  /\ atapi \in BOOLEAN
  /\ req = NoRequest \/ req \in Request
  /\ pc \in Pcs
  /\ error \in Errors
  /\ cmd.actual \in Nat /\ cmd.senseActual \in Nat
  /\ cmd.status \in {0, 2}
  /\ {cmd.data, cmd.cdb} \subseteq {"own", "copy"}
  /\ sense \in Senses
  /\ inUse \subseteq {"unit", "sense"}
  /\ mem \subseteq {"data", "cdb", "buf", "toc"}
  /\ Len(frames) <= 2
  /\ \A i \in DOMAIN frames :
       frames[i].at \in Ats /\ frames[i].ret \in Errors /\ frames[i].actual \in Nat
  /\ tries \in 0..3
  /\ drive \in [busy : BOOLEAN, err : BOOLEAN]

-----------------------------------------------------------------------------
EvenUp(n) == n + (n % 2)
Least(a, b) == IF a < b THEN a ELSE b

\* A call of atapi_packet(): whose SCSICmd, the command, the bytes of its
\* CDB, what it says, scsi_Length, and whether sense data are wanted.
Call(by, op, cdb, arg, length, auto) ==
  [by |-> by, op |-> op, cdb |-> cdb, arg |-> arg, length |-> length,
   hasData |-> by # "client" \/ req.data # "null", auto |-> auto,
   at |-> "check", actual |-> 0, status |-> 0, senseActual |-> 0,
   ret |-> "ok", extra |-> FALSE]

ClientCall(op, count) == Call("client", op, req.cdb, <<count>>, req.length, req.auto)

FreshCmd == [actual |-> 0, status |-> 0, senseActual |-> 0,
             value |-> 0, data |-> "own", cdb |-> "own"]

NoCall == Call("unit", "none", 6, <<>>, 0, FALSE)

Init ==
  /\ atapi \in BOOLEAN
  /\ req = NoRequest /\ pc = "idle" /\ cmd = FreshCmd /\ error = "ok"
  /\ sense = "none" /\ frames = <<>> /\ back = NoCall
  /\ inUse = {} /\ mem = {} /\ tries = 0 /\ toc = NoRequest
  /\ drive = [busy |-> FALSE, err |-> FALSE]
  /\ sent = <<>>

\* Plain transfers of ATAPI units are in AtapiUnit.
Requests == IF atapi THEN AtapiRequests ELSE AtaRequests

Ask(r) ==
  /\ pc = "idle"
  /\ req' = r
  /\ pc' = "serve"
  /\ UNCHANGED <<atapi, cmd, error, sense, frames, back, inUse, mem, tries, toc,
                 drive, sent>>

\* The client takes its request back; an error bit stays in the drive.
Collect ==
  /\ pc = "replied"
  /\ pc' = "idle"
  /\ req' = NoRequest /\ cmd' = FreshCmd /\ error' = "ok"
  /\ sense' = "none" /\ back' = NoCall /\ toc' = NoRequest /\ sent' = <<>>
  /\ UNCHANGED <<atapi, frames, inUse, mem, tries, drive>>

\* The end of a command's own function.  Only SCSI commands have a status and
\* sense data to be told.
Ends(e) ==
  /\ pc' = IF req.op \in ScsiOps THEN "answer" ELSE "replied"
  /\ error' = e

Keep == UNCHANGED <<atapi, req, frames, back, inUse, mem, tries, toc, drive>>

\* Mutant: the sense buffer's length is not looked at.
FakesWithoutRoom(auto, e) == auto /\ e # "ok"

\* fake_scsi_sense(): sense data made up for an error, if they are wanted and
\* there is room for them.
Fakes(auto, e) == auto /\ e # "ok" /\ req.senseLength >= SenseSize

-----------------------------------------------------------------------------
\* ATA units: the emulated commands.

HeaderSize == 4
PageSize   == 24

\* How much of its data an emulation needs room for, at least.
EmulationNeeds ==
  CASE req.op \in {"cap10", "cap16"} -> 8
    [] req.op = "modesense6" ->
         HeaderSize + PageSize * (IF req.page = "all" THEN 2 ELSE 1)
    [] OTHER -> 0

EmulationRefuses ==
  CASE req.op = "tur" -> "ok"
    [] req.op \in {"modeselect6", "play", "other"} -> "nocmd"
    [] req.data = "null" -> "address"
    [] req.op = "modesense6" /\ req.page = "unknown" -> "nocmd"
    [] req.length < EmulationNeeds -> "length"
    [] req.op = "inquiry" /\ req.cdb < 6 -> "length"
    [] req.op = "cap16" /\ req.cdb < 16 -> "length"
    [] OTHER -> "ok"

EmulationGives ==
  CASE req.op \in {"inquiry", "cap16"} ->
         Least(req.alloc, Least(req.length, AnswerSize))
    [] OTHER -> EmulationNeeds

\* Mutant: the end of a large drive is cut to what is left of it.
CapacityLbaCut ==
  (IF req.pmi THEN CylinderEnd(req.lba, PerCylinder) ELSE req.sectors - 1) % Word

\* READ CAPACITY (10): the drive's last block, or that of a cylinder; ULONG_MAX
\* for a drive with as many blocks or more.
CapacityLba ==
  IF req.sectors >= Word - 1 THEN Word - 1
  ELSE IF req.pmi THEN CylinderEnd(req.lba, PerCylinder) % Word
  ELSE req.sectors - 1

\* INQUIRY may find no memory, or the drive may not answer ata_identify().
Emulate ==
  /\ pc = "serve" /\ ~atapi /\ req.op \in ScsiOps \ (ReadWrite \cup {"passthrough"})
  /\ \/ /\ EmulationRefuses = "ok"
        /\ Ends("ok")
        /\ cmd' = [cmd EXCEPT !.actual = EmulationGives, 
                             !.value = IF req.op = "cap16" THEN req.sectors - 1 ELSE CapacityLba]
     \/ /\ EmulationRefuses # "ok"
        /\ Ends(EmulationRefuses)
        /\ UNCHANGED cmd
     \/ /\ EmulationRefuses = "ok" /\ req.op = "inquiry"
        /\ \E e \in {"nomem", "ata"} : Ends(e)
        /\ UNCHANGED cmd
  /\ UNCHANGED <<sense, sent>> /\ Keep

\* do_scsi_transfer: by ata_read() or ata_write().
AtaTransfer ==
  /\ pc = "serve" /\ ~atapi /\ req.op \in ReadWrite
  /\ IF req.data = "null" \/ PastEnd(req.lba, req.count, req.sectors)
       THEN Ends("address") /\ UNCHANGED <<cmd, sent>>
       ELSE /\ sent' = Append(sent, [op |-> req.op, arg |-> <<req.lba, req.count>>])
            /\ \/ Ends("ok") /\ cmd' = [cmd EXCEPT !.actual = req.length]
               \/ \E e \in {"ata", "busy"} : Ends(e) /\ UNCHANGED cmd
  /\ UNCHANGED sense /\ Keep

\* ata_passthrough() refuses a CDB it does not know and lengths and data that
\* do not fit it, and a drive may not get ready, before the command is given.
AtaPassthrough ==
  /\ pc = "serve" /\ ~atapi /\ req.op = "passthrough"
  /\ \/ /\ \E e \in {"length", "nocmd", "ata", "busy"} \cup
                     (IF req.data = "odd" THEN {"address"} ELSE {}) : Ends(e)
        /\ UNCHANGED <<cmd, sent>>
     \/ /\ sent' = Append(sent, [op |-> req.op, arg |-> <<req.lba, req.count>>])
        /\ \/ Ends("ok") /\ cmd' = [cmd EXCEPT !.actual = req.length]
           \/ \E e \in {"ata", "busy", "aborted"} : Ends(e) /\ UNCHANGED cmd
  /\ UNCHANGED sense /\ Keep

\* CMD_READ, CMD_WRITE and their 64 bit forms; io_Actual is set either way.
PlainTransfer ==
  LET lba   == Lba(req.lba, req.count)
      count == Count(req.length)
  IN
  /\ pc = "serve" /\ req.op = "io"
  /\ IF count = 0 THEN error' = "length" /\ UNCHANGED <<cmd, sent>>
     ELSE IF PastEnd(lba, count, req.sectors) THEN error' = "address" /\ UNCHANGED <<cmd, sent>>
     ELSE /\ error' \in {"ok", "ata", "busy"}
          /\ cmd' = [cmd EXCEPT !.actual = req.length]
          /\ sent' = Append(sent, [op |-> "io", arg |-> <<lba, count>>])
  /\ pc' = "replied"
  /\ UNCHANGED sense /\ Keep

-----------------------------------------------------------------------------
\* ATAPI units: how a command is served.  A translation looks at what the
\* client gave it, takes its buffers and the unit's command, and calls
\* atapi_packet().

\* Steps of a translation leave the drive and the sense data alone.
Translates == UNCHANGED <<atapi, req, sense, back, tries, toc, drive, sent>>

Calls(fn, f) ==
  /\ frames' = <<f>> \o frames
  /\ pc' = fn
  /\ UNCHANGED error

Refuse(e) ==
  /\ Ends(e)
  /\ UNCHANGED <<cmd, frames, inUse, mem>>

\* atapi_handle_scsi_command(): INQUIRY never looks at the alignment.
ServeDirect ==
  /\ pc = "serve" /\ atapi
  /\ req.op \in ScsiOps \ {"rw6", "modesense6", "modeselect6", "play"}
  /\ req.op = "inquiry" \/ req.data # "odd"
  /\ Calls("direct", ClientCall(req.op, req.count))
  /\ UNCHANGED <<cmd, inUse, mem>> /\ Translates

\* atapi_packet_unaligned()
ServeUnaligned ==
  /\ pc = "serve" /\ atapi /\ req.data = "odd"
  /\ req.op \in ScsiOps \ {"inquiry", "rw6", "modesense6", "modeselect6", "play"}
  /\ \/ Refuse("nomem")
     \/ /\ mem' = {"data"}
        /\ cmd' = [cmd EXCEPT !.data = "copy"]
        /\ Calls("unaligned", ClientCall(req.op, req.count))
        /\ UNCHANGED inUse
  /\ Translates

\* A CDB of six bytes ends before the length of READ (10) and WRITE (10):
\* atapi_packet() sends scsi_CmdLength bytes, the client's, and pads zeros.
Told10(cdb, count) == IF cdb >= 10 THEN count ELSE 0

ServeReadWrite6 ==
  /\ pc = "serve" /\ atapi /\ req.op = "rw6"
  /\ \/ Refuse("nomem")
     \/ /\ mem' = IF req.data = "odd" THEN {"cdb", "data"} ELSE {"cdb"}
        /\ cmd' = [cmd EXCEPT !.cdb = "copy",
                              !.data = IF req.data = "odd" THEN "copy" ELSE "own"]
        /\ Calls("rw6", ClientCall("rw10", Told10(req.cdb, req.count)))
        /\ UNCHANGED inUse
  /\ Translates

\* A translation that needs buf and the unit's command for call f.
WithUnitCommand(fn, buf, f) ==
  \/ Refuse("nomem")
  \/ /\ IF "unit" \in inUse
          THEN Refuse("nomem")
          ELSE /\ mem' = mem \cup buf
               /\ inUse' = inUse \cup {"unit"}
               /\ Calls(fn, f)
               /\ UNCHANGED cmd

ServeModeSense6 ==
  /\ pc = "serve" /\ atapi /\ req.op = "modesense6"
  /\ CASE req.data = "null" -> Refuse("address")
       [] req.cdb < 6 \/ req.length < 4 -> Refuse("length")
       [] OTHER -> WithUnitCommand("modesense6", {"buf"},
                     Call("unit", "modesense10", 10, <<>>, req.alloc + 4, FALSE))
  /\ Translates

\* The parameter list cannot be longer than the client's data.
ParamLength == Least(req.alloc, req.length)

ServeModeSelect6 ==
  /\ pc = "serve" /\ atapi /\ req.op = "modeselect6"
  /\ CASE req.data = "null" -> Refuse("address")
       [] req.cdb < 6 \/ req.alloc < 4 \/ ParamLength < 4 -> Refuse("length")
       [] OTHER -> WithUnitCommand("modeselect6", {"buf"},
                     Call("unit", "modeselect10", 10, <<>>, ParamLength + 4, req.auto))
  /\ Translates

\* atapi_play_track_index(), atapi_read_toc()
ServePlay ==
  /\ pc = "serve" /\ atapi /\ req.op = "play"
  /\ WithUnitCommand("toc", {"toc"}, Call("unit", "toc", 10, <<>>, TocSize, FALSE))
  /\ Translates

\* TD_PROTSTATUS: atapi_check_wp(), atapi_mode_sense()
ServeProtStatus ==
  /\ pc = "serve" /\ req.op = "protstatus"
  /\ WithUnitCommand("wp", {"buf"}, Call("unit", "modesense10", 10, <<>>, TocSize, FALSE))
  /\ Translates

-----------------------------------------------------------------------------
\* atapi_packet(), one call of it.

Top == Head(frames)
At(a) == frames # <<>> /\ Top.at = a
Rest == UNCHANGED <<atapi, req, pc, cmd, error, back, inUse, mem, toc>>

Becomes(f) == frames' = <<f>> \o Tail(frames)
GoesTo(a, e) == Becomes([Top EXCEPT !.at = a, !.ret = e])

BadCall(f) == (f.length > 0 /\ ~f.hasData) \/ f.cdb > 12 \/ f.cdb < 6

PacketRefused ==
  /\ At("check") /\ BadCall(Top)
  /\ GoesTo("end", "address")
  /\ UNCHANGED <<sense, drive, sent, tries>> /\ Rest

\* The drive is still busy with an abandoned command, past every time limit,
\* or it is not in the command phase: the CDB is never sent.
PacketNotTaken ==
  /\ At("check") /\ ~BadCall(Top)
  /\ \/ drive.busy /\ GoesTo("end", "busy") /\ UNCHANGED drive
     \/ /\ ~drive.busy
        /\ GoesTo("end", "phase")
        /\ \E busy \in BOOLEAN : drive' = [drive EXCEPT !.err = FALSE, !.busy = busy]
  /\ UNCHANGED <<sense, sent, tries>> /\ Rest

PacketSent ==
  /\ At("check") /\ ~BadCall(Top) /\ ~drive.busy
  /\ sent' = IF Top.op = "sense" THEN sent
             ELSE Append(sent, [op |-> Top.op, arg |-> Top.arg])
  /\ \/ GoesTo("data", "ok") /\ drive' = [drive EXCEPT !.err = FALSE]
     \/ GoesTo("error", "aborted") /\ drive' = [drive EXCEPT !.err = TRUE]
     \/ GoesTo("end", "busy") /\ drive' = [busy |-> TRUE, err |-> FALSE]
  /\ UNCHANGED <<sense, tries>> /\ Rest

\* The limit of a DRQ block, told to the drive once for a command.
ByteCount(length) == Least(length, 65534)

Remaining == Top.length - Top.actual

\* What a drive may offer: no block above the limit, and for a command of the
\* driver's own, whose CDB says how much is wanted, no more than that in all.
MayOffer(n) ==
  /\ n > 0 /\ n <= ByteCount(Top.length)
  /\ Top.by # "client" /\ Remaining > 0 => n <= Remaining

\* Mutant: what exceeds the buffer is stored as well.
PacketDataAll ==
  /\ At("data") /\ Top.length > 0
  /\ \E n \in {Top.length, Remaining, Burst} :
       MayOffer(n) /\ ~Top.extra
         /\ Becomes([Top EXCEPT !.actual = @ + EvenUp(n), !.extra = (Remaining <= 0)])
  /\ sense' = IF Top.op = "sense" THEN "drive" ELSE sense
  /\ UNCHANGED <<drive, sent, tries>> /\ Rest

\* A DRQ block: as long as something remained at its start all of it goes
\* into the buffer, in words; otherwise it is read and thrown away.
PacketData ==
  /\ At("data") /\ Top.length > 0
  /\ \E n \in {Top.length, Remaining, Burst} :
       /\ MayOffer(n)
       /\ IF Remaining > 0
            THEN Becomes([Top EXCEPT !.actual = @ + EvenUp(n)])
            ELSE ~Top.extra /\ Becomes([Top EXCEPT !.extra = TRUE])
  /\ sense' = IF Top.op = "sense" /\ Remaining > 0 THEN "drive" ELSE sense
  /\ UNCHANGED <<drive, sent, tries>> /\ Rest

\* The command is over, well or not; or nothing more comes although the
\* drive does not report completion; or it stays busy.
PacketDone ==
  /\ At("data")
  /\ \/ GoesTo("end", "ok") /\ UNCHANGED drive
     \/ GoesTo("end", "ok") /\ drive' = [drive EXCEPT !.err = TRUE]
     \/ GoesTo("error", "phase") /\ \E busy \in BOOLEAN : drive' = [drive EXCEPT !.busy = busy]
     \/ GoesTo("end", "busy") /\ drive' = [drive EXCEPT !.busy = TRUE]
  /\ UNCHANGED <<sense, sent, tries>> /\ Rest

\* The status is read whatever happened; a busy drive's error bit means
\* nothing, and if no command was sent it is an earlier command's.
PacketEnd ==
  /\ At("end")
  /\ \E err \in IF drive.busy THEN BOOLEAN ELSE {drive.err} :
       GoesTo(IF err THEN "error" ELSE "return", Top.ret)
  /\ UNCHANGED <<sense, drive, sent, tries>> /\ Rest

\* Mutant: one try too many.
SenseTriesOneMore == 4

SenseTries == 3
SenseCall == Call("sense", "sense", 12, <<>>, req.senseLength, FALSE)

\* ata_error: made-up sense data after a timeout, else atapi_autosense().
Failed(f) == [f EXCEPT !.at = "return", !.status = 2,
                       !.ret = IF @ = "ok" THEN "badstatus" ELSE @]

PacketFails ==
  /\ At("error")
  /\ ~Top.auto \/ Top.ret = "busy" \/ req.senseLength = 0 \/ "sense" \in inUse
  /\ IF Top.ret = "busy" /\ Fakes(Top.auto, "busy")
       THEN sense' = "fake" /\ Becomes(Failed([Top EXCEPT !.senseActual = SenseSize]))
       ELSE UNCHANGED sense /\ Becomes(Failed(Top))
  /\ UNCHANGED <<drive, sent, tries>> /\ Rest

AutoSense ==
  /\ At("error")
  /\ Top.auto /\ Top.ret # "busy" /\ req.senseLength > 0 /\ "sense" \notin inUse
  /\ frames' = <<SenseCall, [Top EXCEPT !.at = "autosense"]>> \o Tail(frames)
  /\ inUse' = inUse \cup {"sense"}
  /\ tries' = SenseTries
  /\ UNCHANGED <<atapi, req, pc, cmd, error, back, mem, toc, sense, drive, sent>>

\* Mutant: the tries are not counted.
SenseReturnedTriesOn ==
  /\ At("autosense")
  /\ LET f == [Top EXCEPT !.senseActual = back.actual] IN
     IF back.ret = "ok"
       THEN /\ Becomes(Failed(f))
            /\ inUse' = inUse \ {"sense"}
            /\ tries' = 0
       ELSE /\ frames' = <<SenseCall, f>> \o Tail(frames)
            /\ UNCHANGED <<inUse, tries>>
  /\ UNCHANGED <<atapi, req, pc, cmd, error, back, mem, toc, sense, drive, sent>>

SenseReturned ==
  /\ At("autosense")
  /\ LET f == [Top EXCEPT !.senseActual = back.actual] IN
     IF back.ret = "ok" \/ tries = 1
       THEN /\ Becomes(Failed(f))
            /\ inUse' = inUse \ {"sense"}
            /\ tries' = 0
       ELSE /\ frames' = <<SenseCall, f>> \o Tail(frames)
            /\ tries' = tries - 1
            /\ UNCHANGED inUse
  /\ UNCHANGED <<atapi, req, pc, cmd, error, back, mem, toc, sense, drive, sent>>

\* What a call wrote into the client's SCSICmd.
PacketReturn ==
  /\ At("return")
  /\ back' = Top
  /\ frames' = Tail(frames)
  /\ cmd' = IF Top.by # "client" THEN cmd
            ELSE [cmd EXCEPT !.actual = Top.actual, !.status = Top.status,
                             !.senseActual = Top.senseActual]
  /\ UNCHANGED <<atapi, req, pc, error, sense, inUse, mem, tries, toc, drive, sent>>

\* An abandoned command ends in its own time.
DriveRecovers ==
  /\ drive.busy
  /\ drive' \in [busy : {FALSE}, err : BOOLEAN]
  /\ UNCHANGED <<atapi, req, pc, cmd, error, sense, frames, back, inUse, mem,
                 tries, toc, sent>>

-----------------------------------------------------------------------------
\* What the translations do with the answer.

Returned(fn) == pc = fn /\ frames = <<>>
Handled == UNCHANGED <<atapi, req, sense, frames, back, tries, drive, sent>>

DirectReturned ==
  /\ Returned("direct")
  /\ Ends(back.ret)
  /\ UNCHANGED <<cmd, inUse, mem, toc>> /\ Handled

UnalignedReturned ==
  /\ Returned("unaligned")
  /\ Ends(back.ret)
  /\ mem' = mem \ {"data"}
  /\ cmd' = [cmd EXCEPT !.data = "own"]
  /\ UNCHANGED <<inUse, toc>> /\ Handled

ReadWrite6Returned ==
  /\ Returned("rw6")
  /\ Ends(back.ret)
  /\ mem' = mem \ {"data", "cdb"}
  /\ cmd' = [cmd EXCEPT !.data = "own", !.cdb = "own"]
  /\ UNCHANGED <<inUse, toc>> /\ Handled

\* The mode data length in the answer to MODE SENSE (10): that of all the
\* drive has, its own two bytes not counted; 0 if it was not transferred.
ModeLength(total) == IF back.actual >= 2 THEN total - 2 ELSE 0

\* Mutant: the reserved bytes of the long header are forgotten.
ModeHeader10Short == 6

ModeHeader10 == 8
ModeHeader6  == 4

ModeSense6Returned ==
  /\ Returned("modesense6")
  /\ \E total \in ModeTotals :
       LET short == back.actual < ModeHeader10 \/ ModeLength(total) > 255
                      \/ ModeLength(total) < 3
           copied == Least(back.actual - ModeHeader10, req.length - ModeHeader6)
       IN
       \/ /\ back.ret = "ok" /\ ~short
          /\ Ends("ok")
          /\ cmd' = [cmd EXCEPT !.actual = copied + ModeHeader6,
                                !.value = ModeLength(total) - 3]
       \/ /\ back.ret = "ok" /\ short
          /\ Ends("length")
          /\ cmd' = [cmd EXCEPT !.status = 2]
       \/ /\ back.ret # "ok"
          /\ Ends(back.ret)
          /\ cmd' = [cmd EXCEPT !.status = 2, !.senseActual = back.senseActual]
  /\ inUse' = inUse \ {"unit"} /\ mem' = mem \ {"buf"}
  /\ UNCHANGED toc /\ Handled

ModeSelect6Returned ==
  /\ Returned("modeselect6")
  /\ Ends(back.ret)
  /\ cmd' = [cmd EXCEPT !.status = IF back.ret = "ok" THEN 0 ELSE 2,
                        !.senseActual = back.senseActual,
                        !.actual = IF back.actual >= 4 THEN back.actual - 4 ELSE 0]
  /\ inUse' = inUse \ {"unit"} /\ mem' = mem \ {"buf"}
  /\ UNCHANGED toc /\ Handled

\* The track descriptors atapi_get_track_msf() looks at.
Descriptors(t) == SubSeq(t.td, 1, Least(t.last - t.first + 2, Len(t.td)))
HasTrack(t, n) == \E i \in DOMAIN Descriptors(t) : t.td[i].track = n
TrackMsf(t, n) ==
  t.td[CHOOSE i \in DOMAIN Descriptors(t) :
         t.td[i].track = n /\ \A j \in 1..(i - 1) : t.td[j].track # n].msf

\* Mutant: the minute is not decremented.
AdjustEndByFrames(msf) ==
  IF msf[3] > 0 THEN <<msf[1], msf[2], msf[3] - 1>>
  ELSE <<msf[1], msf[2], 74>>

\* atapi_adjust_end_msf(): one frame earlier.
AdjustEnd(msf) ==
  IF msf[3] > 0 THEN <<msf[1], msf[2], msf[3] - 1>>
  ELSE IF msf[2] > 0 THEN <<msf[1], msf[2] - 1, 74>>
  ELSE <<IF msf[1] > 0 THEN msf[1] - 1 ELSE 0, 59, 74>>

PlayEnd(t) == IF req.to > t.last THEN Leadout ELSE req.to

\* The rest of atapi_play_track_index(), and atapi_play_audio_msf(), which
\* takes the unit's command again that atapi_read_toc() has just released.
TocReturned ==
  /\ Returned("toc")
  /\ \E t \in Tocs :
       /\ toc' = t
       /\ IF back.ret # "ok" \/ ~HasTrack(t, req.from) \/ ~HasTrack(t, PlayEnd(t))
            THEN /\ Ends(IF back.ret # "ok" THEN back.ret ELSE "address")
                 /\ inUse' = inUse \ {"unit"} /\ mem' = mem \ {"toc"}
                 /\ UNCHANGED frames
            ELSE /\ LET end  == TrackMsf(t, PlayEnd(t))
                        stop == IF PlayEnd(t) = Leadout THEN AdjustEnd(end) ELSE end
                    IN Calls("play", Call("unit", "playmsf", 10,
                               <<TrackMsf(t, req.from), stop>>, 0, FALSE))
                 /\ UNCHANGED <<inUse, mem>>
  /\ UNCHANGED <<atapi, req, cmd, sense, back, tries, drive, sent>>

\* Mutant: an end of the function that frees nothing.
PlayReturnedKeepsToc ==
  /\ Returned("play")
  /\ Ends(back.ret)
  /\ inUse' = inUse \ {"unit"}
  /\ UNCHANGED <<cmd, mem, toc>> /\ Handled

PlayReturned ==
  /\ Returned("play")
  /\ Ends(back.ret)
  /\ inUse' = inUse \ {"unit"} /\ mem' = mem \ {"toc"}
  /\ UNCHANGED <<cmd, toc>> /\ Handled

\* Write protection is an answer, not an error; other errors are.
ProtStatusReturned ==
  /\ Returned("wp")
  /\ Ends(back.ret)
  /\ \E wp \in IF back.ret = "ok" THEN {0, 1} ELSE {0} : cmd' = [cmd EXCEPT !.actual = wp]
  /\ inUse' = inUse \ {"unit"} /\ mem' = mem \ {"buf"}
  /\ UNCHANGED toc /\ Handled

\* The end of handle_scsi_command(): the status, and sense data made up if
\* nobody has any.
Answer ==
  /\ pc = "answer"
  /\ pc' = "replied"
  /\ IF error # "ok" /\ cmd.senseActual = 0 /\ Fakes(req.auto, error)
       THEN sense' = "fake" /\ cmd' = [cmd EXCEPT !.status = 2, !.senseActual = SenseSize]
       ELSE UNCHANGED sense /\ cmd' = [cmd EXCEPT !.status = IF error = "ok" THEN 0 ELSE 2]
  /\ UNCHANGED <<error, sent>> /\ Keep

Serve ==
  \/ Emulate \/ AtaTransfer \/ AtaPassthrough \/ PlainTransfer
  \/ ServeDirect \/ ServeUnaligned \/ ServeReadWrite6
  \/ ServeModeSense6 \/ ServeModeSelect6 \/ ServePlay \/ ServeProtStatus

Packet ==
  \/ PacketRefused \/ PacketNotTaken \/ PacketSent \/ PacketData \/ PacketDone
  \/ PacketEnd \/ PacketFails \/ AutoSense \/ SenseReturned \/ PacketReturn

Return ==
  \/ DirectReturned \/ UnalignedReturned \/ ReadWrite6Returned
  \/ ModeSense6Returned \/ ModeSelect6Returned
  \/ TocReturned \/ PlayReturned \/ ProtStatusReturned
  \/ Answer

Task == Serve \/ Packet \/ Return

Next == Task \/ DriveRecovers \/ Collect \/ \E r \in Requests : Ask(r)

Spec == Init /\ [][Next]_vars

\* Every wait for the drive has a time limit.
FairSpec == Spec /\ WF_vars(Task)

-----------------------------------------------------------------------------
Done == pc = "replied"
ScsiDone == Done /\ req.op \in ScsiOps

\* Whichever way a request ends, the unit's two commands are free for the
\* next one, its buffers are freed, and the client's SCSICmd has its own
\* data and CDB again.
GivesAllBack ==
  Done =>
    /\ frames = <<>> /\ inUse = {} /\ mem = {}
    /\ cmd.data = "own" /\ cmd.cdb = "own"

\* io_Error, scsi_Status and the sense data say the same: CHECK CONDITION with
\* every error and only then, sense data only with an error and if they were
\* asked for, then always (if there is room), no more than there is room, and
\* never the client's own bytes called sense data.
AnswerIsTold ==
  ScsiDone =>
    /\ (error = "ok") <=> (cmd.status = 0)
    /\ cmd.senseActual > 0 => error # "ok" /\ req.auto
    /\ error # "ok" /\ req.auto /\ req.senseLength >= SenseSize => cmd.senseActual > 0
    /\ cmd.senseActual <= EvenUp(req.senseLength)
    /\ cmd.senseActual > 0 => sense # "none"

\* How far an answer may reach: to the end of the buffer, or, where a drive's
\* blocks go straight into it, to the end of one that began before that.
Translated == {"modesense6", "modeselect6", "play"}
Reached(n) ==
  \/ n <= EvenUp(req.length)
  \/ /\ atapi /\ req.op \notin Translated
     /\ n < req.length + EvenUp(ByteCount(req.length))

\* Answers that the driver makes or translates fit, whatever lengths the client
\* and the drive name; and when a drive gives more than a client has room for,
\* the buffer is left by one DRQ block at most: remaining (atapi.c 561) is not
\* true within a block, but before each (539, 549).  The driver means such data
\* to be thrown away ("Make the drive happy by reading/writing some more", 554).
OverrunIsBounded == Done /\ req.op # "protstatus" => Reached(cmd.actual)

\* MODE SENSE (6) by way of MODE SENSE (10): the header says the length that
\* the shorter header leaves, and all the client has asked and has room for of
\* what the drive has is there.
ModeDataIsTrue ==
  ScsiDone /\ atapi /\ req.op = "modesense6" /\ error = "ok" =>
    \E total \in ModeTotals :
      LET total6 == total - 4 IN
        /\ cmd.value + 1 = total6
        /\ back.actual = Least(total, req.alloc + 4) =>
             cmd.actual = Least(total6, Least(req.alloc, req.length))

\* What is played begins where the first track does and ends where the last
\* one begins, or one frame before the lead-out; nothing is played without a
\* table of contents that has both.
PlayIsTrue ==
  \A i \in DOMAIN sent : sent[i].op = "playmsf" =>
    \E a, z \in DOMAIN toc.td :
      /\ toc.td[a].track = req.from
      /\ FrameOf(sent[i].arg[1]) = FrameOf(toc.td[a].msf)
      /\ IF req.to > toc.last
           THEN /\ toc.td[z].track = Leadout
                /\ FrameOf(sent[i].arg[2]) = FrameOf(toc.td[z].msf) - 1
           ELSE /\ toc.td[z].track = req.to
                /\ FrameOf(sent[i].arg[2]) = FrameOf(toc.td[z].msf)

\* A plain transfer is of the blocks that its 64 bit byte address names; it and
\* SCSI transfers stay on the drive, but for a READ (16) or WRITE (16) whose end
\* has more than 64 bits, which the test lets through (iotask.c 178).
\* READ CAPACITY (10) names the drive's last block, or the last of the cylinder
\* asked about, on the drive or after it, if that has a number of 32 bits; all
\* ones if the drive has 2^32 - 1 blocks or more (scsi.c 281).
AddressIsTrue ==
  ~atapi =>
    /\ \A i \in DOMAIN sent :
         LET lba  == sent[i].arg[1]
             end  == lba + sent[i].arg[2]
             byte == req.lba * Word + req.count
         IN
         /\ sent[i].op # "passthrough" =>
              end <= req.sectors \/ (sent[i].op = "rw16" /\ end >= Word * Word)
         /\ sent[i].op = "io" =>
              lba * BlockSize <= byte /\ byte < (lba + 1) * BlockSize
    /\ ScsiDone /\ req.op = "cap10" /\ error = "ok" =>
         IF req.sectors >= Word - 1
           THEN cmd.value = Word - 1
           ELSE IF ~req.pmi
             THEN cmd.value + 1 = req.sectors
             ELSE CylinderEnd(req.lba, PerCylinder) < Word =>
                    /\ req.lba <= cmd.value /\ cmd.value < req.lba + PerCylinder
                    /\ (cmd.value + 1) % PerCylinder = 0

\* Every request is answered: a drive that hangs, stops in any phase or
\* cannot even give sense data does not hold the task for ever.
Answered == (pc = "serve") ~> Done

\* atapi.c:997-998: READ (6) and WRITE (6) are translated to READ (10) and
\* WRITE (10); if one is answered 0 the drive was told its number of blocks.
LengthIsTold ==
  ScsiDone /\ atapi /\ req.op = "rw6" /\ error = "ok" =>
    \A i \in DOMAIN sent : sent[i].arg = <<req.count>>
=============================================================================
