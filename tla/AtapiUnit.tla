----------------------------- MODULE AtapiUnit -----------------------------
(***************************************************************************)
(* One ATAPI unit with a removable medium, served by its IO task (atapi.c,   *)
(* iotask.c).  The IO task works on one job at a time: the start of the      *)
(* task, the poll for disk changes, TD_CHANGESTATE, CMD_START, CMD_STOP and  *)
(* TD_EJECT, and the transfers of TD and ETD commands.  A step is one packet *)
(* exchanged with the drive: between two of them the user may take the disc  *)
(* out or put another in.                                                   *)
(*                                                                         *)
(* Abstractions.  A disc is the number of its insertion, and the geometry of *)
(* the unit is the disc READ CAPACITY was asked about.  A packet ends well,  *)
(* with CHECK CONDITION, or in a timeout or bad phase ("timeout"); sense     *)
(* data is classed by what the driver does with it.  The drive answers as    *)
(* its state says, but for a bounded number of faults.                      *)
(***************************************************************************)
EXTENDS Integers, Sequences

CONSTANTS
  MaxDiscs,    \* how often a disc is put in
  MaxFaults,   \* how many packets go wrong
  MaxCount     \* clients stop or start the drive while changeCount is below

ASSUME ConstantsAssumption ==
  MaxDiscs \in Nat /\ MaxFaults \in Nat /\ MaxCount \in Nat

VARIABLES
  \* the drive
  disc,         \* the disc in the drive, 0 for none
  inserted,     \* how many discs have been put in
  spin,         \* "up", "starting" or "stopped"
  attention,    \* the unit attention the drive will report next, or "none"
  sense,        \* the sense data it holds for REQUEST SENSE
  faults,       \* packets that may still go wrong
  \* the unit
  present,      \* unit->flags.mediumPresent
  prev,         \* unit->flags.mediumPresentPrev
  changeCount,  \* unit->changeCount
  geom,         \* the disc whose capacity the unit holds, 0 for none
  \* the IO task
  pc,           \* the packet it is about to send, or where it is
  job,          \* what it is doing
  try,          \* the tries of the packet's loop, from 1
  ret,          \* ret of the function it is in
  status2,      \* atapi_translate(): cmd->scsi_Status is 2
  \* history
  moved,        \* the disc the job's transfer read or wrote, 0 for none
  sent,         \* the iotd_Count of an ETD transfer, 0 for other jobs
  counted,      \* counted[c]: the disc whose capacity was read under count c
  unseen        \* since the capacity was read a disc was put in while the unit
                \* counted as present: one the driver has not asked about

driveVars == <<disc, inserted, spin, attention, sense, faults>>
unitVars  == <<present, prev, changeCount, geom, counted, unseen>>
taskVars  == <<pc, job, try, ret, status2, moved, sent>>
vars == <<driveVars, unitVars, taskVars>>

Jobs    == {"none", "init", "poll", "state", "startStop", "transfer"}
Pcs     == {"idle", "tur", "turSense", "presence", "capacity", "verdict",
            "xfer", "xferSense", "reply"}
Answers == {"ok", "failed", "TDERR_DiskChanged", "TDERR_NotSpecified", "TDERR_WriteProt"}
Senses  == {"none", "mediumChanged", "reset", "noMedium", "notReady",
            "recovered", "protected", "other"}
Discs   == 0 .. MaxDiscs

TypeOK ==
  /\ disc \in Discs /\ inserted \in Discs /\ geom \in Discs
  /\ moved \in Discs
  /\ spin \in {"up", "starting", "stopped"}
  /\ attention \in {"none", "mediumChanged", "reset"}
  /\ sense \in Senses
  /\ faults \in 0 .. MaxFaults
  /\ present \in BOOLEAN /\ prev \in BOOLEAN /\ status2 \in BOOLEAN
  /\ unseen \in BOOLEAN
  /\ counted \in Seq(Discs)
  /\ changeCount = Len(counted) /\ sent \in 0 .. changeCount
  /\ pc \in Pcs /\ job \in Jobs /\ try \in 1 .. 9 /\ ret \in Answers

\* init_units() and ata_init_unit(); atapi_init_unit() ends with a
\* TEST UNIT READY.
Init ==
  /\ disc \in {d \in Discs : d <= 1} /\ inserted = disc
  /\ spin \in {"up", "starting"}
  /\ attention = "reset" /\ sense = "none" /\ faults = MaxFaults
  /\ present = FALSE /\ prev = FALSE /\ geom = 0
  /\ changeCount = 1 /\ counted = <<0>> /\ unseen = FALSE
  /\ pc = "tur" /\ job = "init" /\ try = 1 /\ ret = "ok" /\ status2 = FALSE
  /\ moved = 0 /\ sent = 0

-----------------------------------------------------------------------------
(* The drive and its user.                                                    *)

PutIn(d) ==
  /\ disc' = d /\ inserted' = d
  /\ attention' = "mediumChanged"
  /\ spin' \in {"up", "starting"}

MayInsert == disc = 0 /\ inserted < MaxDiscs

Insert ==
  /\ MayInsert
  /\ PutIn(inserted + 1)
  /\ unseen' = (unseen \/ present)
  /\ UNCHANGED <<sense, faults, present, prev, changeCount, geom, counted, taskVars>>

Remove ==
  /\ disc # 0
  /\ disc' = 0
  /\ UNCHANGED <<inserted, spin, attention, sense, faults, unitVars, taskVars>>

SpinUp ==
  /\ spin = "starting"
  /\ spin' = "up"
  /\ UNCHANGED <<disc, inserted, attention, sense, faults, unitVars, taskVars>>

Honest ==
  IF attention # "none" THEN attention
  ELSE IF disc = 0 THEN "noMedium"
  ELSE IF spin # "up" THEN "notReady"
  ELSE "good"

UseFault == faults > 0 /\ faults' = faults - 1

\* atapi_packet(): a is "good", "timeout" or the sense of a CHECK CONDITION,
\* which the drive then holds; a reported unit attention is over.
Packet(a, wrong) ==
  /\ \/ a = Honest /\ attention' = "none" /\ UNCHANGED faults
     \/ a \in wrong /\ UseFault /\ UNCHANGED attention
  /\ sense' = IF a \in Senses THEN a ELSE "none"

\* atapi_dev_reset(): the drive may report the reset as unit attention.
DevReset == attention' \in {attention, "reset"}

-----------------------------------------------------------------------------
(* atapi_update_presence().                                                    *)

CountChange(d) ==
  /\ changeCount' = changeCount + 1
  /\ counted' = Append(counted, d)

\* Mutant: the medium is gone and its geometry stays.
GoAbsentKeepsGeometry ==
  IF present
  THEN CountChange(0) /\ present' = FALSE /\ UNCHANGED <<geom, prev, unseen>>
  ELSE UNCHANGED unitVars

\* atapi_update_presence(unit, false)
GoAbsent ==
  IF present
  THEN CountChange(0) /\ present' = FALSE /\ geom' = 0 /\ UNCHANGED <<prev, unseen>>
  ELSE UNCHANGED unitVars

\* Mutant: a unit that becomes ready is not taken for absent.
UpdatePresenceNeverAbsent ==
  /\ pc = "presence"
  /\ \/ /\ ret = "ok" /\ ~present
        /\ CountChange(0) /\ geom' = 0
        /\ pc' = "capacity" /\ try' = 1
        /\ UNCHANGED <<present, prev, unseen>>
     \/ /\ ~(ret = "ok" /\ ~present)
        /\ pc' = "verdict"
        /\ UNCHANGED <<try, unitVars>>
  /\ UNCHANGED <<driveVars, job, ret, status2, moved, sent>>

\* The end of atapi_test_unit_ready(): presence follows a definite answer.
\* atapi_get_capacity() clears the geometry before it asks the drive.
UpdatePresence ==
  /\ pc = "presence"
  /\ \/ /\ ret = "ok" /\ ~present
        /\ CountChange(0) /\ geom' = 0
        /\ pc' = "capacity" /\ try' = 1
        /\ UNCHANGED <<present, prev, unseen>>
     \/ /\ ret = "TDERR_DiskChanged"
        /\ GoAbsent
        /\ pc' = "verdict" /\ UNCHANGED try
     \/ /\ ~(ret = "ok" /\ ~present) /\ ret # "TDERR_DiskChanged"
        /\ pc' = "verdict"
        /\ UNCHANGED <<try, unitVars>>
  /\ UNCHANGED <<driveVars, job, ret, status2, moved, sent>>

GetCapacity ==
  /\ pc = "capacity"
  /\ UNCHANGED <<disc, inserted, spin, prev, changeCount, job, ret, status2, moved, sent>>
  /\ \E a \in Senses \cup {"good", "timeout"} :
       /\ Packet(a, {"timeout", "other"})
       /\ \/ /\ a = "good"
             /\ geom' = disc /\ present' = TRUE /\ unseen' = FALSE
             /\ counted' = [counted EXCEPT ![changeCount] = disc]
             /\ pc' = "verdict" /\ UNCHANGED try
          \/ /\ a # "good" /\ try < 3
             /\ try' = try + 1
             /\ UNCHANGED <<pc, present, geom, counted, unseen>>
          \/ /\ a # "good" /\ try = 3
             /\ pc' = "verdict"
             /\ UNCHANGED <<try, present, geom, counted, unseen>>

-----------------------------------------------------------------------------
(* atapi_test_unit_ready(), with up to nine tries.                             *)

TestUnitReady ==
  /\ pc = "tur"
  /\ UNCHANGED <<disc, inserted, spin, unitVars, job, try, status2, moved, sent>>
  /\ \E a \in Senses \cup {"good", "timeout"} :
       /\ Packet(a, {"timeout", "other"})
       /\ \/ a = "good" /\ ret' = "ok" /\ pc' = "presence"
          \/ a # "good" /\ pc' = "turSense" /\ UNCHANGED ret

\* Mutant: one try too many.
TestAgainOnceMore ==
  IF try <= 9 THEN pc' = "tur" /\ try' = try + 1
              ELSE pc' = "presence" /\ UNCHANGED try

TestAgain ==
  IF try < 9 THEN pc' = "tur" /\ try' = try + 1
             ELSE pc' = "presence" /\ UNCHANGED try

\* What atapi_test_unit_ready() makes of sense data: its ret so far.
Verdict ==
  IF sense \in {"noMedium", "notReady"} THEN "TDERR_DiskChanged"
  ELSE IF sense = "mediumChanged" THEN "ok"
  ELSE "TDERR_NotSpecified"

TurSense ==
  /\ pc = "turSense"
  /\ sense' = "none"
  /\ \/ /\ ret' = Verdict
        /\ IF sense = "noMedium" THEN pc' = "presence" /\ UNCHANGED try ELSE TestAgain
        /\ UNCHANGED <<attention, faults>>
     \/ /\ UseFault                           \* REQUEST SENSE goes wrong
        /\ ret' = "failed"
        /\ DevReset
        /\ pc' = "presence" /\ UNCHANGED try
  /\ UNCHANGED <<disc, inserted, spin, unitVars, job, status2, moved, sent>>

StartTest(j) == pc' = "tur" /\ job' = j /\ try' = 1 /\ ret' = "ok"

\* diskchange_check(), and TD_CHANGESTATE.
StartPoll(j) ==
  /\ pc = "idle"
  /\ StartTest(j)
  /\ UNCHANGED <<driveVars, unitVars, status2, moved, sent>>

\* atapi_start_stop_unit(): the drive starts or stops its disc, or moves its
\* tray (loej), or does not; a TEST UNIT READY follows whatever it said.
\* The command's answer is left out: no property is about it.
StartStopUnit ==
  /\ pc = "idle"
  /\ changeCount < MaxCount
  /\ StartTest("startStop")
  /\ \E a \in Senses \cup {"good", "timeout"} : Packet(a, {"timeout", "other"})
  /\ \/ UNCHANGED <<disc, inserted, spin>>
     \/ attention = "none" /\ spin' \in {"starting", "stopped"} /\ UNCHANGED <<disc, inserted>>
     \/ attention = "none" /\ disc' = 0 /\ UNCHANGED <<inserted, spin>>
  /\ UNCHANGED <<unitVars, status2, moved, sent>>

\* After a poll the verdict is kept; if it is new, the clients' interrupts
\* are caused.
EndTest ==
  /\ pc = "verdict"
  /\ pc' = "idle" /\ job' = "none"
  /\ prev' = IF job = "poll" THEN ret = "ok" ELSE prev
  /\ UNCHANGED <<driveVars, present, changeCount, geom, counted, unseen, try, ret, status2, moved, sent>>

-----------------------------------------------------------------------------
(* Transfers: process_ioreq() and atapi_translate(), with up to four tries.    *)

\* Mutant: iotd_Count is not looked at.
AcceptsAnyCount(c) == TRUE

\* ETD commands (c > 0) carry the count their client knew.
Accepts(c) == c > 0 => c >= changeCount

\* c is a count the client has read with TD_CHANGENUM while a disc was in.
StartTransfer(c) ==
  /\ pc = "idle"
  /\ c > 0 => counted[c] # 0
  /\ job' = "transfer" /\ sent' = c
  /\ moved' = 0 /\ status2' = FALSE /\ try' = 1
  /\ IF Accepts(c) /\ present
     THEN \/ pc' = "xfer" /\ ret' = "ok"
          \/ pc' = "reply" /\ ret' = "failed"    \* bad length or address
     ELSE pc' = "reply" /\ ret' = "TDERR_DiskChanged"
  /\ UNCHANGED <<driveVars, unitVars>>

TryAgain ==
  IF try < 4 THEN pc' = "xfer" /\ try' = try + 1
             ELSE pc' = "reply" /\ UNCHANGED try

\* ret keeps what an earlier try left in it.
Transfer ==
  /\ pc = "xfer"
  /\ \E a \in Senses \cup {"good", "timeout"} :
       /\ \/ /\ a # "timeout"
             /\ Packet(a, IF Honest = "good" THEN {"other", "recovered", "protected"}
                                           ELSE {"other"})
          \/ /\ a = "timeout" /\ UseFault /\ sense' = "none"
             /\ IF status2 THEN UNCHANGED attention ELSE DevReset
       /\ moved' = IF a \in {"good", "recovered"} THEN disc ELSE 0
       /\ status2' = (status2 \/ a \in Senses)
       /\ \/ a = "good" /\ pc' = "reply" /\ UNCHANGED try
          \/ a # "good" /\ status2' /\ pc' = "xferSense" /\ UNCHANGED try
          \/ a # "good" /\ ~status2' /\ TryAgain
  /\ UNCHANGED <<disc, inserted, spin, unitVars, job, ret, sent>>

EndTransfer(e) == ret' = e /\ pc' = "reply" /\ UNCHANGED try

TransferSense ==
  /\ pc = "xferSense"
  /\ sense' = "none"
  /\ \/ /\ sense = "recovered" /\ EndTransfer("ok") /\ UNCHANGED <<unitVars, faults>>
     \/ /\ sense = "notReady"
        /\ ret' = "TDERR_DiskChanged" /\ TryAgain /\ UNCHANGED <<unitVars, faults>>
     \/ /\ sense = "noMedium"
        /\ GoAbsent /\ EndTransfer("TDERR_DiskChanged") /\ UNCHANGED faults
     \/ /\ sense \in {"mediumChanged", "reset"}
        /\ ret' = "failed" /\ TryAgain /\ UNCHANGED <<unitVars, faults>>
     \/ /\ sense = "protected" /\ EndTransfer("TDERR_WriteProt") /\ UNCHANGED <<unitVars, faults>>
     \/ /\ sense \in {"none", "other"}
        /\ ret' = "TDERR_NotSpecified" /\ TryAgain /\ UNCHANGED <<unitVars, faults>>
     \/ /\ UseFault                           \* REQUEST SENSE goes wrong
        /\ EndTransfer("failed") /\ UNCHANGED unitVars
  /\ UNCHANGED <<disc, inserted, spin, attention, job, status2, moved, sent>>

Reply ==
  /\ pc = "reply"
  /\ pc' = "idle" /\ job' = "none" /\ sent' = 0 /\ moved' = 0
  /\ UNCHANGED <<driveVars, unitVars, try, ret, status2>>

-----------------------------------------------------------------------------

Driver ==
  \/ TestUnitReady \/ TurSense \/ UpdatePresence \/ GetCapacity \/ EndTest
  \/ Transfer \/ TransferSense \/ Reply

Clients ==
  \/ StartPoll("state") \/ StartStopUnit
  \/ \E c \in 0 .. changeCount : StartTransfer(c)

User == Insert \/ Remove \/ SpinUp

Next == Driver \/ StartPoll("poll") \/ Clients \/ User

Spec == Init /\ [][Next]_vars

\* Packets time out, so the driver gets on; the task's queue is empty now and
\* then, so it polls; a drive that starts its disc gets it up.
FairSpec ==
  Spec /\ WF_vars(Driver) /\ WF_vars(SpinUp) /\ SF_vars(StartPoll("poll"))

-----------------------------------------------------------------------------
(* Properties.                                                                *)

\* A unit that is present has the geometry of a disc, and of the disc last put
\* in unless one was put in while the unit counted as present, which no test
\* tells it; an absent unit has none (atapi_update_presence(),
\* atapi_get_capacity()).
PresentGeometry ==
  /\ present => geom # 0 /\ (~unseen => geom = inserted)
  /\ ~present => geom = 0

\* Whatever the user does while a transfer runs and retries, data moves only on
\* a unit whose capacity is known, an ETD transfer only if its count stands for
\* the disc whose geometry bounded it, and only to or from that disc: an
\* exchange the driver took part in is never overlooked.  Another disc is
\* touched only if it was put in while the unit counted as present (the tries
\* go on after a unit attention that says so).
TransferOnKnownDisc ==
  moved # 0 =>
    /\ present /\ geom # 0
    /\ sent # 0 => counted[sent] = geom
    /\ moved = geom \/ unseen

Ready == disc # 0 /\ spin = "up"

\* When the user leaves the drive alone, clients stop starting and stopping it
\* and faults are over, the unit and what its clients were told of it settle on
\* what is in the drive (diskchange_check(), atapi_test_unit_ready()).
PollConverges ==
  []<><<StartStopUnit>>_vars \/ <>[](present = Ready /\ prev = Ready)

\* A transfer that is answered 0 has moved its data (atapi_translate()).
FailureIsReported ==
  pc = "reply" /\ ret = "ok" => moved # 0
=============================================================================
