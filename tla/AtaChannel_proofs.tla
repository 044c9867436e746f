--------------------------- MODULE AtaChannel_proofs ---------------------------
(***************************************************************************)
(* Proofs about AtaChannel, for any drives, jobs, sizes of a command, of a   *)
(* DRQ block and of the registers: the shadow register tells the truth, the *)
(* host takes what a drive offers, and each step of the channel is one that *)
(* BlockTransfer allows, so that a transfer moves the blocks asked for.     *)
(***************************************************************************)
EXTENDS AtaChannel, DataLemmas

-----------------------------------------------------------------------------
(* The inductive invariant.                                                   *)

Op == call.op
This == call.drive

\* The owner is in a function of ata.c, and which parts of it that can be.  A
\* transfer is the job's, of a drive that has been found.
CallInv ==
  /\ pc = "idle" <=> Op = "none"
  /\ Op \in Transfers => /\ pc # "nodata" /\ answer = "none" /\ job \in Jobs
                         /\ job.op = Op /\ job.drive = This
                         /\ unit[This].state = "up" /\ mode[This] # "atapi"
  /\ Op \notin Transfers => answer # "none"
  /\ Op = "identify" => unit[This].state = "new" /\ pc # "nodata"
  /\ Op = "set_multiple" => unit[This].state = "identified"
  /\ pc = "next" => Op \in Transfers \cup {"identify"}
  /\ pc \in {"drq", "xfer"} => Op \notin NoData /\ txn >= 1
  /\ pc \in {"drq", "xfer"} /\ Op \in OneSector => txn = 1

\* The shadow, but between the two halves of ata_select(), names the drive that
\* is selected, and LBA only if that is selected.  From ata_select() on the
\* drive is the one meant; ata_set_pio() comes to that with its task file.
SelectInv ==
  /\ pc = "settle" => devHead = DrvSel(This)
  /\ pc # "settle" /\ shadow # NoSelect =>
       shadow.dev = devHead.dev /\ (shadow.lba => devHead.lba)
  /\ pc \in {"ready", "next", "command", "drq", "xfer", "nodata"} => devHead.dev = This
  /\ pc = "registers" /\ Op # "set_pio" => devHead.dev = This
  /\ pc \notin {"idle", "select"} /\ Op \in Transfers /\ mode[This] = "lba48" => devHead.lba

\* What a drive offers is part of what it still has to move.  A unit that
\* transfers MULTIPLE has a drive that was told so.
DriveInv ==
  \A d \in Drives :
    /\ drv[d].st = "drq" => drv[d].offered >= 1 /\ drv[d].offered <= drv[d].todo
    /\ unit[d].xferMultiple =>
         /\ unit[d].state = "up" /\ unit[d].multipleCount = DrqBlock
         /\ drv[d].multiple = DrqBlock
    /\ unit[d].state = "up" /\ ~unit[d].xferMultiple => unit[d].multipleCount = 1

\* SET MULTIPLE: an answer without an error is that of this command.
SetMultipleInv ==
  Op = "set_multiple" =>
    /\ pc \in {"registers", "command"} => drv[This].st # "busy"
    /\ pc = "nodata" =>
         \/ /\ drv[This].st = "busy" /\ drv[This].cmd = "set_multiple"
            /\ drv[This].todo = 0
         \/ /\ drv[This].st = "idle"
            /\ drv[This].err \/ drv[This].multiple = DrqBlock

\* How far a transfer has come, by the variables of ata_read() and ata_write().
CountInv ==
  Op \in Transfers =>
    /\ pc \in {"select", "settle", "ready", "next"} =>
         lba = job.lba + Len(moved) /\ left + Len(moved) = job.count
    /\ pc \in {"registers", "command"} =>
         /\ lba = job.lba + Len(moved) /\ left + txn + Len(moved) = job.count
         /\ txn \in 1..MaxTransfer
    /\ pc \in {"drq", "xfer"} =>
         lba = job.lba + Len(moved) + txn /\ left + txn + Len(moved) = job.count

\* The drive was told address and count in the form it understands, and does
\* what it was told or has failed.
ToldInv ==
  Op \in Transfers =>
    /\ pc = "command" =>
         /\ drv[This].st # "busy"
         /\ AddressIn(mode[This] = "lba48") = lba /\ CountIn(mode[This] = "lba48") = txn
    /\ pc \in {"drq", "xfer"} /\ drv[This].st # "idle" =>
         /\ drv[This].cmd = Op /\ drv[This].at + txn = lba /\ drv[This].todo = txn
         /\ unit[This].xferMultiple => drv[This].block = DrqBlock

\* Sectors are taken while some are on offer.
BurstInv ==
  /\ pc # "xfer" => burst = 0
  /\ pc = "drq" /\ Op \in Transfers /\ unit[This].xferMultiple /\ drv[This].st = "drq" =>
       drv[This].offered = Least(txn, DrqBlock)
  /\ pc = "xfer" => drv[This].st = "drq" /\ (burst = 0 \/ Op \in Transfers)
  /\ pc = "xfer" /\ Op \in Transfers =>
       IF unit[This].xferMultiple
         THEN burst < DrqBlock /\ drv[This].offered = Least(txn, DrqBlock - burst)
         ELSE burst = 0

IInv ==
  /\ TypeOK /\ CallInv /\ SelectInv /\ DriveInv
  /\ SetMultipleInv /\ CountInv /\ ToldInv /\ BurstInv

-----------------------------------------------------------------------------
(* Helpers.                                                                   *)

\* The constants, as ConstantsAssumption has them.
LEMMA ConstantsType ==
  /\ MaxTransfer \in Nat \ {0} /\ LowRange \in Nat \ {0} /\ Heads \in Nat \ {0}
  /\ SectorsPerTrack \in Nat \ {0} /\ DrqBlock \in Nat \ {0}
  /\ Drives \subseteq Nat /\ Drives # {}
  /\ NoSelect \notin DevHead /\ NoJob \notin Jobs
  /\ \A j \in Jobs : /\ j.op \in Transfers /\ j.drive \in Drives
                     /\ j.lba \in Nat /\ j.count \in Nat \ {0}
BY ConstantsAssumption DEF ConstantsAssumption, Transfers

LEMMA NoCallType == NoCall.op = "none" /\ NoCall \in [op : Ops, drive : Drives]
<1>1. (CHOOSE d \in Drives : TRUE) \in Drives
  BY ConstantsType
<1> QED
  BY <1>1 DEF NoCall, Ops

LEMMA OpKinds ==
  /\ Transfers \cap (OneSector \cup NoData \cup {"none", "identify", "set_multiple", "set_pio", "nothing"}) = {}
  /\ "none" \notin OneSector \cup NoData /\ OneSector \cap NoData = {}
  /\ "identify" \in OneSector /\ {"set_multiple", "set_pio", "packet"} \subseteq NoData
  /\ Called \subseteq (OneSector \cup NoData) \ {"identify", "set_multiple"}
  /\ Ops = Transfers \cup OneSector \cup NoData \cup {"none"}
BY DEF Transfers, OneSector, NoData, Called, Ops

\* The parts of the typing that most steps need.
LEMMA Typed ==
  ASSUME TypeOK
  PROVE  /\ This \in Drives /\ Op \in Ops /\ devHead.dev \in Drives
         /\ \A d \in Drives : /\ mode[d] \in ModeKinds
                              /\ unit[d] \in Unit /\ drv[d] \in Drive
         /\ \A d \in Drives : DrvSel(d) \in DevHead /\ RawSel(d) \in DevHead
         /\ \A d \in Drives : DrvSel(d).dev = d /\ RawSel(d).dev = d /\ RawSel(d).lba
         /\ \A d \in Drives : DrvSel(d).lba = HasLba(d)
         /\ lba \in Nat /\ left \in Nat /\ txn \in Nat /\ burst \in Nat
         /\ Len(moved) \in Nat
<1>1. \A d \in Drives : HasLba(d) \in BOOLEAN
  BY DEF HasLba
<1>2. \A d \in Drives : DrvSel(d) \in DevHead /\ RawSel(d) \in DevHead
  BY <1>1 DEF DrvSel, RawSel, DevHead
<1>3. /\ \A d \in Drives : DrvSel(d).dev = d /\ RawSel(d).dev = d /\ RawSel(d).lba
      /\ \A d \in Drives : DrvSel(d).lba = HasLba(d)
  BY DEF DrvSel, RawSel
<1>4. /\ This \in Drives /\ Op \in Ops /\ devHead.dev \in Drives
      /\ \A d \in Drives : mode[d] \in ModeKinds /\ unit[d] \in Unit /\ drv[d] \in Drive
      /\ lba \in Nat /\ left \in Nat /\ txn \in Nat /\ burst \in Nat
      /\ Len(moved) \in Nat
  BY DEF TypeOK, This, Op, DevHead
<1> QED
  BY <1>2, <1>3, <1>4

-----------------------------------------------------------------------------
(* The initial states, and the steps of the owner.                            *)

LEMMA InitIInv == ASSUME Init PROVE IInv
<1>1. TypeOK
  <2>1. mode \in [Drives -> ModeKinds] /\ unit \in [Drives -> Unit]
    BY DEF Init, Unit
  <2>2. drv \in [Drives -> Drive]
    BY DEF Init, Idle, Drive, Ops
  <2>3. devHead \in DevHead
    <3>1. {FALSE} \subseteq BOOLEAN /\ {0} \subseteq Nat
      OBVIOUS
    <3>2. [dev : Drives, lba : {FALSE}, head : {0}] \subseteq [dev : Drives, lba : BOOLEAN, head : Nat]
      BY <3>1
    <3> QED
      BY <3>2 DEF Init, DevHead
  <2>4. moved \in Seq((Transfers \cup {"nothing"}) \X Drives \X Nat)
    BY DEF Init
  <2>5. regs \in [low : Nat, mid : Nat, hob : Nat, count : Nat, hobCount : Nat]
    BY DEF Init, NoRegs
  <2>6. /\ shadow \in DevHead \cup {NoSelect} /\ pc \in Pcs /\ job \in Jobs \cup {NoJob}
        /\ {lba, left, txn, burst} \subseteq Nat
        /\ answer \in {"none", "ok", "failed"}
    BY DEF Init, Pcs
  <2>7. call \in [op : Ops, drive : Drives]
    BY NoCallType DEF Init
  <2> QED
    BY <2>1, <2>2, <2>3, <2>4, <2>5, <2>6, <2>7 DEF TypeOK
<1>2. Op = "none"
  BY NoCallType DEF Init, Op
<1>3. CallInv /\ SelectInv /\ SetMultipleInv /\ CountInv /\ ToldInv /\ BurstInv
  BY <1>2, OpKinds DEF Init, CallInv, SelectInv, SetMultipleInv, CountInv, ToldInv, BurstInv
<1>4. DriveInv
  BY DEF Init, DriveInv, Idle
<1> QED
  BY <1>1, <1>3, <1>4 DEF IInv

\* ata_select().
LEMMA SelectStep ==
  ASSUME IInv, Select \/ Settle
  PROVE  IInv'
<1> USE DEF IInv
<1>1. CASE Select
  <2>1. /\ pc = "select"
        /\ \/ shadow = DrvSel(This) /\ pc' = "ready" /\ UNCHANGED devHead
           \/ pc' = "settle" /\ devHead' = DrvSel(This)
        /\ UNCHANGED <<mode, unit, shadow, regs, drv, call, job, lba, left, txn, burst,
                       moved, answer>>
    BY <1>1 DEF Select, This
  <2>2. TypeOK'
    BY <2>1, Typed DEF TypeOK, Pcs
  <2>3. SelectInv'
    <3>1. CASE shadow = DrvSel(This) /\ pc' = "ready" /\ UNCHANGED devHead
      <4>1. shadow # NoSelect
        BY <3>1, Typed, ConstantsType
      <4>2. devHead.dev = This /\ (HasLba(This) => devHead.lba)
        BY <2>1, <3>1, <4>1, Typed DEF SelectInv
      <4>3. Op \in Transfers /\ mode[This] = "lba48" => HasLba(This)
        BY DEF CallInv, HasLba
      <4> QED
        BY <2>1, <3>1, <4>1, <4>2, <4>3 DEF SelectInv, Op, This
    <3>2. CASE pc' = "settle" /\ devHead' = DrvSel(This)
      <4>1. Op \in Transfers /\ mode[This] = "lba48" => HasLba(This)
        BY DEF CallInv, HasLba
      <4> QED
        BY <2>1, <3>2, <4>1, Typed DEF SelectInv, Op, This, DrvSel, HasLba
    <3> QED
      BY <2>1, <3>1, <3>2
  <2>4. CallInv' /\ DriveInv' /\ SetMultipleInv' /\ BurstInv'
    BY <2>1 DEF CallInv, DriveInv, SetMultipleInv, BurstInv, Op, This
  <2>5. CountInv' /\ ToldInv'
    BY <2>1 DEF CountInv, ToldInv, Op, This
  <2> QED
    BY <2>2, <2>3, <2>4, <2>5
<1>2. CASE Settle
  <2>1. /\ pc = "settle" /\ shadow' = DrvSel(This) /\ pc' = "ready"
        /\ UNCHANGED <<mode, unit, devHead, regs, drv, call, job, lba, left, txn, burst,
                       moved, answer>>
    BY <1>2 DEF Settle, This
  <2>2. TypeOK'
    BY <2>1, Typed DEF TypeOK, Pcs
  <2>3. SelectInv'
    BY <2>1, Typed DEF SelectInv, Op, This
  <2>4. CallInv' /\ DriveInv' /\ SetMultipleInv' /\ BurstInv'
    BY <2>1 DEF CallInv, DriveInv, SetMultipleInv, BurstInv, Op, This
  <2>5. CountInv' /\ ToldInv'
    BY <2>1 DEF CountInv, ToldInv, Op, This
  <2> QED
    BY <2>2, <2>3, <2>4, <2>5
<1> QED
  BY <1>1, <1>2

\* The waits that succeed, and the loop over commands.
LEMMA WaitStep ==
  ASSUME IInv, WaitReady \/ NextCommand \/ WaitDrq
  PROVE  IInv'
<1> USE DEF IInv
<1>1. CASE WaitReady
  <2>1. /\ pc = "ready" /\ IsReady
        /\ pc' = IF Op \in Transfers THEN "next" ELSE "registers"
        /\ UNCHANGED <<mode, unit, shadow, devHead, regs, drv, call, job, lba, left, txn,
                       burst, moved, answer>>
    BY <1>1 DEF WaitReady, Op
  <2>2. TypeOK'
    BY <2>1 DEF TypeOK, Pcs
  <2>3. devHead.dev = This /\ (Op # "packet" => drv[This].st # "busy")
    BY <2>1 DEF SelectInv, IsReady, Selected, Op, This
  <2>4. SelectInv' /\ DriveInv'
    BY <2>1 DEF SelectInv, DriveInv, Op, This
  <2>5. SetMultipleInv'
    BY <2>1, <2>3 DEF SetMultipleInv, Op, This
  <2>6. CallInv' /\ BurstInv' /\ CountInv' /\ ToldInv'
    BY <2>1 DEF CallInv, BurstInv, CountInv, ToldInv, Op, This
  <2> QED
    BY <2>2, <2>4, <2>5, <2>6
<1>2. CASE NextCommand
  <2>1. /\ pc = "next" /\ left > 0 /\ pc' = "registers"
        /\ txn' = Least(left, MaxTransfer) /\ left' = left - txn'
        /\ UNCHANGED <<mode, unit, shadow, devHead, regs, drv, call, job, lba,
                       burst, moved, answer>>
    BY <1>2 DEF NextCommand
  <2>2. txn' \in Nat /\ txn' \in 1..MaxTransfer /\ left' \in Nat /\ left' + txn' = left
    BY <2>1, Typed, ConstantsType DEF Least
  <2>3. TypeOK'
    BY <2>1, <2>2 DEF TypeOK, Pcs
  <2>4. CountInv'
    BY <2>1, <2>2, Typed DEF CountInv, Op, This
  <2>5. SelectInv' /\ DriveInv'
    BY <2>1 DEF SelectInv, DriveInv, Op, This
  <2>6. CallInv' /\ BurstInv' /\ ToldInv'
    BY <2>1 DEF CallInv, BurstInv, ToldInv, Op, This
  <2>7. SetMultipleInv'
    BY <2>1, OpKinds DEF CallInv, SetMultipleInv, Op, This
  <2> QED
    BY <2>3, <2>4, <2>5, <2>6, <2>7
<1>3. CASE WaitDrq
  <2>1. /\ pc = "drq" /\ Selected.st = "drq" /\ pc' = "xfer"
        /\ UNCHANGED <<mode, unit, shadow, devHead, regs, drv, call, job, lba, left, txn,
                       burst, moved, answer>>
    BY <1>3 DEF WaitDrq
  <2>2. TypeOK'
    BY <2>1 DEF TypeOK, Pcs
  <2>3. drv[This].st = "drq"
    BY <2>1 DEF SelectInv, Selected
  <2>4. SelectInv' /\ DriveInv'
    BY <2>1 DEF SelectInv, DriveInv, Op, This
  <2>5. CallInv' /\ SetMultipleInv' /\ CountInv' /\ ToldInv'
    BY <2>1 DEF CallInv, SetMultipleInv, CountInv, ToldInv, Op, This
  <2>6. BurstInv'
    BY <2>1, <2>3, ConstantsType DEF BurstInv, Op, This
  <2> QED
    BY <2>2, <2>4, <2>5, <2>6
<1> QED
  BY <1>1, <1>2, <1>3

-----------------------------------------------------------------------------
(* The task file registers.                                                   *)

LEMMA DivMod ==
  ASSUME NEW l \in Nat, NEW b \in Nat \ {0}
  PROVE  /\ l \div b \in Nat /\ l % b \in Nat /\ l % b < b
         /\ l = b * (l \div b) + (l % b)
BY SMT

\* Cylinder, head and sector of a block, taken together again, are that block.
LEMMA ChsAddress ==
  ASSUME NEW l \in Nat, NEW H \in Nat \ {0}, NEW S \in Nat \ {0}
  PROVE  /\ l \div (H * S) \in Nat
         /\ ((l \div (H * S)) * H + ((l \div S) % H)) * S + (l % S) = l
<1> DEFINE q == l \div S
<1> DEFINE r == l % S
<1> DEFINE p == q \div H
<1> DEFINE t == q % H
<1>1. q \in Nat /\ r \in Nat /\ r < S /\ l = S * q + r
  BY DivMod
<1> HIDE DEF q, r
<1>2. p \in Nat /\ t \in Nat /\ t < H /\ q = H * p + t
  BY <1>1, DivMod
<1> HIDE DEF p, t
<1>3. l = (H * S) * p + (S * t + r)
  <2>1. S * q = S * (H * p + t)
    BY <1>2
  <2>2. S * (H * p + t) = (H * S) * p + S * t
    BY <1>2, SMT
  <2>3. S * q \in Nat /\ (H * S) * p \in Nat /\ S * t \in Nat
    BY <1>1, <1>2, SMT
  <2> QED
    BY <1>1, <2>1, <2>2, <2>3
<1>4. S * t + r \in Nat /\ S * t + r < H * S /\ H * S \in Nat \ {0}
  <2>1. S * t \in Nat /\ H * S \in Nat /\ S * (t + 1) = S * t + S
    BY <1>2, SMT
  <2>2. S * (t + 1) <= S * H
    BY <1>2, SMT
  <2>3. S * H = H * S
    BY SMT
  <2> QED
    BY <1>1, <2>1, <2>2, <2>3
<1>5. l \div (H * S) = p
  BY <1>2, <1>3, <1>4, DivUnique
<1>6. (p * H + t) * S + r = l
  <2>1. p * H + t = q
    BY <1>2, SMT
  <2>2. q * S = S * q
    BY <1>1, SMT
  <2> QED
    BY <1>1, <2>1, <2>2
<1> QED
  BY <1>2, <1>5, <1>6 DEF q, r, t

Regs == [low : Nat, mid : Nat, hob : Nat, count : Nat, hobCount : Nat]

\* A sector count of one byte says every number of sectors a command may have.
LEMMA CountTold ==
  ASSUME NEW n \in 1..MaxTransfer, n = MaxTransfer \/ n < MaxTransfer
  PROVE  n % MaxTransfer \in Nat /\ n % MaxTransfer = IF n = MaxTransfer THEN 0 ELSE n
<1>1. MaxTransfer \in Nat \ {0}
  BY ConstantsType
<1>2. MaxTransfer * 1 + 0 = MaxTransfer /\ MaxTransfer * 0 + n = n
  BY <1>1
<1>3. CASE n = MaxTransfer
  <2>1. (MaxTransfer * 1 + 0) % MaxTransfer = 0
    BY <1>1, DivUnique
  <2> QED
    BY <1>2, <1>3, <2>1
<1>4. CASE n < MaxTransfer
  <2>1. (MaxTransfer * 0 + n) % MaxTransfer = n
    BY <1>1, <1>4, DivUnique
  <2> QED
    BY <1>1, <1>2, <1>4, <2>1
<1> QED
  BY <1>3, <1>4

\* What write_taskfile_chs(), _lba() and _lba48() write is taken by a drive of
\* that kind as the block and the count meant.
LEMMA TaskfileTold ==
  ASSUME NEW l \in Nat, NEW n \in 1..MaxTransfer, NEW d \in Drives, TypeOK
  PROVE  /\ TaskfileChs(d, l, n) =>
              /\ devHead' \in DevHead /\ devHead'.dev = d /\ shadow' = devHead'
              /\ regs' \in Regs
              /\ AddressIn(FALSE)' = l /\ CountIn(FALSE)' = n
         /\ TaskfileLba(d, l, n) =>
              /\ devHead' \in DevHead /\ devHead'.dev = d /\ shadow' = devHead'
              /\ regs' \in Regs
              /\ AddressIn(FALSE)' = l /\ CountIn(FALSE)' = n
         /\ TaskfileLba48(l, n) =>
              /\ UNCHANGED <<devHead, shadow>> /\ regs' \in Regs
              /\ devHead.lba => AddressIn(TRUE)' = l
              /\ CountIn(TRUE)' = n
<1> DEFINE m == n % MaxTransfer
<1>0. MaxTransfer \in Nat \ {0} /\ LowRange \in Nat \ {0}
      /\ Heads \in Nat \ {0} /\ SectorsPerTrack \in Nat \ {0}
  BY ConstantsType
<1>1. m \in Nat /\ m = IF n = MaxTransfer THEN 0 ELSE n
  BY <1>0, CountTold
<1> HIDE DEF m
<1>2. TaskfileChs(d, l, n) =>
              /\ devHead' \in DevHead /\ devHead'.dev = d /\ shadow' = devHead'
              /\ regs' \in Regs
              /\ AddressIn(FALSE)' = l /\ CountIn(FALSE)' = n
  <2> SUFFICES ASSUME TaskfileChs(d, l, n)
               PROVE  /\ devHead' \in DevHead /\ devHead'.dev = d /\ shadow' = devHead'
                      /\ regs' \in Regs
                      /\ AddressIn(FALSE)' = l /\ CountIn(FALSE)' = n
    OBVIOUS
  <2>1. /\ devHead' = [dev |-> d, lba |-> FALSE, head |-> (l \div SectorsPerTrack) % Heads]
        /\ shadow' = devHead'
        /\ regs' = [low |-> (l % SectorsPerTrack) + 1, mid |-> l \div (Heads * SectorsPerTrack),
                    hob |-> 0, count |-> m, hobCount |-> 0]
    BY DEF TaskfileChs, m
  <2>2. (l \div SectorsPerTrack) % Heads \in Nat /\ l % SectorsPerTrack \in Nat
    BY <1>0, DivMod
  <2>3. devHead' \in DevHead /\ regs' \in Regs
    <3>1. l \div (Heads * SectorsPerTrack) \in Nat
      BY <1>0, ChsAddress
    <3>2. devHead' \in DevHead
      BY <2>1, <2>2 DEF DevHead
    <3>3. regs' \in Regs
      BY <1>1, <2>1, <2>2, <3>1 DEF Regs
    <3> QED
      BY <3>2, <3>3
  <2>4. AddressIn(FALSE)' =
          ((l \div (Heads * SectorsPerTrack)) * Heads + ((l \div SectorsPerTrack) % Heads))
            * SectorsPerTrack + ((l % SectorsPerTrack) + 1) - 1
    BY <2>1 DEF AddressIn
  <2> DEFINE a == ((l \div (Heads * SectorsPerTrack)) * Heads + ((l \div SectorsPerTrack) % Heads))
                    * SectorsPerTrack
  <2> DEFINE low == l % SectorsPerTrack
  <2>5. a + low = l /\ low \in Nat
    BY <1>0, <2>2, ChsAddress
  <2>6. a \in Int
    <3>1. l \div (Heads * SectorsPerTrack) \in Nat
      BY <1>0, ChsAddress
    <3> QED
      BY <1>0, <2>2, <3>1, SMT
  <2>7. AddressIn(FALSE)' = a + (low + 1) - 1
    BY <2>4
  <2> HIDE DEF a, low
  <2>8. AddressIn(FALSE)' = l
    <3>1. a + (low + 1) - 1 = a + low
      BY <2>5, <2>6
    <3> QED
      BY <2>5, <2>7, <3>1, Zenon
  <2>9. CountIn(FALSE)' = n
    BY <1>1, <2>1 DEF CountIn
  <2> QED
    BY <2>1, <2>3, <2>8, <2>9
<1> DEFINE h == l \div LowRange
<1> DEFINE low == l % LowRange
<1>3. h \in Nat /\ low \in Nat /\ h * LowRange + low = l
  <2>1. h \in Nat /\ low \in Nat /\ LowRange * h + low = l
    BY <1>0, DivMod
  <2> HIDE DEF h, low
  <2>2. LowRange * h = h * LowRange
    BY <1>0, <2>1, SMT
  <2> QED
    BY <2>1, <2>2
<1>4. TaskfileLba(d, l, n) =>
              /\ devHead' \in DevHead /\ devHead'.dev = d /\ shadow' = devHead'
              /\ regs' \in Regs
              /\ AddressIn(FALSE)' = l /\ CountIn(FALSE)' = n
  <2> SUFFICES ASSUME TaskfileLba(d, l, n)
               PROVE  /\ devHead' \in DevHead /\ devHead'.dev = d /\ shadow' = devHead'
                      /\ regs' \in Regs
                      /\ AddressIn(FALSE)' = l /\ CountIn(FALSE)' = n
    OBVIOUS
  <2>1. /\ devHead' = [dev |-> d, lba |-> TRUE, head |-> h]
        /\ shadow' = devHead'
        /\ regs' = [low |-> low, mid |-> 0, hob |-> 0, count |-> m, hobCount |-> 0]
    BY DEF TaskfileLba, m
  <2> HIDE DEF h, low
  <2> QED
    BY <1>0, <1>1, <1>3, <2>1 DEF DevHead, Regs, AddressIn, CountIn
<1>5. TaskfileLba48(l, n) =>
              /\ UNCHANGED <<devHead, shadow>> /\ regs' \in Regs
              /\ devHead.lba => AddressIn(TRUE)' = l
              /\ CountIn(TRUE)' = n
  <2> SUFFICES ASSUME TaskfileLba48(l, n)
               PROVE  /\ UNCHANGED <<devHead, shadow>> /\ regs' \in Regs
                      /\ devHead.lba => AddressIn(TRUE)' = l
                      /\ CountIn(TRUE)' = n
    OBVIOUS
  <2>1. /\ UNCHANGED <<devHead, shadow>>
        /\ regs' = [low |-> low, mid |-> 0, hob |-> h, count |-> m,
                    hobCount |-> IF m = 0 THEN 1 ELSE 0]
    BY DEF TaskfileLba48, m
  <2> HIDE DEF h, low
  <2>2. regs' \in Regs
    BY <1>1, <1>3, <2>1 DEF Regs
  <2>3. devHead.lba => AddressIn(TRUE)' = l
    BY <1>3, <2>1 DEF AddressIn
  <2>4. CountIn(TRUE)' = n
    <3>1. /\ m = 0 => CountIn(TRUE)' = IF 1 * MaxTransfer + m = 0
                                        THEN MaxTransfer * MaxTransfer ELSE 1 * MaxTransfer + m
          /\ m # 0 => CountIn(TRUE)' = IF 0 * MaxTransfer + m = 0
                                        THEN MaxTransfer * MaxTransfer ELSE 0 * MaxTransfer + m
      BY <2>1 DEF CountIn
    <3>2. 1 * MaxTransfer + m = MaxTransfer + m /\ 0 * MaxTransfer + m = m
      BY <1>0, <1>1
    <3> DEFINE P == MaxTransfer * MaxTransfer
    <3> HIDE DEF P
    <3>3. CASE m = 0
      <4>0. 1 * MaxTransfer + m = MaxTransfer
        BY <1>0, <3>2, <3>3
      <4>1. CountIn(TRUE)' = IF MaxTransfer = 0 THEN P ELSE MaxTransfer
        BY <3>1, <3>3, <4>0, Zenon DEF P
      <4>2. n = MaxTransfer
        BY <1>1, <3>3
      <4> QED
        BY <1>0, <4>1, <4>2
    <3>4. CASE m # 0
      <4>1. CountIn(TRUE)' = IF m = 0 THEN P ELSE m
        BY <3>1, <3>2, <3>4 DEF P
      <4> QED
        BY <1>1, <3>4, <4>1
    <3> QED
      BY <3>3, <3>4
  <2> QED
    BY <2>1, <2>2, <2>3, <2>4
<1> QED
  BY <1>2, <1>4, <1>5

\* The registers of a command are written.
LEMMA RegistersStep ==
  ASSUME IInv, WriteRegisters
  PROVE  IInv'
<1> USE DEF IInv
<1>1. /\ pc = "registers" /\ pc' = "command"
      /\ UNCHANGED <<mode, unit, drv, call, job, lba, left, txn, burst, moved, answer>>
      /\ ByTaskfile => Selected.st # "busy"
  BY DEF WriteRegisters
<1>2. /\ This \in Drives /\ Op # "none"
      /\ Op # "set_pio" => devHead.dev = This
      /\ shadow # NoSelect => shadow.dev = devHead.dev /\ (shadow.lba => devHead.lba)
  BY <1>1, Typed DEF SelectInv, CallInv
<1>3. ASSUME Op \in Transfers
      PROVE  /\ devHead' \in DevHead /\ devHead'.dev = This /\ regs' \in Regs
             /\ shadow' = devHead' \/ UNCHANGED <<shadow, devHead>>
             /\ AddressIn(mode[This] = "lba48")' = lba
             /\ CountIn(mode[This] = "lba48")' = txn
             /\ mode[This] = "lba48" => devHead'.lba
             /\ drv[This].st # "busy"
  <2>0. lba \in Nat /\ txn \in 1..MaxTransfer /\ devHead \in DevHead
    BY <1>1, <1>3, Typed DEF CountInv, TypeOK
  <2>1. devHead.dev = This /\ ByTaskfile
    BY <1>2, <1>3, OpKinds DEF ByTaskfile, Op, Transfers
  <2>2. drv[This].st # "busy"
    BY <1>1, <2>1 DEF Selected
  <2>3. \/ mode[This] = "chs" /\ TaskfileChs(This, lba, txn)
        \/ mode[This] = "lba" /\ TaskfileLba(This, lba, txn)
        \/ mode[This] = "lba48" /\ TaskfileLba48(lba, txn)
    BY <1>3, <2>1, Zenon DEF WriteRegisters, Op, This
  <2>4. mode[This] = "lba48" => devHead.lba
    BY <1>1, <1>3 DEF SelectInv
  <2>5. CASE mode[This] = "lba48"
    <3>1. /\ UNCHANGED <<devHead, shadow>> /\ regs' \in Regs
          /\ AddressIn(TRUE)' = lba /\ CountIn(TRUE)' = txn
      BY <1>2, <2>0, <2>3, <2>4, <2>5, TaskfileTold
    <3>2. AddressIn(mode[This] = "lba48")' = lba /\ CountIn(mode[This] = "lba48")' = txn
      BY <1>1, <2>5, <3>1 DEF AddressIn, CountIn, This
    <3> QED
      BY <2>0, <2>1, <2>2, <2>4, <3>1, <3>2
  <2>6. CASE mode[This] # "lba48"
    <3>1. /\ devHead' \in DevHead /\ devHead'.dev = This /\ shadow' = devHead'
          /\ regs' \in Regs
          /\ AddressIn(FALSE)' = lba /\ CountIn(FALSE)' = txn
      BY <1>2, <2>0, <2>3, <2>6, TaskfileTold
    <3>2. AddressIn(mode[This] = "lba48")' = lba /\ CountIn(mode[This] = "lba48")' = txn
      BY <1>1, <2>6, <3>1 DEF AddressIn, CountIn, This
    <3> QED
      BY <2>2, <2>6, <3>1, <3>2
  <2> QED
    BY <2>5, <2>6
<1>4. ASSUME Op \notin Transfers
      PROVE  /\ devHead' \in DevHead /\ devHead'.dev = This /\ regs' \in Regs
             /\ shadow' = devHead' \/ UNCHANGED <<shadow, devHead>>
                \/ (UNCHANGED shadow /\ devHead.dev = This /\ devHead'.lba)
  <2>1. CASE ByTaskfile
    <3>1. TaskfileLba(This, 0, 0)
      BY <1>4, <2>1, Zenon DEF WriteRegisters, Op, This
    <3>2. 0 \div LowRange \in Nat /\ 0 % LowRange \in Nat /\ 0 % MaxTransfer \in Nat
      BY ConstantsType, DivMod
    <3>3. devHead' \in DevHead /\ devHead'.dev = This
      BY <1>2, <3>1, <3>2 DEF TaskfileLba, DevHead
    <3>4. regs' \in Regs /\ shadow' = devHead'
      BY <3>1, <3>2 DEF TaskfileLba, Regs
    <3> QED
      BY <3>3, <3>4
  <2>2. CASE ~ByTaskfile
    <3>1. OwnRegisters(This) /\ devHead.dev = This
      BY <1>2, <1>4, <2>2, Zenon DEF WriteRegisters, Op, This, ByTaskfile
    <3>2. regs' \in Regs
      BY <3>1 DEF OwnRegisters, NoRegs, Regs
    <3>3. devHead' = devHead \/ devHead' = RawSel(This)
      BY <3>1 DEF OwnRegisters
    <3>4. devHead \in DevHead
      BY DEF TypeOK
    <3> QED
      BY <1>2, <3>1, <3>2, <3>3, <3>4, Typed DEF OwnRegisters
  <2> QED
    BY <2>1, <2>2
<1>5. /\ devHead' \in DevHead /\ devHead'.dev = This /\ regs' \in Regs
      /\ shadow' \in DevHead \cup {NoSelect}
  BY <1>3, <1>4 DEF TypeOK
<1>6. TypeOK'
  BY <1>1, <1>5 DEF TypeOK, Pcs, Regs
<1>7. SelectInv'
  <2>1. shadow' # NoSelect => shadow'.dev = devHead'.dev /\ (shadow'.lba => devHead'.lba)
    BY <1>2, <1>3, <1>4
  <2> QED
    BY <1>1, <1>3, <1>5, <2>1 DEF SelectInv, Op, This
<1>8. ToldInv'
  BY <1>1, <1>3 DEF ToldInv, Op, This
<1>9. CallInv' /\ DriveInv' /\ SetMultipleInv' /\ CountInv' /\ BurstInv'
  BY <1>1 DEF CallInv, DriveInv, SetMultipleInv, CountInv, BurstInv, Op, This
<1> QED
  BY <1>6, <1>7, <1>8, <1>9

\* The selected drive gets the command, if it is not busy.
LEMMA CommandStep ==
  ASSUME IInv, Command
  PROVE  IInv'
<1> USE DEF IInv
<1> DEFINE ext == mode[This] = "lba48"
<1> DEFINE rec ==
      [st |-> "busy", cmd |-> Op,
       at |-> IF Op \in Transfers THEN AddressIn(ext) ELSE 0,
       todo |-> IF Op \in Transfers THEN CountIn(ext)
                ELSE IF Op \in OneSector THEN 1 ELSE 0,
       block |-> IF Op \in Transfers /\ (ext \/ unit[This].xferMultiple)
                 THEN drv[This].multiple ELSE 1,
       offered |-> 0, multiple |-> drv[This].multiple, err |-> FALSE]
<1>1. /\ pc = "command" /\ pc' = IF Op \in NoData THEN "nodata" ELSE "drq"
      /\ regs' = NoRegs
      /\ Op \in Transfers => lba' = lba + txn /\ txn' = txn
      /\ Op \notin Transfers => lba' = lba /\ txn' = IF Op \in OneSector THEN 1 ELSE 0
      /\ UNCHANGED <<mode, unit, shadow, devHead, call, job, left, burst, moved, answer>>
  BY DEF Command, Op
<1>2. This \in Drives /\ devHead.dev = This /\ Op # "none" /\ Op \in Ops
  BY <1>1, Typed DEF SelectInv, CallInv
<1>3. drv' = IF drv[This].st = "busy" THEN drv ELSE [drv EXCEPT ![This] = rec]
  <2>1. GetCommand(Op, ext, Op \in Transfers /\ (ext \/ unit[This].xferMultiple))
    BY DEF Command, Op, This
  <2> QED
    BY <1>2, <2>1 DEF GetCommand
<1>4. Op \in Transfers => /\ rec.at = lba /\ rec.todo = txn
                          /\ drv[This].st # "busy" /\ txn \in 1..MaxTransfer
  BY <1>1 DEF ToldInv, CountInv
<1>5. rec \in Drive
  <2>1. drv[This].multiple \in Nat
    BY <1>2, Typed DEF Drive
  <2>2. rec.at \in Nat /\ rec.todo \in Nat
    BY <1>4, Typed
  <2>3. rec.at = IF Op \in Transfers THEN AddressIn(ext) ELSE 0
    OBVIOUS
  <2>4. rec.todo = IF Op \in Transfers THEN CountIn(ext)
                   ELSE IF Op \in OneSector THEN 1 ELSE 0
    OBVIOUS
  <2> QED
    BY <1>2, <2>1, <2>2, <2>3, <2>4 DEF Drive
<1>6. drv' \in [Drives -> Drive]
  BY <1>3, <1>5 DEF TypeOK
<1>7. /\ \A d \in Drives : drv'[d] = drv[d] \/ (d = This /\ drv'[d] = rec)
      /\ drv[This].st # "busy" => drv'[This] = rec
  BY <1>2, <1>3 DEF TypeOK
<1>8. /\ rec.st = "busy" /\ rec.cmd = Op /\ rec.multiple = drv[This].multiple
      /\ Op \in NoData => rec.todo = 0
      /\ Op \in Transfers /\ unit[This].xferMultiple => rec.block = drv[This].multiple
  BY OpKinds DEF NoData, Transfers, OneSector
<1> HIDE DEF rec
<1>9. TypeOK'
  <2>1. lba' \in Nat /\ txn' \in Nat
    BY <1>1, Typed
  <2> QED
    BY <1>1, <1>6, <2>1 DEF TypeOK, Pcs, NoRegs
<1>10. CallInv'
  <2>1. Op \in Transfers \cup OneSector \cup NoData
    BY <1>2, OpKinds
  <2> QED
    BY <1>1, <1>4, <2>1, OpKinds DEF CallInv, Op, This
<1>11. SelectInv'
  BY <1>1, <1>2 DEF SelectInv, Op, This
<1>12. DriveInv'
  BY <1>1, <1>7, <1>8 DEF DriveInv
<1>13. SetMultipleInv'
  BY <1>1, <1>7, <1>8, OpKinds DEF SetMultipleInv, Op, This
<1>14. CountInv'
  BY <1>1, <1>4, Typed DEF CountInv, Op, This
<1>15. ToldInv'
  BY <1>1, <1>2, <1>4, <1>7, <1>8, Typed DEF ToldInv, DriveInv, Op, This
<1>16. BurstInv'
  BY <1>1, <1>4, <1>7, <1>8 DEF BurstInv, Op, This
<1> QED
  BY <1>9, <1>10, <1>11, <1>12, <1>13, <1>14, <1>15, <1>16

\* The sums of CountInv and ToldInv, before a sector and after it.
LEMMA OneFurther ==
  ASSUME NEW at \in Nat, NEW t \in Nat, t >= 1, NEW l \in Nat, NEW first \in Nat,
         NEW n \in Nat, NEW rest \in Nat, NEW all \in Nat,
         at + t = l, l = first + n + t, rest + t + n = all
  PROVE  /\ at = first + n /\ n < all
         /\ (at + 1) + (t - 1) = l
         /\ l = first + (n + 1) + (t - 1) /\ rest + (t - 1) + (n + 1) = all
         /\ t = 1 => l = first + (n + 1) /\ rest + (n + 1) = all
OBVIOUS

\* A sector is moved, and what the drive does then.
LEMMA TransferStep ==
  ASSUME IInv, Transfer
  PROVE  /\ IInv'
         /\ UNCHANGED <<job, answer>>
         /\ Op \in Transfers =>
              moved' = Append(moved, <<job.op, job.drive, job.lba + Len(moved)>>)
                /\ Len(moved) < job.count /\ answer = "none"
         /\ Op \notin Transfers => moved' = moved
<1> USE DEF IInv
<1> DEFINE dr == drv[This]
<1> DEFINE goes == [dr EXCEPT !.at = @ + 1, !.todo = @ - 1, !.offered = @ - 1,
                              !.st = IF dr.offered = 1 THEN "busy" ELSE "drq"]
<1> DEFINE more == burst + 1 < unit[This].multipleCount
<1>1. /\ pc = "xfer" /\ txn' = txn - 1
      /\ txn > 1 /\ more => burst' = burst + 1 /\ pc' = "xfer"
      /\ ~(txn > 1 /\ more) =>
           /\ burst' = 0
           /\ pc' = IF txn > 1 THEN "drq"
                    ELSE IF Op \in Transfers \cup {"identify"} THEN "next" ELSE "nodata"
      /\ UNCHANGED <<mode, unit, shadow, devHead, regs, call, job, lba, left, answer>>
  BY DEF Transfer, Op, This
<1>2. /\ This \in Drives /\ devHead.dev = This /\ dr.st = "drq" /\ Op \in Ops
      /\ Op \notin NoData /\ Op # "none" /\ txn \in Nat /\ txn >= 1
  BY <1>1, Typed DEF SelectInv, CallInv, BurstInv
<1>3. /\ dr \in Drive /\ dr.offered >= 1 /\ dr.offered <= dr.todo
      /\ dr.at \in Nat /\ dr.todo \in Nat /\ dr.offered \in Nat /\ dr.multiple \in Nat
  BY <1>2, Typed DEF DriveInv, Drive
<1>4. \/ drv' = [drv EXCEPT ![This] = Idle(dr, FALSE)]
      \/ /\ drv' = [drv EXCEPT ![This] = goes]
         /\ ~(dr.todo = 1 /\ dr.cmd \notin {"write", "passthrough_out"})
  BY <1>1, <1>2 DEF Transfer, MoveSector, Op
<1>5. /\ goes.st = IF dr.offered = 1 THEN "busy" ELSE "drq"
      /\ goes.cmd = dr.cmd /\ goes.at = dr.at + 1 /\ goes.todo = dr.todo - 1
      /\ goes.offered = dr.offered - 1 /\ goes.multiple = dr.multiple
      /\ goes.block = dr.block
      /\ goes \in Drive
  <2>1. dr.at + 1 \in Nat /\ dr.todo - 1 \in Nat /\ dr.offered - 1 \in Nat
    BY <1>3
  <2> QED
    BY <1>3, <2>1 DEF Drive
<1>6. /\ Idle(dr, FALSE).st = "idle" /\ Idle(dr, FALSE).multiple = dr.multiple
      /\ Idle(dr, FALSE) \in Drive
  BY <1>3 DEF Idle, Drive, Ops
<1>7. drv' \in [Drives -> Drive]
  BY <1>4, <1>5, <1>6 DEF TypeOK
<1>8. /\ \A d \in Drives : d # This => drv'[d] = drv[d]
      /\ \/ drv'[This].st = "idle" /\ drv'[This].multiple = dr.multiple /\ dr.todo = 1
         \/ drv'[This] = goes
  <2>1. drv \in [Drives -> Drive]
    BY DEF TypeOK
  <2>2. \/ drv' = [drv EXCEPT ![This] = Idle(dr, FALSE)] /\ dr.todo = 1
        \/ drv' = [drv EXCEPT ![This] = goes]
    BY <1>1, <1>2 DEF Transfer, MoveSector, Op
  <2> QED
    BY <1>2, <1>6, <2>1, <2>2
<1> HIDE DEF goes
<1>9. ASSUME Op \in Transfers
      PROVE  /\ dr.cmd = Op /\ dr.at + txn = lba /\ dr.todo = txn
             /\ unit[This].xferMultiple => dr.block = DrqBlock
             /\ lba = job.lba + Len(moved) + txn /\ left + txn + Len(moved) = job.count
             /\ job \in Jobs /\ job.op = Op /\ job.drive = This
             /\ job.lba \in Nat /\ job.count \in Nat
             /\ answer = "none" /\ unit[This].state = "up"
  BY <1>1, <1>2, <1>9, ConstantsType DEF ToldInv, CountInv, CallInv
<1>N. lba \in Nat /\ left \in Nat /\ Len(moved) \in Nat
  BY Typed
<1>F. ASSUME Op \in Transfers
      PROVE  /\ dr.at = job.lba + Len(moved) /\ Len(moved) < job.count
             /\ (dr.at + 1) + (txn - 1) = lba
             /\ lba = job.lba + (Len(moved) + 1) + (txn - 1)
             /\ left + (txn - 1) + (Len(moved) + 1) = job.count
             /\ txn = 1 => /\ lba = job.lba + (Len(moved) + 1)
                           /\ left + (Len(moved) + 1) = job.count
  <2> HIDE DEF dr
  <2>1. /\ dr.at \in Nat /\ txn \in Nat /\ txn >= 1 /\ lba \in Nat /\ job.lba \in Nat
        /\ Len(moved) \in Nat /\ left \in Nat /\ job.count \in Nat
        /\ dr.at + txn = lba /\ lba = job.lba + Len(moved) + txn
        /\ left + txn + Len(moved) = job.count
    BY <1>2, <1>3, <1>9, <1>F, <1>N, Zenon
  <2> DEFINE at == dr.at
  <2> DEFINE first == job.lba
  <2> DEFINE all == job.count
  <2> DEFINE n == Len(moved)
  <2>2. /\ at \in Nat /\ txn \in Nat /\ txn >= 1 /\ lba \in Nat /\ first \in Nat
        /\ n \in Nat /\ left \in Nat /\ all \in Nat
        /\ at + txn = lba /\ lba = first + n + txn /\ left + txn + n = all
    BY <2>1, Zenon
  <2> HIDE DEF at, first, all, n
  <2>3. /\ at = first + n /\ n < all
        /\ (at + 1) + (txn - 1) = lba
        /\ lba = first + (n + 1) + (txn - 1) /\ left + (txn - 1) + (n + 1) = all
        /\ txn = 1 => lba = first + (n + 1) /\ left + (n + 1) = all
    BY <2>2, OneFurther
  <2> QED
    BY <2>3, Zenon DEF at, first, all, n
<1>10. ASSUME Op \in Transfers
       PROVE  /\ moved' = Append(moved, <<job.op, job.drive, job.lba + Len(moved)>>)
              /\ Len(moved') = Len(moved) + 1
              /\ moved' \in Seq((Transfers \cup {"nothing"}) \X Drives \X Nat)
  <2>1. dr.at = job.lba + Len(moved)
    BY <1>F, <1>10
  <2>2. moved' = Append(moved, <<Op, This, dr.at>>)
    BY <1>2, <1>9, <1>10 DEF Transfer, MoveSector, Op
  <2>3. <<Op, This, dr.at>> \in (Transfers \cup {"nothing"}) \X Drives \X Nat
    BY <1>2, <1>3, <1>10
  <2>4. moved \in Seq((Transfers \cup {"nothing"}) \X Drives \X Nat)
    BY DEF TypeOK
  <2> QED
    BY <1>9, <1>10, <2>1, <2>2, <2>3, <2>4, AppendProperties
<1>11. Op \notin Transfers => moved' = moved
  BY DEF Transfer, MoveSector, Op
<1>12. TypeOK'
  <2>1. moved' \in Seq((Transfers \cup {"nothing"}) \X Drives \X Nat)
    BY <1>10, <1>11 DEF TypeOK
  <2>2. txn' \in Nat /\ burst' \in Nat /\ pc' \in Pcs
    BY <1>1, <1>2, Typed DEF Pcs
  <2> QED
    BY <1>1, <1>7, <2>1, <2>2 DEF TypeOK
<1>13. CallInv'
  BY <1>1, <1>2, OpKinds DEF CallInv, Op, This
<1>14. SelectInv'
  BY <1>1, <1>2 DEF SelectInv, Op, This
<1>15. DriveInv'
  <2> SUFFICES ASSUME NEW d \in Drives
               PROVE  /\ drv'[d].st = "drq" => drv'[d].offered >= 1 /\ drv'[d].offered <= drv'[d].todo
                      /\ drv'[d].multiple = drv[d].multiple
    BY <1>1 DEF DriveInv
  <2> QED
    BY <1>3, <1>5, <1>8 DEF DriveInv
<1>16. SetMultipleInv'
  BY <1>1, <1>2, OpKinds DEF SetMultipleInv, Op, This
<1>17. CountInv'
  <2> SUFFICES ASSUME Op \in Transfers
               PROVE  /\ pc' \in {"next", "drq", "xfer"}
                      /\ pc' # "next" => /\ lba = job.lba + Len(moved') + (txn - 1)
                                         /\ left + (txn - 1) + Len(moved') = job.count
                      /\ pc' = "next" => /\ lba = job.lba + Len(moved')
                                         /\ left + Len(moved') = job.count
    BY <1>1 DEF CountInv, Op
  <2>1. Len(moved') = Len(moved) + 1
    BY <1>10
  <2>2. pc' \in {"next", "drq", "xfer"} /\ (pc' = "next" => txn = 1)
    BY <1>1, <1>2
  <2> QED
    BY <1>F, <2>1, <2>2, Zenon
<1>18. ToldInv'
  <2> SUFFICES ASSUME Op \in Transfers, pc' \in {"drq", "xfer"}, drv'[This].st # "idle"
               PROVE  /\ drv'[This].cmd = Op /\ drv'[This].at + txn' = lba'
                      /\ drv'[This].todo = txn'
                      /\ unit[This].xferMultiple => drv'[This].block = DrqBlock
    BY <1>1 DEF ToldInv, Op, This
  <2>1. drv'[This] = goes /\ txn' = txn - 1 /\ lba' = lba
    BY <1>1, <1>8
  <2>2. /\ goes.cmd = dr.cmd /\ goes.at = dr.at + 1 /\ goes.todo = dr.todo - 1
        /\ goes.block = dr.block
    BY <1>5
  <2> HIDE DEF dr
  <2> QED
    BY <1>9, <1>F, <2>1, <2>2, Zenon
<1>19. BurstInv'
  <2>1. Op \notin Transfers => txn = 1
    BY <1>1, <1>2, OpKinds DEF CallInv
  <2>2. burst \in Nat /\ DrqBlock \in Nat \ {0}
    BY Typed, ConstantsType
  <2>3. Op \in Transfers =>
          IF unit[This].xferMultiple
            THEN /\ unit[This].multipleCount = DrqBlock
                 /\ burst < DrqBlock /\ dr.offered = Least(txn, DrqBlock - burst)
            ELSE unit[This].multipleCount = 1 /\ burst = 0
    BY <1>1, <1>2, <1>9 DEF BurstInv, DriveInv
  <2>4. CASE txn > 1 /\ more
    <3>1. Op \in Transfers /\ unit[This].xferMultiple
      BY <2>1, <2>2, <2>3, <2>4
    <3>2. drv'[This] = goes /\ goes.st = "drq"
      BY <1>2, <1>3, <1>5, <1>8, <1>9, <2>2, <2>3, <2>4, <3>1 DEF Least
    <3>3. goes.offered = Least(txn - 1, DrqBlock - (burst + 1))
      BY <1>2, <1>5, <2>2, <2>3, <2>4, <3>1 DEF Least
    <3>4. burst + 1 < DrqBlock
      BY <2>3, <2>4, <3>1
    <3> QED
      BY <1>1, <2>2, <2>4, <3>1, <3>2, <3>3, <3>4 DEF BurstInv, Op, This
  <2>5. CASE ~(txn > 1 /\ more)
    <3>1. ASSUME pc' = "drq", Op \in Transfers, unit[This].xferMultiple
          PROVE  drv'[This].st # "drq"
      <4>1. dr.offered = 1
        BY <1>1, <1>2, <2>2, <2>3, <2>5, <3>1 DEF Least
      <4> QED
        BY <1>5, <1>8, <4>1
    <3> QED
      BY <1>1, <2>5, <3>1 DEF BurstInv, Op, This
  <2> QED
    BY <2>4, <2>5
<1>20. IInv'
  BY <1>12, <1>13, <1>14, <1>15, <1>16, <1>17, <1>18, <1>19
<1> QED
  BY <1>1, <1>9, <1>F, <1>10, <1>11, <1>20

\* A function of ata.c returns: what the owner is left with.
LEMMA EndStep ==
  ASSUME IInv, NEW ok \in BOOLEAN, End(ok), pc \notin {"idle", "settle"},
         ok /\ Op = "set_multiple" => drv[This].multiple = DrqBlock
  PROVE  IInv'
<1> USE DEF IInv
<1>1. /\ EndIdentify(ok) \/ EndSetMultiple(ok) \/ EndTransfer(ok) \/ EndCall(ok)
      /\ lba' = 0 /\ left' = 0 /\ txn' = 0 /\ burst' = 0
      /\ UNCHANGED <<mode, devHead, regs, drv>>
  BY DEF End
<1>2. This \in Drives /\ unit[This] \in Unit /\ unit \in [Drives -> Unit]
  BY Typed DEF TypeOK
<1>3. shadow' = shadow \/ shadow' = NoSelect
  BY <1>1, Zenon DEF EndIdentify, EndSetMultiple, EndTransfer, EndCall, GiveUp
<1>4. \/ /\ pc' = "idle" /\ call' = NoCall
         /\ UNCHANGED <<job, moved, answer>> \/ EndTransfer(ok)
      \/ /\ pc' = "select" /\ call' = [call EXCEPT !.op = "set_multiple"]
         /\ unit' = [unit EXCEPT ![This].state = "identified"]
         /\ UNCHANGED <<job, moved, answer>> /\ Op = "identify"
  BY <1>1, Zenon DEF EndIdentify, EndSetMultiple, EndTransfer, EndCall, GiveUp, Returned,
       Op, This
<1>5. /\ unit' \in [Drives -> Unit]
      /\ \A d \in Drives : /\ unit'[d].xferMultiple =>
                                /\ unit'[d].state = "up" /\ unit'[d].multipleCount = DrqBlock
                                /\ drv[d].multiple = DrqBlock
                           /\ unit'[d].state = "up" /\ ~unit'[d].xferMultiple =>
                                unit'[d].multipleCount = 1
  <2>1. CASE EndIdentify(ok)
    <3> DEFINE a == [unit[This] EXCEPT !.state = "identified"]
    <3> DEFINE b == [unit[This] EXCEPT !.state = "up", !.multipleCount = 1]
    <3> DEFINE c == [unit[This] EXCEPT !.state = "gone"]
    <3>1. \E u \in {a, b, c} : unit' = [unit EXCEPT ![This] = u]
      BY <2>1 DEF EndIdentify, GiveUp, This
    <3>2. unit[This].state = "new" /\ ~unit[This].xferMultiple
      BY <1>2, <2>1 DEF EndIdentify, CallInv, DriveInv, Op
    <3>3. /\ \A u \in {a, b, c} : u \in Unit /\ ~u.xferMultiple
          /\ a.state # "up" /\ c.state # "up" /\ b.multipleCount = 1
      <4>1. /\ unit[This].state \in {"new", "identified", "up", "gone"}
            /\ unit[This].multipleCount \in Nat /\ unit[This].xferMultiple \in BOOLEAN
            /\ DOMAIN unit[This] = {"state", "multipleCount", "xferMultiple"}
        BY <1>2 DEF Unit
      <4>2. a \in Unit /\ a.xferMultiple = unit[This].xferMultiple /\ a.state # "up"
        BY <1>2, <4>1 DEF Unit
      <4>3. /\ b \in Unit /\ b.xferMultiple = unit[This].xferMultiple
            /\ b.multipleCount = 1
        BY <1>2, <4>1 DEF Unit
      <4>4. c \in Unit /\ c.xferMultiple = unit[This].xferMultiple /\ c.state # "up"
        BY <1>2, <4>1 DEF Unit
      <4> HIDE DEF a, b, c
      <4> QED
        BY <3>2, <4>2, <4>3, <4>4
    <3> HIDE DEF a, b, c
    <3> QED
      BY <1>2, <3>1, <3>3 DEF DriveInv
  <2>2. CASE EndSetMultiple(ok)
    <3> DEFINE u == [state |-> "up", xferMultiple |-> ok,
                     multipleCount |-> IF ok THEN DrqBlock ELSE 1]
    <3> DEFINE c == [unit[This] EXCEPT !.state = "gone"]
    <3>1. unit' = [unit EXCEPT ![This] = u] \/ unit' = [unit EXCEPT ![This] = c]
      BY <2>2 DEF EndSetMultiple, GiveUp, This
    <3>2. /\ u \in Unit /\ u.state = "up"
          /\ u.xferMultiple => u.multipleCount = DrqBlock /\ ok
          /\ ~u.xferMultiple => u.multipleCount = 1
      BY ConstantsType DEF Unit
    <3>3. Op = "set_multiple"
      BY <2>2 DEF EndSetMultiple, Op
    <3>4. unit[This].state # "up" /\ ~unit[This].xferMultiple
      BY <1>2, <3>3 DEF CallInv, DriveInv
    <3>5. c \in Unit /\ c.state # "up" /\ ~c.xferMultiple
      BY <1>2, <3>4 DEF Unit
    <3> HIDE DEF u, c
    <3>6. CASE unit' = [unit EXCEPT ![This] = u]
      BY <1>2, <3>2, <3>3, <3>6 DEF DriveInv
    <3>7. CASE unit' = [unit EXCEPT ![This] = c]
      BY <1>2, <3>5, <3>7 DEF DriveInv
    <3> QED
      BY <3>1, <3>6, <3>7
  <2>3. CASE EndTransfer(ok) \/ EndCall(ok)
    BY <1>2, <2>3 DEF EndTransfer, EndCall, DriveInv
  <2> QED
    BY <1>1, <2>1, <2>2, <2>3
<1>6. EndTransfer(ok) => /\ job' = NoJob /\ moved' = <<>> /\ answer' \in {"ok", "failed"}
  BY DEF EndTransfer
<1>7. EndTransfer(ok) \/ answer # "none"
  BY <1>1, OpKinds DEF EndIdentify, EndSetMultiple, EndCall, CallInv, Op
<1>8. /\ job' \in Jobs \cup {NoJob} /\ answer' \in {"ok", "failed"}
      /\ moved' \in Seq((Transfers \cup {"nothing"}) \X Drives \X Nat)
  <2>1. /\ job \in Jobs \cup {NoJob} /\ answer \in {"none", "ok", "failed"}
        /\ moved \in Seq((Transfers \cup {"nothing"}) \X Drives \X Nat)
    BY DEF TypeOK
  <2>2. CASE EndTransfer(ok)
    <3>1. <<>> \in Seq((Transfers \cup {"nothing"}) \X Drives \X Nat)
      OBVIOUS
    <3> QED
      BY <1>6, <2>2, <3>1
  <2>3. CASE ~EndTransfer(ok)
    BY <1>4, <1>7, <2>1, <2>3
  <2> QED
    BY <2>2, <2>3
<1>9. /\ pc' \in {"idle", "select"} /\ call' \in [op : Ops, drive : Drives]
      /\ pc' = "idle" => call'.op = "none"
      /\ pc' = "select" => /\ call'.op = "set_multiple" /\ call'.drive = This
                           /\ unit'[This].state = "identified"
  <2>1. call \in [op : Ops, drive : Drives]
    BY DEF TypeOK
  <2>2. [call EXCEPT !.op = "set_multiple"] \in [op : Ops, drive : Drives]
    BY <2>1, OpKinds
  <2>3. /\ [call EXCEPT !.op = "set_multiple"].op = "set_multiple"
        /\ [call EXCEPT !.op = "set_multiple"].drive = This
    BY <2>1 DEF This
  <2>4. [unit EXCEPT ![This].state = "identified"][This].state = "identified"
    BY <1>2 DEF Unit
  <2> QED
    BY <1>4, <2>2, <2>3, <2>4, NoCallType
<1>10. TypeOK'
  BY <1>1, <1>3, <1>5, <1>8, <1>9 DEF TypeOK, Pcs
<1>11. CallInv'
  BY <1>8, <1>9, OpKinds DEF CallInv, Op, This
<1>12. SelectInv'
  BY <1>1, <1>3, <1>9, OpKinds DEF SelectInv, Op, This
<1>13. DriveInv'
  <2>1. \A d \in Drives : drv[d].st = "drq" => drv[d].offered >= 1 /\ drv[d].offered <= drv[d].todo
    BY DEF DriveInv
  <2> QED
    BY <1>1, <1>5, <2>1 DEF DriveInv
<1>14. SetMultipleInv' /\ CountInv' /\ ToldInv' /\ BurstInv'
  BY <1>1, <1>9, OpKinds DEF SetMultipleInv, CountInv, ToldInv, BurstInv, Op, This
<1> QED
  BY <1>10, <1>11, <1>12, <1>13, <1>14

\* The ways a function of ata.c returns.  Only the end of SET MULTIPLE without
\* an error makes the owner believe the drive took the count.
LEMMA ReturnStep ==
  ASSUME IInv, ReadyTimeout \/ AllMoved \/ RegistersTimeout \/ NoDrq \/ Finish
  PROVE  IInv'
<1> USE DEF IInv
<1>1. CASE ReadyTimeout \/ RegistersTimeout \/ NoDrq
  BY <1>1, EndStep DEF ReadyTimeout, RegistersTimeout, NoDrq
<1>2. CASE AllMoved
  <2>1. pc = "next" /\ End(TRUE)
    BY <1>2 DEF AllMoved
  <2>2. Op # "set_multiple"
    BY <2>1, OpKinds DEF CallInv
  <2> QED
    BY <2>1, <2>2, EndStep
<1>3. CASE Finish
  <2> DEFINE ok == Selected.st # "busy" /\ ~Selected.err
  <2>1. pc = "nodata" /\ End(ok)
    BY <1>3 DEF Finish
  <2>2. ok /\ Op = "set_multiple" => drv[This].multiple = DrqBlock
    BY <2>1 DEF SetMultipleInv, SelectInv, Selected
  <2>3. ok \in BOOLEAN
    <3>1. Selected.err \in BOOLEAN
      BY Typed DEF Selected, Drive
    <3> QED
      BY <3>1
  <2> HIDE DEF ok
  <2> QED
    BY <2>1, <2>2, <2>3, EndStep
<1> QED
  BY <1>1, <1>2, <1>3

-----------------------------------------------------------------------------
(* What the owner begins, and what the drives do on their own.                *)

\* init_units(): a position is looked at.
LEMMA AttachStep ==
  ASSUME IInv, NEW d \in Drives, AttachUnit(d) \/ NoDrive(d)
  PROVE  IInv'
<1> USE DEF IInv
<1>1. RawSel(d) \in DevHead
  BY Typed
<1>2. unit \in [Drives -> Unit]
  BY DEF TypeOK
<1>3. CASE AttachUnit(d)
  <2>1. /\ pc = "idle" /\ unit[d].state = "new"
        /\ devHead' = RawSel(d) /\ shadow' = RawSel(d)
        /\ call' = [op |-> "identify", drive |-> d] /\ pc' = "select"
        /\ UNCHANGED <<mode, unit, regs, drv, job, lba, left, txn, burst, moved, answer>>
    BY <1>3, Zenon DEF AttachUnit
  <2>2. Op = "none" /\ answer # "none" /\ burst = 0
    BY <2>1, OpKinds DEF CallInv, BurstInv
  <2>3. TypeOK'
    BY <1>1, <2>1, OpKinds DEF TypeOK, Pcs
  <2>4. CallInv' /\ SelectInv' /\ DriveInv' /\ SetMultipleInv'
    BY <2>1, <2>2, OpKinds DEF CallInv, SelectInv, DriveInv, SetMultipleInv, Op, This
  <2>5. CountInv' /\ ToldInv' /\ BurstInv'
    BY <2>1, <2>2, OpKinds DEF CountInv, ToldInv, BurstInv, Op, This
  <2> QED
    BY <2>3, <2>4, <2>5
<1>4. CASE NoDrive(d)
  <2>1. /\ pc = "idle" /\ unit[d].state = "new"
        /\ devHead' = RawSel(d) /\ shadow' = NoSelect
        /\ unit' = [unit EXCEPT ![d].state = "gone"]
        /\ UNCHANGED <<mode, regs, drv, pc, call, job, lba, left, txn, burst, moved, answer>>
    BY <1>4, Zenon DEF NoDrive, ownerVars
  <2>2. Op = "none"
    BY <2>1 DEF CallInv
  <2> DEFINE u == [unit[d] EXCEPT !.state = "gone"]
  <2>3. /\ u \in Unit /\ u.state = "gone" /\ u.xferMultiple = unit[d].xferMultiple
        /\ unit' = [unit EXCEPT ![d] = u]
    BY <1>2, <2>1 DEF Unit
  <2> HIDE DEF u
  <2>4. TypeOK'
    BY <1>1, <1>2, <2>1, <2>3 DEF TypeOK, Pcs
  <2>5. DriveInv'
    BY <1>2, <2>1, <2>3 DEF DriveInv
  <2>6. CallInv' /\ SelectInv' /\ SetMultipleInv' /\ CountInv' /\ ToldInv' /\ BurstInv'
    BY <2>1, <2>2, OpKinds DEF CallInv, SelectInv, SetMultipleInv, CountInv, ToldInv,
       BurstInv, Op, This
  <2> QED
    BY <2>4, <2>5, <2>6
<1> QED
  BY <1>3, <1>4

\* ata_read() and ata_write() are called.
LEMMA AskStep ==
  ASSUME IInv, NEW j \in Jobs, Ask(j)
  PROVE  IInv' /\ answer # "none"
<1> USE DEF IInv
<1>1. /\ pc = "idle" /\ unit[j.drive].state = "up" /\ mode[j.drive] # "atapi"
      /\ job' = j /\ lba' = j.lba /\ left' = j.count /\ moved' = <<>> /\ answer' = "none"
      /\ call' = [op |-> j.op, drive |-> j.drive] /\ pc' = "select"
      /\ UNCHANGED <<mode, unit, shadow, devHead, regs, drv, txn, burst>>
  BY Zenon DEF Ask
<1>2. j.op \in Transfers /\ j.drive \in Drives /\ j.lba \in Nat /\ j.count \in Nat
  BY ConstantsType
<1>3. Op = "none" /\ answer # "none" /\ burst = 0
  BY <1>1, OpKinds DEF CallInv, BurstInv
<1>4. TypeOK'
  BY <1>1, <1>2, OpKinds DEF TypeOK, Pcs
<1>5. CallInv' /\ SelectInv' /\ DriveInv' /\ SetMultipleInv'
  BY <1>1, <1>2, OpKinds DEF CallInv, SelectInv, DriveInv, SetMultipleInv, Op, This
<1>6. CountInv'
  <2>1. Len(moved') = 0
    BY <1>1
  <2> QED
    BY <1>1, <1>2, <2>1 DEF CountInv, Op, This
<1>7. ToldInv' /\ BurstInv'
  BY <1>1, <1>2, <1>3, OpKinds DEF ToldInv, BurstInv, Op, This
<1> QED
  BY <1>3, <1>4, <1>5, <1>6, <1>7

\* The other commands.
LEMMA CallStep ==
  ASSUME IInv, NEW d \in Drives, NEW op \in Called, Call(op, d)
  PROVE  IInv'
<1> USE DEF IInv
<1>1. /\ pc = "idle"
      /\ call' = [op |-> op, drive |-> d]
      /\ pc' = IF op = "set_pio" THEN "registers" ELSE "select"
      /\ UNCHANGED <<mode, unit, shadow, devHead, regs, drv, job, lba, left, txn,
                     burst, moved, answer>>
  BY Zenon DEF Call
<1>2. /\ op \in OneSector \cup NoData /\ op \notin {"identify", "set_multiple"}
      /\ op \in Ops /\ op \notin Transfers /\ op # "none"
  BY OpKinds
<1>3. Op = "none" /\ answer # "none" /\ burst = 0
  BY <1>1, OpKinds DEF CallInv, BurstInv
<1>4. TypeOK'
  BY <1>1, <1>2 DEF TypeOK, Pcs
<1>5. CallInv' /\ SelectInv' /\ DriveInv' /\ SetMultipleInv'
  BY <1>1, <1>2, <1>3 DEF CallInv, SelectInv, DriveInv, SetMultipleInv, Op, This
<1>6. CountInv' /\ ToldInv' /\ BurstInv'
  BY <1>1, <1>2, <1>3 DEF CountInv, ToldInv, BurstInv, Op, This
<1> QED
  BY <1>4, <1>5, <1>6

\* A drive goes on by itself: only one that is busy does.
LEMMA DriveStepInv ==
  ASSUME IInv, NEW d \in Drives, DriveOffers(d) \/ DriveDone(d) \/ DriveFails(d)
  PROVE  IInv'
<1> USE DEF IInv
<1>1. /\ drv[d].st = "busy"
      /\ UNCHANGED <<mode, unit, shadow, devHead, regs, pc, call, job, lba, left, txn,
                     burst, moved, answer>>
  BY Zenon DEF DriveOffers, DriveDone, DriveFails, ownerVars
<1>2. drv \in [Drives -> Drive] /\ drv[d] \in Drive /\ DrqBlock \in Nat
  BY ConstantsType DEF TypeOK
<1>3. PICK n \in Drive :
        /\ drv' = [drv EXCEPT ![d] = n]
        /\ \/ /\ n.st = "drq" /\ drv[d].todo > 0 /\ drv[d].block > 0
              /\ n.offered = Least(drv[d].todo, drv[d].block)
              /\ n.cmd = drv[d].cmd /\ n.at = drv[d].at /\ n.todo = drv[d].todo
              /\ n.block = drv[d].block /\ n.multiple = drv[d].multiple
           \/ /\ n.st = "idle"
              /\ \/ n.multiple = drv[d].multiple /\ (n.err \/ drv[d].cmd # "set_multiple")
                 \/ n.multiple = DrqBlock
  <2>1. CASE DriveOffers(d)
    <3> DEFINE n == [drv[d] EXCEPT !.st = "drq",
                                   !.offered = Least(drv[d].todo, drv[d].block)]
    <3>1. Least(drv[d].todo, drv[d].block) \in Nat
      BY <1>2 DEF Drive, Least
    <3>2. /\ n \in Drive /\ n.st = "drq"
          /\ n.offered = Least(drv[d].todo, drv[d].block)
          /\ n.cmd = drv[d].cmd /\ n.at = drv[d].at /\ n.todo = drv[d].todo
          /\ n.block = drv[d].block /\ n.multiple = drv[d].multiple
      BY <1>2, <3>1 DEF Drive
    <3>3. drv' = [drv EXCEPT ![d] = n] /\ drv[d].todo > 0 /\ drv[d].block > 0
      BY <1>2, <2>1 DEF DriveOffers, Accepts
    <3> HIDE DEF n
    <3> QED
      BY <3>2, <3>3
  <2>2. CASE DriveDone(d)
    <3> DEFINE n == Idle(IF drv[d].cmd = "set_multiple" THEN [multiple |-> DrqBlock]
                         ELSE drv[d], FALSE)
    <3>1. drv[d].multiple \in Nat
      BY <1>2 DEF Drive
    <3>2. n \in Drive /\ n.st = "idle"
      BY <1>2, <3>1 DEF Idle, Drive, Ops
    <3>3. /\ drv[d].cmd = "set_multiple" => n.multiple = DrqBlock
          /\ drv[d].cmd # "set_multiple" => n.multiple = drv[d].multiple
      BY DEF Idle
    <3>4. drv' = [drv EXCEPT ![d] = n]
      BY <2>2 DEF DriveDone
    <3> HIDE DEF n
    <3> QED
      BY <3>2, <3>3, <3>4
  <2>3. CASE DriveFails(d)
    <3> DEFINE n == Idle(drv[d], TRUE)
    <3>1. drv[d].multiple \in Nat
      BY <1>2 DEF Drive
    <3>2. n \in Drive /\ n.st = "idle" /\ n.multiple = drv[d].multiple /\ n.err
      BY <1>2, <3>1 DEF Idle, Drive, Ops
    <3>3. drv' = [drv EXCEPT ![d] = n]
      BY <2>3 DEF DriveFails
    <3> HIDE DEF n
    <3> QED
      BY <3>2, <3>3
  <2> QED
    BY <2>1, <2>2, <2>3
<1>4. drv' \in [Drives -> Drive] /\ drv'[d] = n
      /\ \A e \in Drives : e # d => drv'[e] = drv[e]
  BY <1>2, <1>3
<1>5. TypeOK'
  BY <1>1, <1>4 DEF TypeOK
<1>6. CallInv' /\ SelectInv' /\ CountInv'
  BY <1>1 DEF CallInv, SelectInv, CountInv, Op, This, DrvSel, HasLba
<1>7. This \in Drives
  BY Typed
<1>8. DriveInv'
  <2>1. drv[d].todo \in Nat /\ drv[d].block \in Nat
    BY <1>2 DEF Drive
  <2>2. n.st = "drq" => n.offered >= 1 /\ n.offered <= n.todo
    BY <1>3, <2>1 DEF Least
  <2>3. n.multiple = drv[d].multiple \/ n.multiple = DrqBlock
    BY <1>3
  <2> QED
    BY <1>1, <1>4, <2>2, <2>3 DEF DriveInv
<1>9. SetMultipleInv'
  <2>1. n.st = "drq" => ~(Op = "set_multiple" /\ pc = "nodata" /\ d = This)
    BY <1>1, <1>3, <1>2 DEF SetMultipleInv, Drive
  <2> QED
    BY <1>1, <1>3, <1>4, <1>7, <2>1 DEF SetMultipleInv, Op, This
<1>10. ToldInv'
  BY <1>1, <1>3, <1>4, <1>7 DEF ToldInv, Op, This, AddressIn, CountIn
<1>11. BurstInv'
  BY <1>1, <1>3, <1>4, <1>7 DEF BurstInv, ToldInv, Op, This
<1> QED
  BY <1>5, <1>6, <1>8, <1>9, <1>10, <1>11

-----------------------------------------------------------------------------
(* Every step keeps the invariant, and is one that BlockTransfer allows.      *)

promised == <<job, moved, answer>>

\* A function returns "ok" for a transfer only when every sector was moved.
LEMMA ReturnIsPromised ==
  ASSUME IInv, NEW ok \in BOOLEAN, End(ok),
         ok /\ Op \in Transfers => Len(moved) = job.count
  PROVE  Promise!Return \/ UNCHANGED promised
<1>1. EndTransfer(ok) \/ UNCHANGED promised
  BY Zenon DEF End, EndIdentify, EndSetMultiple, EndCall, GiveUp, promised
<1>2. CASE EndTransfer(ok)
  <2>1. Op \in Transfers /\ answer' = (IF ok THEN "ok" ELSE "failed")
        /\ job' = NoJob /\ moved' = <<>>
    BY <1>2 DEF EndTransfer, Op
  <2>2. answer = "none"
    BY <2>1 DEF IInv, CallInv
  <2> QED
    BY <2>1, <2>2 DEF Promise!Return
<1> QED
  BY <1>1, <1>2

LEMMA OwnerInv ==
  ASSUME IInv, OwnerStep
  PROVE  IInv' /\ (Promise!Move \/ Promise!Return \/ UNCHANGED promised)
<1>1. CASE Select \/ Settle
  BY <1>1, SelectStep DEF Select, Settle, promised
<1>2. CASE WaitReady \/ NextCommand \/ WaitDrq
  BY <1>2, WaitStep DEF WaitReady, NextCommand, WaitDrq, promised
<1>3. CASE WriteRegisters
  BY <1>3, RegistersStep, Zenon DEF WriteRegisters, promised
<1>4. CASE Command
  BY <1>4, CommandStep DEF Command, promised
<1>5. CASE Transfer
  <2>1. Op \in Transfers => Promise!Move
    BY <1>5, TransferStep DEF Promise!Move, Promise!NextBlock
  <2>2. Op \notin Transfers => UNCHANGED promised
    BY <1>5, TransferStep DEF promised
  <2> QED
    BY <1>5, <2>1, <2>2, TransferStep
<1>6. CASE ReadyTimeout \/ RegistersTimeout \/ NoDrq
  <2>1. End(FALSE)
    BY <1>6 DEF ReadyTimeout, RegistersTimeout, NoDrq
  <2> QED
    BY <1>6, <2>1, ReturnStep, ReturnIsPromised
<1>7. CASE AllMoved
  <2>1. pc = "next" /\ left = 0 /\ End(TRUE)
    BY <1>7 DEF AllMoved
  <2>2. Op \in Transfers => Len(moved) = job.count
    BY <2>1, Typed DEF IInv, CountInv
  <2> QED
    BY <1>7, <2>1, <2>2, ReturnStep, ReturnIsPromised
<1>8. CASE Finish
  <2> DEFINE ok == Selected.st # "busy" /\ ~Selected.err
  <2>1. pc = "nodata" /\ End(ok)
    BY <1>8 DEF Finish
  <2>2. Op \notin Transfers
    BY <2>1 DEF IInv, CallInv
  <2>3. ok \in BOOLEAN
    <3>1. Selected.err \in BOOLEAN
      BY Typed DEF IInv, Selected, Drive
    <3> QED
      BY <3>1
  <2> HIDE DEF ok
  <2> QED
    BY <1>8, <2>1, <2>2, <2>3, ReturnStep, ReturnIsPromised
<1> QED
  BY <1>1, <1>2, <1>3, <1>4, <1>5, <1>6, <1>7, <1>8 DEF OwnerStep

LEMMA StutterInv == ASSUME IInv, UNCHANGED vars PROVE IInv'
<1>1. UNCHANGED <<mode, unit, shadow, devHead, regs, drv, pc, call, job, lba, left, txn,
                  burst, moved, answer>>
  BY DEF vars, ownerVars
<1> QED
  BY <1>1 DEF IInv, TypeOK, CallInv, SelectInv, DriveInv, SetMultipleInv, CountInv, ToldInv,
     BurstInv, Op, This, DrvSel, HasLba, AddressIn, CountIn

LEMMA NextInv ==
  ASSUME IInv, [Next]_vars
  PROVE  IInv' /\ [Promise!Next]_(Promise!vars)
<1>1. ASSUME NEW d \in Drives, AttachUnit(d) \/ NoDrive(d)
      PROVE  IInv' /\ UNCHANGED promised
  BY <1>1, AttachStep, Zenon DEF AttachUnit, NoDrive, ownerVars, promised
<1>2. ASSUME NEW j \in Jobs, Ask(j)
      PROVE  IInv' /\ Promise!Ask(j)
  BY <1>2, AskStep, Zenon DEF Ask, Promise!Ask
<1>3. ASSUME NEW d \in Drives, NEW op \in Called, Call(op, d)
      PROVE  IInv' /\ UNCHANGED promised
  BY <1>3, CallStep, Zenon DEF Call, promised
<1>4. ASSUME NEW d \in Drives, DriveOffers(d) \/ DriveDone(d) \/ DriveFails(d)
      PROVE  IInv' /\ UNCHANGED promised
  BY <1>4, DriveStepInv, Zenon DEF DriveOffers, DriveDone, DriveFails, ownerVars, promised
<1>5. CASE UNCHANGED vars
  BY <1>5, StutterInv, Zenon DEF vars, ownerVars, Promise!vars
<1>6. ASSUME UNCHANGED promised PROVE UNCHANGED Promise!vars
  BY <1>6 DEF promised, Promise!vars
<1>7. Next => \/ \E d \in Drives : AttachUnit(d) \/ NoDrive(d)
              \/ \E j \in Jobs : Ask(j)
              \/ \E d \in Drives, op \in Called : Call(op, d)
              \/ OwnerStep
              \/ \E d \in Drives : DriveOffers(d) \/ DriveDone(d) \/ DriveFails(d)
  BY Zenon DEF Next, DriveStep
<1> QED
  BY <1>1, <1>2, <1>3, <1>4, <1>5, <1>6, <1>7, OwnerInv, Zenon DEF Promise!Next

-----------------------------------------------------------------------------
(* The theorems.                                                              *)

\* Every reachable state of the channel satisfies the inductive invariant.
THEOREM Invariance == Spec => []IInv
<1>1. Init => IInv
  BY InitIInv
<1>2. IInv /\ [Next]_vars => IInv'
  BY NextInv
<1> QED
  BY <1>1, <1>2, PTL DEF Spec

\* Every variable of the channel keeps its type, whatever the drives do.
THEOREM TypeCorrect == Spec => []TypeOK
<1>1. IInv => TypeOK
  BY DEF IInv
<1> QED
  BY <1>1, Invariance, PTL

\* When ata_read() and ata_write() have selected their drive, that drive is the
\* one that executes commands, with LBA addressing for a 48-bit command.
THEOREM ShadowIsTrueHolds == Spec => []ShadowIsTrue
<1>1. IInv => ShadowIsTrue
  BY DEF IInv, SelectInv, ShadowIsTrue, Op, This
<1> QED
  BY <1>1, Invariance, PTL

\* The host never reads or writes the data register of a drive that offers no
\* data, whatever counts the transfer, the unit and the drive have.
THEOREM TakesWhatIsOfferedHolds == Spec => []TakesWhatIsOffered
<1>1. IInv => TakesWhatIsOffered
  BY DEF IInv, SelectInv, BurstInv, TakesWhatIsOffered, Selected, This
<1> QED
  BY <1>1, Invariance, PTL

\* A unit that transfers MULTIPLE has a drive that was told the same count.
THEOREM MultipleAgreesHolds == Spec => []MultipleAgrees
<1>1. IInv => MultipleAgrees
  BY DEF IInv, DriveInv, MultipleAgrees
<1> QED
  BY <1>1, Invariance, PTL

\* Each step of the channel is one BlockTransfer allows, or changes nothing it
\* speaks of: the sectors asked for, in order, each once, and success only when
\* all of them were moved.
THEOREM MovesWhatWasAsked == Spec => Promise!Init /\ [][Promise!Next]_(Promise!vars)
<1>1. Init => Promise!Init
  BY DEF Init, Promise!Init
<1>2. IInv /\ [Next]_vars => [Promise!Next]_(Promise!vars)
  BY NextInv
<1> QED
  BY <1>1, <1>2, Invariance, PTL DEF Spec
=============================================================================
