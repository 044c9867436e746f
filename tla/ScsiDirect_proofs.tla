--------------------------- MODULE ScsiDirect_proofs ---------------------------
(***************************************************************************)
(* Proofs about Address and ScsiDirect, for every request a client can make, *)
(* every answer of a drive, and every size of blocks and words: the block    *)
(* numbers are what byte addresses say; whichever way a request ends all is  *)
(* given back, the answer is told truly, and no answer goes further past the *)
(* end of its buffer than a drive's block takes it.                          *)
(***************************************************************************)
EXTENDS ScsiDirect, DataLemmas, SequenceTheorems, WellFoundedInduction

-----------------------------------------------------------------------------
(* Addresses.                                                                 *)

LEMMA SizesType ==
  BlockSize \in Nat \ {0} /\ BlocksPerWord \in Nat \ {0} /\ Word \in Nat
<1>1. BlockSize \in Nat \ {0} /\ BlocksPerWord \in Nat \ {0}
  BY SizesAssumption
<1> QED
  BY <1>1, SMT DEF Word

LEMMA WordType == Word \in Nat \ {0}
<1>1. PICK b \in Nat \ {0}, w \in Nat \ {0} : b = BlockSize /\ w = BlocksPerWord
  BY SizesType
<1>2. b * w \in Nat \ {0}
  BY SMT
<1> QED
  BY <1>1, <1>2 DEF Word

\* A product that would overflow the 32 bits it is made in keeps its lower part,
\* which is what the division of the upper half leaves over.
LEMMA LowerPart ==
  ASSUME NEW high \in Nat
  PROVE  (high * BlocksPerWord) % Word = (high % BlockSize) * BlocksPerWord
<1> DEFINE B == BlockSize
<1> DEFINE W == BlocksPerWord
<1> DEFINE q == high \div B
<1> DEFINE r == high % B
<1>1. B \in Nat \ {0} /\ W \in Nat \ {0} /\ Word = B * W /\ Word \in Nat
  BY SizesType DEF Word
<1> HIDE DEF B, W
<1>2. q \in Nat /\ r \in Nat /\ r < B /\ high = B * q + r
  BY <1>1, SMT
<1> HIDE DEF q, r
<1>3. high * W = Word * q + r * W
  <2>1. high * W = (B * q + r) * W
    BY <1>2
  <2>2. (B * q + r) * W = (B * q) * W + r * W
    BY <1>1, <1>2, SMT
  <2>3. (B * q) * W = (B * W) * q
    BY <1>1, <1>2, SMT
  <2> QED
    BY <1>1, <2>1, <2>2, <2>3
<1>4. r * W \in Nat /\ r * W < Word
  <2>1. r * W \in Nat
    BY <1>1, <1>2, SMT
  <2>2. r * W < B * W
    BY <1>1, <1>2, SMT
  <2> QED
    BY <1>1, <2>1, <2>2
<1>5. Word \in Nat \ {0}
  BY <1>1, <1>4
<1>6. (Word * q + r * W) % Word = r * W
  BY <1>2, <1>4, <1>5, DivUnique
<1> QED
  BY <1>3, <1>6 DEF r, B, W

\* process_ioreq() reads the block that holds the byte its client named, for all
\* 64 bit addresses: the two shifts lose nothing and do not overlap.
THEOREM LbaIsTrue ==
  ASSUME NEW high \in Nat, NEW offset \in Nat, offset < Word
  PROVE  Lba(high, offset) = (high * Word + offset) \div BlockSize
<1> DEFINE B == BlockSize
<1> DEFINE W == BlocksPerWord
<1> DEFINE q == high \div B
<1> DEFINE r == high % B
<1> DEFINE o == offset \div B
<1> DEFINE s == offset % B
<1>1. B \in Nat \ {0} /\ W \in Nat \ {0} /\ Word = B * W /\ Word \in Nat
  BY SizesType DEF Word
<1>2. Lba(high, offset) = q * Word + r * W + o
  BY LowerPart DEF Lba
<1> HIDE DEF B, W
<1>3. q \in Nat /\ r \in Nat /\ high = B * q + r
  BY <1>1, SMT
<1>4. o \in Nat /\ s \in Nat /\ s < B /\ offset = B * o + s
  BY <1>1, SMT
<1> HIDE DEF q, r, o, s
<1>5. q * Word + r * W = high * W
  <2>1. q * Word = (B * q) * W
    BY <1>1, <1>3, SMT
  <2>2. (B * q) * W + r * W = (B * q + r) * W
    BY <1>1, <1>3, SMT
  <2> QED
    BY <1>3, <2>1, <2>2
<1>6. high * Word + offset = B * (high * W + o) + s
  <2>1. high * Word = B * (high * W)
    BY <1>1, SMT
  <2>2. B * (high * W + o) = B * (high * W) + B * o
    BY <1>1, <1>4, SMT
  <2>3. high * W \in Nat /\ B * (high * W) \in Nat /\ B * o \in Nat
    BY <1>1, <1>4, SMT
  <2> QED
    BY <1>4, <2>1, <2>2, <2>3
<1>7. high * W + o \in Nat
  BY <1>1, <1>4, SMT
<1>8. (B * (high * W + o) + s) \div B = high * W + o
  BY <1>1, <1>4, <1>7, DivUnique
<1> QED
  BY <1>2, <1>5, <1>6, <1>8 DEF B

\* READ CAPACITY with the partial medium indicator names the last block of the
\* cylinder that holds the block asked about, and never one before that.
THEOREM CylinderEndIsLast ==
  ASSUME NEW lba \in Nat, NEW perCylinder \in Nat \ {0}
  PROVE  /\ CylinderEnd(lba, perCylinder) \div perCylinder = lba \div perCylinder
         /\ (CylinderEnd(lba, perCylinder) + 1) % perCylinder = 0
         /\ CylinderEnd(lba, perCylinder) >= lba
<1> DEFINE p == perCylinder
<1> DEFINE q == lba \div p
<1> DEFINE r == lba % p
<1>1. q \in Nat /\ r \in Nat /\ r < p /\ lba = p * q + r
  BY SMT
<1>2. CylinderEnd(lba, p) = (q + 1) * p - 1
  BY DEF CylinderEnd
<1> HIDE DEF p, q, r
<1>3. p \in Nat \ {0}
  BY DEF p
<1>4. (q + 1) * p = p * q + p /\ p * q \in Nat
  BY <1>1, <1>3, SMT
<1>5. CylinderEnd(lba, p) = p * q + (p - 1)
  BY <1>2, <1>3, <1>4
<1>6. (p * q + (p - 1)) \div p = q
  <2>1. p - 1 \in Nat /\ p - 1 < p
    BY <1>3
  <2> QED
    BY <1>1, <1>3, <2>1, DivUnique
<1>7. (CylinderEnd(lba, p) + 1) % p = 0
  <2>1. CylinderEnd(lba, p) + 1 = p * (q + 1) + 0
    BY <1>1, <1>3, <1>4, <1>5, SMT
  <2>2. q + 1 \in Nat /\ 0 \in Nat /\ 0 < p
    BY <1>1, <1>3
  <2>3. (p * (q + 1) + 0) % p = 0
    BY <1>3, <2>2, DivUnique
  <2> QED
    BY <2>1, <2>3
<1>8. CylinderEnd(lba, p) >= lba
  BY <1>1, <1>3, <1>4, <1>5
<1> QED
  BY <1>5, <1>6, <1>7, <1>8 DEF p, q

\* The test against the end of the drive is the one it should be for every
\* request whose end fits 64 bits.
THEOREM PastEndIsTrue ==
  ASSUME NEW lba \in Nat, NEW count \in Nat, NEW sectors \in Nat,
         lba + count < Word * Word
  PROVE  PastEnd(lba, count, sectors) <=> lba + count > sectors
<1> DEFINE V == Word * Word
<1>1. V \in Nat
  BY SizesType, SMT
<1>2. PastEnd(lba, count, sectors) <=> (lba + count) % V > sectors
  BY DEF PastEnd
<1> HIDE DEF V
<1>3. (lba + count) % V = lba + count
  <2>1. lba + count < V
    BY DEF V
  <2> QED
    BY <1>1, <2>1, SMT
<1> QED
  BY <1>2, <1>3

-----------------------------------------------------------------------------
(* The inductive invariant of ScsiDirect.                                     *)

CallPcs   == {"direct", "unaligned", "rw6", "modesense6", "modeselect6", "toc", "play", "wp"}
ClientPcs == {"direct", "unaligned", "rw6"}

CallOps == Ops \cup {"none", "sense", "modesense10", "modeselect10", "toc", "playmsf"}
Args == {<<>>} \cup {<<n>> : n \in Nat} \cup (Nat \X Nat) \cup (Msf \X Msf)

\* A call of atapi_packet().
Frame == [by : {"client", "unit", "sense"}, op : CallOps, cdb : Nat, arg : Args,
          length : Nat, hasData : BOOLEAN, auto : BOOLEAN, at : Ats,
          actual : Nat, status : {0, 2}, senseActual : Nat, ret : Errors,
          extra : BOOLEAN]

Fields == [actual : Nat, status : {0, 2}, senseActual : Nat, value : Int,
           data : {"own", "copy"}, cdb : {"own", "copy"}]

Types ==
  /\ TypeOK
  /\ cmd \in Fields
  /\ back \in Frame
  /\ sent \in Seq([op : CallOps, arg : Args])

\* Which function serves which command.
PcOp ==
  /\ pc \in {"direct", "unaligned"} =>
       req.op \in ScsiOps \ {"rw6", "modesense6", "modeselect6", "play"}
  /\ pc = "rw6" => req.op = "rw6"
  /\ pc = "modesense6" => req.op = "modesense6" /\ req.length >= 4
  /\ pc = "modeselect6" => req.op = "modeselect6"
  /\ pc \in {"toc", "play"} => req.op = "play"
  /\ pc = "wp" => req.op = "protstatus"
  /\ pc = "answer" => req.op \in ScsiOps

ServedInv ==
  /\ pc = "idle" => req = NoRequest
  /\ pc # "idle" => req \in Requests
  /\ pc \in CallPcs => atapi
  /\ PcOp

\* What a function that waits for its packet holds.
Buffers(p) ==
  CASE p = "unaligned" -> {"data"}
    [] p = "rw6" -> {"cdb", "data"}
    [] p \in {"modesense6", "modeselect6", "wp"} -> {"buf"}
    [] p \in {"toc", "play"} -> {"toc"}
    [] OTHER -> {}

\* The unit's command is taken by exactly the functions that use it, the other
\* one by the call that is asking for its sense data.
OwnerInv ==
  /\ "unit" \in inUse <=> pc \in CallPcs \ ClientPcs
  /\ "sense" \in inUse <=> \E i \in DOMAIN frames : frames[i].at = "autosense"
  /\ mem \subseteq Buffers(pc)
  /\ cmd.data = "copy" => pc \in {"unaligned", "rw6"}
  /\ cmd.cdb = "copy" => pc = "rw6"

\* Sense data of this length can be told.
Tellable(n) ==
  /\ n <= EvenUp(req.senseLength)
  /\ n > 0 => req.auto /\ sense # "none"

\* Where two tracks of a table of contents begin, or one frame before its end.
PlayOf(t, r, arg) ==
  \E a, z \in DOMAIN t.td :
    /\ t.td[a].track = r.from
    /\ FrameOf(arg[1]) = FrameOf(t.td[a].msf)
    /\ IF r.to > t.last
         THEN /\ t.td[z].track = Leadout
              /\ FrameOf(arg[2]) = FrameOf(t.td[z].msf) - 1
         ELSE /\ t.td[z].track = r.to
              /\ FrameOf(arg[2]) = FrameOf(t.td[z].msf)

\* How much of its buffer a call has filled: a drive may give a client more
\* than there is room for, by one block.
Fills(f) ==
  /\ f.actual % 2 = 0
  /\ \/ f.actual <= EvenUp(f.length)
     \/ f.by = "client" /\ f.actual < f.length + EvenUp(ByteCount(f.length))

\* The call of the function at pc.
Outer(f) ==
  /\ f.by # "sense" /\ f.op # "sense"
  /\ f.by = "client" <=> pc \in ClientPcs
  /\ f.by = "client" => f.length = req.length
  /\ f.auto => req.auto
  /\ pc \in {"modesense6", "toc", "play", "wp"} => ~f.auto
  /\ pc = "modeselect6" => f.length = ParamLength + 4
  /\ f.op = "playmsf" => pc = "play" /\ PlayOf(toc, req, f.arg)
  /\ Fills(f)
  /\ Tellable(f.senseActual)
  /\ f.at = "autosense" => f.auto
  /\ f.senseActual > 0 => f.auto /\ f.at \in {"autosense", "return"}
  /\ f.senseActual > 0 /\ f.at = "return" => f.ret # "ok"

\* REQUEST SENSE from within it.
Inner(f) ==
  /\ f.by = "sense" /\ f.op = "sense"
  /\ f.length = req.senseLength
  /\ ~f.auto /\ f.at # "autosense" /\ f.senseActual = 0
  /\ Fills(f)
  /\ f.actual > 0 => sense # "none"

StackInv ==
  /\ pc \notin CallPcs => frames = <<>> /\ tries = 0
  /\ pc \in CallPcs =>
       \/ frames = <<>> /\ tries = 0 /\ Outer(back) /\ back.at = "return"
       \/ \E f \in Frame :
            /\ frames = <<f>> /\ Outer(f)
            /\ IF f.at = "autosense"
                 THEN tries \in 1..3 /\ Inner(back)
                 ELSE tries = 0
       \/ \E f, s \in Frame :
            /\ frames = <<s, f>> /\ Outer(f) /\ f.at = "autosense" /\ Inner(s)
            /\ tries \in 1..3

\* What the client's SCSICmd says of its sense data and its bytes.
ToldInv ==
  /\ pc \in {"idle", "serve"} => cmd.actual = 0 /\ cmd.senseActual = 0
  /\ pc # "idle" /\ req.op # "protstatus" => Reached(cmd.actual)
  /\ pc \in CallPcs =>
       cmd.senseActual = IF frames = <<>> /\ pc \in ClientPcs THEN back.senseActual ELSE 0
  /\ pc = "answer" =>
       Tellable(cmd.senseActual) /\ (cmd.senseActual > 0 => error # "ok")
  /\ AnswerIsTold

\* What the data say that were made for the client.
ModeTrue ==
  \E total \in ModeTotals :
    LET total6 == total - 4 IN
      /\ cmd.value + 1 = total6
      /\ back.actual = Least(total, req.alloc + 4) =>
           cmd.actual = Least(total6, Least(req.alloc, req.length))

DataInv ==
  pc \in {"answer", "replied"} /\ error = "ok" =>
    /\ atapi /\ req.op = "modesense6" => ModeTrue
    /\ ~atapi /\ req.op = "cap10" => cmd.value = CapacityLba

\* A command of an ATA unit is for the blocks of its request, which were
\* compared with the end of the drive.
SentOfAta(c) ==
  \/ c.op = "passthrough"
  \/ /\ c.op = "io"
     /\ req.op = "io"
     /\ c.arg = <<Lba(req.lba, req.count), Count(req.length)>>
     /\ ~PastEnd(Lba(req.lba, req.count), Count(req.length), req.sectors)
  \/ /\ c.op \in ReadWrite
     /\ req.op = c.op
     /\ c.arg = <<req.lba, req.count>>
     /\ ~PastEnd(req.lba, req.count, req.sectors)

SentInv ==
  /\ pc \in {"idle", "serve"} => sent = <<>>
  /\ \A i \in DOMAIN sent :
       /\ sent[i].op = "playmsf" =>
            pc \in {"play", "answer", "replied"} /\ PlayOf(toc, req, sent[i].arg)
       /\ ~atapi => SentOfAta(sent[i])

IInv == Types /\ ServedInv /\ OwnerInv /\ StackInv /\ ToldInv /\ DataInv /\ SentInv

-----------------------------------------------------------------------------
(* Lemmas about lengths, calls and the stack of calls.                        *)

LEMMA ConstantTypes ==
  /\ SenseSize \in Nat \ {0} /\ AnswerSize \in Nat \ {0} /\ PerCylinder \in Nat \ {0}
  /\ Burst \in Nat \ {0} /\ TocSize \in Nat \ {0}
  /\ ModeTotals \subseteq Nat /\ Tocs \subseteq Toc
  /\ AtaRequests \subseteq Request /\ AtapiRequests \subseteq Request
  /\ NoRequest \notin Request
BY RequestsAssumption, DrivesAssumption

LEMMA EvenFacts ==
  ASSUME NEW n \in Nat
  PROVE  /\ EvenUp(n) \in Nat /\ n <= EvenUp(n) /\ EvenUp(n) % 2 = 0
         /\ EvenUp(n + 4) = EvenUp(n) + 4
BY DEF EvenUp

LEMMA EvenMonotone ==
  ASSUME NEW m \in Nat, NEW n \in Nat, m <= n
  PROVE  EvenUp(m) <= EvenUp(n)
BY DEF EvenUp

\* A block of data that is not longer than what remains fits in words.
LEMMA BlockFits ==
  ASSUME NEW length \in Nat, NEW actual \in Nat, NEW n \in Nat \ {0},
         actual % 2 = 0, n <= length - actual
  PROVE  /\ actual + EvenUp(n) \in Nat /\ actual + EvenUp(n) > actual
         /\ (actual + EvenUp(n)) % 2 = 0
         /\ actual + EvenUp(n) <= EvenUp(length)
BY DEF EvenUp

\* One that keeps to the limit begins before the end of the buffer.
LEMMA BlockReaches ==
  ASSUME NEW length \in Nat, NEW actual \in Nat, NEW n \in Nat \ {0},
         actual % 2 = 0, actual < length, n <= ByteCount(length)
  PROVE  /\ actual + EvenUp(n) \in Nat /\ actual + EvenUp(n) > actual
         /\ (actual + EvenUp(n)) % 2 = 0
         /\ actual + EvenUp(n) < length + EvenUp(ByteCount(length))
<1>1. ByteCount(length) \in Nat
  BY DEF ByteCount, Least
<1>2. EvenUp(n) <= EvenUp(ByteCount(length)) /\ EvenUp(ByteCount(length)) \in Nat
  BY <1>1, EvenMonotone, EvenFacts
<1>3. EvenUp(n) \in Nat /\ EvenUp(n) >= n /\ EvenUp(n) % 2 = 0
  BY EvenFacts
<1>4. (actual + EvenUp(n)) % 2 = 0
  BY <1>3
<1> QED
  BY <1>2, <1>3, <1>4

LEMMA Stacks ==
  \A f, g, h :
    /\ <<f>> # <<>> /\ Head(<<f>>) = f /\ Tail(<<f>>) = <<>>
    /\ <<g, f>> # <<>> /\ Head(<<g, f>>) = g /\ Tail(<<g, f>>) = <<f>>
    /\ <<f>> \o <<>> = <<f>> /\ <<g>> \o <<f>> = <<g, f>>
    /\ <<g, f>> \o <<>> = <<g, f>>
    /\ <<f>> # <<g, h>>
    /\ \E i \in DOMAIN <<f>> : <<f>>[i] = f
    /\ \A i \in DOMAIN <<f>> : <<f>>[i] = f
    /\ \E i \in DOMAIN <<g, f>> : <<g, f>>[i] = f
    /\ \E i \in DOMAIN <<g, f>> : <<g, f>>[i] = g
    /\ \A i \in DOMAIN <<g, f>> : <<g, f>>[i] \in {f, g}
<1> SUFFICES ASSUME NEW f, NEW g, NEW h
             PROVE  /\ <<f>> # <<>> /\ Head(<<f>>) = f /\ Tail(<<f>>) = <<>>
                    /\ <<g, f>> # <<>> /\ Head(<<g, f>>) = g /\ Tail(<<g, f>>) = <<f>>
                    /\ <<f>> \o <<>> = <<f>> /\ <<g>> \o <<f>> = <<g, f>>
                    /\ <<g, f>> \o <<>> = <<g, f>>
                    /\ <<f>> # <<g, h>>
                    /\ \E i \in DOMAIN <<f>> : <<f>>[i] = f
                    /\ \A i \in DOMAIN <<f>> : <<f>>[i] = f
                    /\ \E i \in DOMAIN <<g, f>> : <<g, f>>[i] = f
                    /\ \E i \in DOMAIN <<g, f>> : <<g, f>>[i] = g
                    /\ \A i \in DOMAIN <<g, f>> : <<g, f>>[i] \in {f, g}
  OBVIOUS
<1>1. <<f>> # <<>> /\ Head(<<f>>) = f /\ Tail(<<f>>) = <<>> /\ <<f>> \o <<>> = <<f>>
  OBVIOUS
<1>2. <<g, f>> # <<>> /\ Head(<<g, f>>) = g /\ Tail(<<g, f>>) = <<f>> /\ <<g>> \o <<f>> = <<g, f>>
  <2>1. <<g, f>> # <<>> /\ Head(<<g, f>>) = g
    OBVIOUS
  <2>2. Tail(<<g, f>>) = <<f>>
    OBVIOUS
  <2>3. <<g>> \o <<f>> = <<g, f>>
    <3>1. /\ <<g>> \in Seq({f, g}) /\ <<f>> \in Seq({f, g}) /\ <<g, f>> \in Seq({f, g})
          /\ Len(<<g>>) = 1 /\ Len(<<f>>) = 1 /\ Len(<<g, f>>) = 2
      OBVIOUS
    <3>2. /\ <<g>> \o <<f>> \in Seq({f, g}) /\ Len(<<g>> \o <<f>>) = 2
          /\ (<<g>> \o <<f>>)[1] = g /\ (<<g>> \o <<f>>)[2] = f
      BY <3>1, ConcatProperties
    <3>3. \A i \in 1..2 : (<<g>> \o <<f>>)[i] = <<g, f>>[i]
      BY <3>2
    <3> QED
      BY <3>1, <3>2, <3>3, SeqEqual
  <2> QED
    BY <2>1, <2>2, <2>3
<1>3. <<g, f>> \o <<>> = <<g, f>> /\ Len(<<f>>) = 1 /\ Len(<<g, h>>) = 2
  OBVIOUS
<1>4. DOMAIN <<f>> = {1} /\ DOMAIN <<g, f>> = {1, 2}
  OBVIOUS
<1>5. <<f>>[1] = f /\ <<g, f>>[1] = g /\ <<g, f>>[2] = f
  OBVIOUS
<1> QED
  BY <1>1, <1>2, <1>3, <1>4, <1>5

\* The shape of the stack of calls.
Shape ==
  \/ frames = <<>>
  \/ \E f \in Frame : frames = <<f>>
  \/ \E f, s \in Frame : frames = <<s, f>>

\* The driver starts with nothing asked.
LEMMA InitIInv == ASSUME Init PROVE IInv
<1>1. NoCall \in Frame
  BY DEF NoCall, Call, Frame, CallOps, Args, Ats, Errors
<1>2. Types
  BY <1>1, EmptySeq DEF Init, Types, TypeOK, FreshCmd, Fields, Pcs, Errors, Senses
<1>3. ServedInv /\ OwnerInv /\ StackInv
  BY EmptySeq DEF Init, ServedInv, PcOp, OwnerInv, StackInv, CallPcs, ClientPcs, FreshCmd
<1>4. ToldInv
  BY DEF Init, ToldInv, AnswerIsTold, ScsiDone, Done, FreshCmd, CallPcs
<1>5. DataInv /\ SentInv
  BY EmptySeq DEF Init, DataInv, SentInv
<1> QED
  BY <1>2, <1>3, <1>4, <1>5 DEF IInv

-----------------------------------------------------------------------------
(* A step of the newest call of atapi_packet().                               *)

\* What a step within a call may do to it.
Moves(f, g) ==
  /\ g \in Frame
  /\ g.by = f.by /\ g.op = f.op /\ g.arg = f.arg /\ g.length = f.length /\ g.auto = f.auto
  /\ g.at # "autosense"
  /\ Fills(f) => Fills(g)
  /\ f.op = "sense" /\ g.actual > f.actual => sense' # "none"
  /\ \/ g.senseActual = f.senseActual
     \/ /\ f.auto /\ sense' # "none" /\ g.senseActual <= EvenUp(req.senseLength)
        /\ g.at = "return" /\ g.ret # "ok"

LEMMA FailedFacts ==
  ASSUME NEW f \in Frame
  PROVE  /\ Failed(f) \in Frame /\ Failed(f).at = "return" /\ Failed(f).ret # "ok"
         /\ Failed(f).by = f.by /\ Failed(f).op = f.op /\ Failed(f).arg = f.arg
         /\ Failed(f).length = f.length /\ Failed(f).auto = f.auto
         /\ Failed(f).actual = f.actual /\ Failed(f).senseActual = f.senseActual
<1> DEFINE r == IF f.ret = "ok" THEN "badstatus" ELSE f.ret
<1>1. r \in Errors /\ r # "ok"
  BY DEF Frame, Errors
<1>2. Failed(f) = [f EXCEPT !.at = "return", !.status = 2, !.ret = r]
  BY DEF Failed, Frame
<1> HIDE DEF r
<1> QED
  BY <1>1, <1>2 DEF Frame, Ats

\* The steps within a call, for the stack <<f>> \o rest.
Within ==
  \/ PacketRefused \/ PacketNotTaken \/ PacketSent \/ PacketData \/ PacketDone
  \/ PacketEnd \/ PacketFails

\* Each of them does what Moves says; a command given to the drive is recorded.
LEMMA WithinMoves ==
  ASSUME Types, req \in Request, NEW f \in Frame, frames # <<>>, f = Head(frames), Within
  PROVE  /\ f.at \in {"check", "data", "end", "error"}
         /\ \E g : Moves(f, g) /\ frames' = <<g>> \o Tail(frames)
         /\ UNCHANGED <<atapi, req, pc, cmd, error, back, inUse, mem, toc, tries>>
         /\ sense' \in Senses /\ (sense # "none" => sense' # "none")
         /\ drive' \in [busy : BOOLEAN, err : BOOLEAN]
         /\ \/ sent' = sent
            \/ f.op # "sense" /\ sent' = Append(sent, [op |-> f.op, arg |-> f.arg])
<1>1. Top = f /\ sense \in Senses /\ drive \in [busy : BOOLEAN, err : BOOLEAN]
  BY DEF Top, Types, TypeOK
<1>2. ASSUME NEW a \in {"data", "end", "error", "return"}, NEW e \in Errors, GoesTo(a, e)
      PROVE  \E g : Moves(f, g) /\ frames' = <<g>> \o Tail(frames)
  <2> DEFINE g == [f EXCEPT !.at = a, !.ret = e]
  <2>1. frames' = <<g>> \o Tail(frames)
    BY <1>1, <1>2 DEF GoesTo, Becomes
  <2>2. /\ g \in Frame /\ g.by = f.by /\ g.op = f.op /\ g.arg = f.arg /\ g.length = f.length
        /\ g.auto = f.auto /\ g.at = a /\ g.actual = f.actual /\ g.senseActual = f.senseActual
    BY DEF Frame, Ats
  <2> HIDE DEF g
  <2>3. Moves(f, g)
    BY <2>2 DEF Moves, Fills, Frame
  <2> QED
    BY <2>1, <2>3
<1>3. CASE PacketRefused
  <2>1. /\ f.at = "check" /\ GoesTo("end", "address") /\ UNCHANGED <<sense, drive, sent, tries>>
        /\ Rest
    BY <1>1, <1>3 DEF PacketRefused, At
  <2> QED
    BY <1>1, <1>2, <2>1 DEF Rest, Errors
<1>4. CASE PacketNotTaken
  <2>1. /\ f.at = "check" /\ UNCHANGED <<sense, sent, tries>> /\ Rest
        /\ GoesTo("end", "busy") \/ GoesTo("end", "phase")
    BY <1>1, <1>4, Zenon DEF PacketNotTaken, At
  <2>2. drive' \in [busy : BOOLEAN, err : BOOLEAN]
    <3>1. drive' = drive \/ \E busy \in BOOLEAN : drive' = [drive EXCEPT !.err = FALSE, !.busy = busy]
      BY <1>4, Zenon DEF PacketNotTaken
    <3>2. CASE drive' = drive
      BY <1>1, <3>2
    <3>3. CASE \E busy \in BOOLEAN : drive' = [drive EXCEPT !.err = FALSE, !.busy = busy]
      <4>1. PICK b \in BOOLEAN : drive' = [drive EXCEPT !.err = FALSE, !.busy = b]
        BY <3>3
      <4>2. drive' = [busy |-> b, err |-> FALSE]
        BY <1>1, <4>1
      <4> QED
        BY <4>2
    <3> QED
      BY <3>1, <3>2, <3>3
  <2> QED
    BY <1>1, <1>2, <2>1, <2>2 DEF Rest, Errors
<1>5. CASE PacketSent
  <2>1. /\ f.at = "check" /\ UNCHANGED <<sense, tries>> /\ Rest
        /\ sent' = IF f.op = "sense" THEN sent ELSE Append(sent, [op |-> f.op, arg |-> f.arg])
        /\ GoesTo("data", "ok") \/ GoesTo("error", "aborted") \/ GoesTo("end", "busy")
    BY <1>1, <1>5, Zenon DEF PacketSent, At
  <2>2. drive' \in [busy : BOOLEAN, err : BOOLEAN]
    <3>1. \/ drive' = [drive EXCEPT !.err = FALSE]
          \/ drive' = [drive EXCEPT !.err = TRUE]
          \/ drive' = [busy |-> TRUE, err |-> FALSE]
      BY <1>5, Zenon DEF PacketSent
    <3>2. [busy |-> TRUE, err |-> FALSE] \in [busy : BOOLEAN, err : BOOLEAN]
      OBVIOUS
    <3>3. CASE drive' = [drive EXCEPT !.err = FALSE] \/ drive' = [drive EXCEPT !.err = TRUE]
      BY <1>1, <3>3
    <3> QED
      BY <3>1, <3>2, <3>3, Zenon
  <2> QED
    BY <1>1, <1>2, <2>1, <2>2 DEF Rest, Errors
<1>6. CASE PacketData
  <2>1. /\ f.at = "data" /\ f.length > 0 /\ UNCHANGED <<drive, sent, tries>> /\ Rest
        /\ sense' = IF f.op = "sense" /\ Remaining > 0 THEN "drive" ELSE sense
    BY <1>1, <1>6, Zenon DEF PacketData, At
  <2>2. Remaining = f.length - f.actual
    BY <1>1 DEF Remaining
  <2>3. PICK n \in {f.length, Remaining, Burst} :
          /\ n > 0 /\ n <= ByteCount(f.length)
          /\ f.by # "client" /\ Remaining > 0 => n <= Remaining
          /\ IF Remaining > 0
               THEN Becomes([f EXCEPT !.actual = @ + EvenUp(n)])
               ELSE ~f.extra /\ Becomes([f EXCEPT !.extra = TRUE])
    BY <1>1, <1>6 DEF PacketData, MayOffer
  <2>4. \E g : Moves(f, g) /\ frames' = <<g>> \o Tail(frames)
    <3>1. CASE Remaining > 0
      <4> DEFINE m == f.actual + EvenUp(n)
      <4> DEFINE g == [f EXCEPT !.actual = m]
      <4>1. n \in Nat \ {0} /\ f.actual < f.length /\ f.length \in Nat /\ f.actual \in Nat
        BY <2>2, <2>3, <3>1, ConstantTypes DEF Frame
      <4>2. /\ m \in Nat /\ m > f.actual
            /\ f.actual % 2 = 0 =>
                 /\ m % 2 = 0
                 /\ \/ m <= EvenUp(f.length)
                    \/ f.by = "client" /\ m < f.length + EvenUp(ByteCount(f.length))
        <5>1. m \in Nat /\ m > f.actual
          BY <4>1 DEF EvenUp
        <5>2. CASE f.by = "client"
          BY <2>3, <4>1, <5>1, <5>2, BlockReaches
        <5>3. CASE f.by # "client"
          <6>1. n <= f.length - f.actual
            BY <2>2, <2>3, <3>1, <5>3
          <6> QED
            BY <4>1, <5>1, <6>1, BlockFits
        <5> QED
          BY <5>2, <5>3
      <4>3. frames' = <<g>> \o Tail(frames)
        BY <2>3, <3>1, <1>1 DEF Becomes
      <4> HIDE DEF m
      <4>4. /\ g \in Frame /\ g.by = f.by /\ g.op = f.op /\ g.arg = f.arg /\ g.length = f.length
            /\ g.auto = f.auto /\ g.at = "data" /\ g.actual = m /\ g.senseActual = f.senseActual
        BY <2>1, <4>2 DEF Frame
      <4> HIDE DEF g
      <4>5. Moves(f, g)
        BY <2>1, <3>1, <4>2, <4>4 DEF Moves, Fills
      <4> QED
        BY <4>3, <4>5
    <3>2. CASE ~(Remaining > 0)
      <4> DEFINE g == [f EXCEPT !.extra = TRUE]
      <4>1. frames' = <<g>> \o Tail(frames)
        BY <2>3, <3>2, <1>1 DEF Becomes
      <4>2. /\ g \in Frame /\ g.by = f.by /\ g.op = f.op /\ g.arg = f.arg /\ g.length = f.length
            /\ g.auto = f.auto /\ g.at = "data" /\ g.actual = f.actual /\ g.senseActual = f.senseActual
        BY <2>1 DEF Frame
      <4> HIDE DEF g
      <4>3. Moves(f, g)
        BY <4>2 DEF Moves, Fills, Frame
      <4> QED
        BY <4>1, <4>3
    <3> QED
      BY <3>1, <3>2
  <2> QED
    BY <1>1, <2>1, <2>4 DEF Rest, Senses
<1>7. CASE PacketDone
  <2>1. /\ f.at = "data" /\ UNCHANGED <<sense, sent, tries>> /\ Rest
        /\ GoesTo("end", "ok") \/ GoesTo("error", "phase") \/ GoesTo("end", "busy")
    BY <1>1, <1>7, Zenon DEF PacketDone, At
  <2>2. drive' \in [busy : BOOLEAN, err : BOOLEAN]
    <3>1. \/ drive' = drive
          \/ drive' = [drive EXCEPT !.err = TRUE]
          \/ \E busy \in BOOLEAN : drive' = [drive EXCEPT !.busy = busy]
          \/ drive' = [drive EXCEPT !.busy = TRUE]
      BY <1>7, Zenon DEF PacketDone
    <3> QED
      BY <1>1, <3>1
  <2> QED
    BY <1>1, <1>2, <2>1, <2>2 DEF Rest, Errors
<1>8. CASE PacketEnd
  <2>1. /\ f.at = "end" /\ UNCHANGED <<sense, drive, sent, tries>> /\ Rest
        /\ GoesTo("error", f.ret) \/ GoesTo("return", f.ret)
    BY <1>1, <1>8, Zenon DEF PacketEnd, At
  <2>2. f.ret \in Errors
    BY DEF Frame
  <2> QED
    BY <1>1, <1>2, <2>1, <2>2 DEF Rest
<1>9. CASE PacketFails
  <2>1. f.at = "error" /\ UNCHANGED <<drive, sent, tries>> /\ Rest
    BY <1>1, <1>9, Zenon DEF PacketFails, At
  <2>2. CASE f.ret = "busy" /\ Fakes(f.auto, "busy")
    <3> DEFINE h == [f EXCEPT !.senseActual = SenseSize]
    <3> DEFINE g == Failed(h)
    <3>1. sense' = "fake" /\ frames' = <<g>> \o Tail(frames)
      BY <1>1, <1>9, <2>2 DEF PacketFails, Becomes
    <3>2. f.auto /\ SenseSize \in Nat /\ SenseSize <= EvenUp(req.senseLength)
      <4>1. f.auto
        BY <2>2, Zenon DEF Fakes
      <4>2. req.senseLength >= SenseSize
        BY <2>2, Zenon DEF Fakes
      <4>3. req.senseLength \in Nat /\ SenseSize \in Nat
        BY ConstantTypes DEF Request
      <4>4. req.senseLength <= EvenUp(req.senseLength) /\ EvenUp(req.senseLength) \in Nat
        BY <4>3, EvenFacts
      <4>5. SenseSize <= EvenUp(req.senseLength)
        BY <4>2, <4>3, <4>4
      <4> QED
        BY <4>1, <4>3, <4>5, Zenon
    <3>3. /\ g \in Frame /\ g.by = f.by /\ g.op = f.op /\ g.arg = f.arg /\ g.length = f.length
          /\ g.auto = f.auto /\ g.at = "return" /\ g.actual = f.actual
          /\ g.senseActual = SenseSize /\ g.ret # "ok"
      <4>1. /\ h \in Frame /\ h.by = f.by /\ h.op = f.op /\ h.arg = f.arg /\ h.length = f.length
            /\ h.auto = f.auto /\ h.actual = f.actual /\ h.senseActual = SenseSize
        BY <3>2 DEF Frame
      <4> HIDE DEF h
      <4> QED
        BY <4>1, FailedFacts
    <3> HIDE DEF g
    <3>4. Moves(f, g)
      BY <3>1, <3>2, <3>3 DEF Moves, Fills, Frame
    <3> QED
      BY <1>1, <2>1, <3>1, <3>4 DEF Rest, Senses
  <2>3. CASE ~(f.ret = "busy" /\ Fakes(f.auto, "busy"))
    <3> DEFINE g == Failed(f)
    <3>1. sense' = sense /\ frames' = <<g>> \o Tail(frames)
      BY <1>1, <1>9, <2>3 DEF PacketFails, Becomes
    <3>2. /\ g \in Frame /\ g.by = f.by /\ g.op = f.op /\ g.arg = f.arg /\ g.length = f.length
          /\ g.auto = f.auto /\ g.at = "return" /\ g.actual = f.actual
          /\ g.senseActual = f.senseActual
      BY FailedFacts
    <3> HIDE DEF g
    <3>3. Moves(f, g)
      BY <3>1, <3>2 DEF Moves, Fills, Frame
    <3> QED
      BY <1>1, <2>1, <3>1, <3>3 DEF Rest, Senses
  <2> QED
    BY <2>2, <2>3
<1> QED
  BY <1>3, <1>4, <1>5, <1>6, <1>7, <1>8, <1>9 DEF Within

LEMMA AppendElements ==
  ASSUME NEW S, NEW s \in Seq(S), NEW e \in S
  PROVE  /\ Append(s, e) \in Seq(S)
         /\ \A i \in DOMAIN Append(s, e) :
              Append(s, e)[i] = e \/ (i \in DOMAIN s /\ Append(s, e)[i] = s[i])
<1>1. Append(s, e) \in Seq(S) /\ Len(Append(s, e)) = Len(s) + 1 /\ Len(s) \in Nat
  BY AppendProperties
<1>2. DOMAIN s = 1 .. Len(s) /\ DOMAIN Append(s, e) = 1 .. (Len(s) + 1)
  BY <1>1
<1>3. \A i \in 1 .. Len(s) : Append(s, e)[i] = s[i]
  BY AppendProperties
<1>4. Append(s, e)[Len(s) + 1] = e
  BY AppendProperties
<1>5. \A i \in 1 .. (Len(s) + 1) : i = Len(s) + 1 \/ i \in 1 .. Len(s)
  BY <1>1
<1> QED
  BY <1>1, <1>2, <1>3, <1>4, <1>5

\* What is there while a call is active.
LEMMA ActiveFacts ==
  ASSUME IInv, frames # <<>>
  PROVE  /\ pc \in CallPcs /\ atapi /\ req \in Request /\ Types
         /\ \/ \E f \in Frame : frames = <<f>> /\ Outer(f)
            \/ \E f, s \in Frame :
                 frames = <<s, f>> /\ Outer(f) /\ f.at = "autosense" /\ Inner(s)
                 /\ tries \in 1..3
<1>1. pc \in CallPcs
  BY DEF IInv, StackInv
<1>2. req \in Request
  BY <1>1, ConstantTypes DEF IInv, ServedInv, Requests, CallPcs
<1> QED
  BY <1>1, <1>2 DEF IInv, ServedInv, StackInv

LEMMA OuterMoves ==
  ASSUME NEW f \in Frame, NEW g, Outer(f), Moves(f, g), f.at \in {"check", "data", "end", "error"},
         UNCHANGED <<req, pc, toc>>, req \in Request
  PROVE  Outer(g)' /\ g.at # "autosense" /\ g \in Frame
<1>1. f.senseActual = 0
  <2>1. f.senseActual \in Nat /\ ~(f.senseActual > 0)
    BY DEF Outer, Frame
  <2> QED
    BY <2>1
<1>2. Tellable(g.senseActual)' /\ (g.senseActual > 0 => g.auto /\ g.at = "return" /\ g.ret # "ok")
  <2>1. CASE g.senseActual = f.senseActual
    <3>1. 0 <= EvenUp(req.senseLength)
      BY EvenFacts DEF Request
    <3> QED
      BY <1>1, <2>1, <3>1 DEF Tellable
  <2>2. CASE /\ f.auto /\ sense' # "none" /\ g.senseActual <= EvenUp(req.senseLength)
             /\ g.at = "return" /\ g.ret # "ok"
    BY <2>2 DEF Tellable, Moves, Outer
  <2> QED
    BY <2>1, <2>2 DEF Moves
<1>3. Fills(g)
  BY DEF Outer, Moves
<1>4. /\ g.by = f.by /\ g.op = f.op /\ g.arg = f.arg /\ g.length = f.length /\ g.auto = f.auto
      /\ g.at # "autosense" /\ g \in Frame
  BY DEF Moves
<1>5. f.op = "playmsf" => pc' = "play" /\ PlayOf(toc', req', f.arg)
  BY DEF Outer
<1> QED
  BY <1>2, <1>3, <1>4, <1>5 DEF Outer, ParamLength

LEMMA InnerMoves ==
  ASSUME NEW f \in Frame, NEW g, Inner(f), Moves(f, g), UNCHANGED req,
         sense # "none" => sense' # "none"
  PROVE  Inner(g)' /\ g \in Frame
<1>1. Fills(g)
  BY DEF Inner, Moves
<1>2. g.actual > 0 => sense' # "none"
  <2>1. f.actual \in Nat /\ g.actual \in Nat
    BY DEF Moves, Frame
  <2>2. g.actual > f.actual \/ g.actual <= f.actual
    BY <2>1
  <2> QED
    BY <2>1, <2>2 DEF Inner, Moves
<1>3. g.senseActual = 0
  BY DEF Inner, Moves
<1>4. /\ g.by = f.by /\ g.op = f.op /\ g.length = f.length /\ g.auto = f.auto
      /\ g.at # "autosense" /\ g \in Frame
  BY DEF Moves
<1> QED
  BY <1>1, <1>2, <1>3, <1>4 DEF Inner

\* What was sent stays right while nothing it is about changes.
LEMMA SentStays ==
  ASSUME Types, SentInv, UNCHANGED <<atapi, req, toc>>, pc \in CallPcs,
         pc' \in {pc, "answer", "replied"},
         NEW f \in Frame, f.op = "playmsf" => pc = "play" /\ PlayOf(toc, req, f.arg), atapi,
         sent' = sent \/ sent' = Append(sent, [op |-> f.op, arg |-> f.arg])
  PROVE  SentInv' /\ sent' \in Seq([op : CallOps, arg : Args])
<1> DEFINE e == [op |-> f.op, arg |-> f.arg]
<1>1. e \in [op : CallOps, arg : Args] /\ sent \in Seq([op : CallOps, arg : Args])
  BY DEF Frame, Types
<1>2. e.op = f.op /\ e.arg = f.arg
  OBVIOUS
<1>3. pc' \notin {"idle", "serve"} /\ (pc = "play" => pc' \in {"play", "answer", "replied"})
  BY DEF CallPcs
<1>4. sent' = sent \/ sent' = Append(sent, e)
  OBVIOUS
<1>5. \A i \in DOMAIN sent : sent[i].op = "playmsf" =>
        pc = "play" /\ PlayOf(toc, req, sent[i].arg)
  BY DEF SentInv, CallPcs
<1>6. e.op = "playmsf" => pc = "play" /\ PlayOf(toc, req, e.arg)
  BY <1>2
<1> HIDE DEF e
<1>7. /\ \A i \in DOMAIN sent' : sent'[i] = e \/ (i \in DOMAIN sent /\ sent'[i] = sent[i])
      /\ sent' \in Seq([op : CallOps, arg : Args])
  <2>1. CASE sent' = sent
    BY <1>1, <2>1
  <2>2. CASE sent' = Append(sent, e)
    BY <1>1, <2>2, AppendElements
  <2> QED
    BY <1>4, <2>1, <2>2
<1>8. ASSUME NEW i \in DOMAIN sent'
      PROVE  sent'[i].op = "playmsf" => pc = "play" /\ PlayOf(toc, req, sent'[i].arg)
  BY <1>5, <1>6, <1>7
<1> QED
  BY <1>3, <1>7, <1>8 DEF SentInv

\* A step that only moves the stack of calls, with a call still active: the parts
\* of the invariant that are about the client's request stay.
LEMMA RequestStays ==
  ASSUME IInv, pc \in CallPcs, frames # <<>>, frames' # <<>>,
         UNCHANGED <<atapi, req, pc, cmd, error>>
  PROVE  ServedInv' /\ ToldInv' /\ DataInv'
<1>1. ServedInv'
  BY DEF IInv, ServedInv, PcOp, Requests
<1>2. pc \notin {"idle", "serve", "answer", "replied"}
  BY DEF CallPcs
<1>3. ToldInv'
  BY <1>2 DEF IInv, ToldInv, Reached, AnswerIsTold, ScsiDone, Done
<1>4. DataInv'
  BY <1>2 DEF DataInv
<1> QED
  BY <1>1, <1>3, <1>4

\* The types, from their parts.
LEMMA TypesNext ==
  ASSUME Types, StackInv', UNCHANGED <<atapi, req, pc, cmd, error>>,
         back' \in Frame, sense' \in Senses, inUse' \subseteq {"unit", "sense"},
         mem' \subseteq mem, tries' \in 0..3, drive' \in [busy : BOOLEAN, err : BOOLEAN],
         sent' \in Seq([op : CallOps, arg : Args])
  PROVE  Types'
<1>1. Shape'
  BY DEF StackInv, Shape
<1>2. /\ Len(frames') <= 2
      /\ \A i \in DOMAIN frames' :
           frames'[i].at \in Ats /\ frames'[i].ret \in Errors /\ frames'[i].actual \in Nat
  <2>1. CASE frames' = <<>>
    BY <2>1
  <2>2. ASSUME NEW f \in Frame, frames' = <<f>>
        PROVE  Len(frames') <= 2 /\ \A i \in DOMAIN frames' : frames'[i] \in Frame
    <3>1. Len(<<f>>) = 1
      OBVIOUS
    <3> QED
      BY <2>2, <3>1, Stacks
  <2>3. ASSUME NEW f \in Frame, NEW s \in Frame, frames' = <<s, f>>
        PROVE  Len(frames') <= 2 /\ \A i \in DOMAIN frames' : frames'[i] \in Frame
    <3>1. Len(<<s, f>>) = 2
      OBVIOUS
    <3>2. \A i \in DOMAIN frames' : frames'[i] \in {f, s}
      BY <2>3, Stacks
    <3> QED
      BY <2>3, <3>1, <3>2
  <2> QED
    BY <1>1, <2>1, <2>2, <2>3 DEF Shape, Frame
<1>3. TypeOK'
  BY <1>2, Zenon DEF Types, TypeOK
<1>4. cmd' \in Fields
  BY DEF Types
<1> QED
  BY <1>3, <1>4 DEF Types

\* The steps within a call keep the invariant.
LEMMA WithinIInv == ASSUME IInv, Within PROVE IInv'
<1>1. frames # <<>>
  BY Zenon DEF Within, PacketRefused, PacketNotTaken, PacketSent, PacketData, PacketDone,
     PacketEnd, PacketFails, At
<1>2. /\ pc \in CallPcs /\ atapi /\ req \in Request /\ Types
      /\ \/ \E f \in Frame : frames = <<f>> /\ Outer(f)
         \/ \E f, s \in Frame :
              frames = <<s, f>> /\ Outer(f) /\ f.at = "autosense" /\ Inner(s)
              /\ tries \in 1..3
  BY <1>1, ActiveFacts
<1> DEFINE F == Head(frames)
<1>3. F \in Frame
  BY <1>2, Stacks
<1>4. /\ F.at \in {"check", "data", "end", "error"}
      /\ \E g : Moves(F, g) /\ frames' = <<g>> \o Tail(frames)
      /\ UNCHANGED <<atapi, req, pc, cmd, error, back, inUse, mem, toc, tries>>
      /\ sense' \in Senses /\ (sense # "none" => sense' # "none")
      /\ drive' \in [busy : BOOLEAN, err : BOOLEAN]
      /\ \/ sent' = sent
         \/ F.op # "sense" /\ sent' = Append(sent, [op |-> F.op, arg |-> F.arg])
  BY <1>1, <1>2, <1>3, WithinMoves
<1>5. PICK g : Moves(F, g) /\ frames' = <<g>> \o Tail(frames)
  BY <1>4
<1>6. CASE \E f \in Frame : frames = <<f>> /\ Outer(f)
  <2>1. PICK f \in Frame : frames = <<f>> /\ Outer(f)
    BY <1>6
  <2>2. F = f /\ frames' = <<g>>
    BY <1>5, <2>1, Stacks
  <2>3. Outer(g)' /\ g.at # "autosense" /\ g \in Frame
    <3>1. UNCHANGED <<req, pc, toc>> /\ f.at \in {"check", "data", "end", "error"} /\ Moves(f, g)
      BY <1>4, <1>5, <2>2
    <3> QED
      BY <1>2, <2>1, <3>1, OuterMoves
  <2>4. tries = 0
    <3>1. f.at # "autosense"
      BY <1>4, <2>2
    <3>2. \A h, k : <<h>> # <<>> /\ <<h>> # <<h, k>> /\ <<f>> # <<h, k>> /\ (<<f>> = <<h>> => f = h)
      BY Stacks
    <3> QED
      BY <1>2, <2>1, <3>1, <3>2 DEF IInv, StackInv
  <2>5. frames' # <<>>
    BY <2>2, Stacks
  <2>6. StackInv'
    BY <1>2, <1>4, <2>2, <2>3, <2>4 DEF StackInv
  <2>7. OwnerInv'
    <3>1. /\ "sense" \notin inUse
          /\ ~ \E i \in DOMAIN frames' : frames'[i].at = "autosense"
      <4>1. \A i \in DOMAIN frames : frames[i] = f
        BY <2>1, Stacks
      <4>2. \A i \in DOMAIN frames' : frames'[i] = g
        BY <2>2, Stacks
      <4> QED
        BY <1>4, <2>2, <2>3, <4>1, <4>2 DEF IInv, OwnerInv
    <3> QED
      BY <1>4, <3>1 DEF IInv, OwnerInv, Buffers
  <2>8. SentInv' /\ sent' \in Seq([op : CallOps, arg : Args])
    <3>1. f.op = "playmsf" => pc = "play" /\ PlayOf(toc, req, f.arg)
      BY <2>1 DEF Outer
    <3>2. sent' = sent \/ sent' = Append(sent, [op |-> f.op, arg |-> f.arg])
      BY <1>4, <2>2
    <3>3. UNCHANGED <<atapi, req, toc>> /\ pc' = pc
      BY <1>4
    <3> QED
      BY <1>2, <3>1, <3>2, <3>3, SentStays DEF IInv
  <2>9. Types'
    BY <1>2, <1>4, <2>6, <2>8, TypesNext DEF Types, TypeOK
  <2> QED
    BY <1>1, <1>2, <1>4, <2>5, <2>6, <2>7, <2>8, <2>9, RequestStays DEF IInv
<1>7. CASE \E f, s \in Frame :
             frames = <<s, f>> /\ Outer(f) /\ f.at = "autosense" /\ Inner(s) /\ tries \in 1..3
  <2>1. PICK f \in Frame, s \in Frame :
          frames = <<s, f>> /\ Outer(f) /\ f.at = "autosense" /\ Inner(s) /\ tries \in 1..3
    BY <1>7
  <2>2. F = s /\ frames' = <<g, f>>
    BY <1>5, <2>1, Stacks
  <2>3. Inner(g)' /\ g \in Frame
    <3>1. req' = req /\ Moves(s, g) /\ (sense # "none" => sense' # "none")
      BY <1>4, <1>5, <2>2
    <3> QED
      BY <2>1, <3>1, InnerMoves
  <2>4. Outer(f)'
    BY <1>4, <2>1 DEF Outer, Tellable, ParamLength
  <2>5. frames' # <<>>
    BY <2>2, Stacks
  <2>6. StackInv'
    BY <1>2, <1>4, <2>1, <2>2, <2>3, <2>4 DEF StackInv
  <2>7. OwnerInv'
    <3>1. /\ \E i \in DOMAIN frames : frames[i].at = "autosense"
          /\ \E i \in DOMAIN frames' : frames'[i].at = "autosense"
      BY <2>1, <2>2, Stacks
    <3> QED
      BY <1>4, <3>1 DEF IInv, OwnerInv, Buffers
  <2>8. SentInv' /\ sent' \in Seq([op : CallOps, arg : Args])
    <3>1. sent' = sent
      BY <1>4, <2>1, <2>2 DEF Inner
    <3> QED
      BY <1>4, <3>1 DEF IInv, SentInv, SentOfAta, Types
  <2>9. Types'
    BY <1>2, <1>4, <2>6, <2>8, TypesNext DEF Types, TypeOK
  <2> QED
    BY <1>1, <1>2, <1>4, <2>5, <2>6, <2>7, <2>8, <2>9, RequestStays DEF IInv
<1> QED
  BY <1>2, <1>6, <1>7

\* The request for sense data.
LEMMA SenseCallFacts ==
  ASSUME req \in Request
  PROVE  SenseCall \in Frame /\ Inner(SenseCall) /\ SenseCall.actual = 0
<1>1. req.senseLength \in Nat
  BY DEF Request
<1>2. SenseCall = [by |-> "sense", op |-> "sense", cdb |-> 12, arg |-> <<>>,
                   length |-> req.senseLength, hasData |-> TRUE, auto |-> FALSE,
                   at |-> "check", actual |-> 0, status |-> 0, senseActual |-> 0,
                   ret |-> "ok", extra |-> FALSE]
  BY DEF SenseCall, Call
<1>3. SenseCall \in Frame
  BY <1>1, <1>2 DEF Frame, CallOps, Args, Ats, Errors
<1>4. Fills(SenseCall)
  <2>1. EvenUp(req.senseLength) \in Nat /\ 0 % 2 = 0
    BY <1>1, EvenFacts
  <2>2. SenseCall.actual = 0 /\ SenseCall.length = req.senseLength
    BY <1>2
  <2> QED
    BY <2>1, <2>2 DEF Fills
<1> QED
  BY <1>2, <1>3, <1>4 DEF Inner

\* A failed call asks for sense data.
LEMMA AutoSenseIInv == ASSUME IInv, AutoSense PROVE IInv'
<1>1. frames # <<>>
  BY DEF AutoSense, At
<1>2. /\ pc \in CallPcs /\ atapi /\ req \in Request /\ Types
      /\ \/ \E f \in Frame : frames = <<f>> /\ Outer(f)
         \/ \E f, s \in Frame :
              frames = <<s, f>> /\ Outer(f) /\ f.at = "autosense" /\ Inner(s)
              /\ tries \in 1..3
  BY <1>1, ActiveFacts
<1>3. /\ Top.at = "error" /\ Top.auto
      /\ frames' = <<SenseCall, [Top EXCEPT !.at = "autosense"]>> \o Tail(frames)
      /\ inUse' = inUse \cup {"sense"} /\ tries' = 3
      /\ UNCHANGED <<atapi, req, pc, cmd, error, back, mem, toc, sense, drive, sent>>
  BY Zenon DEF AutoSense, At, SenseTries
<1>4. PICK f \in Frame : frames = <<f>> /\ Outer(f)
  <2>1. ASSUME NEW f \in Frame, NEW s \in Frame, frames = <<s, f>>, Inner(s) PROVE FALSE
    <3>1. Top = s
      BY <2>1, Stacks DEF Top
    <3> QED
      BY <1>3, <2>1, <3>1, Zenon DEF Inner
  <2> QED
    BY <1>2, <2>1
<1>5. Top = f /\ Tail(frames) = <<>>
  BY <1>4, Stacks DEF Top
<1> DEFINE g == [f EXCEPT !.at = "autosense"]
<1>6. frames' = <<SenseCall, g>>
  <2>1. frames' = <<SenseCall, g>> \o <<>>
    BY <1>3, <1>5
  <2> QED
    BY <2>1, Stacks
<1>7. /\ g \in Frame /\ g.by = f.by /\ g.op = f.op /\ g.arg = f.arg /\ g.length = f.length
      /\ g.auto = f.auto /\ g.at = "autosense" /\ g.actual = f.actual
      /\ g.senseActual = f.senseActual
  BY DEF Frame, Ats
<1> HIDE DEF g
<1>8. Outer(g)'
  BY <1>3, <1>4, <1>5, <1>7 DEF Outer, Tellable, ParamLength, Fills
<1>9. SenseCall \in Frame /\ Inner(SenseCall)
  BY <1>2, SenseCallFacts
<1>10. Inner(SenseCall)'
  BY <1>3, <1>9 DEF Inner, SenseCall, Call
<1>11. StackInv'
  <2>1. tries' \in 1..3
    BY <1>3
  <2>2. SenseCall' \in Frame /\ frames' = <<SenseCall', g>>
    BY <1>3, <1>6, <1>9 DEF SenseCall, Call
  <2> QED
    BY <1>2, <1>3, <1>7, <1>8, <1>10, <2>1, <2>2 DEF StackInv
<1>12. OwnerInv'
  <2>1. \E i \in DOMAIN frames' : frames'[i].at = "autosense"
    BY <1>6, <1>7, Stacks
  <2> QED
    BY <1>3, <2>1 DEF IInv, OwnerInv, Buffers
<1>13. SentInv' /\ sent' \in Seq([op : CallOps, arg : Args])
  BY <1>3 DEF IInv, SentInv, SentOfAta, Types
<1>14. Types'
  <2>1. inUse' \subseteq {"unit", "sense"} /\ tries' \in 0..3
    BY <1>2, <1>3 DEF Types, TypeOK
  <2>2. back' \in Frame /\ sense' \in Senses /\ drive' \in [busy : BOOLEAN, err : BOOLEAN]
        /\ mem' \subseteq mem
    BY <1>2, <1>3, Zenon DEF Types, TypeOK
  <2> QED
    BY <1>2, <1>3, <1>11, <1>13, <2>1, <2>2, TypesNext
<1>15. frames' # <<>>
  BY <1>6, Stacks
<1> QED
  BY <1>1, <1>2, <1>3, <1>11, <1>12, <1>13, <1>14, <1>15, RequestStays DEF IInv

\* The sense data are there, or are asked for again.
LEMMA SenseReturnedIInv == ASSUME IInv, SenseReturned PROVE IInv'
<1>1. frames # <<>>
  BY DEF SenseReturned, At
<1>2. /\ pc \in CallPcs /\ atapi /\ req \in Request /\ Types
      /\ \/ \E f \in Frame : frames = <<f>> /\ Outer(f)
         \/ \E f, s \in Frame :
              frames = <<s, f>> /\ Outer(f) /\ f.at = "autosense" /\ Inner(s)
              /\ tries \in 1..3
  BY <1>1, ActiveFacts
<1>3. /\ Top.at = "autosense"
      /\ UNCHANGED <<atapi, req, pc, cmd, error, back, mem, toc, sense, drive, sent>>
  BY DEF SenseReturned, At
<1>4. PICK f \in Frame : frames = <<f>> /\ Outer(f)
  <2>1. ASSUME NEW f \in Frame, NEW s \in Frame, frames = <<s, f>>, Inner(s) PROVE FALSE
    <3>1. Top = s
      BY <2>1, Stacks DEF Top
    <3> QED
      BY <1>3, <2>1, <3>1 DEF Inner
  <2> QED
    BY <1>2, <2>1
<1>5. Top = f /\ Tail(frames) = <<>> /\ f.at = "autosense"
  BY <1>3, <1>4, Stacks DEF Top
<1>6. tries \in 1..3 /\ Inner(back)
  <2>1. \A h, k : <<h>> # <<>> /\ <<f>> # <<h, k>> /\ (<<f>> = <<h>> => f = h)
    BY Stacks
  <2> QED
    BY <1>2, <1>4, <1>5, <2>1 DEF IInv, StackInv
<1>7. PICK n : n = back.actual /\ n \in Nat /\ n <= EvenUp(req.senseLength) /\ (n > 0 => sense # "none")
  BY <1>2, <1>6 DEF Inner, Fills, Types, Frame
<1> DEFINE g == [f EXCEPT !.senseActual = n]
<1>8. \/ /\ frames' = <<Failed(g)>> \o Tail(frames)
         /\ inUse' = inUse \ {"sense"} /\ tries' = 0
      \/ /\ frames' = <<SenseCall, g>> \o Tail(frames)
         /\ tries' = tries - 1 /\ tries # 1 /\ UNCHANGED inUse
  BY <1>5, <1>7, Zenon DEF SenseReturned, Becomes
<1>9. /\ g \in Frame /\ g.by = f.by /\ g.op = f.op /\ g.arg = f.arg /\ g.length = f.length
      /\ g.auto = f.auto /\ g.at = f.at /\ g.actual = f.actual /\ g.senseActual = n
  BY <1>7 DEF Frame
<1> HIDE DEF g
<1>10. f.auto /\ req.auto
  BY <1>4, <1>5 DEF Outer
<1>11. SentInv' /\ sent' \in Seq([op : CallOps, arg : Args])
  BY <1>3 DEF IInv, SentInv, SentOfAta, Types
<1>12. CASE /\ frames' = <<Failed(g)>> \o Tail(frames)
            /\ inUse' = inUse \ {"sense"} /\ tries' = 0
  <2> DEFINE h == Failed(g)
  <2>1. frames' = <<h>>
    <3>1. frames' = <<h>> \o <<>>
      BY <1>5, <1>12
    <3> QED
      BY <3>1, Stacks
  <2>2. /\ h \in Frame /\ h.by = f.by /\ h.op = f.op /\ h.arg = f.arg /\ h.length = f.length
        /\ h.auto = f.auto /\ h.at = "return" /\ h.actual = f.actual /\ h.senseActual = n
        /\ h.ret # "ok"
    BY <1>9, FailedFacts
  <2> HIDE DEF h
  <2>3. Outer(h)'
    <3>1. Tellable(h.senseActual)'
      BY <1>3, <1>7, <1>10, <2>2 DEF Tellable
    <3>2. Fills(h)
      BY <1>4, <2>2 DEF Outer, Fills
    <3> QED
      BY <1>3, <1>4, <1>10, <2>2, <3>1, <3>2 DEF Outer, ParamLength
  <2>4. StackInv'
    <3>1. pc' \in CallPcs /\ h.at # "autosense" /\ tries' = 0
      BY <1>2, <1>3, <1>12, <2>2
    <3> QED
      BY <2>1, <2>2, <2>3, <3>1 DEF StackInv
  <2>5. OwnerInv'
    <3>1. ~ \E i \in DOMAIN frames' : frames'[i].at = "autosense"
      BY <2>1, <2>2, Stacks
    <3> QED
      BY <1>3, <1>12, <3>1 DEF IInv, OwnerInv, Buffers
  <2>6. Types'
    BY <1>2, <1>3, <1>11, <1>12, <2>4, TypesNext DEF Types, TypeOK
  <2>7. frames' # <<>>
    BY <2>1, Stacks
  <2> QED
    BY <1>1, <1>2, <1>3, <1>11, <2>4, <2>5, <2>6, <2>7, RequestStays DEF IInv
<1>13. CASE /\ frames' = <<SenseCall, g>> \o Tail(frames)
            /\ tries' = tries - 1 /\ tries # 1 /\ UNCHANGED inUse
  <2>1. frames' = <<SenseCall, g>>
    <3>1. frames' = <<SenseCall, g>> \o <<>>
      BY <1>5, <1>13
    <3> QED
      BY <3>1, Stacks
  <2>2. Outer(g)'
    <3>1. Tellable(g.senseActual)'
      BY <1>3, <1>7, <1>9, <1>10 DEF Tellable
    <3>2. Fills(g)
      BY <1>4, <1>9 DEF Outer, Fills
    <3> QED
      BY <1>3, <1>4, <1>5, <1>9, <1>10, <3>1, <3>2 DEF Outer, ParamLength
  <2>3. SenseCall \in Frame /\ Inner(SenseCall)
    BY <1>2, SenseCallFacts
  <2>4. Inner(SenseCall)' /\ SenseCall' \in Frame /\ frames' = <<SenseCall', g>>
    BY <1>3, <2>1, <2>3 DEF Inner, SenseCall, Call
  <2>5. tries' \in 1..3
    BY <1>6, <1>13
  <2>6. StackInv'
    <3>1. pc' \in CallPcs /\ g.at = "autosense" /\ g \in Frame
      BY <1>2, <1>3, <1>5, <1>9
    <3> QED
      BY <2>2, <2>4, <2>5, <3>1 DEF StackInv
  <2>7. OwnerInv'
    <3>1. /\ \E i \in DOMAIN frames' : frames'[i].at = "autosense"
          /\ \E i \in DOMAIN frames : frames[i].at = "autosense"
      BY <1>4, <1>5, <1>9, <2>1, Stacks
    <3> QED
      BY <1>3, <1>13, <3>1 DEF IInv, OwnerInv, Buffers
  <2>8. Types'
    BY <1>2, <1>3, <1>11, <1>13, <2>5, <2>6, TypesNext DEF Types, TypeOK
  <2>9. frames' # <<>>
    BY <2>1, Stacks
  <2> QED
    BY <1>1, <1>2, <1>3, <1>11, <2>6, <2>7, <2>8, <2>9, RequestStays DEF IInv
<1> QED
  BY <1>8, <1>12, <1>13

\* A call returns: to the function that made it, or to the call that asked for
\* sense data.
LEMMA PacketReturnIInv == ASSUME IInv, PacketReturn PROVE IInv'
<1>1. frames # <<>>
  BY DEF PacketReturn, At
<1>2. /\ pc \in CallPcs /\ atapi /\ req \in Request /\ Types
      /\ \/ \E f \in Frame : frames = <<f>> /\ Outer(f)
         \/ \E f, s \in Frame :
              frames = <<s, f>> /\ Outer(f) /\ f.at = "autosense" /\ Inner(s)
              /\ tries \in 1..3
  BY <1>1, ActiveFacts
<1>3. /\ Top.at = "return" /\ back' = Top /\ frames' = Tail(frames)
      /\ cmd' = IF Top.by # "client" THEN cmd
                ELSE [cmd EXCEPT !.actual = Top.actual, !.status = Top.status,
                                 !.senseActual = Top.senseActual]
      /\ UNCHANGED <<atapi, req, pc, error, sense, inUse, mem, tries, toc, drive, sent>>
  BY DEF PacketReturn, At
<1>4. SentInv' /\ sent' \in Seq([op : CallOps, arg : Args])
  BY <1>3 DEF IInv, SentInv, SentOfAta, Types
<1>5. ServedInv'
  BY <1>3 DEF IInv, ServedInv, PcOp, Requests
<1>6. pc' \notin {"idle", "serve", "answer", "replied"} /\ pc' = pc
  BY <1>2, <1>3 DEF CallPcs
<1>7. DataInv'
  BY <1>6 DEF DataInv
<1>8. AnswerIsTold'
  BY <1>6 DEF AnswerIsTold, ScsiDone, Done
<1>9. ASSUME NEW f \in Frame, frames = <<f>>, Outer(f) PROVE IInv'
  <2>1. Top = f /\ Tail(frames) = <<>>
    BY <1>9, Stacks DEF Top
  <2>2. back' = f /\ frames' = <<>> /\ f.at = "return"
    BY <1>3, <2>1
  <2>3. tries = 0
    <3>1. \A h, k : <<h>> # <<>> /\ <<f>> # <<h, k>> /\ (<<f>> = <<h>> => f = h)
      BY Stacks
    <3> QED
      BY <1>2, <1>9, <2>2, <3>1 DEF IInv, StackInv
  <2>4. Outer(f)'
    BY <1>3, <1>9 DEF Outer, Tellable, ParamLength
  <2>5. StackInv'
    <3>1. Outer(back)'
      BY <2>2, <2>4 DEF Outer
    <3> QED
      BY <1>2, <1>3, <2>2, <2>3, <3>1 DEF StackInv
  <2>6. /\ cmd \in Fields /\ f.actual \in Nat /\ f.status \in {0, 2} /\ f.senseActual \in Nat
        /\ cmd' = IF f.by # "client" THEN cmd
                  ELSE [cmd EXCEPT !.actual = f.actual, !.status = f.status,
                                   !.senseActual = f.senseActual]
    BY <1>2, <1>3, <2>1 DEF Types, Frame
  <2>7. /\ cmd' \in Fields /\ cmd'.data = cmd.data /\ cmd'.cdb = cmd.cdb
        /\ cmd'.senseActual = IF f.by = "client" THEN f.senseActual ELSE cmd.senseActual
        /\ cmd'.actual = IF f.by = "client" THEN f.actual ELSE cmd.actual
    BY <2>6 DEF Fields
  <2>8. OwnerInv'
    <3>1. \A i \in DOMAIN frames : frames[i] = f
      BY <1>9, Stacks
    <3> QED
      BY <1>3, <2>2, <2>7, <3>1 DEF IInv, OwnerInv, Buffers
  <2>9. ToldInv'
    <3>1. f.by = "client" <=> pc' \in ClientPcs
      BY <1>3, <1>9 DEF Outer
    <3>2. cmd.senseActual = 0
      <4>1. frames # <<>>
        BY <1>1
      <4> QED
        BY <1>2, <4>1 DEF IInv, ToldInv
    <3>3. cmd'.senseActual = IF frames' = <<>> /\ pc' \in ClientPcs THEN back'.senseActual ELSE 0
      BY <2>2, <2>7, <3>1, <3>2
    <3>4. req.op # "protstatus" => Reached(cmd'.actual)
      <4>1. CASE f.by = "client"
        <5>1. f.length = req.length /\ Fills(f) /\ pc \in ClientPcs
          BY <1>9, <4>1 DEF Outer
        <5>2. req.op \notin Translated
          BY <5>1 DEF IInv, ServedInv, PcOp, ClientPcs, Translated
        <5> QED
          BY <1>2, <2>7, <4>1, <5>1, <5>2 DEF Fills, Reached
      <4>2. CASE f.by # "client"
        BY <1>6, <1>3, <2>7, <4>2 DEF IInv, ToldInv
      <4> QED
        BY <4>1, <4>2
    <3> QED
      BY <1>3, <1>6, <1>8, <3>3, <3>4 DEF ToldInv, Reached
  <2>10. Types'
    <3>1. TypeOK'
      <4>1. cmd'.actual \in Nat /\ cmd'.senseActual \in Nat /\ cmd'.status \in {0, 2}
            /\ {cmd'.data, cmd'.cdb} \subseteq {"own", "copy"}
        BY <2>7 DEF Fields
      <4>2. Len(frames') <= 2 /\ \A i \in DOMAIN frames' : FALSE
        BY <2>2
      <4> QED
        BY <1>2, <1>3, <4>1, <4>2, Zenon DEF Types, TypeOK
    <3> QED
      BY <1>4, <2>2, <2>7, <3>1 DEF Types
  <2> QED
    BY <1>4, <1>5, <1>7, <2>5, <2>8, <2>9, <2>10 DEF IInv
<1>10. ASSUME NEW f \in Frame, NEW s \in Frame, frames = <<s, f>>, Outer(f),
              f.at = "autosense", Inner(s), tries \in 1..3
       PROVE  IInv'
  <2>1. Top = s /\ Tail(frames) = <<f>>
    BY <1>10, Stacks DEF Top
  <2>2. back' = s /\ frames' = <<f>> /\ cmd' = cmd
    BY <1>3, <1>10, <2>1 DEF Inner
  <2>3. Outer(f)' /\ Inner(s)'
    BY <1>3, <1>10 DEF Outer, Inner, Tellable, ParamLength
  <2>4. StackInv'
    <3>1. Inner(back)' /\ tries' \in 1..3
      BY <1>3, <1>10, <2>2, <2>3 DEF Inner
    <3> QED
      BY <1>2, <1>3, <1>10, <2>2, <2>3, <3>1 DEF StackInv
  <2>5. OwnerInv'
    <3>1. /\ \E i \in DOMAIN frames : frames[i].at = "autosense"
          /\ \E i \in DOMAIN frames' : frames'[i].at = "autosense"
      BY <1>10, <2>2, Stacks
    <3> QED
      BY <1>3, <2>2, <3>1 DEF IInv, OwnerInv, Buffers
  <2>6. frames' # <<>>
    BY <2>2, Stacks
  <2>7. Types'
    <3>1. inUse' \subseteq {"unit", "sense"} /\ tries' \in 0..3
      BY <1>2, <1>3 DEF Types, TypeOK
    <3>2. back' \in Frame /\ sense' \in Senses /\ drive' \in [busy : BOOLEAN, err : BOOLEAN]
          /\ mem' \subseteq mem
      BY <1>2, <1>3, <2>2, Zenon DEF Types, TypeOK
    <3> QED
      BY <1>2, <1>3, <1>4, <2>2, <2>4, <3>1, <3>2, TypesNext
  <2> QED
    BY <1>1, <1>2, <1>3, <1>4, <2>2, <2>4, <2>5, <2>6, <2>7, RequestStays DEF IInv
<1> QED
  BY <1>2, <1>9, <1>10

LEMMA PacketIInv == ASSUME IInv, Packet PROVE IInv'
BY WithinIInv, AutoSenseIInv, SenseReturnedIInv, PacketReturnIInv DEF Packet, Within

\* The drive gets ready by itself.
LEMMA DriveRecoversIInv == ASSUME IInv, DriveRecovers PROVE IInv'
<1>1. UNCHANGED <<atapi, req, pc, cmd, error, sense, frames, back, inUse, mem, tries, toc, sent>>
  BY DEF DriveRecovers
<1>2. drive' \in [busy : BOOLEAN, err : BOOLEAN]
  <2>1. drive' \in [busy : {FALSE}, err : BOOLEAN]
    BY DEF DriveRecovers
  <2> QED
    BY <2>1
<1>3. Types'
  BY <1>1, <1>2, Zenon DEF IInv, Types, TypeOK
<1>4. ServedInv' /\ OwnerInv' /\ DataInv'
  BY <1>1 DEF IInv, ServedInv, PcOp, Requests, OwnerInv, Buffers, DataInv, ModeTrue, CapacityLba
<1>5. StackInv'
  BY <1>1 DEF IInv, StackInv, Outer, Inner, Tellable, ParamLength
<1>6. ToldInv' /\ SentInv'
  BY <1>1 DEF IInv, ToldInv, Reached, Tellable, AnswerIsTold, ScsiDone, Done, SentInv, SentOfAta
<1> QED
  BY <1>3, <1>4, <1>5, <1>6 DEF IInv

-----------------------------------------------------------------------------
(* How a request is served, and answered.                                     *)

\* A new call of atapi_packet().
LEMMA CallFacts ==
  ASSUME NEW by \in {"client", "unit", "sense"}, NEW op \in CallOps, NEW cdb \in Nat,
         NEW arg \in Args, NEW length \in Nat, NEW auto \in BOOLEAN
  PROVE  LET f == Call(by, op, cdb, arg, length, auto) IN
         /\ f \in Frame /\ f.by = by /\ f.op = op /\ f.length = length /\ f.arg = arg
         /\ f.auto = auto /\ f.at = "check" /\ f.senseActual = 0 /\ Fills(f)
<1> DEFINE b == (by # "client" \/ req.data # "null")
<1> DEFINE f == [by |-> by, op |-> op, cdb |-> cdb, arg |-> arg, length |-> length,
                 hasData |-> b, auto |-> auto, at |-> "check", actual |-> 0, status |-> 0,
                 senseActual |-> 0, ret |-> "ok", extra |-> FALSE]
<1>1. Call(by, op, cdb, arg, length, auto) = f
  BY DEF Call
<1>2. b \in BOOLEAN
  BY Zenon
<1> HIDE DEF b
<1>3. /\ f \in Frame /\ f.by = by /\ f.op = op /\ f.length = length /\ f.arg = arg
      /\ f.auto = auto /\ f.at = "check" /\ f.senseActual = 0 /\ f.actual = 0
  BY <1>2 DEF Frame, Ats, Errors
<1> HIDE DEF f
<1>4. Fills(f)
  <2>1. EvenUp(length) \in Nat /\ 0 % 2 = 0
    BY EvenFacts
  <2> QED
    BY <1>3, <2>1 DEF Fills
<1> QED
  BY <1>1, <1>3, <1>4, Zenon

\* What is there when a request begins to be served.
LEMMA AtServe ==
  ASSUME IInv, pc = "serve"
  PROVE  /\ frames = <<>> /\ tries = 0 /\ inUse = {} /\ mem = {} /\ sent = <<>>
         /\ cmd \in Fields /\ cmd.data = "own" /\ cmd.cdb = "own"
         /\ cmd.actual = 0 /\ cmd.senseActual = 0
         /\ req \in Request /\ req \in Requests
         /\ (atapi => req.op # "io") /\ (~atapi => req.op # "protstatus")
<1>1. frames = <<>> /\ tries = 0
  BY DEF IInv, StackInv, CallPcs
<1>2. inUse \subseteq {"unit", "sense"}
  BY DEF IInv, Types, TypeOK
<1>3. inUse = {} /\ mem = {}
  BY <1>1, <1>2 DEF IInv, OwnerInv, Buffers, CallPcs
<1>4. cmd \in Fields /\ cmd.data = "own" /\ cmd.cdb = "own"
  BY DEF IInv, Types, Fields, OwnerInv
<1>5. req \in Requests /\ cmd.actual = 0 /\ cmd.senseActual = 0 /\ sent = <<>>
  BY DEF IInv, ServedInv, ToldInv, SentInv
<1>6. req \in Request /\ (atapi => req.op # "io") /\ (~atapi => req.op # "protstatus")
  BY <1>5, RequestsAssumption DEF Requests
<1> QED
  BY <1>1, <1>3, <1>4, <1>5, <1>6

\* What is there when the call of a function has returned.
LEMMA AtReturned ==
  ASSUME IInv, pc \in CallPcs, frames = <<>>
  PROVE  /\ Outer(back) /\ back.at = "return" /\ back \in Frame /\ tries = 0
         /\ atapi /\ req \in Request /\ cmd \in Fields
         /\ inUse \ {"unit"} = {} /\ (pc \in ClientPcs => inUse = {})
         /\ ("unit" \in inUse <=> pc \notin ClientPcs)
         /\ mem \subseteq Buffers(pc)
         /\ cmd.senseActual = IF pc \in ClientPcs THEN back.senseActual ELSE 0
         /\ (back.senseActual > 0 => back.ret # "ok")
         /\ Tellable(back.senseActual)
         /\ (req.op # "protstatus" => Reached(cmd.actual))
<1>1. Outer(back) /\ back.at = "return" /\ tries = 0
  <2>1. \A f, s : <<f>> # <<>> /\ <<s, f>> # <<>>
    BY Stacks
  <2> QED
    BY <2>1 DEF IInv, StackInv
<1>2. back \in Frame /\ cmd \in Fields /\ inUse \subseteq {"unit", "sense"}
  BY DEF IInv, Types, TypeOK
<1>3. atapi /\ req \in Request
  BY ConstantTypes DEF IInv, ServedInv, Requests, CallPcs
<1>4. "sense" \notin inUse
  BY DEF IInv, OwnerInv
<1>5. /\ inUse \ {"unit"} = {} /\ (pc \in ClientPcs => inUse = {})
      /\ ("unit" \in inUse <=> pc \notin ClientPcs)
  BY <1>2, <1>4 DEF IInv, OwnerInv
<1>6. mem \subseteq Buffers(pc)
  BY DEF IInv, OwnerInv
<1>7. /\ cmd.senseActual = IF pc \in ClientPcs THEN back.senseActual ELSE 0
      /\ (req.op # "protstatus" => Reached(cmd.actual))
  BY DEF IInv, ToldInv, CallPcs
<1>8. (back.senseActual > 0 => back.ret # "ok") /\ Tellable(back.senseActual)
  BY <1>1 DEF Outer
<1> QED
  BY <1>1, <1>2, <1>3, <1>5, <1>6, <1>7, <1>8

\* The end of a request's function.
LEMMA EndsIInv ==
  ASSUME IInv, req \in Request, pc \in CallPcs \cup {"serve"}, tries = 0,
         NEW e \in Errors, Ends(e), frames = <<>>, frames' = <<>>,
         UNCHANGED <<atapi, req, sense, back, tries, drive>>,
         inUse' = {}, mem' = {},
         cmd' \in Fields, cmd'.data = "own", cmd'.cdb = "own",
         req.op # "protstatus" => Reached(cmd'.actual),
         Tellable(cmd'.senseActual), cmd'.senseActual > 0 => e # "ok",
         sent' \in Seq([op : CallOps, arg : Args]), SentInv', DataInv'
  PROVE  IInv'
<1>1. /\ pc' = IF req.op \in ScsiOps THEN "answer" ELSE "replied"
      /\ error' = e
  BY DEF Ends
<1>2. pc' \in {"answer", "replied"} /\ pc' \notin CallPcs /\ pc' # "idle" /\ pc' \in Pcs
  BY <1>1 DEF CallPcs, Pcs
<1>3. Types'
  <2>1. cmd'.actual \in Nat /\ cmd'.senseActual \in Nat /\ cmd'.status \in {0, 2}
        /\ {cmd'.data, cmd'.cdb} \subseteq {"own", "copy"}
    BY DEF Fields
  <2>2. Len(frames') <= 2 /\ \A i \in DOMAIN frames' : FALSE
    OBVIOUS
  <2>3. inUse' \subseteq {"unit", "sense"} /\ mem' \subseteq {"data", "cdb", "buf", "toc"}
    OBVIOUS
  <2>4. TypeOK'
    BY <1>1, <1>2, <2>1, <2>2, <2>3, Zenon DEF IInv, Types, TypeOK
  <2> QED
    BY <2>4 DEF IInv, Types
<1>4. ServedInv'
  BY <1>1, <1>2 DEF IInv, ServedInv, PcOp, Requests, CallPcs
<1>5. OwnerInv'
  BY <1>1, <1>2 DEF OwnerInv, Buffers, CallPcs
<1>6. StackInv'
  BY <1>2 DEF StackInv
<1>7. ToldInv'
  <2>1. AnswerIsTold'
    BY <1>1 DEF AnswerIsTold, ScsiDone, Done
  <2>2. Tellable(cmd.senseActual)'
    BY DEF Tellable
  <2> QED
    BY <1>1, <1>2, <2>1, <2>2 DEF ToldInv, Reached
<1> QED
  BY <1>3, <1>4, <1>5, <1>6, <1>7 DEF IInv

\* A function calls atapi_packet().
LEMMA CallIInv ==
  ASSUME IInv, req \in Request, atapi, pc \in {"serve", "toc"}, tries = 0,
         NEW fn \in CallPcs, NEW f \in Frame, Calls(fn, f), frames = <<>>,
         UNCHANGED <<atapi, req, sense, back, tries, drive, sent>>,
         PcOp', f.at = "check", Outer(f)',
         inUse' = IF fn \in ClientPcs THEN {} ELSE {"unit"},
         mem' \subseteq Buffers(fn), mem' \subseteq {"data", "cdb", "buf", "toc"},
         cmd' \in Fields, cmd'.actual = cmd.actual, cmd'.senseActual = 0,
         cmd'.data = "copy" => fn \in {"unaligned", "rw6"}, cmd'.cdb = "copy" => fn = "rw6"
  PROVE  IInv'
<1>1. frames' = <<f>> /\ pc' = fn /\ error' = error
  BY Stacks DEF Calls
<1>2. fn \notin {"idle", "serve", "answer", "replied"} /\ fn \in Pcs
  BY DEF CallPcs, Pcs
<1>3. StackInv'
  BY <1>1 DEF StackInv
<1>4. Types'
  <2>1. cmd'.actual \in Nat /\ cmd'.senseActual \in Nat /\ cmd'.status \in {0, 2}
        /\ {cmd'.data, cmd'.cdb} \subseteq {"own", "copy"}
    BY DEF Fields
  <2>2. Len(frames') <= 2 /\ \A i \in DOMAIN frames' : frames'[i] = f
    <3>1. Len(<<f>>) = 1
      OBVIOUS
    <3> QED
      BY <1>1, <3>1, Stacks
  <2>3. inUse' \subseteq {"unit", "sense"} /\ f.at \in Ats /\ f.ret \in Errors /\ f.actual \in Nat
    BY DEF Frame
  <2>4. TypeOK'
    BY <1>1, <1>2, <2>1, <2>2, <2>3, Zenon DEF IInv, Types, TypeOK
  <2> QED
    BY <2>4 DEF IInv, Types
<1>5. ServedInv'
  BY <1>1, <1>2 DEF IInv, ServedInv, Requests, CallPcs
<1>6. OwnerInv'
  <2>1. \A i \in DOMAIN frames' : frames'[i] = f
    BY <1>1, Stacks
  <2> QED
    BY <1>1, <2>1 DEF OwnerInv
<1>7. ToldInv'
  <2>1. AnswerIsTold'
    BY <1>1, <1>2 DEF AnswerIsTold, ScsiDone, Done
  <2>2. frames' # <<>>
    BY <1>1, Stacks
  <2>3. req.op # "protstatus" => Reached(cmd'.actual)
    BY DEF IInv, ToldInv
  <2> QED
    BY <1>1, <1>2, <2>1, <2>2, <2>3 DEF ToldInv, Reached
<1>8. DataInv'
  BY <1>1, <1>2 DEF DataInv
<1>9. SentInv'
  BY <1>1, <1>2 DEF IInv, SentInv
<1> QED
  BY <1>3, <1>4, <1>5, <1>6, <1>7, <1>8, <1>9 DEF IInv

\* The end of a request that holds nothing and has called nobody.
LEMMA ServedIInv ==
  ASSUME IInv, pc = "serve", NEW e \in Errors, Ends(e), Keep, UNCHANGED sense,
         cmd' \in Fields, cmd'.data = cmd.data, cmd'.cdb = cmd.cdb,
         cmd'.actual <= EvenUp(req.length), cmd'.senseActual = 0,
         sent' \in Seq([op : CallOps, arg : Args]), SentInv', DataInv'
  PROVE  IInv'
<1>1. /\ frames = <<>> /\ tries = 0 /\ inUse = {} /\ mem = {} /\ req \in Request
      /\ cmd.data = "own" /\ cmd.cdb = "own"
  BY AtServe
<1>2. /\ frames' = <<>> /\ inUse' = {} /\ mem' = {}
      /\ UNCHANGED <<atapi, req, sense, back, tries, drive>>
  BY <1>1 DEF Keep
<1>3. Tellable(cmd'.senseActual)
  BY <1>1, EvenFacts DEF Tellable, Request
<1>4. /\ cmd'.data = "own" /\ cmd'.cdb = "own" /\ ~(cmd'.senseActual > 0)
      /\ pc \in CallPcs \cup {"serve"}
      /\ req.op # "protstatus" => Reached(cmd'.actual)
  BY <1>1 DEF Reached
<1> QED
  BY <1>1, <1>2, <1>3, <1>4, EndsIInv

\* A request that was refused leaves the client's SCSICmd as it was.
LEMMA RefusedIInv ==
  ASSUME IInv, pc = "serve", NEW e \in Errors \ {"ok"}, Ends(e), Keep,
         UNCHANGED <<sense, cmd, sent>>
  PROVE  IInv'
<1>1. cmd \in Fields /\ cmd.actual = 0 /\ cmd.senseActual = 0 /\ req \in Request /\ sent = <<>>
  BY AtServe
<1>2. 0 <= EvenUp(req.length)
  BY <1>1, EvenFacts DEF Request
<1>3. SentInv' /\ sent' \in Seq([op : CallOps, arg : Args])
  BY <1>1, EmptySeq DEF SentInv
<1>4. DataInv'
  BY DEF DataInv, Ends
<1> QED
  BY <1>1, <1>2, <1>3, <1>4, ServedIInv

LEMMA CapacityType ==
  ASSUME req \in Request
  PROVE  CapacityLba \in Int /\ req.sectors - 1 \in Int
<1>1. req.lba \in Nat /\ PerCylinder \in Nat \ {0} /\ req.sectors \in Nat
  BY ConstantTypes DEF Request
<1>2. PICK n \in Nat : n = req.lba
  BY <1>1
<1>3. PICK p \in Nat \ {0} : p = PerCylinder
  BY <1>1
<1>4. CylinderEnd(n, p) \in Int
  <2>1. n \div p \in Int
    BY SMT
  <2>2. PICK q \in Int : q = n \div p
    BY <2>1
  <2>3. CylinderEnd(n, p) = (q + 1) * p - 1
    BY <2>2 DEF CylinderEnd
  <2> QED
    BY <2>3
<1>5. CylinderEnd(n, p) % Word \in Int
  BY <1>4, WordType, SMT
<1> QED
  BY <1>1, <1>2, <1>3, <1>5, WordType DEF CapacityLba

\* The emulated commands answer no more than there is room for.
LEMMA EmulationFits ==
  ASSUME req \in Request
  PROVE  /\ EmulationRefuses \in Errors
         /\ EmulationRefuses = "ok" /\ req.op \in Emulated =>
              EmulationGives \in Nat /\ EmulationGives <= req.length
<1>1. /\ req.length \in Nat /\ req.alloc \in Nat /\ AnswerSize \in Nat /\ req.op \in Ops
      /\ req.page \in {"all", "one", "unknown"}
  BY ConstantTypes DEF Request
<1>2. EmulationRefuses \in Errors
  BY DEF EmulationRefuses, Errors
<1>3. ASSUME EmulationRefuses = "ok", req.op \in Emulated
      PROVE  EmulationGives \in Nat /\ EmulationGives <= req.length
  <2>1. CASE req.op \in {"inquiry", "cap16"}
    BY <1>1, <2>1 DEF EmulationGives, Least
  <2>2. CASE req.op = "cap10"
    <3>1. EmulationNeeds = 8
      BY <2>2 DEF EmulationNeeds
    <3>2. ~(req.length < 8)
      BY <1>3, <2>2, <3>1 DEF EmulationRefuses
    <3>3. EmulationGives = 8
      BY <2>2, <3>1 DEF EmulationGives
    <3> QED
      BY <1>1, <3>2, <3>3
  <2>3. CASE req.op = "modesense6"
    <3>1. EmulationNeeds \in {28, 52}
      BY <2>3 DEF EmulationNeeds, HeaderSize, PageSize
    <3>2. ~(req.length < EmulationNeeds)
      BY <1>3, <2>3 DEF EmulationRefuses
    <3>3. EmulationGives = EmulationNeeds
      BY <2>3 DEF EmulationGives
    <3> QED
      BY <1>1, <3>1, <3>2, <3>3
  <2>4. CASE req.op \in {"tur", "passthrough"}
    BY <1>1, <2>4 DEF EmulationGives, EmulationNeeds
  <2> QED
    BY <1>3, <2>1, <2>2, <2>3, <2>4 DEF Emulated
<1> QED
  BY <1>2, <1>3

LEMMA EmulateIInv == ASSUME IInv, Emulate PROVE IInv'
<1> DEFINE value == IF req.op = "cap16" THEN req.sectors - 1 ELSE CapacityLba
<1>1. /\ pc = "serve" /\ ~atapi /\ req.op \in ScsiOps \ (ReadWrite \cup {"passthrough"})
      /\ Keep /\ UNCHANGED <<sense, sent>>
  BY DEF Emulate
<1>2. /\ req \in Request /\ sent = <<>> /\ cmd \in Fields /\ cmd.data = "own" /\ cmd.cdb = "own"
      /\ cmd.actual = 0 /\ cmd.senseActual = 0
  BY <1>1, AtServe
<1>3. CASE EmulationRefuses = "ok" /\ Ends("ok")
           /\ cmd' = [cmd EXCEPT !.actual = EmulationGives, !.value = value]
  <2>1. req.op \in Emulated
    BY <1>1, <1>3 DEF EmulationRefuses, ScsiOps
  <2>2. EmulationGives \in Nat /\ EmulationGives <= req.length /\ value \in Int
    BY <1>2, <1>3, <2>1, EmulationFits, CapacityType
  <2>3. /\ cmd' \in Fields /\ cmd'.data = cmd.data /\ cmd'.cdb = cmd.cdb
        /\ cmd'.senseActual = 0 /\ cmd'.actual = EmulationGives
        /\ req.op = "cap10" => cmd'.value = CapacityLba
    BY <1>2, <1>3, <2>2 DEF Fields
  <2>4. cmd'.actual <= EvenUp(req.length)
    <3>1. req.length \in Nat
      BY <1>2 DEF Request
    <3> QED
      BY <2>2, <2>3, <3>1, EvenFacts
  <2>5. SentInv' /\ sent' \in Seq([op : CallOps, arg : Args])
    BY <1>1, <1>2, EmptySeq DEF SentInv
  <2>6. DataInv'
    BY <1>1, <2>3 DEF DataInv, Keep, CapacityLba
  <2> QED
    BY <1>1, <1>3, <2>3, <2>4, <2>5, <2>6, ServedIInv DEF Errors
<1>4. ASSUME NEW e \in Errors \ {"ok"}, Ends(e), UNCHANGED cmd PROVE IInv'
  BY <1>1, <1>4, RefusedIInv
<1>5. EmulationRefuses \in Errors
  BY <1>2, EmulationFits
<1>6. {"nomem", "ata"} \subseteq Errors \ {"ok"}
  BY DEF Errors
<1>7. \/ EmulationRefuses = "ok" /\ Ends("ok")
         /\ cmd' = [cmd EXCEPT !.actual = EmulationGives, !.value = value]
      \/ \E e \in Errors \ {"ok"} : Ends(e) /\ UNCHANGED cmd
  BY <1>5, <1>6, Zenon DEF Emulate
<1> QED
  BY <1>3, <1>4, <1>7

\* One command was given to an ATA drive.
LEMMA OneSent ==
  ASSUME NEW c \in [op : CallOps, arg : Args], sent = <<>>, sent' = Append(sent, c),
         c.op # "playmsf", SentOfAta(c), UNCHANGED <<atapi, req>>, pc' \notin {"idle", "serve"}
  PROVE  SentInv' /\ sent' \in Seq([op : CallOps, arg : Args])
<1>1. sent \in Seq([op : CallOps, arg : Args]) /\ DOMAIN sent = {}
  BY EmptySeq
<1>2. sent' \in Seq([op : CallOps, arg : Args]) /\ \A i \in DOMAIN sent' : sent'[i] = c
  BY <1>1, AppendElements
<1>3. SentOfAta(c)'
  BY DEF SentOfAta
<1> QED
  BY <1>2, <1>3 DEF SentInv, SentOfAta

\* An ATA drive was given the command of the request, well or not.
LEMMA SentIInv ==
  ASSUME IInv, pc = "serve", ~atapi, req.op \in ReadWrite \cup {"passthrough"}, Keep,
         UNCHANGED sense,
         req.op # "passthrough" => ~PastEnd(req.lba, req.count, req.sectors),
         sent' = Append(sent, [op |-> req.op, arg |-> <<req.lba, req.count>>]),
         \/ Ends("ok") /\ cmd' = [cmd EXCEPT !.actual = req.length]
         \/ \E e \in {"ata", "busy", "aborted"} : Ends(e) /\ UNCHANGED cmd
  PROVE  IInv'
<1> DEFINE c == [op |-> req.op, arg |-> <<req.lba, req.count>>]
<1>1. /\ req \in Request /\ sent = <<>> /\ cmd \in Fields /\ cmd.data = "own" /\ cmd.cdb = "own"
      /\ cmd.actual = 0 /\ cmd.senseActual = 0
  BY AtServe
<1>2. req.lba \in Nat /\ req.count \in Nat /\ req.length \in Nat /\ req.op \in CallOps
  BY <1>1 DEF Request, CallOps
<1>3. c \in [op : CallOps, arg : Args] /\ c.op = req.op /\ c.arg = <<req.lba, req.count>>
  BY <1>2 DEF Args
<1>4. sent' = Append(sent, c)
  OBVIOUS
<1> HIDE DEF c
<1>5. SentOfAta(c) /\ c.op # "playmsf"
  BY <1>3 DEF SentOfAta, ReadWrite
<1>6. PICK e \in {"ok", "ata", "busy", "aborted"} : Ends(e)
  OBVIOUS
<1>7. UNCHANGED <<atapi, req>> /\ pc' \notin {"idle", "serve"}
  BY <1>6 DEF Ends, Keep
<1>8. SentInv' /\ sent' \in Seq([op : CallOps, arg : Args])
  BY <1>1, <1>3, <1>4, <1>5, <1>7, OneSent
<1>9. /\ cmd' \in Fields /\ cmd'.data = cmd.data /\ cmd'.cdb = cmd.cdb
      /\ cmd'.senseActual = 0 /\ cmd'.actual \in {0, req.length}
  <2>1. CASE cmd' = [cmd EXCEPT !.actual = req.length]
    BY <1>1, <1>2, <2>1 DEF Fields
  <2> QED
    BY <1>1, <2>1
<1>10. cmd'.actual <= EvenUp(req.length)
  <2>1. EvenUp(req.length) \in Nat /\ req.length <= EvenUp(req.length)
    BY <1>2, EvenFacts
  <2> QED
    BY <1>2, <1>9, <2>1
<1>11. DataInv'
  BY <1>7 DEF DataInv, ReadWrite
<1> QED
  BY <1>6, <1>8, <1>9, <1>10, <1>11, ServedIInv DEF Errors

LEMMA AtaTransferIInv == ASSUME IInv, AtaTransfer PROVE IInv'
<1>1. pc = "serve" /\ ~atapi /\ req.op \in ReadWrite /\ Keep /\ UNCHANGED sense
  BY DEF AtaTransfer
<1>2. CASE Ends("address") /\ UNCHANGED <<cmd, sent>>
  BY <1>1, <1>2, RefusedIInv DEF Errors
<1>3. CASE ~(req.data = "null" \/ PastEnd(req.lba, req.count, req.sectors))
  <2>1. /\ sent' = Append(sent, [op |-> req.op, arg |-> <<req.lba, req.count>>])
        /\ \/ Ends("ok") /\ cmd' = [cmd EXCEPT !.actual = req.length]
           \/ \E e \in {"ata", "busy"} : Ends(e) /\ UNCHANGED cmd
    BY <1>3, Zenon DEF AtaTransfer
  <2> QED
    BY <1>1, <1>3, <2>1, SentIInv
<1> QED
  BY <1>2, <1>3, Zenon DEF AtaTransfer

LEMMA AtaPassthroughIInv == ASSUME IInv, AtaPassthrough PROVE IInv'
<1>1. pc = "serve" /\ ~atapi /\ req.op = "passthrough" /\ Keep /\ UNCHANGED sense
  BY DEF AtaPassthrough
<1>2. ASSUME NEW e \in {"length", "nocmd", "ata", "busy", "address"}, Ends(e),
             UNCHANGED <<cmd, sent>>
      PROVE  IInv'
  <2>1. e \in Errors \ {"ok"}
    BY DEF Errors
  <2> QED
    BY <1>1, <1>2, <2>1, RefusedIInv
<1>3. CASE /\ sent' = Append(sent, [op |-> req.op, arg |-> <<req.lba, req.count>>])
           /\ \/ Ends("ok") /\ cmd' = [cmd EXCEPT !.actual = req.length]
              \/ \E e \in {"ata", "busy", "aborted"} : Ends(e) /\ UNCHANGED cmd
  BY <1>1, <1>3, SentIInv
<1>4. \/ \E e \in {"length", "nocmd", "ata", "busy", "address"} :
           Ends(e) /\ UNCHANGED <<cmd, sent>>
      \/ /\ sent' = Append(sent, [op |-> req.op, arg |-> <<req.lba, req.count>>])
         /\ \/ Ends("ok") /\ cmd' = [cmd EXCEPT !.actual = req.length]
            \/ \E e \in {"ata", "busy", "aborted"} : Ends(e) /\ UNCHANGED cmd
  BY DEF AtaPassthrough
<1> QED
  BY <1>2, <1>3, <1>4, Zenon

LEMMA LbaType ==
  ASSUME NEW high \in Nat, NEW offset \in Nat, NEW length \in Nat
  PROVE  Lba(high, offset) \in Nat /\ Count(length) \in Nat
<1>1. PICK b \in Nat \ {0} : b = BlockSize
  BY SizesType
<1>2. PICK w \in Nat \ {0} : w = BlocksPerWord
  BY SizesType
<1>3. PICK v \in Nat \ {0} : v = Word
  <2>1. b * w \in Nat \ {0}
    BY SMT
  <2> QED
    BY <1>1, <1>2, <2>1 DEF Word
<1>4. high \div b \in Nat /\ offset \div b \in Nat /\ length \div b \in Nat
  BY SMT
<1>5. (high * w) % v \in Nat
  <2>1. PICK m \in Nat : m = high * w
    BY SMT
  <2>2. m % v \in Nat
    BY SMT
  <2> QED
    BY <2>1, <2>2
<1>6. (high \div b) * v \in Nat
  <2>1. PICK m \in Nat : m = high \div b
    BY <1>4
  <2>2. m * v \in Nat
    BY SMT
  <2> QED
    BY <2>1, <2>2
<1>7. Lba(high, offset) = (high \div b) * v + ((high * w) % v) + (offset \div b)
  BY <1>1, <1>2, <1>3 DEF Lba
<1>8. Count(length) = length \div b
  BY <1>1 DEF Count
<1> QED
  BY <1>4, <1>5, <1>6, <1>7, <1>8

LEMMA PlainTransferIInv == ASSUME IInv, PlainTransfer PROVE IInv'
<1> DEFINE lba == Lba(req.lba, req.count)
<1> DEFINE count == Count(req.length)
<1>1. pc = "serve" /\ req.op = "io" /\ pc' = "replied" /\ Keep /\ UNCHANGED sense
  BY DEF PlainTransfer
<1>2. /\ req \in Request /\ sent = <<>> /\ cmd \in Fields /\ cmd.data = "own" /\ cmd.cdb = "own"
      /\ cmd.actual = 0 /\ cmd.senseActual = 0 /\ ~atapi
  BY <1>1, AtServe DEF IInv, Types, TypeOK
<1>3. \A e : error' = e => Ends(e)
  BY <1>1 DEF Ends, ScsiOps, ReadWrite, Emulated
<1>4. CASE error' \in {"length", "address"} /\ UNCHANGED <<cmd, sent>>
  BY <1>1, <1>3, <1>4, RefusedIInv DEF Errors
<1>5. CASE ~PastEnd(lba, count, req.sectors) /\ error' \in {"ok", "ata", "busy"}
           /\ cmd' = [cmd EXCEPT !.actual = req.length]
           /\ sent' = Append(sent, [op |-> "io", arg |-> <<lba, count>>])
  <2> DEFINE c == [op |-> "io", arg |-> <<lba, count>>]
  <2>1. req.lba \in Nat /\ req.count \in Nat /\ req.length \in Nat
    BY <1>2 DEF Request
  <2>2. lba \in Nat /\ count \in Nat
    BY <2>1, LbaType
  <2>3. c \in [op : CallOps, arg : Args] /\ c.op = "io" /\ c.arg = <<lba, count>>
    BY <2>2 DEF Args, CallOps, Ops
  <2>4. sent' = Append(sent, c)
    BY <1>5
  <2> HIDE DEF c
  <2>5. SentOfAta(c) /\ c.op # "playmsf"
    BY <1>1, <1>5, <2>3 DEF SentOfAta
  <2>6. UNCHANGED <<atapi, req>> /\ pc' \notin {"idle", "serve"}
    BY <1>1 DEF Keep
  <2>7. SentInv' /\ sent' \in Seq([op : CallOps, arg : Args])
    BY <1>2, <2>3, <2>4, <2>5, <2>6, OneSent
  <2>8. /\ cmd' \in Fields /\ cmd'.data = cmd.data /\ cmd'.cdb = cmd.cdb
        /\ cmd'.senseActual = 0 /\ cmd'.actual = req.length
    BY <1>2, <1>5, <2>1 DEF Fields
  <2>9. cmd'.actual <= EvenUp(req.length)
    BY <2>1, <2>8, EvenFacts
  <2>10. DataInv'
    BY <1>1, <1>2, <2>6 DEF DataInv
  <2> QED
    BY <1>1, <1>3, <1>5, <2>7, <2>8, <2>9, <2>10, ServedIInv DEF Errors
<1> QED
  BY <1>4, <1>5, Zenon DEF PlainTransfer

\* A request of an ATAPI unit is served by a call.
LEMMA ServeCallIInv ==
  ASSUME IInv, pc = "serve", atapi, NEW fn \in CallPcs \ {"play"},
         NEW by \in {"client", "unit"}, NEW op \in CallOps \ {"sense", "playmsf"},
         NEW cdb \in Nat, NEW arg \in Args, NEW length \in Nat, NEW auto \in BOOLEAN,
         Calls(fn, Call(by, op, cdb, arg, length, auto)), Translates,
         by = "client" <=> fn \in ClientPcs, by = "client" => length = req.length,
         auto => req.auto, fn \in {"modesense6", "toc", "wp"} => ~auto,
         fn = "modeselect6" => length = ParamLength + 4, PcOp',
         inUse' = IF fn \in ClientPcs THEN {} ELSE {"unit"},
         mem' \subseteq Buffers(fn), mem' \subseteq {"data", "cdb", "buf", "toc"},
         cmd' \in Fields, cmd'.actual = cmd.actual, cmd'.senseActual = cmd.senseActual,
         cmd'.data = "copy" => fn \in {"unaligned", "rw6"}, cmd'.cdb = "copy" => fn = "rw6"
  PROVE  IInv'
<1>1. /\ frames = <<>> /\ tries = 0 /\ req \in Request /\ cmd.senseActual = 0
  BY AtServe
<1>2. UNCHANGED <<atapi, req, sense, back, tries, toc, drive, sent>>
  BY DEF Translates
<1>3. PICK f \in Frame : /\ f = Call(by, op, cdb, arg, length, auto)
                         /\ f.by = by /\ f.op = op /\ f.length = length /\ f.auto = auto
                         /\ f.at = "check" /\ f.senseActual = 0 /\ Fills(f)
  <2>1. by \in {"client", "unit", "sense"} /\ op \in CallOps
    OBVIOUS
  <2> DEFINE f == Call(by, op, cdb, arg, length, auto)
  <2>2. /\ f \in Frame /\ f.by = by /\ f.op = op /\ f.length = length /\ f.auto = auto
        /\ f.at = "check" /\ f.senseActual = 0 /\ Fills(f)
    BY <2>1, CallFacts, SMTT(20)
  <2> HIDE DEF f
  <2> QED
    BY <2>2 DEF f
<1>4. pc' = fn
  BY DEF Calls
<1>5. ParamLength' = ParamLength
  BY <1>2 DEF ParamLength
<1>6. Tellable(f.senseActual)'
  <2>1. 0 <= EvenUp(req.senseLength)
    BY <1>1, EvenFacts DEF Request
  <2> QED
    BY <1>2, <1>3, <2>1 DEF Tellable
<1>7. Outer(f)'
  BY <1>2, <1>3, <1>4, <1>5, <1>6 DEF Outer
<1>8. Calls(fn, f) /\ cmd'.senseActual = 0 /\ fn \in CallPcs
  BY <1>1, <1>3
<1> QED
  BY <1>1, <1>2, <1>3, <1>7, <1>8, CallIInv

\* A refusal of a translation.
LEMMA RefuseIInv ==
  ASSUME IInv, pc = "serve", NEW e \in Errors \ {"ok"}, Refuse(e), Translates
  PROVE  IInv'
<1>1. Ends(e) /\ Keep /\ UNCHANGED <<sense, cmd, sent>>
  BY DEF Refuse, Translates, Keep
<1> QED
  BY <1>1, RefusedIInv

\* A translation that uses the unit's command, which is free.
LEMMA WithUnitCommandIInv ==
  ASSUME IInv, pc = "serve", atapi,
         NEW fn \in {"modesense6", "modeselect6", "toc", "wp"},
         NEW op \in {"modesense10", "modeselect10", "toc"},
         NEW buf, buf = Buffers(fn), NEW length \in Nat, NEW auto \in BOOLEAN,
         WithUnitCommand(fn, buf, Call("unit", op, 10, <<>>, length, auto)), Translates,
         auto => req.auto, fn \in {"modesense6", "toc", "wp"} => ~auto,
         fn = "modeselect6" => length = ParamLength + 4,
         fn = "modesense6" => req.op = "modesense6" /\ req.length >= 4,
         fn = "modeselect6" => req.op = "modeselect6",
         fn = "toc" => req.op = "play", fn = "wp" => req.op = "protstatus"
  PROVE  IInv'
<1>1. /\ inUse = {} /\ mem = {} /\ cmd \in Fields /\ cmd.data = "own" /\ cmd.cdb = "own"
  BY AtServe
<1>2. CASE Refuse("nomem")
  BY <1>2, RefuseIInv DEF Errors
<1>3. CASE /\ mem' = mem \cup buf /\ inUse' = inUse \cup {"unit"}
           /\ Calls(fn, Call("unit", op, 10, <<>>, length, auto)) /\ UNCHANGED cmd
  <2>1. mem' = Buffers(fn) /\ inUse' = {"unit"} /\ mem' \subseteq {"data", "cdb", "buf", "toc"}
    BY <1>1, <1>3 DEF Buffers
  <2>2. pc' = fn /\ req' = req
    BY <1>3 DEF Calls, Translates
  <2>3. PcOp'
    BY <2>2 DEF PcOp
  <2>4. fn \notin ClientPcs /\ fn \in CallPcs \ {"play"} /\ op \in CallOps \ {"sense", "playmsf"}
        /\ 10 \in Nat /\ <<>> \in Args
    BY DEF ClientPcs, CallPcs, CallOps, Args
  <2>5. /\ cmd' \in Fields /\ cmd'.actual = cmd.actual /\ cmd'.senseActual = cmd.senseActual
        /\ cmd'.data = "own" /\ cmd'.cdb = "own"
    BY <1>1, <1>3
  <2>6. /\ ("unit" = "client" <=> fn \in ClientPcs)
        /\ ("unit" = "client" => length = req.length)
        /\ inUse' = IF fn \in ClientPcs THEN {} ELSE {"unit"}
        /\ cmd'.data = "copy" => fn \in {"unaligned", "rw6"}
        /\ cmd'.cdb = "copy" => fn = "rw6"
        /\ mem' \subseteq Buffers(fn)
    BY <2>1, <2>4, <2>5
  <2> QED
    BY <1>3, <2>1, <2>3, <2>4, <2>5, <2>6, ServeCallIInv
<1> QED
  BY <1>1, <1>2, <1>3 DEF WithUnitCommand

LEMMA ServeDirectIInv == ASSUME IInv, ServeDirect PROVE IInv'
<1>1. /\ pc = "serve" /\ atapi
      /\ req.op \in ScsiOps \ {"rw6", "modesense6", "modeselect6", "play"}
      /\ Calls("direct", ClientCall(req.op, req.count))
      /\ UNCHANGED <<cmd, inUse, mem>> /\ Translates
  BY DEF ServeDirect
<1>2. /\ inUse = {} /\ mem = {} /\ cmd \in Fields /\ cmd.data = "own" /\ cmd.cdb = "own"
      /\ req \in Request
  BY <1>1, AtServe
<1>3. /\ req.cdb \in Nat /\ <<req.count>> \in Args /\ req.length \in Nat
      /\ req.op \in CallOps \ {"sense", "playmsf"}
  BY <1>1, <1>2 DEF Request, Args, CallOps, Ops, ScsiOps, ReadWrite, Emulated
<1>4. req.auto \in BOOLEAN
  BY <1>2, Zenon DEF Request
<1>5. "direct" \in CallPcs \ {"play"} /\ "direct" \in ClientPcs
  BY DEF CallPcs, ClientPcs
<1>6. PcOp'
  BY <1>1 DEF PcOp, Calls, Translates
<1>7. /\ ("client" = "client" <=> "direct" \in ClientPcs)
      /\ inUse' = IF "direct" \in ClientPcs THEN {} ELSE {"unit"}
      /\ mem' \subseteq Buffers("direct") /\ mem' \subseteq {"data", "cdb", "buf", "toc"}
      /\ cmd' \in Fields /\ cmd'.actual = cmd.actual /\ cmd'.senseActual = cmd.senseActual
      /\ cmd'.data = "copy" => "direct" \in {"unaligned", "rw6"}
      /\ cmd'.cdb = "copy" => "direct" = "rw6"
  BY <1>1, <1>2, <1>5
<1> QED
  BY <1>1, <1>3, <1>4, <1>5, <1>6, <1>7, ServeCallIInv DEF ClientCall

LEMMA ServeUnalignedIInv == ASSUME IInv, ServeUnaligned PROVE IInv'
<1>1. /\ pc = "serve" /\ atapi
      /\ req.op \in ScsiOps \ {"inquiry", "rw6", "modesense6", "modeselect6", "play"}
      /\ Translates
  BY DEF ServeUnaligned
<1>2. /\ inUse = {} /\ mem = {} /\ cmd \in Fields /\ cmd.data = "own" /\ cmd.cdb = "own"
      /\ req \in Request
  BY <1>1, AtServe
<1>3. CASE Refuse("nomem")
  BY <1>1, <1>3, RefuseIInv DEF Errors
<1>4. CASE /\ mem' = {"data"} /\ cmd' = [cmd EXCEPT !.data = "copy"]
           /\ Calls("unaligned", ClientCall(req.op, req.count)) /\ UNCHANGED inUse
  <2>1. /\ req.cdb \in Nat /\ <<req.count>> \in Args /\ req.length \in Nat
        /\ req.op \in CallOps \ {"sense", "playmsf"}
    BY <1>1, <1>2 DEF Request, Args, CallOps, Ops, ScsiOps, ReadWrite, Emulated
  <2>2. req.auto \in BOOLEAN
    BY <1>2, Zenon DEF Request
  <2>3. "unaligned" \in CallPcs \ {"play"} /\ "unaligned" \in ClientPcs
    BY DEF CallPcs, ClientPcs
  <2>4. PcOp'
    BY <1>1, <1>4 DEF PcOp, Calls, Translates
  <2>5. /\ cmd' \in Fields /\ cmd'.actual = cmd.actual /\ cmd'.senseActual = cmd.senseActual
        /\ cmd'.cdb = "own"
    BY <1>2, <1>4 DEF Fields
  <2>6. /\ ("client" = "client" <=> "unaligned" \in ClientPcs)
        /\ inUse' = IF "unaligned" \in ClientPcs THEN {} ELSE {"unit"}
        /\ mem' \subseteq Buffers("unaligned") /\ mem' \subseteq {"data", "cdb", "buf", "toc"}
        /\ cmd'.data = "copy" => "unaligned" \in {"unaligned", "rw6"}
        /\ cmd'.cdb = "copy" => "unaligned" = "rw6"
    BY <1>2, <1>4, <2>3, <2>5 DEF Buffers
  <2> QED
    BY <1>1, <1>4, <2>1, <2>2, <2>3, <2>4, <2>5, <2>6, ServeCallIInv DEF ClientCall
<1> QED
  BY <1>3, <1>4, Zenon DEF ServeUnaligned

LEMMA ServeReadWrite6IInv == ASSUME IInv, ServeReadWrite6 PROVE IInv'
<1>1. pc = "serve" /\ atapi /\ req.op = "rw6" /\ Translates
  BY DEF ServeReadWrite6
<1>2. /\ inUse = {} /\ mem = {} /\ cmd \in Fields /\ cmd.data = "own" /\ cmd.cdb = "own"
      /\ req \in Request
  BY <1>1, AtServe
<1>3. CASE Refuse("nomem")
  BY <1>1, <1>3, RefuseIInv DEF Errors
<1>4. CASE /\ mem' = IF req.data = "odd" THEN {"cdb", "data"} ELSE {"cdb"}
           /\ cmd' = [cmd EXCEPT !.cdb = "copy",
                                 !.data = IF req.data = "odd" THEN "copy" ELSE "own"]
           /\ Calls("rw6", ClientCall("rw10", Told10(req.cdb, req.count))) /\ UNCHANGED inUse
  <2>1. Told10(req.cdb, req.count) \in Nat /\ req.cdb \in Nat /\ req.length \in Nat
    BY <1>2 DEF Request, Told10
  <2>2. <<Told10(req.cdb, req.count)>> \in Args /\ "rw10" \in CallOps \ {"sense", "playmsf"}
    BY <2>1 DEF Args, CallOps, Ops, ScsiOps, ReadWrite
  <2>3. req.auto \in BOOLEAN
    BY <1>2, Zenon DEF Request
  <2>4. "rw6" \in CallPcs \ {"play"} /\ "rw6" \in ClientPcs
    BY DEF CallPcs, ClientPcs
  <2>5. PcOp'
    BY <1>1, <1>4 DEF PcOp, Calls, Translates
  <2>6. /\ cmd' \in Fields /\ cmd'.actual = cmd.actual /\ cmd'.senseActual = cmd.senseActual
    BY <1>2, <1>4 DEF Fields
  <2>7. /\ ("client" = "client" <=> "rw6" \in ClientPcs)
        /\ inUse' = IF "rw6" \in ClientPcs THEN {} ELSE {"unit"}
        /\ mem' \subseteq Buffers("rw6") /\ mem' \subseteq {"data", "cdb", "buf", "toc"}
        /\ cmd'.data = "copy" => "rw6" \in {"unaligned", "rw6"}
        /\ cmd'.cdb = "copy" => "rw6" = "rw6"
    BY <1>2, <1>4, <2>4 DEF Buffers
  <2> QED
    BY <1>1, <1>4, <2>1, <2>2, <2>3, <2>4, <2>5, <2>6, <2>7, ServeCallIInv DEF ClientCall
<1> QED
  BY <1>3, <1>4, Zenon DEF ServeReadWrite6

LEMMA ServeModeSense6IInv == ASSUME IInv, ServeModeSense6 PROVE IInv'
<1>1. pc = "serve" /\ atapi /\ req.op = "modesense6" /\ Translates
  BY DEF ServeModeSense6
<1>2. req \in Request /\ req.length \in Nat /\ req.alloc + 4 \in Nat
  BY <1>1, AtServe DEF Request
<1>3. ASSUME NEW e \in {"address", "length"}, Refuse(e) PROVE IInv'
  BY <1>1, <1>3, RefuseIInv DEF Errors
<1>4. CASE /\ req.data # "null" /\ ~(req.cdb < 6 \/ req.length < 4)
           /\ WithUnitCommand("modesense6", {"buf"},
                Call("unit", "modesense10", 10, <<>>, req.alloc + 4, FALSE))
  <2>1. Buffers("modesense6") = {"buf"} /\ req.length >= 4
    BY <1>2, <1>4 DEF Buffers
  <2> QED
    BY <1>1, <1>2, <1>4, <2>1, WithUnitCommandIInv
<1> QED
  BY <1>3, <1>4, Zenon DEF ServeModeSense6

LEMMA ServeModeSelect6IInv == ASSUME IInv, ServeModeSelect6 PROVE IInv'
<1>1. pc = "serve" /\ atapi /\ req.op = "modeselect6" /\ Translates
  BY DEF ServeModeSelect6
<1>2. req \in Request /\ ParamLength + 4 \in Nat
  BY <1>1, AtServe DEF Request, ParamLength, Least
<1>3. ASSUME NEW e \in {"address", "length"}, Refuse(e) PROVE IInv'
  BY <1>1, <1>3, RefuseIInv DEF Errors
<1>4. CASE WithUnitCommand("modeselect6", {"buf"},
             Call("unit", "modeselect10", 10, <<>>, ParamLength + 4, req.auto))
  <2>1. Buffers("modeselect6") = {"buf"}
    BY DEF Buffers
  <2>2. req.auto \in BOOLEAN
    BY <1>2, Zenon DEF Request
  <2> QED
    BY <1>1, <1>2, <1>4, <2>1, <2>2, WithUnitCommandIInv
<1> QED
  BY <1>3, <1>4, Zenon DEF ServeModeSelect6

LEMMA ServePlayIInv == ASSUME IInv, ServePlay PROVE IInv'
<1>1. Buffers("toc") = {"toc"} /\ TocSize \in Nat
  BY ConstantTypes DEF Buffers
<1>2. /\ pc = "serve" /\ atapi /\ req.op = "play" /\ Translates
      /\ WithUnitCommand("toc", {"toc"}, Call("unit", "toc", 10, <<>>, TocSize, FALSE))
  BY DEF ServePlay
<1> QED
  BY <1>1, <1>2, WithUnitCommandIInv

LEMMA ServeProtStatusIInv == ASSUME IInv, ServeProtStatus PROVE IInv'
<1>1. Buffers("wp") = {"buf"} /\ TocSize \in Nat
  BY ConstantTypes DEF Buffers
<1>2. /\ pc = "serve" /\ req.op = "protstatus" /\ Translates
      /\ WithUnitCommand("wp", {"buf"}, Call("unit", "modesense10", 10, <<>>, TocSize, FALSE))
  BY DEF ServeProtStatus
<1>3. atapi
  BY <1>2, AtServe
<1> QED
  BY <1>1, <1>2, <1>3, WithUnitCommandIInv

LEMMA ServeIInv == ASSUME IInv, Serve PROVE IInv'
BY EmulateIInv, AtaTransferIInv, AtaPassthroughIInv, PlainTransferIInv, ServeDirectIInv, ServeUnalignedIInv,
   ServeReadWrite6IInv, ServeModeSense6IInv, ServeModeSelect6IInv, ServePlayIInv,
   ServeProtStatusIInv DEF Serve

\* The end of a function whose call has returned.
LEMMA ReturnEnds ==
  ASSUME IInv, pc \in CallPcs, frames = <<>>, NEW e \in Errors, Ends(e), Handled,
         UNCHANGED toc, inUse' = inUse \ {"unit"}, mem' = {},
         cmd' \in Fields, cmd'.data = "own", cmd'.cdb = "own",
         req.op # "protstatus" => Reached(cmd'.actual),
         Tellable(cmd'.senseActual), cmd'.senseActual > 0 => e # "ok",
         e = "ok" /\ req.op = "modesense6" => ModeTrue'
  PROVE  IInv'
<1>1. /\ Outer(back) /\ back \in Frame /\ tries = 0 /\ atapi /\ req \in Request
      /\ inUse \ {"unit"} = {}
  BY AtReturned
<1>2. frames' = <<>> /\ UNCHANGED <<atapi, req, sense, back, tries, drive, sent>>
  BY DEF Handled
<1>3. pc' \in {pc, "answer", "replied"} /\ error' = e
  BY DEF Ends
<1>4. SentInv' /\ sent' \in Seq([op : CallOps, arg : Args])
  <2>1. Types /\ SentInv
    BY DEF IInv
  <2>2. back.op = "playmsf" => pc = "play" /\ PlayOf(toc, req, back.arg)
    BY <1>1 DEF Outer
  <2> QED
    BY <1>1, <1>2, <1>3, <2>1, <2>2, SentStays
<1>5. DataInv'
  BY <1>1, <1>2, <1>3 DEF DataInv
<1>6. pc \in CallPcs \cup {"serve"} /\ inUse' = {}
  BY <1>1
<1> QED
  BY <1>1, <1>2, <1>4, <1>5, <1>6, EndsIInv

LEMMA DirectReturnedIInv == ASSUME IInv, DirectReturned PROVE IInv'
<1>1. /\ pc = "direct" /\ frames = <<>> /\ Ends(back.ret)
      /\ UNCHANGED <<cmd, inUse, mem, toc>> /\ Handled
  BY DEF DirectReturned, Returned
<1>2. pc \in CallPcs /\ pc \in ClientPcs
  BY <1>1 DEF CallPcs, ClientPcs
<1>3. /\ back \in Frame /\ cmd \in Fields /\ inUse = {} /\ mem \subseteq Buffers(pc)
      /\ cmd.senseActual = back.senseActual /\ (back.senseActual > 0 => back.ret # "ok")
      /\ Tellable(back.senseActual)
      /\ (req.op # "protstatus" => Reached(cmd.actual))
  BY <1>1, <1>2, AtReturned
<1>4. cmd.data = "own" /\ cmd.cdb = "own" /\ mem' = {} /\ back.ret \in Errors
  BY <1>1, <1>3 DEF IInv, OwnerInv, Fields, Frame, Buffers
<1>5. req.op # "modesense6"
  BY <1>1 DEF IInv, ServedInv, PcOp
<1> QED
  BY <1>1, <1>2, <1>3, <1>4, <1>5, ReturnEnds

LEMMA UnalignedReturnedIInv == ASSUME IInv, UnalignedReturned PROVE IInv'
<1>1. /\ pc = "unaligned" /\ frames = <<>> /\ Ends(back.ret) /\ mem' = mem \ {"data"}
      /\ cmd' = [cmd EXCEPT !.data = "own"] /\ UNCHANGED <<inUse, toc>> /\ Handled
  BY DEF UnalignedReturned, Returned
<1>2. pc \in CallPcs /\ pc \in ClientPcs
  BY <1>1 DEF CallPcs, ClientPcs
<1>3. /\ back \in Frame /\ cmd \in Fields /\ inUse = {} /\ mem \subseteq Buffers(pc)
      /\ cmd.senseActual = back.senseActual /\ (back.senseActual > 0 => back.ret # "ok")
      /\ Tellable(back.senseActual)
      /\ (req.op # "protstatus" => Reached(cmd.actual))
  BY <1>1, <1>2, AtReturned
<1>4. cmd.cdb = "own" /\ mem' = {} /\ back.ret \in Errors
  BY <1>1, <1>3 DEF IInv, OwnerInv, Fields, Frame, Buffers
<1>5. /\ cmd' \in Fields /\ cmd'.data = "own" /\ cmd'.cdb = "own"
      /\ cmd'.actual = cmd.actual /\ cmd'.senseActual = cmd.senseActual
  BY <1>1, <1>3, <1>4 DEF Fields
<1>6. req.op # "modesense6"
  BY <1>1 DEF IInv, ServedInv, PcOp
<1> QED
  BY <1>1, <1>2, <1>3, <1>4, <1>5, <1>6, ReturnEnds

LEMMA ReadWrite6ReturnedIInv == ASSUME IInv, ReadWrite6Returned PROVE IInv'
<1>1. /\ pc = "rw6" /\ frames = <<>> /\ Ends(back.ret) /\ mem' = mem \ {"data", "cdb"}
      /\ cmd' = [cmd EXCEPT !.data = "own", !.cdb = "own"] /\ UNCHANGED <<inUse, toc>>
      /\ Handled
  BY DEF ReadWrite6Returned, Returned
<1>2. pc \in CallPcs /\ pc \in ClientPcs
  BY <1>1 DEF CallPcs, ClientPcs
<1>3. /\ back \in Frame /\ cmd \in Fields /\ inUse = {} /\ mem \subseteq Buffers(pc)
      /\ cmd.senseActual = back.senseActual /\ (back.senseActual > 0 => back.ret # "ok")
      /\ Tellable(back.senseActual)
      /\ (req.op # "protstatus" => Reached(cmd.actual))
  BY <1>1, <1>2, AtReturned
<1>4. mem' = {} /\ back.ret \in Errors
  BY <1>1, <1>3 DEF Frame, Buffers
<1>5. /\ cmd' \in Fields /\ cmd'.data = "own" /\ cmd'.cdb = "own"
      /\ cmd'.actual = cmd.actual /\ cmd'.senseActual = cmd.senseActual
  BY <1>1, <1>3 DEF Fields
<1>6. req.op # "modesense6"
  BY <1>1 DEF IInv, ServedInv, PcOp
<1> QED
  BY <1>1, <1>2, <1>3, <1>4, <1>5, <1>6, ReturnEnds

LEMMA PlayReturnedIInv == ASSUME IInv, PlayReturned PROVE IInv'
<1>1. /\ pc = "play" /\ frames = <<>> /\ Ends(back.ret) /\ inUse' = inUse \ {"unit"}
      /\ mem' = mem \ {"toc"} /\ UNCHANGED <<cmd, toc>> /\ Handled
  BY DEF PlayReturned, Returned
<1>2. pc \in CallPcs /\ pc \notin ClientPcs
  BY <1>1 DEF CallPcs, ClientPcs
<1>3. /\ back \in Frame /\ cmd \in Fields /\ mem \subseteq Buffers(pc)
      /\ cmd.senseActual = 0 /\ Tellable(back.senseActual) /\ req \in Request
      /\ (req.op # "protstatus" => Reached(cmd.actual))
  BY <1>1, <1>2, AtReturned
<1>4. /\ cmd.data = "own" /\ cmd.cdb = "own" /\ mem' = {} /\ back.ret \in Errors
      /\ req.op # "modesense6"
  BY <1>1, <1>3 DEF IInv, OwnerInv, Fields, Frame, Buffers, ServedInv, PcOp
<1>5. Tellable(cmd.senseActual)
  BY <1>3, EvenFacts DEF Tellable, Request
<1> QED
  BY <1>1, <1>2, <1>3, <1>4, <1>5, ReturnEnds

LEMMA ProtStatusReturnedIInv == ASSUME IInv, ProtStatusReturned PROVE IInv'
<1>1. /\ pc = "wp" /\ frames = <<>> /\ Ends(back.ret) /\ inUse' = inUse \ {"unit"}
      /\ mem' = mem \ {"buf"} /\ UNCHANGED toc /\ Handled
      /\ \E wp \in {0, 1} : cmd' = [cmd EXCEPT !.actual = wp]
  BY DEF ProtStatusReturned, Returned
<1>2. pc \in CallPcs /\ pc \notin ClientPcs
  BY <1>1 DEF CallPcs, ClientPcs
<1>3. /\ back \in Frame /\ cmd \in Fields /\ mem \subseteq Buffers(pc)
      /\ cmd.senseActual = 0 /\ req \in Request
  BY <1>1, <1>2, AtReturned
<1>4. /\ cmd.data = "own" /\ cmd.cdb = "own" /\ mem' = {} /\ back.ret \in Errors
      /\ req.op = "protstatus"
  BY <1>1, <1>3 DEF IInv, OwnerInv, Fields, Frame, Buffers, ServedInv, PcOp
<1>5. Tellable(0)
  BY <1>3, EvenFacts DEF Tellable, Request
<1>6. /\ cmd' \in Fields /\ cmd'.data = "own" /\ cmd'.cdb = "own" /\ cmd'.senseActual = 0
  BY <1>1, <1>3, <1>4 DEF Fields
<1> QED
  BY <1>1, <1>2, <1>4, <1>5, <1>6, ReturnEnds

\* A set of numbers has a least one.
LEMMA LeastNumber ==
  ASSUME NEW T, T \subseteq Nat, T # {}
  PROVE  \E x \in T : \A y \in T : x <= y
<1>1. IsWellFoundedOn(OpToRel(<, Nat), Nat)
  BY NatLessThanWellFounded
<1>2. PICK x \in T : \A y \in T : <<y, x>> \notin OpToRel(<, Nat)
  BY <1>1, WFMin
<1>3. x \in Nat /\ \A y \in T : y \in Nat /\ ~(y < x)
  BY <1>2 DEF OpToRel
<1>4. \A y \in T : x <= y
  BY <1>3
<1> QED
  BY <1>2, <1>4, Zenon

LEMMA TrackMsfIsOne ==
  ASSUME NEW t \in Toc, NEW n, HasTrack(t, n)
  PROVE  \E a \in DOMAIN t.td : t.td[a].track = n /\ TrackMsf(t, n) = t.td[a].msf
<1> DEFINE T == [track : Nat, msf : Msf]
<1> DEFINE m == Least(t.last - t.first + 2, Len(t.td))
<1>1. t.first \in Nat /\ t.last \in Nat /\ t.td \in Seq(T)
  BY DEF Toc
<1>2. Len(t.td) \in Nat /\ DOMAIN t.td = 1 .. Len(t.td)
  BY <1>1
<1>3. m \in Int /\ m <= Len(t.td)
  BY <1>1, <1>2 DEF Least
<1>4. Descriptors(t) = SubSeq(t.td, 1, m)
  BY DEF Descriptors
<1> HIDE DEF m
<1>5. \A i \in 1 .. m : t.td[i] \in T
  <2>1. \A i \in 1 .. m : i \in DOMAIN t.td
    BY <1>2, <1>3
  <2>2. \A i \in DOMAIN t.td : t.td[i] \in T
    BY <1>1, ElementOfSeq, <1>2
  <2> QED
    BY <2>1, <2>2
<1> HIDE DEF T
<1>6. /\ Descriptors(t) \in Seq(T)
      /\ Len(Descriptors(t)) = IF 1 <= m THEN m - 1 + 1 ELSE 0
  BY <1>3, <1>4, <1>5, SubSeqProperties
<1>7. DOMAIN Descriptors(t) = 1 .. m
  BY <1>3, <1>6
<1> DEFINE S == {i \in 1 .. m : t.td[i].track = n}
<1>8. S \subseteq Nat /\ S # {}
  BY <1>3, <1>7 DEF HasTrack
<1>9. PICK x \in S : \A y \in S : x <= y
  BY <1>8, LeastNumber
<1>10. \A j \in 1 .. (x - 1) : t.td[j].track # n
  <2> SUFFICES ASSUME NEW j \in 1 .. (x - 1), t.td[j].track = n
               PROVE  FALSE
    OBVIOUS
  <2>1. j \in S
    BY <1>3, <1>9
  <2> QED
    BY <1>3, <1>9, <2>1
<1>11. \E i \in DOMAIN Descriptors(t) :
         t.td[i].track = n /\ \A j \in 1 .. (i - 1) : t.td[j].track # n
  BY <1>7, <1>9, <1>10
<1> DEFINE a == CHOOSE i \in DOMAIN Descriptors(t) :
                  t.td[i].track = n /\ \A j \in 1 .. (i - 1) : t.td[j].track # n
<1>12. a \in DOMAIN Descriptors(t) /\ t.td[a].track = n
  BY <1>11
<1>13. TrackMsf(t, n) = t.td[a].msf
  BY DEF TrackMsf
<1>14. a \in DOMAIN t.td
  BY <1>2, <1>3, <1>7, <1>12
<1> QED
  BY <1>12, <1>13, <1>14

\* One frame before the lead-out.
LEMMA AdjustEndIsBefore ==
  ASSUME NEW msf \in Msf, FrameOf(msf) > 0
  PROVE  AdjustEnd(msf) \in Msf /\ FrameOf(AdjustEnd(msf)) = FrameOf(msf) - 1
<1>1. PICK m \in Nat, s \in Nat, f \in Nat : msf = <<m, s, f>>
  BY DEF Msf
<1>2. msf[1] = m /\ msf[2] = s /\ msf[3] = f
  BY <1>1
<1>3. (m * 60 + s) * 75 + f > 0
  BY <1>2 DEF FrameOf
<1>4. CASE f > 0
  <2>1. AdjustEnd(msf) = <<m, s, f - 1>> /\ f - 1 \in Nat
    BY <1>2, <1>4 DEF AdjustEnd
  <2> QED
    BY <1>2, <2>1 DEF Msf, FrameOf
<1>5. CASE ~(f > 0) /\ s > 0
  <2>1. AdjustEnd(msf) = <<m, s - 1, 74>> /\ s - 1 \in Nat
    BY <1>2, <1>5 DEF AdjustEnd
  <2> QED
    BY <1>2, <1>5, <2>1 DEF Msf, FrameOf
<1>6. CASE ~(f > 0) /\ ~(s > 0)
  <2>1. m > 0
    BY <1>3, <1>6
  <2>2. AdjustEnd(msf) = <<m - 1, 59, 74>> /\ m - 1 \in Nat
    BY <1>2, <1>6, <2>1 DEF AdjustEnd
  <2> QED
    BY <1>2, <1>6, <2>2 DEF Msf, FrameOf
<1> QED
  BY <1>4, <1>5, <1>6

\* What TocReturned plays: from the first track to the last one, or to one frame
\* before the lead-out.
LEMMA PlaysTheTracks ==
  ASSUME req \in Request, NEW t \in Tocs, HasTrack(t, req.from), HasTrack(t, PlayEnd(t)),
         NEW arg, arg = <<TrackMsf(t, req.from),
                          IF PlayEnd(t) = Leadout THEN AdjustEnd(TrackMsf(t, PlayEnd(t)))
                          ELSE TrackMsf(t, PlayEnd(t))>>
  PROVE  arg \in Args /\ PlayOf(t, req, arg)
<1>1. t \in Toc /\ t.last < Leadout /\ t.last \in Nat
  <2>1. t \in Toc
    BY ConstantTypes, Zenon
  <2>2. t.last \in 0 .. (Leadout - 1)
    BY <2>1 DEF Toc
  <2> QED
    BY <2>1, <2>2 DEF Leadout
<1>2. PICK a \in DOMAIN t.td : t.td[a].track = req.from /\ TrackMsf(t, req.from) = t.td[a].msf
  BY <1>1, TrackMsfIsOne
<1>3. PICK z \in DOMAIN t.td :
        t.td[z].track = PlayEnd(t) /\ TrackMsf(t, PlayEnd(t)) = t.td[z].msf
  BY <1>1, TrackMsfIsOne
<1>4. t.td[a].msf \in Msf /\ t.td[z].msf \in Msf
  <2> DEFINE T == [track : Nat, msf : Msf]
  <2>1. t.td \in Seq(T)
    BY <1>1 DEF Toc
  <2>2. DOMAIN t.td = 1 .. Len(t.td)
    BY <2>1
  <2>3. t.td[a] \in T /\ t.td[z] \in T
    <3> HIDE DEF T
    <3> QED
      BY <1>2, <1>3, <2>1, <2>2, ElementOfSeq
  <2> QED
    BY <2>3
<1>5. (PlayEnd(t) = Leadout <=> req.to > t.last) /\ (~(req.to > t.last) => PlayEnd(t) = req.to)
  <2>1. req.to \in Nat
    BY DEF Request
  <2> QED
    BY <1>1, <2>1 DEF PlayEnd, Leadout
<1>6. arg[1] = t.td[a].msf
      /\ arg[2] = IF PlayEnd(t) = Leadout THEN AdjustEnd(t.td[z].msf) ELSE t.td[z].msf
  BY <1>2, <1>3
<1>7. CASE PlayEnd(t) = Leadout
  <2>1. FrameOf(t.td[z].msf) > 0
    BY <1>3, <1>7, DrivesAssumption
  <2>2. arg[2] \in Msf /\ FrameOf(arg[2]) = FrameOf(t.td[z].msf) - 1
    BY <1>4, <1>6, <1>7, <2>1, AdjustEndIsBefore
  <2>3. arg \in Msf \X Msf
    BY <1>4, <1>6, <2>2
  <2>4. PlayOf(t, req, arg)
    BY <1>2, <1>3, <1>5, <1>6, <1>7, <2>2 DEF PlayOf
  <2> QED
    BY <2>3, <2>4 DEF Args
<1>8. CASE PlayEnd(t) # Leadout
  <2>1. arg \in Msf \X Msf
    BY <1>4, <1>6, <1>8
  <2>2. PlayOf(t, req, arg)
    BY <1>2, <1>3, <1>5, <1>6, <1>8 DEF PlayOf
  <2> QED
    BY <2>1, <2>2 DEF Args
<1> QED
  BY <1>7, <1>8

LEMMA TocReturnedIInv == ASSUME IInv, TocReturned PROVE IInv'
<1>1. pc = "toc" /\ frames = <<>> /\ UNCHANGED <<atapi, req, cmd, sense, back, tries, drive, sent>>
  BY DEF TocReturned, Returned
<1>2. pc \in CallPcs /\ pc \notin ClientPcs
  BY <1>1 DEF CallPcs, ClientPcs
<1>3. /\ back \in Frame /\ cmd \in Fields /\ mem \subseteq Buffers(pc) /\ tries = 0 /\ atapi
      /\ cmd.senseActual = 0 /\ req \in Request /\ inUse \ {"unit"} = {} /\ "unit" \in inUse
      /\ (req.op # "protstatus" => Reached(cmd.actual))
  BY <1>1, <1>2, AtReturned
<1>4. /\ cmd.data = "own" /\ cmd.cdb = "own" /\ mem \subseteq {"toc"} /\ back.ret \in Errors
      /\ req.op = "play" /\ Tellable(0)
  <2>1. 0 <= EvenUp(req.senseLength)
    BY <1>3, EvenFacts DEF Request
  <2> QED
    BY <1>1, <1>3, <2>1 DEF IInv, OwnerInv, Fields, Frame, Buffers, ServedInv, PcOp, Tellable
<1>5. sent \in Seq([op : CallOps, arg : Args]) /\ \A i \in DOMAIN sent : sent[i].op # "playmsf"
  BY <1>1 DEF IInv, SentInv, Types
<1>6. PICK t \in Tocs :
        /\ toc' = t
        /\ IF back.ret # "ok" \/ ~HasTrack(t, req.from) \/ ~HasTrack(t, PlayEnd(t))
             THEN /\ Ends(IF back.ret # "ok" THEN back.ret ELSE "address")
                  /\ inUse' = inUse \ {"unit"} /\ mem' = mem \ {"toc"}
                  /\ UNCHANGED frames
             ELSE /\ LET end  == TrackMsf(t, PlayEnd(t))
                         stop == IF PlayEnd(t) = Leadout THEN AdjustEnd(end) ELSE end
                     IN Calls("play", Call("unit", "playmsf", 10,
                                <<TrackMsf(t, req.from), stop>>, 0, FALSE))
                  /\ UNCHANGED <<inUse, mem>>
  BY Zenon DEF TocReturned
<1>7. CASE back.ret # "ok" \/ ~HasTrack(t, req.from) \/ ~HasTrack(t, PlayEnd(t))
  <2>1. PICK e \in Errors \ {"ok"} : Ends(e)
    BY <1>4, <1>6, <1>7 DEF Errors
  <2>2. inUse' = {} /\ mem' = {} /\ frames' = <<>>
    BY <1>1, <1>3, <1>4, <1>6, <1>7
  <2>3. pc' \in {"answer", "replied"} /\ error' = e
    BY <2>1 DEF Ends
  <2>4. SentInv'
    BY <1>1, <1>3, <1>5, <2>3 DEF SentInv
  <2>5. DataInv'
    BY <2>1, <2>3 DEF DataInv
  <2>6. /\ pc \in CallPcs \cup {"serve"} /\ cmd' \in Fields /\ cmd'.data = "own"
        /\ cmd'.cdb = "own" /\ (req.op # "protstatus" => Reached(cmd'.actual))
        /\ Tellable(cmd'.senseActual) /\ ~(cmd'.senseActual > 0)
        /\ sent' \in Seq([op : CallOps, arg : Args])
    BY <1>1, <1>2, <1>3, <1>4, <1>5
  <2> QED
    BY <1>1, <1>3, <2>1, <2>2, <2>4, <2>5, <2>6, EndsIInv
<1>8. CASE ~(back.ret # "ok" \/ ~HasTrack(t, req.from) \/ ~HasTrack(t, PlayEnd(t)))
  <2>1. PICK arg : arg = <<TrackMsf(t, req.from),
                           IF PlayEnd(t) = Leadout THEN AdjustEnd(TrackMsf(t, PlayEnd(t)))
                           ELSE TrackMsf(t, PlayEnd(t))>>
    OBVIOUS
  <2>2. Calls("play", Call("unit", "playmsf", 10, arg, 0, FALSE)) /\ UNCHANGED <<inUse, mem>>
    BY <1>6, <1>8, <2>1, Zenon
  <2>3. arg \in Args /\ PlayOf(t, req, arg)
    BY <1>3, <1>8, <2>1, PlaysTheTracks
  <2>4. PICK f \in Frame :
          /\ f = Call("unit", "playmsf", 10, arg, 0, FALSE)
          /\ f.by = "unit" /\ f.op = "playmsf" /\ f.length = 0 /\ f.arg = arg
          /\ ~f.auto /\ f.at = "check" /\ f.senseActual = 0 /\ Fills(f)
    <3> DEFINE f == Call("unit", "playmsf", 10, arg, 0, FALSE)
    <3>1. f = [by |-> "unit", op |-> "playmsf", cdb |-> 10, arg |-> arg, length |-> 0,
               hasData |-> TRUE, auto |-> FALSE, at |-> "check", actual |-> 0, status |-> 0,
               senseActual |-> 0, ret |-> "ok", extra |-> FALSE]
      BY DEF Call
    <3> HIDE DEF f
    <3>2. f \in Frame
      BY <2>3, <3>1 DEF Frame, CallOps, Ats, Errors
    <3>3. /\ f.by = "unit" /\ f.op = "playmsf" /\ f.length = 0 /\ f.arg = arg
          /\ f.at = "check" /\ f.senseActual = 0 /\ f.actual = 0
      BY <3>1
    <3>4. ~f.auto
      BY <3>1
    <3>5. Fills(f)
      BY <3>3 DEF Fills, EvenUp
    <3> QED
      BY <3>2, <3>3, <3>4, <3>5, Zenon DEF f
  <2>5. Calls("play", f) /\ pc' = "play"
    BY <2>2, <2>4 DEF Calls
  <2>6. Outer(f)'
    <3>1. Tellable(f.senseActual)'
      BY <1>1, <1>4, <2>4 DEF Tellable
    <3>2. PlayOf(toc', req', f.arg) /\ "play" \notin ClientPcs
      BY <1>1, <1>6, <2>3, <2>4 DEF ClientPcs
    <3>3. ~f.auto
      BY <2>4, Zenon
    <3>4. /\ f.at = "check" /\ f.senseActual = 0 /\ f.by = "unit" /\ f.op = "playmsf"
          /\ Fills(f)
      BY <2>4, Zenon
    <3> QED
      BY <2>5, <3>1, <3>2, <3>3, <3>4 DEF Outer
  <2>7. PcOp'
    BY <1>1, <1>4, <2>5 DEF PcOp
  <2>8. /\ "play" \in CallPcs
        /\ inUse' = IF "play" \in ClientPcs THEN {} ELSE {"unit"}
        /\ mem' \subseteq Buffers("play") /\ mem' \subseteq {"data", "cdb", "buf", "toc"}
    BY <1>3, <1>4, <2>2 DEF CallPcs, ClientPcs, Buffers
  <2>9. /\ cmd' \in Fields /\ cmd'.actual = cmd.actual /\ cmd'.senseActual = 0
        /\ cmd'.data = "copy" => "play" \in {"unaligned", "rw6"}
        /\ cmd'.cdb = "copy" => "play" = "rw6"
        /\ pc \in {"serve", "toc"}
    BY <1>1, <1>3, <1>4
  <2> QED
    BY <1>1, <1>3, <2>4, <2>5, <2>6, <2>7, <2>8, <2>9, CallIInv
<1> QED
  BY <1>7, <1>8

LEMMA ModeSelect6ReturnedIInv == ASSUME IInv, ModeSelect6Returned PROVE IInv'
<1> DEFINE given == IF back.actual >= 4 THEN back.actual - 4 ELSE 0
<1> DEFINE told == IF back.ret = "ok" THEN 0 ELSE 2
<1>1. /\ pc = "modeselect6" /\ frames = <<>> /\ Ends(back.ret) /\ inUse' = inUse \ {"unit"}
      /\ mem' = mem \ {"buf"} /\ UNCHANGED toc /\ Handled
      /\ cmd' = [cmd EXCEPT !.status = told, !.senseActual = back.senseActual,
                            !.actual = given]
  BY DEF ModeSelect6Returned, Returned
<1>2. pc \in CallPcs /\ pc \notin ClientPcs
  BY <1>1 DEF CallPcs, ClientPcs
<1>3. /\ back \in Frame /\ cmd \in Fields /\ mem \subseteq Buffers(pc) /\ Outer(back)
      /\ req \in Request /\ (back.senseActual > 0 => back.ret # "ok")
      /\ Tellable(back.senseActual)
  BY <1>1, <1>2, AtReturned
<1>4. /\ cmd.data = "own" /\ cmd.cdb = "own" /\ mem' = {} /\ back.ret \in Errors
      /\ req.op = "modeselect6" /\ back.actual \in Nat /\ back.senseActual \in Nat
  BY <1>1, <1>3 DEF IInv, OwnerInv, Fields, Frame, Buffers, ServedInv, PcOp
<1>5. given \in Nat /\ told \in {0, 2}
  BY <1>4
<1>6. given <= EvenUp(req.length) /\ Reached(given)
  <2>1. req.alloc \in Nat /\ req.length \in Nat
    BY <1>3 DEF Request
  <2>2. ParamLength \in Nat /\ ParamLength <= req.length
    BY <2>1 DEF ParamLength, Least
  <2>3. back.actual <= EvenUp(ParamLength) + 4
    BY <1>1, <1>2, <1>3, <2>2, EvenFacts DEF Outer, Fills
  <2>4. EvenUp(ParamLength) <= EvenUp(req.length) /\ EvenUp(ParamLength) \in Nat
        /\ EvenUp(req.length) \in Nat
    BY <2>1, <2>2, EvenMonotone, EvenFacts
  <2> QED
    BY <1>4, <2>3, <2>4 DEF Reached
<1> HIDE DEF given, told
<1>7. /\ cmd' \in Fields /\ cmd'.data = "own" /\ cmd'.cdb = "own"
      /\ cmd'.actual = given /\ cmd'.senseActual = back.senseActual
  BY <1>1, <1>3, <1>4, <1>5 DEF Fields
<1> QED
  BY <1>1, <1>2, <1>3, <1>4, <1>6, <1>7, ReturnEnds

\* The arithmetic of the two mode headers: the long one has four bytes more.
LEMMA ModeArithmetic ==
  ASSUME NEW total \in Nat, NEW actual \in Nat, NEW alloc \in Nat, NEW length \in Nat,
         actual >= 8, length >= 4, NEW given,
         given = Least(actual - 8, length - 4) + 4
  PROVE  /\ given \in Nat /\ given <= length
         /\ actual = Least(total, alloc + 4) =>
              given = Least(total - 4, Least(alloc, length))
BY DEF Least

LEMMA ModeSense6ReturnedIInv == ASSUME IInv, ModeSense6Returned PROVE IInv'
<1>1. /\ pc = "modesense6" /\ frames = <<>> /\ inUse' = inUse \ {"unit"}
      /\ mem' = mem \ {"buf"} /\ UNCHANGED toc /\ Handled
  BY DEF ModeSense6Returned, Returned
<1>2. pc \in CallPcs /\ pc \notin ClientPcs
  BY <1>1 DEF CallPcs, ClientPcs
<1>3. /\ back \in Frame /\ cmd \in Fields /\ mem \subseteq Buffers(pc)
      /\ req \in Request /\ cmd.senseActual = 0 /\ (back.senseActual > 0 => back.ret # "ok")
      /\ Tellable(back.senseActual)
      /\ (req.op # "protstatus" => Reached(cmd.actual))
  BY <1>1, <1>2, AtReturned
<1>4. /\ cmd.data = "own" /\ cmd.cdb = "own" /\ mem' = {} /\ back.ret \in Errors
      /\ req.op = "modesense6" /\ req.length >= 4 /\ back.actual \in Nat
      /\ back.senseActual \in Nat
  BY <1>1, <1>3 DEF IInv, OwnerInv, Fields, Frame, Buffers, ServedInv, PcOp
<1>5. req.length \in Nat /\ req.alloc \in Nat /\ Tellable(0)
  <2>1. req.length \in Nat /\ req.alloc \in Nat /\ req.senseLength \in Nat
    BY <1>3 DEF Request
  <2>2. 0 <= EvenUp(req.senseLength)
    BY <2>1, EvenFacts
  <2> QED
    BY <2>1, <2>2 DEF Tellable
<1>6. PICK total \in ModeTotals :
        LET short == back.actual < ModeHeader10 \/ ModeLength(total) > 255
                       \/ ModeLength(total) < 3
            copied == Least(back.actual - ModeHeader10, req.length - ModeHeader6)
        IN
        \/ /\ back.ret = "ok" /\ ~short
           /\ Ends("ok")
           /\ cmd' = [cmd EXCEPT !.actual = copied + ModeHeader6,
                                 !.value = ModeLength(total) - 3]
        \/ /\ back.ret = "ok" /\ short
           /\ Ends("length")
           /\ cmd' = [cmd EXCEPT !.status = 2]
        \/ /\ back.ret # "ok"
           /\ Ends(back.ret)
           /\ cmd' = [cmd EXCEPT !.status = 2, !.senseActual = back.senseActual]
  BY Zenon DEF ModeSense6Returned
<1>7. total \in Nat
  BY ConstantTypes
<1>8. CASE /\ ~(back.actual < ModeHeader10) /\ Ends("ok")
           /\ cmd' = [cmd EXCEPT !.actual = Least(back.actual - ModeHeader10,
                                                  req.length - ModeHeader6) + ModeHeader6,
                                 !.value = ModeLength(total) - 3]
  <2>1. PICK given : given = Least(back.actual - 8, req.length - 4) + 4
    OBVIOUS
  <2>2. back.actual >= 8 /\ ModeLength(total) = total - 2
    BY <1>4, <1>7, <1>8 DEF ModeHeader10, ModeLength
  <2>3. /\ given \in Nat /\ given <= req.length
        /\ back.actual = Least(total, req.alloc + 4) =>
             given = Least(total - 4, Least(req.alloc, req.length))
    <3>1. PICK a \in Nat, b \in Nat, c \in Nat :
            a = back.actual /\ b = req.alloc /\ c = req.length
      BY <1>4, <1>5
    <3>2. a >= 8 /\ c >= 4 /\ given = Least(a - 8, c - 4) + 4
      BY <1>4, <2>1, <2>2, <3>1
    <3>3. /\ given \in Nat /\ given <= c
          /\ a = Least(total, b + 4) => given = Least(total - 4, Least(b, c))
      BY <1>7, <3>2, ModeArithmetic
    <3> QED
      BY <3>1, <3>3
  <2> DEFINE value == total - 5
  <2>4. cmd' = [cmd EXCEPT !.actual = given, !.value = value] /\ value \in Int
    <3>1. ModeLength(total) - 3 = value /\ value \in Int
      BY <1>7, <2>2
    <3>2. Least(back.actual - ModeHeader10, req.length - ModeHeader6) + ModeHeader6 = given
      BY <2>1 DEF ModeHeader10, ModeHeader6
    <3> QED
      BY <1>8, <3>1, <3>2
  <2> HIDE DEF value
  <2>5. /\ cmd' \in Fields /\ cmd'.data = "own" /\ cmd'.cdb = "own"
        /\ cmd'.actual = given /\ cmd'.senseActual = 0 /\ cmd'.value = value
    BY <1>3, <1>4, <1>7, <2>3, <2>4 DEF Fields
  <2>6. ModeTrue'
    <3>1. UNCHANGED <<req, back>>
      BY <1>1 DEF Handled
    <3>2. /\ cmd'.value + 1 = total - 4
          /\ back'.actual = Least(total, req'.alloc + 4) =>
               cmd'.actual = Least(total - 4, Least(req'.alloc, req'.length))
      BY <1>7, <2>3, <2>5, <3>1 DEF value
    <3> QED
      BY <1>6, <3>2 DEF ModeTrue
  <2>7. Reached(cmd'.actual) /\ ~(cmd'.senseActual > 0) /\ "ok" \in Errors
    BY <1>5, <2>3, <2>5, EvenFacts DEF Errors, Reached
  <2> QED
    BY <1>1, <1>2, <1>4, <1>5, <1>8, <2>5, <2>6, <2>7, ReturnEnds
<1>9. CASE Ends("length") /\ cmd' = [cmd EXCEPT !.status = 2]
  <2>1. /\ cmd' \in Fields /\ cmd'.data = "own" /\ cmd'.cdb = "own"
        /\ cmd'.actual = cmd.actual /\ cmd'.senseActual = 0
    BY <1>3, <1>4, <1>9 DEF Fields
  <2>2. "length" \in Errors
    BY DEF Errors
  <2> QED
    BY <1>1, <1>2, <1>3, <1>4, <1>5, <1>9, <2>1, <2>2, ReturnEnds
<1>10. CASE /\ back.ret # "ok" /\ Ends(back.ret)
            /\ cmd' = [cmd EXCEPT !.status = 2, !.senseActual = back.senseActual]
  <2>1. /\ cmd' \in Fields /\ cmd'.data = "own" /\ cmd'.cdb = "own"
        /\ cmd'.actual = cmd.actual /\ cmd'.senseActual = back.senseActual
    BY <1>3, <1>4, <1>10 DEF Fields
  <2> QED
    BY <1>1, <1>2, <1>3, <1>4, <1>10, <2>1, ReturnEnds
<1> QED
  BY <1>6, <1>8, <1>9, <1>10, Zenon

\* The answer is told: AnswerIsTold becomes true here.
LEMMA AnswerIInv == ASSUME IInv, Answer PROVE IInv'
<1>1. /\ pc = "answer" /\ pc' = "replied" /\ UNCHANGED <<error, sent>>
      /\ UNCHANGED <<atapi, req, frames, back, inUse, mem, tries, toc, drive>>
  BY DEF Answer, Keep
<1>2. /\ req \in Request /\ cmd \in Fields /\ sense \in Senses /\ error \in Errors
      /\ req.op \in ScsiOps
  <2>1. req \in Request
    BY <1>1, ConstantTypes DEF IInv, ServedInv, Requests
  <2> QED
    BY <1>1, <2>1 DEF IInv, Types, TypeOK, ServedInv, PcOp
<1>3. /\ frames = <<>> /\ tries = 0 /\ inUse = {} /\ mem = {}
      /\ cmd.data = "own" /\ cmd.cdb = "own"
  <2>1. pc \notin CallPcs
    BY <1>1 DEF CallPcs
  <2>2. inUse \subseteq {"unit", "sense"}
    BY DEF IInv, Types, TypeOK
  <2>3. frames = <<>> /\ tries = 0
    BY <2>1 DEF IInv, StackInv
  <2>4. inUse = {} /\ mem = {}
    BY <1>1, <2>1, <2>2, <2>3 DEF IInv, OwnerInv, Buffers
  <2> QED
    BY <1>1, <1>2, <2>3, <2>4 DEF IInv, OwnerInv, Fields
<1>4. /\ Reached(cmd.actual) /\ Tellable(cmd.senseActual)
      /\ cmd.senseActual > 0 => error # "ok"
  BY <1>1, <1>2 DEF IInv, ToldInv, ScsiOps, ReadWrite, Emulated
<1> DEFINE faked == error # "ok" /\ cmd.senseActual = 0 /\ Fakes(req.auto, error)
<1>5. IF faked
        THEN sense' = "fake" /\ cmd' = [cmd EXCEPT !.status = 2, !.senseActual = SenseSize]
        ELSE sense' = sense /\ cmd' = [cmd EXCEPT !.status = IF error = "ok" THEN 0 ELSE 2]
  BY DEF Answer
<1>6. /\ cmd' \in Fields /\ cmd'.data = "own" /\ cmd'.cdb = "own" /\ cmd'.actual = cmd.actual
      /\ cmd'.value = cmd.value
      /\ cmd'.status = IF error = "ok" THEN 0 ELSE 2
      /\ cmd'.senseActual = IF faked THEN SenseSize ELSE cmd.senseActual
      /\ sense' \in Senses
  <2>1. CASE faked
    <3>1. SenseSize \in Nat /\ error # "ok"
      BY <2>1, ConstantTypes
    <3>2. sense' = "fake" /\ cmd' = [cmd EXCEPT !.status = 2, !.senseActual = SenseSize]
      BY <1>5, <2>1
    <3> QED
      BY <1>2, <1>3, <2>1, <3>1, <3>2 DEF Fields, Senses
  <2>2. CASE ~faked
    <3>1. sense' = sense /\ cmd' = [cmd EXCEPT !.status = IF error = "ok" THEN 0 ELSE 2]
      BY <1>5, <2>2
    <3> HIDE DEF faked
    <3> QED
      BY <1>2, <1>3, <2>2, <3>1 DEF Fields
  <2> QED
    BY <2>1, <2>2
<1>7. AnswerIsTold'
  <2>1. req.senseLength \in Nat /\ EvenUp(req.senseLength) \in Nat
        /\ req.senseLength <= EvenUp(req.senseLength)
    BY <1>2, EvenFacts DEF Request
  <2>2. SenseSize \in Nat \ {0} /\ cmd.senseActual \in Nat
    BY <1>2, ConstantTypes DEF Fields
  <2>3. (error = "ok") <=> (cmd'.status = 0)
    BY <1>6
  <2>4. CASE faked
    <3>1. error # "ok" /\ req.auto /\ req.senseLength >= SenseSize /\ sense' = "fake"
      BY <1>5, <2>4 DEF Fakes
    <3>2. cmd'.senseActual = SenseSize
      BY <1>6, <2>4
    <3> QED
      BY <1>1, <2>1, <2>2, <2>3, <3>1, <3>2 DEF AnswerIsTold, ScsiDone, Done
  <2>5. CASE ~faked
    <3>1. cmd'.senseActual = cmd.senseActual /\ sense' = sense
      BY <1>5, <1>6, <2>5
    <3>2. error # "ok" /\ req.auto /\ req.senseLength >= SenseSize => cmd.senseActual > 0
      BY <2>2, <2>5 DEF Fakes
    <3> HIDE DEF faked
    <3> QED
      BY <1>1, <1>4, <2>1, <2>2, <2>3, <3>1, <3>2 DEF AnswerIsTold, ScsiDone, Done, Tellable
  <2> QED
    BY <2>4, <2>5
<1> HIDE DEF faked
<1>8. Types'
  <2>1. cmd'.actual \in Nat /\ cmd'.senseActual \in Nat /\ cmd'.status \in {0, 2}
        /\ {cmd'.data, cmd'.cdb} \subseteq {"own", "copy"}
    BY <1>6 DEF Fields
  <2>2. pc' \in Pcs
    BY <1>1 DEF Pcs
  <2>3. TypeOK'
    BY <1>1, <1>6, <2>1, <2>2, Zenon DEF IInv, Types, TypeOK
  <2> QED
    BY <1>1, <1>6, <2>3 DEF IInv, Types
<1>9. ServedInv' /\ OwnerInv' /\ StackInv'
  BY <1>1, <1>3, <1>6 DEF IInv, ServedInv, PcOp, Requests, CallPcs, OwnerInv, Buffers, StackInv
<1>10. ToldInv'
  BY <1>1, <1>4, <1>6, <1>7 DEF ToldInv, Reached, CallPcs
<1>11. DataInv'
  <2>1. error = "ok" =>
          /\ atapi /\ req.op = "modesense6" => ModeTrue
          /\ ~atapi /\ req.op = "cap10" => cmd.value = CapacityLba
    BY <1>1 DEF IInv, DataInv
  <2>2. ModeTrue => ModeTrue'
    BY <1>1, <1>6 DEF ModeTrue
  <2>3. CapacityLba' = CapacityLba
    BY <1>1 DEF CapacityLba
  <2> QED
    BY <1>1, <1>6, <2>1, <2>2, <2>3 DEF DataInv
<1>12. SentInv'
  <2>1. \A c : SentOfAta(c) => SentOfAta(c)'
    BY <1>1 DEF SentOfAta
  <2> QED
    BY <1>1, <2>1 DEF IInv, SentInv, SentOfAta
<1> QED
  BY <1>8, <1>9, <1>10, <1>11, <1>12 DEF IInv

LEMMA ReturnIInv == ASSUME IInv, Return PROVE IInv'
BY DirectReturnedIInv, UnalignedReturnedIInv, ReadWrite6ReturnedIInv, ModeSense6ReturnedIInv,
   ModeSelect6ReturnedIInv, TocReturnedIInv, PlayReturnedIInv, ProtStatusReturnedIInv,
   AnswerIInv DEF Return

-----------------------------------------------------------------------------
(* The client: it asks, and takes its request back.                           *)

LEMMA AskIInv == ASSUME IInv, NEW r \in Requests, Ask(r) PROVE IInv'
<1>1. /\ pc = "idle" /\ req' = r /\ pc' = "serve"
      /\ UNCHANGED <<atapi, cmd, error, sense, frames, back, inUse, mem, tries, toc, drive, sent>>
  BY DEF Ask
<1>2. r \in Request
  BY ConstantTypes DEF Requests
<1>3. Types'
  <2>1. TypeOK'
    BY <1>1, <1>2, Zenon DEF IInv, Types, TypeOK, Pcs
  <2> QED
    BY <1>1, <2>1 DEF IInv, Types
<1>4. ServedInv'
  BY <1>1 DEF IInv, ServedInv, PcOp, Requests, CallPcs
<1>5. OwnerInv' /\ StackInv'
  BY <1>1 DEF IInv, OwnerInv, Buffers, StackInv, CallPcs, ClientPcs
<1>6. ToldInv'
  <2>1. cmd.actual = 0 /\ cmd.senseActual = 0
    BY <1>1 DEF IInv, ToldInv
  <2>2. 0 <= EvenUp(r.length)
    BY <1>2, EvenFacts DEF Request
  <2> QED
    BY <1>1, <2>1, <2>2 DEF ToldInv, Reached, CallPcs, AnswerIsTold, ScsiDone, Done
<1>7. DataInv'
  BY <1>1 DEF DataInv
<1>8. SentInv'
  <2>1. sent = <<>>
    BY <1>1 DEF IInv, SentInv
  <2> QED
    BY <1>1, <2>1 DEF SentInv
<1> QED
  BY <1>3, <1>4, <1>5, <1>6, <1>7, <1>8 DEF IInv

LEMMA CollectIInv == ASSUME IInv, Collect PROVE IInv'
<1>1. /\ pc = "replied" /\ pc' = "idle" /\ req' = NoRequest /\ cmd' = FreshCmd
      /\ error' = "ok" /\ sense' = "none" /\ back' = NoCall /\ toc' = NoRequest
      /\ sent' = <<>> /\ UNCHANGED <<atapi, frames, inUse, mem, tries, drive>>
  BY DEF Collect
<1>2. NoCall \in Frame /\ FreshCmd \in Fields /\ FreshCmd.actual = 0
      /\ FreshCmd.senseActual = 0 /\ FreshCmd.status = 0
      /\ FreshCmd.data = "own" /\ FreshCmd.cdb = "own"
  BY DEF NoCall, Call, Frame, CallOps, Args, Ats, Errors, FreshCmd, Fields
<1>3. Types'
  <2>1. pc' \in Pcs /\ error' \in Errors /\ sense' \in Senses
    BY <1>1 DEF Pcs, Errors, Senses
  <2>2. cmd'.actual \in Nat /\ cmd'.senseActual \in Nat /\ cmd'.status \in {0, 2}
        /\ {cmd'.data, cmd'.cdb} \subseteq {"own", "copy"}
    BY <1>1, <1>2
  <2>3. TypeOK'
    BY <1>1, <2>1, <2>2, Zenon DEF IInv, Types, TypeOK
  <2> QED
    BY <1>1, <1>2, <2>3, EmptySeq DEF Types
<1>4. ServedInv'
  BY <1>1 DEF ServedInv, PcOp, CallPcs
<1>5. OwnerInv' /\ StackInv'
  BY <1>1, <1>2 DEF IInv, OwnerInv, Buffers, StackInv, CallPcs, ClientPcs
<1>6. ToldInv'
  BY <1>1, <1>2 DEF ToldInv, CallPcs, AnswerIsTold, ScsiDone, Done
<1>7. DataInv' /\ SentInv'
  BY <1>1, EmptySeq DEF DataInv, SentInv
<1> QED
  BY <1>3, <1>4, <1>5, <1>6, <1>7 DEF IInv

LEMMA StutterIInv == ASSUME IInv, UNCHANGED vars PROVE IInv'
<1>1. UNCHANGED <<atapi, req, pc, cmd, error, sense, frames, back, inUse, mem, tries, toc,
                  drive, sent>>
  BY DEF vars
<1>2. Types' /\ ServedInv' /\ OwnerInv'
  BY <1>1 DEF IInv, Types, TypeOK, ServedInv, PcOp, Requests, OwnerInv, Buffers
<1>3. DataInv' /\ SentInv'
  BY <1>1 DEF IInv, DataInv, ModeTrue, CapacityLba, SentInv, SentOfAta
<1>4. StackInv'
  BY <1>1 DEF IInv, StackInv, Outer, Inner, Tellable, ParamLength
<1>5. ToldInv'
  BY <1>1 DEF IInv, ToldInv, Reached, Tellable, AnswerIsTold, ScsiDone, Done
<1> QED
  BY <1>2, <1>3, <1>4, <1>5 DEF IInv

-----------------------------------------------------------------------------
(* The theorems.                                                              *)

\* The inductive invariant: what each function holds while it waits for its
\* packet, the stack of calls of atapi_packet(), and what has been told.
THEOREM Invariance == Spec => []IInv
<1>1. IInv /\ [Next]_vars => IInv'
  BY ServeIInv, PacketIInv, ReturnIInv, DriveRecoversIInv, CollectIInv, AskIInv, StutterIInv
     DEF Next, Task
<1> QED
  BY <1>1, InitIInv, PTL DEF Spec

\* The fields of every state have their types: the calls of atapi_packet() are
\* never more than two, and atapi_autosense() tries at most three times.
THEOREM TypeCorrect == Spec => []TypeOK
<1>1. IInv => TypeOK
  BY DEF IInv, Types
<1> QED
  BY <1>1, Invariance, PTL

\* Whatever was asked, and whatever the drive did, a request that has been
\* answered has freed its buffers, the unit's two commands, and the client's data
\* and CDB pointers are its own again (atapi.c, scsi.c).
THEOREM GivesAllBackHolds == Spec => []GivesAllBack
<1>1. IInv => GivesAllBack
  <2> SUFFICES ASSUME IInv, pc = "replied"
               PROVE  frames = <<>> /\ inUse = {} /\ mem = {}
                      /\ cmd.data = "own" /\ cmd.cdb = "own"
    BY DEF GivesAllBack, Done
  <2>1. pc \notin CallPcs /\ inUse \subseteq {"unit", "sense"} /\ cmd \in Fields
    BY DEF CallPcs, IInv, Types, TypeOK
  <2>2. frames = <<>>
    BY <2>1 DEF IInv, StackInv
  <2>3. inUse = {} /\ mem = {}
    BY <2>1, <2>2 DEF IInv, OwnerInv, Buffers
  <2> QED
    BY <2>1, <2>2, <2>3 DEF IInv, OwnerInv, Fields
<1> QED
  BY <1>1, Invariance, PTL

\* io_Error, scsi_Status and the sense data tell the same of every SCSI command,
\* and sense data are told when they were asked for, were there room for them, and
\* somebody has them (handle_scsi_command(), atapi_autosense(), fake_scsi_sense()).
THEOREM AnswerIsToldHolds == Spec => []AnswerIsTold
<1>1. IInv => AnswerIsTold
  BY DEF IInv, ToldInv
<1> QED
  BY <1>1, Invariance, PTL

\* Whatever is asked and whatever blocks a drive offers within the limit it was
\* told, the answers of emulations and translations fit the client's buffer, and a
\* drive's own data leave it by less than one block (atapi_packet()).
THEOREM OverrunIsBoundedHolds == Spec => []OverrunIsBounded
<1>1. IInv => OverrunIsBounded
  BY DEF IInv, ToldInv, OverrunIsBounded, Done
<1> QED
  BY <1>1, Invariance, PTL

\* The translated MODE SENSE (6) gives a true length and all the data there is room
\* for, whatever mode data the drive has (atapi_scsi_mode_sense_6()).
THEOREM ModeDataIsTrueHolds == Spec => []ModeDataIsTrue
<1>1. IInv => ModeDataIsTrue
  BY DEF IInv, DataInv, ModeTrue, ModeDataIsTrue, ScsiDone, Done
<1> QED
  BY <1>1, Invariance, PTL

\* What atapi_play_track_index() plays is where the tracks are, for every table of
\* contents whose lead-out is not at the very beginning.
THEOREM PlayIsTrueHolds == Spec => []PlayIsTrue
<1>1. IInv => PlayIsTrue
  BY DEF IInv, SentInv, PlayOf, PlayIsTrue
<1> QED
  BY <1>1, Invariance, PTL

\* The end of a plain transfer fits 64 bits, so the test for the end of the drive
\* is the right one for it.
LEMMA PlainFits ==
  ASSUME BlockSize > 1, NEW high \in Nat, NEW offset \in Nat, NEW length \in Nat,
         high < Word, offset < Word, length < Word
  PROVE  /\ Lba(high, offset) + Count(length) < Word * Word
         /\ Lba(high, offset) * BlockSize <= high * Word + offset
         /\ high * Word + offset < (Lba(high, offset) + 1) * BlockSize
<1>1. PICK b \in Nat : b = BlockSize /\ b > 1
  BY SizesType
<1>2. PICK v \in Nat : v = Word
  BY SizesType
<1>3. PICK lba \in Nat, count \in Nat : lba = Lba(high, offset) /\ count = Count(length)
  BY LbaType
<1>4. PICK byte \in Nat : byte = high * v + offset
  <2>1. high * v + offset \in Nat
    BY SMT
  <2> QED
    BY <2>1
<1>5. lba = byte \div b /\ count = length \div b
  BY <1>1, <1>2, <1>3, <1>4, LbaIsTrue DEF Count
<1>6. lba * b <= byte /\ byte < (lba + 1) * b
  <2>1. PICK r \in Nat : r = byte % b /\ r < b /\ byte = b * lba + r
    BY <1>1, <1>5, SMT
  <2>2. (lba + 1) * b = b * lba + b /\ lba * b = b * lba /\ b * lba \in Nat
    BY <1>1, SMT
  <2> QED
    BY <1>1, <2>1, <2>2
<1>7. count * b <= length
  <2>1. PICK r \in Nat : r = length % b /\ r < b /\ length = b * count + r
    BY <1>1, <1>5, SMT
  <2>2. count * b = b * count /\ b * count \in Nat
    BY <1>1, SMT
  <2> QED
    BY <1>1, <2>1, <2>2
<1>8. byte < v * v /\ v * v \in Nat /\ v <= v * v
  <2>1. high + 1 <= v /\ offset < v /\ v >= 1
    BY <1>2
  <2>2. (high + 1) * v <= v * v
    BY <2>1, SMT
  <2>3. (high + 1) * v = high * v + v /\ high * v \in Nat
    BY SMT
  <2>4. v <= v * v /\ v * v \in Nat
    BY <2>1, SMT
  <2> QED
    BY <1>4, <2>1, <2>2, <2>3, <2>4
<1>9. 2 * lba <= byte /\ 2 * count <= length
  <2>1. 2 * lba <= lba * b /\ 2 * count <= count * b
    BY <1>1, SMT
  <2>2. lba * b \in Nat /\ count * b \in Nat
    BY <1>1, SMT
  <2> QED
    BY <1>6, <1>7, <2>1, <2>2
<1>10. lba + count < v * v
  <2>1. length < v
    BY <1>2
  <2> QED
    BY <1>8, <1>9, <2>1
<1> QED
  BY <1>1, <1>2, <1>3, <1>4, <1>6, <1>10

\* What was not past the end in 64 bits is on the drive, or its end needs more.
LEMMA NotPastEnd ==
  ASSUME NEW lba \in Nat, NEW count \in Nat, NEW sectors \in Nat,
         ~PastEnd(lba, count, sectors)
  PROVE  lba + count <= sectors \/ lba + count >= Word * Word
<1>1. PICK v \in Nat : v = Word * Word
  BY SizesType, SMT
<1>2. CASE lba + count < v
  <2>1. ~(lba + count > sectors)
    BY <1>1, <1>2, PastEndIsTrue
  <2> QED
    BY <2>1
<1>3. CASE ~(lba + count < v)
  BY <1>1, <1>3
<1> QED
  BY <1>2, <1>3

\* Two numbers of 32 bits have a sum of 64 bits.
LEMMA SumOfWords ==
  ASSUME BlockSize > 1, NEW lba \in Nat, NEW count \in Nat, lba < Word, count < Word
  PROVE  ~(lba + count >= Word * Word)
<1>1. PICK b \in Nat, w \in Nat \ {0} : b = BlockSize /\ b > 1 /\ w = BlocksPerWord
  BY SizesType
<1>2. PICK v \in Nat : v = b * w /\ v = Word
  BY <1>1, SizesType DEF Word
<1>3. v >= 2
  BY <1>1, <1>2, SMT
<1>4. v * v >= 2 * v /\ v * v \in Nat
  BY <1>3, SMT
<1> QED
  BY <1>2, <1>4

\* The last block of a cylinder is less than a cylinder away.
LEMMA CylinderEndIsNear ==
  ASSUME NEW n \in Nat, NEW p \in Nat \ {0}
  PROVE  \E c \in Nat : /\ c = CylinderEnd(n, p) /\ c >= n /\ c < n + p
                       /\ (c + 1) % p = 0
<1>1. CylinderEnd(n, p) >= n /\ (CylinderEnd(n, p) + 1) % p = 0
  BY CylinderEndIsLast
<1>2. PICK q \in Nat, r \in Nat : q = n \div p /\ r < p /\ n = p * q + r
  <2> DEFINE q == n \div p
  <2> DEFINE r == n % p
  <2>1. q \in Nat /\ r \in Nat /\ r < p /\ n = p * q + r
    BY SMT
  <2> QED
    BY <2>1
<1>3. (q + 1) * p = p * q + p /\ p * q \in Nat
  BY SMT
<1>4. CylinderEnd(n, p) = (q + 1) * p - 1
  BY <1>2 DEF CylinderEnd
<1>5. PICK c : c = CylinderEnd(n, p)
  OBVIOUS
<1>6. c \in Nat /\ c < n + p
  BY <1>2, <1>3, <1>4, <1>5
<1> QED
  BY <1>1, <1>5, <1>6

LEMMA SentInvAddress ==
  ASSUME BlockSize > 1, IInv, ~atapi, NEW i \in DOMAIN sent
  PROVE  LET lba  == sent[i].arg[1]
             end  == lba + sent[i].arg[2]
             byte == req.lba * Word + req.count
         IN
         /\ sent[i].op # "passthrough" =>
              end <= req.sectors \/ (sent[i].op = "rw16" /\ end >= Word * Word)
         /\ sent[i].op = "io" =>
              lba * BlockSize <= byte /\ byte < (lba + 1) * BlockSize
<1>1. req \in AtaRequests /\ req \in Request
  <2>1. pc # "idle"
    BY EmptySeq DEF IInv, SentInv
  <2> QED
    BY <2>1, ConstantTypes DEF IInv, ServedInv, Requests
<1>2. SentOfAta(sent[i])
  BY DEF IInv, SentInv
<1>3. /\ req.lba \in Nat /\ req.count \in Nat /\ req.length \in Nat /\ req.sectors \in Nat
  BY <1>1, ConstantTypes DEF Request
<1>4. CASE sent[i].op = "passthrough"
  BY <1>4
<1>5. CASE sent[i].op = "io"
  <2>1. /\ req.op = "io" /\ sent[i].arg = <<Lba(req.lba, req.count), Count(req.length)>>
        /\ ~PastEnd(Lba(req.lba, req.count), Count(req.length), req.sectors)
    BY <1>2, <1>5 DEF SentOfAta, ReadWrite
  <2>2. req.lba < Word /\ req.count < Word /\ req.length < Word
    BY <1>1, <2>1, RequestsAssumption
  <2>3. /\ Lba(req.lba, req.count) \in Nat /\ Count(req.length) \in Nat
        /\ Lba(req.lba, req.count) + Count(req.length) < Word * Word
        /\ Lba(req.lba, req.count) * BlockSize <= req.lba * Word + req.count
        /\ req.lba * Word + req.count < (Lba(req.lba, req.count) + 1) * BlockSize
    BY <1>3, <2>2, LbaType, PlainFits
  <2>4. Lba(req.lba, req.count) + Count(req.length) <= req.sectors
    <3>1. ~(Lba(req.lba, req.count) + Count(req.length) > req.sectors)
      BY <1>3, <2>1, <2>3, PastEndIsTrue
    <3> QED
      BY <1>3, <2>3, <3>1
  <2> QED
    BY <2>1, <2>3, <2>4
<1>6. CASE sent[i].op \in ReadWrite
  <2>1. /\ req.op = sent[i].op /\ sent[i].arg = <<req.lba, req.count>>
        /\ ~PastEnd(req.lba, req.count, req.sectors)
    BY <1>2, <1>6 DEF SentOfAta, ReadWrite
  <2>2. req.lba + req.count <= req.sectors \/ req.lba + req.count >= Word * Word
    BY <1>3, <2>1, NotPastEnd
  <2>3. req.op \in {"rw6", "rw10"} => ~(req.lba + req.count >= Word * Word)
    <3>1. req.op \in {"rw6", "rw10"} => req.lba < Word /\ req.count < Word
      BY <1>1, RequestsAssumption
    <3> QED
      BY <1>3, <3>1, SumOfWords
  <2>4. \/ req.lba + req.count <= req.sectors
        \/ sent[i].op = "rw16" /\ req.lba + req.count >= Word * Word
    BY <1>6, <2>1, <2>2, <2>3 DEF ReadWrite
  <2>5. sent[i].op # "io"
    BY <1>6 DEF ReadWrite
  <2> QED
    BY <2>1, <2>4, <2>5
<1> QED
  BY <1>2, <1>4, <1>5, <1>6 DEF SentOfAta

\* A transfer of an ATA unit is for the blocks its 64 bit byte address names and
\* never past the end of the drive, unless its end has more than 64 bits; and READ
\* CAPACITY (10) tells the last block, or that of the cylinder, or all ones for a
\* drive too large, for every size of a drive, a cylinder and a block of more than
\* one byte (process_ioreq(), do_scsi_transfer(), scsi.c).
THEOREM AddressIsTrueHolds ==
  ASSUME BlockSize > 1
  PROVE  Spec => []AddressIsTrue
<1>1. IInv => AddressIsTrue
  <2> SUFFICES ASSUME IInv, ~atapi PROVE AddressIsTrue
    BY DEF AddressIsTrue
  <2>1. ASSUME ScsiDone, req.op = "cap10", error = "ok"
        PROVE  IF req.sectors >= Word - 1
                 THEN cmd.value = Word - 1
                 ELSE IF ~req.pmi
                   THEN cmd.value + 1 = req.sectors
                   ELSE CylinderEnd(req.lba, PerCylinder) < Word =>
                          /\ req.lba <= cmd.value /\ cmd.value < req.lba + PerCylinder
                          /\ (cmd.value + 1) % PerCylinder = 0
    <3>a. cmd.value = CapacityLba /\ req \in Request
      BY <2>1, ConstantTypes DEF IInv, DataInv, ScsiDone, Done, ServedInv, Requests
    <3>1. cmd.value = CapacityLba /\ req \in Request /\ req.sectors \in Nat
      BY <3>a DEF Request
    <3>2. CASE req.sectors >= Word - 1
      BY <3>1, <3>2 DEF CapacityLba
    <3>3. CASE ~(req.sectors >= Word - 1) /\ ~req.pmi
      <4>1. cmd.value = req.sectors - 1
        BY <3>1, <3>3, Zenon DEF CapacityLba
      <4>2. cmd.value + 1 = req.sectors
        BY <3>1, <4>1
      <4> QED
        BY <3>3, <4>2, Zenon
    <3>4. CASE ~(req.sectors >= Word - 1) /\ req.pmi
      <4>1. PICK n \in Nat, p \in Nat \ {0} : n = req.lba /\ p = PerCylinder
        BY <3>1, ConstantTypes DEF Request
      <4>2. PICK c \in Nat : c = CylinderEnd(n, p) /\ c >= n /\ c < n + p /\ (c + 1) % p = 0
        BY CylinderEndIsNear
      <4>3. cmd.value = c % Word
        BY <3>1, <3>4, <4>1, <4>2, Zenon DEF CapacityLba
      <4>4. c < Word => c % Word = c
        BY <4>2, WordType, SMT
      <4>5. CylinderEnd(req.lba, PerCylinder) < Word =>
              /\ req.lba <= cmd.value /\ cmd.value < req.lba + PerCylinder
              /\ (cmd.value + 1) % PerCylinder = 0
        BY <4>1, <4>2, <4>3, <4>4
      <4> QED
        BY <3>4, <4>5, Zenon
    <3> QED
      BY <3>2, <3>3, <3>4
  <2> QED
    BY <2>1, SentInvAddress, Zenon DEF AddressIsTrue
<1> QED
  BY <1>1, Invariance, PTL
=============================================================================
