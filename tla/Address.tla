------------------------------ MODULE Address ------------------------------
(***************************************************************************)
(* How a request names blocks: the 64 bit byte address of a transfer, kept  *)
(* in two 32 bit fields and shifted apart (process_ioreq(), iotask.c), the  *)
(* end of a drive, and the end of a cylinder (READ CAPACITY with the partial *)
(* medium indicator, scsi.c).                                               *)
(***************************************************************************)
EXTENDS Integers

CONSTANTS
  BlockSize,      \* 1 << unit->blockShift
  BlocksPerWord   \* 1 << (32 - unit->blockShift)

ASSUME SizesAssumption == {BlockSize, BlocksPerWord} \subseteq Nat \ {0}

\* A register or field of 32 bits counts up to here.
Word == BlockSize * BlocksPerWord

\* Mutant: the upper part of the upper half is lost.
LbaTruncated(high, offset) == ((high * BlocksPerWord) % Word) + (offset \div BlockSize)

\* lba of process_ioreq(): io_Actual holds the upper half of the address,
\* io_Offset the lower one.  Shifting left by 32 - blockShift is a product
\* cut to a word; the parts joined by | have no bit in common.
Lba(high, offset) ==
  (high \div BlockSize) * Word + ((high * BlocksPerWord) % Word)
    + (offset \div BlockSize)

Count(length) == length \div BlockSize

\* The sum is made in 64 bits.
PastEnd(lba, count, sectors) == (lba + count) % (Word * Word) > sectors

\* The last block of the cylinder of lba.
CylinderEnd(lba, perCylinder) == ((lba \div perCylinder) + 1) * perCylinder - 1
=============================================================================
