---------------------------- MODULE MCAtaChannel ----------------------------
(* A CHS or LBA48 drive with an LBA or ATAPI drive.  A command moves 2 sectors,  *)
(* LBA registers hold 4 addresses, CHS has 2 heads of 2 sectors: the transfer  *)
(* of 3 sectors from 2 takes two commands and crosses all these bounds.        *)
EXTENDS AtaChannel

D == {0, 1}
AllModes == [d \in D |-> IF d = 0 THEN {"chs", "lba48"} ELSE {"lba", "atapi"}]
MCJobs == [op : {"read", "write"}, drive : D, lba : {2}, count : {3}]
=============================================================================
