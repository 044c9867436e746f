---------------------------- MODULE MCForeignPoll ----------------------------
(* An LBA48 drive and an ATAPI drive on one channel; one other task polls.    *)
EXTENDS ForeignPoll

D == {0, 1}
AtapiSecond == [d \in D |-> IF d = 0 THEN {"lba48"} ELSE {"atapi"}]
MCJobs == [op : {"read", "write"}, drive : D, lba : {2}, count : {3}]
=============================================================================
