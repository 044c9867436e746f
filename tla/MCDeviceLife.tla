---------------------------- MODULE MCDeviceLife ----------------------------
(* Boards of every kind but RIPPLE, whose channels DetectChannels() knows as  *)
(* well; the drives of a channel are ATA, ATAPI or missing.                   *)
EXTENDS DeviceLife

\* Up to three tasks: one that polls, one that ends and one that starts.
AllBoards == <<"configured", "atbus", "other">>

\* A channel may have an ATAPI drive alone, or an ATA drive as well; the first
\* drive of the third board is of either kind.
Mixed ==
  [u \in Units |->
     CASE u[3] = 1 -> IF u[2] = 0 THEN {"ata"} ELSE {}
       [] u = <<3, 0, 0>> -> {"ata", "atapi"}
       [] OTHER -> {"atapi"}]

Everything == Allocations
TimerDevice == {"topen"}
=============================================================================
