---------------------------- MODULE BlockTransfer ----------------------------
(***************************************************************************)
(* What a channel of the ATA driver promises the IO task: ata_read() and    *)
(* ata_write() (ata.c) move the blocks that were asked for, of the drive    *)
(* that was asked, in order, each once; they report success only when all   *)
(* of them have been moved, and they always return.                         *)
(***************************************************************************)
EXTENDS Integers, Sequences

CONSTANTS
  Jobs,           \* [op, drive, lba, count]: what the IO task may ask for
  NoJob           \* nothing is being done

VARIABLES
  job,            \* the job being done
  moved,          \* the blocks moved for it so far: <<op, drive, lba>>
  answer          \* "none" while it is done, then "ok" or "failed"

vars == <<job, moved, answer>>

Answers == {"none", "ok", "failed"}

Init ==
  /\ job = NoJob
  /\ moved = <<>>
  /\ answer = "failed"

Ask(j) ==
  /\ answer # "none"
  /\ job' = j
  /\ moved' = <<>>
  /\ answer' = "none"

NextBlock == <<job.op, job.drive, job.lba + Len(moved)>>

Move ==
  /\ answer = "none"
  /\ Len(moved) < job.count
  /\ moved' = Append(moved, NextBlock)
  /\ UNCHANGED <<job, answer>>

Return ==
  /\ answer = "none"
  /\ answer' \in {"ok", "failed"}
  /\ answer' = "ok" => Len(moved) = job.count
  /\ job' = NoJob
  /\ moved' = <<>>

Next ==
  \/ \E j \in Jobs : Ask(j)
  \/ Move
  \/ Return

\* ata_read() and ata_write() have a time limit at every wait: they return.
Spec == Init /\ [][Next]_vars /\ WF_vars(Move \/ Return)
=============================================================================
