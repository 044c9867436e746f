------------------------------ MODULE MCIoTask ------------------------------
(***************************************************************************)
(* Instances of IoTask for TLC.                                            *)
(***************************************************************************)
EXTENDS IoTask, FiniteSets

CONSTANTS r1, r2, r3

\* Two clients that may send everything.
AllSend == [r \in Reqs |-> Commands]

\* A client that pauses and resumes (lideflash), a client of the drive and its
\* change interrupts, and one whose request names no unit of the device.
ThreeClients ==
  [r \in Reqs |-> CASE r = r1 -> {"CMD_PAUSE", "CMD_RESUME"}
                    [] r = r2 -> {"TO_TASK", "TD_ADDCHANGEINT", "TD_REMCHANGEINT"}
                    [] r = r3 -> {"IMMEDIATE"}]

\* One client (lideflash) pauses and resumes, the others use the drive.
OnePauser ==
  [r \in Reqs |-> IF r = r1 THEN {"CMD_PAUSE", "CMD_RESUME"} ELSE {"TO_TASK"}]

Interchangeable == Permutations(Reqs)
=============================================================================
