------------------------------ MODULE ForeignPoll ------------------------------
(***************************************************************************)
(* An IDE channel as AtaChannel describes it, with the IO tasks of other    *)
(* channels that have removable drives of their own: each runs              *)
(* diskchange_check() (iotask.c) over the units of all channels, so it too  *)
(* selects and commands this channel's ATAPI drive (atapi_packet(),         *)
(* atapi.c), and nothing keeps it off while the owner is at work.           *)
(***************************************************************************)
EXTENDS AtaChannel

CONSTANT Pollers  \* IO tasks of other channels that poll this channel's drive

VARIABLE fpc      \* fpc[p]: where poller p is

sharedVars == <<vars, fpc>>

InitShared == Init /\ fpc = [p \in Pollers |-> "wait"]

\* diskchange_check() tests the ATAPI units that are present.
Polled == {d \in Drives : mode[d] = "atapi" /\ unit[d].state = "up"}

\* ata_select() with wait, called by the poller's atapi_packet().
PollSelect(p, d) ==
  /\ fpc[p] = "wait"
  /\ IF shadow = DrvSel(d)
     THEN fpc' = [fpc EXCEPT ![p] = "command"] /\ UNCHANGED devHead
     ELSE fpc' = [fpc EXCEPT ![p] = "settle"] /\ devHead' = DrvSel(d)
  /\ UNCHANGED <<mode, unit, shadow, regs, drv, ownerVars>>

PollSettle(p, d) ==
  /\ fpc[p] = "settle"
  /\ shadow' = DrvSel(d)
  /\ fpc' = [fpc EXCEPT ![p] = "command"]
  /\ UNCHANGED <<mode, unit, devHead, regs, drv, ownerVars>>

\* The packet, if the drive the poller believes selected is free in time.
PollCommand(p, d) ==
  /\ fpc[p] = "command"
  /\ IF Selected.st = "idle"
     THEN /\ devHead' = RawSel(d)
          /\ drv' = IF drv[d].st = "busy" THEN drv ELSE
               [drv EXCEPT ![d] = [Idle(@, FALSE) EXCEPT !.st = "busy", !.cmd = "packet"]]
     ELSE UNCHANGED <<devHead, drv>>
  /\ fpc' = [fpc EXCEPT ![p] = "wait"]
  /\ UNCHANGED <<mode, unit, shadow, regs, ownerVars>>

Poll(p) ==
  \E d \in Polled : PollSelect(p, d) \/ PollSettle(p, d) \/ PollCommand(p, d)

NextShared ==
  \/ Next /\ UNCHANGED fpc
  \/ \E p \in Pollers : Poll(p)

SpecShared == InitShared /\ [][NextShared]_sharedVars /\ WF_sharedVars(OwnerStep /\ UNCHANGED fpc)
=============================================================================
