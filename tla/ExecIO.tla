------------------------------- MODULE ExecIO -------------------------------
(***************************************************************************)
(* The contract between an Exec device and the owners of its requests, as  *)
(* lide.device promises it to every caller of BeginIO(): a request is the   *)
(* client's or the driver's, a request the driver accepted is answered once *)
(* (by returning with IOF_QUICK still set, or by one ReplyMsg()), and only  *)
(* TD_ADDCHANGEINT is kept, until the client recalls it.                    *)
(*                                                                         *)
(* The contract says nothing of queues, signals or tasks; IoTask implements *)
(* it.                                                                     *)
(***************************************************************************)
CONSTANT Reqs            \* the IOStdReqs in use

VARIABLES
  phase,   \* who has the request: "client", "driver", "held" or "port"
  quick    \* IOF_QUICK: the driver may answer by merely returning

vars == <<phase, quick>>

Phases == {"client", "driver", "held", "port"}

TypeOK ==
  /\ phase \in [Reqs -> Phases]
  /\ quick \in [Reqs -> BOOLEAN]

Init ==
  /\ phase = [r \in Reqs |-> "client"]
  /\ quick = [r \in Reqs |-> FALSE]

Move(r, from, to) == phase[r] = from /\ phase' = [phase EXCEPT ![r] = to]

\* SendIO(), DoIO() or BeginIO(): the request becomes the driver's.
Send(r) ==
  /\ Move(r, "client", "driver")
  /\ \E q \in BOOLEAN : quick' = [quick EXCEPT ![r] = q]

\* The driver will answer later: the caller must not take the return from
\* BeginIO() for the answer.
Defer(r) ==
  /\ phase[r] = "driver"
  /\ quick' = [quick EXCEPT ![r] = FALSE]
  /\ UNCHANGED phase

\* TD_ADDCHANGEINT: kept without an answer.
Hold(r) ==
  /\ Move(r, "driver", "held")
  /\ quick' = [quick EXCEPT ![r] = FALSE]

\* TD_REMCHANGEINT is sent with the kept request itself.
Recall(r) ==
  /\ Move(r, "held", "driver")
  /\ \E q \in BOOLEAN : quick' = [quick EXCEPT ![r] = q]

\* Answered in the call: no message is sent.
Return(r) ==
  /\ quick[r]
  /\ Move(r, "driver", "client")
  /\ quick' = [quick EXCEPT ![r] = FALSE]

\* Answered by one message on the client's reply port.
Reply(r) ==
  /\ ~quick[r]
  /\ Move(r, "driver", "port")
  /\ UNCHANGED quick

\* WaitIO(): the client takes its request back.
Collect(r) ==
  /\ Move(r, "port", "client")
  /\ UNCHANGED quick

Next ==
  \E r \in Reqs :
    \/ Send(r) \/ Defer(r) \/ Hold(r) \/ Recall(r)
    \/ Return(r) \/ Reply(r) \/ Collect(r)

Spec == Init /\ [][Next]_vars
=============================================================================
