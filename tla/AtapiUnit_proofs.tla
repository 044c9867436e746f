-------------------------- MODULE AtapiUnit_proofs --------------------------
(***************************************************************************)
(* Theorems about AtapiUnit: its types, the geometry of its unit, and the    *)
(* disc a transfer touches, for any number of discs and faults.             *)
(*                                                                         *)
(* The inductive invariant says what each step of a job may rely on: READ    *)
(* CAPACITY is asked of an absent unit only, a transfer is under way on a    *)
(* present one only and with the count of that presence, and data has moved  *)
(* only at the end of a transfer.                                           *)
(***************************************************************************)
EXTENDS AtapiUnit, TLAPS

\* The disc in the drive is the one last put in.
LastDiscIn == disc \in {0, inserted}

\* What the steps of a job rely on.
JobState ==
  /\ pc = "capacity" => ~present
  /\ pc \in {"xfer", "xferSense"} => present /\ sent \in {0, changeCount}
  /\ moved # 0 => \/ pc = "xferSense" /\ sense = "recovered"
                  \/ pc = "reply"

\* The disc whose capacity was read is the one its count stands for.
CountOfPresence == present => counted[changeCount] = geom

IInv ==
  /\ TypeOK
  /\ changeCount > 0
  /\ LastDiscIn
  /\ PresentGeometry
  /\ JobState
  /\ CountOfPresence
  /\ TransferOnKnownDisc

LEMMA InitIInv == Init => IInv
<1> SUFFICES ASSUME Init PROVE IInv
  OBVIOUS
<1>1. 1 \in Nat /\ <<0>> \in Seq(Discs) /\ Len(<<0>>) = 1
  BY ConstantsAssumption DEF Init, Discs
<1>2. 0 \in Discs /\ disc \in Discs /\ faults \in 0 .. MaxFaults
  BY ConstantsAssumption DEF Init, Discs
<1>3. present \in BOOLEAN /\ prev \in BOOLEAN /\ status2 \in BOOLEAN /\ unseen \in BOOLEAN
  BY DEF Init
<1>4. TypeOK
  BY <1>1, <1>2, <1>3 DEF Init, TypeOK, Answers, Senses, Jobs, Pcs
<1> QED
  BY <1>1, <1>4 DEF Init, IInv, LastDiscIn, PresentGeometry, JobState, CountOfPresence, TransferOnKnownDisc

\* The count of changes goes up by one and the new count stands for no disc yet.
LEMMA CountChangeFacts ==
  ASSUME TypeOK, CountChange(0)
  PROVE  /\ counted' \in Seq(Discs)
         /\ changeCount' = Len(counted')
         /\ changeCount' = changeCount + 1 /\ changeCount' > 0
         /\ \A c \in 1 .. changeCount : counted'[c] = counted[c]
  BY ConstantsAssumption DEF CountChange, TypeOK, Discs

LEMMA Invariance == IInv /\ [Next]_vars => IInv'
<1> SUFFICES ASSUME IInv, [Next]_vars PROVE IInv'
  OBVIOUS
<1> USE ConstantsAssumption
<1> USE DEF IInv
<1>0. CASE UNCHANGED vars
  BY <1>0 DEF vars, driveVars, unitVars, taskVars, TypeOK, LastDiscIn, PresentGeometry,
     JobState, CountOfPresence, TransferOnKnownDisc
<1>1. CASE Insert
  BY <1>1 DEF Insert, MayInsert, PutIn, unitVars, taskVars, TypeOK, Discs, LastDiscIn,
     PresentGeometry, JobState, CountOfPresence, TransferOnKnownDisc
<1>2. CASE Remove
  BY <1>2 DEF Remove, unitVars, taskVars, TypeOK, Discs, LastDiscIn,
     PresentGeometry, JobState, CountOfPresence, TransferOnKnownDisc
<1>14. CASE SpinUp
  BY <1>14 DEF SpinUp, unitVars, taskVars, TypeOK, Discs, LastDiscIn,
     PresentGeometry, JobState, CountOfPresence, TransferOnKnownDisc
<1>3. CASE TestUnitReady
  BY <1>3 DEF TestUnitReady, Packet, UseFault, Honest, unitVars, TypeOK, Discs, Senses, Answers, Pcs,
     LastDiscIn, PresentGeometry, JobState, CountOfPresence, TransferOnKnownDisc
<1>4. CASE TurSense
  <2>1. TypeOK'
    <3>1. ret' \in Answers
      BY <1>4 DEF TurSense, Verdict, Answers
    <3>2. pc' \in Pcs /\ try' \in 1 .. 9
      BY <1>4 DEF TurSense, TestAgain, TypeOK, Pcs
    <3>3. attention' \in {"none", "mediumChanged", "reset"} /\ faults' \in 0 .. MaxFaults
      BY <1>4 DEF TurSense, UseFault, DevReset, TypeOK
    <3>4. sense' \in Senses
      BY <1>4 DEF TurSense, TypeOK, Senses
    <3> QED
      BY <1>4, <3>1, <3>2, <3>3, <3>4 DEF TurSense, unitVars, TypeOK
  <2> QED
    BY <1>4, <2>1 DEF TurSense, TestAgain, unitVars, LastDiscIn, PresentGeometry, JobState,
       CountOfPresence, TransferOnKnownDisc
<1>5. CASE UpdatePresence
  <2>1. CASE ret = "ok" /\ ~present
    <3>1. CountChange(0) /\ pc' = "capacity" /\ try' = 1 /\ geom' = 0
          /\ UNCHANGED <<present, prev, unseen, driveVars, job, ret, status2, moved, sent>>
      BY <1>5, <2>1 DEF UpdatePresence
    <3> QED
      BY <1>5, <2>1, <3>1, CountChangeFacts DEF UpdatePresence, driveVars, TypeOK, Discs, Pcs, LastDiscIn,
         PresentGeometry, JobState, CountOfPresence, TransferOnKnownDisc
  <2>2. CASE ret = "TDERR_DiskChanged" /\ present
    <3>1. CountChange(0) /\ present' = FALSE /\ geom' = 0 /\ pc' = "verdict"
          /\ UNCHANGED <<prev, unseen, try, driveVars, job, ret, status2, moved, sent>>
      BY <1>5, <2>2 DEF UpdatePresence, GoAbsent
    <3>0. present' \in BOOLEAN
      BY <3>1, Zenon
    <3>2. TypeOK' /\ changeCount' > 0
      BY <3>0, <3>1, CountChangeFacts DEF driveVars, TypeOK, Discs, Pcs
    <3>3. pc = "presence" /\ moved = 0
      BY <1>5 DEF UpdatePresence, JobState
    <3> QED
      BY <3>1, <3>2, <3>3 DEF driveVars, LastDiscIn, PresentGeometry, JobState, CountOfPresence,
         TransferOnKnownDisc
  <2>3. CASE ~(ret = "ok" /\ ~present) /\ ~(ret = "TDERR_DiskChanged" /\ present)
    <3>1. pc' = "verdict" /\ UNCHANGED <<try, unitVars, driveVars, job, ret, status2, moved, sent>>
      BY <1>5, <2>3 DEF UpdatePresence, GoAbsent
    <3> QED
      BY <1>5, <3>1 DEF UpdatePresence, driveVars, unitVars, TypeOK, Discs, Pcs, LastDiscIn,
         PresentGeometry, JobState, CountOfPresence, TransferOnKnownDisc
  <2> QED
    BY <2>1, <2>2, <2>3
<1>6. CASE GetCapacity
  <2> PICK a \in Senses \cup {"good", "timeout"} :
        /\ Packet(a, {"timeout", "other"})
        /\ \/ /\ a = "good"
              /\ geom' = disc /\ present' = TRUE /\ unseen' = FALSE
              /\ counted' = [counted EXCEPT ![changeCount] = disc]
              /\ pc' = "verdict" /\ UNCHANGED try
           \/ /\ a # "good" /\ try < 3
              /\ try' = try + 1
              /\ UNCHANGED <<pc, present, geom, counted, unseen>>
           \/ /\ a # "good" /\ try = 3
              /\ pc' = "verdict"
              /\ UNCHANGED <<try, present, geom, counted, unseen>>
    BY <1>6 DEF GetCapacity
  <2>1. CASE a = "good"
    <3>1. disc # 0 /\ disc \in Discs
      BY <2>1 DEF Packet, Honest, TypeOK, Discs
    <3>2. changeCount \in 1 .. Len(counted)
      BY DEF TypeOK
    <3>3. /\ counted' \in Seq(Discs) /\ Len(counted') = Len(counted)
          /\ counted'[changeCount] = disc
      BY <2>1, <3>1, <3>2 DEF TypeOK
    <3> QED
      BY <1>6, <2>1, <3>1, <3>2, <3>3 DEF GetCapacity, Packet, UseFault, TypeOK, Discs, Senses,
         Pcs, LastDiscIn, PresentGeometry, JobState, CountOfPresence, TransferOnKnownDisc
  <2>2. CASE a # "good"
    <3>1. /\ UNCHANGED <<disc, inserted, spin, prev, changeCount, job, ret, status2, moved, sent>>
          /\ UNCHANGED <<present, geom, counted, unseen>>
          /\ pc' \in {pc, "verdict"} /\ try' \in 1 .. 9
      BY <1>6, <2>2 DEF GetCapacity, TypeOK
    <3>2. /\ attention' \in {"none", "mediumChanged", "reset"}
          /\ faults' \in 0 .. MaxFaults /\ sense' \in Senses
      BY <2>2 DEF Packet, UseFault, TypeOK, Senses
    <3>3. moved = 0
      BY <1>6 DEF GetCapacity, JobState
    <3> QED
      BY <1>6, <3>1, <3>2, <3>3 DEF TypeOK, Pcs, LastDiscIn, PresentGeometry, JobState,
         CountOfPresence, TransferOnKnownDisc
  <2> QED
    BY <2>1, <2>2
<1>7. CASE EndTest
  BY <1>7 DEF EndTest, driveVars, TypeOK, Discs, Jobs, Pcs, LastDiscIn, PresentGeometry, JobState,
     CountOfPresence, TransferOnKnownDisc
<1>8. ASSUME NEW j \in {"poll", "state"}, StartPoll(j) PROVE IInv'
  BY <1>8 DEF StartPoll, StartTest, driveVars, unitVars, TypeOK, Discs, Jobs, Pcs, Answers,
     LastDiscIn, PresentGeometry, JobState, CountOfPresence, TransferOnKnownDisc
<1>9. CASE StartStopUnit
  <2>1. TypeOK'
    BY <1>9 DEF StartStopUnit, StartTest, Packet, UseFault, Honest, unitVars, TypeOK, Discs, Jobs, Pcs,
       Answers, Senses
  <2> QED
    BY <1>9, <2>1 DEF StartStopUnit, StartTest, unitVars, TypeOK, LastDiscIn, PresentGeometry,
       JobState, CountOfPresence, TransferOnKnownDisc
<1>10. ASSUME NEW c \in 0 .. changeCount, StartTransfer(c) PROVE IInv'
  <2>1. TypeOK'
    <3>1. pc' \in Pcs /\ ret' \in Answers
      BY <1>10 DEF StartTransfer, Pcs, Answers
    <3>2. moved' \in Discs /\ sent' \in 0 .. changeCount
      BY <1>10 DEF StartTransfer, Discs
    <3>3. status2' \in BOOLEAN
      BY <1>10, Zenon DEF StartTransfer
    <3> QED
      BY <1>10, <3>1, <3>2, <3>3 DEF StartTransfer, driveVars, unitVars, TypeOK, Jobs
  <2>2. pc' = "xfer" => present /\ c \in {0, changeCount}
    BY <1>10 DEF StartTransfer, Accepts, TypeOK
  <2> QED
    BY <1>10, <2>1, <2>2 DEF StartTransfer, driveVars, unitVars, TypeOK, LastDiscIn,
       PresentGeometry, JobState, CountOfPresence, TransferOnKnownDisc
<1>11. CASE Transfer
  <2> PICK a \in Senses \cup {"good", "timeout"} :
       /\ \/ /\ a # "timeout"
             /\ Packet(a, IF Honest = "good" THEN {"other", "recovered", "protected"}
                                           ELSE {"other"})
          \/ /\ a = "timeout" /\ UseFault /\ sense' = "none"
             /\ IF status2 THEN UNCHANGED attention ELSE DevReset
       /\ moved' = IF a \in {"good", "recovered"} THEN disc ELSE 0
       /\ status2' = (status2 \/ a \in Senses)
       /\ \/ a = "good" /\ pc' = "reply" /\ UNCHANGED try
          \/ a # "good" /\ status2' /\ pc' = "xferSense" /\ UNCHANGED try
          \/ a # "good" /\ ~status2' /\ TryAgain
    BY <1>11 DEF Transfer
  <2>1. status2' \in BOOLEAN
    OBVIOUS
  <2>2. pc' \in {"reply", "xferSense", "xfer"} /\ try' \in 1 .. 9
    BY DEF TryAgain, TypeOK
  <2>3. sense' \in Senses /\ faults' \in 0 .. MaxFaults
        /\ attention' \in {"none", "mediumChanged", "reset"}
    BY DEF Packet, UseFault, DevReset, TypeOK, Senses
  <2>4. TypeOK'
    BY <1>11, <2>1, <2>2, <2>3 DEF Transfer, unitVars, TypeOK, Discs, Pcs
  <2>5. moved' # 0 => /\ moved' = disc
                      /\ \/ a = "good"
                         \/ a = "recovered" /\ sense' = "recovered" /\ pc' = "xferSense"
    <3>1. a = "recovered" => status2'
      BY DEF Senses
    <3>2. a = "recovered" => sense' = "recovered" /\ pc' = "xferSense"
      BY <3>1 DEF Packet, Senses
    <3>3. moved' = IF a \in {"good", "recovered"} THEN disc ELSE 0
      OBVIOUS
    <3> QED
      BY <3>2, <3>3
  <2>6. a = "good" => pc' = "reply"
    OBVIOUS
  <2>7. pc = "xfer" /\ present /\ sent \in {0, changeCount}
    BY <1>11 DEF Transfer, JobState
  <2> QED
    BY <1>11, <2>2, <2>4, <2>5, <2>6, <2>7 DEF Transfer, unitVars, LastDiscIn, PresentGeometry,
       JobState, CountOfPresence, TransferOnKnownDisc
<1>12. CASE TransferSense
  <2>1. pc = "xferSense" /\ present /\ sent \in {0, changeCount}
    BY <1>12 DEF TransferSense, JobState
  <2>2. CASE sense = "noMedium" /\ ~(UNCHANGED unitVars)
    <3>1. /\ CountChange(0) /\ present' = FALSE /\ geom' = 0 /\ UNCHANGED <<prev, unseen>>
          /\ pc' = "reply" /\ ret' = "TDERR_DiskChanged" /\ UNCHANGED try /\ UNCHANGED faults
      BY <1>12, <2>1, <2>2 DEF TransferSense, GoAbsent, EndTransfer
    <3>2. moved = 0
      BY <2>1, <2>2 DEF JobState
    <3>3. sense' = "none"
          /\ UNCHANGED <<disc, inserted, spin, attention, job, status2, moved, sent>>
      BY <1>12 DEF TransferSense
    <3>5. present' \in BOOLEAN
      BY <3>1, Zenon
    <3>4. TypeOK' /\ changeCount' > 0
      BY <3>1, <3>3, <3>5, CountChangeFacts DEF TypeOK, Discs, Pcs, Answers, Senses
    <3> QED
      BY <3>1, <3>2, <3>3, <3>4 DEF LastDiscIn, PresentGeometry, JobState, CountOfPresence,
         TransferOnKnownDisc
  <2>3. CASE ~(sense = "noMedium" /\ ~(UNCHANGED unitVars))
    <3>1. UNCHANGED unitVars
      BY <1>12, <2>3, Zenon DEF TransferSense
    <3>2. /\ pc' \in {"xfer", "reply"} /\ try' \in 1 .. 9 /\ ret' \in Answers
          /\ faults' \in 0 .. MaxFaults
          /\ pc' = "xfer" => moved = 0
      BY <1>12 DEF TransferSense, EndTransfer, TryAgain, UseFault, TypeOK, Answers, JobState
    <3> QED
      BY <1>12, <2>1, <3>1, <3>2 DEF TransferSense, unitVars, TypeOK, Discs, Pcs, Senses, LastDiscIn,
         PresentGeometry, JobState, CountOfPresence, TransferOnKnownDisc
  <2> QED
    BY <2>2, <2>3
<1>13. CASE Reply
  BY <1>13 DEF Reply, driveVars, unitVars, TypeOK, Discs, Jobs, Pcs, LastDiscIn, PresentGeometry, JobState,
     CountOfPresence, TransferOnKnownDisc
<1> QED
  BY <1>0, <1>1, <1>2, <1>3, <1>4, <1>5, <1>6, <1>7, <1>8, <1>9, <1>10, <1>11, <1>12, <1>13, <1>14
     DEF Next, Driver, Clients, User

\* Every reachable state of the unit and its task satisfies the inductive
\* invariant.
THEOREM SpecIInv == Spec => []IInv
  BY InitIInv, Invariance, PTL DEF Spec

\* Every variable of the unit and its task keeps its type.
THEOREM TypeCorrect == Spec => []TypeOK
<1>1. IInv => TypeOK
  BY DEF IInv
<1> QED
  BY <1>1, SpecIInv, PTL

\* A present unit has the geometry of a disc, an absent one has none
\* (atapi_update_presence(), atapi_get_capacity()).
THEOREM PresentGeometryHolds == Spec => []PresentGeometry
<1>1. IInv => PresentGeometry
  BY DEF IInv
<1> QED
  BY <1>1, SpecIInv, PTL

\* Data moves only to or from the disc the request was checked against
\* (process_ioreq(), atapi_translate()).
THEOREM TransferOnKnownDiscHolds == Spec => []TransferOnKnownDisc
<1>1. IInv => TransferOnKnownDisc
  BY DEF IInv
<1> QED
  BY <1>1, SpecIInv, PTL
=============================================================================
