---------------------------- MODULE BackupProofs ----------------------------
(***************************************************************************)
(* do_backup for every buffer size, every device and every destination:    *)
(* its inductive invariant, what a Finished backup is worth, and that it   *)
(* is a worker in the sense of Session, so that all that SessionProofs     *)
(* shows of sessions holds of backups.                                     *)
(***************************************************************************)
EXTENDS Backup, SessionProofs

\* The jobs have the types of BackupParams.
JobFacts ==
  /\ MaxIn \in Nat /\ MaxOut \in Nat /\ Buf \in Nat \ {0} /\ None \notin Nat
  /\ params.total \in Nat \cup {None}
  /\ params.len \in Nat /\ params.len <= MaxIn
  /\ params.capacity \in Nat /\ params.capacity <= MaxOut

LEMMA JobTypes ==
  ASSUME params \in Params
  PROVE  JobFacts /\ params.codec \in Codecs
  <1>1. MaxIn \in Nat /\ MaxOut \in Nat /\ None \notin Nat
    BY SessionAssumption
  <1>2. Buf \in Nat \ {0}
    BY BackupAssumption
  <1>3. /\ params.total \in (0..MaxIn) \cup {None}
        /\ params.len \in 0..MaxIn
        /\ params.capacity \in 0..MaxOut
        /\ params.codec \in Codecs
    BY DEF Params
  <1> QED
    BY <1>1, <1>2, <1>3 DEF JobFacts

\* The UI thread does not touch what the worker knows.
LEMMA UILeavesWorker ==
  ASSUME UI
  PROVE  UNCHANGED worker
  BY DEF UI, BeginPoll, RecvStarted, RecvTick, RecvFinished, RecvFailed, Join,
         RecvNothing, EndPoll, worker

LEMMA InitBInv == BInit => BInv
  <1> SUFFICES ASSUME BInit PROVE BInv
    OBVIOUS
  <1> USE DEF BInit, InitSession
  <1>1. params \in Params
    BY BackupAssumption
  <1>j. JobFacts
    BY <1>1, JobTypes
  <1>2. BKinds
    BY <1>1, Zenon DEF BKinds, Steps
  <1>3. BCounts
    BY <1>j DEF BCounts, JobFacts
  <1>4. UnitsAddUp
    BY <1>j DEF UnitsAddUp, StaysWithinTotal, JobFacts
  <1>5. ReportIsEarned /\ HealthyGoesWell
    BY DEF ReportIsEarned, HealthyGoesWell, Copying
  <1> QED
    BY <1>2, <1>3, <1>4, <1>5 DEF BInv, BTypes

-----------------------------------------------------------------------------
(* The steps of the worker. *)

\* Every step leaves the Booleans and the program counter in their types.
LEMMA WorkerKeepsKinds ==
  ASSUME BInv, BWorker
  PROVE  BKinds'
  <1> USE DEF BInv, BTypes, BKinds, At, Goto, Steps
  <1>1. CASE Open
    BY <1>1 DEF Open, Params
  <1>2. CASE ReadDone \/ ReadZero \/ \E n \in 1..Buf : ReadSome(n)
    BY <1>2 DEF ReadDone, ReadZero, ReadSome
  <1>3. ASSUME NEW e \in ReadErrors, ReadError(e)
        PROVE  BKinds'
    <2>1. IsEndOfDeviceError(e) \in BOOLEAN
      BY Zenon DEF IsEndOfDeviceError
    <2> QED
      BY <1>3, <2>1 DEF ReadError
  <1>4. CASE WriteError \/ \E k \in 0..MaxIn : Write(k)
    BY <1>4 DEF WriteError, Write
  <1>5. CASE DropWriter
    <2>1. (params.codec # "none") \in BOOLEAN
      BY Zenon
    <2> QED
      BY <1>5, <2>1 DEF DropWriter
  <1>6. CASE DropWriterShort \/ DropWriterPanics
    BY <1>6 DEF DropWriterShort, DropWriterPanics
  <1>7. CASE MaybeTick \/ Return \/ BExit
    BY <1>7 DEF MaybeTick, Return, BExit, local
  <1> QED
    BY <1>1, <1>2, <1>3, <1>4, <1>5, <1>6, <1>7 DEF BWorker

\* Steps in which neither counter moves and nothing is sent.
LEMMA SilentKeepsBInv ==
  ASSUME BInv,
         \/ Open \/ ReadDone \/ ReadZero
         \/ \E n \in 1..Buf : ReadSome(n)
         \/ \E e \in ReadErrors : ReadError(e)
  PROVE  BCounts' /\ UnitsAddUp' /\ ReportIsEarned' /\ HealthyGoesWell'
  <1>j. JobFacts /\ params.codec \in Codecs
    BY JobTypes DEF BInv, BTypes, BKinds
  <1> USE <1>j DEF JobFacts, BInv, BTypes, BCounts, At, Goto, Silent, vars, worker
  <1>1. CASE Open
    <2> USE <1>1 DEF Open
    <2>1. BCounts' /\ UnitsAddUp'
      BY DEF UnitsAddUp, Copying, StaysWithinTotal, ReportIsEarned
    <2>2. ReportIsEarned' /\ HealthyGoesWell'
      BY DEF ReportIsEarned, HealthyGoesWell, Healthy, Copying
    <2> QED
      BY <2>1, <2>2
  <1>2. CASE ReadDone \/ ReadZero
    <2> USE <1>2 DEF ReadDone, ReadZero
    <2>1. BCounts' /\ UnitsAddUp'
      BY DEF UnitsAddUp, Copying, StaysWithinTotal
    <2>2. params' = params /\ ok' = ok /\ ok /\ bytes_in' = bytes_in /\ thread = "running"
      BY DEF ReportIsEarned, Copying
    <2>3. EndReached'
      BY DEF EndReached, ReadsAll
    <2>4. ReportIsEarned'
      BY <2>2, <2>3 DEF ReportIsEarned, Copying
    <2>5. HealthyGoesWell'
      BY <2>2 DEF HealthyGoesWell, Healthy, ReadsAll, UnitsAddUp
    <2> QED
      BY <2>1, <2>4, <2>5
  <1>3. ASSUME NEW n \in 1..Buf, ReadSome(n)
        PROVE  BCounts' /\ UnitsAddUp' /\ ReportIsEarned' /\ HealthyGoesWell'
    <2> USE <1>3 DEF ReadSome
    <2>1. BCounts'
      OBVIOUS
    <2>2. params.total # None => bytes_in + n <= params.total
      BY DEF ReadsAll, ToRead, Lesser
    <2>3. UnitsAddUp'
      BY <2>2 DEF UnitsAddUp, Copying, StaysWithinTotal
    <2>4. ReportIsEarned' /\ HealthyGoesWell'
      BY DEF ReportIsEarned, HealthyGoesWell, Healthy, Copying
    <2> QED
      BY <2>1, <2>3, <2>4
  <1>4. ASSUME NEW e \in ReadErrors, ReadError(e)
        PROVE  BCounts' /\ UnitsAddUp' /\ ReportIsEarned' /\ HealthyGoesWell'
    <2> USE <1>4 DEF ReadError
    <2>1. /\ ok /\ thread = "running" /\ chunk = 0 /\ bytes_in = bytes_out + buffered
          /\ UNCHANGED <<params, bytes_in, bytes_out, buffered, chunk, thread, outcome, trailer>>
      BY DEF ReportIsEarned, UnitsAddUp, Copying
    <2>2. BCounts' /\ UnitsAddUp'
      BY <2>1 DEF UnitsAddUp, Copying, StaysWithinTotal
    <2>3. ok' => EndReached'
      BY <2>1 DEF IsEndOfDeviceError, EndReached
    <2>4. ReportIsEarned'
      BY <2>1, <2>3 DEF ReportIsEarned, Copying
    <2>5. HealthyGoesWell'
      <3>1. ~Healthy
        BY <2>1 DEF Healthy, ReadErrors, ToRead, Lesser, ReadsAll, UnitsAddUp
      <3> QED
        BY <2>1, <3>1 DEF HealthyGoesWell, Healthy
    <2> QED
      BY <2>2, <2>4, <2>5
  <1> QED
    BY <1>1, <1>2, <1>3, <1>4

LEMMA WriteKeepsBInv ==
  ASSUME BInv, WriteError \/ \E k \in 0..MaxIn : Write(k)
  PROVE  BCounts' /\ UnitsAddUp' /\ ReportIsEarned' /\ HealthyGoesWell'
  <1>j. JobFacts /\ params.codec \in Codecs
    BY JobTypes DEF BInv, BTypes, BKinds
  <1> USE <1>j DEF JobFacts, BInv, BTypes, BCounts, At, Goto, worker
  <1>0. /\ params' = params /\ UNCHANGED <<thread, outcome>>
        /\ thread = "running" /\ step = "write" /\ ok
        /\ bytes_in = bytes_out + buffered /\ bytes_out <= params.capacity
        /\ bytes_in + chunk <= params.len
    BY DEF WriteError, Write, ReportIsEarned, UnitsAddUp, Copying
  <1>1. CASE WriteError
    <2> USE <1>1 DEF WriteError, Room
    <2>1. PICK k \in Passes : k > params.capacity - bytes_out
      OBVIOUS
    <2>2. k \in Nat /\ k <= buffered + chunk
      BY <2>1 DEF Passes
    <2>3. BCounts'
      BY <1>0, <2>1, <2>2
    <2>4. UnitsAddUp'
      BY <1>0, <2>1, <2>2 DEF UnitsAddUp, StaysWithinTotal
    <2>5. ReportIsEarned'
      BY <1>0 DEF ReportIsEarned, Copying
    <2>6. HealthyGoesWell'
      <3>1. ~Healthy
        BY <1>0, <2>1, <2>2 DEF Healthy
      <3> QED
        BY <1>0, <3>1 DEF HealthyGoesWell, Healthy
    <2> QED
      BY <2>3, <2>4, <2>5, <2>6
  <1>2. ASSUME NEW k \in 0..MaxIn, Write(k)
        PROVE  BCounts' /\ UnitsAddUp' /\ ReportIsEarned' /\ HealthyGoesWell'
    <2> USE <1>2 DEF Write, Room
    <2>1. k <= buffered + chunk /\ (params.codec = "none" => k = chunk)
      BY DEF Passes
    <2>2. BCounts'
      BY <1>0, <2>1
    <2>3. UnitsAddUp'
      BY <1>0, <2>1 DEF UnitsAddUp, StaysWithinTotal, Copying
    <2>4. ReportIsEarned' /\ HealthyGoesWell'
      BY <1>0 DEF ReportIsEarned, HealthyGoesWell, Healthy, Copying
    <2> QED
      BY <2>2, <2>3, <2>4
  <1> QED
    BY <1>1, <1>2

LEMMA DropKeepsBInv ==
  ASSUME BInv, DropWriter \/ DropWriterShort \/ DropWriterPanics
  PROVE  BCounts' /\ UnitsAddUp' /\ ReportIsEarned' /\ HealthyGoesWell'
  <1>j. JobFacts /\ params.codec \in Codecs
    BY JobTypes DEF BInv, BTypes, BKinds
  <1> USE <1>j DEF JobFacts, BInv, BTypes, BCounts, At, Goto, worker, Owed, Room
  <1>0. /\ params' = params /\ UNCHANGED <<outcome, bytes_in, ok, chunk>>
        /\ thread = "running" /\ step = "drop" /\ outcome = "None"
        /\ bytes_out <= params.capacity
        /\ ok => bytes_in = bytes_out + buffered
    BY DEF DropWriter, DropWriterShort, DropWriterPanics, Panic, UnitsAddUp,
           ReportIsEarned
  <1>1. CASE DropWriter
    <2> USE <1>1 DEF DropWriter
    <2>1. BCounts'
      BY <1>0
    <2>2. UnitsAddUp'
      BY <1>0 DEF UnitsAddUp, StaysWithinTotal, Copying
    <2>3. ok => ImageIsWhole'
      BY <1>0 DEF ImageIsWhole, UnitsAddUp
    <2>4. ReportIsEarned'
      BY <1>0, <2>3 DEF ReportIsEarned, WholeUnlessHidden, EndReached, Copying
    <2>5. HealthyGoesWell'
      BY <1>0 DEF HealthyGoesWell, Healthy, Copying
    <2> QED
      BY <2>1, <2>2, <2>4, <2>5
  <1>2. CASE DropWriterShort
    <2> USE <1>2 DEF DropWriterShort
    <2>1. params.codec # "none" /\ params.codec # "zstd" /\ buffered + 1 > params.capacity - bytes_out
      BY <1>0
    <2>2. BCounts'
      BY <1>0, <2>1
    <2>3. UnitsAddUp'
      BY <1>0, <2>1 DEF UnitsAddUp, StaysWithinTotal, Copying
    <2>4. ok => ~(bytes_in < params.capacity)
      BY <1>0, <2>1
    <2>5. ReportIsEarned'
      BY <1>0, <2>1, <2>4 DEF ReportIsEarned, WholeUnlessHidden, EndReached, Copying
    <2>6. HealthyGoesWell'
      BY <1>0 DEF HealthyGoesWell, Healthy, Copying
    <2> QED
      BY <2>2, <2>3, <2>5, <2>6
  <1>3. CASE DropWriterPanics
    <2> USE <1>3 DEF DropWriterPanics, Panic
    <2>1. BCounts' /\ UnitsAddUp'
      BY <1>0 DEF UnitsAddUp, StaysWithinTotal, Copying
    <2>2. ReportIsEarned'
      BY <1>0 DEF ReportIsEarned, EndReached, Copying
    <2>3. HealthyGoesWell'
      <3>1. ~Healthy
        BY <1>0 DEF Healthy, HealthyGoesWell, UnitsAddUp
      <3> QED
        BY <1>0, <3>1 DEF HealthyGoesWell, Healthy
    <2> QED
      BY <2>1, <2>2, <2>3
  <1> QED
    BY <1>1, <1>2, <1>3

LEMMA ReportKeepsBInv ==
  ASSUME BInv, Return \/ BExit \/ MaybeTick
  PROVE  BCounts' /\ UnitsAddUp' /\ ReportIsEarned' /\ HealthyGoesWell'
  <1>j. JobFacts
    BY JobTypes DEF BInv, BTypes, BKinds
  <1> USE <1>j DEF JobFacts, BInv, BTypes, BCounts, At, Goto, worker, vars, local
  <1>0. UNCHANGED <<params, ok, chunk, buffered, trailer, bytes_in, bytes_out>>
    BY DEF Return, BExit, Exit, MaybeTick, SendFinished, SendFailed, Report, SendTick,
           Silent
  <1>1. BCounts'
    BY <1>0
  <1>2. CASE Return
    <2>0. /\ step = "return" /\ step' = "done" /\ thread = "running"
          /\ thread' = "reported" /\ outcome' = IF ok THEN "Finished" ELSE "Failed"
      BY <1>2 DEF Return, SendFinished, SendFailed, Report
    <2>1. UnitsAddUp'
      BY <1>0, <2>0 DEF UnitsAddUp, Copying, StaysWithinTotal
    <2>2. ReportIsEarned'
      BY <1>0, <2>0 DEF ReportIsEarned, Copying, EndReached, WholeUnlessHidden, ImageIsWhole
    <2>3. HealthyGoesWell'
      BY <1>0, <2>0 DEF HealthyGoesWell, Healthy, Copying
    <2> QED
      BY <1>1, <2>1, <2>2, <2>3
  <1>3. CASE BExit
    <2>0. /\ step' = step /\ outcome' = outcome
          /\ thread = "reported" /\ thread' = "gone"
      BY <1>3 DEF BExit, Exit
    <2>1. UnitsAddUp'
      BY <1>0, <2>0 DEF UnitsAddUp, Copying, StaysWithinTotal
    <2>2. ReportIsEarned'
      BY <1>0, <2>0 DEF ReportIsEarned, Copying, EndReached, WholeUnlessHidden, ImageIsWhole
    <2>3. HealthyGoesWell'
      BY <1>0, <2>0 DEF HealthyGoesWell, Healthy, Copying
    <2> QED
      BY <1>1, <2>1, <2>2, <2>3
  <1>4. CASE MaybeTick
    <2>0. /\ step = "tick" /\ step' = "read"
          /\ thread' = thread /\ outcome' = outcome
      BY <1>4 DEF MaybeTick, SendTick, Silent
    <2>1. UnitsAddUp'
      BY <1>0, <2>0 DEF UnitsAddUp, Copying, StaysWithinTotal
    <2>2. ReportIsEarned'
      BY <1>0, <2>0 DEF ReportIsEarned, Copying, EndReached, WholeUnlessHidden, ImageIsWhole
    <2>3. HealthyGoesWell'
      BY <1>0, <2>0 DEF HealthyGoesWell, Healthy, Copying
    <2> QED
      BY <1>1, <2>1, <2>2, <2>3
  <1> QED
    BY <1>2, <1>3, <1>4

LEMMA IdleKeepsBInv ==
  ASSUME BInv, UNCHANGED worker, UNCHANGED local
  PROVE  BInv'
  BY DEF BInv, BTypes, BKinds, BCounts, UnitsAddUp, ReportIsEarned, HealthyGoesWell, worker, local,
         StaysWithinTotal, Copying, EndReached, WholeUnlessHidden, ImageIsWhole,
         Healthy

LEMMA NextBInv == BInv /\ [BNext]_bvars => BInv'
  <1> SUFFICES ASSUME BInv, [BNext]_bvars PROVE BInv'
    OBVIOUS
  <1>1. CASE BUI
    BY <1>1, UILeavesWorker, IdleKeepsBInv DEF BUI
  <1>2. CASE UNCHANGED bvars
    BY <1>2, IdleKeepsBInv DEF bvars, vars
  <1>3. CASE BWorker
    <2>1. BKinds'
      BY <1>3, WorkerKeepsKinds
    <2>2. BCounts' /\ UnitsAddUp' /\ ReportIsEarned' /\ HealthyGoesWell'
      BY <1>3, SilentKeepsBInv, WriteKeepsBInv, DropKeepsBInv, ReportKeepsBInv
         DEF BWorker
    <2> QED
      BY <2>1, <2>2 DEF BInv, BTypes
  <1> QED
    BY <1>1, <1>2, <1>3 DEF BNext

\* The invariant of do_backup, for every device and every destination.
THEOREM BackupInvariant == BSpec => []BInv
  BY InitBInv, NextBInv, PTL DEF BSpec

\* No read asks for more than the device is said to have left.
THEOREM BackupStaysWithinTotal == BSpec => []StaysWithinTotal
  <1>1. BInv => StaysWithinTotal
    BY DEF BInv, UnitsAddUp
  <1> QED
    BY <1>1, BackupInvariant, PTL

\* A Finished backup lacks at most the last buffer of the reported size, or
\* what the device does not have.
THEOREM BackupMissesNoMiddle == BSpec => []MissingTailIsBounded
  <1>1. BInv => MissingTailIsBounded
    BY DEF BInv, ReportIsEarned, MissingTailIsBounded, EndReached
  <1> QED
    BY <1>1, BackupInvariant, PTL

\* A Finished image can be restored, unless a codec other than zstd had to
\* hide that its last bytes did not fit.
THEOREM BackupImageIsWhole == BSpec => []FinishedImageIsWhole
  <1>1. BInv => FinishedImageIsWhole
    BY DEF BInv, ReportIsEarned, FinishedImageIsWhole, WholeUnlessHidden
  <1> QED
    BY <1>1, BackupInvariant, PTL

\* A sound device and enough room give a complete image.
THEOREM BackupOfHealthyDevice == BSpec => []HealthyBackupIsExact
  <1>1. BInv => HealthyBackupIsExact
    <2> SUFFICES ASSUME BInv, Healthy, thread = "gone"
                 PROVE  outcome = "Finished" /\ bytes_in = params.len /\ ImageIsWhole
      BY DEF HealthyBackupIsExact
    <2>1. outcome = "Finished"
      BY DEF BInv, HealthyGoesWell
    <2>2. WholeUnlessHidden
      BY <2>1 DEF BInv, ReportIsEarned
    <2>3. bytes_in = params.len
      BY DEF BInv, ReportIsEarned, HealthyGoesWell, Copying
    <2> QED
      BY <2>1, <2>2, <2>3 DEF WholeUnlessHidden, Healthy
  <1> QED
    BY <1>1, BackupInvariant, PTL

-----------------------------------------------------------------------------
(* do_backup implements Session's worker. *)

LEMMA BackupStartsAsSession == BInit => Init
  BY BackupAssumption DEF BInit, Init, Params

LEMMA WorkerStepsAsSession ==
  ASSUME BInv, BWorker
  PROVE  [Next]_vars
  <1>j. JobFacts
    BY JobTypes DEF BInv, BTypes, BKinds
  <1> USE <1>j DEF JobFacts, BInv, BTypes, BCounts, UnitsAddUp
  <1>1. CASE \/ Open \/ ReadDone \/ ReadZero
             \/ \E n \in 1..Buf : ReadSome(n)
             \/ \E e \in ReadErrors : ReadError(e)
    BY <1>1 DEF Open, ReadDone, ReadZero, ReadSome, ReadError, Silent
  <1>2. CASE WriteError \/ \E k \in 0..MaxIn : Write(k)
    <2>1. \E n \in 0..MaxIn, m \in 0..MaxOut : Move(n, m)
      <3>1. CASE WriteError
        <4>1. Move(0, Room) /\ Room \in 0..MaxOut
          BY <3>1 DEF WriteError, Move, Room, At
        <4> QED
          BY <4>1
      <3>2. ASSUME NEW k \in 0..MaxIn, Write(k)
            PROVE  Move(chunk, k) /\ chunk \in 0..MaxIn /\ k \in 0..MaxOut
        BY <3>2 DEF Write, Move, Room, At
      <3> QED
        BY <1>2, <3>1, <3>2
    <2> QED
      BY <2>1 DEF Next, Worker
  <1>3. CASE DropWriter \/ DropWriterShort
    <2>1. CASE DropWriter
      <3>1. Move(0, Owed) /\ Owed \in 0..MaxOut
        BY <2>1 DEF DropWriter, Move, Owed, Room, At
      <3> QED
        BY <3>1 DEF Next, Worker
    <2>2. CASE DropWriterShort
      <3>1. Move(0, Room) /\ Room \in 0..MaxOut
        BY <2>2 DEF DropWriterShort, Move, Room, At
      <3> QED
        BY <3>1 DEF Next, Worker
    <2> QED
      BY <1>3, <2>1, <2>2
  <1>4. CASE DropWriterPanics \/ Return \/ BExit \/ MaybeTick
    BY <1>4 DEF DropWriterPanics, Return, BExit, MaybeTick, Silent, Next, Worker
  <1> QED
    BY <1>1, <1>2, <1>3, <1>4 DEF BWorker

LEMMA BackupStepsAsSession == BInv /\ [BNext]_bvars => [Next]_vars
  BY WorkerStepsAsSession DEF BNext, BUI, Next, bvars

\* do_backup may stand wherever Session has a worker.
THEOREM BackupImplementsSession == BSpec => ImplementsSession
  BY BackupStartsAsSession, BackupStepsAsSession, BackupInvariant, PTL
     DEF BSpec, Spec, ImplementsSession

\* Every variable of a backup keeps its type.
THEOREM BackupTypeOK == BSpec => []BTypeOK
  <1>1. BInit => params \in Jobs
    BY DEF BInit
  <1>2. params \in Jobs /\ [BNext]_bvars => (params \in Jobs)'
    BY DEF BNext, BWorker, BUI, bvars, local, Open, ReadDone, ReadSome, ReadZero,
           ReadError, Write, WriteError, MaybeTick, DropWriter, DropWriterShort,
           DropWriterPanics, Return, BExit, Goto
  <1>3. BInv /\ TypeOK /\ params \in Jobs => BTypeOK
    BY JobTypes DEF JobFacts, BInv, BTypes, BKinds, BCounts, UnitsAddUp, BTypeOK
  <1> QED
    BY <1>1, <1>2, <1>3, BackupInvariant, BackupImplementsSession, SessionTypeOK,
       PTL DEF BSpec, ImplementsSession

\* What sessions promise, backups keep: the frame that says Finished is exact.
THEOREM BackupFramesAreExact == BSpec => []FrameIsExact
  BY BackupImplementsSession, FramesAreExact, PTL DEF ImplementsSession
=============================================================================
