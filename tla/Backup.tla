------------------------------- MODULE Backup -------------------------------
(***************************************************************************)
(* do_backup: a worker that copies a block device through an encoder into  *)
(* an image file.  It takes the place of Session's abstract worker and     *)
(* reports through the same channel to the same UI.                        *)
(*                                                                         *)
(* The device is a length, a reported length and possibly one unreadable   *)
(* unit; the destination is a capacity.  An encoder turns each unit into   *)
(* one unit, may hold any number of them back, and owes one more unit, the *)
(* trailer, when it is dropped.                                            *)
(***************************************************************************)
EXTENDS Session

CONSTANTS
  Buf,      \* BUF_BYTES: the most one read asks for
  Jobs      \* the BackupParams and circumstances considered

Codecs == {"none", "zstd", "lz4"}  \* lz4 stands for every codec but these two

Params == [codec    : Codecs,                   \* BackupParams.codec
           total    : (0..MaxIn) \cup {None},   \* BackupParams.total_bytes
           len      : 0..MaxIn,                 \* units the device can deliver
           bad      : (0..MaxIn) \cup {None},   \* its unreadable unit, if any
           capacity : 0..MaxOut,                \* units the destination can hold
           windows  : BOOLEAN,                  \* cfg!(windows)
           opens    : BOOLEAN]                  \* can source and dest be opened?

ASSUME BackupAssumption ==
  /\ Buf \in Nat \ {0}
  /\ Jobs \subseteq Params
  /\ CanPanic

VARIABLES
  params,    \* the job; never changes
  step,      \* where do_backup is
  ok,        \* is it on its way to return Ok?
  chunk,     \* units read and not yet handed to the encoder
  buffered,  \* units given to the writer that are not in the file
  trailer    \* has the encoder's trailer reached the file?

local == <<params, step, ok, chunk, buffered, trailer>>
bvars == <<vars, local>>

Steps == {"open", "read", "write", "tick", "drop", "return", "done"}

BTypeOK ==
  /\ TypeOK
  /\ params \in Jobs
  /\ step \in Steps
  /\ ok \in BOOLEAN
  /\ chunk \in 0..Buf
  /\ buffered \in 0..MaxIn
  /\ trailer \in BOOLEAN

BInit ==
  /\ InitSession
  /\ params \in Jobs
  /\ total_bytes = params.total
  /\ step = "open"
  /\ ok = TRUE
  /\ chunk = 0 /\ buffered = 0
  /\ trailer = FALSE

-----------------------------------------------------------------------------
(* The steps of do_backup. *)

At(s) == thread = "running" /\ step = s

Goto(s) == step' = s /\ UNCHANGED params

\* A private step of the worker: neither counter moves, nothing is sent.
Silent == UNCHANGED vars

\* open_fast_read, File::create, encoder(): nothing to drop if one fails.
Open ==
  /\ At("open") /\ Silent
  /\ Goto(IF params.opens THEN "read" ELSE "return")
  /\ ok' = params.opens
  /\ UNCHANGED <<chunk, buffered, trailer>>

Lesser(a, b) == IF a <= b THEN a ELSE b

Room == params.capacity - bytes_out

ReadsAll == params.total # None /\ bytes_in >= params.total

\* Mutant: a full buffer is asked for up to the very end.
ToReadUncapped == Buf

\* Each read is capped to what the device is said to have left.
ToRead == IF params.total = None THEN Buf ELSE Lesser(Buf, params.total - bytes_in)

ReadDone ==
  /\ At("read") /\ ReadsAll /\ Silent
  /\ Goto("drop")
  /\ UNCHANGED <<ok, chunk, buffered, trailer>>

\* A read delivers what precedes the end of the device and the bad unit.
ReadSome(n) ==
  /\ At("read") /\ ~ReadsAll /\ Silent
  /\ n \in 1..ToRead /\ bytes_in + n <= params.len
  /\ params.bad \notin bytes_in .. bytes_in + n - 1
  /\ Goto("write")
  /\ chunk' = n
  /\ UNCHANGED <<ok, buffered, trailer>>

\* Ok(0): a shorter device than reported ends the loop quietly.
ReadZero ==
  /\ At("read") /\ ~ReadsAll /\ Silent
  /\ bytes_in = params.len
  /\ Goto("drop")
  /\ UNCHANGED <<ok, chunk, buffered, trailer>>

\* What a read at this point can fail with: the request touches the bad
\* unit, it straddles the end of what a raw Windows device can address, or
\* nothing is left and the OS calls that an error.
ReadErrors ==
  LET request == bytes_in .. bytes_in + ToRead - 1
      hitsBad == params.bad \in request /\ params.bad < params.len
  IN  (IF hitsBad THEN {IF params.windows THEN "ERROR_CRC" ELSE "EIO"} ELSE {})
        \cup (IF params.windows /\ bytes_in + ToRead > params.len
              THEN {"ERROR_SECTOR_NOT_FOUND"} ELSE {})
        \cup (IF bytes_in = params.len THEN {"UnexpectedEof"} ELSE {})

\* Mutant: the error code alone decides.
IsEndOfDeviceErrorAnywhere(e) ==
  e \in {"ERROR_CRC", "ERROR_SECTOR_NOT_FOUND", "UnexpectedEof"}

IsEndOfDeviceError(e) ==
  /\ params.total = None \/ bytes_in + Buf >= params.total
  /\ e \in {"ERROR_CRC", "ERROR_SECTOR_NOT_FOUND", "UnexpectedEof"}

ReadError(e) ==
  /\ At("read") /\ ~ReadsAll /\ Silent
  /\ e \in ReadErrors
  /\ Goto("drop")
  /\ ok' = IsEndOfDeviceError(e)
  /\ UNCHANGED <<chunk, buffered, trailer>>

\* hasher.update, write_all and bytes_in += n.  The encoder passes on any
\* part of what it then holds; a plain file takes everything at once.
Passes == IF params.codec = "none" THEN {chunk} ELSE 0 .. buffered + chunk

Write(k) ==
  /\ At("write")
  /\ k \in Passes /\ k <= Room
  /\ bytes_in' = bytes_in + chunk
  /\ bytes_out' = bytes_out + k
  /\ buffered' = buffered + chunk - k
  /\ chunk' = 0
  /\ Goto("tick")
  /\ UNCHANGED <<thread, outcome, chan, ui, ok, trailer>>

\* Mutant: a write error ends the loop and not the backup.
WriteErrorBreaks ==
  /\ At("write")
  /\ \E k \in Passes : k > Room
  /\ bytes_out' = params.capacity
  /\ buffered' = buffered + chunk - Room
  /\ chunk' = 0
  /\ Goto("drop")
  /\ UNCHANGED <<thread, outcome, bytes_in, chan, ui, ok, trailer>>

\* The destination fills up in the middle of write_all: bytes_in stays.
WriteError ==
  /\ At("write")
  /\ \E k \in Passes : k > Room
  /\ bytes_out' = params.capacity
  /\ buffered' = buffered + chunk - Room
  /\ chunk' = 0
  /\ ok' = FALSE
  /\ Goto("drop")
  /\ UNCHANGED <<thread, outcome, bytes_in, chan, ui, trailer>>

\* A Tick if 150 ms have gone by since the last one.
MaybeTick ==
  /\ At("tick")
  /\ SendTick \/ Silent
  /\ Goto("read")
  /\ UNCHANGED <<ok, chunk, buffered, trailer>>

\* The writer goes out of scope, on the way to Ok or to Err.
Owed == IF params.codec = "none" THEN 0 ELSE buffered + 1

DropWriter ==
  /\ At("drop")
  /\ Owed <= Room
  /\ bytes_out' = bytes_out + Owed
  /\ buffered' = IF params.codec = "none" THEN buffered ELSE 0
  /\ trailer' = (params.codec # "none")
  /\ Goto("return")
  /\ UNCHANGED <<thread, outcome, bytes_in, chan, ui, ok, chunk>>

\* No room for what the encoder owes: most codecs' Drop discards the error...
DropWriterShort ==
  /\ At("drop")
  /\ Owed > Room /\ params.codec # "zstd"
  /\ bytes_out' = params.capacity
  /\ buffered' = buffered - Room
  /\ Goto("return")
  /\ UNCHANGED <<thread, outcome, bytes_in, chan, ui, ok, chunk, trailer>>

\* ... and zstd's auto_finish panics.
DropWriterPanics ==
  /\ At("drop")
  /\ Owed > Room /\ params.codec = "zstd"
  /\ Panic
  /\ Goto("done")
  /\ UNCHANGED <<ok, chunk, buffered, trailer>>

\* Mutant: only success is reported.
ReturnQuiet ==
  /\ At("return")
  /\ IF ok THEN SendFinished
     ELSE thread' = "gone" /\ UNCHANGED <<outcome, bytes_in, bytes_out, chan, ui>>
  /\ Goto("done")
  /\ UNCHANGED <<ok, chunk, buffered, trailer>>

\* Back in spawn_backup's closure.
Return ==
  /\ At("return")
  /\ IF ok THEN SendFinished ELSE SendFailed
  /\ Goto("done")
  /\ UNCHANGED <<ok, chunk, buffered, trailer>>

\* Mutant: the encoder is dropped after the report.
BExitDropsWriter ==
  /\ thread = "reported"
  /\ thread' = "gone"
  /\ bytes_out' = IF Room > 0 THEN bytes_out + 1 ELSE bytes_out
  /\ UNCHANGED <<outcome, bytes_in, chan, ui, local>>

BExit == Exit /\ UNCHANGED local

BWorker ==
  \/ Open
  \/ ReadDone \/ (\E n \in 1..Buf : ReadSome(n)) \/ ReadZero
  \/ (\E e \in ReadErrors : ReadError(e))
  \/ (\E k \in 0..MaxIn : Write(k)) \/ WriteError
  \/ MaybeTick
  \/ DropWriter \/ DropWriterShort \/ DropWriterPanics
  \/ Return
  \/ BExit

BUI == UI /\ UNCHANGED local

BNext == BWorker \/ BUI

BSpec == BInit /\ [][BNext]_bvars

\* A device that answers and a scheduler that runs both threads.
BFairSpec == BSpec /\ WF_bvars(BWorker) /\ WF_bvars(BUI)

-----------------------------------------------------------------------------
(* Properties. *)

\* The image restores to every unit that was read.
ImageIsWhole == buffered = 0 /\ (params.codec # "none" => trailer)

\* Success is never reported for an image that cannot be restored, as long as
\* the destination has room for it or the codec does not hide its last error.
FinishedImageIsWhole ==
  outcome = "Finished" /\ (params.codec \in {"none", "zstd"} \/ bytes_in < params.capacity)
    => ImageIsWhole

\* What a Finished backup may lack of the reported size is what the device
\* does not have, or less than one buffer at its very end: an error in the
\* middle of a device is never taken for its end.
MissingTailIsBounded ==
  outcome = "Finished" /\ params.total # None
    => \/ bytes_in = params.len
       \/ bytes_in + Buf >= params.total

\* A backup never reads past the reported size: the u64 subtraction in the cap
\* does not underflow, and the gauge never stands for more than the device.
StaysWithinTotal == params.total # None => bytes_in + chunk <= params.total

\* A sound device of the size reported and a destination with room give a
\* complete backup on every platform; nothing is cut off by a tolerated
\* error at the end.
Healthy ==
  /\ params.opens /\ params.bad = None
  /\ params.total = params.len
  /\ params.capacity > params.len

HealthyBackupIsExact ==
  Healthy /\ thread = "gone"
    => outcome = "Finished" /\ bytes_in = params.len /\ ImageIsWhole

\* do_backup behaves as a session's worker does.
ImplementsSession == Spec

\* Whatever goes wrong, the session ends on screen, unless the codec panics.
EndsOnScreen == (params.codec # "zstd") ~> (shown.status # "Running")

\* A session is running, finished or failed; the finished and the failed can
\* be dismissed: no session stays Running once its worker is gone.
EverySessionEnds == <>(shown.status # "Running")

-----------------------------------------------------------------------------
(* The inductive invariant behind them. *)

Copying == {"open", "read", "write", "tick"}

BKinds ==
  /\ params \in Params
  /\ step \in Steps
  /\ ok \in BOOLEAN
  /\ trailer \in BOOLEAN

BCounts ==
  /\ chunk \in 0..Buf
  /\ buffered \in Nat
  /\ bytes_in \in Nat
  /\ bytes_out \in Nat

BTypes == BKinds /\ BCounts

\* No unit is read past an end, written past an end, or counted twice: while
\* all goes well what was read is in the file or in the encoder.
UnitsAddUp ==
  /\ bytes_out <= params.capacity
  /\ bytes_in + chunk <= params.len
  /\ buffered <= params.len
  /\ StaysWithinTotal
  /\ step # "write" => chunk = 0
  /\ ok /\ step \in Copying \cup {"drop"} => bytes_in = bytes_out + buffered
  /\ ok /\ params.codec = "none" => buffered = 0

\* The loop is left by an error or at the end of the device.
EndReached ==
  params.total # None => bytes_in = params.len \/ bytes_in + Buf >= params.total

WholeUnlessHidden ==
  params.codec \in {"none", "zstd"} \/ bytes_in < params.capacity => ImageIsWhole

\* Where the worker is decides what it will report, and what it has reported.
ReportIsEarned ==
  /\ step \in Copying => ok
  /\ step \notin Copying /\ ok => EndReached
  /\ step = "return" /\ ok => WholeUnlessHidden
  /\ outcome # "None" => thread # "running"
  /\ thread # "running" => step = "done"
  /\ outcome = "Finished" => EndReached /\ WholeUnlessHidden

\* Nothing on the way of a healthy backup can fail.
HealthyGoesWell ==
  Healthy =>
    /\ ok
    /\ step \notin Copying => bytes_in = params.len
    /\ thread # "running" => outcome = "Finished"

BInv == BTypes /\ UnitsAddUp /\ ReportIsEarned /\ HealthyGoesWell
=============================================================================
