------------------------------ MODULE Session ------------------------------
(***************************************************************************)
(* One session of the TUI: the worker thread started by spawn_backup, the  *)
(* mpsc channel it reports through, the atomic bytes_out counter it shares *)
(* with the UI, and BackupProgress::poll, which the event loop calls once  *)
(* per frame.                                                              *)
(*                                                                         *)
(* The worker is abstract: it reads and writes some bytes, may report      *)
(* them, and ends by sending exactly one Finished or Failed, or by         *)
(* panicking without a word.  Backup and Flash replace it by do_backup     *)
(* and do_flash.  poll is modelled one try_recv at a time, because the     *)
(* worker runs between any two of them.                                    *)
(***************************************************************************)
EXTENDS Naturals, Sequences

CONSTANTS
  MaxIn,      \* bytes the source holds: no worker counts past it
  MaxOut,     \* bytes the worker can write
  MaxQueued,  \* bound on unread events: ticks are withheld beyond it
  CanPanic,   \* can this worker's thread unwind without a terminal event?
  None        \* the absent value of Option<u64>

ASSUME SessionAssumption ==
  /\ MaxIn \in Nat
  /\ MaxOut \in Nat
  /\ MaxQueued \in Nat
  /\ CanPanic \in BOOLEAN
  /\ None \notin Nat

VARIABLES
  thread,       \* worker: "running", "reported" (terminal event sent), "gone"
  outcome,      \* the terminal event the worker sent, "None" before it
  bytes_in,     \* worker's count of source bytes
  bytes_out,    \* Arc<AtomicU64>: bytes written, shared with the UI
  chan,         \* events sent and not received yet
  poll,         \* UI: "idle", "draining", "joining", "refreshing"
  status,       \* BackupProgress.status
  ui_in,        \* BackupProgress.bytes_in
  ui_out,       \* BackupProgress.bytes_out
  last_in,      \* BackupProgress.last_bytes_in_at_tick
  total_bytes,  \* BackupProgress.params.total_bytes
  shown         \* history: what the last drawn frame said

worker == <<thread, outcome, bytes_in, bytes_out>>
ui     == <<poll, status, ui_in, ui_out, last_in, total_bytes, shown>>
vars   == <<worker, chan, ui>>

Outcomes == {"Finished", "Failed"}

Started(t)     == [kind |-> "Started", total_bytes |-> t]
Tick(n, m)     == [kind |-> "Tick", bytes_in |-> n, bytes_out |-> m]
Finished(n, m) == [kind |-> "Finished", bytes_in |-> n, bytes_out |-> m]
Failed         == [kind |-> "Failed"]

Events ==
  [kind : {"Started"}, total_bytes : Nat]
    \cup [kind : {"Tick", "Finished"}, bytes_in : Nat, bytes_out : Nat]
    \cup [kind : {"Failed"}]

Frames == [status : {"Running"} \cup Outcomes, bytes_in : Nat, bytes_out : Nat]

TypeOK ==
  /\ thread \in {"running", "reported", "gone"}
  /\ outcome \in {"None"} \cup Outcomes
  /\ bytes_in \in Nat
  /\ bytes_out \in Nat
  /\ chan \in Seq(Events)
  /\ poll \in {"idle", "draining", "joining", "refreshing"}
  /\ status \in {"Running"} \cup Outcomes
  /\ ui_in \in Nat
  /\ ui_out \in Nat
  /\ last_in \in Nat
  /\ total_bytes \in Nat \cup {None}
  /\ shown \in Frames

-----------------------------------------------------------------------------
Frame == [status |-> status, bytes_in |-> ui_in, bytes_out |-> ui_out]

\* Everything but the worker's own program counter and the total the caller
\* knows when it builds BackupParams.
InitSession ==
  /\ outcome = "None"
  /\ bytes_in = 0 /\ bytes_out = 0
  /\ chan = <<>>
  /\ poll = "idle"
  /\ status = "Running"
  /\ ui_in = 0 /\ ui_out = 0 /\ last_in = 0
  /\ shown = Frame
  /\ thread = "running"

Init ==
  /\ InitSession
  /\ total_bytes \in (0..MaxIn) \cup {None}

-----------------------------------------------------------------------------
(* The worker thread. *)

Emit(e) == chan' = Append(chan, e)

\* Sending can be skipped at will (the tick throttle is a clock), so the
\* bound on the queue takes no behaviour away from the rest of the system.
MayEmit == Len(chan) < MaxQueued

\* Sent once the tree has been walked and before anything is read.
SendStarted(t) ==
  /\ thread = "running" /\ MayEmit
  /\ bytes_in = 0 /\ bytes_out = 0
  /\ Emit(Started(t))
  /\ UNCHANGED <<worker, ui>>

Move(n, m) ==
  /\ thread = "running"
  /\ bytes_in + n <= MaxIn /\ bytes_out + m <= MaxOut
  /\ bytes_in' = bytes_in + n
  /\ bytes_out' = bytes_out + m
  /\ UNCHANGED <<thread, outcome, chan, ui>>

\* Mutant: a Tick may carry a literal zero, as the one that names the format.
SendTickZero ==
  /\ thread = "running" /\ MayEmit
  /\ \E n \in {0, bytes_in} : Emit(Tick(n, bytes_out))
  /\ UNCHANGED <<worker, ui>>

SendTick ==
  /\ thread = "running" /\ MayEmit
  /\ Emit(Tick(bytes_in, bytes_out))
  /\ UNCHANGED <<worker, ui>>

\* Mutant: the outcome is reported before the work is over.
ReportEarly(o, e) ==
  /\ thread = "running"
  /\ outcome' = o
  /\ Emit(e)
  /\ UNCHANGED <<thread, bytes_in, bytes_out, ui>>

Report(o, e) ==
  /\ thread = "running"
  /\ thread' = "reported"
  /\ outcome' = o
  /\ Emit(e)
  /\ UNCHANGED <<bytes_in, bytes_out, ui>>

SendFinished == Report("Finished", Finished(bytes_in, bytes_out))
SendFailed   == Report("Failed", Failed)

\* The closure returns: the sender is dropped and the thread ends.
Exit ==
  /\ thread = "reported"
  /\ thread' = "gone"
  /\ UNCHANGED <<outcome, bytes_in, bytes_out, chan, ui>>

\* Unwinding drops the sender; no terminal event was sent.
Panic ==
  /\ CanPanic
  /\ thread = "running"
  /\ thread' = "gone"
  /\ UNCHANGED <<outcome, bytes_in, bytes_out, chan, ui>>

-----------------------------------------------------------------------------
(* The UI thread: BackupProgress::poll, then the frame that follows it. *)

BeginPoll ==
  /\ poll = "idle"
  /\ poll' = "draining"
  /\ UNCHANGED <<worker, chan, status, ui_in, ui_out, last_in, total_bytes, shown>>

Receive(kind) ==
  /\ poll = "draining"
  /\ chan # <<>> /\ Head(chan).kind = kind
  /\ chan' = Tail(chan)

RecvStarted ==
  /\ Receive("Started")
  /\ total_bytes' = Head(chan).total_bytes
  /\ UNCHANGED <<worker, poll, status, ui_in, ui_out, last_in, shown>>

RecvTick ==
  /\ Receive("Tick")
  /\ last_in' = Head(chan).bytes_in
  /\ ui_in' = Head(chan).bytes_in
  /\ ui_out' = Head(chan).bytes_out
  /\ UNCHANGED <<worker, poll, status, total_bytes, shown>>

\* Mutant: Finished is counted like a Tick.
RecvFinishedRunning ==
  /\ Receive("Finished")
  /\ ui_in' = Head(chan).bytes_in
  /\ ui_out' = Head(chan).bytes_out
  /\ poll' = "joining"
  /\ UNCHANGED <<worker, status, last_in, total_bytes, shown>>

\* Mutant: the final counters are ignored.
RecvFinishedStale ==
  /\ Receive("Finished")
  /\ status' = "Finished"
  /\ poll' = "joining"
  /\ UNCHANGED <<worker, ui_in, ui_out, last_in, total_bytes, shown>>

RecvFinished ==
  /\ Receive("Finished")
  /\ ui_in' = Head(chan).bytes_in
  /\ ui_out' = Head(chan).bytes_out
  /\ status' = "Finished"
  /\ poll' = "joining"
  /\ UNCHANGED <<worker, last_in, total_bytes, shown>>

\* Mutant: the error is noted nowhere.
RecvFailedRunning ==
  /\ Receive("Failed")
  /\ poll' = "joining"
  /\ UNCHANGED <<worker, status, ui_in, ui_out, last_in, total_bytes, shown>>

\* Mutant: a failure resets the count.
RecvFailedReset ==
  /\ Receive("Failed")
  /\ status' = "Failed"
  /\ ui_in' = 0
  /\ poll' = "joining"
  /\ UNCHANGED <<worker, ui_out, last_in, total_bytes, shown>>

RecvFailed ==
  /\ Receive("Failed")
  /\ status' = "Failed"
  /\ poll' = "joining"
  /\ UNCHANGED <<worker, ui_in, ui_out, last_in, total_bytes, shown>>

\* join_handle.take() and join(): blocks the UI until the thread has ended.
Join ==
  /\ poll = "joining" /\ thread = "gone"
  /\ poll' = "refreshing"
  /\ UNCHANGED <<worker, chan, status, ui_in, ui_out, last_in, total_bytes, shown>>

\* Empty and Disconnected are handled alike.
RecvNothing ==
  /\ poll = "draining" /\ chan = <<>>
  /\ poll' = "refreshing"
  /\ UNCHANGED <<worker, chan, status, ui_in, ui_out, last_in, total_bytes, shown>>

\* Mutant: the live counter is read only if no event brought a count.
EndPollOnce ==
  /\ poll = "refreshing"
  /\ ui_out' = IF ui_out = shown.bytes_out THEN bytes_out ELSE ui_out
  /\ poll' = "idle"
  /\ UNCHANGED <<worker, chan, status, ui_in, last_in, total_bytes>>
  /\ shown' = Frame'

EndPoll ==
  /\ poll = "refreshing"
  /\ ui_out' = bytes_out
  /\ poll' = "idle"
  /\ UNCHANGED <<worker, chan, status, ui_in, last_in, total_bytes>>
  /\ shown' = Frame'

-----------------------------------------------------------------------------
Worker ==
  \/ \E t \in 0..MaxIn : SendStarted(t)
  \/ \E n \in 0..MaxIn, m \in 0..MaxOut : Move(n, m)
  \/ SendTick
  \/ SendFinished
  \/ SendFailed
  \/ Exit
  \/ Panic

UI ==
  \/ BeginPoll
  \/ RecvStarted \/ RecvTick \/ RecvFinished \/ RecvFailed
  \/ Join
  \/ RecvNothing
  \/ EndPoll

Next == Worker \/ UI

Spec == Init /\ [][Next]_vars

\* The event loop polls every session on every frame; a worker's loop moves
\* at least one byte per turn of a finite source, so it gets to its end.
Fairness ==
  /\ WF_vars(UI)
  /\ WF_vars(SendFinished \/ SendFailed)
  /\ WF_vars(Exit)

FairSpec == Spec /\ Fairness

-----------------------------------------------------------------------------
(* Properties. *)

\* poll computes (bytes_in - last_bytes_in_at_tick) in u64: when a Tick is
\* about to be applied, the subtraction does not underflow, however many
\* events the worker queued since the last frame.
NoRateUnderflow ==
  poll = "draining" /\ chan # <<>> /\ Head(chan).kind = "Tick"
    => Head(chan).bytes_in >= last_in

\* The UI thread calls join() only on a worker that has nothing left to do:
\* a frame never waits for a copy in progress.
JoinIsShort == poll = "joining" => outcome # "None" /\ thread # "running"

\* The terminal event is not lost, not duplicated and not overtaken: until
\* the UI knows the outcome it is the last event of the queue and the only
\* one of its kind; poll stops there, so nothing may be queued behind it.
TerminalIsLast ==
  /\ \A i \in 1..Len(chan) :
       chan[i].kind \in Outcomes => i = Len(chan) /\ chan[i].kind = outcome
  /\ outcome # "None" /\ status = "Running"
       => chan # <<>> /\ chan[Len(chan)].kind = outcome
  /\ status # "Running" => chan = <<>> /\ status = outcome

\* A frame that says Finished shows the worker's final counters, the bytes
\* the encoder wrote when it was dropped included; no frame is ever ahead of
\* the worker.
FrameIsExact ==
  /\ shown.bytes_in <= bytes_in /\ shown.bytes_out <= bytes_out
  /\ shown.status = "Finished"
       => shown.bytes_in = bytes_in /\ shown.bytes_out = bytes_out

\* From frame to frame the byte counts never go backwards, although every
\* Tick first sets bytes_out to a value older than the live counter, and a
\* finished or failed session stays so.
FramesAdvance ==
  [][/\ shown'.bytes_in >= shown.bytes_in
     /\ shown'.bytes_out >= shown.bytes_out
     /\ shown.status # "Running" => shown'.status = shown.status]_vars

\* The outcome the worker reported reaches the screen.
OutcomeIsShown ==
  \A o \in Outcomes : (outcome = o) ~> (shown.status = o)

-----------------------------------------------------------------------------
(* The inductive invariant behind them. *)

Counted == {"Tick", "Finished"}

\* The counts in the queue are sorted, between what the UI has applied and
\* what the worker has reached.
QueueIsSorted ==
  /\ \A i \in 1..Len(chan) : chan[i].kind \in Counted =>
       /\ ui_in <= chan[i].bytes_in /\ chan[i].bytes_in <= bytes_in
       /\ chan[i].bytes_out <= bytes_out
  /\ \A i, j \in 1..Len(chan) :
       i < j /\ chan[i].kind \in Counted /\ chan[j].kind \in Counted
         => chan[i].bytes_in <= chan[j].bytes_in
  /\ last_in <= ui_in /\ ui_in <= bytes_in

\* A worker that reported is past its last byte, and says so exactly.
ReportIsFinal ==
  /\ outcome # "None" => thread # "running"
  /\ thread = "reported" => outcome # "None"
  /\ \A i \in 1..Len(chan) : chan[i].kind = "Finished" =>
       chan[i].bytes_in = bytes_in /\ chan[i].bytes_out = bytes_out

\* What the UI believes about the end of the session is what happened.
UIKnowsOutcome ==
  /\ poll = "joining" => status # "Running"
  /\ status = "Finished" => ui_in = bytes_in
  /\ shown.status # "Running" => shown.status = status
  /\ shown.bytes_in <= ui_in

IInv ==
  /\ TypeOK
  /\ QueueIsSorted
  /\ ReportIsFinal
  /\ TerminalIsLast
  /\ UIKnowsOutcome
  /\ FrameIsExact

\* Session implements Job.
J == INSTANCE Job WITH done <- ui_in
ImplementsJob == J!Spec
=============================================================================
