--------------------------- MODULE SessionProofs ---------------------------
(***************************************************************************)
(* The safety of Session for every source size, every queue bound and both *)
(* values of CanPanic.  IInv is inductive; everything else follows from it *)
(* or from one step taken under it.                                        *)
(***************************************************************************)
EXTENDS Session, TLAPS

-----------------------------------------------------------------------------
(* Facts about the queue. *)

\* An event's kind fixes its fields.
LEMMA EventFields ==
  ASSUME NEW e \in Events
  PROVE  /\ e.kind \in {"Started", "Tick", "Finished", "Failed"}
         /\ e.kind = "Started" => e.total_bytes \in Nat
         /\ e.kind \in Counted => e.bytes_in \in Nat /\ e.bytes_out \in Nat
  BY DEF Events, Counted

\* Everything a worker emits is an event.
LEMMA EmittedEvents ==
  ASSUME NEW n \in Nat, NEW m \in Nat
  PROVE  /\ Started(n) \in Events /\ Started(n).kind = "Started"
         /\ Tick(n, m) \in Events /\ Tick(n, m).kind = "Tick"
         /\ Tick(n, m).bytes_in = n /\ Tick(n, m).bytes_out = m
         /\ Finished(n, m) \in Events /\ Finished(n, m).kind = "Finished"
         /\ Finished(n, m).bytes_in = n /\ Finished(n, m).bytes_out = m
         /\ Failed \in Events /\ Failed.kind = "Failed"
  BY DEF Events, Started, Tick, Finished, Failed

\* Receiving takes the first event and shifts the others down by one.
LEMMA Received ==
  ASSUME chan \in Seq(Events), chan # <<>>, chan' = Tail(chan)
  PROVE  /\ chan' \in Seq(Events)
         /\ Head(chan) \in Events /\ Head(chan) = chan[1]
         /\ 1 \in 1..Len(chan)
         /\ Len(chan') = Len(chan) - 1
         /\ \A i \in 1..Len(chan') : i + 1 \in 1..Len(chan) /\ chan'[i] = chan[i + 1]
  OBVIOUS

\* Sending puts the event behind all others.
LEMMA Sent ==
  ASSUME chan \in Seq(Events), NEW e \in Events, Emit(e)
  PROVE  /\ chan' \in Seq(Events)
         /\ Len(chan') = Len(chan) + 1
         /\ chan' # <<>>
         /\ chan'[Len(chan) + 1] = e
         /\ \A i \in 1..Len(chan) : chan'[i] = chan[i]
  BY DEF Emit

-----------------------------------------------------------------------------
(* The initial states, and the steps one by one. *)

LEMMA InitIInv == Init => IInv
  <1> SUFFICES ASSUME Init PROVE IInv
    OBVIOUS
  <1> USE DEF Init, InitSession
  <1>1. chan \in Seq(Events) /\ Len(chan) = 0
    OBVIOUS
  <1>2. shown = [status |-> "Running", bytes_in |-> 0, bytes_out |-> 0]
    BY DEF Frame
  <1>3. TypeOK
    BY <1>1, <1>2, SessionAssumption DEF TypeOK, Frames, Outcomes
  <1>4. QueueIsSorted /\ ReportIsFinal /\ TerminalIsLast
    BY <1>1 DEF QueueIsSorted, ReportIsFinal, TerminalIsLast
  <1>5. UIKnowsOutcome /\ FrameIsExact
    BY <1>2 DEF UIKnowsOutcome, FrameIsExact
  <1> QED
    BY <1>3, <1>4, <1>5 DEF IInv

\* An event that is not terminal and carries at most the current counts
\* may be sent at any time before the report.
LEMMA EmitKeepsIInv ==
  ASSUME IInv, thread = "running", NEW e \in Events, Emit(e),
         e.kind \in {"Started", "Tick"},
         e.kind = "Tick" => e.bytes_in = bytes_in /\ e.bytes_out = bytes_out,
         UNCHANGED <<worker, ui>>
  PROVE  IInv'
  <1> USE DEF IInv, worker, ui
  <1>1. TypeOK'
    BY Sent DEF TypeOK
  <1>2. \A i \in 1..Len(chan') : (i \in 1..Len(chan) /\ chan'[i] = chan[i])
                                \/ (i = Len(chan) + 1 /\ chan'[i] = e)
    BY Sent DEF TypeOK
  <1>3. QueueIsSorted'
    BY <1>2, Sent DEF QueueIsSorted, TypeOK, Counted
  <1>4. ReportIsFinal'
    BY <1>2, Sent DEF ReportIsFinal, TypeOK
  <1>5. TerminalIsLast'
    BY <1>2, Sent DEF TerminalIsLast, ReportIsFinal, TypeOK, Outcomes
  <1>6. UIKnowsOutcome' /\ FrameIsExact'
    BY DEF UIKnowsOutcome, FrameIsExact
  <1> QED
    BY <1>1, <1>3, <1>4, <1>5, <1>6

LEMMA MoveKeepsIInv ==
  ASSUME IInv, NEW n \in 0..MaxIn, NEW m \in 0..MaxOut, Move(n, m)
  PROVE  IInv'
  <1> USE SessionAssumption DEF IInv, Move, ui
  <1>1. TypeOK' /\ n \in Nat /\ m \in Nat
    BY DEF TypeOK
  <1>2. \A i \in 1..Len(chan) : chan[i].kind \in Counted =>
           chan[i].bytes_in \in Nat /\ chan[i].bytes_out \in Nat
    BY EventFields DEF TypeOK
  <1>3. QueueIsSorted'
    BY <1>1, <1>2 DEF QueueIsSorted, TypeOK
  <1>4. \A i \in 1..Len(chan) : chan[i].kind # "Finished"
    BY DEF TerminalIsLast, ReportIsFinal, TypeOK, Outcomes
  <1>5. ReportIsFinal'
    BY <1>4 DEF ReportIsFinal
  <1>6. TerminalIsLast'
    BY DEF TerminalIsLast
  <1>7. status = "Running" /\ shown.status = "Running"
    BY DEF TerminalIsLast, ReportIsFinal, UIKnowsOutcome, TypeOK, Frames, Outcomes
  <1>8. UIKnowsOutcome'
    BY <1>7 DEF UIKnowsOutcome
  <1>9. FrameIsExact'
    BY <1>1, <1>7 DEF FrameIsExact, TypeOK, Frames
  <1> QED
    BY <1>1, <1>3, <1>5, <1>6, <1>8, <1>9

\* The terminal event carries the final counts and closes the queue.
LEMMA ReportKeepsIInv ==
  ASSUME IInv, NEW o \in Outcomes, NEW e \in Events, Report(o, e),
         e.kind = o,
         o = "Finished" => e.bytes_in = bytes_in /\ e.bytes_out = bytes_out
  PROVE  IInv'
  <1> USE DEF IInv, Report, ui
  <1>0. Emit(e)
    OBVIOUS
  <1>1. TypeOK'
    BY <1>0, Sent DEF TypeOK, Outcomes
  <1>2. \A i \in 1..Len(chan') : (i \in 1..Len(chan) /\ chan'[i] = chan[i])
                                \/ (i = Len(chan) + 1 /\ chan'[i] = e)
    BY <1>0, Sent DEF TypeOK
  <1>3. QueueIsSorted'
    <2>1. UNCHANGED <<ui_in, last_in, bytes_in, bytes_out>>
      OBVIOUS
    <2>2. /\ Len(chan) \in Nat /\ Len(chan') = Len(chan) + 1
          /\ ui_in \in Nat /\ bytes_in \in Nat /\ bytes_out \in Nat
      BY <1>0, Sent DEF TypeOK
    <2>3. e.kind \in Counted => e.bytes_in = bytes_in /\ e.bytes_out = bytes_out
      BY DEF Counted, Outcomes
    <2> HIDE DEF Report
    <2> QED
      BY <1>2, <2>1, <2>2, <2>3 DEF QueueIsSorted
  <1>4. outcome = "None" /\ status = "Running"
    BY DEF TerminalIsLast, ReportIsFinal, TypeOK, Outcomes
  <1>5. ReportIsFinal'
    BY <1>0, <1>2, Sent DEF ReportIsFinal, TypeOK, Outcomes
  <1>6. \A i \in 1..Len(chan) : chan[i].kind \notin Outcomes
    BY <1>4 DEF TerminalIsLast, Outcomes
  <1>7. TerminalIsLast'
    BY <1>0, <1>2, <1>4, <1>6, Sent DEF TerminalIsLast, TypeOK
  <1>8. UIKnowsOutcome' /\ FrameIsExact'
    BY DEF UIKnowsOutcome, FrameIsExact
  <1> QED
    BY <1>1, <1>3, <1>5, <1>7, <1>8

\* The thread's end changes nothing but the thread.
LEMMA EndKeepsIInv ==
  ASSUME IInv, Exit \/ Panic
  PROVE  IInv'
  <1> USE DEF IInv, Exit, Panic, ui
  <1>1. TypeOK' /\ QueueIsSorted' /\ TerminalIsLast'
    BY DEF TypeOK, QueueIsSorted, TerminalIsLast
  <1>2. ReportIsFinal' /\ UIKnowsOutcome' /\ FrameIsExact'
    BY DEF ReportIsFinal, UIKnowsOutcome, FrameIsExact, TypeOK
  <1> QED
    BY <1>1, <1>2

-----------------------------------------------------------------------------
(* The steps of the UI. *)

\* Whatever the UI receives, the queue that is left keeps its order.
LEMMA ReceiveKeepsQueue ==
  ASSUME IInv, NEW k \in {"Started", "Tick", "Finished", "Failed"}, Receive(k),
         UNCHANGED worker
  PROVE  /\ chan' \in Seq(Events)
         /\ Head(chan) \in Events
         /\ Head(chan).kind = k
         /\ status = "Running" /\ shown.status = "Running"
         /\ ReportIsFinal'
         /\ k \in Counted =>
              /\ Head(chan).bytes_in \in Nat /\ Head(chan).bytes_out \in Nat
              /\ ui_in <= Head(chan).bytes_in /\ last_in <= Head(chan).bytes_in
              /\ Head(chan).bytes_in <= bytes_in
              /\ \A i \in 1..Len(chan') : chan'[i].kind \in Counted =>
                   Head(chan).bytes_in <= chan'[i].bytes_in
         /\ k \notin Counted => (UNCHANGED <<ui_in, last_in>> => QueueIsSorted')
         /\ k \in Outcomes => chan' = <<>> /\ outcome = k
         /\ k \notin Outcomes => (UNCHANGED status => TerminalIsLast')
  <1> USE DEF IInv, Receive, worker
  <1>0. chan \in Seq(Events) /\ chan # <<>> /\ chan' = Tail(chan)
    BY DEF TypeOK
  <1>1. /\ chan' \in Seq(Events)
        /\ Head(chan) \in Events /\ Head(chan) = chan[1] /\ 1 \in 1..Len(chan)
        /\ Len(chan) \in Nat /\ Len(chan') = Len(chan) - 1
        /\ \A i \in 1..Len(chan') : i + 1 \in 1..Len(chan) /\ chan'[i] = chan[i + 1]
    BY <1>0, Received
  <1>2. Head(chan).kind = k
    OBVIOUS
  <1>3. status = "Running" /\ shown.status = "Running"
    BY <1>0 DEF TerminalIsLast, UIKnowsOutcome, TypeOK, Frames, Outcomes
  <1>4. ReportIsFinal'
    BY <1>1 DEF ReportIsFinal
  <1>5. ASSUME k \in Counted
        PROVE  /\ Head(chan).bytes_in \in Nat /\ Head(chan).bytes_out \in Nat
               /\ ui_in <= Head(chan).bytes_in /\ last_in <= Head(chan).bytes_in
               /\ Head(chan).bytes_in <= bytes_in
               /\ \A i \in 1..Len(chan') : chan'[i].kind \in Counted =>
                    Head(chan).bytes_in <= chan'[i].bytes_in
    <2>1. Head(chan).bytes_in \in Nat /\ Head(chan).bytes_out \in Nat
      BY <1>1, <1>2, <1>5, EventFields
    <2>2. \A i \in 1..Len(chan') : 1 < i + 1
      BY <1>1
    <2> QED
      BY <1>1, <1>2, <1>5, <2>1, <2>2 DEF QueueIsSorted, TypeOK
  <1>6. ASSUME UNCHANGED <<ui_in, last_in>> PROVE QueueIsSorted'
    <2>1. \A i, j \in 1..Len(chan') : i < j => i + 1 < j + 1
      OBVIOUS
    <2> QED
      BY <1>1, <1>6, <2>1 DEF QueueIsSorted
  <1>7. ASSUME k \in Outcomes PROVE chan' = <<>> /\ outcome = k
    <2>1. Len(chan) = 1 /\ outcome = k
      BY <1>1, <1>2, <1>7 DEF TerminalIsLast
    <2> QED
      BY <1>1, <2>1
  <1>8. ASSUME k \notin Outcomes, UNCHANGED status PROVE TerminalIsLast'
    <2>1. \A i \in 1..Len(chan') : chan'[i].kind \in Outcomes =>
             i = Len(chan') /\ chan'[i].kind = outcome
      <3> SUFFICES ASSUME NEW i \in 1..Len(chan'), chan'[i].kind \in Outcomes
                   PROVE  i = Len(chan') /\ chan'[i].kind = outcome
        OBVIOUS
      <3>1. i + 1 \in 1..Len(chan) /\ chan'[i] = chan[i + 1]
        BY <1>1
      <3>2. i + 1 = Len(chan) /\ chan[i + 1].kind = outcome
        BY <3>1 DEF TerminalIsLast
      <3>3. i = Len(chan')
        <4> HIDE DEF IInv, Receive, worker
        <4>1. i \in Nat /\ Len(chan) \in Nat /\ Len(chan') = Len(chan) - 1
          BY <1>1
        <4> QED
          BY <3>2, <4>1
      <3> QED
        BY <3>1, <3>2, <3>3
    <2>2. ASSUME outcome # "None"
          PROVE  chan' # <<>> /\ chan'[Len(chan')].kind = outcome
      <3>1. chan[Len(chan)].kind = outcome /\ outcome \in Outcomes
        BY <1>0, <1>3, <2>2 DEF TerminalIsLast, TypeOK
      <3>2. Len(chan) # 1
        BY <1>1, <1>2, <1>8, <3>1
      <3> QED
        <4> HIDE DEF IInv, Receive, worker
        <4>1. Len(chan') \in 1..Len(chan') /\ Len(chan') + 1 = Len(chan)
          BY <1>1, <3>2
        <4> QED
          BY <1>1, <3>1, <4>1
    <2> QED
      BY <1>3, <1>8, <2>1, <2>2 DEF TerminalIsLast
  <1> QED
    BY <1>1, <1>2, <1>3, <1>4, <1>5, <1>6, <1>7, <1>8

LEMMA RecvKeepsIInv ==
  ASSUME IInv, RecvStarted \/ RecvTick \/ RecvFinished \/ RecvFailed
  PROVE  IInv'
  <1> USE DEF IInv
  <1>1. CASE RecvStarted
    <2> USE <1>1, ReceiveKeepsQueue DEF RecvStarted
    <2>1. Receive("Started") /\ UNCHANGED worker
      OBVIOUS
    <2>2. Head(chan).total_bytes \in Nat
      BY <2>1, EventFields
    <2>3. TypeOK'
      BY <2>1, <2>2 DEF TypeOK, worker
    <2>4. QueueIsSorted' /\ ReportIsFinal' /\ TerminalIsLast'
      BY <2>1 DEF Counted, Outcomes
    <2>5. UIKnowsOutcome' /\ FrameIsExact'
      BY <2>1 DEF UIKnowsOutcome, FrameIsExact, worker
    <2> QED
      BY <2>3, <2>4, <2>5
  <1>2. CASE RecvTick
    <2> USE <1>2, ReceiveKeepsQueue DEF RecvTick
    <2>1. Receive("Tick") /\ UNCHANGED worker /\ "Tick" \in Counted /\ "Tick" \notin Outcomes
      BY DEF Counted, Outcomes
    <2>2. TypeOK'
      BY <2>1 DEF TypeOK, worker
    <2>3. QueueIsSorted'
      <3>1. Receive("Tick") /\ chan # <<>> /\ chan' = Tail(chan) /\ chan \in Seq(Events)
        BY <2>1 DEF Receive, TypeOK
      <3>2. \A i \in 1..Len(chan') : i + 1 \in 1..Len(chan) /\ chan'[i] = chan[i + 1]
        BY <3>1, Received
      <3>3. \A i, j \in 1..Len(chan') : i < j => i + 1 < j + 1
        OBVIOUS
      <3>4. /\ ui_in' = Head(chan).bytes_in /\ last_in' = Head(chan).bytes_in
            /\ bytes_in' = bytes_in /\ bytes_out' = bytes_out
            /\ Head(chan).bytes_in \in Nat /\ Head(chan).bytes_in <= bytes_in
            /\ \A i \in 1..Len(chan') : chan'[i].kind \in Counted =>
                 Head(chan).bytes_in <= chan'[i].bytes_in
        BY <2>1 DEF worker
      <3>5. \A i \in 1..Len(chan') : chan'[i].kind \in Counted =>
              chan'[i].bytes_in <= bytes_in /\ chan'[i].bytes_out <= bytes_out
        BY <3>2 DEF QueueIsSorted
      <3>6. \A i, j \in 1..Len(chan') :
              i < j /\ chan'[i].kind \in Counted /\ chan'[j].kind \in Counted
                => chan'[i].bytes_in <= chan'[j].bytes_in
        BY <3>2, <3>3 DEF QueueIsSorted
      <3> HIDE DEF IInv, RecvTick
      <3> QED
        BY <3>4, <3>5, <3>6 DEF QueueIsSorted
    <2>4. ReportIsFinal' /\ TerminalIsLast'
      BY <2>1
    <2>5. UIKnowsOutcome' /\ FrameIsExact'
      BY <2>1 DEF UIKnowsOutcome, FrameIsExact, worker, TypeOK, Frames
    <2> QED
      BY <2>2, <2>3, <2>4, <2>5
  <1>3. CASE RecvFinished
    <2> USE <1>3, ReceiveKeepsQueue DEF RecvFinished
    <2>1. Receive("Finished") /\ UNCHANGED worker /\ "Finished" \in Counted /\ "Finished" \in Outcomes
      BY DEF Counted, Outcomes
    <2>2. TypeOK'
      BY <2>1 DEF TypeOK, worker
    <2>3. chan' = <<>> /\ outcome = "Finished" /\ Len(chan') = 0
      BY <2>1
    <2>4. Head(chan).bytes_in = bytes_in
      BY <2>1, Received DEF ReportIsFinal, Receive, TypeOK
    <2>5. QueueIsSorted' /\ ReportIsFinal' /\ TerminalIsLast'
      BY <2>1, <2>3, <2>4 DEF QueueIsSorted, TerminalIsLast, worker, TypeOK
    <2>6. UIKnowsOutcome' /\ FrameIsExact'
      BY <2>1, <2>4 DEF UIKnowsOutcome, FrameIsExact, worker, TypeOK, Frames
    <2> QED
      BY <2>2, <2>5, <2>6
  <1>4. CASE RecvFailed
    <2> USE <1>4, ReceiveKeepsQueue DEF RecvFailed
    <2>1. Receive("Failed") /\ UNCHANGED worker /\ "Failed" \notin Counted /\ "Failed" \in Outcomes
      BY DEF Counted, Outcomes
    <2>2. TypeOK'
      BY <2>1 DEF TypeOK, worker
    <2>3. chan' = <<>> /\ outcome = "Failed" /\ Len(chan') = 0
      BY <2>1
    <2>4. QueueIsSorted' /\ ReportIsFinal' /\ TerminalIsLast'
      BY <2>1, <2>3 DEF TerminalIsLast, worker
    <2>5. UIKnowsOutcome' /\ FrameIsExact'
      BY <2>1 DEF UIKnowsOutcome, FrameIsExact, worker, TypeOK, Frames
    <2> QED
      BY <2>2, <2>4, <2>5
  <1> QED
    BY <1>1, <1>2, <1>3, <1>4

\* Beginning, joining and running dry move the UI's program counter only.
LEMMA TurnKeepsIInv ==
  ASSUME IInv, BeginPoll \/ Join \/ RecvNothing
  PROVE  IInv'
  <1> USE DEF IInv, BeginPoll, Join, RecvNothing, worker
  <1>1. TypeOK' /\ QueueIsSorted' /\ TerminalIsLast'
    BY DEF TypeOK, QueueIsSorted, TerminalIsLast
  <1>2. ReportIsFinal' /\ UIKnowsOutcome' /\ FrameIsExact'
    BY DEF ReportIsFinal, UIKnowsOutcome, FrameIsExact
  <1> QED
    BY <1>1, <1>2

\* The frame drawn at the end of a poll.
LEMMA DrawnFrame ==
  ASSUME IInv, EndPoll
  PROVE  /\ shown' \in Frames
         /\ shown'.status = status
         /\ shown'.bytes_in = ui_in
         /\ shown'.bytes_out = bytes_out
  BY DEF IInv, TypeOK, EndPoll, Frame, Frames

LEMMA EndPollKeepsIInv ==
  ASSUME IInv, EndPoll
  PROVE  IInv'
  <1> USE DrawnFrame DEF IInv, worker
  <1>1. /\ UNCHANGED <<thread, outcome, bytes_in, bytes_out, chan, status, ui_in,
                       last_in, total_bytes>>
        /\ ui_out' = bytes_out /\ poll' = "idle"
    BY DEF EndPoll
  <1>2. TypeOK' /\ QueueIsSorted' /\ TerminalIsLast'
    BY <1>1 DEF TypeOK, QueueIsSorted, TerminalIsLast
  <1>3. ReportIsFinal'
    BY <1>1 DEF ReportIsFinal
  <1>4. UIKnowsOutcome' /\ FrameIsExact'
    BY <1>1 DEF UIKnowsOutcome, FrameIsExact, QueueIsSorted, TypeOK
  <1> QED
    BY <1>2, <1>3, <1>4

\* No step of either thread breaks the inductive invariant.
LEMMA NextIInv == IInv /\ [Next]_vars => IInv'
  <1> SUFFICES ASSUME IInv, [Next]_vars PROVE IInv'
    OBVIOUS
  <1>0. bytes_in \in Nat /\ bytes_out \in Nat
    BY DEF IInv, TypeOK
  <1>1. ASSUME NEW t \in 0..MaxIn, SendStarted(t) PROVE IInv'
    BY <1>1, <1>0, SessionAssumption, EmitKeepsIInv, Started(t) \in Events,
       Started(t).kind = "Started" DEF SendStarted, Started, Events
  <1>2. ASSUME NEW n \in 0..MaxIn, NEW m \in 0..MaxOut, Move(n, m) PROVE IInv'
    BY <1>2, MoveKeepsIInv
  <1>3. CASE SendTick
    BY <1>3, <1>0, EmitKeepsIInv, EmittedEvents DEF SendTick
  <1>4. CASE SendFinished
    BY <1>4, <1>0, ReportKeepsIInv, EmittedEvents DEF SendFinished, Outcomes
  <1>5. CASE SendFailed
    BY <1>5, <1>0, ReportKeepsIInv, EmittedEvents DEF SendFailed, Outcomes
  <1>6. CASE Exit \/ Panic
    BY <1>6, EndKeepsIInv
  <1>7. CASE BeginPoll \/ Join \/ RecvNothing
    BY <1>7, TurnKeepsIInv
  <1>8. CASE RecvStarted \/ RecvTick \/ RecvFinished \/ RecvFailed
    BY <1>8, RecvKeepsIInv
  <1>9. CASE EndPoll
    BY <1>9, EndPollKeepsIInv
  <1>10. CASE UNCHANGED vars
    <2> USE <1>10 DEF vars, worker, ui, IInv
    <2>1. TypeOK' /\ QueueIsSorted' /\ TerminalIsLast'
      BY DEF TypeOK, QueueIsSorted, TerminalIsLast
    <2>2. ReportIsFinal' /\ UIKnowsOutcome' /\ FrameIsExact'
      BY DEF ReportIsFinal, UIKnowsOutcome, FrameIsExact
    <2> QED
      BY <2>1, <2>2
  <1> QED
    BY <1>1, <1>2, <1>3, <1>4, <1>5, <1>6, <1>7, <1>8, <1>9, <1>10
    DEF Next, Worker, UI

-----------------------------------------------------------------------------
(* The theorems. *)

\* IInv holds in every reachable state: the queue is sorted between what the
\* UI applied and what the worker reached, and the report is final.
THEOREM SessionInvariant == Spec => []IInv
  BY InitIInv, NextIInv, PTL DEF Spec

\* Every variable keeps the type of the field it models.
THEOREM SessionTypeOK == Spec => []TypeOK
  BY SessionInvariant, PTL DEF IInv

\* poll's u64 subtraction never underflows, for any length of the queue.
THEOREM RateNeverUnderflows == Spec => []NoRateUnderflow
  <1>1. IInv => NoRateUnderflow
    <2> SUFFICES ASSUME IInv, chan # <<>>, Head(chan).kind = "Tick"
                 PROVE  Head(chan).bytes_in >= last_in
      BY DEF NoRateUnderflow
    <2>1. Head(chan) = chan[1] /\ 1 \in 1..Len(chan) /\ Head(chan) \in Events
      BY DEF IInv, TypeOK
    <2>2. ui_in <= Head(chan).bytes_in /\ last_in <= ui_in
      BY <2>1 DEF IInv, QueueIsSorted, Counted
    <2>3. Head(chan).bytes_in \in Nat
      BY <2>1, EventFields DEF Counted
    <2> QED
      BY <2>2, <2>3 DEF IInv, TypeOK
  <1> QED
    BY <1>1, SessionInvariant, PTL

\* join() is called only on a worker that has already reported.
THEOREM JoinNeverWaitsForWork == Spec => []JoinIsShort
  <1>1. IInv => JoinIsShort
    BY DEF IInv, JoinIsShort, UIKnowsOutcome, TerminalIsLast, ReportIsFinal,
           TypeOK, Outcomes
  <1> QED
    BY <1>1, SessionInvariant, PTL

\* The terminal event is the last of the queue and is applied exactly once.
THEOREM TerminalEventIsLast == Spec => []TerminalIsLast
  BY SessionInvariant, PTL DEF IInv

\* No frame is ahead of the worker and a Finished frame is exact.
THEOREM FramesAreExact == Spec => []FrameIsExact
  BY SessionInvariant, PTL DEF IInv

\* From frame to frame the counts only grow and an outcome stays.
THEOREM FramesOnlyAdvance == Spec => FramesAdvance
  <1>1. ASSUME IInv, [Next]_vars
        PROVE  [/\ shown'.bytes_in >= shown.bytes_in
                /\ shown'.bytes_out >= shown.bytes_out
                /\ shown.status # "Running" => shown'.status = shown.status]_vars
    <2>0. shown.bytes_in \in Nat /\ shown.bytes_out \in Nat
      BY <1>1 DEF IInv, TypeOK, Frames
    <2>1. CASE EndPoll
      BY <1>1, <2>0, <2>1, DrawnFrame DEF IInv, TypeOK, UIKnowsOutcome, FrameIsExact
    <2>2. CASE UNCHANGED shown
      BY <2>0, <2>2
    <2>3. EndPoll \/ UNCHANGED shown
      BY <1>1 DEF Next, Worker, UI, vars, worker, ui, SendStarted, Move, SendTick,
         SendFinished, SendFailed, Report, Exit, Panic, BeginPoll, RecvStarted,
         RecvTick, RecvFinished, RecvFailed, Join, RecvNothing
    <2> QED
      BY <2>1, <2>2, <2>3
  <1> QED
    BY <1>1, SessionInvariant, PTL DEF Spec, FramesAdvance

\* Session implements Job: its initial states are initial, and every step
\* is a step of the abstract job or leaves what it shows unchanged.
THEOREM SessionImplementsJob == Spec => ImplementsJob
  <1>1. Init => J!Init
    BY DEF Init, InitSession, J!Init
  <1>2. ASSUME IInv, IInv', [Next]_vars
        PROVE  [J!Next]_(J!vars)
    <2> USE DEF J!Next, J!vars, J!Grow
    <2>1. CASE RecvTick
      <3>1. /\ Head(chan).bytes_in \in Nat /\ ui_in <= Head(chan).bytes_in
            /\ status = "Running"
        BY <1>2, <2>1, ReceiveKeepsQueue DEF RecvTick, Counted
      <3> QED
        BY <1>2, <2>1, <3>1 DEF RecvTick, J!Advance, IInv, TypeOK
    <2>2. CASE RecvFinished
      <3>1. /\ Head(chan).bytes_in \in Nat /\ ui_in <= Head(chan).bytes_in
            /\ status = "Running"
        BY <1>2, <2>2, ReceiveKeepsQueue DEF RecvFinished, Counted
      <3> QED
        BY <1>2, <2>2, <3>1 DEF RecvFinished, J!Complete, IInv, TypeOK
    <2>3. CASE RecvFailed
      <3>1. status = "Running"
        BY <1>2, <2>3, ReceiveKeepsQueue DEF RecvFailed
      <3> QED
        BY <2>3, <3>1 DEF RecvFailed, J!Fail
    <2>4. CASE UNCHANGED <<status, ui_in>>
      BY <2>4
    <2>5. RecvTick \/ RecvFinished \/ RecvFailed \/ UNCHANGED <<status, ui_in>>
      BY <1>2 DEF Next, Worker, UI, vars, worker, ui, SendStarted, Move, SendTick,
         SendFinished, SendFailed, Report, Exit, Panic, BeginPoll, RecvStarted,
         Join, RecvNothing, EndPoll
    <2> QED
      BY <2>1, <2>2, <2>3, <2>4, <2>5
  <1> QED
    BY <1>1, <1>2, SessionInvariant, PTL DEF Spec, ImplementsJob, J!Spec
=============================================================================
