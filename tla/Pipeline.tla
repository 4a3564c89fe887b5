------------------------------ MODULE Pipeline ------------------------------
(***************************************************************************)
(* The streaming pipeline of the core crate: reader::pump fills buffers    *)
(* from a source and sends them through a bounded tokio channel to         *)
(* writer::pump, which writes them out; both share a BufferPool, a stack   *)
(* of allocations behind a mutex.                                          *)
(*                                                                         *)
(* Both pumps are blocking tasks and run at once.  An allocation is an     *)
(* identity with a content of Cap cells that survives its recycling; a     *)
(* Buffer is an allocation somebody owns, with a length.  Units of the     *)
(* source are its positions 1..len, so what is written shows where it came *)
(* from.                                                                   *)
(***************************************************************************)
EXTENDS Naturals, Sequences, FiniteSets, Functions

CONSTANTS
  SourceLen,  \* units the source holds
  Cap,        \* BufferPool.buf_size
  Depth,      \* capacity of the channel
  Initial,    \* allocations the pool starts with
  Bufs,       \* identities of allocations
  Jobs,       \* the sources and sinks considered
  None        \* no unit, no buffer

Params == [bad      : (1..SourceLen) \cup {None},  \* the unreadable unit, if any
           capacity : 0..SourceLen,              \* units the sink can take
           flushes  : BOOLEAN]                   \* does its flush succeed?

ASSUME PipelineAssumption ==
  /\ SourceLen \in Nat /\ Initial \in Nat
  /\ Cap \in Nat \ {0} /\ Depth \in Nat \ {0}   \* mpsc::channel(0) panics
  /\ IsFiniteSet(Bufs) /\ Cardinality(Bufs) > Initial + Depth + 2
  /\ None \notin Bufs \cup Nat
  /\ Jobs \subseteq Params

VARIABLES
  params,  \* the job; never changes
  live,    \* allocations not yet given back to the system
  free,    \* BufferPool.free, a stack
  lock,    \* who holds its mutex: "none", "reader", "writer"
  mem,     \* content of every allocation
  len,     \* Buffer.len of every allocation that is owned
  chan,    \* buffers sent and not received
  rx_open, \* does the Receiver still exist?
  rpc, rbuf, rtotal, rresult,  \* reader: where, what it owns, total, result
  wpc, wbuf, wtotal, wresult,  \* writer, likewise
  file     \* units the sink has taken

pool   == <<live, free, lock>>
reader == <<rpc, rbuf, rtotal, rresult>>
writer == <<wpc, wbuf, wtotal, wresult, file>>
vars   == <<params, pool, mem, len, chan, rx_open, reader, writer>>

Results == {"None", "Ok", "Err"}

TypeOK ==
  /\ params \in Jobs
  /\ live \subseteq Bufs
  /\ free \in Seq(Bufs)
  /\ lock \in {"none", "reader", "writer"}
  /\ mem \in [Bufs -> [1..Cap -> 0..SourceLen]]
  /\ len \in [Bufs -> 0..Cap]
  /\ chan \in Seq(Bufs) /\ Len(chan) <= Depth
  /\ rx_open \in BOOLEAN
  /\ rpc \in {"lock", "pop", "read", "send", "drop", "push", "returned"}
  /\ wpc \in {"recv", "write", "drop", "push", "flush", "close", "returned"}
  /\ rbuf \in Bufs \cup {None} /\ wbuf \in Bufs \cup {None}
  /\ rtotal \in Nat /\ wtotal \in Nat
  /\ rresult \in Results /\ wresult \in Results
  /\ file \in Seq(1..SourceLen)

-----------------------------------------------------------------------------
(* BufferPool. *)

\* Which address the allocator gives does not matter.
Fresh == CHOOSE b \in Bufs : b \notin live

FirstBufs == CHOOSE s \in [1..Initial -> Bufs] : IsInjective(s)

Init ==
  /\ params \in Jobs
  /\ free = FirstBufs /\ live = Range(free)
  /\ lock = "none"
  /\ mem = [b \in Bufs |-> [i \in 1..Cap |-> 0]]
  /\ len = [b \in Bufs |-> 0]
  /\ chan = <<>> /\ rx_open = TRUE
  /\ rpc = "lock" /\ rbuf = None /\ rtotal = 0 /\ rresult = "None"
  /\ wpc = "recv" /\ wbuf = None /\ wtotal = 0 /\ wresult = "None"
  /\ file = <<>>

\* Mutant: every buffer is allocated, the pool only grows.
TakeFresh ==
  /\ rbuf' = Fresh
  /\ live' = live \cup {Fresh}
  /\ UNCHANGED free

\* The pop of acquire, under the lock, and the allocation when there is
\* nothing to pop.
Take ==
  \/ /\ free # <<>>
     /\ rbuf' = free[Len(free)]
     /\ free' = SubSeq(free, 1, Len(free) - 1)
     /\ UNCHANGED live
  \/ /\ free = <<>>
     /\ rbuf' = Fresh
     /\ live' = live \cup {Fresh}
     /\ UNCHANGED free

\* Drop of buffer b by task t: a pool that is locked right now is not waited
\* for, the allocation is given back to the system.
TryLock(t) == lock = "none" /\ lock' = t /\ UNCHANGED <<live, free>>

Dealloc(b) == lock # "none" /\ live' = live \ {b} /\ UNCHANGED <<free, lock>>

\* Mutant: without the early return the allocation is pushed and freed.
PushAndFree(t, b) ==
  /\ lock = t /\ lock' = "none"
  /\ free' = Append(free, b)
  /\ live' = live \ {b}

Push(t, b) ==
  /\ lock = t /\ lock' = "none"
  /\ free' = Append(free, b)
  /\ UNCHANGED live

-----------------------------------------------------------------------------
(* reader::pump *)

RAcquire ==
  /\ rpc = "lock" /\ lock = "none"
  /\ lock' = "reader" /\ rpc' = "pop"
  /\ UNCHANGED <<params, live, free, mem, len, chan, rx_open, rbuf, rtotal, rresult, writer>>

RPop ==
  /\ rpc = "pop"
  /\ Take /\ lock' = "none"
  /\ len' = [len EXCEPT ![rbuf'] = 0]
  /\ rpc' = "read"
  /\ UNCHANGED <<params, mem, chan, rx_open, rtotal, rresult, writer>>

\* The next n units overwrite the first n cells; the rest keeps what the
\* allocation held before.
Filled(b, n) == [i \in 1..Cap |-> IF i <= n THEN rtotal + i ELSE mem[b][i]]

\* Mutant: the length of a recycled buffer is its capacity.
RReadFull(n) ==
  /\ rpc = "read"
  /\ rtotal + n <= SourceLen
  /\ params.bad \notin rtotal + 1 .. rtotal + n
  /\ mem' = [mem EXCEPT ![rbuf] = Filled(rbuf, n)]
  /\ len' = [len EXCEPT ![rbuf] = Cap]
  /\ rtotal' = rtotal + n
  /\ rpc' = "send"
  /\ UNCHANGED <<params, pool, chan, rx_open, rbuf, rresult, writer>>

\* A read may deliver less than asked.  The total counts the units before
\* anybody has received them.
RRead(n) ==
  /\ rpc = "read"
  /\ rtotal + n <= SourceLen
  /\ params.bad \notin rtotal + 1 .. rtotal + n
  /\ mem' = [mem EXCEPT ![rbuf] = Filled(rbuf, n)]
  /\ len' = [len EXCEPT ![rbuf] = n]
  /\ rtotal' = rtotal + n
  /\ rpc' = "send"
  /\ UNCHANGED <<params, pool, chan, rx_open, rbuf, rresult, writer>>

\* Ok(0), or an error with the bad unit within what was asked for.
REnd(r) ==
  /\ rpc = "read"
  /\ \/ r = "Ok" /\ rtotal = SourceLen
     \/ r = "Err" /\ params.bad \in rtotal + 1 .. rtotal + Cap
  /\ rresult' = r
  /\ rpc' = "drop"
  /\ UNCHANGED <<params, pool, mem, len, chan, rx_open, rbuf, rtotal, writer>>

\* Waits while the channel is full.
RSend ==
  /\ rpc = "send"
  /\ rx_open /\ Len(chan) < Depth
  /\ chan' = Append(chan, rbuf)
  /\ rbuf' = None /\ rpc' = "lock"
  /\ UNCHANGED <<params, pool, mem, len, rx_open, rtotal, rresult, writer>>

\* Mutant: a failed send is tried again.
RSendRetries == rpc = "send" /\ ~rx_open /\ UNCHANGED vars

\* The receiver is gone: the error carries the buffer, which is dropped, and
\* the pump returns Ok with units nobody received in its total.
RSendFails ==
  /\ rpc = "send" /\ ~rx_open
  /\ rresult' = "Ok"
  /\ rpc' = "drop"
  /\ UNCHANGED <<params, pool, mem, len, chan, rx_open, rbuf, rtotal, writer>>

RDrop ==
  /\ rpc = "drop"
  /\ \/ TryLock("reader") /\ rpc' = "push" /\ UNCHANGED rbuf
     \/ Dealloc(rbuf) /\ rpc' = "returned" /\ rbuf' = None
  /\ UNCHANGED <<params, mem, len, chan, rx_open, rtotal, rresult, writer>>

RPush ==
  /\ rpc = "push"
  /\ Push("reader", rbuf)
  /\ rpc' = "returned" /\ rbuf' = None
  /\ UNCHANGED <<params, mem, len, chan, rx_open, rtotal, rresult, writer>>

-----------------------------------------------------------------------------
(* writer::pump *)

WRecv ==
  /\ wpc = "recv" /\ chan # <<>>
  /\ wbuf' = Head(chan) /\ chan' = Tail(chan)
  /\ wpc' = "write"
  /\ UNCHANGED <<params, pool, mem, len, rx_open, reader, wtotal, wresult, file>>

\* recv gives None when the Sender is gone and the channel is empty.
WRecvClosed ==
  /\ wpc = "recv" /\ chan = <<>> /\ rpc = "returned"
  /\ wpc' = "flush"
  /\ UNCHANGED <<params, pool, mem, len, chan, rx_open, reader, wbuf, wtotal, wresult, file>>

AsSlice(b) == SubSeq(mem[b], 1, len[b])

Room == params.capacity - Len(file)

WWrite ==
  /\ wpc = "write" /\ len[wbuf] <= Room
  /\ file' = file \o AsSlice(wbuf)
  /\ wtotal' = wtotal + len[wbuf]
  /\ wpc' = "drop"
  /\ UNCHANGED <<params, pool, mem, len, chan, rx_open, reader, wbuf, wresult>>

\* write_all fails with part of the buffer written.
WWriteError ==
  /\ wpc = "write" /\ len[wbuf] > Room
  /\ file' = file \o SubSeq(AsSlice(wbuf), 1, Room)
  /\ wresult' = "Err"
  /\ wpc' = "drop"
  /\ UNCHANGED <<params, pool, mem, len, chan, rx_open, reader, wbuf, wtotal>>

AfterDrop == IF wresult = "None" THEN "recv" ELSE "close"

WDrop ==
  /\ wpc = "drop"
  /\ \/ TryLock("writer") /\ wpc' = "push" /\ UNCHANGED wbuf
     \/ Dealloc(wbuf) /\ wpc' = AfterDrop /\ wbuf' = None
  /\ UNCHANGED <<params, mem, len, chan, rx_open, reader, wtotal, wresult, file>>

WPush ==
  /\ wpc = "push"
  /\ Push("writer", wbuf)
  /\ wpc' = AfterDrop /\ wbuf' = None
  /\ UNCHANGED <<params, mem, len, chan, rx_open, reader, wtotal, wresult, file>>

WFlush ==
  /\ wpc = "flush"
  /\ wresult' = IF params.flushes THEN "Ok" ELSE "Err"
  /\ wpc' = "close"
  /\ UNCHANGED <<params, pool, mem, len, chan, rx_open, reader, wbuf, wtotal, file>>

\* The closure ends and its Receiver with it: the channel is closed and the
\* buffers in it are dropped one by one, each by Buffer's own Drop.
WClose ==
  /\ wpc = "close"
  /\ rx_open' = FALSE
  /\ IF chan = <<>>
     THEN wpc' = "returned" /\ UNCHANGED <<wbuf, chan>>
     ELSE wpc' = "drop" /\ wbuf' = Head(chan) /\ chan' = Tail(chan)
  /\ UNCHANGED <<params, pool, mem, len, reader, wtotal, wresult, file>>

-----------------------------------------------------------------------------
Reader ==
  \/ RAcquire \/ RPop
  \/ (\E n \in 1..Cap : RRead(n)) \/ (\E r \in {"Ok", "Err"} : REnd(r))
  \/ RSend \/ RSendFails \/ RDrop \/ RPush

Writer ==
  \/ WRecv \/ WRecvClosed
  \/ WWrite \/ WWriteError
  \/ WDrop \/ WPush \/ WFlush \/ WClose

Done == rpc = "returned" /\ wpc = "returned"

\* Both tasks have been joined; the pool outlives them.
Idle == Done /\ UNCHANGED vars

Next == Reader \/ Writer \/ Idle

Spec == Init /\ [][Next]_vars

\* Each pump has a thread of the blocking pool to itself, and the source and
\* the sink answer.
FairSpec == Spec /\ WF_vars(Reader) /\ WF_vars(Writer)

-----------------------------------------------------------------------------
(* Properties. *)

Abstract == INSTANCE Pipe WITH
  Window <- (Depth + 2) * Cap,
  taken <- rtotal, delivered <- file, told <- wtotal,
  in_end <- rresult, out_end <- wresult

\* Whatever the pace of the two pumps, the units arrive in order, none twice,
\* none stale from a recycled buffer and none missing; backpressure holds the
\* reader within the channel and the two buffers in hand; and an Ok of the
\* writer means that all the reader sent is written.
ImplementsPipe == Abstract!Spec

Places == Range(free) \cup Range(chan) \cup ({rbuf, wbuf} \ {None})

\* No allocation is used after it was freed, none is lost, and no two owners
\* share one: the places a buffer can be in account for every live one.
BuffersAddUp ==
  /\ Places = live
  /\ Cardinality(live) =
       Len(free) + Len(chan) + Cardinality({rbuf} \ {None}) + Cardinality({wbuf} \ {None})

\* "No unbounded memory growth on a fast SSD writing to a slow USB stick":
\* the pool never holds more than it started with or than can be in use.
MemoryIsBounded ==
  Cardinality(live) <= Initial \/ Cardinality(live) <= Depth + 2

\* Neither pump waits for the other for ever: a full channel whose writer has
\* failed releases the reader, an empty one whose reader is done the writer.
PumpsEnd == <>Done

-----------------------------------------------------------------------------
(* The inductive invariant behind them. *)

\* Where a pump is decides whether it owns a buffer and holds the lock.
WhoHolds ==
  /\ rbuf # None <=> rpc \in {"read", "send", "drop", "push"}
  /\ wbuf # None <=> wpc \in {"write", "drop", "push"}
  /\ lock = "reader" <=> rpc \in {"pop", "push"}
  /\ lock = "writer" <=> wpc = "push"

\* And how it ended, if it did.
HowTheyEnd ==
  /\ rresult = "None" <=> rpc \in {"lock", "pop", "read", "send"}
  /\ wresult = "None" => rx_open /\ wpc \in {"recv", "write", "drop", "push", "flush"}
  /\ wresult # "None" => wpc \in {"drop", "push", "close", "returned"}
  /\ wpc = "flush" \/ wresult = "Ok" => rpc = "returned" /\ chan = <<>>

OneOwner ==
  /\ IsInjective(free) /\ IsInjective(chan)
  /\ Range(free) \cap Range(chan) = {}
  /\ {rbuf, wbuf} \cap (Range(free) \cup Range(chan)) = {}
  /\ rbuf = wbuf => rbuf = None
  /\ Places = live

\* The units in a buffer follow one another, and there is at least one.
First(b) == mem[b][1]
Behind(b) == mem[b][1] + len[b]
Run(b) == len[b] >= 1 /\ \A i \in 1..len[b] : mem[b][i] = mem[b][1] + i - 1

\* The first unit that is not in the channel yet, the first behind those the
\* writer has in hand, and the first of the k-th buffer sent.
NextSent == IF rpc = "send" THEN First(rbuf) ELSE rtotal + 1
NextReceived == IF wpc = "write" THEN Behind(wbuf) ELSE wtotal + 1
StartOf(k) == IF k <= Len(chan) THEN First(chan[k]) ELSE NextSent

\* Until the writer ends, what is under way follows what is written, without
\* a gap, and is no more than the buffers it is in can hold.
UnderWay ==
  wresult = "None" =>
    /\ Len(file) = wtotal
    /\ rpc = "send" => Run(rbuf) /\ Behind(rbuf) = rtotal + 1
    /\ wpc = "write" => Run(wbuf) /\ First(wbuf) = wtotal + 1
    /\ StartOf(1) = NextReceived
    /\ \A k \in 1..Len(chan) : Run(chan[k]) /\ Behind(chan[k]) = StartOf(k + 1)
    /\ \A k \in 1..Len(chan) + 1 :
         StartOf(k) <= NextSent /\ NextSent <= StartOf(k) + (Len(chan) + 1 - k) * Cap

\* After an error the reader goes on for as long as the channel has room.
Overrun ==
  wresult = "Err" =>
    rtotal <= Len(file) + Cap + (IF rx_open THEN Len(chan) ELSE Depth) * Cap
                + (IF rpc \in {"lock", "pop", "read"} THEN 0 ELSE Cap)

PInv ==
  /\ TypeOK
  /\ rtotal <= SourceLen /\ Len(file) <= params.capacity
  /\ WhoHolds /\ HowTheyEnd /\ OneOwner /\ MemoryIsBounded
  /\ UnderWay /\ Overrun
=============================================================================
