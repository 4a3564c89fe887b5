------------------------------- MODULE Flash -------------------------------
(***************************************************************************)
(* do_flash: a worker that decodes an image file and writes it to a block  *)
(* device.  The codec is detected from the first bytes; these are then put *)
(* back in front of the rest of the file.  Like Backup, it replaces        *)
(* Session's abstract worker.                                              *)
(*                                                                         *)
(* An image is a sequence of members (gzip members, zstd frames, xz        *)
(* streams), each of some units; a unit of the file decodes to one unit of *)
(* the device.  gzip stands for the decoders that stop behind the first    *)
(* member, zstd for the one that goes on; brotli and an envelope stand for *)
(* what no magic brings to a decoder.                                      *)
(***************************************************************************)
EXTENDS Session

CONSTANTS
  Buf,   \* BUF_BYTES: the most one read of the decoder returns
  Jobs   \* the BackupParams and circumstances considered

Formats == {"raw", "zstd", "gzip", "brotli", "encrypted"}

Params == [format   : Formats,                 \* what the image really is
           first    : 0..MaxIn,                \* units of its first member
           len      : 0..MaxIn,                \* units of all its members
           damage   : (0..MaxIn) \cup {None},  \* its damaged unit, if any
           medium   : BOOLEAN,                 \* does reading that unit fail, or decoding it?
           capacity : 0..MaxOut,  \* units the device takes: then it ends, or a write fails
           fails    : {None, "source", "decoder", "dest"}]  \* what cannot be opened or made

ASSUME FlashAssumption ==
  /\ Buf \in Nat \ {0}
  /\ MaxQueued > 0
  /\ None \notin {"source", "decoder", "dest"}
  /\ Jobs \subseteq Params
  /\ \A p \in Jobs : p.first <= p.len

VARIABLES
  params,   \* the job; never changes
  step,     \* where do_flash is
  ok,       \* is it on its way to return Ok?
  codec,    \* the decoder chosen
  start,    \* the first unit of the file the decoder gets to see
  decoded,  \* units the decoder has delivered
  chunk     \* units decoded and not yet written

local == <<params, step, ok, codec, start, decoded, chunk>>
fvars == <<vars, local>>

Steps == {"open", "peek", "announce", "init", "open_dest", "decode", "write", "tick",
          "flush", "return", "done"}

FTypeOK ==
  /\ TypeOK
  /\ params \in Jobs
  /\ step \in Steps
  /\ ok \in BOOLEAN
  /\ codec \in {"none", "zstd", "gzip"}
  /\ start \in 0..MaxIn
  /\ decoded \in 0..MaxIn
  /\ chunk \in 0..Buf

FInit ==
  /\ InitSession
  /\ params \in Jobs
  /\ total_bytes = IF params.fails # "source" THEN params.len ELSE None
  /\ step = "open"
  /\ ok = TRUE
  /\ codec = "none"
  /\ start = 0 /\ decoded = 0 /\ chunk = 0

-----------------------------------------------------------------------------
(* The steps of do_flash. *)

At(s) == thread = "running" /\ step = s

Goto(s) == step' = s /\ UNCHANGED params

Silent == UNCHANGED vars

OpenSource ==
  /\ At("open") /\ Silent
  /\ Goto(IF params.fails # "source" THEN "peek" ELSE "return")
  /\ ok' = (params.fails # "source")
  /\ UNCHANGED <<codec, start, decoded, chunk>>

\* format::detect knows an image by its magic bytes.  brotli has none, and what
\* has none is Raw; an envelope has one, and no codec.
Detect == IF params.format \in {"zstd", "gzip"} THEN params.format ELSE "none"

\* Mutant: the head that was peeked at is lost.
PeekConsumes ==
  /\ At("peek") /\ Silent
  /\ codec' = Detect
  /\ start' = 1
  /\ Goto("announce")
  /\ UNCHANGED <<ok, decoded, chunk>>

\* The bytes peeked at are chained back in front of the file.
Peek ==
  /\ At("peek") /\ Silent
  /\ codec' = Detect
  /\ start' = 0
  /\ Goto("announce")
  /\ UNCHANGED <<ok, decoded, chunk>>

\* The damage may be in the first bytes of the file, or behind them.
PeekError ==
  /\ At("peek") /\ Silent
  /\ params.medium /\ params.damage = 0
  /\ ok' = FALSE
  /\ Goto("return")
  /\ UNCHANGED <<codec, start, decoded, chunk>>

\* Mutant: the head is counted before the decoder takes it.
AnnounceHead ==
  /\ At("announce") /\ MayEmit
  /\ Emit(Tick(1, 0))
  /\ UNCHANGED <<worker, ui>>
  /\ Goto("init")
  /\ UNCHANGED <<ok, codec, start, decoded, chunk>>

\* The Tick that names the format carries literal zeros.
Announce ==
  /\ At("announce") /\ MayEmit
  /\ Emit(Tick(0, 0))
  /\ UNCHANGED <<worker, ui>>
  /\ Goto("init")
  /\ UNCHANGED <<ok, codec, start, decoded, chunk>>

InitDecoder ==
  /\ At("init") /\ Silent
  /\ Goto(IF params.fails # "decoder" THEN "open_dest" ELSE "return")
  /\ ok' = (params.fails # "decoder")
  /\ UNCHANGED <<codec, start, decoded, chunk>>

\* Opened for writing: neither created nor truncated.
OpenDest ==
  /\ At("open_dest") /\ Silent
  /\ Goto(IF params.fails # "dest" THEN "decode" ELSE "return")
  /\ ok' = (params.fails # "dest")
  /\ UNCHANGED <<codec, start, decoded, chunk>>

\* GzDecoder stops behind its first member; the zstd decoder goes on with
\* the next frame, and a raw image is read to its end (external).
DecoderEnd == IF codec = "gzip" THEN params.first ELSE params.len

Next1(n) == start + decoded .. start + decoded + n - 1

\* A read that fails is an error in any case, damaged contents only for a
\* decoder.
Noticed == params.medium \/ codec # "none"

\* CountingReader counts what the decoder has taken from the file, which may
\* be more than it has decoded.
Decode(n, ahead) ==
  /\ At("decode")
  /\ n \in 1..Buf /\ start + decoded + n <= DecoderEnd
  /\ Noticed => params.damage \notin Next1(n)
  /\ bytes_in' = IF codec = "none" THEN start + decoded + n
                 ELSE start + decoded + n + ahead
  /\ bytes_in' \in bytes_in .. params.len
  /\ decoded' = decoded + n
  /\ chunk' = n
  /\ Goto("write")
  /\ UNCHANGED <<thread, outcome, bytes_out, chan, ui, ok, codec, start>>

\* Mutant: a decoder that fails is asked again.
DecodeErrorRetries ==
  /\ At("decode") /\ Silent
  /\ Noticed /\ params.damage \in Next1(Buf) /\ params.damage < DecoderEnd
  /\ Goto("decode")
  /\ UNCHANGED <<ok, codec, start, decoded, chunk>>

DecodeError ==
  /\ At("decode") /\ Silent
  /\ Noticed /\ params.damage \in Next1(Buf) /\ params.damage < DecoderEnd
  /\ ok' = FALSE
  /\ Goto("return")
  /\ UNCHANGED <<codec, start, decoded, chunk>>

DecodeEnd ==
  /\ At("decode") /\ Silent
  /\ start + decoded = DecoderEnd
  /\ Goto("flush")
  /\ UNCHANGED <<ok, codec, start, decoded, chunk>>

Room == params.capacity - bytes_out

Write ==
  /\ At("write") /\ chunk <= Room
  /\ bytes_out' = bytes_out + chunk
  /\ chunk' = 0
  /\ Goto("tick")
  /\ UNCHANGED <<thread, outcome, bytes_in, chan, ui, ok, codec, start, decoded>>

\* Mutant: the last unit of the device is taken for its end.
WriteErrorEarly ==
  /\ At("write") /\ chunk >= Room
  /\ bytes_out' = params.capacity
  /\ ok' = FALSE
  /\ Goto("return")
  /\ UNCHANGED <<thread, outcome, bytes_in, chan, ui, codec, start, decoded, chunk>>

\* The device ends before the image does, or cannot write a unit; what was
\* written of the chunk before that may be counted.
WriteError ==
  /\ At("write") /\ chunk > Room
  /\ bytes_out' \in bytes_out .. params.capacity
  /\ ok' = FALSE
  /\ Goto("return")
  /\ UNCHANGED <<thread, outcome, bytes_in, chan, ui, codec, start, decoded, chunk>>

MaybeTick ==
  /\ At("tick")
  /\ SendTick \/ Silent
  /\ Goto("decode")
  /\ UNCHANGED <<ok, codec, start, decoded, chunk>>

\* File::flush of the standard library does nothing, and the kernel reports
\* no error when the descriptor is closed.
Flush ==
  /\ At("flush") /\ Silent
  /\ Goto("return")
  /\ UNCHANGED <<ok, codec, start, decoded, chunk>>

Return ==
  /\ At("return")
  /\ IF ok THEN SendFinished ELSE SendFailed
  /\ Goto("done")
  /\ UNCHANGED <<ok, codec, start, decoded, chunk>>

FExit == Exit /\ UNCHANGED local

FWorker ==
  \/ OpenSource \/ Peek \/ PeekError \/ Announce \/ InitDecoder \/ OpenDest
  \/ \E n \in 1..Buf, ahead \in 0..MaxIn : Decode(n, ahead)
  \/ DecodeError \/ DecodeEnd
  \/ Write \/ WriteError
  \/ MaybeTick
  \/ Flush \/ Return
  \/ FExit

FUI == UI /\ UNCHANGED local

FNext == FWorker \/ FUI

FSpec == FInit /\ [][FNext]_fvars

\* A file and a device that answer, and a scheduler that runs both threads.
FFairSpec == FSpec /\ WF_fvars(FWorker) /\ WF_fvars(FUI)

-----------------------------------------------------------------------------
(* Properties. *)

\* A flash that reports success has written the image from its first unit (the
\* head that was peeked at is not lost) to its last, decoded, and skipped no
\* damaged one, with two exceptions that are told nobody: of a gzip image of
\* several members only the first is on the device, and an image the magic
\* does not bring to a decoder is there as it is in the file.
FinishedFlashIsWhole ==
  outcome = "Finished" =>
    /\ bytes_out = IF params.format = "gzip" THEN params.first ELSE params.len
    /\ codec # "none" <=> params.format \in {"zstd", "gzip"}
    /\ params.medium \/ params.format \in {"zstd", "gzip"}
         => ~(params.damage \in 0 .. bytes_out - 1)
    /\ bytes_out <= bytes_in /\ bytes_in <= params.len

SoundFlash ==
  /\ params.fails = None /\ params.damage = None
  /\ params.format \in {"raw", "zstd", "gzip"} /\ params.first = params.len
  /\ params.capacity >= params.len

\* A sound image of a recognised format and of one member, on a device that
\* is big enough, is always flashed to the end.
SoundFlashFinishes ==
  SoundFlash /\ thread = "gone"
    => outcome = "Finished" /\ bytes_out = params.len /\ bytes_in = params.len

\* do_flash behaves as a session's worker does.
ImplementsSession == Spec

\* Every flash ends on screen.
FlashEnds == <>(shown.status # "Running")

-----------------------------------------------------------------------------
(* The inductive invariant behind them. *)

Before == {"open", "peek", "announce", "init", "open_dest"}

FTypes ==
  /\ params \in Jobs
  /\ step \in Steps /\ ok \in BOOLEAN
  /\ codec \in {"none", "zstd", "gzip"}
  /\ thread \in {"running", "reported", "gone"}
  /\ outcome \in {"None"} \cup Outcomes
  /\ bytes_in \in Nat /\ bytes_out \in Nat
  /\ decoded \in Nat /\ chunk \in 0..Buf

\* Every unit decoded is on the device or in hand, in the order of the file
\* and from its first; none of them was a damaged one.
DecodedAddsUp ==
  /\ start = 0
  /\ bytes_out <= params.capacity
  /\ decoded <= DecoderEnd
  /\ decoded <= bytes_in /\ bytes_in <= params.len
  /\ ok => bytes_out + chunk = decoded
  /\ codec = "none" => bytes_in = decoded
  /\ Noticed => ~(params.damage \in 0 .. decoded - 1)
  /\ step \in Before => bytes_in = 0 /\ bytes_out = 0 /\ decoded = 0 /\ chunk = 0
  /\ ok /\ step # "write" => chunk = 0

\* The loop is left by an error or at the end of the stream, and the report
\* says which.
FlashReport ==
  /\ thread = "running" <=> step # "done"
  /\ outcome = IF step # "done" THEN "None" ELSE IF ok THEN "Finished" ELSE "Failed"
  /\ step \notin {"return", "done"} => ok
  /\ ok /\ step \in {"flush", "return", "done"} => decoded = DecoderEnd

\* Nothing goes wrong when nothing is wrong.
SoundGoesWell ==
  /\ step \notin {"open", "peek"} /\ ok => codec = Detect
  /\ SoundFlash => ok

FInv == FTypes /\ DecodedAddsUp /\ FlashReport /\ SoundGoesWell
=============================================================================
