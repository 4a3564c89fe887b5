---------------------------- MODULE FlashProofs ----------------------------
(***************************************************************************)
(* do_flash for every buffer size, every image and every device: its       *)
(* inductive invariant, what a Finished flash is worth, and that it is a   *)
(* worker in the sense of Session.                                         *)
(***************************************************************************)
EXTENDS Flash, SessionProofs

\* The jobs have the types of BackupParams.
ImageFacts ==
  /\ MaxIn \in Nat /\ MaxOut \in Nat /\ Buf \in Nat \ {0} /\ None \notin Nat
  /\ params.format \in Formats
  /\ params.first \in Nat /\ params.len \in Nat
  /\ params.first <= params.len /\ params.len <= MaxIn
  /\ params.capacity \in Nat /\ params.capacity <= MaxOut
  /\ params.medium \in BOOLEAN /\ params.fails \in {None, "source", "decoder", "dest"}
  /\ None \notin {"source", "decoder", "dest"}

LEMMA ImageTypes ==
  ASSUME params \in Jobs
  PROVE  ImageFacts
  <1>1. MaxIn \in Nat /\ MaxOut \in Nat /\ None \notin Nat
    BY SessionAssumption
  <1>2. /\ Buf \in Nat \ {0}
        /\ params \in Params /\ params.first <= params.len
        /\ None \notin {"source", "decoder", "dest"}
    BY FlashAssumption
  <1>3. /\ params.format \in Formats
        /\ params.first \in 0..MaxIn /\ params.len \in 0..MaxIn
        /\ params.capacity \in 0..MaxOut
        /\ params.medium \in BOOLEAN /\ params.fails \in {None, "source", "decoder", "dest"}
    BY <1>2 DEF Params
  <1> QED
    BY <1>1, <1>2, <1>3 DEF ImageFacts

\* Both ends of the decoder are within the file.
LEMMA DecoderEndsInFile ==
  ASSUME params \in Jobs
  PROVE  DecoderEnd \in Nat /\ DecoderEnd <= params.len
  BY ImageTypes DEF ImageFacts, DecoderEnd

\* The UI thread does not touch what the worker knows.
LEMMA UISparesFlash ==
  ASSUME UI
  PROVE  UNCHANGED worker
  BY DEF UI, BeginPoll, RecvStarted, RecvTick, RecvFinished, RecvFailed, Join,
         RecvNothing, EndPoll, worker

LEMMA InitFInv == FInit => FInv
  <1> SUFFICES ASSUME FInit PROVE FInv
    OBVIOUS
  <1> USE DEF FInit, InitSession
  <1>1. params \in Jobs /\ ImageFacts
    BY ImageTypes
  <1>2. FTypes
    BY <1>1 DEF FTypes, Steps, Outcomes, ImageFacts
  <1>3. DecodedAddsUp
    BY <1>1, DecoderEndsInFile DEF DecodedAddsUp, ImageFacts
  <1>4. FlashReport /\ SoundGoesWell
    BY DEF FlashReport, SoundGoesWell
  <1> QED
    BY <1>2, <1>3, <1>4 DEF FInv

-----------------------------------------------------------------------------
(* The steps of the worker. *)

\* Steps in which neither counter moves and nothing is sent.
LEMMA SilentKeepsFInv ==
  ASSUME FInv, \/ OpenSource \/ Peek \/ PeekError \/ InitDecoder \/ OpenDest
               \/ DecodeError \/ DecodeEnd \/ Flush
  PROVE  FInv'
  <1>j. ImageFacts /\ DecoderEnd \in Nat
    BY ImageTypes, DecoderEndsInFile DEF FInv, FTypes
  <1> USE <1>j DEF ImageFacts, FInv, FTypes, Steps, At, Goto, Silent, vars, worker
  <1>1. CASE OpenSource
    <2> USE <1>1 DEF OpenSource
    <2>1. FTypes'
      OBVIOUS
    <2>2. DecodedAddsUp'
      BY DEF DecodedAddsUp, DecoderEnd, Before, Noticed
    <2>3. SoundGoesWell'
      BY DEF FlashReport, SoundGoesWell, SoundFlash
    <2>4. FlashReport'
      BY DEF FlashReport
    <2> QED
      BY <2>1, <2>2, <2>3, <2>4
  <1>2. CASE Peek
    <2> USE <1>2 DEF Peek
    <2>1. FTypes'
      BY DEF Detect, Formats
    <2>2. DecodedAddsUp'
      BY DEF DecodedAddsUp, DecoderEnd, Before, Noticed
    <2>3. FlashReport' /\ SoundGoesWell'
      BY DEF FlashReport, SoundGoesWell, SoundFlash, Detect
    <2> QED
      BY <2>1, <2>2, <2>3
  <1>6. CASE PeekError
    <2> USE <1>6 DEF PeekError
    <2>1. FTypes' /\ DecodedAddsUp'
      BY DEF DecodedAddsUp, DecoderEnd, Before, Noticed
    <2>2. ~SoundFlash
      BY DEF SoundFlash
    <2>3. FlashReport' /\ SoundGoesWell'
      BY <2>2 DEF FlashReport, SoundGoesWell, SoundFlash
    <2> QED
      BY <2>1, <2>3
  <1>3. CASE InitDecoder \/ OpenDest
    <2> USE <1>3 DEF InitDecoder, OpenDest
    <2>1. FTypes'
      OBVIOUS
    <2>2. DecodedAddsUp'
      BY DEF DecodedAddsUp, DecoderEnd, Before, Noticed
    <2>3. SoundGoesWell'
      BY DEF FlashReport, SoundGoesWell, SoundFlash, Detect
    <2>4. FlashReport'
      BY DEF FlashReport
    <2> QED
      BY <2>1, <2>2, <2>3, <2>4
  <1>4. CASE DecodeError
    <2> USE <1>4 DEF DecodeError
    <2>1. FTypes' /\ DecodedAddsUp'
      BY DEF DecodedAddsUp, DecoderEnd, Before, Noticed
    <2>2. ~SoundFlash
      BY DEF SoundFlash, Next1, DecodedAddsUp
    <2>3. FlashReport' /\ SoundGoesWell'
      BY <2>2 DEF FlashReport, SoundGoesWell, SoundFlash
    <2> QED
      BY <2>1, <2>3
  <1>5. CASE DecodeEnd \/ Flush
    <2> USE <1>5 DEF DecodeEnd, Flush
    <2>1. FTypes' /\ DecodedAddsUp'
      BY DEF DecodedAddsUp, DecoderEnd, Before, Noticed
    <2>2. FlashReport' /\ SoundGoesWell'
      BY DEF FlashReport, SoundGoesWell, SoundFlash, Detect, DecodedAddsUp, DecoderEnd
    <2> QED
      BY <2>1, <2>2
  <1> QED
    BY <1>1, <1>2, <1>3, <1>4, <1>5, <1>6

\* Decoding: the units behind those delivered so far, none of them damaged.
LEMMA DecodeKeepsFInv ==
  ASSUME FInv, NEW n \in 1..Buf, NEW ahead \in 0..MaxIn, Decode(n, ahead)
  PROVE  FInv'
  <1>j. ImageFacts /\ DecoderEnd \in Nat
    BY ImageTypes, DecoderEndsInFile DEF FInv, FTypes
  <1> USE <1>j DEF ImageFacts, FInv, FTypes, Steps, At, Goto, Decode
  <1>0. /\ start = 0 /\ ok /\ chunk = 0 /\ params' = params
        /\ decoded' = decoded + n /\ decoded' <= DecoderEnd
        /\ bytes_in' \in Nat /\ bytes_in <= bytes_in' /\ bytes_in' <= params.len
    BY DEF DecodedAddsUp, FlashReport
  <1>1. FTypes'
    BY <1>0
  <1>2. DecoderEnd' = DecoderEnd
    BY DEF DecoderEnd
  <1>3. Noticed' => ~(params.damage \in 0 .. decoded' - 1)
    BY <1>0 DEF DecodedAddsUp, Next1, Noticed
  <1>4. decoded' <= bytes_in' /\ (codec = "none" => bytes_in' = decoded')
    BY <1>0
  <1>5. DecodedAddsUp'
    BY <1>0, <1>2, <1>3, <1>4 DEF DecodedAddsUp, Before
  <1>6. FlashReport' /\ SoundGoesWell'
    BY <1>0 DEF FlashReport, SoundGoesWell, SoundFlash, Detect
  <1> QED
    BY <1>1, <1>5, <1>6

LEMMA WriteKeepsFInv ==
  ASSUME FInv, Write \/ WriteError
  PROVE  FInv'
  <1>j. ImageFacts /\ DecoderEnd \in Nat /\ DecoderEnd <= params.len
    BY ImageTypes, DecoderEndsInFile DEF FInv, FTypes
  <1> USE <1>j DEF ImageFacts, FInv, FTypes, Steps, At, Goto, Room
  <1>0. ok /\ bytes_out + chunk = decoded /\ bytes_out <= params.capacity
    BY DEF DecodedAddsUp, FlashReport, Write, WriteError
  <1>1. CASE Write
    <2> USE <1>1 DEF Write
    <2>1. FTypes' /\ DecodedAddsUp'
      BY <1>0 DEF DecodedAddsUp, DecoderEnd, Before, Noticed
    <2>2. FlashReport' /\ SoundGoesWell'
      BY <1>0 DEF FlashReport, SoundGoesWell, SoundFlash, Detect
    <2> QED
      BY <2>1, <2>2
  <1>2. CASE WriteError
    <2> USE <1>2 DEF WriteError
    <2>1. FTypes' /\ DecodedAddsUp'
      <3>0. bytes_out' \in Nat /\ bytes_out <= bytes_out' /\ bytes_out' <= params.capacity
        BY <1>0
      <3>1. FTypes'
        BY <1>0, <3>0
      <3>2. DecodedAddsUp'
        BY <1>0, <3>0 DEF DecodedAddsUp, DecoderEnd, Before, Noticed
      <3> QED
        BY <3>1, <3>2
    <2>2. ~SoundFlash
      BY <1>0 DEF SoundFlash, DecodedAddsUp
    <2>3. FlashReport' /\ SoundGoesWell'
      BY <2>2 DEF FlashReport, SoundGoesWell, SoundFlash
    <2> QED
      BY <2>1, <2>3
  <1> QED
    BY <1>1, <1>2

LEMMA ReportKeepsFInv ==
  ASSUME FInv, Announce \/ MaybeTick \/ Return \/ FExit
  PROVE  FInv'
  <1> USE DEF FInv, FTypes, Steps, At, Goto, worker, vars, local, Silent
  <1>0. UNCHANGED <<params, ok, codec, start, decoded, chunk, bytes_in, bytes_out>>
    BY DEF Announce, MaybeTick, SendTick, Return, SendFinished, SendFailed, Report,
           FExit, Exit
  <1>1. DecodedAddsUp'
    <2>1. step' \in Before => step \in Before
      BY DEF Announce, MaybeTick, Return, FExit, Before
    <2>2. ok /\ step' # "write" => step # "write"
      BY DEF Announce, MaybeTick, Return, FExit
    <2> QED
      BY <1>0, <2>1, <2>2 DEF DecodedAddsUp, DecoderEnd, Noticed
  <1>2. CASE Announce \/ MaybeTick
    <2>1. UNCHANGED <<thread, outcome>> /\ step \in {"announce", "tick"}
          /\ step' \in {"init", "decode"}
      BY <1>2 DEF Announce, MaybeTick, SendTick
    <2> QED
      BY <1>0, <1>1, <2>1 DEF FlashReport, SoundGoesWell, SoundFlash, Detect
  <1>3. CASE Return
    <2>1. /\ step = "return" /\ step' = "done" /\ thread' = "reported"
          /\ outcome' = IF ok THEN "Finished" ELSE "Failed"
      BY <1>3 DEF Return, SendFinished, SendFailed, Report
    <2> QED
      BY <1>0, <1>1, <2>1 DEF FlashReport, SoundGoesWell, SoundFlash, Detect, DecoderEnd,
                              Outcomes
  <1>4. CASE FExit
    <2>1. step' = step /\ outcome' = outcome /\ thread = "reported" /\ thread' = "gone"
      BY <1>4 DEF FExit, Exit
    <2> QED
      BY <1>0, <1>1, <2>1 DEF FlashReport, SoundGoesWell, SoundFlash, Detect, DecoderEnd
  <1> QED
    BY <1>2, <1>3, <1>4

LEMMA IdleKeepsFInv ==
  ASSUME FInv, UNCHANGED worker, UNCHANGED local
  PROVE  FInv'
  BY DEF FInv, FTypes, DecodedAddsUp, FlashReport, SoundGoesWell, SoundFlash, Detect,
         DecoderEnd, Noticed, worker, local

LEMMA NextFInv == FInv /\ [FNext]_fvars => FInv'
  <1> SUFFICES ASSUME FInv, [FNext]_fvars PROVE FInv'
    OBVIOUS
  <1>1. CASE FUI
    BY <1>1, UISparesFlash, IdleKeepsFInv DEF FUI
  <1>2. CASE UNCHANGED fvars
    BY <1>2, IdleKeepsFInv DEF fvars, vars
  <1>3. CASE FWorker
    BY <1>3, SilentKeepsFInv, DecodeKeepsFInv, WriteKeepsFInv, ReportKeepsFInv
       DEF FWorker
  <1> QED
    BY <1>1, <1>2, <1>3 DEF FNext

\* The invariant of do_flash, for every image and every device.
THEOREM FlashInvariant == FSpec => []FInv
  BY InitFInv, NextFInv, PTL DEF FSpec

\* A Finished flash has written the image decoded, from its first unit to its
\* last, and skipped no damaged one; but of a gzip image the first member, and
\* an image no magic brings to a decoder as it is in the file.
THEOREM FlashIsWhole == FSpec => []FinishedFlashIsWhole
  <1>1. FInv => FinishedFlashIsWhole
    <2> SUFFICES ASSUME FInv, outcome = "Finished" PROVE FinishedFlashIsWhole
      BY DEF FinishedFlashIsWhole
    <2>1. step = "done" /\ ok /\ decoded = DecoderEnd
      BY DEF FInv, FlashReport, FTypes
    <2>2. bytes_out + chunk = decoded /\ chunk = 0 /\ bytes_out \in Nat
      BY <2>1 DEF FInv, DecodedAddsUp, FTypes
    <2>3. codec = Detect
      BY <2>1 DEF FInv, SoundGoesWell
    <2>4. bytes_out = IF params.format = "gzip" THEN params.first ELSE params.len
      BY <2>1, <2>2, <2>3 DEF DecoderEnd, Detect
    <2>5. bytes_out = decoded /\ (codec # "none" <=> params.format \in {"zstd", "gzip"})
      BY <2>1, <2>2, <2>3 DEF Detect
    <2> QED
      BY <2>1, <2>4, <2>5 DEF FInv, DecodedAddsUp, FinishedFlashIsWhole, Noticed
  <1> QED
    BY <1>1, FlashInvariant, PTL

\* A sound image of one member, of a format with a magic or none at all, on a
\* device with room for it, is flashed to the end.
THEOREM SoundFlashIsFlashed == FSpec => []SoundFlashFinishes
  <1>1. FInv => SoundFlashFinishes
    <2> SUFFICES ASSUME FInv, SoundFlash, thread = "gone"
                 PROVE  outcome = "Finished" /\ bytes_out = params.len /\ bytes_in = params.len
      BY DEF SoundFlashFinishes
    <2>1. step = "done" /\ ok /\ decoded = DecoderEnd /\ outcome = "Finished"
      BY DEF FInv, FlashReport, SoundGoesWell
    <2>2. DecoderEnd = params.len /\ params.len \in Nat
      BY ImageTypes DEF DecoderEnd, SoundFlash, ImageFacts, FInv, FTypes
    <2>3. bytes_out + chunk = decoded /\ chunk = 0 /\ bytes_out \in Nat
          /\ decoded <= bytes_in /\ bytes_in <= params.len /\ bytes_in \in Nat
      BY <2>1 DEF FInv, DecodedAddsUp, FTypes
    <2> QED
      BY <2>1, <2>2, <2>3
  <1> QED
    BY <1>1, FlashInvariant, PTL

-----------------------------------------------------------------------------
(* do_flash implements Session's worker. *)

LEMMA FlashStartsAsSession == FInit => Init
  BY ImageTypes DEF FInit, Init, ImageFacts

LEMMA FlashWorkerAsSession ==
  ASSUME FInv, FWorker
  PROVE  [Next]_vars
  <1>j. ImageFacts /\ DecoderEnd \in Nat
    BY ImageTypes, DecoderEndsInFile DEF FInv, FTypes
  <1> USE <1>j DEF ImageFacts, FInv, FTypes
  <1>1. CASE \/ OpenSource \/ Peek \/ PeekError \/ InitDecoder \/ OpenDest
            \/ DecodeError \/ DecodeEnd \/ Flush
    BY <1>1 DEF OpenSource, Peek, PeekError, InitDecoder, OpenDest, DecodeError, DecodeEnd,
                Flush, Silent
  <1>2. CASE Announce
    <2>1. bytes_in = 0 /\ bytes_out = 0
      BY <1>2 DEF Announce, At, DecodedAddsUp, Before
    <2>2. SendTick
      BY <1>2, <2>1 DEF Announce, SendTick, At
    <2> QED
      BY <2>2 DEF Next, Worker
  <1>3. ASSUME NEW n \in 1..Buf, NEW ahead \in 0..MaxIn, Decode(n, ahead)
        PROVE  Next
    <2>1. /\ bytes_in \in Nat /\ bytes_in' \in Nat /\ bytes_out <= MaxOut
          /\ bytes_in <= bytes_in' /\ bytes_in' <= MaxIn
      BY <1>3 DEF Decode, DecodedAddsUp
    <2>2. PICK m \in 0..MaxIn : bytes_in' = bytes_in + m
      BY <2>1
    <2>3. Move(m, 0) /\ 0 \in 0..MaxOut
      BY <1>3, <2>1, <2>2 DEF Decode, Move, At
    <2> QED
      BY <2>2, <2>3 DEF Next, Worker
  <1>4. CASE Write
    <2>1. bytes_in <= MaxIn /\ chunk \in 0..MaxOut /\ 0 \in 0..MaxIn
      BY <1>4 DEF Write, Room, DecodedAddsUp
    <2>2. Move(0, chunk)
      BY <1>4, <2>1 DEF Write, Room, Move, At
    <2> QED
      BY <2>1, <2>2 DEF Next, Worker
  <1>5. CASE WriteError
    <2>1. bytes_in <= MaxIn /\ 0 \in 0..MaxIn /\ bytes_out <= params.capacity
      BY <1>5 DEF WriteError, DecodedAddsUp
    <2>3. bytes_out' \in bytes_out .. MaxOut
      BY <1>5, <2>1 DEF WriteError
    <2>2. PICK m \in 0..MaxOut : bytes_out' = bytes_out + m
      <3>1. \A a, c \in Nat : \A b \in a..c : b - a \in 0..c /\ b = a + (b - a)
        OBVIOUS
      <3>2. bytes_out \in Nat /\ MaxOut \in Nat
        OBVIOUS
      <3> HIDE <1>j DEF ImageFacts, FInv, FTypes
      <3> QED
        BY <2>3, <3>1, <3>2
    <2>4. Move(0, m)
      BY <1>5, <2>1, <2>2, <2>3 DEF WriteError, Move, At
    <2> QED
      BY <2>1, <2>2, <2>4 DEF Next, Worker
  <1>6. CASE MaybeTick \/ Return \/ FExit
    BY <1>6 DEF MaybeTick, Return, FExit, Silent, Next, Worker
  <1> QED
    BY <1>1, <1>2, <1>3, <1>4, <1>5, <1>6 DEF FWorker

LEMMA FlashStepsAsSession == FInv /\ [FNext]_fvars => [Next]_vars
  BY FlashWorkerAsSession DEF FNext, FUI, Next, fvars

\* do_flash may stand wherever Session has a worker.
THEOREM FlashImplementsSession == FSpec => ImplementsSession
  BY FlashStartsAsSession, FlashStepsAsSession, FlashInvariant, PTL
     DEF FSpec, Spec, ImplementsSession

\* Every variable of a flash keeps its type.
THEOREM FlashTypeOK == FSpec => []FTypeOK
  <1>1. FInv /\ TypeOK => FTypeOK
    BY ImageTypes, DecoderEndsInFile DEF FInv, FTypes, DecodedAddsUp, ImageFacts, FTypeOK
  <1> QED
    BY <1>1, FlashInvariant, FlashImplementsSession, SessionTypeOK, PTL
       DEF ImplementsSession

\* What sessions promise, flashes keep: the frame that says Finished is exact.
THEOREM FlashFramesAreExact == FSpec => []FrameIsExact
  BY FlashImplementsSession, FramesAreExact, PTL DEF ImplementsSession
=============================================================================
