-------------------------------- MODULE Cli --------------------------------
(***************************************************************************)
(* The command line: list, flash, backup, verify, archive and restore, one *)
(* command after another over the same disk, image, manifest and archive.  *)
(* Any of them may be killed at any moment; the next finds what it left.   *)
(*                                                                         *)
(* A disk is the sequence of units a read of it returns, through the       *)
(* kernel's cache, which nothing here bypasses.  An image file is the      *)
(* units in it, how many of them are behind its first member (a gzip of    *)
(* two halves has two), and whether its encoder's trailer is there.        *)
(* A hash stands for what was hashed.                                      *)
(***************************************************************************)
EXTENDS Sequences, Formats, Devices

CONSTANTS
  Units,        \* the values a unit of data may have
  Buf,          \* the most one read asks for
  Worlds,       \* the disks and image files considered
  Commands,     \* the command lines considered
  Tree,         \* what archive walks: path -> the directory it is in
  Top,          \* that directory itself
  MaxCommands   \* bound on how many are run

Files == [codec : Contents, ending : Endings \cup {"plain"}, units : Seq(Units), rest : Nat,
          whole : BOOLEAN]

Options ==
  [op       : {"list", "flash", "backup", "verify", "verify-queue", "archive", "restore"},
   args     : BOOLEAN,                      \* are the required arguments there?
   opens    : BOOLEAN,                      \* can what they name be opened?
   dry_run  : BOOLEAN,
   verify   : {"off", "full", "sampled", "deferred"},
   stuck    : Nat,                          \* a unit that keeps what it holds, or 0
   codec    : Codecs, ending : Endings \cup {"plain"},  \* of the output
   bad      : Nat,                          \* a unit of the disk that cannot be read, or 0
   unread   : Nat,                          \* the same of what the file delivers
   room     : Nat,                          \* units the output can hold
   sidecar  : {"fits", "cut", "denied"},    \* what comes of writing the manifest
   against  : {"file", "manifest"},
   excludes : SUBSET (DOMAIN Tree \cup {Top}),  \* the paths --exclude matches
   denied   : SUBSET (DOMAIN Tree),             \* the paths that cannot be read, or restored
   layout   : Layouts, show_all : BOOLEAN]

ASSUME CliAssumption ==
  /\ Buf \in Nat \ {0} /\ MaxCommands \in Nat
  /\ \A S \in SUBSET DOMAIN Tree :   \* from Top one comes to every path
       (\A n \in DOMAIN Tree : Tree[n] \in S \cup {Top} => n \in S) => S = DOMAIN Tree
  /\ "compressed" \notin Units /\ "json" \notin Units
  /\ \A c \in Commands : c \in Options
  /\ Top \notin DOMAIN Tree
  /\ \A w \in Worlds :
       /\ w.device \in Seq(Units) /\ w.device # <<>>
       /\ w.image \in Files
       /\ w.image.codec = "none" => w.image.whole   \* no trailer to miss
       /\ w.image.rest <= Len(w.image.units)

VARIABLES
  device,    \* what a read of the disk returns
  image,     \* the image file
  manifest,  \* what the hash in the sidecar stands for, or None
  archive,   \* the archive file: entries in its tar, and which ends it has
  target,    \* the entries restored
  cmd, step, exit,   \* the command, where it is, and how it ended
  ran,       \* commands started so far
  pos,       \* offset in the stream being copied or compared
  hashed,    \* what the hasher was given
  chunk,     \* buf; in verify buf_src
  other,     \* what the encoder holds; in verify buf_dev
  mismatch,  \* first_mismatch_offset, or None
  listing,   \* the disks list printed
  pending    \* in the walk: what is still to visit, a set for each level

media  == <<device, image, manifest>>
files  == <<archive, target>>
world  == <<media, files>>
copier == <<pos, hashed, chunk, other, mismatch, listing>>
locals == <<copier, pending>>
vars   == <<world, cmd, step, exit, ran, locals>>

NoArchive == [codec |-> "none", ending |-> "plain", entries |-> <<>>, kept |-> {},
              whole |-> FALSE, ok |-> FALSE]

Idle == CHOOSE c \in Commands : TRUE

Init ==
  /\ \E w \in Worlds : device = w.device /\ image = w.image
  /\ manifest = None /\ archive = NoArchive /\ target = {}
  /\ cmd = Idle /\ step = "done" /\ exit = "ok" /\ ran = 0
  /\ pos = 0 /\ hashed = <<>> /\ chunk = <<>> /\ other = <<>>
  /\ mismatch = None /\ listing = {} /\ pending = <<>>

-----------------------------------------------------------------------------
\* main: one command, parsed.
Start(c) ==
  /\ exit # "running" /\ ran < MaxCommands
  /\ cmd' = c /\ step' = c.op /\ exit' = "running" /\ ran' = ran + 1
  /\ pos' = 0 /\ hashed' = <<>> /\ chunk' = <<>> /\ other' = <<>>
  /\ mismatch' = None /\ listing' = {} /\ pending' = <<>>
  /\ UNCHANGED world

At(s) == exit = "running" /\ step = s /\ UNCHANGED <<cmd, ran>>

Goto(s) == step' = s /\ UNCHANGED exit

\* Ok, an error that reaches main, or process::exit.
Quit(code) == step' = "done" /\ exit' = code

\* The sidecar after File::create, and after the JSON was written to it.
Emptied == IF cmd.sidecar = "denied" THEN manifest ELSE None
Written == IF cmd.sidecar = "fits" THEN hashed ELSE Emptied

\* Ctrl-C, SIGKILL, power: what is in memory is lost, the encoder's too.
Kill ==
  /\ exit = "running" /\ Quit("killed")
  /\ IF step \in {"walk", "abort"} /\ archive.codec # "none"
     THEN \E k \in 0..Len(archive.entries) :
            archive' = [archive EXCEPT !.entries = SubSeq(@, 1, k)]
     ELSE UNCHANGED archive
  /\ manifest' \in IF step = "manifest" THEN {manifest, Emptied, Written} ELSE {manifest}
  /\ UNCHANGED <<device, image, target, cmd, ran, locals>>

\* A required argument is missing, there are two targets, or there is nothing
\* to do (verify-queue).
Usage ==
  /\ exit = "running" /\ step = cmd.op
  /\ \/ ~cmd.args /\ Quit("usage")
     \/ cmd.op = "verify-queue" /\ Quit("ok")
  /\ UNCHANGED <<world, cmd, ran, locals>>

OpenFails ==
  /\ exit = "running" /\ step = cmd.op /\ cmd.args /\ ~cmd.opens
  /\ Quit("failed")
  /\ UNCHANGED <<world, cmd, ran, locals>>

Begin(op) == At(op) /\ cmd.args /\ cmd.opens

Lesser(a, b) == IF a <= b THEN a ELSE b

\* The sizes a read of s from offset p may return.
ReadSizes(s, p) == 1 .. Lesser(Buf, Len(s) - p)

\* run_list
List ==
  /\ Begin("list")
  /\ listing' = Enumerate(cmd.layout, cmd.show_all)
  /\ Quit("ok")
  /\ UNCHANGED <<world, pos, hashed, chunk, other, mismatch, pending>>

-----------------------------------------------------------------------------
(* run_flash *)

\* An encoder that was not dropped may have written nothing yet.
Begun(f) == f.units # <<>> \/ f.whole

Bytes(f) == IF f.codec = "none" THEN f.units ELSE IF Begun(f) THEN <<"compressed">> ELSE <<>>

Chosen == DetectCodec(IF Begun(image) THEN image.codec ELSE "none", image.ending)

\* Only zstd's decoder goes on behind the first member, or frame.
FirstMember(f) ==
  IF f.codec \in {"none", "zstd"} THEN f.units ELSE SubSeq(f.units, 1, Len(f.units) - f.rest)

\* What the decoder delivers, and whether it then ends without an error.
Decoded ==
  IF Chosen = image.codec THEN FirstMember(image)
  ELSE IF Chosen = "none" THEN Bytes(image) ELSE <<>>

EndsWell ==
  \/ Chosen = "none"
  \/ Chosen = image.codec /\ image.whole
  \/ Chosen = "zstd" /\ ~Begun(image)   \* no frame at all

\* Detection, the decoder, the target opened for writing.
Flash ==
  /\ Begin("flash") /\ Goto("read")
  /\ UNCHANGED <<world, locals>>

FlashRead(n) ==
  /\ At("read") /\ n \in ReadSizes(Decoded, pos)
  /\ cmd.unread \notin pos + 1 .. pos + n
  /\ chunk' = SubSeq(Decoded, pos + 1, pos + n)
  /\ hashed' = hashed \o chunk'
  /\ pos' = pos + n
  /\ Goto(IF cmd.dry_run THEN "read" ELSE "write")
  /\ UNCHANGED <<world, other, mismatch, listing, pending>>

\* The disk ends where it ends.
FlashWrite ==
  /\ At("write")
  /\ LET from == pos - Len(chunk)
     IN  device' = [i \in DOMAIN device |->
                      IF i \in from + 1 .. pos /\ i # cmd.stuck THEN chunk[i - from] ELSE device[i]]
  /\ chunk' = <<>>
  /\ IF pos <= Len(device) THEN Goto("read") ELSE Quit("failed")
  /\ UNCHANGED <<image, manifest, files, pos, hashed, other, mismatch, listing, pending>>

FlashReadFails ==
  /\ At("read")
  /\ \/ pos = Len(Decoded) /\ ~EndsWell
     \/ cmd.unread \in pos + 1 .. Lesser(pos + Buf, Len(Decoded))
  /\ Quit("failed")
  /\ UNCHANGED <<world, locals>>

\* "flash ok" is printed; only a full verify is more than a word.
FlashEnd ==
  /\ At("read") /\ pos = Len(Decoded) /\ EndsWell
  /\ chunk' = <<>>
  /\ IF cmd.verify = "full" /\ ~cmd.dry_run THEN Goto("verifying") ELSE Quit("ok")
  /\ UNCHANGED <<world, pos, hashed, other, mismatch, listing, pending>>

\* verify_full_by_hash: the whole disk is hashed.
HashDevice(n) ==
  /\ At("verifying") /\ n \in ReadSizes(device, Len(chunk))
  /\ cmd.bad \notin Len(chunk) + 1 .. Len(chunk) + n
  /\ chunk' = chunk \o SubSeq(device, Len(chunk) + 1, Len(chunk) + n)
  /\ Goto("verifying")
  /\ UNCHANGED <<world, pos, hashed, other, mismatch, listing, pending>>

HashDeviceFails ==
  /\ At("verifying") /\ cmd.bad \in Len(chunk) + 1 .. Lesser(Len(chunk) + Buf, Len(device))
  /\ Quit("failed")
  /\ UNCHANGED <<world, locals>>

\* Mutant: a failed verify is printed and not returned.
HashVerdictPrinted ==
  /\ At("verifying") /\ Len(chunk) = Len(device)
  /\ Quit("ok")
  /\ UNCHANGED <<world, locals>>

HashVerdict ==
  /\ At("verifying") /\ Len(chunk) = Len(device)
  /\ Quit(IF chunk = hashed THEN "ok" ELSE "failed")
  /\ UNCHANGED <<world, locals>>

-----------------------------------------------------------------------------
(* run_backup *)

\* The output is created, or truncated; a manifest beside it is left alone.
Backup ==
  /\ Begin("backup") /\ Goto("copy")
  /\ image' = [codec |-> cmd.codec, ending |-> cmd.ending, units |-> <<>>, rest |-> 0,
               whole |-> cmd.codec = "none"]
  /\ UNCHANGED <<device, manifest, files, locals>>

BackupRead(n) ==
  /\ At("copy") /\ n \in ReadSizes(device, pos)
  /\ cmd.bad \notin pos + 1 .. pos + n
  /\ chunk' = SubSeq(device, pos + 1, pos + n)
  /\ pos' = pos + n
  /\ hashed' = hashed \o chunk'
  /\ Goto("encode")
  /\ UNCHANGED <<world, other, mismatch, listing, pending>>

\* Of what it holds the encoder passes on any part, a plain file everything.
BackupWrite(k) ==
  /\ At("encode")
  /\ LET held == other \o chunk
     IN  /\ k \in IF image.codec = "none" THEN {Len(held)} ELSE 0 .. Len(held)
         /\ Len(image.units) + k <= cmd.room
         /\ image' = [image EXCEPT !.units = @ \o SubSeq(held, 1, k)]
         /\ other' = SubSeq(held, k + 1, Len(held))
  /\ chunk' = <<>>
  /\ Goto("copy")
  /\ UNCHANGED <<device, manifest, files, pos, hashed, mismatch, listing, pending>>

\* What a full disk still takes of what the encoder passes on.
Filled == LET held == other \o chunk
          IN  [image EXCEPT !.units = @ \o SubSeq(held, 1, cmd.room - Len(@))]

\* Mutant: an unreadable unit is taken for the end of the device.
BackupFailsQuietly ==
  /\ At("copy") /\ cmd.bad \in pos + 1 .. Lesser(pos + Buf, Len(device))
  /\ Goto("drop")
  /\ UNCHANGED <<world, locals>>

\* A read or a write fails: no error is taken for the end of the device.
BackupFails ==
  /\ \/ /\ At("copy") /\ cmd.bad \in pos + 1 .. Lesser(pos + Buf, Len(device))
        /\ UNCHANGED image
     \/ /\ At("encode") /\ Len(image.units) + Len(other) + Len(chunk) > cmd.room
        /\ image' = Filled
  /\ Goto("unwind")
  /\ UNCHANGED <<device, manifest, files, locals>>

BackupEnd ==
  /\ At("copy") /\ pos = Len(device)
  /\ Goto("drop")
  /\ UNCHANGED <<world, locals>>

Owed == IF image.codec = "none" THEN 0 ELSE Len(other) + 1

Fits == Len(image.units) + Owed <= cmd.room

\* The encoder is dropped, here or on the way out with an error.  If the
\* output is full, zstd's panics and the others keep quiet.
DropWriter ==
  /\ At("drop") \/ At("unwind")
  /\ image' = IF Fits /\ image.codec # "none"
              THEN [image EXCEPT !.units = @ \o other, !.whole = TRUE] ELSE image
  /\ IF step = "unwind" \/ (~Fits /\ image.codec = "zstd") THEN Quit("failed") ELSE Goto("manifest")
  /\ UNCHANGED <<device, manifest, files, locals>>

\* Its errors are ignored: those of File::create, which leave an old manifest,
\* and those of writing the JSON, which leave none.
WriteManifest ==
  /\ At("manifest")
  /\ manifest' = Written
  /\ Quit("ok")
  /\ UNCHANGED <<device, image, files, locals>>

-----------------------------------------------------------------------------
(* run_verify *)

\* The file as it is, or the manifest, as if it were the image.
Against == IF cmd.against = "manifest" THEN <<"json">> ELSE Bytes(image)

Verify ==
  /\ Begin("verify") /\ Goto("source")
  /\ UNCHANGED <<world, locals>>

\* Mutant: one read and no loop.
FillSizesOnce(s) == IF pos = Len(s) THEN {0} ELSE ReadSizes(s, pos)

\* read_exact_or_eof: however its reads are cut, a fill ends with the buffer
\* full or the stream at its end.
FillSizes(s) == {Lesser(Buf, Len(s) - pos)}

VerifySource(n) ==
  /\ At("source") /\ n \in FillSizes(Against)
  /\ cmd.unread \notin pos + 1 .. pos + n
  /\ chunk' = SubSeq(Against, pos + 1, pos + n)
  /\ Goto("device")
  /\ UNCHANGED <<world, pos, hashed, other, mismatch, listing, pending>>

VerifyDevice(n) ==
  /\ At("device") /\ n \in FillSizes(device)
  /\ cmd.bad \notin pos + 1 .. pos + n
  /\ other' = SubSeq(device, pos + 1, pos + n)
  /\ Goto("compare")
  /\ UNCHANGED <<world, pos, hashed, chunk, mismatch, listing, pending>>

\* A read of either fails: no verdict.
VerifyFails ==
  /\ \/ At("source") /\ cmd.unread \in pos + 1 .. Lesser(pos + Buf, Len(Against))
     \/ At("device") /\ cmd.bad \in pos + 1 .. Lesser(pos + Buf, Len(device))
  /\ Quit("failed")
  /\ UNCHANGED <<world, locals>>

Overlap == Lesser(Len(chunk), Len(other))

Diffs == {i \in 1..Overlap : chunk[i] # other[i]}

\* first_diff, then the lengths, then the end.
Compare ==
  /\ At("compare")
  /\ \/ /\ Diffs # {}
        /\ \E i \in Diffs : (\A j \in Diffs : i <= j) /\ mismatch' = pos + i - 1
        /\ Quit("failed")
        /\ UNCHANGED <<pos, chunk, other>>
     \/ /\ Diffs = {} /\ Len(chunk) # Len(other)
        /\ mismatch' = pos + Overlap
        /\ Quit("failed")
        /\ UNCHANGED <<pos, chunk, other>>
     \/ /\ Diffs = {} /\ Len(chunk) = Len(other)
        /\ pos' = pos + Overlap
        /\ chunk' = <<>> /\ other' = <<>>
        /\ IF Overlap = 0 THEN Quit("ok") ELSE Goto("source")
        /\ UNCHANGED mismatch
  /\ UNCHANGED <<world, hashed, listing, pending>>

-----------------------------------------------------------------------------
(* run_archive and run_restore *)

\* Is n this path, or below it: in every set that has e, and with a directory
\* all that is in it?
Downward(S) == \A n \in DOMAIN Tree : Tree[n] \in S => n \in S

Below(e, n) == \A S \in SUBSET (DOMAIN Tree \cup {Top}) : e \in S /\ Downward(S) => n \in S

Within(dir) == {n \in DOMAIN Tree : Tree[n] = dir}

\* The output is created; a pattern that matches the root's own path leaves
\* nothing to walk.
Archive ==
  /\ Begin("archive") /\ Goto("walk")
  /\ archive' = [NoArchive EXCEPT !.codec = cmd.codec, !.ending = cmd.ending]
  /\ pending' = <<IF Top \in cmd.excludes THEN {} ELSE Within(Top)>>
  /\ UNCHANGED <<media, target, copier>>

Level == pending[Len(pending)]

Upper == SubSeq(pending, 1, Len(pending) - 1)

\* walk, in whatever order read_dir has: what a pattern matches is passed over
\* with all that is below it.
WalkExcluded(n) ==
  /\ At("walk") /\ pending # <<>> /\ n \in Level \cap cmd.excludes
  /\ pending' = Append(Upper, Level \ {n})
  /\ Goto("walk")
  /\ UNCHANGED <<world, copier>>

WalkEntry(n) ==
  /\ At("walk") /\ pending # <<>> /\ n \in Level \ (cmd.excludes \cup cmd.denied)
  /\ Len(archive.entries) < cmd.room
  /\ archive' = [archive EXCEPT !.entries = Append(@, n)]
  /\ pending' = Upper \o <<Level \ {n}, Within(n)>>
  /\ Goto("walk")
  /\ UNCHANGED <<media, target, copier>>

WalkUp ==
  /\ At("walk") /\ pending # <<>> /\ Level = {}
  /\ pending' = Upper
  /\ Goto("walk")
  /\ UNCHANGED <<world, copier>>

\* Mutant: as the TUI's worker, passes over what it may not read.
WalkFailsQuietly(n) ==
  /\ At("walk") /\ pending # <<>> /\ n \in (Level \ cmd.excludes) \cap cmd.denied
  /\ pending' = Append(Upper, Level \ {n})
  /\ Goto("walk")
  /\ UNCHANGED <<world, copier>>

\* Any entry that cannot be read or written ends the walk.
WalkFails(n) ==
  /\ At("walk") /\ pending # <<>> /\ n \in Level \ cmd.excludes
  /\ n \in cmd.denied \/ Len(archive.entries) >= cmd.room
  /\ Goto("abort")
  /\ UNCHANGED <<world, locals>>

\* builder.finish(), or the builder's Drop on the way out, ends the tar, and
\* the encoder's Drop adds its trailer: also to what is only a part.
EndArchive ==
  /\ At("abort") \/ (At("walk") /\ pending = <<>>)
  /\ LET fits == Len(archive.entries) + 1 <= cmd.room
         code == IF step = "abort" \/ (~fits /\ archive.codec \in {"none", "zstd"})
                 THEN "failed" ELSE "ok"
     IN  /\ archive' = [archive EXCEPT !.whole = fits, !.ok = code = "ok", !.kept =
                          {n \in DOMAIN Tree : \A e \in cmd.excludes : ~Below(e, n)}]
         /\ Quit(code)
  /\ UNCHANGED <<media, target, locals>>

\* The name alone says how to decode.
Restore ==
  /\ Begin("restore") /\ Goto("unpack")
  /\ target' = {}
  /\ UNCHANGED <<media, archive, locals>>

Unpackable == RestoreCodec(archive.ending) = archive.codec

\* The entry that is next.
Unpacking(n) ==
  /\ At("unpack") /\ Unpackable
  /\ n = Cardinality(target) + 1 /\ n <= Len(archive.entries)

Unpack(n) ==
  /\ Unpacking(n) /\ n # cmd.unread /\ archive.entries[n] \notin cmd.denied
  /\ target' = target \cup {archive.entries[n]}
  /\ Goto("unpack")
  /\ UNCHANGED <<media, archive, locals>>

UnpackFails(n) ==
  /\ Unpacking(n) /\ (n = cmd.unread \/ archive.entries[n] \in cmd.denied)
  /\ Quit("failed")
  /\ UNCHANGED <<world, locals>>

\* A tar without its end is taken as it is; an encoded stream is not.
EndRestore ==
  /\ At("unpack")
  /\ ~Unpackable \/ Cardinality(target) = Len(archive.entries)
  /\ Quit(IF Unpackable /\ (archive.whole \/ archive.codec = "none") THEN "ok" ELSE "failed")
  /\ UNCHANGED <<world, locals>>

-----------------------------------------------------------------------------
Command ==
  \/ Usage \/ OpenFails \/ List
  \/ Flash \/ (\E n \in 1..Buf : FlashRead(n) \/ HashDevice(n))
  \/ FlashWrite \/ FlashReadFails \/ FlashEnd \/ HashDeviceFails \/ HashVerdict
  \/ Backup \/ (\E n \in 1..Buf : BackupRead(n)) \/ (\E k \in 0..Len(device) : BackupWrite(k))
  \/ BackupFails \/ BackupEnd \/ DropWriter \/ WriteManifest
  \/ Archive \/ WalkUp \/ EndArchive \/ Restore \/ EndRestore
  \/ (\E n \in DOMAIN archive.entries : Unpack(n) \/ UnpackFails(n))
  \/ (\E n \in DOMAIN Tree : WalkExcluded(n) \/ WalkEntry(n) \/ WalkFails(n))
  \/ Verify \/ (\E n \in 0..Buf : VerifySource(n) \/ VerifyDevice(n))
  \/ VerifyFails \/ Compare

Next == (\E c \in Commands : Start(c)) \/ Command \/ Kill

Spec == Init /\ [][Next]_vars

-----------------------------------------------------------------------------
(* Properties. *)

Ended(op) == exit # "running" /\ ran > 0 /\ cmd.op = op

\* The bytes of the image decide its codec, or a name that does not mislead.
Recognised(f) == f.codec \in Magic \/ RestoreCodec(f.ending) = f.codec

\* A flash that says ok after a full verify has put the decoded image on the
\* disk, all that its decoder delivers (of most codecs the first member): run_flash
\* re-reads the disk, so neither a unit that did not take, nor an encoded
\* image whose backup was killed, nor a codec that only the name tells ends in
\* "verify ok".
VerifiedFlashMatches ==
  Ended("flash") /\ exit = "ok" /\ cmd.verify = "full" /\ ~cmd.dry_run /\ Recognised(image)
    => SubSeq(device, 1, Len(FirstMember(image))) = FirstMember(image)
       /\ image.whole

\* verify passes only for a disk that equals the file as it is stored, byte
\* for byte: a compressed image, and whatever --manifest names, are compared
\* undecoded and unread, so that neither ever verifies the disk they stand for.
\* It fails with the first offset at which the two differ or one of them ends,
\* however their reads were cut, or with none where a read of either failed
\* and nothing before that buffer differs.
VerdictIsRight ==
  Ended("verify") /\ exit \in {"ok", "failed"} /\ cmd.opens =>
    LET n == Lesser(Len(Against), Len(device))
        differ == {i \in 1..n : Against[i] # device[i]}
        lost == {u \in 1..Len(Against) : u = cmd.unread} \cup {u \in 1..Len(device) : u = cmd.bad}
    IN  /\ exit = "ok" => cmd.against = "file" /\ device = Bytes(image)
        /\ exit = "failed" =>
             \/ mismatch = None /\ \E u \in lost : \A i \in differ : i + Buf > u
             \/ /\ Against # device
                /\ IF differ = {} THEN mismatch = n
                   ELSE mismatch + 1 \in differ /\ \A i \in differ : mismatch + 1 <= i

\* "backup ok" means that the device was read to its end and hashed, that the
\* manifest (if it could be written) has that hash, and that the image restores
\* to it, unless the encoder kept quiet about its last bytes.
BackupOkIsExact ==
  Ended("backup") /\ exit = "ok" =>
    /\ hashed = device
    /\ cmd.sidecar = "fits" => manifest = device
    /\ image.codec \in {"none", "zstd"} \/ Len(device) < cmd.room
         => image.units = device /\ image.whole

\* What restore says is complete is complete: if the archive was ok, all that
\* no pattern excludes is there again, in spite of a name that misleads, an
\* output that filled up while the encoder was dropped, or a kill.
RestoredIsArchived ==
  Ended("restore") /\ exit = "ok" /\ archive.ok => target = archive.kept

\* Without --show-all the disk the running system is on is hidden in the plain
\* cases, and in no other: with / on a volume in a volume, on a subvolume or on
\* a disk named like a partition, and on a Mac that started from an external
\* disk, it is offered like any other.
SystemDiskIsHidden ==
  Ended("list") /\ exit = "ok" /\ ~cmd.show_all
    /\ cmd.layout.nodes[SystemDisk(cmd.layout)].kind = "disk"
  => (OnPartition(cmd.layout) <=> \A b \in listing : b.path # SystemDisk(cmd.layout))

\* What verify.rs and README mean by a full verify: the hash captured while
\* writing is that of what is read back, so a flash of an image that fits,
\* on a disk that takes every write, is verified.
SoundFlashVerifies ==
  Ended("flash") /\ cmd.args /\ cmd.opens
    /\ cmd.stuck = 0 /\ cmd.bad = 0 /\ cmd.unread = 0 /\ cmd.verify = "full"
    /\ Recognised(image) /\ image.whole /\ image.rest = 0 /\ Len(image.units) <= Len(device)
  => exit # "failed"

-----------------------------------------------------------------------------
(* The inductive invariant behind them. *)

\* What a disk or an image may hold: a flash may have put a compressed file on
\* the disk as it is, and a backup may have copied that.
Data == Units \cup {"compressed"}

StepsOf(op) ==
  CASE op = "list"         -> {"list"}
    [] op = "flash"        -> {"flash", "read", "write", "verifying"}
    [] op = "backup"       -> {"backup", "copy", "encode", "drop", "unwind", "manifest"}
    [] op = "verify"       -> {"verify", "source", "device", "compare"}
    [] op = "verify-queue" -> {"verify-queue"}
    [] op = "archive"      -> {"archive", "walk", "abort"}
    [] op = "restore"      -> {"restore", "unpack"}

TypeOK ==
  /\ device \in Seq(Data) /\ device # <<>>
  /\ image \in [codec : Contents, ending : Endings \cup {"plain"}, units : Seq(Data), rest : Nat,
                whole : BOOLEAN]
  /\ image.codec = "none" => image.whole
  /\ archive \in [codec : Codecs, ending : Endings \cup {"plain"}, entries : Seq(DOMAIN Tree),
                  kept : SUBSET DOMAIN Tree, whole : BOOLEAN, ok : BOOLEAN]
  /\ target \in SUBSET DOMAIN Tree /\ IsFiniteSet(target)
  /\ ran \in Nat /\ (ran > 0 => cmd \in Commands)
  /\ exit \in {"running", "ok", "failed", "usage", "killed"}
  /\ exit = "running" => ran > 0 /\ step \in StepsOf(cmd.op)
  /\ pos \in Nat /\ hashed \in Seq(Data)
  /\ chunk \in Seq(Data \cup {"json"}) /\ other \in Seq(Data \cup {"json"})
  /\ pending \in Seq(SUBSET DOMAIN Tree)

InStep(steps) == exit = "running" /\ step \in steps

\* A command begins with nothing in hand.
BeginsEmpty ==
  InStep({cmd.op}) =>
    pos = 0 /\ hashed = <<>> /\ chunk = <<>> /\ other = <<>> /\ mismatch = None

\* What was hashed is what was decoded so far; what is hashed of the disk
\* afterwards is its beginning.
FlashFollows ==
  InStep({"read", "write", "verifying"}) =>
    /\ pos <= Len(Decoded) /\ hashed = SubSeq(Decoded, 1, pos)
    /\ step = "write" => chunk \in Seq(Data) /\ Len(chunk) <= pos
    /\ step = "verifying" =>
         /\ pos = Len(Decoded) /\ EndsWell
         /\ Len(chunk) <= Len(device) /\ chunk = SubSeq(device, 1, Len(chunk))

\* What was hashed is the beginning of the device, and it is in the image, in
\* the encoder or in hand.
BackupFollows ==
  /\ InStep({"copy", "encode", "drop", "unwind"}) => chunk \in Seq(Data) /\ other \in Seq(Data)
  /\ InStep({"copy", "encode", "drop", "manifest"}) =>
       /\ pos <= Len(device) /\ hashed = SubSeq(device, 1, pos)
       /\ step \in {"drop", "manifest"} => pos = Len(device)
  /\ InStep({"copy", "encode", "drop"}) =>
       /\ (image.units \o other) \o chunk = hashed
       /\ image.codec = "none" => other = <<>>
       /\ step # "encode" => chunk = <<>>
       /\ Len(image.units) <= cmd.room
  /\ InStep({"manifest"}) /\ (image.codec \in {"none", "zstd"} \/ Len(device) < cmd.room) =>
       image.units = device /\ image.whole

\* Where a fill that begins at pos ends.
FillOf(s) == SubSeq(s, pos + 1, pos + Lesser(Buf, Len(s) - pos))

\* The two streams agree up to pos.
VerifyFollows ==
  InStep({"source", "device", "compare"}) =>
    /\ mismatch = None
    /\ pos <= Len(Against) /\ pos <= Len(device)
    /\ \A i \in 1..pos : Against[i] = device[i]
    /\ step # "source" => chunk = FillOf(Against)
    /\ step = "compare" => other = FillOf(device)

Entered == {archive.entries[i] : i \in DOMAIN archive.entries}

\* The walk has been in the directory n is in.
Reached(n) == \/ Tree[n] = Top /\ Top \notin cmd.excludes
              \/ Tree[n] \in Entered

\* What the walk has reached it has entered, passed over, or has yet to visit,
\* on one level and no other.
WalkFollows ==
  /\ InStep({"walk", "abort"}) => ~archive.ok
  /\ InStep({"walk"}) =>
       /\ \A n \in Entered : n \notin cmd.excludes /\ Reached(n)
       /\ \A n \in DOMAIN Tree :
            Reached(n) => \/ n \in Entered \cup cmd.excludes
                          \/ \E j \in DOMAIN pending : n \in pending[j]
       /\ \A j \in DOMAIN pending : \A n \in pending[j] : Reached(n) /\ n \notin Entered
       /\ \A j, k \in DOMAIN pending : j # k => pending[j] \cap pending[k] = {}

\* No entry is in the archive twice, and in one that is ok none is missing.
ArchiveHolds ==
  /\ \A i, j \in DOMAIN archive.entries : archive.entries[i] = archive.entries[j] => i = j
  /\ archive.ok => Entered = archive.kept

\* How many entries were unpacked says which.
UnpackFollows ==
  InStep({"unpack"}) =>
    /\ Cardinality(target) <= Len(archive.entries)
    /\ target = {archive.entries[i] : i \in 1..Cardinality(target)}

Claims == /\ VerifiedFlashMatches /\ VerdictIsRight /\ BackupOkIsExact
          /\ RestoredIsArchived /\ SystemDiskIsHidden

CliInv == /\ TypeOK /\ BeginsEmpty /\ FlashFollows /\ BackupFollows /\ VerifyFollows
          /\ WalkFollows /\ ArchiveHolds /\ UnpackFollows /\ Claims
=============================================================================
