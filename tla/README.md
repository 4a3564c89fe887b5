# TLA+ models of tekflash

tekflash flashes images to block devices, backs devices up into compressed
images and archives their file systems, from a terminal UI or from the command
line.  This directory holds TLA+ modules of its core, the TLC configurations
that check them, and proofs that TLAPS checks.

Paths below are relative to `src/crates/tekflash/src` unless they begin with
`core/`, which stands for `src/crates/tekflash-core/src`.

## 1. The system

| Component | State | Operations | Talks to |
|---|---|---|---|
| Session (`tui/progress_runner.rs`) | worker thread, `mpsc` channel, atomic `bytes_out`, `BackupProgress` | `spawn_backup`, `BackupProgress::new`, `poll` | event loop (polled once a frame), a worker |
| Backup worker (`do_backup`) | offset, encoder, output file | open, capped reads, write, tick, drop the encoder | device, file system, channel |
| Flash worker (`do_flash`) | head of the image, decoder, device | detect, decode, write, flush | file system, device, channel |
| Archive worker (`do_archive`, `walk_and_archive`) | position in the tree, tar builder, hash | resolve/mount, measure, walk, skip, abort, finish | file system, channel |
| TUI (`tui/mod.rs`, `tui/views/`) | `AppState`: device list, cursor, five optional views, sessions | `dispatch_key` and its handlers, drawing, polling | all sessions, device enumeration |
| File browser, codec picker (`tui/views/`) | directory, rows, cursor, filter, typed name, preview; codec and its levels | moves, typing, Enter | TUI; the names it makes are read by restore and flash |
| Devices (`core/device/`) | none | `enumerate`, safety filter, fast paths, mount | the OS |
| Formats and codecs (`core/pipeline/format.rs`, `compress.rs`) | none | `detect`, `detect_codec`, `encoder`, `decoder` | workers, CLI |
| Selection (`core/archive/selection.rs`) | included, excluded, globs | `is_included` | archive worker |
| Async pipeline (`core/pipeline/{reader,writer,buffer}.rs`) | stack of free buffers behind a mutex, bounded channel | two pumps, acquire, drop | exported; unused by the commands |
| Verify (`core/pipeline/verify.rs`) | none | full, by hash, sampled ranges | CLI |
| CLI (`cli.rs`) with `core/archive/tar.rs` | files on disk: image, manifest, archive | `list`, `flash`, `backup`, `verify`, `archive`, `restore`: one sequential function each | devices, formats, verify; the next command, through the files |
| Hashing, encryption, manifest, progress/JSON, privileges, theme, help | none or a record | | |

What is hard here, and what makes each part correct:

* **Session.** A worker and the UI run concurrently and share a queue and an
  atomic.  `poll` subtracts two counts in `u64`, stops at the terminal event,
  and joins the worker on the UI thread.  Correct: the subtraction never
  underflows, the join never waits for work, the outcome arrives exactly once
  and last, what is shown never goes backwards and is exact at the end.
* **Workers.** Every step can fail, and the encoder still writes while it is
  dropped.  Correct: Finished is earned, an error in the middle is never taken
  for the end, a healthy job always succeeds, every job ends on screen.
* **Archive.** The file system changes between any two system calls, and two
  different traversals must agree.  Correct: a calm tree can be restored exactly,
  omissions are told.
* **TUI.** Five independent `Option`s say what is open, drawing and routing
  test them in different orders, indices into lists live across key presses
  while disks come and go.  Correct: one view at a time, keys go to what is
  shown, the disk that was picked is the disk that is written, no flash without
  confirmation, no running session is lost.
* **Browser.** Rows move under the cursor when the directory, the sort order or
  the filter changes, some handlers look the preview up again and some clear it.
  What is saved is found again by its name only.  Correct: the name the program
  completes tells the codec, the preview is of the file under the cursor, a file
  is overwritten only by a cursor that was aimed at it or by the name that was
  typed.
* **Pipeline.** Two tasks share a channel that fills up, buffers that are
  recycled, and a mutex that a `Drop` only tries.  Correct: units come out in
  order, once, none stale; memory stays bounded; either task ends when the other
  fails.
* **Command line.** Each command can fail or be killed anywhere, and the next
  one reads what it left.  Correct: "ok" is worth something - a verified flash
  is on the disk, a backup that is ok restores to the device, an archive that is
  ok unpacks to what was archived, `verify` tells the first difference.
* **Devices.** Correct: the disk the system runs from is not offered.

`PROJECT.json` lists every such hazard with its line and the properties that
cover it, and says of the others why none does yet.

## 2. The modules

```
Job                        what one session promises
 ^ implemented by
Session                    worker (abstract), channel, poll        SessionProofs
 ^ implemented by
Backup   Flash   Archive   do_backup, do_flash, do_archive         BackupProofs, FlashProofs,
                                                                   ArchiveProofs
Tui                        AppState and its keys; sessions as Jobs TuiProofs

Pipe                       what the two pumps promise together
 ^ implemented by
Pipeline                   reader::pump, writer::pump, BufferPool  PipelineProofs

Formats                    detect, detect_by_extension, detect_codec
 ^ extended by
Browser                    codec picker and file browser           BrowserProofs
Cli                        the commands; also extends Devices      CliProofs
Devices                    enumerate_raw of each platform, safety filter
```

`Backup`, `Flash` and `Archive` each EXTEND `Session`: they keep its channel and
its UI, action for action, and put a concrete worker in the place of the
abstract one.  `ImplementsSession` (= `Session!Spec`) says that each does only
what Session allows a worker, so what holds of every session holds of them.

**Job.** Two variables: a status, and the work shown, which only grows.

**Session.** `thread`, `outcome`, `bytes_in` and `bytes_out` are the worker's;
`chan` is the channel; `poll`, `status`, `ui_in`, `ui_out`, `last_in` and
`total_bytes` are `BackupProgress`; `shown` remembers the last frame.  `poll()`
is one action per `try_recv` (`RecvStarted`, `RecvTick`, ...), because the
worker runs between any two; `Join` is enabled only once the thread is gone, as
`join()` returns only then; `EndPoll` reads the atomic and draws.  The worker
may report any progress its counters allow, ends with one terminal event, or
(constant `CanPanic`) unwinds without one.

**Backup.** A device is a length, a reported length and at most one unreadable
unit; a destination is a capacity; both are jobs in the constant `Jobs`.  One
action per step of the loop: the cap (`ToRead`), the ways a read can end
(`ReadDone`, `ReadSome`, `ReadZero`, `ReadError`), `Write` and `WriteError`,
`MaybeTick`, and the drop of the encoder, which succeeds (`DropWriter`), loses an
error (`DropWriterShort`) or panics (`DropWriterPanics`, zstd only).  An encoder
passes on any part of what it holds and owes one unit more, its trailer.

**Flash.** An image is some members of some units, with at most one damaged
unit, which a read may fail on (`medium`) or only a decoder notice; gzip stands
for the decoders that stop behind the first member, zstd for the one that goes
on.  `Peek` takes the head and puts it back, or fails (`PeekError`), `Detect` is
`format::detect`, `InitDecoder` may fail, `Decode` delivers units while
`CountingReader` may already have counted more, `DecodeError` is a read or a
decoder that failed, `WriteError` a device that ends or does not take a unit, and
`Flush` does what `File::flush` does: nothing.

**Archive.** The tree is the sequence of its entries in walk order, each knowing
where its subtree ends (`IsTree`: subtrees are nested), so that the recursion is
a position.  Between any two
steps a tree that is not `calm` may have changed: a stat may see another size,
a call may fail, a file may deliver more or less than its header says, a
directory entry may come back as an error (`hidden`).  `AppendFails` follows the
code's classification of errors: only what `e.get_ref()` holds could be skipped.
`tar` is what was written: of every entry the length in its header and the length
that was copied behind it.  Where the two differ (`Torn`) a reader of the tar is
lost, so that `Restorable` are the entries in front of the first such file.
When the encoder is dropped over a destination that is full, zstd's panics
(`DropWriterPanics`) and any other loses an end of the tar (`DropWriterLoses`).

A selection is the entries the user checked, those he un-checked and those a
glob matches; `IsIncluded` and `Kept` are `selection.rs` and the rule that
enters a directory on the way to a checked path.  The TUI of this commit passes
no selection, the runner's own test passes one.

**Tui.** One action per key, guarded by `Handler`, the order of tests in
`dispatch_key`; `Screen` is the order of tests in the drawing closure.
`Enumerate` returns the listing of any set of attached disks, filtered as
`safety.rs` does.  Indices are the code's (from 0) and are kept as indices;
`picked` remembers which disk was highlighted when Enter was pressed.

**Browser.** The state of the codec picker and of the file browser, key by key,
over a disk whose files come and go (`Change`).  A name is known by its ending
and a filter by its length: where a filter makes the cursor jump to is any row.
`Refresh` re-reads the directory, keeps the row and forgets the preview; handlers
that move the cursor look it up again.  `picked` is what the browser handed on;
`aimed` remembers whether the cursor was moved since the last character typed or
change of directory.  A name that was typed may be that of a file (`Namesakes`):
`EnterSaveHere` hands it on either way, as nobody looks.  Tui models the same
keys from outside: which view is open.

**Pipe, Pipeline.** `Pipe` has what was taken from the source, what was
delivered, and how each side ended; never more than a window of units is
between.  In `Pipeline` a buffer is an allocation with a content that survives
its recycling, so that a stale unit would show; taking the lock of the pool
(`RAcquire`, `TryLock`) and using it are two steps, because `Drop` gives a
buffer back only if it finds the lock free.  The window is the channel and the
two buffers in hand.  Nothing frees the buffers in the pool when the pool itself
is dropped (`RawBuffer` has no `Drop`): the model ends before that.

**Formats.** Operators only: which codec a file is taken to need, by its magic
(a tekflash envelope has one, and no codec), by its name, or by both.

**Devices.** Operators over a layout, a forest of block devices: what `lsblk`,
`diskutil` and `Get-Disk` would say, which of it each `enumerate_raw` takes for
the system's disk, and the filter.  `Stem` is a name without its trailing digits;
`Chain` goes up from a device to the disk it is on, as far as the code means to.
`OnPartition` names the plain cases, per platform: on Linux, `/` is a partition of
a disk, or a disk whose name has no digit at its end; a Mac that started from
disk0 or from another disk it calls internal; Windows knows the disk it started
from.  `SystemDiskIsHidden` says that the system's disk is hidden in these cases
and in no other.

**Cli.** One command at a time, each a sequence of steps over a disk, an image,
a manifest and an archive that stay when it ends, fails or is killed (`Kill`).
Reads deliver any part of what was asked for, or fail; encoders pass on any part
of what they hold, directories are read in any order.  An image may have several
members, of which most decoders deliver the first (`FirstMember`); a manifest may
be written, cut off (then none is left that reads), or denied (`Written`,
`Emptied`).  What `restore` and `verify` cannot read is an error of their own
(`UnpackFails`, `VerifyFails`, `HashDeviceFails`).  `CliInv`, at the end of the
module, says what each command has done so far; CliProofs proves it.

In `Flash`, `Archive` and `Backup`, some lines of the program are one action
where nothing another thread can see happens in between (a private step is
marked `Silent`).  Operators after a comment that begins with "Mutant" are
deliberately wrong versions of the definition that follows; no specification
uses them.

## 3. The runs

Passing runs:

| Run | Shows |
|---|---|
| `session` | with a worker that may do anything, panic included: `NoRateUnderflow`, `JoinIsShort`, `TerminalIsLast`, `FrameIsExact`, `FramesAdvance`, `OutcomeIsShown` (liveness), `ImplementsJob` (refinement) |
| `backup` | `FinishedImageIsWhole`, `MissingTailIsBounded`, `StaysWithinTotal`, `HealthyBackupIsExact`, `ImplementsSession` (refinement); liveness: `EndsOnScreen`, unless the codec is zstd |
| `flash` | `FinishedFlashIsWhole`, `SoundFlashFinishes`, `ImplementsSession`; liveness: `FlashEnds` |
| `archive` | `CalmArchiveIsExact`, `OmissionsAreTold`, `SelectionIsHonoured`, `ImplementsSession`; liveness: `EndsOnScreen`, unless the codec is zstd |
| `tui` | `OneThingAtATime`, `KeysGoToWhatIsShown`, `SessionsHitThePickedDisk`, `FlashIsConfirmed`, `RunningSessionsStay` |
| `browser` | `SavedNameTellsTheCodec`, `PreviewIsHonest`, `OverwriteIsDeliberate`, and its type invariant, which has the bounds of cursor and levels |
| `pipeline` | `BuffersAddUp` (no leak, no sharing, no use after free), `MemoryIsBounded`, `ImplementsPipe` (refinement: FIFO and back-pressure); liveness: `PumpsEnd` |
| `cli` | `VerifiedFlashMatches`, `VerdictIsRight`, `BackupOkIsExact`, `RestoredIsArchived`, `SystemDiskIsHidden` |

The type invariants and the inductive invariants are proved (section 4) rather
than run; only Browser's type invariant, which has the bounds of its indices, is
also a property of a run.

Runs that end in a violation, each a place where the code does something else
than a comment, a test or the documentation says (`findings` in `PROJECT.json`
quotes both sides):

| Run | The code |
|---|---|
| `tui_stale` | `r` leaves the cursor outside a shorter list; Enter then opens an invisible picker for no device |
| `backup_panic` | a zstd encoder that cannot finish panics: no terminal event, a session that cannot be dismissed (in the release profile: the end of the program) |
| `verify_short_image` | after a flash the whole disk is hashed, not the part that was written: on a disk larger than the image a good flash ends in "verify FAILED" |
| `archive_torn` | a file that changed between its stat and its copying takes everything behind it out of a restore's reach; the archive is Finished, with a hash over what no restore returns |

Some passing properties state what the code does where a doc or a comment says
something else; these are findings too, named by run and property:

| Property | The code | The doc |
|---|---|---|
| `FinishedFlashIsWhole` | the TUI's flash asks the magic only and writes a brotli image undecoded (`Detect` of `Flash`) | do_flash (progress_runner.rs:206-209) and `detect_codec` (core/pipeline/format.rs:134-137), "the single source of truth" |
| `FinishedFlashIsWhole` | of a gzip image of several members only the first is flashed (`DecoderEnd`) | do_flash, as above |
| `OverwriteIsDeliberate` | a typed name that exists is handed on and truncated, and a focused file at once | file_browser.rs:220-221, "so the user sees what's about to be replaced" |
| `VerdictIsRight` | `verify --manifest` compares the device with the text of the manifest (cli.rs:497) | cli.rs:77, 176 and help.rs:141, "source of truth" |
| `VerdictIsRight` | a compressed file is compared as it is stored, and never equals a device | verify.rs:73-76, "after decompression" |
| `SystemDiskIsHidden` | one step up from the source of `/` is not the disk when LVM and LUKS are between (core/device/linux.rs:169) | linux.rs:156, 168, "Walk pkname chain" |
| `SystemDiskIsHidden` | of a Mac that started from an external disk that disk is listed (core/device/macos.rs:94) | core/device/mod.rs:64, "contains the running root filesystem" |

Other behaviour that may surprise is written into the models and the properties,
without a run of its own:

* encoders other than zstd lose the error of what did not fit when they are
  dropped, and the backup or archive is Finished (`DropWriterShort`,
  `DropWriterLoses`): `FinishedImageIsWhole`, `OmissionsAreTold` and
  `BackupOkIsExact` except the destinations on which this happens, so no property
  speaks for a file written there;
* a tolerated error near the end drops units behind it that the device could
  deliver (`MissingTailIsBounded` says how many at most);
* Finished comes before the kernel has written: `flush` of a `File` does
  nothing (progress_runner.rs:292-293);
* errors inside the tar builder carry no inner error where the code looks for
  one, so a file that turns unreadable aborts the archive (`AppendFails`);
* a file picked below a directory that a glob excludes brings in its siblings
  (`SelectionIsHonoured` excepts them);
* `--show-all` starts with internal disks listed under "[removable only]"
  (`Init` of `Tui`), quitting ends running sessions (`CtrlC`, `HomeQuit`), and a
  flash can be confirmed in a terminal too small to show the dialog;
* in the browser, Tab and Ctrl-H keep the number of the row and not the file;
  Backspace leaves the cursor on a listed file;
* on the command line: an `--exclude` that matches the top directory archives
  nothing and says ok; an uncompressed archive cut off by a kill restores as ok; a
  backup that is killed leaves the manifest of an earlier one beside its image,
  and a manifest that could not be written to the end is left empty or cut off;
  verify re-reads through the page cache (verify.rs:9-13 says so);
* `--encrypt`, `--decrypt`, `--resume` and `--no-sparse` are parsed and ignored,
  and so are the verify modes `sampled` and `deferred`;
* internal disks other than the system's are listed on Linux and Windows; when
  `/` is a whole NVMe disk or a btrfs subvolume, `RootDeviceName` is no disk's
  name (`OnPartition` excepts these).

### Bounds

* `MaxIn`, `MaxOut` (2 to 4 units) and `Buf` = 2.  What matters about a count is
  whether it is zero, equal to, one below or beyond a limit, and whether a
  device takes several reads with a short last one; 3 units with a buffer of 2
  give all of these.  One unit stands for any number of bytes.
* `MaxQueued`: unread events.  Only ticks wait for room; skipping a tick is
  always possible in the code (it is throttled by a clock), except for the few
  that are sent unconditionally, which then wait for the UI.  Session uses 2, so
  that a tick and the terminal event queue up behind another tick; the workers,
  whose own steps are the question, use 1 (a terminal event is never held back,
  so two events are still queued).  SessionProofs has no such bound.
* `MCBackup`, `MCFlash` and `MCArchive` list the jobs: devices a unit shorter or
  longer than reported or of unknown size, sound or bad at either end;
  destinations too small for the data, for the trailer only, or big enough;
  images in one or two members, in every format, sound or damaged in the first or
  the last unit, and whatever cannot be opened; trees with nested directories, a
  link, system metadata and a deselected file.  A tree that changes and a
  destination that fills up are different jobs.
* `MCArchive` tries 51 selections on one tree three directories deep: paths
  checked above, at and below one another, un-checked below checked ones, with
  and without a glob.
* `Tui`: one removable and one internal disk, two sessions (one in the violation
  run): enough for a list to shrink, to change its order of indices and for a
  session to be dismissed in front of another.
* `Browser`: a directory with one image, and beside it a file whose name
  misleads and a hidden one; two of them come and go; the endings of two codecs
  (one in two spellings) and of an image are typed; a filter of two characters.
* `Pipeline`: five units in buffers of two through a channel of two: four
  buffers can be on the way at once, so the channel fills, a short last buffer
  follows a recycled long one, and the source outlasts a writer that failed.
  The pool starts with one buffer and may get up to six.
* `Cli`: two commands in a row (one leaves, one finds), each killed anywhere, over
  a disk of three units read two at a time, and nine images as long as the
  disk, shorter and longer, in one member and two, and an envelope; archives of
  five entries in three levels; eight layouts, five plain and three others.
* `MaxIn` of `Archive` bounds how far a file grows while it is read.

The TUI and CLI runs do not check deadlock: after quitting, and after the last
command, nothing happens.  All other runs check it: their UI polls for ever, the
browser opens again, and the pipeline stays where it is once both pumps have
returned (`Idle`), so that a wait of one for the other would be found.

### Fairness

`WF(UI)`: the event loop polls every session on every frame, and a frame comes
at least every 100 ms.  `WF(worker)`: the OS runs both threads, and devices, files and
mounts answer (a read that hangs for ever hangs the session, in the code as in
the model).  In Session, weak fairness of reporting
(`SendFinished \/ SendFailed`) says that the worker's loop comes to an end;
Backup, Flash and Archive need no such assumption, their loops are in the
model: that is what `EndsOnScreen` and `FlashEnds` are for.  A file that grows faster than
it is read is excluded by the bound `MaxIn`.  In Pipeline, `WF(Reader)` and
`WF(Writer)`: each pump has a thread of the blocking pool to itself.  Tui, Browser
and Cli claim nothing that needs fairness.

## 4. The proofs

Every safety invariant, every action property and every refinement that a
passing run checks is also proved, for every value of the constants that the
named assumptions allow.  TLC checked each inductive invariant on the instances
of section 3 before it was proved.  None of the properties is inductive alone;
for each module this is what had to be added.

**SessionProofs**, for every number of bytes, every length of the queue and
workers that may or may not panic.

* `SessionInvariant`: `Spec => []IInv`.  The counts in the queue are sorted and
  lie between what the UI has applied and what the worker has reached
  (`QueueIsSorted`), a worker that has reported does not move any more and
  reported exactly where it stands (`ReportIsFinal`), and what the UI believes
  about the end is what happened (`UIKnowsOutcome`).
* From it `SessionTypeOK`, `RateNeverUnderflows`, `JoinNeverWaitsForWork`,
  `TerminalEventIsLast`, `FramesAreExact`, and the action property
  `FramesOnlyAdvance`.
* `SessionImplementsJob`: every step of a session is a step of the abstract job
  (with `done <- ui_in`) or changes nothing of it.

**BackupProofs**, for every buffer size, device and destination.

* `BackupInvariant`: `BSpec => []BInv`.  `UnitsAddUp` accounts for every unit that
  was read (in the file, in the encoder, or lost to an error that is about to be
  reported); `ReportIsEarned` follows the way from the loop's exit to the report;
  `HealthyGoesWell` says that no step of a healthy backup can fail.
* From it `BackupStaysWithinTotal`, `BackupMissesNoMiddle`, `BackupImageIsWhole`
  and `BackupOfHealthyDevice`.
* `BackupImplementsSession`: a backup is a session, so that the theorems of
  `SessionProofs` hold of it; `BackupFramesAreExact` and `BackupTypeOK` use that.

**FlashProofs**, for every buffer size, image and device.

* `FlashInvariant`: `FSpec => []FInv`.  `DecodedAddsUp` says that what the decoder
  delivered is on the device or in hand, in order from the first unit;
  `FlashReport` follows the way to the report; `SoundGoesWell` says that no step of
  a flash of a sound image with room for it can fail.
* From it `FlashIsWhole` and `SoundFlashIsFlashed`, and by
  `FlashImplementsSession` again `FlashFramesAreExact` and `FlashTypeOK`.

**ArchiveProofs**, for every tree, selection, destination and change of the tree.

* `ArchiveInvariant`: `ASpec => []AInv`.  `LeftBehind` says of every entry behind
  the walk that it is in the tar or pruned, counted as skipped or lost by a
  listing; `WalkReport` follows the way to the report.  `ArchiveOmissionsAreTold`,
  `ArchiveImplementsSession`, `ArchiveFramesAreExact` and `ArchiveTypeOK` follow.
* `CalmArchiveInvariant`: `ASpec => []CInv` is about a tree that is left alone: the
  tar is what the walk has passed, in its order, the count is that of the
  measuring pass up to the same entry (`CalmWalk`), and the total that was
  announced is what the measuring pass found (`Announced`).  No file is torn in
  such a tree, so what is in the tar can be restored.  That the two
  traversals agree rests on the recursive function `SizeUpTo`; that its value is a
  number that never falls is shown by the least entry at which it would not be.
  `CalmArchivesAreExact` and `SelectionsAreHonoured` follow, the latter with
  lemmas about how `IsIncluded` behaves between a path and its parents.

**PipelineProofs**, for every source, pool, channel and failure of either side.

* `PipelineInvariant`: `Spec => []PInv`.  `WhoHolds` and `OneOwner` give every
  buffer exactly one owner (pool, reader, channel, writer); `UnderWay` says that
  the buffers between the two pumps hold consecutive slices of the source;
  `HowTheyEnd` relates the ways the pumps return to the channel; `Overrun` bounds
  how far the reader still gets after the writer has failed: as far as the
  channel has room.
* From it `BuffersAreAccountedFor`, `PipelineMemoryIsBounded`, and
  `PipelineImplementsPipe`: step by step the two pumps are a pipe.

**TuiProofs**, for any number of disks and sessions and any listing order.

* `TuiInvariant`: `Spec => []TInv`.  `Exclusive` says which views exclude one
  another, `AboutThePicked` that every open view is about the disk that was
  highlighted when it was opened (whatever its index means by now), `InOrder` that
  sessions are in the order they were started.
* From it `TuiShowsOneThing`, `TuiKeysGoWhereShown`, `TuiHitsThePickedDisk`, and the
  action properties `TuiConfirmsFlashes` and `TuiKeepsRunningSessions`.

**BrowserProofs**, for every directory tree and set of files that come and go.

* `BrowserInvariant`: `Spec => []BrInv`.  `ExtensionFits` says that the extension
  the browser carries is that of the codec it was opened with, `SaveHereFirst` that
  until the cursor is moved it is on the row that saves here.
* From it `BrowserTypeOK`, `BrowserNamesTellTheCodec`, `BrowserPreviewIsHonest`,
  `BrowserOverwritesDeliberately` (an action property: what a step hands on).

**CliProofs**, for every buffer size, disk, image, directory tree and layout of
devices, and any run of commands each of which may be killed.

* `CliInvariant`: `Spec => []CliInv`.  One conjunct for each command says what it
  has done so far: `FlashFollows` (what was hashed is the decoded image up to here;
  what is hashed afterwards is the disk's beginning), `BackupFollows` (image,
  encoder and buffer in hand make up what was hashed, and that is the device up
  to here), `VerifyFollows` (the streams agree up to here and both buffers begin
  here), `WalkFollows` (whatever the walk has reached is entered, passed over, or
  to be visited on exactly one level), `UnpackFollows` (how many entries were
  restored says which).  `ArchiveHolds` is what survives a command, and a kill: no
  entry is in the archive twice, and in one that was ok none is missing.
* From it `VerifiedFlashesMatch`, `VerdictsAreRight`, `BackupsAreExact`,
  `RestoresAreComplete`, `SystemDisksAreHidden` and `CliTypes`.
* `WalkedIsKept`: a walk that has nothing left to visit entered exactly what no
  pattern excludes.  The argument goes from the top down, for directories nested
  to any depth: `Below` is a least set, and the assumption that from the top one
  comes to every path is the induction it needs.
* `DiskItself`, for the disk of the system: on any layout a device without a
  parent is the disk it is on, the recursion of `Chain` again being met by the
  least counterexample; `RootDeviceIs` says when the name the code finds is the
  disk's, which makes `SystemDisksAreHidden` an equivalence.

The assumptions are those named in the modules.  They give the constants their
types, and beyond that:

| Assumption | What it says | Why |
|---|---|---|
| all | a buffer is not empty; `None` is none of the values it stands beside | constants in the code; `Option` |
| `SessionAssumption` | the bounds are numbers | |
| `BackupAssumption`, `ArchiveAssumption` | `CanPanic` | a zstd encoder can |
| `FlashAssumption` | the first member is part of the image | |
| `ArchiveAssumption` | `IsTree`: each entry's subtree lies within its parent's | a walk of a tree |
| `PipelineAssumption` | there are more allocations than `MemoryIsBounded` needs; the channel's depth is not 0 | or the bound would hold for want of memory; `mpsc::channel(0)` panics |
| `BrowserAssumption` | directories stay, files come and go; default levels are within their limits | `Codec::level_range` |
| `CliAssumption` | a disk is not empty; a plain file has no trailer to miss; the walk's top is in no directory, and from it one comes to every path | a drive without medium does not open; the paths are those below the top |
| `DevicesAssumption` | a layout is finite | what `lsblk` prints |
| `ForestAssumption` | the chain of parents from `/` ends at a device without one | a disk has no parent |

Only model-checked:

* liveness (`OutcomeIsShown`, `EndsOnScreen`, `FlashEnds`, `PumpsEnd`), which needs
  ENABLED and fairness and is out of the prover's reach;
* the four violations, which are counterexamples.

## 5. Not modelled

* Rates, ETA, texts, layout, themes: presentation without state of its own.
* Hash values and the hexadecimal text: the models say what was hashed.
* The encryption envelope, `keygen` and the JSON events: no command calls or
  emits them.  `sampled_ranges`: nothing calls it (as written it adds the tail
  of the device only if that is longer than two stripes).  The fields of the
  manifest other than the hash: nothing reads them back.
* The OS, the codecs and the tar crate: external, modelled by how the code
  uses them and by their documented behaviour.
* A panic in the release profile aborts the process; Session models the build
  that unwinds.  With one session in the model the difference cannot be seen.
  For the same reason two sessions with one destination, and the growth of the
  unbounded channel (the models hold ticks back instead), are not covered.
* A path that comes to mean another disk between listing and opening: in Tui
  and Cli a disk is its path.
* In Pipeline: cancelled futures and panics in a pump.

## 6. Plan

* `Sessions`: several sessions under one event loop, sharing destinations and
  devices, with the abort of the release profile and the unbounded queue.
* `Browser`: a filter with a content, so that where it makes the cursor jump is
  known.
