------------------------------ MODULE Archive ------------------------------
(***************************************************************************)
(* do_archive: a worker that walks a directory tree and streams it, as a   *)
(* tar, through an encoder into a file.  Like Backup and Flash, it         *)
(* replaces Session's abstract worker.                                     *)
(*                                                                         *)
(* The tree is the sequence of its entries in the order the walk reaches   *)
(* them, the root first; an entry knows the last entry below it.  A calm   *)
(* tree does not change and can be read; any other may change, vanish or   *)
(* refuse access between two system calls.  Sizes are in blocks of the     *)
(* tar: a file that ends within the block its header says is framed right. *)
(***************************************************************************)
EXTENDS Session, FiniteSets

CONSTANTS Jobs   \* the BackupParams and circumstances considered

Entries == [kind   : {"dir", "file", "link"},
            size   : 0..MaxIn,     \* of a file, when the tree is measured
            system : BOOLEAN,      \* is_system_metadata
            last   : Nat]          \* the last entry of its subtree

\* What the user checked, un-checked, and what a glob matches, by entry; 0 is
\* a directory above the root.
Selections == [included : SUBSET Nat, excluded : SUBSET Nat, globbed : SUBSET Nat]

Params == [source : {"directory", "device", "other"},
           tree   : Seq(Entries),
           selection : {None} \cup Selections,
           calm   : BOOLEAN,       \* is the tree left alone, and readable?
           room   : BOOLEAN,       \* does the destination hold everything?
           opens  : BOOLEAN,       \* can the destination be created?
           codec  : {"zstd", "other"}]

\* Its root is a directory, only directories have something below them, and
\* what is below an entry below i is below i.
IsTree(t) ==
  /\ Len(t) > 0 /\ t[1].kind = "dir"
  /\ \A i \in 1..Len(t) :
       /\ t[i].last \in i..Len(t)
       /\ t[i].last > i => t[i].kind = "dir"
       /\ \A j \in i .. t[i].last : t[j].last <= t[i].last

ASSUME ArchiveAssumption ==
  /\ CanPanic
  /\ MaxQueued > 0
  /\ \A p \in Jobs : p \in Params /\ IsTree(p.tree)

VARIABLES
  params,   \* the job; never changes
  step,     \* where do_archive is
  ok,       \* is it on its way to return Ok?
  pos,      \* the entry the walk is at
  header,   \* size of that file when it was stat'ed: the tar header's
  data,     \* units of it read so far
  tar,      \* entries written to the file, in order: which, and how long they
            \* claim to be and are
  told,     \* history: entries a "skipped" Tick was sent for
  hidden    \* entries whose DirEntry came back as an error

local == <<params, step, ok, pos, header, data, tar, told, hidden>>
avars == <<vars, local>>

Errors == {"denied", "gone", "other", "full"}
Steps == {"source", "mount", "measure", "opening", "open", "walk", "tick",
          "entry", "list", "header", "data", "drop", "return", "done"}

ATypeOK ==
  /\ TypeOK
  /\ params \in Jobs
  /\ step \in Steps
  /\ ok \in BOOLEAN
  /\ pos \in 1 .. Len(params.tree) + 1
  /\ header \in 0..MaxIn /\ data \in 0..MaxIn
  /\ tar \in Seq([entry : Nat, header : 0..MaxIn, data : 0..MaxIn])
  /\ told \subseteq 1..Len(params.tree)
  /\ hidden \subseteq 1..Len(params.tree)

AInit ==
  /\ InitSession
  /\ total_bytes = None
  /\ params \in Jobs
  /\ step = "source"
  /\ ok = TRUE
  /\ pos = 1 /\ header = 0 /\ data = 0
  /\ tar = <<>> /\ told = {} /\ hidden = {}

-----------------------------------------------------------------------------
At(s) == thread = "running" /\ step = s

Goto(s) == step' = s /\ UNCHANGED params

Silent == UNCHANGED vars

Unwalked == UNCHANGED <<pos, header, data, tar, told, hidden>>

Here == params.tree[pos]
Below(i) == i .. params.tree[i].last
Children(i) == { j \in Below(i) \ {i} :
                   \A k \in Below(i) \ {i, j} : j \notin Below(k) }

\* The worker's closure gets an Err once everything has been dropped.
Fail == ok' = FALSE

(* Before the walk. *)

Source ==
  /\ At("source") /\ params.source # "device" /\ Silent
  /\ IF params.source = "directory"
     THEN Goto("measure") /\ UNCHANGED ok
     ELSE Goto("return") /\ Fail
  /\ Unwalked

\* A device node: say so, then try to mount it.
AnnounceMount ==
  /\ At("source") /\ params.source = "device"
  /\ SendTick
  /\ Goto("mount")
  /\ UNCHANGED ok /\ Unwalked

Mount ==
  /\ At("mount") /\ Silent
  /\ \/ Goto("measure") /\ UNCHANGED ok
     \/ Goto("return") /\ Fail
  /\ Unwalked

(* ArchiveSelection. *)

Sel == params.selection

\* The path and its ancestors, up to the file system's root.
Above(i) == {0} \cup { j \in 1..i : i \in Below(j) }

\* The mark that decides is the one nearest to the path; un-checked wins.
Marks(i) == Above(i) \cap (Sel.included \cup Sel.excluded)

ExplicitlyExcluded(i) == \E x \in Marks(i) \cap Sel.excluded : \A y \in Marks(i) : y <= x

IsIncluded(i) ==
  /\ i \notin Sel.globbed
  /\ ~ExplicitlyExcluded(i)
  /\ Sel.included = {} \/ Marks(i) # {}

\* Mutant: a directory on the way to what was checked is not entered.
KeptIfIncluded(i) == Sel = None \/ IsIncluded(i)

Kept(i) ==
  \/ Sel = None
  \/ IsIncluded(i)
  \/ params.tree[i].kind = "dir" /\ Sel.included \cap Below(i) # {}

\* Neither the totals nor the walk go below system metadata or a directory
\* the selection does not keep.
Skipped(i) == params.tree[i].system \/ ~Kept(i)

Pruned == { i \in 1..Len(params.tree) : \E j \in 1..i : i \in Below(j) /\ Skipped(j) }

\* Mutant: the measuring pass does not know system metadata.
MeasuredWithSystem == { i \in 1..Len(params.tree) : params.tree[i].kind = "file"
  /\ \A j \in 1..i : i \in Below(j) => Kept(j) }

Measured == { i \in 1..Len(params.tree) : params.tree[i].kind = "file" } \ Pruned

SizeUpTo[i \in 0..Len(params.tree)] ==
  IF i = 0 THEN 0
  ELSE SizeUpTo[i - 1] + (IF i \in Measured THEN params.tree[i].size ELSE 0)

\* precompute_total_bytes, exact if the tree is calm.
Total == SizeUpTo[Len(params.tree)]

Measure ==
  /\ At("measure")
  /\ \E t \in 0..MaxIn : (params.calm => t = Total) /\ SendStarted(t)
  /\ Goto("opening")
  /\ UNCHANGED ok /\ Unwalked

AnnounceSource ==
  /\ At("opening")
  /\ SendTick
  /\ Goto("open")
  /\ UNCHANGED ok /\ Unwalked

Open ==
  /\ At("open") /\ Silent
  /\ IF params.opens
     THEN Goto("walk") /\ UNCHANGED ok
     ELSE Goto("return") /\ Fail
  /\ Unwalked

-----------------------------------------------------------------------------
(* walk_and_archive, one entry at a time. *)

Walking == At("walk") /\ pos <= Len(params.tree)

Leave(i) == pos' = i /\ header' = 0 /\ data' = 0

\* Pass over the entry and what is below it, with a Tick that says so.
Skip ==
  /\ SendTick
  /\ told' = told \cup {pos}
  /\ Leave(Here.last + 1)
  /\ Goto("walk")
  /\ UNCHANGED <<ok, tar, hidden>>

\* read.flatten() drops what it could not read.
PassHidden ==
  /\ Walking /\ pos \in hidden /\ Silent
  /\ Leave(Here.last + 1)
  /\ Goto("walk")
  /\ UNCHANGED <<ok, tar, told, hidden>>

SkipSystem == Walking /\ pos \notin hidden /\ Here.system /\ Skip

Stat ==
  /\ Walking /\ pos \notin hidden /\ ~Here.system /\ Silent
  /\ IF Kept(pos)
     THEN /\ \E n \in 0..MaxIn : (params.calm => n = Here.size) /\ header' = n
          /\ Goto("tick")
          /\ UNCHANGED <<pos, data>>
     ELSE Leave(Here.last + 1) /\ Goto("walk")
  /\ UNCHANGED <<ok, tar, told, hidden>>

Abort ==
  /\ Silent
  /\ Fail
  /\ Goto("drop")
  /\ Unwalked

Skippable == {"denied", "gone"}

\* Mutant: a vanished entry is passed over in silence.
SkipOrAbortQuietly(e) ==
  IF e = "gone"
  THEN /\ Silent
       /\ Leave(Here.last + 1)
       /\ Goto("walk")
       /\ UNCHANGED <<ok, tar, told, hidden>>
  ELSE IF e = "denied" THEN Skip ELSE Abort

SkipOrAbort(e) == IF e \in Skippable THEN Skip ELSE Abort

\* stat, read_dir or open fails.
CallFails(e) ==
  /\ ~params.calm
  /\ e \in {"denied", "gone", "other"}
  /\ \/ Walking /\ pos \notin hidden /\ ~Here.system
     \/ At("list")
     \/ At("entry") /\ Here.kind = "file"
  /\ SkipOrAbort(e)

MaybeTick ==
  /\ At("tick")
  /\ SendTick \/ Silent
  /\ Goto("entry")
  /\ UNCHANGED ok /\ Unwalked

\* Reads n units, and passes some of what is buffered on to the file.
Move1(n) ==
  /\ bytes_in + n <= MaxIn
  /\ bytes_in' = bytes_in + n
  /\ bytes_out' \in bytes_out .. bytes_out + 1 /\ bytes_out' <= MaxOut
  /\ UNCHANGED <<thread, outcome, chan, ui>>

Appended(n, m) == tar' = Append(tar, [entry |-> pos, header |-> n, data |-> m])

\* The root has no header of its own.
AppendDir ==
  /\ At("entry") /\ Here.kind = "dir"
  /\ IF pos = 1 THEN Silent /\ UNCHANGED tar ELSE Move1(0) /\ Appended(0, 0)
  /\ Goto("list")
  /\ UNCHANGED <<ok, pos, header, data, told, hidden>>

ListDir ==
  /\ At("list") /\ Silent
  /\ \E lost \in SUBSET Children(pos) :
       (params.calm => lost = {}) /\ hidden' = hidden \cup lost
  /\ Leave(pos + 1)
  /\ Goto("walk")
  /\ UNCHANGED <<ok, tar, told>>

AppendLink ==
  /\ At("entry") /\ Here.kind = "link"
  /\ Move1(0) /\ Appended(0, 0)
  /\ Leave(pos + 1)
  /\ Goto("walk")
  /\ UNCHANGED <<ok, told, hidden>>

OpenFile ==
  /\ At("entry") /\ Here.kind = "file" /\ Silent
  /\ Goto("header")
  /\ UNCHANGED ok /\ Unwalked

\* append_data writes a header with the size of the stat ...
WriteHeader ==
  /\ At("header") /\ Move1(0)
  /\ Goto("data")
  /\ UNCHANGED ok /\ Unwalked

\* Mutant: the count is that of one file.
CopyDataPerFile ==
  /\ At("data") /\ bytes_in' = data + 1 /\ bytes_in' <= MaxIn
  /\ params.calm => data < header
  /\ data' = data + 1
  /\ Goto("data")
  /\ UNCHANGED <<thread, outcome, bytes_out, chan, ui>>
  /\ UNCHANGED <<ok, pos, header, tar, told, hidden>>

\* ... and then what the file delivers up to its end, counted and hashed.
CopyData ==
  /\ At("data") /\ Move1(1)
  /\ params.calm => data < header
  /\ data' = data + 1
  /\ Goto("data")
  /\ UNCHANGED <<ok, pos, header, tar, told, hidden>>

\* The padding goes by what was copied: nobody compares that with the header.
EndOfFile ==
  /\ At("data") /\ Silent
  /\ params.calm => data = header
  /\ Appended(header, data)
  /\ Leave(pos + 1)
  /\ Goto("walk")
  /\ UNCHANGED <<ok, told, hidden>>

\* A call into the tar builder fails.  The code looks for a skippable error
\* in e.get_ref(), where neither the OS's errors nor the builder's own put
\* one, so every failure ends the archive.
AppendFails(e) ==
  /\ \/ At("entry") /\ (Here.kind = "link" \/ (Here.kind = "dir" /\ pos > 1))
     \/ At("header") \/ At("data")
  /\ \/ e = "full" /\ ~params.room
     \/ e \in {"denied", "gone", "other"} /\ ~params.calm /\ ~At("header")
  /\ Abort

-----------------------------------------------------------------------------
(* After the walk. *)

\* builder.finish() writes the end of the tar.
Finish ==
  /\ At("walk") /\ pos > Len(params.tree)
  /\ \/ Move1(0) /\ UNCHANGED ok
     \/ ~params.room /\ Silent /\ Fail
  /\ Goto("drop")
  /\ Unwalked

\* Builder and encoder go out of scope; the encoder owes its trailer.
DropWriter ==
  /\ At("drop") /\ Move1(0)
  /\ Goto("return")
  /\ UNCHANGED ok /\ Unwalked

\* On a full destination any encoder but zstd's loses what it still held, and
\* the error with it: the end of the tar, or all of a small one.
DropWriterLoses ==
  /\ At("drop") /\ ~params.room /\ params.codec = "other" /\ Silent
  /\ \E n \in 0..Len(tar) : tar' = SubSeq(tar, 1, n)
  /\ Goto("return")
  /\ UNCHANGED <<ok, pos, header, data, told, hidden>>

DropWriterPanics ==
  /\ At("drop") /\ ~params.room /\ params.codec = "zstd"
  /\ Panic
  /\ Goto("done")
  /\ UNCHANGED ok /\ Unwalked

\* Mutant: only success is reported.
ReturnQuiet ==
  /\ At("return")
  /\ IF ok THEN SendFinished
     ELSE thread' = "gone" /\ UNCHANGED <<outcome, bytes_in, bytes_out, chan, ui>>
  /\ Goto("done")
  /\ UNCHANGED ok /\ Unwalked

Return ==
  /\ At("return")
  /\ IF ok THEN SendFinished ELSE SendFailed
  /\ Goto("done")
  /\ UNCHANGED ok /\ Unwalked

AExit == Exit /\ UNCHANGED local

AWorker ==
  \/ Source \/ AnnounceMount \/ Mount \/ Measure \/ AnnounceSource \/ Open
  \/ PassHidden \/ SkipSystem \/ Stat
  \/ (\E e \in Errors : CallFails(e) \/ AppendFails(e))
  \/ MaybeTick
  \/ AppendDir \/ ListDir \/ AppendLink
  \/ OpenFile \/ WriteHeader \/ CopyData \/ EndOfFile
  \/ Finish \/ DropWriter \/ DropWriterLoses \/ DropWriterPanics
  \/ Return
  \/ AExit

AUI == UI /\ UNCHANGED local

ANext == AWorker \/ AUI

ASpec == AInit /\ [][ANext]_avars

\* Files that end, and a scheduler that runs both threads.
AFairSpec == ASpec /\ WF_avars(AWorker) /\ WF_avars(AUI)

-----------------------------------------------------------------------------
(* Properties. *)

\* A directory that can be read, does not change and fits.
Healthy == params.calm /\ params.room /\ params.opens /\ params.source = "directory"

InTar == { tar[k].entry : k \in 1..Len(tar) }

\* A file that was longer or shorter than its header says when it was copied:
\* whoever reads the tar looks for the next header in the wrong place.
Torn(k) == tar[k].header # tar[k].data

\* What a reader of the tar gets back, and what is in it and out of reach.
Restorable == { tar[k].entry : k \in { n \in 1..Len(tar) : \A l \in 1..n : ~Torn(l) } }
BehindTorn == { tar[k].entry : k \in { n \in 1..Len(tar) : \E l \in 1..n : Torn(l) } }

\* A healthy archive is written to the end: every entry that is not pruned can
\* be restored, is there once, and the gauge ends at exactly the total that
\* was announced, although the measuring pass and the walk are two different
\* traversals.
CalmArchiveIsExact ==
  Healthy /\ thread = "gone"
  => /\ outcome = "Finished"
     /\ Restorable = (2..Len(params.tree)) \ Pruned
     /\ Len(tar) = Cardinality(Restorable)
     /\ shown.status = "Finished" => total_bytes = shown.bytes_in

\* What the doc of ArchiveSelection calls Fully: the path or an ancestor is
\* checked, and nothing between the two, nor the path, is un-checked.  When
\* nothing is checked, everything is.
Fully(i) ==
  \/ Sel.included = {} /\ Above(i) \cap Sel.excluded = {}
  \/ \E a \in Above(i) \cap Sel.included :
       \A x \in Above(i) \cap Sel.excluded : x < a

\* The walk decides entry by entry, and enters a directory only if it is kept
\* itself or leads to a checked path.  Still the files archived are those the
\* selection means: none that is not Fully selected or that a glob matches,
\* and every one that is, with no glob matching a directory above it.
SelectionIsHonoured ==
  Healthy /\ Sel # None /\ thread = "gone"
  => \A i \in 1..Len(params.tree) : params.tree[i].kind = "file" =>
       /\ i \in Restorable => Fully(i) /\ i \notin Sel.globbed
       /\ Fully(i) /\ Above(i) \cap Sel.globbed = {}
            /\ (\A j \in Above(i) \ {0} : ~params.tree[j].system)
          => i \in Restorable

\* Where the drop of the encoder may have lost the end of the tar.
TailLost == ~params.room /\ params.codec = "other" /\ step \in {"return", "done"}

\* What cannot be restored from a Finished archive was pruned, is below an
\* entry a Tick reported as skipped or one the directory listing itself lost,
\* or lies at or behind a file that changed while it was copied (ReadsBack).
\* Nothing else is missing, whatever changed or could not be read, unless the
\* destination was too small and the encoder lost the end in its Drop.
OmissionsAreTold ==
  outcome = "Finished" /\ ~TailLost =>
    (2..Len(params.tree)) \ Restorable
      \subseteq Pruned \cup BehindTorn \cup UNION { Below(i) : i \in told \cup hidden }

Restored[n \in 0..Len(tar)] ==
  IF n = 0 THEN 0
  ELSE Restored[n - 1] + (IF tar[n].entry \in Restorable THEN tar[n].data ELSE 0)

\* The doc of do_archive: the hash, which is over the bytes counted in
\* bytes_in, "matches what restore would see on read-back".
ReadsBack == outcome = "Finished" => bytes_in = Restored[Len(tar)]

\* do_archive behaves as a session's worker does.
ImplementsSession == Spec

\* Whatever goes wrong, the session ends on screen, unless the codec panics.
EndsOnScreen == (params.codec # "zstd") ~> (shown.status # "Running")

-----------------------------------------------------------------------------
(* The inductive invariants behind them. *)

Length == Len(params.tree)

Before == {"source", "mount", "measure", "opening", "open"}
Inside == {"tick", "entry", "list", "header", "data"}
After  == {"drop", "return", "done"}

ATypes ==
  /\ params \in Jobs
  /\ step \in Steps /\ ok \in BOOLEAN
  /\ thread \in {"running", "reported", "gone"}
  /\ outcome \in {"None"} \cup Outcomes
  /\ bytes_in \in Nat /\ bytes_out \in Nat
  /\ pos \in 1 .. Length + 1
  /\ header \in 0..MaxIn
  /\ data \in 0..MaxIn /\ data <= bytes_in
  /\ tar \in Seq([entry : Nat, header : 0..MaxIn, data : 0..MaxIn])
  /\ told \subseteq 1..Length /\ hidden \subseteq 1..Length

\* Where the worker is, how it got there, and what it may report.
WalkReport ==
  /\ thread = "running" <=> step # "done"
  /\ step # "done" => outcome = "None"
  /\ outcome = "Finished" => ok
  /\ step \in Before => pos = 1 /\ tar = <<>> /\ bytes_in = 0 /\ bytes_out = 0
  /\ step \in Inside => pos <= Length
  /\ step \in {"header", "data"} => Here.kind = "file"
  /\ step = "list" => Here.kind = "dir"
  /\ step \notin After => ok
  /\ step \in After /\ ok => pos = Length + 1
  /\ step # "data" /\ ok => data = 0

\* A directory is in the tar before it is listed.
Reached == IF step = "list" THEN pos ELSE pos - 1

\* What the walk has left behind is in the tar or accounted for.
LeftBehind ==
  ~TailLost =>
    (2..Reached) \ InTar \subseteq Pruned \cup UNION { Below(i) : i \in told \cup hidden }

AInv == ATypes /\ WalkReport /\ LeftBehind

\* Entries are in the tar in the order of the walk, each once and complete,
\* and the count is that of the measuring pass up to here.
CalmWalk ==
  /\ hidden = {}
  /\ \A j \in 1 .. pos - 1 : Skipped(j) => params.tree[j].last < pos
  /\ step \in Inside => ~Skipped(pos)
  /\ step \in Inside \ {"list"} => header = Here.size
  /\ data <= header
  /\ InTar = (2..Reached) \ Pruned
  /\ \A k \in 1..Len(tar) : tar[k].header = tar[k].data /\ tar[k].entry <= Reached
  /\ \A k, l \in 1..Len(tar) : k < l => tar[k].entry < tar[l].entry
  /\ bytes_in = SizeUpTo[pos - 1] + data

\* The total is on its way to the UI, or there.
Announced ==
  /\ total_bytes \in {None, Total}
  /\ \A i \in 1..Len(chan) : chan[i].kind = "Started" => chan[i].total_bytes = Total
  /\ ok /\ step \notin {"source", "mount", "measure"} =>
       \/ total_bytes = Total
       \/ \E i \in 1..Len(chan) : chan[i].kind = "Started"

CInv ==
  /\ params.calm => (TailLost \/ CalmWalk) /\ Announced
  /\ Healthy => ok /\ step # "mount" /\ (step = "done" => outcome = "Finished")
=============================================================================
