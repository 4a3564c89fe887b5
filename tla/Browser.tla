------------------------------ MODULE Browser ------------------------------
(***************************************************************************)
(* The codec picker and the file browser of the TUI, which together decide *)
(* what a backup or an archive is called and how it is encoded, and which  *)
(* image a flash takes.  Tui has when they open and close; this module has *)
(* their own state, key by key, over directories that may change at any    *)
(* moment.                                                                 *)
(*                                                                         *)
(* The save name is known by its ending (see Formats), "empty" while       *)
(* nothing is typed; typing and deleting a character choose among the      *)
(* endings one character away.  The filter is known by its length, and     *)
(* where it makes the cursor jump is left open.                            *)
(***************************************************************************)
EXTENDS Naturals, Sequences, FiniteSets, Functions, Formats

CONSTANTS
  Tree,       \* what may be on the disk: name -> its directory and kind
  Order,      \* those names, sorted
  Root, Home, \* the top directory, and default_start_dir()
  LevelRange, \* codec -> <<min_level, default_level, max_level>>
  Volatile,   \* the files among them that come and go
  Typed,      \* the endings the user types
  MaxFilter,  \* bound on the length of the filter
  None

Names == DOMAIN Tree

Nodes == [dir : {Root} \cup Names, is_dir : BOOLEAN, hidden : BOOLEAN,
          ending : Endings \cup {"plain"}, content : Contents]

ASSUME BrowserAssumption ==
  /\ Tree \in [Names -> Nodes]
  /\ Order \in Seq(Names) /\ Names = Range(Order)
  /\ \A n \in Volatile : n \in Names /\ ~Tree[n].is_dir
  /\ Typed \subseteq Endings
  /\ Root \notin Names /\ Home \in Names \cup {Root} /\ None \notin Names
  /\ LevelRange \in [Codecs -> Nat \X Nat \X Nat]
  /\ \A c \in Codecs : LevelRange[c][1] <= LevelRange[c][2] /\ LevelRange[c][2] <= LevelRange[c][3]
  /\ MaxFilter \in Nat

VARIABLES
  disk,     \* names present on the disk
  view,     \* "home", "codec" or "browse"
  action,   \* "Flash", "Backup" or "Archive": what is being prepared
  cursor,   \* CodecPicker.cursor
  levels,   \* CodecPicker.levels
  codec, level,               \* BrowserPurpose
  ext,                        \* FileBrowser.desired_extension
  cwd, entries, selected,     \* FileBrowser
  show_hidden, show_all,      \* FileBrowser.show_hidden, show_all_types
  focused_magic,              \* FileBrowser.focused_magic
  save_name, filter,          \* FileBrowser
  aimed,    \* history: moved since the last character typed or change of cwd?
  picked    \* history: what was picked last, and for what

picker  == <<cursor, levels>>
purpose == <<action, codec, level, ext>>
browser == <<cwd, entries, selected, show_hidden, show_all, focused_magic,
             save_name, filter, aimed>>
vars    == <<disk, view, picker, purpose, browser, picked>>

\* CODECS, in the order of the list.
CODECS ==
  << [codec |-> "zstd",   extension |-> ".zst"],
     [codec |-> "lz4",    extension |-> ".lz4"],
     [codec |-> "brotli", extension |-> ".br"],
     [codec |-> "xz",     extension |-> ".xz"],
     [codec |-> "gzip",   extension |-> ".gz"],
     [codec |-> "bzip2",  extension |-> ".bz2"],
     [codec |-> "none",   extension |-> "empty"] >>

MinLevel(i)     == LevelRange[CODECS[i].codec][1]
DefaultLevel(i) == LevelRange[CODECS[i].codec][2]
MaxLevel(i)     == LevelRange[CODECS[i].codec][3]

Defaults == [i \in DOMAIN CODECS |-> DefaultLevel(i)]

Save == action # "Flash"

Entries == [kind : {"SaveHere", "Parent"}, name : {None}] \cup [kind : {"Normal"}, name : Names]

TypeOK ==
  /\ disk \subseteq Names
  /\ view \in {"home", "codec", "browse"}
  /\ action \in {"Flash", "Backup", "Archive"}
  /\ cursor \in DOMAIN CODECS
  /\ levels \in [DOMAIN CODECS -> Nat]
  /\ \A i \in DOMAIN CODECS : levels[i] \in MinLevel(i) .. MaxLevel(i)
  /\ codec \in Codecs /\ level \in LevelRange[codec][1] .. LevelRange[codec][3]
  /\ ext \in Endings \cup {None}
  /\ cwd \in {Root} \cup Names
  /\ entries \in Seq(Entries)
  /\ selected \in Nat /\ (view = "browse" => selected \in DOMAIN entries)
  /\ show_hidden \in BOOLEAN /\ show_all \in BOOLEAN /\ aimed \in BOOLEAN
  /\ focused_magic \in InputFormats \cup {None}
  /\ save_name \in {"empty", "plain"} \cup Endings
  /\ filter \in 0..MaxFilter

-----------------------------------------------------------------------------
(* The directory listing. *)

Hint(n) == IF Tree[n].is_dir THEN "None" ELSE DetectByExtension(Tree[n].ending)

Rank(n) ==
  CASE Tree[n].is_dir                              -> 0
    [] Hint(n) \in {"Raw", "Zstd", "Xz", "Gzip"}   -> 1
    [] Hint(n) = "None"                            -> 3
    [] OTHER                                       -> 2

Position(n) == CHOOSE i \in 1..Len(Order) : Order[i] = n

\* With all types shown files are not ranked, but directories come first.
Before(all, a, b) ==
  LET r(n) == IF all /\ Rank(n) > 0 THEN 1 ELSE Rank(n)
  IN  r(a) < r(b) \/ (r(a) = r(b) /\ Position(a) < Position(b))

ReadDir(dir, hidden) == {n \in disk : Tree[n].dir = dir /\ (hidden \/ ~Tree[n].hidden)}

Row(kind) == [kind |-> kind, name |-> None]

\* S in the order shown, the only one there is.
Sorted(S, all) ==
  { r \in [1..Cardinality(S) -> S] :
      \A i, j \in DOMAIN r : i < j => Before(all, r[i], r[j]) }

Above(save) == IF save THEN <<Row("SaveHere"), Row("Parent")>> ELSE <<Row("Parent")>>

Listing(save, dir, hidden, all) ==
  { Above(save) \o [i \in DOMAIN real |-> [kind |-> "Normal", name |-> real[i]]]
      : real \in Sorted(ReadDir(dir, hidden), all) }

\* Mutant: the cursor stays where it was in a list that has become shorter.
RefreshUnclamped(save, dir, hidden, all, sel) ==
  /\ cwd' = dir /\ show_hidden' = hidden /\ show_all' = all
  /\ entries' \in Listing(save, dir, hidden, all)
  /\ selected' = sel
  /\ focused_magic' = None

\* Mutant: the preview of the file that had the cursor is kept.
RefreshKeepsMagic(save, dir, hidden, all, sel) ==
  /\ cwd' = dir /\ show_hidden' = hidden /\ show_all' = all
  /\ entries' \in Listing(save, dir, hidden, all)
  /\ selected' = IF sel > Len(entries') THEN Len(entries') ELSE sel
  /\ UNCHANGED focused_magic

\* FileBrowser::refresh, from the settings it finds.  The cursor keeps its
\* row, whatever is listed there now.
Refresh(save, dir, hidden, all, sel) ==
  /\ cwd' = dir /\ show_hidden' = hidden /\ show_all' = all
  /\ entries' \in Listing(save, dir, hidden, all)
  /\ selected' = IF sel > Len(entries') THEN Len(entries') ELSE sel
  /\ focused_magic' = None

\* open_with_extension: in Save mode the first row is "save here".
OpenBrowser(save) ==
  /\ Refresh(save, Home, FALSE, FALSE, 1)
  /\ save_name' = "empty" /\ filter' = 0 /\ aimed' = FALSE

\* app.codec_picker = None
DropPicker == cursor' = 1 /\ levels' = Defaults

\* app.browser = None and app.browser_purpose taken
DropBrowser ==
  /\ cwd' = Home /\ show_hidden' = FALSE /\ show_all' = FALSE
  /\ entries' = <<>> /\ selected' = 1 /\ focused_magic' = None
  /\ save_name' = "empty" /\ filter' = 0 /\ aimed' = FALSE
  /\ action' = "Flash" /\ codec' = "none" /\ level' = DefaultLevel(7) /\ ext' = None

-----------------------------------------------------------------------------
(* The way in: from the action picker. *)

Init ==
  /\ disk = Names
  /\ view = "home"
  /\ action = "Flash" /\ codec = "none" /\ level = DefaultLevel(7) /\ ext = None
  /\ cursor = 1 /\ levels = Defaults
  /\ cwd = Home /\ show_hidden = FALSE /\ show_all = FALSE
  /\ entries = <<>> /\ selected = 1
  /\ focused_magic = None
  /\ save_name = "empty" /\ filter = 0 /\ aimed = FALSE
  /\ picked = None

\* Enter on Flash: straight to the browser, with a codec nobody asked for.
PickFlash ==
  /\ view = "home"
  /\ view' = "browse"
  /\ action' = "Flash" /\ codec' = "none" /\ level' = DefaultLevel(7) /\ ext' = None
  /\ OpenBrowser(FALSE)
  /\ picked' = None
  /\ UNCHANGED <<disk, picker>>

\* CodecPicker::new
PickCopy(a) ==
  /\ view = "home"
  /\ view' = "codec"
  /\ action' = a
  /\ cursor' = 1 /\ levels' = Defaults
  /\ picked' = None
  /\ UNCHANGED <<disk, codec, level, ext, browser>>

-----------------------------------------------------------------------------
(* handle_codec_picker_key *)

CodecEsc ==
  /\ view = "codec" /\ view' = "home"
  /\ action' = "Flash"
  /\ DropPicker
  /\ UNCHANGED <<disk, codec, level, ext, browser, picked>>

CodecMove(i) ==
  /\ view = "codec"
  /\ i \in {cursor - 1, cursor + 1} \cap DOMAIN CODECS
  /\ cursor' = i
  /\ UNCHANGED <<disk, view, levels, purpose, browser, picked>>

\* One up, one down, or to either end of what the codec accepts.
CodecLevel(l) ==
  /\ view = "codec"
  /\ \/ l \in {levels[cursor] - 1, levels[cursor] + 1} \cap (MinLevel(cursor) .. MaxLevel(cursor))
     \/ l \in {MinLevel(cursor), MaxLevel(cursor)}
  /\ levels' = [levels EXCEPT ![cursor] = l]
  /\ UNCHANGED <<disk, view, cursor, purpose, browser, picked>>

\* Mutant: a codec does not add its own suffix.
OutputExtensionBare(a, i) == IF a = "Backup" THEN ".img" ELSE ".tar"

\* What the name will end in: ".img" or ".tar", then the codec's suffix.
OutputExtension(a, i) ==
  IF CODECS[i].extension # "empty" THEN CODECS[i].extension
  ELSE IF a = "Backup" THEN ".img" ELSE ".tar"

CodecEnter ==
  /\ view = "codec" /\ view' = "browse"
  /\ codec' = CODECS[cursor].codec /\ level' = levels[cursor]
  /\ ext' = OutputExtension(action, cursor)
  /\ OpenBrowser(TRUE)
  /\ DropPicker
  /\ UNCHANGED <<disk, action, picked>>

-----------------------------------------------------------------------------
(* handle_browser_key *)

Browsing == view = "browse" /\ UNCHANGED <<disk, picker>>

Stay == UNCHANGED <<view, purpose, picked>>

Esc ==
  /\ Browsing
  /\ view' = "home"
  /\ DropBrowser
  /\ UNCHANGED picked

ToggleAllTypes ==
  /\ Browsing /\ Stay
  /\ Refresh(Save, cwd, show_hidden, ~show_all, selected)
  /\ UNCHANGED <<save_name, filter, aimed>>

ToggleHidden ==
  /\ Browsing /\ Stay
  /\ Refresh(Save, cwd, ~show_hidden, show_all, selected)
  /\ UNCHANGED <<save_name, filter, aimed>>

\* update_focus_preview for a row: what the file's first bytes are now.
Preview(row) ==
  IF row.kind = "Normal" /\ ~Tree[row.name].is_dir /\ row.name \in disk
  THEN Detect(Tree[row.name].content)
  ELSE None

\* Up or Down; at either end of the list only the filter is cleared.
Move(up) ==
  /\ Browsing /\ Stay
  /\ selected' = IF up THEN (IF selected > 1 THEN selected - 1 ELSE 1)
                 ELSE (IF selected < Len(entries) THEN selected + 1 ELSE selected)
  /\ focused_magic' = Preview(entries[selected'])
  /\ filter' = 0
  /\ aimed' = TRUE
  /\ UNCHANGED <<cwd, entries, show_hidden, show_all, save_name>>

\* Into another directory: the cursor goes to the first row.
Navigate(dir) ==
  /\ Refresh(Save, dir, show_hidden, show_all, 1)
  /\ filter' = 0 /\ aimed' = FALSE
  /\ UNCHANGED save_name

GoParent ==
  IF cwd = Root THEN UNCHANGED browser ELSE Navigate(Tree[cwd].dir)

Left == Browsing /\ Stay /\ GoParent

\* The endings a name may have when one more character has been typed.
Longer(e) ==
  CASE e = "empty" -> {"plain"}
    [] e = "plain" -> {"plain"} \cup (Typed \ {".zstd"})
    [] e = ".zst"  -> {"plain"} \cup (Typed \cap {".zstd"})
    [] OTHER       -> {"plain"}

\* accept_char in Save mode.  Mutant: the cursor stays where it is.
TypeNameStays(e) ==
  /\ Browsing /\ Stay /\ Save
  /\ e \in Longer(save_name)
  /\ save_name' = e
  /\ aimed' = FALSE
  /\ UNCHANGED <<cwd, entries, selected, show_hidden, show_all, focused_magic, filter>>

\* accept_char in Save mode: back to "save here".
TypeName(e) ==
  /\ Browsing /\ Stay /\ Save
  /\ e \in Longer(save_name)
  /\ save_name' = e
  /\ selected' = 1
  /\ aimed' = FALSE
  /\ UNCHANGED <<cwd, entries, show_hidden, show_all, focused_magic, filter>>

\* apply_filter: to some file or directory that matches, or nowhere.
JumpTo(i) ==
  \/ UNCHANGED <<selected, focused_magic>>
  \/ /\ entries[i].kind = "Normal"
     /\ selected' = i /\ focused_magic' = None

\* accept_char in Open mode.
TypeFilter(i) ==
  /\ Browsing /\ Stay /\ ~Save
  /\ filter < MaxFilter
  /\ filter' = filter + 1
  /\ JumpTo(i)
  /\ UNCHANGED <<cwd, entries, show_hidden, show_all, save_name, aimed>>

\* What is typed is shortened first; only then does Backspace go up.
BackspaceName(e) ==
  /\ Browsing /\ Stay /\ Save
  /\ save_name \in Longer(e)
  /\ save_name' = e
  /\ UNCHANGED <<cwd, entries, selected, show_hidden, show_all, focused_magic, filter, aimed>>

BackspaceFilter(i) ==
  /\ Browsing /\ Stay /\ ~Save
  /\ filter > 0
  /\ filter' = filter - 1
  /\ IF filter' = 0 THEN UNCHANGED <<selected, focused_magic>> ELSE JumpTo(i)
  /\ UNCHANGED <<cwd, entries, show_hidden, show_all, save_name, aimed>>

BackspaceUp ==
  /\ Browsing /\ Stay
  /\ IF Save THEN save_name = "empty" ELSE filter = 0
  /\ GoParent

\* composed_save_name: a known suffix is left alone, the user may have meant
\* it; every desired extension ends in one.
HasKnownImageSuffix(e) == e \in Endings

ComposedSaveName ==
  IF save_name = "empty" \/ HasKnownImageSuffix(save_name) THEN save_name ELSE ext

Focused == entries[selected]

\* Nothing is done, but the preview is looked up again.
Idle ==
  /\ focused_magic' = None
  /\ UNCHANGED <<cwd, entries, selected, show_hidden, show_all, save_name, filter, aimed>>

\* The files in cwd, listed or not, that the composed name may be that of:
\* names are known by their endings only.
Namesakes == {n \in disk : /\ Tree[n].dir = cwd /\ ~Tree[n].is_dir
                          /\ Tree[n].ending = ComposedSaveName}

\* Enter or Right on "save here": nothing happens without a name.  Nobody
\* looks whether there is a file of that name, which the job then truncates.
EnterSaveHere ==
  /\ Browsing /\ Focused.kind = "SaveHere"
  /\ \/ save_name = "empty" /\ Stay /\ Idle
     \/ /\ save_name # "empty"
        /\ view' = "home"
        /\ \E n \in {None} \cup Namesakes :
             picked' = [action |-> action, codec |-> codec, level |-> level, name |-> n,
                        ending |-> ComposedSaveName, auto |-> ~HasKnownImageSuffix(save_name)]
        /\ DropBrowser

EnterParent ==
  /\ Browsing /\ Stay /\ Focused.kind = "Parent"
  /\ IF cwd = Root THEN Idle ELSE GoParent

EnterDirectory ==
  /\ Browsing /\ Stay
  /\ Focused.kind = "Normal" /\ Tree[Focused.name].is_dir
  /\ Navigate(Focused.name)

\* An image to flash, or a file to overwrite: no question is asked.
EnterFile ==
  /\ Browsing
  /\ Focused.kind = "Normal" /\ ~Tree[Focused.name].is_dir
  /\ view' = "home"
  /\ picked' = [action |-> action, codec |-> codec, level |-> level, name |-> Focused.name,
                ending |-> Tree[Focused.name].ending, auto |-> FALSE]
  /\ DropBrowser

-----------------------------------------------------------------------------
\* Files and directories come and go behind the browser's back.
Change(n) ==
  /\ disk' = IF n \in disk THEN disk \ {n} ELSE disk \cup {n}
  /\ UNCHANGED <<view, picker, purpose, browser, picked>>

CodecKey ==
  \/ CodecEsc \/ CodecEnter
  \/ (\E i \in DOMAIN CODECS : CodecMove(i))
  \/ (\E c \in Codecs : \E l \in LevelRange[c][1] .. LevelRange[c][3] : CodecLevel(l))

BrowserKey ==
  \/ Esc \/ ToggleAllTypes \/ ToggleHidden \/ Left
  \/ (\E up \in BOOLEAN : Move(up))
  \/ (\E e \in {"empty", "plain"} \cup Typed : TypeName(e) \/ BackspaceName(e))
  \/ (\E i \in DOMAIN entries : TypeFilter(i) \/ BackspaceFilter(i))
  \/ BackspaceUp
  \/ EnterSaveHere \/ EnterParent \/ EnterDirectory \/ EnterFile

Next ==
  \/ PickFlash \/ (\E a \in {"Backup", "Archive"} : PickCopy(a))
  \/ CodecKey \/ BrowserKey
  \/ (\E n \in Volatile : Change(n))

Spec == Init /\ [][Next]_vars

-----------------------------------------------------------------------------
(* Properties. *)

\* What is saved under a name the program completed is read back with the
\* codec that wrote it, by restore, which goes by the name, and by the command
\* line's flash.  A suffix the user typed, or a file that is overwritten, may
\* mislead restore; flash is misled only where the codec leaves no magic.
SavedNameTellsTheCodec ==
  picked # None /\ picked.action # "Flash" =>
    /\ picked.auto => RestoreCodec(picked.ending) = picked.codec
    /\ picked.auto \/ picked.codec \in Magic
         => DetectCodec(picked.codec, picked.ending) = picked.codec

\* The format the preview shows by magic is that of the file the cursor is on,
\* through every jump, re-sort and change of directory: render_preview shows
\* it for any file, and a flash is chosen by it.
PreviewIsHonest ==
  view = "browse" /\ Focused.kind = "Normal" /\ ~Tree[Focused.name].is_dir
    => focused_magic \in {None, Detect(Tree[Focused.name].content)}

\* A backup or an archive overwrites a file in one of two ways.  Either the
\* cursor was moved onto it since a name was last typed or a directory entered;
\* or the name typed, as the program completed it, is that of a file in the
\* directory shown, which is replaced although nothing on screen says so.
OverwriteIsDeliberate ==
  [][ /\ picked' # picked /\ picked' # None
      /\ picked'.action # "Flash" /\ picked'.name # None
      => \/ aimed /\ Focused.kind = "Normal" /\ picked'.name = Focused.name
         \/ /\ Focused.kind = "SaveHere" /\ Tree[picked'.name].dir = cwd
            /\ Tree[picked'.name].ending = ComposedSaveName ]_vars

-----------------------------------------------------------------------------
(* The inductive invariant behind them. *)

\* What a name will be completed with fits the codec that will be used.
ExtensionFits ==
  view = "browse" /\ Save =>
    \E i \in DOMAIN CODECS : codec = CODECS[i].codec /\ ext = OutputExtension(action, i)

\* "Save here" is the first row, and the cursor is on it until it is moved.
SaveHereFirst ==
  view = "browse" /\ Save =>
    /\ entries[1].kind = "SaveHere"
    /\ ~aimed => selected = 1

BrInv ==
  /\ TypeOK /\ ExtensionFits /\ SaveHereFirst
  /\ SavedNameTellsTheCodec /\ PreviewIsHonest
=============================================================================
