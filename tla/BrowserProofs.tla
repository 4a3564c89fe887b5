--------------------------- MODULE BrowserProofs ---------------------------
(***************************************************************************)
(* Proofs about the file browser and the codec picker, for every tree and  *)
(* every set of files that come and go: a name the program completes tells *)
(* its codec, the preview is that of the file under the cursor, and no     *)
(* file is overwritten before the cursor was moved.                        *)
(***************************************************************************)
EXTENDS Browser, FiniteSetTheorems, FunctionTheorems, SequenceTheorems, TLAPS

-----------------------------------------------------------------------------
(* Codecs and names. *)

LEMMA CodecRows ==
  /\ DOMAIN CODECS = 1..7
  /\ CODECS[1] = [codec |-> "zstd",   extension |-> ".zst"]
  /\ CODECS[2] = [codec |-> "lz4",    extension |-> ".lz4"]
  /\ CODECS[3] = [codec |-> "brotli", extension |-> ".br"]
  /\ CODECS[4] = [codec |-> "xz",     extension |-> ".xz"]
  /\ CODECS[5] = [codec |-> "gzip",   extension |-> ".gz"]
  /\ CODECS[6] = [codec |-> "bzip2",  extension |-> ".bz2"]
  /\ CODECS[7] = [codec |-> "none",   extension |-> "empty"]
  BY DEF CODECS

LEMMA CodecTable ==
  /\ DOMAIN CODECS = 1..7
  /\ \A i \in DOMAIN CODECS :
       /\ CODECS[i].codec \in Codecs
       /\ LevelRange[CODECS[i].codec] \in Nat \X Nat \X Nat
       /\ MinLevel(i) \in Nat /\ DefaultLevel(i) \in Nat /\ MaxLevel(i) \in Nat
       /\ DefaultLevel(i) \in MinLevel(i) .. MaxLevel(i)
  /\ CODECS[7].codec = "none"
  <1>1. DOMAIN CODECS = 1..7 /\ CODECS[7].codec = "none"
    BY CodecRows
  <1>2. ASSUME NEW i \in DOMAIN CODECS
        PROVE  /\ CODECS[i].codec \in Codecs
               /\ LevelRange[CODECS[i].codec] \in Nat \X Nat \X Nat
               /\ MinLevel(i) \in Nat /\ DefaultLevel(i) \in Nat /\ MaxLevel(i) \in Nat
               /\ DefaultLevel(i) \in MinLevel(i) .. MaxLevel(i)
    <2>1. i \in {1, 2, 3, 4, 5, 6, 7}
      BY <1>1
    <2>2. CODECS[i].codec \in Codecs
      BY <2>1, CodecRows DEF Codecs
    <2>3. LevelRange[CODECS[i].codec] \in Nat \X Nat \X Nat
      BY <2>2, BrowserAssumption
    <2>4. /\ LevelRange[CODECS[i].codec][1] <= LevelRange[CODECS[i].codec][2]
          /\ LevelRange[CODECS[i].codec][2] <= LevelRange[CODECS[i].codec][3]
      BY <2>2, BrowserAssumption
    <2> QED
      BY <2>2, <2>3, <2>4 DEF MinLevel, DefaultLevel, MaxLevel
  <1> QED
    BY <1>1, <1>2

\* A name the program completed is read back with the codec it was completed
\* for, by its ending alone and together with the magic.
LEMMA ExtensionTells ==
  ASSUME NEW a, NEW i \in DOMAIN CODECS
  PROVE  /\ OutputExtension(a, i) \in Endings
         /\ RestoreCodec(OutputExtension(a, i)) = CODECS[i].codec
         /\ DetectCodec(CODECS[i].codec, OutputExtension(a, i)) = CODECS[i].codec
  <1>1. i \in {1, 2, 3, 4, 5, 6, 7}
    BY CodecTable
  <1>2. OutputExtension(a, i) \in Endings
    BY <1>1, CodecRows DEF OutputExtension, Endings
  <1>3. RestoreCodec(OutputExtension(a, i)) = CODECS[i].codec
    BY <1>1, CodecRows DEF OutputExtension, RestoreCodec, CodecFrom, DetectByExtension
  <1>4. DetectCodec(CODECS[i].codec, OutputExtension(a, i)) = CODECS[i].codec
    BY <1>3, <1>1, CodecRows DEF RestoreCodec, DetectCodec, Detect, CodecFrom
  <1> QED
    BY <1>2, <1>3, <1>4

\* A magic outweighs any ending.
LEMMA MagicTells ==
  ASSUME NEW c \in Magic, NEW e
  PROVE  DetectCodec(c, e) = c
  BY DEF Magic, DetectCodec, Detect, CodecFrom

-----------------------------------------------------------------------------
(* The listing. *)

LEMMA NamesAreFinite == IsFiniteSet(Names)
  <1>1. PICK n \in Nat : n = Len(Order)
    BY BrowserAssumption
  <1>2. Order \in [1..n -> Names]
    BY <1>1, BrowserAssumption
  <1>3. \A m \in Names : \E i \in 1..n : Order[i] = m
    BY <1>2, BrowserAssumption DEF Range
  <1>4. Order \in Surjection(1..n, Names)
    BY <1>2, <1>3 DEF Surjection
  <1> QED
    BY <1>1, <1>4, FS_Interval, FS_Surjection

LEMMA ListingTypes ==
  ASSUME disk \subseteq Names, NEW save \in BOOLEAN, NEW dir, NEW hidden, NEW all,
         NEW l \in Listing(save, dir, hidden, all)
  PROVE  /\ l \in Seq(Entries)
         /\ Len(l) >= 1
         /\ save => l[1].kind = "SaveHere"
  <1>1. PICK S : S = ReadDir(dir, hidden)
    OBVIOUS
  <1>2. S \subseteq Names
    BY <1>1 DEF ReadDir
  <1>3. PICK n \in Nat : n = Cardinality(S)
    BY <1>2, NamesAreFinite, FS_Subset, FS_CardinalityType
  <1>4. PICK real \in [1..n -> S] :
          l = Above(save) \o [i \in DOMAIN real |-> [kind |-> "Normal", name |-> real[i]]]
    BY <1>1, <1>3 DEF Listing, Sorted
  <1>5. PICK rows : rows = [i \in 1..n |-> [kind |-> "Normal", name |-> real[i]]]
    OBVIOUS
  <1>6. rows \in Seq(Entries) /\ l = Above(save) \o rows
    BY <1>2, <1>4, <1>5 DEF Entries
  <1>7. Above(save) \in Seq(Entries) /\ Len(Above(save)) >= 1
        /\ (save => Above(save)[1].kind = "SaveHere")
    <2>1. Row("SaveHere") \in Entries /\ Row("Parent") \in Entries /\ Row("SaveHere").kind = "SaveHere"
      BY DEF Row, Entries
    <2> QED
      BY <2>1 DEF Above
  <1> QED
    BY <1>6, <1>7

LEMMA RefreshTypes ==
  ASSUME disk \subseteq Names, NEW save \in BOOLEAN,
         NEW dir \in {Root} \cup Names, NEW hidden \in BOOLEAN, NEW all \in BOOLEAN,
         NEW sel \in Nat \ {0}, Refresh(save, dir, hidden, all, sel)
  PROVE  /\ cwd' \in {Root} \cup Names
         /\ show_hidden' \in BOOLEAN /\ show_all' \in BOOLEAN
         /\ entries' \in Seq(Entries)
         /\ selected' \in Nat /\ selected' \in DOMAIN entries'
         /\ sel = 1 => selected' = 1
         /\ save => entries'[1].kind = "SaveHere"
         /\ focused_magic' = None
  <1>1. /\ entries' \in Seq(Entries) /\ Len(entries') >= 1
        /\ save => entries'[1].kind = "SaveHere"
    BY ListingTypes DEF Refresh
  <1>2. PICK n \in Nat : n = Len(entries') /\ n >= 1 /\ DOMAIN entries' = 1..n
    BY <1>1
  <1>3. selected' = IF sel > n THEN n ELSE sel
    BY <1>2 DEF Refresh
  <1> QED
    BY <1>1, <1>2, <1>3 DEF Refresh

LEMMA ConstantTypes ==
  /\ 0 \in 0..MaxFilter /\ MaxFilter \in Nat
  /\ Home \in {Root} \cup Names
  /\ Volatile \subseteq Names
  /\ \A n \in Names : Tree[n].dir \in {Root} \cup Names
  /\ DefaultLevel(7) \in LevelRange["none"][1] .. LevelRange["none"][3] /\ "none" \in Codecs
  <1>1. DefaultLevel(7) \in LevelRange["none"][1] .. LevelRange["none"][3] /\ "none" \in Codecs
    BY CodecTable DEF MinLevel, MaxLevel, Codecs
  <1>2. \A n \in Names : Tree[n].dir \in {Root} \cup Names
    BY BrowserAssumption DEF Nodes
  <1> QED
    BY <1>1, <1>2, BrowserAssumption

LEMMA SaveIsBoolean == Save \in BOOLEAN
  BY DEF Save

-----------------------------------------------------------------------------
(* The inductive invariant. *)

LEMMA InitBrInv == Init => BrInv
  <1> SUFFICES ASSUME Init PROVE BrInv
    OBVIOUS
  <1>1. Defaults \in [DOMAIN CODECS -> Nat]
        /\ \A i \in DOMAIN CODECS : Defaults[i] \in MinLevel(i) .. MaxLevel(i)
    BY CodecTable DEF Defaults
  <1>2. cursor \in DOMAIN CODECS /\ entries \in Seq(Entries) /\ selected \in Nat
    BY CodecTable DEF Init
  <1>3. TypeOK
    BY <1>1, <1>2, ConstantTypes DEF Init, TypeOK
  <1> QED
    BY <1>3 DEF Init, BrInv, ExtensionFits, SaveHereFirst, SavedNameTellsTheCodec,
                PreviewIsHonest

\* What DropPicker and DropBrowser leave behind.
LEMMA DropTypes ==
  /\ DropPicker => /\ cursor' \in DOMAIN CODECS
                   /\ levels' \in [DOMAIN CODECS -> Nat]
                   /\ \A i \in DOMAIN CODECS : levels'[i] \in MinLevel(i) .. MaxLevel(i)
  /\ DropBrowser =>
       /\ action' = "Flash" /\ ext' = None
       /\ codec' \in Codecs /\ level' \in LevelRange[codec'][1] .. LevelRange[codec'][3]
       /\ cwd' \in {Root} \cup Names /\ entries' \in Seq(Entries) /\ selected' \in Nat
       /\ show_hidden' \in BOOLEAN /\ show_all' \in BOOLEAN /\ aimed' \in BOOLEAN
       /\ focused_magic' = None /\ save_name' = "empty" /\ filter' \in 0..MaxFilter
  <1>1. Defaults \in [DOMAIN CODECS -> Nat]
        /\ \A i \in DOMAIN CODECS : Defaults[i] \in MinLevel(i) .. MaxLevel(i)
    BY CodecTable DEF Defaults
  <1>2. 1 \in DOMAIN CODECS
    BY CodecTable
  <1>3. ASSUME DropBrowser
        PROVE  /\ action' = "Flash" /\ ext' = None
               /\ codec' \in Codecs /\ level' \in LevelRange[codec'][1] .. LevelRange[codec'][3]
               /\ cwd' \in {Root} \cup Names /\ entries' \in Seq(Entries) /\ selected' \in Nat
               /\ show_hidden' \in BOOLEAN /\ show_all' \in BOOLEAN /\ aimed' \in BOOLEAN
               /\ focused_magic' = None /\ save_name' = "empty" /\ filter' \in 0..MaxFilter
    <2>1. codec' \in Codecs /\ level' \in LevelRange[codec'][1] .. LevelRange[codec'][3]
      BY <1>3, ConstantTypes DEF DropBrowser
    <2>2. cwd' \in {Root} \cup Names /\ filter' \in 0..MaxFilter
      BY <1>3, ConstantTypes DEF DropBrowser
    <2>3. entries' \in Seq(Entries)
      BY <1>3 DEF DropBrowser
    <2> QED
      BY <1>3, <2>1, <2>2, <2>3 DEF DropBrowser
  <1>4. DropPicker => /\ cursor' \in DOMAIN CODECS
                      /\ levels' \in [DOMAIN CODECS -> Nat]
                      /\ \A i \in DOMAIN CODECS : levels'[i] \in MinLevel(i) .. MaxLevel(i)
    BY <1>1, <1>2 DEF DropPicker
  <1> QED
    BY <1>3, <1>4

LEMMA PickKeepsBrInv ==
  ASSUME BrInv, PickFlash \/ (\E a \in {"Backup", "Archive"} : PickCopy(a))
  PROVE  BrInv'
  <1>1. CASE PickFlash
    <2>1. Refresh(FALSE, Home, FALSE, FALSE, 1)
      BY <1>1 DEF PickFlash, OpenBrowser
    <2>2. Home \in {Root} \cup Names /\ disk \subseteq Names
      BY ConstantTypes DEF BrInv, TypeOK
    <2>3. /\ entries' \in Seq(Entries) /\ selected' \in DOMAIN entries' /\ selected' \in Nat
          /\ cwd' \in {Root} \cup Names /\ focused_magic' = None
          /\ show_hidden' \in BOOLEAN /\ show_all' \in BOOLEAN
      <3>1. FALSE \in BOOLEAN /\ 1 \in Nat \ {0}
        OBVIOUS
      <3> QED
        BY <2>1, <2>2, <3>1, RefreshTypes
    <2>4. TypeOK'
      BY <1>1, <2>3, ConstantTypes DEF BrInv, TypeOK, PickFlash, OpenBrowser, picker
    <2> QED
      BY <1>1, <2>3, <2>4 DEF PickFlash, BrInv, ExtensionFits, SaveHereFirst, Save,
                              SavedNameTellsTheCodec, PreviewIsHonest
  <1>2. CASE \E a \in {"Backup", "Archive"} : PickCopy(a)
    <2>1. DropPicker /\ action' \in {"Backup", "Archive"} /\ view' = "codec" /\ picked' = None
          /\ UNCHANGED <<disk, codec, level, ext, browser>>
      BY <1>2 DEF PickCopy, DropPicker
    <2>2. TypeOK'
      BY <2>1, DropTypes DEF BrInv, TypeOK, browser
    <2> QED
      BY <2>1, <2>2 DEF BrInv, ExtensionFits, SaveHereFirst, SavedNameTellsTheCodec,
                        PreviewIsHonest
  <1> QED
    BY <1>1, <1>2

LEMMA CodecKeepsBrInv ==
  ASSUME BrInv, CodecKey
  PROVE  BrInv'
  <1> USE DEF BrInv
  <1>1. CASE CodecEsc
    <2>1. TypeOK'
      BY <1>1, DropTypes DEF CodecEsc, TypeOK, browser
    <2> QED
      BY <1>1, <2>1 DEF CodecEsc, ExtensionFits, SaveHereFirst, SavedNameTellsTheCodec,
                        PreviewIsHonest
  <1>2. CASE \E i \in DOMAIN CODECS : CodecMove(i)
    <2>1. TypeOK'
      BY <1>2 DEF CodecMove, TypeOK, browser, purpose
    <2> QED
      BY <1>2, <2>1 DEF CodecMove, ExtensionFits, SaveHereFirst, SavedNameTellsTheCodec,
                        PreviewIsHonest
  <1>3. CASE \E c \in Codecs : \E l \in LevelRange[c][1] .. LevelRange[c][3] : CodecLevel(l)
    <2>1. PICK c \in Codecs : \E l \in LevelRange[c][1] .. LevelRange[c][3] : CodecLevel(l)
      BY <1>3
    <2>2. PICK l \in LevelRange[c][1] .. LevelRange[c][3] : CodecLevel(l)
      BY <2>1
    <2>3. cursor \in DOMAIN CODECS /\ MinLevel(cursor) \in Nat /\ MaxLevel(cursor) \in Nat
          /\ MinLevel(cursor) <= MaxLevel(cursor)
      <3>1. cursor \in DOMAIN CODECS
        BY DEF TypeOK
      <3> QED
        BY <3>1, CodecTable
    <2>4. l \in MinLevel(cursor) .. MaxLevel(cursor)
      BY <2>2, <2>3 DEF CodecLevel
    <2>5. levels' \in [DOMAIN CODECS -> Nat]
          /\ \A i \in DOMAIN CODECS : levels'[i] \in MinLevel(i) .. MaxLevel(i)
      BY <2>2, <2>3, <2>4 DEF CodecLevel, TypeOK
    <2>6. TypeOK'
      BY <2>2, <2>5 DEF CodecLevel, TypeOK, browser, purpose
    <2> QED
      BY <2>2, <2>6 DEF CodecLevel, ExtensionFits, SaveHereFirst, SavedNameTellsTheCodec,
                        PreviewIsHonest
  <1>4. CASE CodecEnter
    <2>1. Home \in {Root} \cup Names /\ disk \subseteq Names /\ cursor \in DOMAIN CODECS
          /\ Refresh(TRUE, Home, FALSE, FALSE, 1)
      BY <1>4, ConstantTypes DEF TypeOK, CodecEnter, OpenBrowser
    <2>2. /\ entries' \in Seq(Entries) /\ selected' \in DOMAIN entries' /\ selected' \in Nat
          /\ cwd' \in {Root} \cup Names /\ focused_magic' = None
          /\ show_hidden' \in BOOLEAN /\ show_all' \in BOOLEAN
          /\ selected' = 1 /\ entries'[1].kind = "SaveHere"
      <3>1. FALSE \in BOOLEAN /\ TRUE \in BOOLEAN /\ 1 \in Nat \ {0}
        OBVIOUS
      <3> QED
        BY <2>1, <3>1, RefreshTypes
    <2>3. codec' \in Codecs /\ level' \in LevelRange[codec'][1] .. LevelRange[codec'][3]
      BY <1>4, <2>1, CodecTable DEF CodecEnter, TypeOK, MinLevel, MaxLevel
    <2>4. ext' \in Endings
      BY <1>4, <2>1, ExtensionTells DEF CodecEnter
    <2>5. TypeOK'
      BY <1>4, <2>2, <2>3, <2>4, DropTypes, ConstantTypes DEF TypeOK, CodecEnter, OpenBrowser
    <2>6. ExtensionFits'
      BY <1>4, <2>1 DEF CodecEnter, ExtensionFits, OutputExtension, CODECS
    <2> QED
      BY <1>4, <2>2, <2>5, <2>6 DEF CodecEnter, SaveHereFirst, SavedNameTellsTheCodec,
                                    PreviewIsHonest
  <1> QED
    BY <1>1, <1>2, <1>3, <1>4 DEF CodecKey

\* The directory is read again, and nothing is left or picked.
LEMMA RefreshKeepsBrInv ==
  ASSUME BrInv, Browsing, Stay,
         NEW dir \in {Root} \cup Names, NEW hidden \in BOOLEAN, NEW all \in BOOLEAN,
         NEW sel \in Nat \ {0}, Refresh(Save, dir, hidden, all, sel),
         aimed' \in BOOLEAN, Save /\ ~aimed' => sel = 1,
         filter' \in 0..MaxFilter, save_name' = save_name
  PROVE  BrInv'
  <1>1. disk \subseteq Names
    BY DEF BrInv, TypeOK
  <1>2. /\ cwd' \in {Root} \cup Names
        /\ show_hidden' \in BOOLEAN /\ show_all' \in BOOLEAN
        /\ entries' \in Seq(Entries) /\ selected' \in Nat /\ selected' \in DOMAIN entries'
        /\ sel = 1 => selected' = 1
        /\ Save => entries'[1].kind = "SaveHere"
        /\ focused_magic' = None
    BY <1>1, SaveIsBoolean, RefreshTypes
  <1>3. TypeOK'
    BY <1>2 DEF BrInv, TypeOK, Browsing, Stay, picker, purpose
  <1>4. ExtensionFits' /\ SavedNameTellsTheCodec'
    BY DEF BrInv, ExtensionFits, SavedNameTellsTheCodec, Browsing, Stay, purpose, Save
  <1>5. SaveHereFirst' /\ PreviewIsHonest'
    BY <1>2 DEF SaveHereFirst, PreviewIsHonest, Stay, purpose, Save
  <1> QED
    BY <1>3, <1>4, <1>5 DEF BrInv

LEMMA NavigateKeepsBrInv ==
  ASSUME BrInv, Browsing, Stay, NEW dir \in {Root} \cup Names, Navigate(dir)
  PROVE  BrInv'
  <1>1. /\ Refresh(Save, dir, show_hidden, show_all, 1)
        /\ filter' = 0 /\ aimed' = FALSE /\ save_name' = save_name
    BY DEF Navigate
  <1>2. show_hidden \in BOOLEAN /\ show_all \in BOOLEAN /\ 1 \in Nat \ {0}
    BY DEF BrInv, TypeOK
  <1>3. filter' \in 0..MaxFilter /\ aimed' \in BOOLEAN /\ (Save /\ ~aimed' => 1 = 1)
    BY <1>1, ConstantTypes
  <1> QED
    BY <1>1, <1>2, <1>3, RefreshKeepsBrInv

LEMMA GoParentKeepsBrInv ==
  ASSUME BrInv, Browsing, Stay, GoParent
  PROVE  BrInv'
  <1>1. CASE cwd = Root
    <2>1. UNCHANGED browser
      BY <1>1 DEF GoParent
    <2>2. TypeOK'
      BY <2>1 DEF BrInv, TypeOK, Browsing, Stay, picker, purpose, browser
    <2> QED
      BY <2>1, <2>2 DEF BrInv, ExtensionFits, SaveHereFirst, SavedNameTellsTheCodec,
         PreviewIsHonest, Focused, Browsing, Stay, purpose, Save, browser
  <1>2. CASE cwd # Root
    <2>1. Tree[cwd].dir \in {Root} \cup Names /\ Navigate(Tree[cwd].dir)
      BY <1>2, ConstantTypes DEF GoParent, BrInv, TypeOK
    <2> QED
      BY <2>1, NavigateKeepsBrInv
  <1> QED
    BY <1>1, <1>2

\* The cursor, the name or the filter changes, the listing does not.
LEMMA CursorKeepsBrInv ==
  ASSUME BrInv, Browsing, Stay, UNCHANGED <<cwd, entries, show_hidden, show_all>>,
         selected' \in DOMAIN entries,
         Save /\ ~aimed' => selected' = 1, aimed' \in BOOLEAN,
         focused_magic' \in {None, Preview(entries[selected'])}
           \/ (selected' = selected /\ focused_magic' = focused_magic),
         save_name' \in {"empty", "plain"} \cup Endings, filter' \in 0..MaxFilter
  PROVE  BrInv'
  <1>1. selected' \in Nat
    BY DEF BrInv, TypeOK
  <1>2. focused_magic' \in InputFormats \cup {None}
    BY DEF BrInv, TypeOK, Preview, Detect, InputFormats
  <1>3. TypeOK'
    BY <1>1, <1>2 DEF BrInv, TypeOK, Browsing, Stay, picker, purpose
  <1>4. ExtensionFits' /\ SavedNameTellsTheCodec'
    BY DEF BrInv, ExtensionFits, SavedNameTellsTheCodec, Browsing, Stay, purpose, Save
  <1>5. SaveHereFirst'
    BY DEF BrInv, SaveHereFirst, Stay, purpose, Save
  <1>6. PreviewIsHonest'
    BY DEF BrInv, PreviewIsHonest, Focused, Preview, Stay
  <1> QED
    BY <1>3, <1>4, <1>5, <1>6 DEF BrInv

LEMMA MoveKeepsBrInv ==
  ASSUME BrInv, NEW up \in BOOLEAN, Move(up)
  PROVE  BrInv'
  <1>1. PICK n \in Nat : n = Len(entries) /\ DOMAIN entries = 1..n
    BY DEF BrInv, TypeOK
  <1>2. selected \in 1..n
    BY <1>1 DEF BrInv, TypeOK, Move, Browsing
  <1>3. selected' \in 1..n
    BY <1>1, <1>2 DEF Move
  <1> QED
    BY <1>1, <1>3, ConstantTypes, CursorKeepsBrInv DEF Move, BrInv, TypeOK

LEMMA TypingKeepsBrInv ==
  ASSUME BrInv,
         \/ \E e \in {"empty", "plain"} \cup Typed : TypeName(e) \/ BackspaceName(e)
         \/ \E i \in DOMAIN entries : TypeFilter(i) \/ BackspaceFilter(i)
  PROVE  BrInv'
  <1>1. CASE \E e \in {"empty", "plain"} \cup Typed : TypeName(e)
    <2>1. PICK e \in {"empty", "plain"} \cup Typed : TypeName(e)
      BY <1>1
    <2>2. Browsing /\ Stay /\ Save /\ save_name' \in {"empty", "plain"} \cup Endings
      BY <2>1, BrowserAssumption DEF TypeName
    <2>3. 1 \in DOMAIN entries
      BY <2>2 DEF BrInv, TypeOK, Browsing
    <2>4. entries[1].kind = "SaveHere"
      BY <2>2 DEF BrInv, SaveHereFirst, Browsing
    <2>5. /\ UNCHANGED <<cwd, entries, show_hidden, show_all, focused_magic, filter>>
          /\ selected' = 1 /\ aimed' = FALSE
      BY <2>1 DEF TypeName
    <2>6. TypeOK'
      BY <2>2, <2>3, <2>5 DEF BrInv, TypeOK, Browsing, Stay, picker, purpose
    <2>7. ExtensionFits' /\ SavedNameTellsTheCodec'
      BY <2>2 DEF BrInv, ExtensionFits, SavedNameTellsTheCodec, Browsing, Stay, purpose, Save
    <2>8. SaveHereFirst' /\ PreviewIsHonest'
      BY <2>4, <2>5 DEF SaveHereFirst, PreviewIsHonest, Focused
    <2> QED
      BY <2>6, <2>7, <2>8 DEF BrInv
  <1>2. CASE \E e \in {"empty", "plain"} \cup Typed : BackspaceName(e)
    <2>1. PICK e \in {"empty", "plain"} \cup Typed : BackspaceName(e)
      BY <1>2
    <2>2. Browsing /\ Stay /\ Save /\ save_name' \in {"empty", "plain"} \cup Endings
          /\ UNCHANGED <<cwd, entries, selected, show_hidden, show_all, focused_magic, filter, aimed>>
      BY <2>1, BrowserAssumption DEF BackspaceName
    <2>3. selected \in DOMAIN entries /\ aimed \in BOOLEAN /\ filter \in 0..MaxFilter
          /\ (~aimed => selected = 1)
      BY <2>2 DEF BrInv, TypeOK, SaveHereFirst, Browsing
    <2> QED
      BY <2>2, <2>3, CursorKeepsBrInv
  <1>3. CASE \E i \in DOMAIN entries : TypeFilter(i) \/ BackspaceFilter(i)
    <2>1. PICK i \in DOMAIN entries : TypeFilter(i) \/ BackspaceFilter(i)
      BY <1>3
    <2>2. /\ Browsing /\ Stay /\ ~Save
          /\ UNCHANGED <<cwd, entries, show_hidden, show_all, save_name, aimed>>
          /\ \/ UNCHANGED <<selected, focused_magic>>
             \/ selected' = i /\ focused_magic' = None
      <3>1. CASE TypeFilter(i)
        BY <3>1 DEF TypeFilter, JumpTo
      <3>2. CASE BackspaceFilter(i)
        BY <3>2 DEF BackspaceFilter, JumpTo
      <3> QED
        BY <2>1, <3>1, <3>2
    <2>3. filter \in 0..MaxFilter /\ MaxFilter \in Nat
      BY ConstantTypes DEF BrInv, TypeOK
    <2>4. filter' \in 0..MaxFilter
      BY <2>1, <2>3 DEF TypeFilter, BackspaceFilter
    <2>5. selected' \in DOMAIN entries /\ aimed \in BOOLEAN
          /\ save_name \in {"empty", "plain"} \cup Endings
      BY <2>2 DEF BrInv, TypeOK, Browsing
    <2> QED
      BY <2>2, <2>4, <2>5, CursorKeepsBrInv
  <1> QED
    BY <1>1, <1>2, <1>3

\* The browser closes: on Esc, or because something was picked.
LEMMA LeavingKeepsBrInv ==
  ASSUME BrInv, Browsing, view' = "home", DropBrowser, SavedNameTellsTheCodec'
  PROVE  BrInv'
  <1>1. TypeOK'
    BY DropTypes DEF BrInv, TypeOK, Browsing, picker
  <1> QED
    BY <1>1 DEF BrInv, ExtensionFits, SaveHereFirst, PreviewIsHonest

LEMMA SaveHereTells ==
  ASSUME BrInv, EnterSaveHere, save_name # "empty"
  PROVE  SavedNameTellsTheCodec'
  <1>1. view = "browse"
        /\ \E n \in {None} \cup Namesakes :
             picked' = [action |-> action, codec |-> codec, level |-> level, name |-> n,
                        ending |-> ComposedSaveName, auto |-> ~HasKnownImageSuffix(save_name)]
    BY DEF EnterSaveHere, Browsing
  <1>2. codec \in Codecs
    BY DEF BrInv, TypeOK
  <1>3. SUFFICES ASSUME action # "Flash"
        PROVE  /\ ~HasKnownImageSuffix(save_name) => RestoreCodec(ComposedSaveName) = codec
               /\ ~HasKnownImageSuffix(save_name) \/ codec \in Magic
                    => DetectCodec(codec, ComposedSaveName) = codec
    <2>1. PICK n \in {None} \cup Namesakes :
            picked' = [action |-> action, codec |-> codec, level |-> level, name |-> n,
                       ending |-> ComposedSaveName, auto |-> ~HasKnownImageSuffix(save_name)]
      BY <1>1
    <2> DEFINE auto == ~HasKnownImageSuffix(save_name)
    <2>2. /\ picked'.action = action /\ picked'.codec = codec
          /\ picked'.ending = ComposedSaveName /\ picked'.auto = auto
      BY <2>1
    <2>3. auto <=> ~HasKnownImageSuffix(save_name)
      OBVIOUS
    <2> HIDE DEF auto
    <2> QED
      BY <2>2, <2>3 DEF SavedNameTellsTheCodec
  <1>4. PICK i \in DOMAIN CODECS : codec = CODECS[i].codec /\ ext = OutputExtension(action, i)
    BY <1>1, <1>3 DEF BrInv, ExtensionFits, Save
  <1>5. CASE HasKnownImageSuffix(save_name)
    BY <1>5, MagicTells
  <1>6. CASE ~HasKnownImageSuffix(save_name)
    <2>1. ComposedSaveName = OutputExtension(action, i)
      BY <1>4, <1>6 DEF ComposedSaveName
    <2> QED
      BY <2>1, <1>4, ExtensionTells
  <1> QED
    BY <1>5, <1>6

LEMMA EnterKeepsBrInv ==
  ASSUME BrInv, EnterSaveHere \/ EnterParent \/ EnterDirectory \/ EnterFile
  PROVE  BrInv'
  <1>1. ASSUME Browsing, Stay, Idle PROVE BrInv'
    <2>1. selected \in DOMAIN entries /\ aimed \in BOOLEAN /\ filter \in 0..MaxFilter
          /\ save_name \in {"empty", "plain"} \cup Endings
          /\ (Save /\ ~aimed => selected = 1)
      BY <1>1 DEF BrInv, TypeOK, SaveHereFirst, Browsing
    <2>2. UNCHANGED <<cwd, entries, selected, show_hidden, show_all, save_name, filter, aimed>>
          /\ focused_magic' = None
      BY <1>1 DEF Idle
    <2> QED
      BY <1>1, <2>1, <2>2, CursorKeepsBrInv
  <1>2. CASE EnterSaveHere
    <2>1. CASE save_name = "empty"
      BY <1>1, <1>2, <2>1 DEF EnterSaveHere
    <2>2. CASE save_name # "empty"
      BY <1>2, <2>2, SaveHereTells, LeavingKeepsBrInv DEF EnterSaveHere
    <2> QED
      BY <2>1, <2>2
  <1>3. CASE EnterParent
    BY <1>1, <1>3, GoParentKeepsBrInv DEF EnterParent
  <1>4. CASE EnterDirectory
    <2>1. entries[selected] \in Entries /\ entries[selected].kind = "Normal"
      BY <1>4 DEF BrInv, TypeOK, EnterDirectory, Browsing, Focused
    <2>2. entries[selected].name \in Names
      BY <2>1 DEF Entries
    <2> QED
      BY <1>4, <2>2, NavigateKeepsBrInv DEF EnterDirectory, Focused
  <1>5. CASE EnterFile
    <2>1. codec \in Codecs /\ Browsing /\ view' = "home" /\ DropBrowser
      BY <1>5 DEF BrInv, TypeOK, EnterFile
    <2>2. SavedNameTellsTheCodec'
      BY <1>5, MagicTells DEF EnterFile, SavedNameTellsTheCodec
    <2> QED
      BY <2>1, <2>2, LeavingKeepsBrInv
  <1> QED
    BY <1>2, <1>3, <1>4, <1>5

LEMMA BrowserKeepsBrInv ==
  ASSUME BrInv, BrowserKey
  PROVE  BrInv'
  <1>1. CASE Esc
    <2>1. Browsing /\ view' = "home" /\ DropBrowser /\ SavedNameTellsTheCodec'
      BY <1>1 DEF Esc, BrInv, SavedNameTellsTheCodec
    <2> QED
      BY <2>1, LeavingKeepsBrInv
  <1>2. CASE ToggleAllTypes \/ ToggleHidden
    <2>1. /\ Browsing /\ Stay
          /\ save_name' = save_name /\ filter' = filter /\ aimed' = aimed
          /\ \/ Refresh(Save, cwd, show_hidden, ~show_all, selected)
             \/ Refresh(Save, cwd, ~show_hidden, show_all, selected)
      BY <1>2 DEF ToggleAllTypes, ToggleHidden
    <2>2. /\ cwd \in {Root} \cup Names /\ selected \in DOMAIN entries /\ selected \in Nat \ {0}
          /\ aimed \in BOOLEAN /\ filter \in 0..MaxFilter
          /\ Save /\ ~aimed => selected = 1
      BY <2>1 DEF BrInv, TypeOK, SaveHereFirst, Browsing
    <2>3. /\ show_hidden \in BOOLEAN /\ show_all \in BOOLEAN
          /\ (~show_hidden) \in BOOLEAN /\ (~show_all) \in BOOLEAN
      BY DEF BrInv, TypeOK
    <2> QED
      BY <2>1, <2>2, <2>3, RefreshKeepsBrInv
  <1>3. CASE Left \/ BackspaceUp
    BY <1>3, GoParentKeepsBrInv DEF Left, BackspaceUp
  <1> QED
    BY <1>1, <1>2, <1>3, MoveKeepsBrInv, TypingKeepsBrInv, EnterKeepsBrInv DEF BrowserKey

LEMMA NextBrInv == BrInv /\ [Next]_vars => BrInv'
  <1>1. ASSUME BrInv, NEW n \in Volatile, Change(n) PROVE BrInv'
    <2>1. TypeOK'
      BY <1>1, ConstantTypes DEF Change, BrInv, TypeOK, picker, purpose, browser
    <2> QED
      BY <1>1, <2>1 DEF Change, BrInv, ExtensionFits, SaveHereFirst, SavedNameTellsTheCodec,
                        PreviewIsHonest, Focused, Save, picker, purpose, browser
  <1>2. ASSUME BrInv, UNCHANGED vars PROVE BrInv'
    <2>1. TypeOK'
      BY <1>2 DEF BrInv, TypeOK, vars, picker, purpose, browser
    <2> QED
      BY <1>2, <2>1 DEF BrInv, ExtensionFits, SaveHereFirst, SavedNameTellsTheCodec,
                        PreviewIsHonest, Focused, Save, vars, picker, purpose, browser
  <1> QED
    BY <1>1, <1>2, PickKeepsBrInv, CodecKeepsBrInv, BrowserKeepsBrInv DEF Next

\* The invariant of the codec picker and the file browser.
THEOREM BrowserInvariant == Spec => []BrInv
  BY InitBrInv, NextBrInv, PTL DEF Spec

-----------------------------------------------------------------------------
(* What they promise. *)

\* Every field keeps its type, the cursor stays in the list, a level within
\* what its codec accepts.
THEOREM BrowserTypeOK == Spec => []TypeOK
  BY BrowserInvariant, PTL DEF BrInv

\* A name the program completed is read back with the codec that wrote it.
THEOREM BrowserNamesTellTheCodec == Spec => []SavedNameTellsTheCodec
  BY BrowserInvariant, PTL DEF BrInv

\* The preview is that of the file under the cursor.
THEOREM BrowserPreviewIsHonest == Spec => []PreviewIsHonest
  BY BrowserInvariant, PTL DEF BrInv

\* One step of OverwriteIsDeliberate.
Deliberate ==
  /\ picked' # picked /\ picked' # None
  /\ picked'.action # "Flash" /\ picked'.name # None
  =>
      \/ aimed /\ Focused.kind = "Normal" /\ picked'.name = Focused.name
      \/ /\ Focused.kind = "SaveHere" /\ Tree[picked'.name].dir = cwd
         /\ Tree[picked'.name].ending = ComposedSaveName

LEMMA StepIsDeliberate == BrInv /\ [Next]_vars => Deliberate
  <1> SUFFICES ASSUME BrInv, [Next]_vars, picked' # picked, picked' # None PROVE Deliberate
    BY DEF Deliberate
  <1>1. EnterSaveHere \/ EnterFile
    <2>1. UNCHANGED vars => picked' = picked
      BY DEF vars
    <2>2. PickFlash \/ (\E a \in {"Backup", "Archive"} : PickCopy(a)) => picked' = None
      BY DEF PickFlash, PickCopy
    <2>3. CodecKey \/ (\E n \in Volatile : Change(n)) => picked' = picked
      BY DEF CodecKey, CodecEsc, CodecEnter, CodecMove, CodecLevel, Change
    <2>4. BrowserKey => picked' = picked \/ EnterSaveHere \/ EnterFile
      BY DEF BrowserKey, Esc, ToggleAllTypes, ToggleHidden, Left, Move, TypeName, BackspaceName,
             TypeFilter, BackspaceFilter, BackspaceUp, EnterParent, EnterDirectory, Stay
    <2> QED
      BY <2>1, <2>2, <2>3, <2>4 DEF Next
  <1>2. CASE EnterSaveHere
    <2>1. PICK n \in {None} \cup Namesakes :
            picked' = [action |-> action, codec |-> codec, level |-> level, name |-> n,
                       ending |-> ComposedSaveName, auto |-> ~HasKnownImageSuffix(save_name)]
      BY <1>2 DEF EnterSaveHere, Stay
    <2>2. picked'.name = n /\ Focused.kind = "SaveHere"
      BY <1>2, <2>1 DEF EnterSaveHere
    <2> QED
      BY <2>2 DEF Deliberate, Namesakes
  <1>3. CASE EnterFile
    <2>1. /\ view = "browse" /\ Focused.kind = "Normal"
          /\ picked'.action = action /\ picked'.name = Focused.name
      BY <1>3 DEF EnterFile, Browsing
    <2>2. Save => aimed
      BY <2>1 DEF BrInv, SaveHereFirst, Focused
    <2> QED
      BY <2>1, <2>2 DEF Deliberate, Save
  <1> QED
    BY <1>1, <1>2, <1>3

\* What a backup or an archive overwrites is the file the cursor was moved to,
\* or one that the completed name is the name of.
THEOREM BrowserOverwritesDeliberately == Spec => OverwriteIsDeliberate
  <1>1. BrInv /\ [Next]_vars => [Deliberate]_vars
    BY StepIsDeliberate
  <1> QED
    BY <1>1, BrowserInvariant, PTL DEF Spec, OverwriteIsDeliberate, Deliberate
=============================================================================
