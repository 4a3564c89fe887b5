----------------------------- MODULE CliProofs -----------------------------
(***************************************************************************)
(* What "ok" is worth on the command line, for every disk, image, tree and *)
(* layout, every size of the buffer and every run of commands, each killed *)
(* anywhere: a verified flash is on the disk, a verify's verdict is right, *)
(* a backup restores to its device, an archive unpacks to what was         *)
(* archived, and which system disks are hidden.                            *)
(***************************************************************************)
EXTENDS Cli, FiniteSetTheorems, SequenceTheorems, WellFoundedInduction, TLAPS

-----------------------------------------------------------------------------
(* The command lines. *)

Ops == {"list", "flash", "backup", "verify", "verify-queue", "archive", "restore"}

LEMMA CommandTypes ==
  ASSUME NEW c \in Commands
  PROVE  /\ c.op \in Ops
         /\ c.codec \in Codecs /\ c.ending \in Endings \cup {"plain"}
         /\ c.room \in Nat /\ c.bad \in Nat /\ c.unread \in Nat
         /\ c.against \in {"file", "manifest"}
         /\ c.excludes \in SUBSET (DOMAIN Tree \cup {Top})
         /\ c.layout \in Layouts /\ c.show_all \in BOOLEAN
  <1>1. c \in Options
    BY CliAssumption
  <1> QED
    BY <1>1 DEF Options, Ops

LEMMA Bounds == Buf \in Nat \ {0} /\ "compressed" \notin Units /\ "json" \notin Units
  BY CliAssumption

\* Which command a step belongs to.
LEMMA StepsTell ==
  ASSUME TypeOK, exit = "running"
  PROVE  /\ cmd \in Commands /\ cmd.op \in Ops
         /\ step \in {"flash", "read", "write", "verifying"} => cmd.op = "flash"
         /\ step \in {"backup", "copy", "encode", "drop", "unwind", "manifest"} => cmd.op = "backup"
         /\ step \in {"verify", "source", "device", "compare"} => cmd.op = "verify"
         /\ step \in {"archive", "walk", "abort"} => cmd.op = "archive"
         /\ step \in {"restore", "unpack"} => cmd.op = "restore"
         /\ step = "list" => cmd.op = "list"
  <1>1. cmd \in Commands /\ step \in StepsOf(cmd.op)
    BY DEF TypeOK
  <1>2. cmd.op \in Ops
    BY <1>1, CommandTypes
  <1> QED
    BY <1>1, <1>2 DEF StepsOf, Ops

-----------------------------------------------------------------------------
(* Sequences that are read, or written, from the front. *)

\* Concatenation under a name of its own, which the provers leave alone.
Cat(s, t) == s \o t

LEMMA Regroup ==
  ASSUME NEW S, NEW s \in Seq(S), NEW t \in Seq(S), NEW u \in Seq(S)
  PROVE  Cat(Cat(s, t), u) = Cat(s, Cat(t, u))
  <1> DEFINE st == s \o t
             tu == t \o u
             a == st \o u
             b == s \o tu
  <1>1. Len(s) \in Nat /\ Len(t) \in Nat /\ Len(u) \in Nat
    OBVIOUS
  <1>2. /\ st \in Seq(S) /\ Len(st) = Len(s) + Len(t)
        /\ \A i \in 1 .. Len(s) + Len(t) : st[i] = IF i <= Len(s) THEN s[i] ELSE t[i - Len(s)]
    BY ConcatProperties
  <1>3. /\ tu \in Seq(S) /\ Len(tu) = Len(t) + Len(u)
        /\ \A i \in 1 .. Len(t) + Len(u) : tu[i] = IF i <= Len(t) THEN t[i] ELSE u[i - Len(t)]
    BY ConcatProperties
  <1> HIDE DEF st, tu
  <1>4. /\ a \in Seq(S) /\ Len(a) = Len(st) + Len(u)
        /\ \A i \in 1 .. Len(st) + Len(u) : a[i] = IF i <= Len(st) THEN st[i] ELSE u[i - Len(st)]
    <2>1. st \in Seq(S)
      BY <1>2
    <2> QED
      BY <2>1, ConcatProperties
  <1>5. /\ b \in Seq(S) /\ Len(b) = Len(s) + Len(tu)
        /\ \A i \in 1 .. Len(s) + Len(tu) : b[i] = IF i <= Len(s) THEN s[i] ELSE tu[i - Len(s)]
    <2>1. tu \in Seq(S)
      BY <1>3
    <2> QED
      BY <2>1, ConcatProperties
  <1> HIDE DEF a, b
  <1>6. Len(a) = Len(b)
    BY <1>1, <1>2, <1>3, <1>4, <1>5
  <1>7. ASSUME NEW i \in 1..Len(a) PROVE a[i] = b[i]
    <2>1. i \in 1 .. Len(st) + Len(u) /\ i \in 1 .. Len(s) + Len(tu)
      BY <1>4, <1>5, <1>6
    <2>2. CASE i <= Len(s)
      BY <1>1, <1>2, <1>4, <1>5, <2>1, <2>2
    <2>3. CASE i > Len(s) /\ i <= Len(s) + Len(t)
      <3>1. i \in 1 .. Len(s) + Len(t) /\ i - Len(s) \in 1 .. Len(t) + Len(u)
            /\ i <= Len(st) /\ ~(i <= Len(s)) /\ i - Len(s) <= Len(t)
        BY <1>1, <1>2, <2>1, <2>3
      <3>2. a[i] = t[i - Len(s)]
        BY <1>2, <1>4, <2>1, <3>1
      <3>3. b[i] = t[i - Len(s)]
        BY <1>3, <1>5, <2>1, <3>1
      <3> QED
        BY <3>2, <3>3
    <2>4. CASE i > Len(s) + Len(t)
      <3>1. i - Len(s) \in 1 .. Len(t) + Len(u) /\ ~(i <= Len(st)) /\ ~(i <= Len(s))
            /\ ~(i - Len(s) <= Len(t)) /\ i - Len(st) = i - Len(s) - Len(t)
        BY <1>1, <1>2, <2>1, <2>4
      <3>2. a[i] = u[i - Len(s) - Len(t)]
        BY <1>4, <2>1, <3>1
      <3>3. b[i] = u[i - Len(s) - Len(t)]
        BY <1>3, <1>5, <2>1, <3>1
      <3> QED
        BY <3>2, <3>3
    <2> QED
      BY <1>1, <2>1, <2>2, <2>3, <2>4
  <1>8. a = b
    BY <1>4, <1>5, <1>6, <1>7, SeqEqual
  <1> QED
    BY <1>8 DEF a, b, st, tu, Cat

\* One more read continues what was read so far.
LEMMA ReadOn ==
  ASSUME NEW S, NEW s \in Seq(S), NEW p \in 0..Len(s), NEW n \in 1..Len(s) - p
  PROVE  /\ SubSeq(s, 1, p) \o SubSeq(s, p + 1, p + n) = SubSeq(s, 1, p + n)
         /\ SubSeq(s, p + 1, p + n) \in Seq(S)
         /\ Len(SubSeq(s, p + 1, p + n)) = n
  <1>1. Len(s) \in Nat
    OBVIOUS
  <1>2. 1 \in 1 .. Len(s) + 1 /\ p \in 1 - 1 .. Len(s) /\ p + n \in p .. Len(s)
    BY <1>1
  <1>3. SubSeq(s, 1, p) \o SubSeq(s, p + 1, p + n) = SubSeq(s, 1, p + n)
    BY <1>2, ConcatAdjacentSubSeq
  <1>4. p + 1 \in Int /\ p + n \in Int /\ \A i \in p + 1 .. p + n : s[i] \in S
    BY <1>1, ElementOfSeq
  <1>5. /\ SubSeq(s, p + 1, p + n) \in Seq(S)
        /\ Len(SubSeq(s, p + 1, p + n)) = IF p + 1 <= p + n THEN p + n - (p + 1) + 1 ELSE 0
    BY <1>4, SubSeqProperties
  <1> QED
    BY <1>1, <1>3, <1>5

\* The part of a sequence from one place to another.
LEMMA PartOf ==
  ASSUME NEW S, NEW s \in Seq(S), NEW p \in 0..Len(s), NEW n \in 0..Len(s) - p
  PROVE  /\ SubSeq(s, p + 1, p + n) \in Seq(S)
         /\ Len(SubSeq(s, p + 1, p + n)) = n
         /\ \A i \in 1..n : SubSeq(s, p + 1, p + n)[i] = s[p + i]
  <1>1. Len(s) \in Nat
    OBVIOUS
  <1>4. p + 1 \in Int /\ p + n \in Int /\ \A i \in p + 1 .. p + n : s[i] \in S
    BY <1>1, ElementOfSeq
  <1>5. /\ SubSeq(s, p + 1, p + n) \in Seq(S)
        /\ Len(SubSeq(s, p + 1, p + n)) = IF p + 1 <= p + n THEN p + n - (p + 1) + 1 ELSE 0
        /\ \A i \in 1 .. p + n - (p + 1) + 1 : SubSeq(s, p + 1, p + n)[i] = s[p + 1 + i - 1]
    BY <1>4, SubSeqProperties
  <1>6. p + n - (p + 1) + 1 = n /\ \A i \in 1..n : p + 1 + i - 1 = p + i
    BY <1>1
  <1> QED
    BY <1>1, <1>5, <1>6

\* What is passed on and what is kept are what there was.
LEMMA Split ==
  ASSUME NEW S, NEW s \in Seq(S), NEW k \in 0..Len(s)
  PROVE  /\ SubSeq(s, 1, k) \in Seq(S) /\ Len(SubSeq(s, 1, k)) = k
         /\ SubSeq(s, k + 1, Len(s)) \in Seq(S)
         /\ SubSeq(s, 1, k) \o SubSeq(s, k + 1, Len(s)) = s
         /\ k = Len(s) => SubSeq(s, k + 1, Len(s)) = <<>>
  <1>1. Len(s) \in Nat
    OBVIOUS
  <1>2. SubSeq(s, 1, k) \in Seq(S) /\ Len(SubSeq(s, 1, k)) = k
    BY <1>1, PartOf, 0 \in 0..Len(s), k \in 0..Len(s) - 0, 0 + 1 = 1, 0 + k = k
  <1>3. SubSeq(s, k + 1, Len(s)) \in Seq(S)
    BY <1>1, PartOf, Len(s) - k \in 0..Len(s) - k, k + (Len(s) - k) = Len(s)
  <1>4. SubSeq(s, 1, k) \o SubSeq(s, k + 1, Len(s)) = SubSeq(s, 1, Len(s))
    <2>1. 1 \in 1 .. Len(s) + 1 /\ k \in 1 - 1 .. Len(s) /\ Len(s) \in k .. Len(s)
      BY <1>1
    <2> QED
      BY <2>1, ConcatAdjacentSubSeq
  <1>5. SubSeq(s, 1, Len(s)) = s
    BY SubSeqFull
  <1>6. k = Len(s) => SubSeq(s, k + 1, Len(s)) = <<>>
    BY <1>1, SubSeqEmpty
  <1> QED
    BY <1>2, <1>3, <1>4, <1>5, <1>6

-----------------------------------------------------------------------------
(* What steps have in common. *)

LEMMA MediaContents ==
  ASSUME TypeOK
  PROVE  /\ Bytes(image) \in Seq(Data) /\ Decoded \in Seq(Data)
         /\ Against \in Seq(Data \cup {"json"})
         /\ device \in Seq(Data \cup {"json"})
         /\ Len(Decoded) \in Nat /\ Len(Against) \in Nat /\ Len(device) \in Nat
  <1>1. image.units \in Seq(Data) /\ device \in Seq(Data)
    BY DEF TypeOK
  <1>2. <<"compressed">> \in Seq(Data) /\ <<>> \in Seq(Data)
    BY DEF Data
  <1>7. FirstMember(image) \in Seq(Data)
    <2> DEFINE n == Len(image.units) - image.rest
    <2>1. Len(image.units) \in Nat /\ image.rest \in Nat /\ n \in Int
      BY <1>1 DEF TypeOK
    <2>2. CASE n < 1
      <3>1. SubSeq(image.units, 1, n) = <<>>
        <4> HIDE DEF n
        <4> QED
          BY <2>1, <2>2, SubSeqEmpty
      <3> QED
        BY <1>1, <1>2, <3>1 DEF FirstMember
    <2>3. CASE n >= 1
      <3>1. n \in 0..Len(image.units)
        BY <2>1, <2>3
      <3>2. SubSeq(image.units, 1, n) \in Seq(Data)
        <4> HIDE DEF n
        <4> QED
          BY <1>1, <3>1, Split
      <3> QED
        BY <1>1, <3>2 DEF FirstMember
    <2> QED
      BY <2>1, <2>2, <2>3
  <1>3. Bytes(image) \in Seq(Data) /\ Decoded \in Seq(Data)
    BY <1>1, <1>2, <1>7 DEF Bytes, Decoded
  <1>4. <<"json">> \in Seq(Data \cup {"json"})
    OBVIOUS
  <1>5. Bytes(image) \in Seq(Data \cup {"json"}) /\ device \in Seq(Data \cup {"json"})
    BY <1>1, <1>3, SeqMonotonic
  <1>6. Against \in Seq(Data \cup {"json"})
    BY <1>4, <1>5 DEF Against
  <1> QED
    BY <1>1, <1>3, <1>5, <1>6

\* A command that is under way has claimed nothing.
LEMMA NoClaimYet ==
  ASSUME exit' = "running"
  PROVE  Claims'
  BY DEF Claims, VerifiedFlashMatches, VerdictIsRight, BackupOkIsExact, RestoredIsArchived,
         SystemDiskIsHidden, Ended

\* One that has ended follows nothing.
LEMMA NothingToFollow ==
  ASSUME exit' # "running"
  PROVE  /\ BeginsEmpty'
         /\ FlashFollows' /\ BackupFollows' /\ VerifyFollows' /\ WalkFollows' /\ UnpackFollows'
  BY DEF BeginsEmpty, FlashFollows, BackupFollows, VerifyFollows, WalkFollows, UnpackFollows, InStep

LEMMA ArchiveStays ==
  ASSUME ArchiveHolds, UNCHANGED archive
  PROVE  ArchiveHolds'
  BY DEF ArchiveHolds, Entered

\* Steps of one command leave the others nothing to follow.
LEMMA OnlyFlash ==
  ASSUME step' \in {"flash", "read", "write", "verifying"}
  PROVE  BackupFollows' /\ VerifyFollows' /\ WalkFollows' /\ UnpackFollows'
  BY DEF BackupFollows, VerifyFollows, WalkFollows, UnpackFollows, InStep

LEMMA OnlyBackup ==
  ASSUME step' \in {"backup", "copy", "encode", "drop", "unwind", "manifest"}
  PROVE  FlashFollows' /\ VerifyFollows' /\ WalkFollows' /\ UnpackFollows'
  BY DEF FlashFollows, VerifyFollows, WalkFollows, UnpackFollows, InStep

LEMMA OnlyVerify ==
  ASSUME step' \in {"verify", "source", "device", "compare"}
  PROVE  FlashFollows' /\ BackupFollows' /\ WalkFollows' /\ UnpackFollows'
  BY DEF FlashFollows, BackupFollows, WalkFollows, UnpackFollows, InStep

LEMMA OnlyArchive ==
  ASSUME step' \in {"archive", "walk", "abort"}
  PROVE  FlashFollows' /\ BackupFollows' /\ VerifyFollows' /\ UnpackFollows'
  BY DEF FlashFollows, BackupFollows, VerifyFollows, UnpackFollows, InStep

LEMMA OnlyRestore ==
  ASSUME step' \in {"restore", "unpack"}
  PROVE  FlashFollows' /\ BackupFollows' /\ VerifyFollows' /\ WalkFollows'
  BY DEF FlashFollows, BackupFollows, VerifyFollows, WalkFollows, InStep

\* Only at its first step is a command at its beginning.
LEMMA BegunIsNotEmpty ==
  ASSUME TypeOK', step' \notin Ops
  PROVE  BeginsEmpty'
  <1>1. CASE exit' = "running"
    <2>1. cmd' \in Commands
      BY <1>1 DEF TypeOK
    <2>2. cmd'.op \in Ops
      BY <2>1, CommandTypes
    <2> QED
      BY <2>2 DEF BeginsEmpty, InStep
  <1>2. CASE exit' # "running"
    BY <1>2 DEF BeginsEmpty, InStep
  <1> QED
    BY <1>1, <1>2

-----------------------------------------------------------------------------
(* Beginnings and common ends. *)

LEMMA InitCliInv == Init => CliInv
  <1> SUFFICES ASSUME Init PROVE CliInv
    OBVIOUS
  <1>1. PICK w \in Worlds : device = w.device /\ image = w.image
    BY DEF Init
  <1>2. /\ w.device \in Seq(Units) /\ w.device # <<>> /\ w.image \in Files
        /\ w.image.codec = "none" => w.image.whole
    BY CliAssumption
  <1>3. device \in Seq(Data) /\ image.units \in Seq(Data)
    BY <1>1, <1>2, SeqMonotonic DEF Data, Files
  <1>4. image \in [codec : Contents, ending : Endings \cup {"plain"}, units : Seq(Data), rest : Nat,
                      whole : BOOLEAN]
    BY <1>1, <1>2, <1>3 DEF Files
  <1>5. archive \in [codec : Codecs, ending : Endings \cup {"plain"}, entries : Seq(DOMAIN Tree),
                     kept : SUBSET DOMAIN Tree, whole : BOOLEAN, ok : BOOLEAN]
    BY DEF Init, NoArchive, Codecs
  <1>6. target \in SUBSET DOMAIN Tree /\ IsFiniteSet(target)
    BY FS_EmptySet DEF Init
  <1>7. TypeOK
    BY <1>1, <1>2, <1>3, <1>4, <1>5, <1>6 DEF TypeOK, Init
  <1>8. BeginsEmpty /\ FlashFollows /\ BackupFollows /\ VerifyFollows /\ WalkFollows /\ UnpackFollows
    BY DEF Init, BeginsEmpty, FlashFollows, BackupFollows, VerifyFollows, WalkFollows, UnpackFollows, InStep
  <1>9. ArchiveHolds
    BY DEF Init, ArchiveHolds, NoArchive
  <1>10. Claims
    BY DEF Init, Claims, VerifiedFlashMatches, VerdictIsRight, BackupOkIsExact,
           RestoredIsArchived, SystemDiskIsHidden, Ended
  <1> QED
    BY <1>7, <1>8, <1>9, <1>10 DEF CliInv

LEMMA StartKeepsCliInv ==
  ASSUME CliInv, NEW c \in Commands, Start(c)
  PROVE  CliInv'
  <1>1. c.op \in Ops
    BY CommandTypes
  <1>2. TypeOK'
    <2>1. /\ device' \in Seq(Data) /\ device' # <<>>
          /\ image' \in [codec : Contents, ending : Endings \cup {"plain"}, units : Seq(Data), rest : Nat,
                      whole : BOOLEAN]
          /\ image'.codec = "none" => image'.whole
          /\ archive' \in [codec : Codecs, ending : Endings \cup {"plain"}, entries : Seq(DOMAIN Tree),
                           kept : SUBSET DOMAIN Tree, whole : BOOLEAN, ok : BOOLEAN]
          /\ target' \in SUBSET DOMAIN Tree /\ IsFiniteSet(target')
      BY DEF CliInv, TypeOK, Start, world, media, files
    <2>2. ran' \in Nat /\ ran' > 0 /\ cmd' \in Commands
      BY DEF CliInv, TypeOK, Start
    <2>3. exit' = "running" /\ step' \in StepsOf(cmd'.op)
      BY <1>1 DEF Start, StepsOf, Ops
    <2>4. pos' \in Nat /\ hashed' \in Seq(Data) /\ chunk' \in Seq(Data \cup {"json"})
          /\ other' \in Seq(Data \cup {"json"}) /\ pending' \in Seq(SUBSET DOMAIN Tree)
      BY DEF Start
    <2> QED
      BY <2>1, <2>2, <2>3, <2>4 DEF TypeOK
  <1>3. exit' = "running" /\ step' = c.op /\ UNCHANGED archive
    BY DEF Start, world, files
  <1>4. FlashFollows' /\ BackupFollows' /\ VerifyFollows' /\ WalkFollows' /\ UnpackFollows'
    BY <1>1, <1>3, OnlyFlash, OnlyBackup, OnlyVerify, OnlyArchive, OnlyRestore
       DEF Ops, FlashFollows, BackupFollows, VerifyFollows, WalkFollows, UnpackFollows, InStep
  <1>5. BeginsEmpty'
    BY DEF BeginsEmpty, Start
  <1> QED
    BY <1>2, <1>3, <1>4, <1>5, ArchiveStays, NoClaimYet DEF CliInv

\* The steps that leave data, image and locals alone keep their types.
LEMMA IdleTypes ==
  ASSUME TypeOK, UNCHANGED <<device, image, files, copier, pending, cmd, ran>>,
         \/ exit' \in {"ok", "failed", "usage", "killed"}
         \/ exit' = "running" /\ exit = "running" /\ step' \in StepsOf(cmd.op)
  PROVE  TypeOK'
  BY DEF TypeOK, files, copier

LEMMA UsageKeepsCliInv ==
  ASSUME CliInv, Usage \/ OpenFails
  PROVE  CliInv'
  <1>1. /\ UNCHANGED <<device, image, files, copier, pending, cmd, ran>>
        /\ exit' \in {"ok", "failed", "usage"}
    BY DEF Usage, OpenFails, Quit, world, media, locals
  <1>2. TypeOK'
    BY <1>1, IdleTypes DEF CliInv
  <1>3. /\ BeginsEmpty'
        /\ FlashFollows' /\ BackupFollows' /\ VerifyFollows' /\ WalkFollows' /\ UnpackFollows'
    BY <1>1, NothingToFollow
  <1>4. ArchiveHolds'
    BY <1>1, ArchiveStays DEF CliInv, files
  <1>5. Claims'
    <2>1. CASE exit' = "usage"
      BY <2>1 DEF Claims, VerifiedFlashMatches, VerdictIsRight, BackupOkIsExact,
         RestoredIsArchived, SystemDiskIsHidden, Ended
    <2>2. CASE cmd'.op = "verify-queue"
      BY <2>2 DEF Claims, VerifiedFlashMatches, VerdictIsRight, BackupOkIsExact,
         RestoredIsArchived, SystemDiskIsHidden, Ended
    <2>3. CASE ~cmd'.opens /\ exit' = "failed"
      BY <2>3 DEF Claims, VerifiedFlashMatches, VerdictIsRight, BackupOkIsExact,
         RestoredIsArchived, SystemDiskIsHidden, Ended
    <2> QED
      BY <2>1, <2>2, <2>3 DEF Usage, OpenFails, Quit
  <1> QED
    BY <1>2, <1>3, <1>4, <1>5 DEF CliInv

\* What a kill leaves of an archive has no entry twice either.
LEMMA KillKeepsCliInv ==
  ASSUME CliInv, Kill
  PROVE  CliInv'
  <1>1. /\ UNCHANGED <<device, image, target, copier, pending, cmd, ran>>
        /\ exit = "running" /\ exit' = "killed"
    BY DEF Kill, Quit, locals
  <1>2. /\ BeginsEmpty'
        /\ FlashFollows' /\ BackupFollows' /\ VerifyFollows' /\ WalkFollows' /\ UnpackFollows'
    BY <1>1, NothingToFollow
  <1>3. Claims'
    BY <1>1 DEF Claims, VerifiedFlashMatches, VerdictIsRight, BackupOkIsExact,
       RestoredIsArchived, SystemDiskIsHidden, Ended
  <1>4. CASE UNCHANGED archive
    <2>1. TypeOK'
      BY <1>1, <1>4, IdleTypes DEF CliInv, files
    <2> QED
      BY <1>2, <1>3, <1>4, <2>1, ArchiveStays DEF CliInv
  <1>5. ASSUME step \in {"walk", "abort"}, NEW k \in 0..Len(archive.entries),
               archive' = [archive EXCEPT !.entries = SubSeq(@, 1, k)]
        PROVE  CliInv'
    <2>1. archive.entries \in Seq(DOMAIN Tree)
      BY DEF CliInv, TypeOK
    <2> DEFINE part == SubSeq(archive.entries, 1, k)
    <2>2. Len(archive.entries) \in Nat
      BY <2>1
    <2>3. 0 \in 0..Len(archive.entries) /\ k \in 0..Len(archive.entries) - 0 /\ 0 + 1 = 1 /\ 0 + k = k
      BY <2>2
    <2>4. /\ part \in Seq(DOMAIN Tree) /\ Len(part) = k
          /\ \A i \in 1..k : part[i] = archive.entries[i]
      <3>1. /\ SubSeq(archive.entries, 0 + 1, 0 + k) \in Seq(DOMAIN Tree)
            /\ Len(SubSeq(archive.entries, 0 + 1, 0 + k)) = k
            /\ \A i \in 1..k : SubSeq(archive.entries, 0 + 1, 0 + k)[i] = archive.entries[0 + i]
        BY <2>1, <2>3, PartOf
      <3>2. \A i \in 1..k : 0 + i = i
        BY <2>2
      <3> QED
        BY <2>3, <3>1, <3>2
    <2> HIDE DEF part
    <2>5. archive' = [archive EXCEPT !.entries = part]
      BY <1>5 DEF part
    <2>6. archive.ok = FALSE
      BY <1>1, <1>5 DEF CliInv, WalkFollows, InStep, TypeOK
    <2>7. /\ archive' \in [codec : Codecs, ending : Endings \cup {"plain"}, entries : Seq(DOMAIN Tree),
                           kept : SUBSET DOMAIN Tree, whole : BOOLEAN, ok : BOOLEAN]
          /\ archive'.entries = part /\ archive'.ok = FALSE
      BY <2>4, <2>5, <2>6 DEF CliInv, TypeOK
    <2>8. TypeOK'
      BY <1>1, <2>7 DEF CliInv, TypeOK, copier
    <2>9. ArchiveHolds'
      <3>1. DOMAIN part = 1..k /\ DOMAIN archive.entries = 1..Len(archive.entries)
        BY <2>1, <2>4
      <3>2. \A i \in 1..k : i \in 1..Len(archive.entries)
        BY <2>2
      <3> QED
        BY <2>4, <2>7, <3>1, <3>2 DEF ArchiveHolds, CliInv
    <2> QED
      BY <1>2, <1>3, <2>8, <2>9 DEF CliInv
  <1> QED
    BY <1>4, <1>5 DEF Kill
-----------------------------------------------------------------------------
(* list *)

LEMMA LeastOf ==
  ASSUME NEW T, T \subseteq Nat, T # {}
  PROVE  \E x \in T : \A y \in T : x <= y
  <1> DEFINE R == OpToRel(<, Nat)
  <1>1. IsWellFoundedOn(R, Nat)
    BY NatLessThanWellFounded, Zenon
  <1>2. PICK x \in T : \A y \in T : <<y, x>> \notin R
    <2> HIDE DEF R
    <2> QED
      BY <1>1, WFMin, Zenon
  <1>3. \A y \in T : ~(y < x)
    BY <1>2 DEF OpToRel
  <1> QED
    BY <1>3

\* A device without a parent is the disk it is on.  The recursion in Chain has
\* a solution, the constant one, so Chain satisfies it; a first place where
\* it leaves the device cannot be.
LEMMA DiskItself ==
  ASSUME NEW l \in Layouts, NEW n \in Nodes(l), l.nodes[n].parent = None
  PROVE  DiskOf(l, n) = n
  <1> DEFINE N == Cardinality(Nodes(l))
             G(f) == [k \in 0..N |-> IF k = 0 THEN n
                                     ELSE IF l.nodes[f[k - 1]].parent = None THEN f[k - 1]
                                     ELSE l.nodes[f[k - 1]].parent]
             c == [k \in 0..N |-> n]
  <1>1. N \in Nat
    BY DevicesAssumption, FS_CardinalityType
  <1>2. c = G(c)
    <2> HIDE DEF N
    <2> QED
      BY <1>1
  <1>3. Chain(l, n) = CHOOSE f : f = G(f)
    BY DEF Chain
  <1>4. Chain(l, n) = G(Chain(l, n))
    <2> HIDE DEF G, c
    <2> QED
      BY <1>2, <1>3
  <1> DEFINE up == Chain(l, n)
             T == { k \in 0..N : up[k] # n }
  <1>5. up = G(up)
    <2> HIDE DEF G
    <2> QED
      BY <1>4
  <1>6. up[0] = n /\ \A k \in 1..N : up[k - 1] = n => up[k] = n
    <2> HIDE DEF N, up
    <2> QED
      BY <1>1, <1>5
  <1>7. T = {}
    <2> HIDE DEF N, up
    <2> SUFFICES ASSUME T # {} PROVE FALSE
      OBVIOUS
    <2>1. PICK k \in T : \A m \in T : k <= m
      <3>1. T \subseteq Nat
        BY <1>1
      <3> HIDE DEF T
      <3> QED
        BY <3>1, LeastOf
    <2>2. k \in 0..N /\ up[k] # n
      BY <2>1
    <2>3. k \in 1..N /\ k - 1 \in 0..N /\ ~(k <= k - 1)
      BY <1>1, <1>6, <2>2
    <2>4. k - 1 \notin T
      <3> HIDE DEF T
      <3> QED
        BY <2>1, <2>3
    <2> QED
      BY <1>6, <2>2, <2>3, <2>4
  <1>8. N \in 0..N
    BY <1>1
  <1>9. up[N] = n
    <2> HIDE DEF N, up
    <2> QED
      BY <1>7, <1>8
  <1> QED
    BY <1>9 DEF DiskOf

\* Where the one step to a parent leads to the disk, and where it does not.
LEMMA RootDeviceIs ==
  ASSUME NEW l \in Layouts, l.platform = "linux"
  PROVE  OnPartition(l) <=> SystemDisk(l) = RootDeviceName(l)
  <1>1. /\ l.root \in Nodes(l) /\ None \notin Nodes(l) /\ l.source \in BOOLEAN
        /\ SystemDisk(l) \in Nodes(l)
    BY DevicesAssumption, ForestAssumption
  <1> DEFINE up == l.nodes[l.root].parent
  <1>2. OnPartition(l) <=> l.source /\ \/ up = SystemDisk(l)
                                       \/ up = None /\ l.root = Stem(l.root)
    BY DEF OnPartition
  <1>3. RootDeviceName(l) = IF ~l.source THEN None ELSE IF up # None THEN up ELSE Stem(l.root)
    BY DEF RootDeviceName
  <1>4. up = None => SystemDisk(l) = l.root
    BY <1>1, DiskItself DEF SystemDisk
  <1> HIDE DEF up
  <1> QED
    BY <1>1, <1>2, <1>3, <1>4

\* What enumerate makes of the disk the running system is on.
LEMMA FilterHides ==
  ASSUME NEW l \in Layouts, l.nodes[SystemDisk(l)].kind = "disk"
  PROVE  OnPartition(l) <=> \A b \in Enumerate(l, FALSE) : b.path # SystemDisk(l)
  <1> DEFINE D == SystemDisk(l)
  <1>1. /\ l.platform \in {"linux", "macos", "windows"}
        /\ D \in Nodes(l) /\ l.nodes[D].parent = None
    BY DevicesAssumption, ForestAssumption
  <1>2. Enumerate(l, FALSE) = {b \in EnumerateRaw(l) : ~b.is_system}
    BY DEF Enumerate
  <1>3. CASE l.platform = "linux"
    <2>1. EnumerateRaw(l) = LinuxRaw(l)
      BY <1>3 DEF EnumerateRaw
    <2>2. \A d : /\ LinuxBlock(l, d).path = d
                 /\ LinuxBlock(l, d).is_system <=> d = RootDeviceName(l)
      BY DEF LinuxBlock
    <2>3. LinuxBlock(l, D) \in LinuxRaw(l) /\ \A b \in LinuxRaw(l) : \E d : b = LinuxBlock(l, d)
      BY <1>1 DEF LinuxRaw
    <2> HIDE DEF D
    <2> DEFINE R == RootDeviceName(l)
    <2>5. \A d : LinuxBlock(l, d).path = d /\ (LinuxBlock(l, d).is_system <=> d = R)
      BY <2>2
    <2> HIDE DEF R
    <2>6. D = R => \A b \in Enumerate(l, FALSE) : b.path # D
      <3> SUFFICES ASSUME D = R, NEW b \in Enumerate(l, FALSE) PROVE b.path # D
        OBVIOUS
      <3>1. b \in LinuxRaw(l) /\ ~b.is_system
        BY <1>2, <2>1
      <3>2. PICK d : b = LinuxBlock(l, d)
        BY <2>3, <3>1
      <3> QED
        BY <2>5, <3>1, <3>2
    <2>7. D # R => LinuxBlock(l, D) \in Enumerate(l, FALSE)
      BY <1>2, <2>1, <2>3, <2>5
    <2>4. (\A b \in Enumerate(l, FALSE) : b.path # D) <=> D = RootDeviceName(l)
      BY <2>5, <2>6, <2>7 DEF R
    <2> QED
      BY <1>3, <2>4, RootDeviceIs DEF D
  <1>4. CASE l.platform = "macos"
    <2>1. EnumerateRaw(l) = {MacBlock(l, d) : d \in WholeDisks(l)} /\ D \in WholeDisks(l)
      BY <1>1, <1>4 DEF EnumerateRaw, WholeDisks
    <2>2. \A d : /\ MacBlock(l, d).path = d
                 /\ MacBlock(l, d).is_system <=> d = <<"disk", "0">> \/ l.nodes[d].internal
      BY DEF MacBlock
    <2> HIDE DEF D
    <2>3. (\A b \in Enumerate(l, FALSE) : b.path # D)
            <=> D = <<"disk", "0">> \/ l.nodes[D].internal
      BY <1>2, <2>1, <2>2
    <2> QED
      BY <1>4, <2>3 DEF OnPartition, D
  <1>5. CASE l.platform = "windows"
    <2>1. EnumerateRaw(l) = {WindowsBlock(l, d) : d \in WholeDisks(l)} /\ D \in WholeDisks(l)
      BY <1>1, <1>5 DEF EnumerateRaw, WholeDisks
    <2>2. \A d : /\ WindowsBlock(l, d).path = d
                 /\ WindowsBlock(l, d).is_system <=> l.nodes[d].boot
      BY DevicesAssumption DEF WindowsBlock
    <2> HIDE DEF D
    <2>3. (\A b \in Enumerate(l, FALSE) : b.path # D) <=> l.nodes[D].boot
      BY <1>2, <2>1, <2>2
    <2> QED
      BY <1>5, <2>3 DEF OnPartition, D
  <1> QED
    BY <1>1, <1>3, <1>4, <1>5

LEMMA ListKeepsCliInv ==
  ASSUME CliInv, List
  PROVE  CliInv'
  <1>1. /\ exit = "running" /\ cmd \in Commands /\ cmd.op = "list"
        /\ cmd' = cmd /\ exit' = "ok" /\ listing' = Enumerate(cmd.layout, cmd.show_all)
    BY StepsTell DEF CliInv, List, Begin, At, Quit
  <1>2. TypeOK'
    BY DEF CliInv, TypeOK, List, Begin, At, Quit, world, media, files
  <1>3. /\ BeginsEmpty'
        /\ FlashFollows' /\ BackupFollows' /\ VerifyFollows' /\ WalkFollows' /\ UnpackFollows'
    BY <1>1, NothingToFollow
  <1>4. ArchiveHolds'
    BY ArchiveStays DEF CliInv, List, world, files
  <1>5. SystemDiskIsHidden'
    <2> DEFINE l == cmd.layout
    <2> SUFFICES ASSUME ~cmd.show_all, l.nodes[SystemDisk(l)].kind = "disk"
                 PROVE  OnPartition(l) <=> \A b \in listing' : b.path # SystemDisk(l)
      BY <1>1 DEF SystemDiskIsHidden
    <2>1. cmd.layout \in Layouts /\ cmd.show_all = FALSE
      BY <1>1, CommandTypes
    <2> QED
      BY <1>1, <2>1, FilterHides
  <1>6. Claims'
    BY <1>1, <1>5 DEF Claims, VerifiedFlashMatches, VerdictIsRight, BackupOkIsExact,
       RestoredIsArchived, Ended
  <1> QED
    BY <1>2, <1>3, <1>4, <1>6 DEF CliInv
-----------------------------------------------------------------------------
(* flash *)

LEMMA SameImage ==
  ASSUME UNCHANGED image
  PROVE  Decoded' = Decoded /\ (EndsWell' <=> EndsWell) /\ Bytes(image)' = Bytes(image)
  BY DEF Decoded, FirstMember, EndsWell, Bytes, Chosen, Begun

\* No step of a flash touches the image, the archive or what was restored.
LEMMA FlashSpares ==
  ASSUME TypeOK, NEW n, \/ Flash \/ FlashRead(n) \/ FlashWrite \/ FlashReadFails \/ FlashEnd
                        \/ HashDevice(n) \/ HashDeviceFails \/ HashVerdict
  PROVE  /\ UNCHANGED <<image, files, cmd, ran, other, pending>>
         /\ exit = "running" /\ cmd.op = "flash" /\ cmd \in Commands
         /\ exit' \in {"running", "ok", "failed"}
         /\ exit' = "running" => step' \in {"read", "write", "verifying"}
  <1>1. exit = "running" /\ step \in {"flash", "read", "write", "verifying"}
    BY DEF Flash, FlashRead, FlashWrite, FlashReadFails, FlashEnd, HashDevice, HashDeviceFails,
           HashVerdict, Begin, At, TypeOK, StepsOf
  <1>2. cmd.op = "flash" /\ cmd \in Commands
    BY <1>1, StepsTell
  <1> QED
    BY <1>1, <1>2 DEF Flash, FlashRead, FlashWrite, FlashReadFails, FlashEnd, HashDevice,
           HashDeviceFails, HashVerdict, Begin, At, Goto, Quit, world, media, locals, copier

\* So of the invariant only what speaks of a flash is left to show.
LEMMA FlashSuffices ==
  ASSUME CliInv, NEW n, \/ Flash \/ FlashRead(n) \/ FlashWrite \/ FlashReadFails \/ FlashEnd
                        \/ HashDevice(n) \/ HashDeviceFails \/ HashVerdict,
         device' \in Seq(Data), device' # <<>>, pos' \in Nat, hashed' \in Seq(Data),
         chunk' \in Seq(Data \cup {"json"}),
         exit' = "running" => FlashFollows',
         exit' = "ok" => VerifiedFlashMatches'
  PROVE  CliInv'
  <1>1. /\ UNCHANGED <<image, files, cmd, ran, other, pending>>
        /\ exit = "running" /\ cmd.op = "flash" /\ cmd \in Commands
        /\ exit' \in {"running", "ok", "failed"}
        /\ exit' = "running" => step' \in {"read", "write", "verifying"}
    BY FlashSpares DEF CliInv
  <1>2. exit' = "running" => step' \in StepsOf(cmd'.op)
    BY <1>1 DEF StepsOf
  <1>3. TypeOK'
    BY <1>1, <1>2 DEF CliInv, TypeOK, files
  <1>4. ArchiveHolds'
    BY <1>1, ArchiveStays DEF CliInv, files
  <1>5. CASE exit' = "running"
    <2>1. step' \notin Ops
      BY <1>1, <1>5 DEF Ops
    <2> QED
      BY <1>1, <1>3, <1>4, <1>5, <2>1, BegunIsNotEmpty, OnlyFlash, NoClaimYet DEF CliInv
  <1>6. CASE exit' # "running"
    <2>1. Claims'
      BY <1>1, <1>6 DEF Claims, VerifiedFlashMatches, VerdictIsRight, BackupOkIsExact,
         RestoredIsArchived, SystemDiskIsHidden, Ended
    <2> QED
      BY <1>3, <1>4, <1>6, <2>1, NothingToFollow DEF CliInv
  <1> QED
    BY <1>5, <1>6

LEMMA FlashReadKeepsCliInv ==
  ASSUME CliInv, NEW n \in 1..Buf, FlashRead(n)
  PROVE  CliInv'
  <1>1. Decoded \in Seq(Data) /\ Len(Decoded) \in Nat /\ Decoded' = Decoded
    BY MediaContents, SameImage DEF CliInv, FlashRead, world, media
  <1>2. pos \in Nat /\ pos <= Len(Decoded) /\ hashed = SubSeq(Decoded, 1, pos)
    BY DEF CliInv, TypeOK, FlashFollows, InStep, FlashRead, At
  <1>3. n \in Nat /\ n <= Len(Decoded) - pos
    BY <1>1, <1>2, Bounds DEF FlashRead, ReadSizes, Lesser
  <1>4. pos \in 0..Len(Decoded) /\ n \in 1..Len(Decoded) - pos
    BY <1>1, <1>2, <1>3
  <1>5. chunk' = SubSeq(Decoded, pos + 1, pos + n) /\ pos' = pos + n /\ hashed' = hashed \o chunk'
    BY DEF FlashRead
  <1>6. /\ hashed' = SubSeq(Decoded, 1, pos + n)
        /\ chunk' \in Seq(Data) /\ Len(chunk') = n
    BY <1>1, <1>2, <1>4, <1>5, ReadOn
  <1>7. hashed' \in Seq(Data)
    BY <1>5, <1>6, ConcatProperties DEF CliInv, TypeOK
  <1>8. exit' = "running" /\ step' \in {"read", "write"}
    BY DEF FlashRead, At, Goto
  <1>9. FlashFollows'
    <2>1. pos' <= Len(Decoded') /\ hashed' = SubSeq(Decoded', 1, pos')
      <3>1. pos + n <= Len(Decoded)
        BY <1>1, <1>2, <1>3
      <3>2. pos' = pos + n /\ Decoded' = Decoded /\ hashed' = SubSeq(Decoded, 1, pos + n)
        BY <1>1, <1>5, <1>6
      <3> HIDE <1>5
      <3> QED
        BY <3>1, <3>2
    <2>2. chunk' \in Seq(Data) /\ Len(chunk') <= pos'
      BY <1>2, <1>3, <1>5, <1>6
    <2>3. step' # "verifying"
      BY <1>8
    <2> QED
      BY <2>1, <2>2, <2>3 DEF FlashFollows
  <1>10. device' \in Seq(Data) /\ device' # <<>>
    BY DEF CliInv, TypeOK, FlashRead, world, media
  <1>11. chunk' \in Seq(Data \cup {"json"}) /\ pos' \in Nat
    BY <1>2, <1>3, <1>5, <1>6, SeqMonotonic
  <1> QED
    BY <1>7, <1>8, <1>9, <1>10, <1>11, FlashSuffices

LEMMA FlashWriteKeepsCliInv ==
  ASSUME CliInv, FlashWrite
  PROVE  CliInv'
  <1>1. Decoded' = Decoded /\ exit = "running" /\ step = "write" /\ UNCHANGED <<pos, hashed>>
    BY SameImage DEF FlashWrite, At
  <1>2. /\ pos \in Nat /\ pos <= Len(Decoded) /\ hashed = SubSeq(Decoded, 1, pos)
        /\ chunk \in Seq(Data) /\ Len(chunk) <= pos
    BY <1>1 DEF CliInv, TypeOK, FlashFollows, InStep
  <1>3. device \in Seq(Data) /\ device # <<>> /\ hashed \in Seq(Data)
    BY DEF CliInv, TypeOK
  <1> DEFINE from == pos - Len(chunk)
             N == Len(device)
             unit(i) == IF i \in from + 1 .. pos /\ i # cmd.stuck THEN chunk[i - from] ELSE device[i]
  <1>4. N \in Nat \ {0} /\ DOMAIN device = 1..N /\ Len(chunk) \in Nat
    BY <1>2, <1>3, EmptySeq
  <1>5. ASSUME NEW i \in 1..N PROVE unit(i) \in Data
    <2>1. CASE i \in from + 1 .. pos
      <3>1. i - from \in 1..Len(chunk)
        BY <1>2, <1>4, <2>1
      <3>2. chunk[i - from] \in Data
        BY <1>2, <3>1
      <3>3. device[i] \in Data
        BY <1>3, <1>5
      <3> QED
        BY <3>2, <3>3
    <2>2. CASE i \notin from + 1 .. pos
      BY <1>3, <1>5, <2>2
    <2> QED
      BY <2>1, <2>2
  <1>6. device' = [i \in 1..N |-> unit(i)]
    BY <1>4 DEF FlashWrite
  <1>7. device' \in Seq(Data) /\ device' # <<>>
    <2> HIDE DEF N, unit
    <2>1. device' \in [1..N -> Data]
      BY <1>5, <1>6
    <2>2. device' \in Seq(Data)
      BY <1>4, <2>1
    <2>3. 1 \in DOMAIN device' /\ DOMAIN <<>> = {}
      BY <1>4, <2>1
    <2>4. device' # <<>>
      BY <2>3
    <2> QED
      BY <2>2, <2>4
  <1>8. exit' = "running" \/ exit' = "failed"
    BY <1>1 DEF FlashWrite, Goto, Quit
  <1>9. exit' = "running" => FlashFollows'
    BY <1>1, <1>2 DEF FlashFollows, InStep, FlashWrite, Goto, Quit
  <1>10. chunk' \in Seq(Data \cup {"json"}) /\ pos' \in Nat /\ hashed' \in Seq(Data)
    BY <1>1, <1>2, <1>3 DEF FlashWrite
  <1> QED
    BY <1>7, <1>8, <1>9, <1>10, FlashSuffices

\* A flash that begins, fails, or ends without a verify.
LEMMA FlashTurnsKeepCliInv ==
  ASSUME CliInv, Flash \/ FlashReadFails \/ HashDeviceFails \/ FlashEnd
  PROVE  CliInv'
  <1>1. /\ UNCHANGED <<device, pos, hashed, cmd>> /\ Decoded' = Decoded /\ (EndsWell' <=> EndsWell)
        /\ exit = "running" /\ chunk' \in {chunk, <<>>}
    BY SameImage DEF Flash, FlashReadFails, HashDeviceFails, FlashEnd, Begin, At, world, media,
           locals, copier
  <1>2. /\ device' \in Seq(Data) /\ device' # <<>> /\ pos' \in Nat /\ hashed' \in Seq(Data)
        /\ chunk' \in Seq(Data \cup {"json"})
    <2>1. chunk \in Seq(Data \cup {"json"}) /\ <<>> \in Seq(Data \cup {"json"})
      BY DEF CliInv, TypeOK
    <2> QED
      BY <1>1, <2>1 DEF CliInv, TypeOK
  <1>3. Len(Decoded) \in Nat /\ Len(device) \in Nat
    BY MediaContents DEF CliInv
  <1>4. exit' = "running" => FlashFollows'
    <2>1. CASE Flash
      <3>1. pos = 0 /\ hashed = <<>>
        <4>1. exit = "running" /\ step = "flash"
          BY <2>1 DEF Flash, Begin, At
        <4>2. cmd.op = "flash"
          BY <4>1, StepsTell DEF CliInv
        <4> QED
          BY <4>1, <4>2 DEF CliInv, BeginsEmpty, InStep
      <3>2. SubSeq(Decoded, 1, 0) = <<>>
        BY SubSeqEmpty
      <3>3. step' = "read"
        BY <2>1 DEF Flash, Goto
      <3> QED
        BY <1>1, <1>3, <3>1, <3>2, <3>3 DEF FlashFollows
    <2>2. CASE FlashReadFails \/ HashDeviceFails
      BY <2>2 DEF FlashReadFails, HashDeviceFails, Quit
    <2>3. CASE FlashEnd
      <3>1. SubSeq(device, 1, 0) = <<>> /\ Len(<<>>) = 0
        BY SubSeqEmpty
      <3>2. hashed = SubSeq(Decoded, 1, pos) /\ pos = Len(Decoded) /\ EndsWell /\ chunk' = <<>>
        BY <2>3 DEF CliInv, FlashFollows, InStep, FlashEnd, At
      <3>3. exit' = "running" => step' = "verifying"
        BY <2>3 DEF FlashEnd, Goto, Quit
      <3> QED
        BY <1>1, <1>3, <3>1, <3>2, <3>3 DEF FlashFollows, InStep
    <2> QED
      BY <2>1, <2>2, <2>3
  <1>5. exit' = "ok" => VerifiedFlashMatches'
    BY <1>1 DEF Flash, FlashReadFails, HashDeviceFails, FlashEnd, Goto, Quit, VerifiedFlashMatches
  <1> QED
    BY <1>2, <1>4, <1>5, FlashSuffices

LEMMA HashDeviceKeepsCliInv ==
  ASSUME CliInv, NEW n \in 1..Buf, HashDevice(n)
  PROVE  CliInv'
  <1>1. /\ exit = "running" /\ step = "verifying" /\ exit' = "running" /\ step' = "verifying"
        /\ UNCHANGED <<device, pos, hashed>>
        /\ Decoded' = Decoded /\ (EndsWell' <=> EndsWell)
    BY SameImage DEF HashDevice, At, Goto, world, media
  <1>2. /\ pos = Len(Decoded) /\ hashed = SubSeq(Decoded, 1, pos) /\ EndsWell /\ pos <= Len(Decoded)
        /\ Len(chunk) <= Len(device) /\ chunk = SubSeq(device, 1, Len(chunk))
    BY <1>1 DEF CliInv, FlashFollows, InStep
  <1>3. device \in Seq(Data) /\ Len(device) \in Nat /\ Len(chunk) \in Nat
    BY DEF CliInv, TypeOK
  <1>4. n \in Nat /\ n <= Len(device) - Len(chunk)
    BY <1>3, Bounds DEF HashDevice, ReadSizes, Lesser
  <1> DEFINE p == Len(chunk)
  <1>5. p \in 0..Len(device) /\ n \in 1..Len(device) - p /\ p + n \in 0..Len(device)
    BY <1>2, <1>3, <1>4
  <1>6. chunk' = chunk \o SubSeq(device, p + 1, p + n)
    BY DEF HashDevice
  <1>7. SubSeq(device, 1, p) \o SubSeq(device, p + 1, p + n) = SubSeq(device, 1, p + n)
    <2> HIDE DEF p
    <2> QED
      BY <1>3, <1>5, ReadOn
  <1>8. SubSeq(device, 1, p + n) \in Seq(Data) /\ Len(SubSeq(device, 1, p + n)) = p + n
    BY <1>3, <1>5, Split
  <1>9. chunk' = SubSeq(device, 1, p + n)
    BY <1>2, <1>6, <1>7
  <1>10. chunk' \in Seq(Data) /\ Len(chunk') = p + n
    BY <1>8, <1>9
  <1>11. FlashFollows'
    <2>1. Len(chunk') <= Len(device') /\ chunk' = SubSeq(device', 1, Len(chunk'))
      BY <1>1, <1>5, <1>9, <1>10
    <2>2. pos' = Len(Decoded') /\ hashed' = SubSeq(Decoded', 1, pos') /\ EndsWell' /\ pos' <= Len(Decoded')
      BY <1>1, <1>2
    <2> QED
      BY <1>1, <2>1, <2>2 DEF FlashFollows
  <1>12. device' \in Seq(Data) /\ device' # <<>> /\ pos' \in Nat /\ hashed' \in Seq(Data)
    BY <1>1 DEF CliInv, TypeOK
  <1>13. chunk' \in Seq(Data \cup {"json"})
    BY <1>10, SeqMonotonic
  <1> QED
    BY <1>1, <1>11, <1>12, <1>13, FlashSuffices

\* If the decoder delivered what is on the disk and ended without an error,
\* the disk holds the image, and the image was whole.
LEMMA WholeImage ==
  ASSUME TypeOK, EndsWell, Recognised(image), Decoded = device
  PROVE  FirstMember(image) = device /\ image.whole
  <1>1. /\ image.codec \in Contents /\ image.units \in Seq(Data)
        /\ image.codec = "none" => image.whole
        /\ device # <<>>
    BY DEF TypeOK
  <1>2. Begun(image)
    <2> SUFFICES ASSUME ~Begun(image) PROVE FALSE
      OBVIOUS
    <2>1. image.units = <<>> /\ Bytes(image) = <<>>
      BY <1>1 DEF Begun, Bytes
    <2>2. FirstMember(image) = <<>>
      <3>1. Len(image.units) - image.rest < 1 /\ Len(image.units) - image.rest \in Int
        BY <2>1 DEF TypeOK
      <3>2. SubSeq(image.units, 1, Len(image.units) - image.rest) = <<>>
        BY <3>1, SubSeqEmpty
      <3> QED
        BY <2>1, <3>2 DEF FirstMember
    <2> QED
      BY <1>1, <2>1, <2>2 DEF Decoded
  <1>3. Chosen = image.codec
    <2>1. Chosen = DetectCodec(image.codec, image.ending)
      BY <1>2 DEF Chosen
    <2>2. CASE image.codec \in Magic
      BY <2>1, <2>2 DEF Magic, DetectCodec, Detect, CodecFrom
    <2>3. CASE image.codec \notin Magic
      <3>1. Detect(image.codec) = "Raw"
        BY <1>1, <2>3 DEF Magic, Contents, Codecs, Detect, Recognised, RestoreCodec, CodecFrom
      <3> QED
        BY <2>1, <2>3, <3>1 DEF DetectCodec, Recognised, RestoreCodec
    <2> QED
      BY <2>2, <2>3
  <1> QED
    BY <1>1, <1>2, <1>3 DEF Decoded, EndsWell

LEMMA HashVerdictKeepsCliInv ==
  ASSUME CliInv, HashVerdict
  PROVE  CliInv'
  <1>1. /\ exit = "running" /\ step = "verifying" /\ Len(chunk) = Len(device)
        /\ UNCHANGED <<device, image, pos, hashed, chunk>>
        /\ exit' = IF chunk = hashed THEN "ok" ELSE "failed"
    BY DEF HashVerdict, At, Quit, world, media, locals, copier
  <1>2. /\ pos = Len(Decoded) /\ hashed = SubSeq(Decoded, 1, pos) /\ EndsWell
        /\ chunk = SubSeq(device, 1, Len(chunk))
    BY <1>1 DEF CliInv, FlashFollows, InStep
  <1>3. /\ device \in Seq(Data) /\ Decoded \in Seq(Data)
        /\ device' \in Seq(Data) /\ device' # <<>> /\ pos' \in Nat /\ hashed' \in Seq(Data)
        /\ chunk' \in Seq(Data \cup {"json"})
    BY <1>1, MediaContents DEF CliInv, TypeOK
  <1>4. chunk = device /\ hashed = Decoded
    BY <1>1, <1>2, <1>3, SubSeqFull
  <1>5. exit' = "ok" => VerifiedFlashMatches'
    <2> SUFFICES ASSUME exit' = "ok", Recognised(image)
                 PROVE  /\ SubSeq(device, 1, Len(FirstMember(image))) = FirstMember(image)
                        /\ image.whole
      BY <1>1 DEF VerifiedFlashMatches, Recognised, RestoreCodec, FirstMember
    <2>1. Decoded = device
      BY <1>1, <1>4
    <2>2. FirstMember(image) = device /\ image.whole
      BY <1>2, <2>1, WholeImage DEF CliInv
    <2> QED
      BY <1>3, <2>2, SubSeqFull
  <1>6. exit' # "running"
    BY <1>1
  <1> QED
    BY <1>3, <1>5, <1>6, FlashSuffices
-----------------------------------------------------------------------------
(* verify *)

LEMMA FillIs ==
  ASSUME pos \in Nat, NEW S, NEW s \in Seq(S), pos <= Len(s)
  PROVE  /\ FillOf(s) \in Seq(S)
         /\ Len(FillOf(s)) = Lesser(Buf, Len(s) - pos)
         /\ Len(FillOf(s)) \in Nat /\ pos + Len(FillOf(s)) <= Len(s)
         /\ \A i \in 1..Len(FillOf(s)) : FillOf(s)[i] = s[pos + i]
  <1> DEFINE n == Lesser(Buf, Len(s) - pos)
  <1>1. Len(s) \in Nat /\ Buf \in Nat
    BY Bounds
  <1>2. pos \in 0..Len(s) /\ n \in 0..Len(s) - pos
    BY <1>1 DEF Lesser
  <1>3. FillOf(s) = SubSeq(s, pos + 1, pos + n)
    BY DEF FillOf
  <1> HIDE DEF n
  <1>4. /\ SubSeq(s, pos + 1, pos + n) \in Seq(S)
        /\ Len(SubSeq(s, pos + 1, pos + n)) = n
        /\ \A i \in 1..n : SubSeq(s, pos + 1, pos + n)[i] = s[pos + i]
    BY <1>2, PartOf
  <1>5. n \in Nat /\ pos + n <= Len(s)
    BY <1>1, <1>2
  <1>6. n = Lesser(Buf, Len(s) - pos)
    BY DEF n
  <1> QED
    BY <1>3, <1>4, <1>5, <1>6

LEMMA VerifySpares ==
  ASSUME TypeOK, NEW n,
         Verify \/ VerifySource(n) \/ VerifyDevice(n) \/ VerifyFails \/ Compare
  PROVE  /\ UNCHANGED <<world, cmd, ran, hashed, pending>> /\ Against' = Against
         /\ exit = "running" /\ cmd.op = "verify" /\ cmd \in Commands
         /\ exit' \in {"running", "ok", "failed"}
         /\ exit' = "running" => step' \in {"source", "device", "compare"}
  <1>1. exit = "running" /\ step \in {"verify", "source", "device", "compare"}
    BY DEF Verify, VerifySource, VerifyDevice, VerifyFails, Compare, Begin, At
  <1>2. cmd.op = "verify" /\ cmd \in Commands
    BY <1>1, StepsTell
  <1>3. UNCHANGED <<world, cmd, ran, hashed, pending>>
    BY DEF Verify, VerifySource, VerifyDevice, VerifyFails, Compare, Begin, At, locals, copier
  <1>4. Against' = Against
    BY <1>3 DEF Against, Bytes, Begun, world, media
  <1> QED
    BY <1>1, <1>2, <1>3, <1>4 DEF Verify, VerifySource, VerifyDevice, VerifyFails, Compare, Begin, At,
       Goto, Quit

LEMMA VerifySuffices ==
  ASSUME CliInv, NEW n,
         Verify \/ VerifySource(n) \/ VerifyDevice(n) \/ VerifyFails \/ Compare,
         pos' \in Nat, chunk' \in Seq(Data \cup {"json"}), other' \in Seq(Data \cup {"json"}),
         exit' = "running" => VerifyFollows',
         exit' # "running" => VerdictIsRight'
  PROVE  CliInv'
  <1>1. /\ UNCHANGED <<world, cmd, ran, hashed, pending>>
        /\ exit = "running" /\ cmd.op = "verify" /\ cmd \in Commands
        /\ exit' \in {"running", "ok", "failed"}
        /\ exit' = "running" => step' \in {"source", "device", "compare"}
    BY VerifySpares DEF CliInv
  <1>2. exit' = "running" => step' \in StepsOf(cmd'.op)
    BY <1>1 DEF StepsOf
  <1>3. TypeOK'
    BY <1>1, <1>2 DEF CliInv, TypeOK, world, media, files
  <1>4. ArchiveHolds'
    BY <1>1, ArchiveStays DEF CliInv, world, files
  <1>5. CASE exit' = "running"
    <2>1. step' \notin Ops
      BY <1>1, <1>5 DEF Ops
    <2> QED
      BY <1>1, <1>3, <1>4, <1>5, <2>1, BegunIsNotEmpty, OnlyVerify, NoClaimYet DEF CliInv
  <1>6. CASE exit' # "running"
    <2>1. Claims'
      BY <1>1, <1>6 DEF Claims, VerifiedFlashMatches, BackupOkIsExact,
         RestoredIsArchived, SystemDiskIsHidden, Ended
    <2> QED
      BY <1>3, <1>4, <1>6, <2>1, NothingToFollow DEF CliInv
  <1> QED
    BY <1>5, <1>6

\* The beginning, and the two fills.
LEMMA FillsKeepCliInv ==
  ASSUME CliInv, NEW n \in 0..Buf, Verify \/ VerifySource(n) \/ VerifyDevice(n)
  PROVE  CliInv'
  <1>1. /\ Against' = Against /\ UNCHANGED <<device, pos, mismatch>>
        /\ exit = "running" /\ exit' = "running"
    BY VerifySpares DEF CliInv, world, media, Verify, VerifySource, VerifyDevice, Begin, At, Goto,
       locals, copier
  <1>2. /\ Against \in Seq(Data \cup {"json"}) /\ device \in Seq(Data \cup {"json"})
        /\ Len(Against) \in Nat /\ Len(device) \in Nat
        /\ pos \in Nat /\ chunk \in Seq(Data \cup {"json"}) /\ other \in Seq(Data \cup {"json"})
    BY MediaContents DEF CliInv, TypeOK
  <1>3. /\ pos <= Len(Against) /\ pos <= Len(device) /\ mismatch = None
        /\ \A i \in 1..pos : Against[i] = device[i]
    <2>1. CASE Verify
      <3>1. exit = "running" /\ step = "verify" /\ cmd.op = "verify"
        BY <2>1, StepsTell DEF CliInv, Verify, Begin, At
      <3>2. pos = 0 /\ mismatch = None
        BY <3>1 DEF CliInv, BeginsEmpty, InStep
      <3> QED
        BY <1>2, <3>2
    <2>2. CASE VerifySource(n) \/ VerifyDevice(n)
      BY <2>2 DEF CliInv, VerifyFollows, InStep, VerifySource, VerifyDevice, At
    <2> QED
      BY <2>1, <2>2
  <1>4. FillOf(Against) \in Seq(Data \cup {"json"}) /\ FillOf(device) \in Seq(Data \cup {"json"})
    BY <1>2, <1>3, FillIs
  <1>5. FillOf(Against)' = FillOf(Against) /\ FillOf(device)' = FillOf(device)
    BY <1>1 DEF FillOf
  <1>6. CASE Verify
    <2>1. step' = "source" /\ UNCHANGED <<chunk, other>>
      BY <1>6 DEF Verify, Goto, locals, copier
    <2>2. VerifyFollows'
      BY <1>1, <1>3, <2>1 DEF VerifyFollows
    <2> QED
      BY <1>1, <1>2, <1>6, <2>1, <2>2, VerifySuffices
  <1>7. CASE VerifySource(n)
    <2>1. step' = "device" /\ chunk' = FillOf(Against) /\ other' = other
      BY <1>7 DEF VerifySource, FillSizes, FillOf, Goto
    <2>2. VerifyFollows'
      BY <1>1, <1>3, <1>5, <2>1 DEF VerifyFollows
    <2> QED
      BY <1>1, <1>2, <1>4, <1>7, <2>1, <2>2, VerifySuffices
  <1>8. CASE VerifyDevice(n)
    <2>1. step' = "compare" /\ chunk' = chunk /\ other' = FillOf(device)
      BY <1>8 DEF VerifyDevice, FillSizes, FillOf, Goto
    <2>2. chunk = FillOf(Against)
      BY <1>8 DEF CliInv, VerifyFollows, InStep, VerifyDevice, At
    <2>3. VerifyFollows'
      BY <1>1, <1>3, <1>5, <2>1, <2>2 DEF VerifyFollows
    <2> QED
      BY <1>1, <1>2, <1>4, <1>8, <2>1, <2>3, VerifySuffices
  <1> QED
    BY <1>6, <1>7, <1>8

\* A read fails.  The unit it could not read is at most a buffer behind pos,
\* and up to pos the two streams agree.
LEMMA VerifyFailsKeepsCliInv ==
  ASSUME CliInv, VerifyFails
  PROVE  CliInv'
  <1>1. /\ Against' = Against /\ UNCHANGED <<device, cmd, pos, chunk, other, mismatch>>
        /\ exit = "running" /\ exit' = "failed" /\ cmd.op = "verify" /\ cmd \in Commands
        /\ step \in {"source", "device"}
    BY VerifySpares DEF CliInv, world, media, VerifyFails, At, Quit, locals, copier
  <1>2. /\ Len(Against) \in Nat /\ Len(device) \in Nat
        /\ pos \in Nat /\ chunk \in Seq(Data \cup {"json"}) /\ other \in Seq(Data \cup {"json"})
        /\ Buf \in Nat /\ cmd.unread \in Nat /\ cmd.bad \in Nat
    BY <1>1, MediaContents, Bounds, CommandTypes DEF CliInv, TypeOK
  <1>3. /\ mismatch = None /\ pos <= Len(Against) /\ pos <= Len(device)
        /\ \A i \in 1..pos : Against[i] = device[i]
    BY <1>1 DEF CliInv, VerifyFollows, InStep
  <1> DEFINE n == Lesser(Len(Against), Len(device))
             differ == {i \in 1..n : Against[i] # device[i]}
             lost == {u \in 1..Len(Against) : u = cmd.unread} \cup {u \in 1..Len(device) : u = cmd.bad}
  <1>4. PICK u \in lost : u <= pos + Buf /\ u \in Nat
    <2>1. \A len \in Nat, v \in Nat :
            v \in pos + 1 .. Lesser(pos + Buf, len) => v \in 1..len /\ v <= pos + Buf
      BY <1>2 DEF Lesser
    <2>2. CASE cmd.unread \in pos + 1 .. Lesser(pos + Buf, Len(Against))
      <3>1. cmd.unread \in lost /\ cmd.unread <= pos + Buf
        BY <1>2, <2>1, <2>2
      <3> HIDE DEF lost
      <3> QED
        BY <1>2, <3>1
    <2>3. CASE cmd.bad \in pos + 1 .. Lesser(pos + Buf, Len(device))
      <3>1. cmd.bad \in lost /\ cmd.bad <= pos + Buf
        BY <1>2, <2>1, <2>3
      <3> HIDE DEF lost
      <3> QED
        BY <1>2, <3>1
    <2> QED
      BY <2>2, <2>3 DEF VerifyFails
  <1>5. ASSUME NEW i \in differ PROVE i + Buf > u
    <2>1. i \in Nat /\ i >= 1 /\ Against[i] # device[i]
      <3>1. n \in Nat
        BY <1>2 DEF Lesser
      <3> HIDE DEF n
      <3> QED
        BY <3>1
    <2>2. i > pos
      BY <1>2, <1>3, <2>1
    <2> QED
      BY <1>2, <1>4, <2>1, <2>2
  <1> HIDE DEF differ
  <1>6. mismatch' = None /\ \E v \in lost : \A i \in differ : i + Buf > v
    <2> HIDE DEF lost
    <2> QED
      BY <1>1, <1>3, <1>4, <1>5
  <1>7. VerdictIsRight'
    BY <1>1, <1>6 DEF VerdictIsRight, Ended, differ
  <1> QED
    BY <1>1, <1>2, <1>7, VerifySuffices

\* Of two fills that begin at the same place and differ in length, the shorter
\* ends with its stream, the shorter of the two.
LEMMA ShorterFill ==
  ASSUME NEW b \in Nat, NEW p \in Nat, NEW x \in Nat, NEW y \in Nat, p <= x, p <= y,
         Lesser(b, x - p) # Lesser(b, y - p)
  PROVE  p + Lesser(Lesser(b, x - p), Lesser(b, y - p)) = Lesser(x, y) /\ x # y
  <1>1. CASE x <= y
    BY <1>1 DEF Lesser
  <1>2. CASE y < x
    BY <1>2 DEF Lesser
  <1> QED
    BY <1>1, <1>2

\* The verdict that Compare gives, and why it may go on.
LEMMA CompareKeepsCliInv ==
  ASSUME CliInv, Compare
  PROVE  CliInv'
  <1>1. /\ Against' = Against /\ UNCHANGED <<device, cmd>> /\ exit = "running" /\ step = "compare"
        /\ cmd.op = "verify"
    BY VerifySpares DEF CliInv, world, media, Compare, At
  <1>2. /\ Against \in Seq(Data \cup {"json"}) /\ device \in Seq(Data \cup {"json"})
        /\ Len(Against) \in Nat /\ Len(device) \in Nat
        /\ pos \in Nat /\ chunk \in Seq(Data \cup {"json"}) /\ other \in Seq(Data \cup {"json"})
    BY MediaContents DEF CliInv, TypeOK
  <1>3. /\ pos <= Len(Against) /\ pos <= Len(device) /\ \A i \in 1..pos : Against[i] = device[i]
        /\ mismatch = None /\ chunk = FillOf(Against) /\ other = FillOf(device)
    BY <1>1 DEF CliInv, VerifyFollows, InStep
  <1> DEFINE la == Len(Against)
             ld == Len(device)
             c  == Len(chunk)
             o  == Len(other)
  <1>4. /\ c = Lesser(Buf, la - pos) /\ c \in Nat /\ pos + c <= la
        /\ \A i \in 1..c : chunk[i] = Against[pos + i]
    BY <1>2, <1>3, FillIs
  <1>5. /\ o = Lesser(Buf, ld - pos) /\ o \in Nat /\ pos + o <= ld
        /\ \A i \in 1..o : other[i] = device[pos + i]
    BY <1>2, <1>3, FillIs
  <1>6. la \in Nat /\ ld \in Nat /\ pos <= la /\ pos <= ld /\ pos \in Nat /\ Buf \in Nat \ {0}
    BY <1>2, <1>3, Bounds
  <1> HIDE DEF la, ld, c, o
  <1>7. Overlap = Lesser(c, o) /\ Overlap \in Nat /\ Overlap <= c /\ Overlap <= o
    BY <1>4, <1>5 DEF Overlap, Lesser, c, o
  <1>8. Diffs = {i \in 1..Overlap : Against[pos + i] # device[pos + i]}
    <2>1. \A i \in 1..Overlap : i \in 1..c /\ i \in 1..o
      BY <1>4, <1>5, <1>7
    <2> QED
      BY <1>4, <1>5, <2>1 DEF Diffs
  <1> DEFINE n == Lesser(la, ld)
             differ == {i \in 1..n : Against[i] # device[i]}
  <1>9. /\ n \in Nat /\ pos + Overlap <= n
        /\ \A i \in differ : i > pos /\ (i <= pos + Overlap => i - pos \in Diffs)
    <2>1. n \in Nat /\ pos + Overlap <= n
      BY <1>4, <1>5, <1>6, <1>7 DEF Lesser
    <2>2. ASSUME NEW i \in differ PROVE i > pos /\ (i <= pos + Overlap => i - pos \in Diffs)
      <3> HIDE DEF n
      <3>1. i \in 1..n /\ Against[i] # device[i]
        OBVIOUS
      <3>2. i > pos
        BY <1>3, <1>6, <2>1, <3>1
      <3>3. ASSUME i <= pos + Overlap PROVE i - pos \in Diffs
        <4>1. i - pos \in 1..Overlap /\ pos + (i - pos) = i
          BY <1>6, <1>7, <2>1, <3>1, <3>2, <3>3
        <4> QED
          BY <1>8, <3>1, <4>1
      <3> QED
        BY <3>2, <3>3
    <2> QED
      BY <2>1, <2>2
  <1>10. \A i \in Diffs : pos + i \in differ
    <2>1. \A i \in 1..Overlap : pos + i \in 1..n
      <3> HIDE DEF n
      <3> QED
        BY <1>6, <1>7, <1>9
    <2> HIDE DEF n
    <2> QED
      BY <1>8, <2>1
  <1>11. differ # {} => Against # device
    OBVIOUS
  <1>12. pos' \in Nat /\ chunk' \in Seq(Data \cup {"json"}) /\ other' \in Seq(Data \cup {"json"})
    <2>1. pos' \in {pos, pos + Overlap} /\ pos + Overlap \in Nat
      BY <1>6, <1>7 DEF Compare
    <2>2. <<>> \in Seq(Data \cup {"json"})
      OBVIOUS
    <2>3. chunk' \in {chunk, <<>>} /\ other' \in {other, <<>>}
      BY DEF Compare
    <2> QED
      BY <1>2, <2>1, <2>2, <2>3
  <1> DEFINE First == /\ exit' = "failed" /\ Against # device
                      /\ IF differ = {} THEN mismatch' = n
                         ELSE mismatch' + 1 \in differ /\ \A i \in differ : mismatch' + 1 <= i
  <1>13. /\ First => VerdictIsRight'
         /\ exit' = "ok" /\ Against = device => VerdictIsRight'
    <2>1. Against = device => cmd.against = "file" /\ device = Bytes(image)
      <3> SUFFICES ASSUME Against = device, cmd.against = "manifest" PROVE FALSE
        <4>1. cmd.against \in {"file", "manifest"}
          BY VerifySpares, CommandTypes DEF CliInv
        <4> QED
          BY <4>1 DEF Against
      <3>1. device = <<"json">> /\ device \in Seq(Data)
        BY DEF Against, CliInv, TypeOK
      <3>2. device[1] = "json" /\ device[1] \in Data
        <4>1. 1 \in 1..Len(device) /\ device[1] = "json"
          BY <3>1
        <4> QED
          BY <3>1, <4>1, ElementOfSeq
      <3> QED
        BY <3>2, Bounds DEF Data
    <2>2. Bytes(image)' = Bytes(image)
      BY VerifySpares, SameImage DEF CliInv, world, media
    <2>3. VerdictIsRight' <=>
            (exit' \in {"ok", "failed"} /\ cmd.opens /\ ran' > 0 =>
               /\ exit' = "ok" => cmd.against = "file" /\ device = Bytes(image)'
               /\ exit' = "failed" =>
                    \/ mismatch' = None
                       /\ \E u \in {v \in 1..la : v = cmd.unread} \cup {v \in 1..ld : v = cmd.bad} :
                            \A i \in differ : i + Buf > u
                    \/ /\ Against # device
                       /\ IF differ = {} THEN mismatch' = n
                          ELSE mismatch' + 1 \in differ /\ \A i \in differ : mismatch' + 1 <= i)
      BY <1>1 DEF VerdictIsRight, Ended, la, ld
    <2> HIDE DEF n, differ
    <2> QED
      BY <2>1, <2>2, <2>3
  <1> HIDE DEF n, differ
  <1>14. CASE Diffs # {}
    <2>1. PICK i \in Diffs : (\A j \in Diffs : i <= j) /\ mismatch' = pos + i - 1
      BY <1>14 DEF Compare
    <2>2. exit' = "failed"
      BY <1>14 DEF Compare, Quit
    <2>3. pos + i \in differ /\ mismatch' + 1 = pos + i
      BY <1>6, <1>7, <1>8, <1>10, <2>1
    <2>4. ASSUME NEW j \in differ PROVE pos + i <= j
      <3>1. j \in Nat /\ i \in 1..Overlap
        BY <1>8, <1>9, <2>1 DEF differ
      <3>2. CASE j <= pos + Overlap
        <4>1. j - pos \in Diffs
          BY <1>9, <3>2
        <4>2. i <= j - pos
          BY <2>1, <4>1
        <4> QED
          BY <1>6, <3>1, <4>2
      <3>3. CASE j > pos + Overlap
        BY <1>6, <1>7, <3>1, <3>3
      <3> QED
        BY <1>6, <1>7, <3>1, <3>2, <3>3
    <2>5. VerdictIsRight'
      BY <1>11, <1>13, <2>2, <2>3, <2>4
    <2> QED
      BY <1>12, <2>2, <2>5, VerifySuffices
  <1>15. CASE Diffs = {} /\ c # o
    <2>1. mismatch' = pos + Overlap /\ exit' = "failed"
      BY <1>15 DEF Compare, Quit, c, o
    <2>2. pos + Overlap = n /\ la # ld
      <3>1. Lesser(Buf, la - pos) # Lesser(Buf, ld - pos)
        BY <1>4, <1>5, <1>15
      <3>2. Overlap = Lesser(Lesser(Buf, la - pos), Lesser(Buf, ld - pos))
        BY <1>4, <1>5, <1>7
      <3> QED
        BY <1>6, <3>1, <3>2, ShorterFill DEF n
    <2>3. differ = {}
      BY <1>6, <1>7, <1>9, <1>15, <2>2 DEF differ
    <2>4. Against # device
      BY <2>2 DEF la, ld
    <2>5. VerdictIsRight'
      BY <1>13, <2>1, <2>2, <2>3, <2>4
    <2> QED
      BY <1>12, <2>1, <2>5, VerifySuffices
  <1>16. CASE Diffs = {} /\ c = o /\ Overlap = 0
    <2>1. exit' = "ok"
      BY <1>16 DEF Compare, Quit, c, o
    <2>2. la = pos /\ ld = pos
      BY <1>4, <1>5, <1>6, <1>7, <1>16 DEF Lesser
    <2>3. Against = device
      BY <1>2, <1>3, <2>2, SeqEqual DEF la, ld
    <2>4. VerdictIsRight'
      BY <1>13, <2>1, <2>3
    <2> QED
      BY <1>12, <2>1, <2>4, VerifySuffices
  <1>17. CASE Diffs = {} /\ c = o /\ Overlap # 0
    <2>1. /\ exit' = "running" /\ step' = "source" /\ pos' = pos + Overlap /\ mismatch' = None
      BY <1>1, <1>3, <1>17 DEF Compare, Goto, c, o
    <2>2. ASSUME NEW i \in 1 .. pos + Overlap PROVE Against[i] = device[i]
      <3>1. CASE i <= pos
        BY <1>3, <1>6, <1>7, <3>1
      <3>2. CASE i > pos
        <4>1. i - pos \in 1..Overlap /\ pos + (i - pos) = i
          BY <1>6, <1>7, <3>2
        <4> QED
          BY <1>8, <1>17, <4>1
      <3> QED
        BY <1>6, <1>7, <3>1, <3>2
    <2>3. pos + Overlap <= la /\ pos + Overlap <= ld
      BY <1>4, <1>5, <1>6, <1>7
    <2>4. VerifyFollows'
      BY <1>1, <2>1, <2>2, <2>3 DEF VerifyFollows, la, ld
    <2> QED
      BY <1>12, <2>1, <2>4, VerifySuffices
  <1> QED
    BY <1>14, <1>15, <1>16, <1>17
-----------------------------------------------------------------------------
(* backup *)

ImageTypes == [codec : Contents, ending : Endings \cup {"plain"}, units : Seq(Data), rest : Nat,
                      whole : BOOLEAN]

LEMMA BackupSpares ==
  ASSUME TypeOK, NEW n, NEW k,
         \/ Backup \/ BackupRead(n) \/ BackupWrite(k) \/ BackupFails \/ BackupEnd
         \/ DropWriter \/ WriteManifest
  PROVE  /\ UNCHANGED <<device, files, cmd, ran, pending>>
         /\ exit = "running" /\ cmd.op = "backup" /\ cmd \in Commands
         /\ exit' \in {"running", "ok", "failed"}
         /\ exit' = "running" => step' \in {"copy", "encode", "drop", "unwind", "manifest"}
  <1>1. exit = "running" /\ step \in {"backup", "copy", "encode", "drop", "unwind", "manifest"}
    BY DEF Backup, BackupRead, BackupWrite, BackupFails, BackupEnd, DropWriter, WriteManifest, Begin, At
  <1>2. cmd.op = "backup" /\ cmd \in Commands
    BY <1>1, StepsTell
  <1>3. UNCHANGED <<device, files, cmd, ran, pending>>
    BY DEF Backup, BackupRead, BackupWrite, BackupFails, BackupEnd, DropWriter, WriteManifest, Begin, At,
           world, media, locals
  <1> QED
    BY <1>1, <1>2, <1>3 DEF Backup, BackupRead, BackupWrite, BackupFails, BackupEnd, DropWriter,
           WriteManifest, Begin, At, Goto, Quit

LEMMA BackupSuffices ==
  ASSUME CliInv, NEW n, NEW k,
         \/ Backup \/ BackupRead(n) \/ BackupWrite(k) \/ BackupFails \/ BackupEnd
         \/ DropWriter \/ WriteManifest,
         image' \in ImageTypes, image'.codec = "none" => image'.whole,
         pos' \in Nat, hashed' \in Seq(Data),
         chunk' \in Seq(Data \cup {"json"}), other' \in Seq(Data \cup {"json"}),
         exit' = "running" => BackupFollows',
         exit' = "ok" => BackupOkIsExact'
  PROVE  CliInv'
  <1>1. /\ UNCHANGED <<device, files, cmd, ran, pending>>
        /\ exit = "running" /\ cmd.op = "backup" /\ cmd \in Commands
        /\ exit' \in {"running", "ok", "failed"}
        /\ exit' = "running" => step' \in {"copy", "encode", "drop", "unwind", "manifest"}
    BY BackupSpares DEF CliInv
  <1>2. exit' = "running" => step' \in StepsOf(cmd'.op)
    BY <1>1 DEF StepsOf
  <1>3. TypeOK'
    BY <1>1, <1>2 DEF CliInv, TypeOK, files, ImageTypes
  <1>4. ArchiveHolds'
    BY <1>1, ArchiveStays DEF CliInv, files
  <1>5. CASE exit' = "running"
    <2>1. step' \notin Ops
      BY <1>1, <1>5 DEF Ops
    <2> QED
      BY <1>1, <1>3, <1>4, <1>5, <2>1, BegunIsNotEmpty, OnlyBackup, NoClaimYet DEF CliInv
  <1>6. CASE exit' # "running"
    <2>1. Claims'
      BY <1>1, <1>6 DEF Claims, VerifiedFlashMatches, VerdictIsRight, BackupOkIsExact,
         RestoredIsArchived, SystemDiskIsHidden, Ended
    <2> QED
      BY <1>3, <1>4, <1>6, <2>1, NothingToFollow DEF CliInv
  <1> QED
    BY <1>5, <1>6

\* What the variables of a backup have for types, and what is known at a step
\* of its loop.
LEMMA BackupFacts ==
  ASSUME CliInv, exit = "running",
         step \in {"backup", "copy", "encode", "drop", "unwind", "manifest"}
  PROVE  /\ cmd \in Commands /\ cmd.op = "backup" /\ cmd.room \in Nat
         /\ image \in ImageTypes /\ (image.codec = "none" => image.whole)
         /\ image.units \in Seq(Data) /\ device \in Seq(Data) /\ Len(device) \in Nat
         /\ pos \in Nat /\ hashed \in Seq(Data)
         /\ step # "manifest" => chunk \in Seq(Data) /\ other \in Seq(Data)
         /\ chunk \in Seq(Data \cup {"json"}) /\ other \in Seq(Data \cup {"json"})
  <1>1. cmd \in Commands /\ cmd.op = "backup" /\ cmd.room \in Nat
    BY StepsTell, CommandTypes DEF CliInv
  <1>2. step = "backup" => chunk = <<>> /\ other = <<>>
    BY <1>1 DEF CliInv, BeginsEmpty, InStep
  <1>3. step \in {"copy", "encode", "drop", "unwind"} => chunk \in Seq(Data) /\ other \in Seq(Data)
    BY DEF CliInv, BackupFollows, InStep
  <1>4. <<>> \in Seq(Data)
    OBVIOUS
  <1>5. step # "manifest" => chunk \in Seq(Data) /\ other \in Seq(Data)
    BY <1>2, <1>3, <1>4
  <1> QED
    BY <1>1, <1>5 DEF CliInv, TypeOK, ImageTypes
LEMMA BackupBeginsCliInv ==
  ASSUME CliInv, Backup
  PROVE  CliInv'
  <1>1. exit = "running" /\ step = "backup" /\ exit' = "running" /\ step' = "copy"
        /\ UNCHANGED <<device, cmd, pos, hashed, chunk, other>>
        /\ image' = [codec |-> cmd.codec, ending |-> cmd.ending, units |-> <<>>, rest |-> 0,
                     whole |-> cmd.codec = "none"]
    BY DEF Backup, Begin, At, Goto, locals, copier
  <1>2. /\ cmd \in Commands /\ cmd.op = "backup" /\ cmd.room \in Nat
        /\ pos \in Nat /\ hashed \in Seq(Data)
        /\ chunk \in Seq(Data \cup {"json"}) /\ other \in Seq(Data \cup {"json"})
        /\ device \in Seq(Data) /\ Len(device) \in Nat
    BY <1>1, BackupFacts
  <1>3. pos = 0 /\ hashed = <<>> /\ chunk = <<>> /\ other = <<>>
    BY <1>1, <1>2 DEF CliInv, BeginsEmpty, InStep
  <1>4. cmd.codec \in Codecs /\ cmd.ending \in Endings \cup {"plain"}
    BY <1>2, CommandTypes
  <1>5. image' \in ImageTypes /\ (image'.codec = "none" => image'.whole) /\ image'.units = <<>>
    <2> DEFINE plain == cmd.codec = "none"
    <2>1. plain \in BOOLEAN /\ <<>> \in Seq(Data)
      OBVIOUS
    <2>2. image' = [codec |-> cmd.codec, ending |-> cmd.ending, units |-> <<>>, rest |-> 0,
                    whole |-> plain]
      BY <1>1
    <2>3. plain <=> cmd.codec = "none"
      OBVIOUS
    <2> HIDE DEF plain
    <2>4. image' \in ImageTypes /\ image'.units = <<>>
      BY <1>4, <2>1, <2>2 DEF ImageTypes, Contents
    <2>5. image'.codec = cmd.codec /\ image'.whole = plain
      BY <2>2
    <2> QED
      BY <2>3, <2>4, <2>5
  <1>6. SubSeq(device, 1, 0) = <<>>
    BY SubSeqEmpty
  <1>7. (<<>> \o <<>>) \o <<>> = <<>> /\ Len(<<>>) = 0 /\ <<>> \in Seq(Data)
    BY ConcatEmptySeq, <<>> \in Seq(Data)
  <1>8. BackupFollows'
    BY <1>1, <1>2, <1>3, <1>5, <1>6, <1>7 DEF BackupFollows, InStep
  <1> QED
    BY <1>1, <1>2, <1>5, <1>8, BackupSuffices

LEMMA BackupReadKeepsCliInv ==
  ASSUME CliInv, NEW n \in 1..Buf, BackupRead(n)
  PROVE  CliInv'
  <1>1. exit = "running" /\ step = "copy" /\ exit' = "running" /\ step' = "encode"
        /\ UNCHANGED <<device, image, cmd, other>>
        /\ chunk' = SubSeq(device, pos + 1, pos + n) /\ pos' = pos + n /\ hashed' = hashed \o chunk'
    BY DEF BackupRead, At, Goto, world, media
  <1>2. /\ cmd.room \in Nat /\ image \in ImageTypes /\ (image.codec = "none" => image.whole)
        /\ image.units \in Seq(Data) /\ device \in Seq(Data) /\ Len(device) \in Nat
        /\ pos \in Nat /\ hashed \in Seq(Data) /\ other \in Seq(Data)
        /\ other \in Seq(Data \cup {"json"})
    BY <1>1, BackupFacts
  <1>3. /\ pos <= Len(device) /\ hashed = SubSeq(device, 1, pos)
        /\ (image.units \o other) \o chunk = hashed /\ chunk = <<>>
        /\ image.codec = "none" => other = <<>>
        /\ Len(image.units) <= cmd.room
    BY <1>1 DEF CliInv, BackupFollows, InStep
  <1>4. n \in Nat /\ n <= Len(device) - pos
    BY <1>2, Bounds DEF BackupRead, ReadSizes, Lesser
  <1>5. pos \in 0..Len(device) /\ n \in 1..Len(device) - pos
    BY <1>2, <1>3, <1>4
  <1>6. /\ SubSeq(device, 1, pos) \o SubSeq(device, pos + 1, pos + n) = SubSeq(device, 1, pos + n)
        /\ SubSeq(device, pos + 1, pos + n) \in Seq(Data)
    BY <1>2, <1>5, ReadOn
  <1>7. hashed' = SubSeq(device, 1, pos + n) /\ chunk' \in Seq(Data)
    BY <1>1, <1>3, <1>6
  <1>8. hashed' \in Seq(Data)
    BY <1>1, <1>2, <1>7, ConcatProperties
  <1>9. image.units \o other = hashed
    <2>1. image.units \o other \in Seq(Data)
      BY <1>2, ConcatProperties
    <2> QED
      BY <1>3, <2>1, ConcatEmptySeq
  <1>10. (image.units \o other) \o chunk' = hashed'
    BY <1>1, <1>9
  <1>11. pos + n \in Nat /\ pos + n <= Len(device)
    BY <1>2, <1>4
  <1>12. BackupFollows'
    <2>1. (image'.units \o other') \o chunk' = hashed'
      BY <1>1, <1>10
    <2>2. pos' <= Len(device') /\ hashed' = SubSeq(device', 1, pos')
      <3>1. hashed' = SubSeq(device, 1, pos + n) /\ pos' = pos + n /\ device' = device
        BY <1>1, <1>7
      <3> HIDE <1>1
      <3> QED
        BY <1>11, <3>1
    <2>3. /\ image'.codec = "none" => other' = <<>>
          /\ Len(image'.units) <= cmd'.room
          /\ chunk' \in Seq(Data) /\ other' \in Seq(Data)
      BY <1>1, <1>2, <1>3, <1>7
    <2>4. exit' = "running" /\ step' = "encode"
      BY <1>1
    <2> QED
      BY <2>1, <2>2, <2>3, <2>4 DEF BackupFollows, InStep
  <1>13. chunk' \in Seq(Data \cup {"json"})
    BY <1>7, SeqMonotonic
  <1> QED
    BY <1>1, <1>2, <1>8, <1>11, <1>12, <1>13, BackupSuffices

LEMMA BackupWriteKeepsCliInv ==
  ASSUME CliInv, NEW k, BackupWrite(k)
  PROVE  CliInv'
  <1> DEFINE held == other \o chunk
             front == SubSeq(held, 1, k)
             rest == SubSeq(held, k + 1, Len(held))
  <1>1. exit = "running" /\ step = "encode" /\ exit' = "running" /\ step' = "copy"
        /\ UNCHANGED <<device, cmd, pos, hashed>>
        /\ k \in (IF image.codec = "none" THEN {Len(held)} ELSE 0 .. Len(held))
        /\ Len(image.units) + k <= cmd.room
        /\ image' = [image EXCEPT !.units = @ \o front]
        /\ other' = rest /\ chunk' = <<>>
    BY DEF BackupWrite, At, Goto
  <1>2. /\ cmd.room \in Nat /\ image \in ImageTypes /\ (image.codec = "none" => image.whole)
        /\ image.units \in Seq(Data) /\ pos \in Nat /\ hashed \in Seq(Data)
        /\ other \in Seq(Data) /\ chunk \in Seq(Data)
    BY <1>1, BackupFacts
  <1>3. /\ pos <= Len(device) /\ hashed = SubSeq(device, 1, pos)
        /\ (image.units \o other) \o chunk = hashed
    BY <1>1 DEF CliInv, BackupFollows, InStep
  <1>4. held \in Seq(Data) /\ Len(held) \in Nat
    BY <1>2, ConcatProperties
  <1>5. k \in 0..Len(held)
    <2> HIDE DEF held
    <2> QED
      BY <1>1, <1>4
  <1>6. /\ front \in Seq(Data) /\ Len(front) = k /\ rest \in Seq(Data)
        /\ front \o rest = held /\ (k = Len(held) => rest = <<>>)
    <2> HIDE DEF held
    <2> QED
      BY <1>4, <1>5, Split
  <1>7. (image.units \o front) \o rest = hashed
    <2>1. Cat(Cat(image.units, front), rest) = Cat(image.units, Cat(front, rest))
      <3> HIDE DEF front, rest
      <3> QED
        BY <1>2, <1>6, Regroup
    <2>2. Cat(Cat(image.units, other), chunk) = Cat(image.units, Cat(other, chunk))
      BY <1>2, Regroup
    <2>3. Cat(front, rest) = Cat(other, chunk)
      BY <1>6 DEF Cat
    <2>4. Cat(Cat(image.units, front), rest) = Cat(Cat(image.units, other), chunk)
      BY <2>1, <2>2, <2>3
    <2> HIDE DEF held, front, rest
    <2> QED
      BY <1>3, <2>4 DEF Cat
  <1> HIDE DEF held, front, rest
  <1>8. /\ image.units \o front \in Seq(Data)
        /\ Len(image.units \o front) = Len(image.units) + k
    BY <1>2, <1>6, ConcatProperties
  <1>9. /\ image' \in ImageTypes /\ (image'.codec = "none" => image'.whole)
        /\ image'.units = image.units \o front /\ image'.codec = image.codec
    BY <1>1, <1>2, <1>8 DEF ImageTypes
  <1>10. (image'.units \o other') \o chunk' = hashed'
    <2>1. (image.units \o front) \o rest \in Seq(Data)
      BY <1>6, <1>8, ConcatProperties
    <2>2. ((image.units \o front) \o rest) \o <<>> = (image.units \o front) \o rest
      BY <2>1, ConcatEmptySeq
    <2> QED
      BY <1>1, <1>7, <1>9, <2>2
  <1>11. image'.codec = "none" => other' = <<>>
    BY <1>1, <1>6, <1>9
  <1>12. BackupFollows'
    <2>1. pos' <= Len(device') /\ hashed' = SubSeq(device', 1, pos')
      BY <1>1, <1>3
    <2>2. Len(image'.units) <= cmd'.room
      BY <1>1, <1>8, <1>9
    <2>3. chunk' \in Seq(Data) /\ other' \in Seq(Data) /\ chunk' = <<>>
      BY <1>1, <1>6
    <2>4. exit' = "running" /\ step' = "copy"
      BY <1>1
    <2> QED
      BY <1>10, <1>11, <2>1, <2>2, <2>3, <2>4 DEF BackupFollows, InStep
  <1>13. chunk' \in Seq(Data \cup {"json"}) /\ other' \in Seq(Data \cup {"json"})
    BY <1>1, <1>6, SeqMonotonic
  <1> QED
    BY <1>1, <1>2, <1>9, <1>12, <1>13, BackupSuffices
LEMMA BackupFailsKeepsCliInv ==
  ASSUME CliInv, BackupFails
  PROVE  CliInv'
  <1>1. /\ exit = "running" /\ step \in {"copy", "encode"} /\ exit' = "running" /\ step' = "unwind"
        /\ UNCHANGED <<device, cmd, pos, hashed, chunk, other>>
    BY DEF BackupFails, At, Goto, locals, copier
  <1>2. /\ cmd.room \in Nat /\ image \in ImageTypes /\ (image.codec = "none" => image.whole)
        /\ image.units \in Seq(Data) /\ pos \in Nat /\ hashed \in Seq(Data)
        /\ other \in Seq(Data) /\ chunk \in Seq(Data)
        /\ chunk \in Seq(Data \cup {"json"}) /\ other \in Seq(Data \cup {"json"})
    BY <1>1, BackupFacts
  <1>3. image' \in ImageTypes /\ (image'.codec = "none" => image'.whole)
    <2>1. CASE image' = image
      BY <1>2, <2>1
    <2>2. CASE image' = Filled /\ step = "encode" /\ Len(image.units) + Len(other) + Len(chunk) > cmd.room
      <3> DEFINE held == other \o chunk
                 r == cmd.room - Len(image.units)
                 part == SubSeq(held, 1, r)
      <3>1. held \in Seq(Data) /\ Len(held) = Len(other) + Len(chunk)
        BY <1>2, ConcatProperties
      <3>2. Len(image.units) <= cmd.room
        BY <1>1, <2>2 DEF CliInv, BackupFollows, InStep
      <3>3. Len(image.units) \in Nat /\ Len(other) \in Nat /\ Len(chunk) \in Nat
        BY <1>2
      <3>4. r \in 0..Len(held)
        <4>1. \A m, a, b, c \in Nat : a <= m /\ a + b + c > m => m - a \in 0 .. b + c
          OBVIOUS
        <4> HIDE DEF held
        <4> QED
          BY <1>2, <2>2, <3>1, <3>2, <3>3, <4>1
      <3>5. part \in Seq(Data)
        <4> HIDE DEF held, r
        <4> QED
          BY <3>1, <3>4, Split
      <3>6. image' = [image EXCEPT !.units = @ \o part]
        BY <2>2 DEF Filled
      <3> HIDE DEF part
      <3>7. image.units \o part \in Seq(Data)
        BY <1>2, <3>5, ConcatProperties
      <3> QED
        BY <1>2, <3>6, <3>7 DEF ImageTypes
    <2> QED
      BY <1>1, <2>1, <2>2 DEF BackupFails, At
  <1>4. BackupFollows'
    BY <1>1, <1>2 DEF BackupFollows, InStep
  <1> QED
    BY <1>1, <1>2, <1>3, <1>4, BackupSuffices

LEMMA BackupEndKeepsCliInv ==
  ASSUME CliInv, BackupEnd
  PROVE  CliInv'
  <1>1. /\ exit = "running" /\ step = "copy" /\ exit' = "running" /\ step' = "drop"
        /\ UNCHANGED <<device, image, cmd, pos, hashed, chunk, other>> /\ pos = Len(device)
    BY DEF BackupEnd, At, Goto, locals, copier, world, media
  <1>2. /\ image \in ImageTypes /\ (image.codec = "none" => image.whole)
        /\ pos \in Nat /\ hashed \in Seq(Data) /\ other \in Seq(Data) /\ chunk \in Seq(Data)
        /\ chunk \in Seq(Data \cup {"json"}) /\ other \in Seq(Data \cup {"json"})
    BY <1>1, BackupFacts
  <1>3. BackupFollows'
    BY <1>1, <1>2 DEF CliInv, BackupFollows, InStep
  <1> QED
    BY <1>1, <1>2, <1>3, BackupSuffices

\* What the drop leaves: everything that was hashed, or an error, or an encoder
\* that kept quiet.
LEMMA DropWriterKeepsCliInv ==
  ASSUME CliInv, DropWriter
  PROVE  CliInv'
  <1>1. /\ exit = "running" /\ step \in {"drop", "unwind"}
        /\ UNCHANGED <<device, cmd, pos, hashed, chunk, other>>
        /\ image' = IF Fits /\ image.codec # "none"
                    THEN [image EXCEPT !.units = @ \o other, !.whole = TRUE] ELSE image
        /\ IF step = "unwind" \/ (~Fits /\ image.codec = "zstd")
           THEN exit' = "failed" ELSE exit' = "running" /\ step' = "manifest"
    BY DEF DropWriter, At, Goto, Quit, locals, copier
  <1>2. /\ cmd.room \in Nat /\ image \in ImageTypes /\ (image.codec = "none" => image.whole)
        /\ image.units \in Seq(Data) /\ device \in Seq(Data) /\ Len(device) \in Nat
        /\ pos \in Nat /\ hashed \in Seq(Data) /\ other \in Seq(Data) /\ chunk \in Seq(Data)
        /\ chunk \in Seq(Data \cup {"json"}) /\ other \in Seq(Data \cup {"json"})
    BY <1>1, BackupFacts
  <1> DEFINE all == image.units \o other
  <1>3. all \in Seq(Data) /\ Len(all) = Len(image.units) + Len(other)
    BY <1>2, ConcatProperties
  <1>4. /\ image' \in ImageTypes /\ (image'.codec = "none" => image'.whole)
        /\ image'.codec = image.codec
        /\ image'.units = IF Fits /\ image.codec # "none" THEN all ELSE image.units
        /\ image'.whole = IF Fits /\ image.codec # "none" THEN TRUE ELSE image.whole
    <2> HIDE DEF all
    <2>1. CASE Fits /\ image.codec # "none"
      <3>1. image' = [image EXCEPT !.units = all, !.whole = TRUE]
        BY <1>1, <2>1 DEF all
      <3> QED
        BY <1>2, <1>3, <2>1, <3>1 DEF ImageTypes
    <2>2. CASE ~(Fits /\ image.codec # "none")
      BY <1>1, <1>2, <2>2
    <2> QED
      BY <2>1, <2>2
  <1>5. exit' = "running" => BackupFollows'
    <2> SUFFICES ASSUME exit' = "running" PROVE BackupFollows'
      OBVIOUS
    <2>1. step = "drop" /\ step' = "manifest" /\ ~(~Fits /\ image.codec = "zstd")
      BY <1>1
    <2>2. /\ pos <= Len(device) /\ hashed = SubSeq(device, 1, pos) /\ pos = Len(device)
          /\ (image.units \o other) \o chunk = hashed /\ chunk = <<>>
          /\ image.codec = "none" => other = <<>>
          /\ Len(image.units) <= cmd.room
      BY <1>1, <2>1 DEF CliInv, BackupFollows, InStep
    <2>3. hashed = device
      BY <1>2, <2>2, SubSeqFull
    <2>4. all = device
      BY <1>3, <2>2, <2>3, ConcatEmptySeq
    <2>5. image.codec \in {"none", "zstd"} \/ Len(device) < cmd.room => image'.units = device /\ image'.whole
      <3>1. CASE image.codec = "none"
        <4>1. all = image.units
          BY <1>2, <2>2, <3>1, ConcatEmptySeq
        <4> QED
          BY <1>2, <1>4, <2>4, <3>1, <4>1
      <3>2. CASE image.codec = "zstd"
        BY <1>4, <2>1, <2>4, <3>2
      <3>3. CASE image.codec \notin {"none", "zstd"} /\ Len(device) < cmd.room
        <4>1. Len(image.units) \in Nat /\ Len(other) \in Nat
          BY <1>2
        <4>2. Len(image.units) + Len(other) < cmd.room
          <5> HIDE DEF all
          <5> QED
            BY <1>3, <2>4, <3>3
        <4>3. Len(image.units) + (Len(other) + 1) <= cmd.room
          <5>1. \A m, a, b \in Nat : a + b < m => a + (b + 1) <= m
            OBVIOUS
          <5> QED
            BY <1>2, <4>1, <4>2, <5>1
        <4>4. Fits
          BY <3>3, <4>3 DEF Fits, Owed
        <4> QED
          BY <1>4, <2>4, <3>3, <4>4
      <3> QED
        BY <3>1, <3>2, <3>3
    <2> HIDE DEF all
    <2>6. pos' <= Len(device') /\ hashed' = SubSeq(device', 1, pos') /\ pos' = Len(device')
      BY <1>1, <2>2
    <2> QED
      BY <1>1, <1>4, <2>1, <2>5, <2>6 DEF BackupFollows, InStep
  <1>6. exit' # "ok"
    BY <1>1
  <1> QED
    BY <1>1, <1>2, <1>4, <1>5, <1>6, BackupSuffices

LEMMA WriteManifestKeepsCliInv ==
  ASSUME CliInv, WriteManifest
  PROVE  CliInv'
  <1>1. /\ exit = "running" /\ step = "manifest" /\ exit' = "ok"
        /\ UNCHANGED <<device, image, cmd, pos, hashed, chunk, other>>
        /\ cmd.sidecar = "fits" => manifest' = hashed
    BY DEF WriteManifest, Written, At, Quit, locals, copier
  <1>2. /\ image \in ImageTypes /\ (image.codec = "none" => image.whole)
        /\ device \in Seq(Data) /\ pos \in Nat /\ hashed \in Seq(Data)
        /\ chunk \in Seq(Data \cup {"json"}) /\ other \in Seq(Data \cup {"json"})
    BY <1>1, BackupFacts
  <1>3. /\ hashed = SubSeq(device, 1, pos) /\ pos = Len(device)
        /\ image.codec \in {"none", "zstd"} \/ Len(device) < cmd.room
             => image.units = device /\ image.whole
    BY <1>1 DEF CliInv, BackupFollows, InStep
  <1>4. hashed = device
    BY <1>2, <1>3, SubSeqFull
  <1>5. BackupOkIsExact'
    BY <1>1, <1>3, <1>4 DEF BackupOkIsExact
  <1> QED
    BY <1>1, <1>2, <1>5, BackupSuffices
-----------------------------------------------------------------------------
(* archive *)

Paths == DOMAIN Tree

ArchiveTypes == [codec : Codecs, ending : Endings \cup {"plain"}, entries : Seq(Paths),
                 kept : SUBSET Paths, whole : BOOLEAN, ok : BOOLEAN]

\* What WalkFollows says of a walk.
Walking ==
  /\ \A x \in Entered : x \notin cmd.excludes /\ Reached(x)
  /\ \A x \in Paths :
       Reached(x) => \/ x \in Entered \cup cmd.excludes
                     \/ \E j \in 1..Len(pending) : x \in pending[j]
  /\ \A j \in 1..Len(pending) : \A x \in pending[j] : Reached(x) /\ x \notin Entered
  /\ \A j, k \in 1..Len(pending) : j # k => pending[j] \cap pending[k] = {}

LEMMA WalkingIs ==
  ASSUME TypeOK
  PROVE  /\ WalkFollows <=> /\ InStep({"walk", "abort"}) => ~archive.ok
                            /\ InStep({"walk"}) => Walking
         /\ DOMAIN pending = 1..Len(pending)
         /\ archive \in ArchiveTypes /\ archive.entries \in Seq(Paths)
         /\ Entered = {archive.entries[i] : i \in 1..Len(archive.entries)}
         /\ Entered \subseteq Paths
  <1>1. DOMAIN pending = 1..Len(pending)
    BY DEF TypeOK
  <1>2. archive \in ArchiveTypes /\ archive.entries \in Seq(Paths)
    BY DEF TypeOK, ArchiveTypes, Paths
  <1>3. DOMAIN archive.entries = 1..Len(archive.entries)
        /\ \A i \in 1..Len(archive.entries) : archive.entries[i] \in Paths
    BY <1>2
  <1>4. /\ Entered = {archive.entries[i] : i \in 1..Len(archive.entries)}
        /\ Entered \subseteq Paths
    BY <1>3 DEF Entered
  <1>5. WalkFollows <=> /\ InStep({"walk", "abort"}) => ~archive.ok
                        /\ InStep({"walk"}) => Walking
    BY <1>1 DEF WalkFollows, Walking, Paths
  <1> QED
    BY <1>1, <1>2, <1>4, <1>5

LEMMA ArchiveSpares ==
  ASSUME TypeOK, NEW n, \/ Archive \/ WalkExcluded(n) \/ WalkEntry(n) \/ WalkUp
                        \/ WalkFails(n) \/ EndArchive
  PROVE  /\ UNCHANGED <<media, target, copier, cmd, ran>>
         /\ exit = "running" /\ cmd.op = "archive" /\ cmd \in Commands
         /\ step \in {"archive", "walk", "abort"}
         /\ exit' \in {"running", "ok", "failed"}
         /\ exit' = "running" => step' \in {"walk", "abort"}
  <1>1. exit = "running" /\ step \in {"archive", "walk", "abort"}
    BY DEF Archive, WalkExcluded, WalkEntry, WalkUp, WalkFails, EndArchive, Begin, At
  <1>2. cmd.op = "archive" /\ cmd \in Commands
    BY <1>1, StepsTell
  <1>3. UNCHANGED <<media, target, copier, cmd, ran>>
    BY DEF Archive, WalkExcluded, WalkEntry, WalkUp, WalkFails, EndArchive, Begin, At,
           world, files, locals
  <1> QED
    BY <1>1, <1>2, <1>3 DEF Archive, WalkExcluded, WalkEntry, WalkUp, WalkFails, EndArchive,
           Begin, At, Goto, Quit

LEMMA ArchiveSuffices ==
  ASSUME CliInv, NEW n, \/ Archive \/ WalkExcluded(n) \/ WalkEntry(n) \/ WalkUp
                        \/ WalkFails(n) \/ EndArchive,
         archive' \in ArchiveTypes, pending' \in Seq(SUBSET Paths), ArchiveHolds',
         exit' = "running" => archive'.ok = FALSE,
         exit' = "running" /\ step' = "walk" => Walking'
  PROVE  CliInv'
  <1>1. /\ UNCHANGED <<media, target, copier, cmd, ran>>
        /\ exit = "running" /\ cmd.op = "archive" /\ cmd \in Commands
        /\ exit' \in {"running", "ok", "failed"}
        /\ exit' = "running" => step' \in {"walk", "abort"}
    BY ArchiveSpares DEF CliInv
  <1>2. exit' = "running" => step' \in StepsOf(cmd'.op)
    BY <1>1 DEF StepsOf
  <1>3. TypeOK'
    BY <1>1, <1>2 DEF CliInv, TypeOK, media, copier, ArchiveTypes, Paths
  <1>4. CASE exit' = "running"
    <2>1. step' \notin Ops
      BY <1>1, <1>4 DEF Ops
    <2>2. DOMAIN pending' = 1..Len(pending')
      BY <1>3 DEF TypeOK
    <2>3. WalkFollows'
      BY <1>4, <2>2 DEF WalkFollows, Walking, InStep, Paths
    <2> QED
      BY <1>1, <1>3, <1>4, <2>1, <2>3, BegunIsNotEmpty, OnlyArchive, NoClaimYet DEF CliInv
  <1>5. CASE exit' # "running"
    <2>1. Claims'
      BY <1>1, <1>5 DEF Claims, VerifiedFlashMatches, VerdictIsRight, BackupOkIsExact,
         RestoredIsArchived, SystemDiskIsHidden, Ended
    <2> QED
      BY <1>3, <1>5, <2>1, NothingToFollow DEF CliInv
  <1> QED
    BY <1>4, <1>5

\* The stack of levels, with its last replaced, dropped, or one more on top.
LEMMA Levels ==
  ASSUME TypeOK, pending # <<>>, NEW X \in SUBSET Paths, NEW Y \in SUBSET Paths
  PROVE  /\ Len(pending) \in Nat \ {0}
         /\ \A j \in 1..Len(pending) : pending[j] \in SUBSET Paths
         /\ Level = pending[Len(pending)]
         /\ Upper \in Seq(SUBSET Paths) /\ Len(Upper) = Len(pending) - 1
         /\ \A j \in 1..Len(pending) - 1 : Upper[j] = pending[j]
         /\ Append(Upper, X) \in Seq(SUBSET Paths) /\ Len(Append(Upper, X)) = Len(pending)
         /\ \A j \in 1..Len(pending) :
              Append(Upper, X)[j] = IF j = Len(pending) THEN X ELSE pending[j]
         /\ Upper \o <<X, Y>> \in Seq(SUBSET Paths) /\ Len(Upper \o <<X, Y>>) = Len(pending) + 1
         /\ \A j \in 1..Len(pending) + 1 :
              (Upper \o <<X, Y>>)[j] = IF j = Len(pending) + 1 THEN Y
                                       ELSE IF j = Len(pending) THEN X ELSE pending[j]
  <1> DEFINE m == Len(pending)
             U == Upper
             two == <<X, Y>>
  <1>1. pending \in Seq(SUBSET Paths)
    BY DEF TypeOK, Paths
  <1>2. m \in Nat \ {0} /\ \A j \in 1..m : pending[j] \in SUBSET Paths
    BY <1>1, EmptySeq
  <1>3. Level = pending[m]
    BY DEF Level
  <1>4. U \in Seq(SUBSET Paths) /\ Len(U) = m - 1 /\ \A j \in 1..m - 1 : U[j] = pending[j]
    <2>1. 0 \in 0..m /\ m - 1 \in 0..m - 0 /\ 0 + 1 = 1 /\ 0 + (m - 1) = m - 1
      BY <1>2
    <2> HIDE DEF m
    <2>2. m = Len(pending)
      BY DEF m
    <2>3. /\ SubSeq(pending, 0 + 1, 0 + (m - 1)) \in Seq(SUBSET Paths)
          /\ Len(SubSeq(pending, 0 + 1, 0 + (m - 1))) = m - 1
          /\ \A j \in 1..m - 1 : SubSeq(pending, 0 + 1, 0 + (m - 1))[j] = pending[0 + j]
      BY <1>1, <2>1, <2>2, PartOf
    <2>4. U = SubSeq(pending, 0 + 1, 0 + (m - 1))
      BY <2>1, <2>2 DEF Upper
    <2>5. \A j \in 1..m - 1 : 0 + j = j
      BY <1>2
    <2> QED
      BY <2>3, <2>4, <2>5
  <1> HIDE DEF m, U
  <1>5. /\ Append(U, X) \in Seq(SUBSET Paths) /\ Len(Append(U, X)) = m
        /\ \A j \in 1..m : Append(U, X)[j] = IF j = m THEN X ELSE pending[j]
    <2>1. /\ Append(U, X) \in Seq(SUBSET Paths) /\ Len(Append(U, X)) = Len(U) + 1
          /\ \A j \in 1..Len(U) : Append(U, X)[j] = U[j]
          /\ Append(U, X)[Len(U) + 1] = X
      BY <1>4, AppendProperties
    <2>2. Len(U) + 1 = m /\ \A j \in 1..m : j = m \/ j \in 1..m - 1
      BY <1>2, <1>4
    <2>3. ASSUME NEW j \in 1..m
          PROVE  Append(U, X)[j] = IF j = m THEN X ELSE pending[j]
      <3>1. CASE j = m
        BY <2>1, <2>2, <3>1
      <3>2. CASE j # m
        <4>1. j \in 1..m - 1
          BY <2>2, <3>2
        <4> QED
          BY <1>4, <2>1, <3>2, <4>1
      <3> QED
        BY <3>1, <3>2
    <2> QED
      BY <2>1, <2>2, <2>3
  <1>6. two \in Seq(SUBSET Paths) /\ Len(two) = 2 /\ two[1] = X /\ two[2] = Y
    OBVIOUS
  <1>7. /\ U \o two \in Seq(SUBSET Paths) /\ Len(U \o two) = m + 1
        /\ \A j \in 1..m + 1 : (U \o two)[j] = IF j = m + 1 THEN Y
                                             ELSE IF j = m THEN X ELSE pending[j]
    <2> HIDE DEF two
    <2>1. /\ U \o two \in Seq(SUBSET Paths) /\ Len(U \o two) = Len(U) + Len(two)
          /\ \A j \in 1..Len(U) + Len(two) :
               (U \o two)[j] = IF j <= Len(U) THEN U[j] ELSE two[j - Len(U)]
      BY <1>4, <1>6, ConcatProperties
    <2>2. Len(U) + Len(two) = m + 1
      BY <1>2, <1>4, <1>6
    <2>3. ASSUME NEW j \in 1..m + 1
          PROVE  (U \o two)[j] = IF j = m + 1 THEN Y ELSE IF j = m THEN X ELSE pending[j]
      <3>1. (U \o two)[j] = IF j <= m - 1 THEN U[j] ELSE two[j - (m - 1)]
        BY <1>4, <2>1, <2>2
      <3>2. CASE j = m + 1
        <4>1. ~(j <= m - 1) /\ j - (m - 1) = 2
          BY <1>2, <3>2
        <4> QED
          BY <1>6, <3>1, <3>2, <4>1
      <3>3. CASE j = m
        <4>1. ~(j <= m - 1) /\ j - (m - 1) = 1 /\ j # m + 1
          BY <1>2, <3>3
        <4> QED
          BY <1>6, <3>1, <3>3, <4>1
      <3>4. CASE j # m /\ j # m + 1
        <4>1. j <= m - 1 /\ j \in 1..m - 1
          BY <1>2, <3>4
        <4> QED
          BY <1>4, <3>1, <3>4, <4>1
      <3> QED
        BY <3>2, <3>3, <3>4
    <2> QED
      BY <2>1, <2>2, <2>3
  <1> QED
    BY <1>2, <1>3, <1>4, <1>5, <1>7 DEF m, U, two

LEMMA TopIsNoPath == Top \notin Paths
  BY CliAssumption DEF Paths

\* What holds of all that is in Top, and with a directory of all that is in it,
\* holds of every path.
LEMMA TreeIs ==
  ASSUME NEW S \in SUBSET Paths,
         \A x \in Paths : Tree[x] \in S \cup {Top} => x \in S
  PROVE  S = Paths
  BY CliAssumption DEF Paths

\* Below a path is the path itself, and what is in a directory below it.
LEMMA BelowIs ==
  ASSUME NEW e \in Paths \cup {Top}
  PROVE  /\ \A x \in Paths : Below(e, x) <=> e = x \/ Below(e, Tree[x])
         /\ Below(e, Top) <=> e = Top
  <1> DEFINE All == SUBSET (Paths \cup {Top})
  <1>1. \A x : Below(e, x) <=> \A S \in All : e \in S /\ Downward(S) => x \in S
    BY DEF Below, Paths
  <1>2. \A S : Downward(S) <=> \A n \in Paths : Tree[n] \in S => n \in S
    BY DEF Downward, Paths
  <1>3. ASSUME NEW x \in Paths PROVE Below(e, x) <=> e = x \/ Below(e, Tree[x])
    <2>1. e = x \/ Below(e, Tree[x]) => Below(e, x)
      BY <1>1, <1>2, <1>3
    <2>2. ASSUME e # x, ~Below(e, Tree[x]) PROVE ~Below(e, x)
      <3>1. PICK S \in All : e \in S /\ Downward(S) /\ Tree[x] \notin S
        BY <1>1, <2>2
      <3>2. S \ {x} \in All /\ e \in S \ {x}
        BY <2>2, <3>1
      <3>3. Downward(S \ {x})
        BY <1>2, <3>1
      <3> QED
        BY <1>1, <3>2, <3>3
    <2> QED
      BY <2>1, <2>2
  <1>4. Below(e, Top) <=> e = Top
    <2>1. e = Top => Below(e, Top)
      BY <1>1
    <2>2. ASSUME e # Top PROVE ~Below(e, Top)
      <3>1. Paths \in All /\ e \in Paths /\ Downward(Paths)
        BY <1>2, <2>2
      <3> QED
        BY <1>1, <3>1, TopIsNoPath
    <2> QED
      BY <2>1, <2>2
  <1> QED
    BY <1>3, <1>4

LEMMA ArchiveBeginsCliInv ==
  ASSUME CliInv, Archive
  PROVE  CliInv'
  <1> DEFINE first == IF Top \in cmd.excludes THEN {} ELSE Within(Top)
  <1>1. /\ exit = "running" /\ exit' = "running" /\ step' = "walk" /\ cmd' = cmd
        /\ archive' = [NoArchive EXCEPT !.codec = cmd.codec, !.ending = cmd.ending]
        /\ pending' = <<first>>
    BY DEF Archive, Begin, At, Goto
  <1>2. cmd.codec \in Codecs /\ cmd.ending \in Endings \cup {"plain"}
    BY ArchiveSpares, CommandTypes DEF CliInv
  <1>3. /\ archive' \in ArchiveTypes /\ archive'.entries = <<>> /\ archive'.ok = FALSE
    <2>1. archive' = [codec |-> cmd.codec, ending |-> cmd.ending, entries |-> <<>>, kept |-> {},
                      whole |-> FALSE, ok |-> FALSE]
      BY <1>1 DEF NoArchive
    <2>2. <<>> \in Seq(Paths) /\ {} \in SUBSET Paths /\ FALSE \in BOOLEAN
      OBVIOUS
    <2> QED
      BY <1>2, <2>1, <2>2 DEF ArchiveTypes
  <1>4. first \in SUBSET Paths /\ \A x \in Paths : x \in first <=> Tree[x] = Top /\ Top \notin cmd.excludes
    BY DEF Within, Paths
  <1> HIDE DEF first
  <1>5. /\ pending' \in Seq(SUBSET Paths) /\ Len(pending') = 1 /\ pending'[1] = first
    BY <1>1, <1>4
  <1>6. Entered' = {}
    BY <1>3 DEF Entered
  <1>7. \A x : Reached(x)' <=> Tree[x] = Top /\ Top \notin cmd.excludes
    BY <1>1, <1>6 DEF Reached
  <1>8. Walking'
    <2>1. \A j \in 1..Len(pending') : j = 1
      BY <1>5
    <2>2. \A x \in Paths : x \in first => x \in pending'[1]
      BY <1>5
    <2>3. 1 \in 1..Len(pending')
      BY <1>5
    <2> QED
      BY <1>4, <1>5, <1>6, <1>7, <2>1, <2>2, <2>3 DEF Walking
  <1>9. ArchiveHolds'
    BY <1>3 DEF ArchiveHolds
  <1> QED
    BY <1>1, <1>3, <1>5, <1>8, <1>9, ArchiveSuffices

\* An entry passed over, and a level done.
LEMMA WalkOnKeepsCliInv ==
  ASSUME CliInv, NEW n, WalkExcluded(n) \/ WalkUp
  PROVE  CliInv'
  <1> DEFINE m == Len(pending)
  <1>1. /\ exit = "running" /\ step = "walk" /\ exit' = "running" /\ step' = "walk"
        /\ UNCHANGED <<archive, cmd>> /\ pending # <<>>
    BY DEF WalkExcluded, WalkUp, At, Goto, world, files
  <1>2. /\ Walking /\ archive.ok = FALSE /\ archive \in ArchiveTypes
    BY <1>1, WalkingIs DEF CliInv, InStep, ArchiveTypes
  <1>3. Level \ {n} \in SUBSET Paths
    <2>1. {} \in SUBSET Paths
      OBVIOUS
    <2>2. /\ Level = pending[Len(pending)] /\ Len(pending) \in Nat \ {0}
          /\ \A j \in 1..Len(pending) : pending[j] \in SUBSET Paths
      BY <1>1, <2>1, Levels DEF CliInv
    <2> QED
      BY <2>2
  <1>4. /\ m \in Nat \ {0} /\ \A j \in 1..m : pending[j] \in SUBSET Paths
        /\ Level = pending[m]
        /\ Upper \in Seq(SUBSET Paths) /\ Len(Upper) = m - 1
        /\ \A j \in 1..m - 1 : Upper[j] = pending[j]
        /\ Append(Upper, Level \ {n}) \in Seq(SUBSET Paths) /\ Len(Append(Upper, Level \ {n})) = m
        /\ \A j \in 1..m : Append(Upper, Level \ {n})[j] = IF j = m THEN Level \ {n} ELSE pending[j]
    BY <1>1, <1>3, Levels DEF CliInv
  <1>5. Entered' = Entered /\ \A x : Reached(x)' <=> Reached(x)
    BY <1>1 DEF Entered, Reached
  <1> HIDE DEF m
  <1>6. CASE WalkExcluded(n)
    <2>1. pending' = Append(Upper, Level \ {n}) /\ n \in Level /\ n \in cmd.excludes
      BY <1>6 DEF WalkExcluded
    <2>2. /\ pending' \in Seq(SUBSET Paths) /\ Len(pending') = m
          /\ \A j \in 1..m : pending'[j] = IF j = m THEN pending[m] \ {n} ELSE pending[j]
      BY <1>4, <2>1
    <2>3. ASSUME NEW x \in Paths, Reached(x)
          PROVE  x \in Entered \cup cmd.excludes \/ \E j \in 1..m : x \in pending'[j]
      <3>1. CASE x \in Entered \cup cmd.excludes
        BY <3>1
      <3>2. CASE x \notin Entered \cup cmd.excludes
        <4>1. PICK j \in 1..m : x \in pending[j]
          BY <1>2, <2>3, <3>2 DEF Walking, m
        <4>2. x # n
          BY <2>1, <3>2
        <4> QED
          BY <2>2, <4>1, <4>2
      <3> QED
        BY <3>1, <3>2
    <2>4. \A j \in 1..m : pending'[j] \subseteq pending[j]
      BY <2>2
    <2>5. Walking'
      BY <1>1, <1>2, <1>5, <2>2, <2>3, <2>4 DEF Walking, m
    <2> QED
      BY <1>1, <1>2, <1>6, <2>2, <2>5, ArchiveStays, ArchiveSuffices DEF CliInv
  <1>7. CASE WalkUp
    <2>1. pending' = Upper /\ Level = {}
      BY <1>7 DEF WalkUp
    <2>2. /\ pending' \in Seq(SUBSET Paths) /\ Len(pending') = m - 1
          /\ \A j \in 1..m - 1 : pending'[j] = pending[j]
          /\ pending[m] = {}
      BY <1>4, <2>1
    <2>3. \A j \in 1..m : j = m \/ j \in 1..m - 1
      BY <1>4
    <2>4. ASSUME NEW x \in Paths, Reached(x)
          PROVE  x \in Entered \cup cmd.excludes \/ \E j \in 1..m - 1 : x \in pending'[j]
      <3>1. CASE x \in Entered \cup cmd.excludes
        BY <3>1
      <3>2. CASE x \notin Entered \cup cmd.excludes
        <4>1. PICK j \in 1..m : x \in pending[j]
          BY <1>2, <2>4, <3>2 DEF Walking, m
        <4>2. j \in 1..m - 1
          BY <2>2, <2>3, <4>1
        <4> QED
          BY <2>2, <4>1, <4>2
      <3> QED
        BY <3>1, <3>2
    <2>5. \A j \in 1..m - 1 : j \in 1..m
      BY <1>4
    <2>6. Walking'
      BY <1>1, <1>2, <1>5, <2>2, <2>4, <2>5 DEF Walking, m
    <2> QED
      BY <1>1, <1>2, <1>7, <2>2, <2>6, ArchiveStays, ArchiveSuffices DEF CliInv
  <1> QED
    BY <1>6, <1>7

\* An entry written: its children are the new level.
LEMMA WalkEntryKeepsCliInv ==
  ASSUME CliInv, NEW n \in Paths, WalkEntry(n)
  PROVE  CliInv'
  <1> DEFINE m == Len(pending)
             below == Within(n)
             X == Level \ {n}
  <1>1. /\ exit = "running" /\ step = "walk" /\ exit' = "running" /\ step' = "walk"
        /\ cmd' = cmd /\ pending # <<>>
        /\ n \in Level /\ n \notin cmd.excludes
        /\ archive' = [archive EXCEPT !.entries = Append(@, n)]
        /\ pending' = Upper \o <<X, below>>
    BY DEF WalkEntry, At, Goto
  <1>2. /\ Walking /\ archive.ok = FALSE /\ archive \in ArchiveTypes
        /\ archive.entries \in Seq(Paths)
        /\ Entered = {archive.entries[i] : i \in 1..Len(archive.entries)}
        /\ Entered \subseteq Paths
    BY <1>1, WalkingIs DEF CliInv, InStep, ArchiveTypes
  <1>3. X \in SUBSET Paths /\ below \in SUBSET Paths
    <2>1. {} \in SUBSET Paths
      OBVIOUS
    <2>2. /\ Level = pending[Len(pending)] /\ Len(pending) \in Nat \ {0}
          /\ \A j \in 1..Len(pending) : pending[j] \in SUBSET Paths
      BY <1>1, <2>1, Levels DEF CliInv
    <2> QED
      BY <2>2 DEF Within, Paths
  <1>4. \A x \in Paths : x \in below <=> Tree[x] = n
    BY DEF Within, Paths
  <1> HIDE DEF below
  <1>5. /\ m \in Nat \ {0} /\ Level = pending[m] /\ X = pending[m] \ {n} /\ n \in pending[m]
        /\ pending' \in Seq(SUBSET Paths) /\ Len(pending') = m + 1
        /\ \A j \in 1..m + 1 : pending'[j] = IF j = m + 1 THEN below
                                            ELSE IF j = m THEN X ELSE pending[j]
    <2> HIDE DEF X
    <2>1. /\ m \in Nat \ {0} /\ Level = pending[m]
          /\ Upper \o <<X, below>> \in Seq(SUBSET Paths) /\ Len(Upper \o <<X, below>>) = m + 1
          /\ \A j \in 1..m + 1 : (Upper \o <<X, below>>)[j] = IF j = m + 1 THEN below
                                                             ELSE IF j = m THEN X ELSE pending[j]
      BY <1>1, <1>3, Levels DEF CliInv
    <2>2. X = pending[m] \ {n}
      BY <2>1 DEF X
    <2> QED
      BY <1>1, <2>1, <2>2
  <1>6. n \notin Entered /\ Reached(n)
    <2>1. m \in 1..m
      BY <1>5
    <2> QED
      BY <1>2, <1>5, <2>1 DEF Walking
  <1> HIDE DEF X
  <1> DEFINE es == archive.entries
             L == Len(es)
             es2 == Append(es, n)
  <1>7. /\ es2 \in Seq(Paths) /\ Len(es2) = L + 1 /\ es2[L + 1] = n /\ L \in Nat
        /\ \A i \in 1..L : es2[i] = es[i]
    BY <1>2, AppendProperties
  <1>8. archive' \in ArchiveTypes /\ archive'.entries = es2 /\ archive'.ok = FALSE
    <2> HIDE DEF es2
    <2>1. archive' = [archive EXCEPT !.entries = es2]
      BY <1>1 DEF es2
    <2> QED
      BY <1>2, <1>7, <2>1 DEF ArchiveTypes
  <1> HIDE DEF L, es, es2
  <1>9. Entered = {es[i] : i \in 1..L} /\ DOMAIN es = 1..L /\ es = archive.entries
    BY <1>2 DEF L, es
  <1>10. DOMAIN es2 = 1..L + 1 /\ \A i \in 1..L + 1 : i = L + 1 \/ i \in 1..L
    BY <1>7
  <1>11. Entered' = Entered \cup {n}
    <2>1. Entered' = {es2[i] : i \in 1..L + 1}
      BY <1>8, <1>10 DEF Entered
    <2>2. \A i \in 1..L : i \in 1..L + 1
      BY <1>7
    <2>3. L + 1 \in 1..L + 1
      BY <1>7
    <2> QED
      BY <1>7, <1>9, <1>10, <2>1, <2>2, <2>3
  <1>12. ArchiveHolds'
    <2>1. \A i, j \in 1..L : es[i] = es[j] => i = j
      BY <1>9 DEF CliInv, ArchiveHolds
    <2>2. \A i \in 1..L : es[i] # n
      BY <1>6, <1>9
    <2>3. ASSUME NEW i \in 1..L + 1, NEW j \in 1..L + 1, es2[i] = es2[j] PROVE i = j
      BY <1>7, <1>10, <2>1, <2>2, <2>3
    <2> QED
      BY <1>8, <1>10, <2>3 DEF ArchiveHolds
  <1>13. \A x : Reached(x)' <=> Reached(x) \/ Tree[x] = n
    BY <1>1, <1>11 DEF Reached
  <1>14. n # Top /\ Top \notin Entered
    BY <1>2, TopIsNoPath
  <1>15. \A x \in Paths : Tree[x] = n => ~Reached(x)
    BY <1>6, <1>14 DEF Reached
  <1> HIDE DEF m
  <1>16. \A j \in 1..m : pending'[j] \subseteq pending[j] \ {n} /\ j \in 1..m + 1
    <2>1. ASSUME NEW j \in 1..m, j # m PROVE n \notin pending[j]
      <3>1. m \in 1..m
        BY <1>5
      <3> QED
        BY <1>2, <1>5, <2>1, <3>1 DEF Walking, m
    <2>2. \A j \in 1..m : j # m + 1 /\ j \in 1..m + 1
      BY <1>5
    <2> QED
      BY <1>5, <2>1, <2>2
  <1>17. pending'[m + 1] = below /\ m + 1 \in 1..m + 1 /\ \A j \in 1..m + 1 : j = m + 1 \/ j \in 1..m
    BY <1>5
  <1>18. \A j \in 1..m : \A x \in pending[j] : x \in Paths /\ Reached(x) /\ x \notin Entered
    <2>1. \A j \in 1..m : pending[j] \in SUBSET Paths
      BY <1>1, <1>3, Levels DEF CliInv, m
    <2> QED
      BY <1>2, <2>1 DEF Walking, m
  <1>19. \A x \in Entered' : x \notin cmd'.excludes /\ Reached(x)'
    BY <1>1, <1>2, <1>6, <1>11, <1>13 DEF Walking
  <1>20. ASSUME NEW x \in Paths, Reached(x)'
         PROVE  x \in Entered' \cup cmd'.excludes \/ \E j \in 1..m + 1 : x \in pending'[j]
    <2>1. CASE x \in Entered' \cup cmd'.excludes
      BY <2>1
    <2>2. CASE x \notin Entered' \cup cmd'.excludes /\ Tree[x] = n
      BY <1>4, <1>17, <2>2
    <2>3. CASE x \notin Entered' \cup cmd'.excludes /\ Tree[x] # n
      <3>1. Reached(x) /\ x \notin Entered \cup cmd.excludes /\ x # n
        BY <1>1, <1>11, <1>13, <1>20, <2>3
      <3>2. PICK j \in 1..m : x \in pending[j]
        BY <1>2, <3>1 DEF Walking, m
      <3>3. x \in pending'[j]
        <4>1. j \in 1..m + 1 /\ j # m + 1
          BY <1>5, <3>2
        <4> QED
          BY <1>5, <3>1, <3>2, <4>1 DEF X
      <3>4. j \in 1..m + 1
        BY <1>16
      <3> QED
        BY <3>3, <3>4
    <2> QED
      BY <2>1, <2>2, <2>3
  <1>21. ASSUME NEW j \in 1..m + 1, NEW x \in pending'[j]
         PROVE  Reached(x)' /\ x \notin Entered'
    <2>1. CASE j \in 1..m
      BY <1>11, <1>13, <1>16, <1>18, <1>21, <2>1
    <2>2. CASE j = m + 1
      <3>1. x \in Paths /\ Tree[x] = n
        BY <1>3, <1>4, <1>17, <1>21, <2>2
      <3>2. x \notin Entered /\ x # n
        BY <1>2, <1>6, <1>15, <3>1 DEF Walking
      <3> QED
        BY <1>11, <1>13, <3>1, <3>2
    <2> QED
      BY <1>17, <2>1, <2>2
  <1>22. ASSUME NEW j \in 1..m + 1, NEW k \in 1..m + 1, j # k
         PROVE  pending'[j] \cap pending'[k] = {}
    <2>1. \A i \in 1..m : pending'[i] \cap below = {}
      BY <1>3, <1>4, <1>15, <1>16, <1>18
    <2>2. CASE j \in 1..m /\ k \in 1..m
      BY <1>2, <1>16, <1>22, <2>2 DEF Walking, m
    <2>3. CASE j = m + 1 \/ k = m + 1
      BY <1>17, <1>22, <2>1, <2>3
    <2> QED
      BY <1>17, <2>2, <2>3
  <1>23. Walking'
    BY <1>5, <1>19, <1>20, <1>21, <1>22 DEF Walking
  <1> QED
    BY <1>1, <1>5, <1>8, <1>12, <1>23, ArchiveSuffices

\* An entry that cannot be read or written.
LEMMA WalkFailsKeepsCliInv ==
  ASSUME CliInv, NEW n \in Paths, WalkFails(n)
  PROVE  CliInv'
  <1>1. /\ exit = "running" /\ step = "walk" /\ step' = "abort"
        /\ UNCHANGED <<archive, pending>>
    BY DEF WalkFails, At, Goto, world, files, locals
  <1>2. /\ archive' \in ArchiveTypes /\ pending' \in Seq(SUBSET Paths)
        /\ archive'.ok = FALSE
    BY <1>1 DEF CliInv, TypeOK, ArchiveTypes, Paths, WalkFollows, InStep
  <1> QED
    BY <1>1, <1>2, ArchiveStays, ArchiveSuffices DEF CliInv

\* What no pattern keeps out, as EndArchive has it.
Kept == {x \in Paths : \A e \in cmd.excludes : ~Below(e, x)}

\* With nothing left to visit, what was entered is what no pattern keeps out:
\* so it is in Top, and where it is so of a directory, it is of what is in it.
LEMMA WalkedIsKept ==
  ASSUME TypeOK, Walking, Len(pending) = 0, cmd \in Commands
  PROVE  Entered = Kept
  <1> DEFINE ex == cmd.excludes
             S == {x \in Paths : x \in Entered <=> x \in Kept}
  <1>1. Entered \subseteq Paths
    BY WalkingIs
  <1>2. \A j \in 1..0 : FALSE
    OBVIOUS
  <1>3. \A x \in Paths : x \in Entered <=> Reached(x) /\ x \notin ex
    BY <1>1, <1>2 DEF Walking
  <1>4. ex \subseteq Paths \cup {Top}
    BY CommandTypes DEF Paths
  <1>5. \A x \in Paths : x \in Kept <=> x \notin ex /\ \A e \in ex : ~Below(e, Tree[x])
    <2>1. \A x \in Paths : x \in Kept <=> \A e \in ex : ~Below(e, x)
      BY DEF Kept
    <2> HIDE DEF ex
    <2> QED
      BY <1>4, <2>1, BelowIs
  <1>6. ASSUME NEW x \in Paths, Tree[x] = Top PROVE x \in S
    <2>1. x \in Entered <=> Top \notin ex /\ x \notin ex
      BY <1>1, <1>3, <1>6, TopIsNoPath DEF Reached
    <2>2. x \in Kept <=> Top \notin ex /\ x \notin ex
      <3> HIDE DEF ex
      <3> QED
        BY <1>4, <1>5, <1>6, BelowIs
    <2> QED
      BY <2>1, <2>2
  <1>7. ASSUME NEW x \in Paths, Tree[x] \in S PROVE x \in S
    <2>1. Tree[x] # Top /\ Tree[x] \in Paths /\ (Tree[x] \in Entered <=> Tree[x] \in Kept)
      BY <1>7, TopIsNoPath
    <2>2. x \in Entered <=> Tree[x] \in Entered /\ x \notin ex
      BY <1>3, <2>1 DEF Reached
    <2>3. x \in Kept <=> Tree[x] \in Kept /\ x \notin ex
      BY <1>5, <2>1 DEF Kept
    <2> QED
      BY <2>1, <2>2, <2>3
  <1>8. S = Paths
    <2>1. S \in SUBSET Paths
      OBVIOUS
    <2> HIDE DEF S
    <2> QED
      BY <1>6, <1>7, <2>1, TreeIs
  <1> QED
    BY <1>1, <1>8 DEF Kept

LEMMA EndArchiveKeepsCliInv ==
  ASSUME CliInv, EndArchive
  PROVE  CliInv'
  <1> DEFINE fits == Len(archive.entries) + 1 <= cmd.room
             code == IF step = "abort" \/ (~fits /\ archive.codec \in {"none", "zstd"})
                     THEN "failed" ELSE "ok"
             good == code = "ok"
  <1>1. /\ exit = "running"
        /\ step = "abort" \/ (step = "walk" /\ pending = <<>>)
        /\ archive' = [archive EXCEPT !.whole = fits, !.ok = good, !.kept = Kept]
        /\ pending' = pending /\ exit' = code
    BY DEF EndArchive, At, Quit, locals, Kept, Paths
  <1>2. fits \in BOOLEAN /\ good \in BOOLEAN /\ Kept \subseteq Paths
    BY DEF Kept
  <1>3. good => step # "abort"
    OBVIOUS
  <1>4. exit' # "running"
    BY <1>1
  <1> HIDE DEF fits, good
  <1>5. archive \in ArchiveTypes /\ pending' \in Seq(SUBSET Paths)
    BY <1>1 DEF CliInv, TypeOK, ArchiveTypes, Paths
  <1>6. /\ archive' \in ArchiveTypes /\ archive'.entries = archive.entries
        /\ archive'.kept = Kept
    BY <1>1, <1>2, <1>5 DEF ArchiveTypes
  <1>7. archive'.ok <=> good
    BY <1>1, <1>5 DEF ArchiveTypes
  <1>8. good => Entered = Kept
    <2> SUFFICES ASSUME good PROVE Entered = Kept
      OBVIOUS
    <2>1. step = "walk" /\ Len(pending) = 0
      BY <1>1, <1>3
    <2>2. Walking
      BY <1>1, <2>1, WalkingIs DEF CliInv, InStep
    <2>3. cmd \in Commands
      BY <1>1 DEF CliInv, TypeOK
    <2> QED
      BY <2>1, <2>2, <2>3, WalkedIsKept DEF CliInv
  <1>9. ArchiveHolds'
    <2>1. Entered' = Entered
      BY <1>6 DEF Entered
    <2> QED
      BY <1>6, <1>7, <1>8, <2>1 DEF CliInv, ArchiveHolds
  <1> QED
    BY <1>4, <1>5, <1>6, <1>9, ArchiveSuffices
-----------------------------------------------------------------------------
(* restore *)

LEMMA RestoreSuffices ==
  ASSUME CliInv, NEW m, Restore \/ Unpack(m) \/ UnpackFails(m) \/ EndRestore,
         target' \in SUBSET Paths, IsFiniteSet(target'),
         exit' = "running" => UnpackFollows',
         exit' = "ok" => RestoredIsArchived'
  PROVE  CliInv'
  <1>1. exit = "running" /\ step \in {"restore", "unpack"}
    BY DEF Restore, Unpack, UnpackFails, Unpacking, EndRestore, Begin, At
  <1>2. cmd.op = "restore" /\ cmd \in Commands
    BY <1>1, StepsTell DEF CliInv
  <1>3. /\ UNCHANGED <<media, archive, locals, cmd, ran>>
        /\ exit' \in {"running", "ok", "failed"}
        /\ exit' = "running" => step' = "unpack"
    BY <1>1 DEF Restore, Unpack, UnpackFails, Unpacking, EndRestore, Begin, At, Goto, Quit, world,
       files
  <1>4. exit' = "running" => step' \in StepsOf(cmd'.op)
    BY <1>2, <1>3 DEF StepsOf
  <1>5. TypeOK'
    BY <1>1, <1>2, <1>3, <1>4 DEF CliInv, TypeOK, media, locals, copier, Paths
  <1>6. ArchiveHolds'
    BY <1>3, ArchiveStays DEF CliInv
  <1>7. CASE exit' = "running"
    <2>1. step' \notin Ops
      BY <1>3, <1>7 DEF Ops
    <2> QED
      BY <1>3, <1>5, <1>6, <1>7, <2>1, BegunIsNotEmpty, OnlyRestore, NoClaimYet DEF CliInv
  <1>8. CASE exit' # "running"
    <2>1. Claims'
      BY <1>2, <1>3, <1>8 DEF Claims, VerifiedFlashMatches, VerdictIsRight, BackupOkIsExact,
         RestoredIsArchived, SystemDiskIsHidden, Ended
    <2> QED
      BY <1>5, <1>6, <1>8, <2>1, NothingToFollow DEF CliInv
  <1> QED
    BY <1>7, <1>8

LEMMA RestoreBeginsCliInv ==
  ASSUME CliInv, Restore
  PROVE  CliInv'
  <1>1. /\ target' = {} /\ exit' = "running" /\ step' = "unpack"
        /\ archive' = archive
    BY DEF Restore, Goto, Begin, At
  <1>2. IsFiniteSet(target') /\ Cardinality(target') = 0 /\ target' \in SUBSET Paths
    BY <1>1, FS_EmptySet
  <1>3. Len(archive'.entries) \in Nat
    BY <1>1 DEF CliInv, TypeOK
  <1>4. {archive'.entries[i] : i \in 1..0} = {}
    OBVIOUS
  <1>5. UnpackFollows'
    BY <1>1, <1>2, <1>3, <1>4 DEF UnpackFollows
  <1> QED
    BY <1>1, <1>2, <1>5, RestoreSuffices

LEMMA UnpackKeepsCliInv ==
  ASSUME CliInv, NEW m, Unpack(m)
  PROVE  CliInv'
  <1> DEFINE n == Cardinality(target)
             es == archive.entries
             new == es[n + 1]
  <1>1. /\ exit = "running" /\ step = "unpack" /\ exit' = "running" /\ archive' = archive
        /\ n < Len(es) /\ target' = target \cup {new}
    <2>1. m = n + 1 /\ m <= Len(es)
      BY DEF Unpack, Unpacking
    <2>2. n \in Nat /\ Len(es) \in Nat
      BY FS_CardinalityType DEF CliInv, TypeOK
    <2>3. n < Len(es)
      <3> HIDE DEF n, es
      <3> QED
        BY <2>1, <2>2
    <2> QED
      BY <2>1, <2>3 DEF Unpack, Unpacking, At, Goto
  <1>2. es \in Seq(Paths) /\ Len(es) \in Nat /\ DOMAIN es = 1..Len(es)
        /\ target \in SUBSET Paths /\ IsFiniteSet(target)
    BY DEF CliInv, TypeOK, Paths
  <1>3. n \in Nat
    BY <1>2, FS_CardinalityType
  <1>4. target = {es[i] : i \in 1..n}
    BY <1>1 DEF CliInv, UnpackFollows, InStep
  <1>5. \A i, j \in 1..Len(es) : es[i] = es[j] => i = j
    BY <1>2 DEF CliInv, ArchiveHolds
  <1> HIDE DEF n, es
  <1>6. /\ n + 1 \in 1..Len(es) /\ n + 1 \in 1..n + 1 /\ n + 1 <= Len(es)
        /\ \A i \in 1..n : i \in 1..Len(es) /\ i # n + 1 /\ i \in 1..n + 1
        /\ \A i \in 1..n + 1 : i \in 1..n \/ i = n + 1
    BY <1>1, <1>2, <1>3
  <1>7. new \notin target /\ new \in Paths
    BY <1>2, <1>4, <1>5, <1>6
  <1>8. target' = {es[i] : i \in 1..n + 1}
    BY <1>1, <1>4, <1>6
  <1> HIDE DEF new
  <1>9. IsFiniteSet(target') /\ Cardinality(target') = n + 1
    BY <1>1, <1>2, <1>7, FS_AddElement DEF n
  <1>10. target' \in SUBSET Paths
    BY <1>1, <1>2, <1>7
  <1>11. UnpackFollows'
    BY <1>1, <1>6, <1>8, <1>9 DEF UnpackFollows, es
  <1> QED
    BY <1>1, <1>9, <1>10, <1>11, RestoreSuffices

\* An entry that cannot be read or put back ends the restore.
LEMMA UnpackFailsKeepsCliInv ==
  ASSUME CliInv, NEW m, UnpackFails(m)
  PROVE  CliInv'
  <1>1. exit' = "failed" /\ target' = target
    BY DEF UnpackFails, Quit, world, files
  <1>2. target' \in SUBSET Paths /\ IsFiniteSet(target')
    BY <1>1 DEF CliInv, TypeOK, Paths
  <1> QED
    BY <1>1, <1>2, RestoreSuffices

LEMMA EndRestoreKeepsCliInv ==
  ASSUME CliInv, EndRestore
  PROVE  CliInv'
  <1>1. /\ exit = "running" /\ step = "unpack" /\ archive' = archive /\ target' = target
        /\ ~Unpackable \/ Cardinality(target) = Len(archive.entries)
        /\ exit' \in {"ok", "failed"} /\ (exit' = "ok" => Unpackable)
    BY DEF EndRestore, At, Quit, world, files
  <1>2. target' \in SUBSET Paths /\ IsFiniteSet(target')
    BY <1>1 DEF CliInv, TypeOK, Paths
  <1>3. ASSUME exit' = "ok", archive.ok PROVE target = archive.kept
    <2>1. target = {archive.entries[i] : i \in 1..Len(archive.entries)}
      BY <1>1, <1>3 DEF CliInv, UnpackFollows, InStep
    <2>2. target = Entered
      BY <2>1, WalkingIs DEF CliInv
    <2> QED
      BY <1>3, <2>2 DEF CliInv, ArchiveHolds
  <1>4. exit' = "ok" => RestoredIsArchived'
    BY <1>1, <1>3 DEF RestoredIsArchived
  <1> QED
    BY <1>1, <1>2, <1>4, RestoreSuffices
-----------------------------------------------------------------------------
(* Every step, and what follows. *)

LEMMA FlashKeepsCliInv ==
  ASSUME CliInv,
         \/ Flash \/ (\E n \in 1..Buf : FlashRead(n) \/ HashDevice(n))
         \/ FlashWrite \/ FlashReadFails \/ FlashEnd \/ HashDeviceFails \/ HashVerdict
  PROVE  CliInv'
  BY FlashTurnsKeepCliInv, FlashReadKeepsCliInv, HashDeviceKeepsCliInv,
     FlashWriteKeepsCliInv, HashVerdictKeepsCliInv

LEMMA BackupKeepsCliInv ==
  ASSUME CliInv,
         \/ Backup \/ (\E n \in 1..Buf : BackupRead(n))
         \/ (\E k \in 0..Len(device) : BackupWrite(k))
         \/ BackupFails \/ BackupEnd \/ DropWriter \/ WriteManifest
  PROVE  CliInv'
  BY BackupBeginsCliInv, BackupReadKeepsCliInv, BackupWriteKeepsCliInv,
     BackupFailsKeepsCliInv, BackupEndKeepsCliInv, DropWriterKeepsCliInv,
     WriteManifestKeepsCliInv

LEMMA ArchiveKeepsCliInv ==
  ASSUME CliInv,
         \/ Archive \/ WalkUp \/ EndArchive
         \/ (\E n \in DOMAIN Tree : WalkExcluded(n) \/ WalkEntry(n) \/ WalkFails(n))
  PROVE  CliInv'
  BY ArchiveBeginsCliInv, WalkOnKeepsCliInv, EndArchiveKeepsCliInv,
     WalkEntryKeepsCliInv, WalkFailsKeepsCliInv DEF Paths

LEMMA RestoreKeepsCliInv ==
  ASSUME CliInv,
         \/ Restore \/ EndRestore
         \/ \E m \in DOMAIN archive.entries : Unpack(m) \/ UnpackFails(m)
  PROVE  CliInv'
  BY RestoreBeginsCliInv, UnpackKeepsCliInv, UnpackFailsKeepsCliInv, EndRestoreKeepsCliInv

LEMMA VerifyKeepsCliInv ==
  ASSUME CliInv,
         \/ Verify \/ (\E n \in 0..Buf : VerifySource(n) \/ VerifyDevice(n))
         \/ VerifyFails \/ Compare
  PROVE  CliInv'
  <1>1. CASE Verify
    <2>1. 0 \in 0..Buf
      BY Bounds
    <2> QED
      BY <1>1, <2>1, FillsKeepCliInv
  <1> QED
    BY <1>1, FillsKeepCliInv, VerifyFailsKeepsCliInv, CompareKeepsCliInv

LEMMA NextCliInv ==
  ASSUME CliInv, [Next]_vars
  PROVE  CliInv'
  <1>1. CASE \E c \in Commands : Start(c)
    BY <1>1, StartKeepsCliInv
  <1>2. CASE Command
    <2>1. CASE Usage \/ OpenFails \/ List
      BY <2>1, UsageKeepsCliInv, ListKeepsCliInv
    <2> QED
      BY <1>2, <2>1, FlashKeepsCliInv, BackupKeepsCliInv, ArchiveKeepsCliInv,
         RestoreKeepsCliInv, VerifyKeepsCliInv DEF Command
  <1>3. CASE Kill
    BY <1>3, KillKeepsCliInv
  <1>4. CASE UNCHANGED vars
    <2>1. UNCHANGED <<device, image, manifest, archive, target, cmd, step, exit, ran,
                      pos, hashed, chunk, other, mismatch, listing, pending>>
      BY <1>4 DEF vars, world, media, files, locals, copier
    <2>2. TypeOK' /\ BeginsEmpty' /\ ArchiveHolds' /\ UnpackFollows'
      BY <2>1 DEF CliInv, TypeOK, BeginsEmpty, ArchiveHolds, Entered, UnpackFollows, InStep
    <2>3. FlashFollows' /\ BackupFollows'
      BY <2>1 DEF CliInv, FlashFollows, BackupFollows, InStep, Decoded, FirstMember, EndsWell,
         Chosen, Begun, Bytes
    <2>4. VerifyFollows' /\ WalkFollows'
      BY <2>1 DEF CliInv, VerifyFollows, FillOf, Against, Bytes, Begun, WalkFollows, Entered,
         Reached, InStep
    <2>6. VerifiedFlashMatches' /\ BackupOkIsExact' /\ RestoredIsArchived' /\ SystemDiskIsHidden'
      BY <2>1 DEF CliInv, Claims, VerifiedFlashMatches, BackupOkIsExact,
         RestoredIsArchived, SystemDiskIsHidden, Ended, Recognised, FirstMember
    <2>7. VerdictIsRight'
      BY <2>1 DEF CliInv, Claims, VerdictIsRight, Ended, Against, Bytes, Begun
    <2>5. Claims'
      BY <2>6, <2>7 DEF Claims
    <2> QED
      BY <2>2, <2>3, <2>4, <2>5 DEF CliInv
  <1> QED
    BY <1>1, <1>2, <1>3, <1>4 DEF Next

\* Every run of commands, killed or not, keeps to what each command follows.
THEOREM CliInvariant == Spec => []CliInv
  <1>1. Init => CliInv
    BY InitCliInv
  <1>2. CliInv /\ [Next]_vars => CliInv'
    BY NextCliInv
  <1> QED
    BY <1>1, <1>2, PTL DEF Spec

\* Disk, image and archive hold what these can hold, and a command that is
\* under way is at a step of its own: main runs one to its end.
THEOREM CliTypes == Spec => []TypeOK
  <1>1. CliInv => TypeOK
    BY DEF CliInv
  <1> QED
    BY <1>1, CliInvariant, PTL

\* "verify ok" after a full verify in run_flash: what decodes of the image, of
\* most codecs its first member, is on the disk, and it was not cut short.
THEOREM VerifiedFlashesMatch == Spec => []VerifiedFlashMatches
  <1>1. CliInv => VerifiedFlashMatches
    BY DEF CliInv, Claims
  <1> QED
    BY <1>1, CliInvariant, PTL

\* run_verify passes only for a disk that is the file as it is stored, fails
\* with the first offset at which the two differ, whatever the size of its
\* buffers, or without one where a read failed.
THEOREM VerdictsAreRight == Spec => []VerdictIsRight
  <1>1. CliInv => VerdictIsRight
    BY DEF CliInv, Claims
  <1> QED
    BY <1>1, CliInvariant, PTL

\* "backup ok" in run_backup: the device was read to its end, the manifest has
\* its hash, and the image restores to it, but for an encoder that kept quiet.
THEOREM BackupsAreExact == Spec => []BackupOkIsExact
  <1>1. CliInv => BackupOkIsExact
    BY DEF CliInv, Claims
  <1> QED
    BY <1>1, CliInvariant, PTL

\* run_archive and run_restore: from an archive that was ok, a restore that is
\* ok brings back all that no pattern excludes, for every tree.
THEOREM RestoresAreComplete == Spec => []RestoredIsArchived
  <1>1. CliInv => RestoredIsArchived
    BY DEF CliInv, Claims
  <1> QED
    BY <1>1, CliInvariant, PTL

\* run_list, enumerate and is_system_disk: for every layout of devices, which
\* system disks are hidden and which are offered like any other.
THEOREM SystemDisksAreHidden == Spec => []SystemDiskIsHidden
  <1>1. CliInv => SystemDiskIsHidden
    BY DEF CliInv, Claims
  <1> QED
    BY <1>1, CliInvariant, PTL
=============================================================================
