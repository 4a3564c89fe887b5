--------------------------- MODULE ArchiveProofs ---------------------------
(***************************************************************************)
(* do_archive for every tree, selection and destination: what the walk     *)
(* leaves out is accounted for, a healthy archive is exact, the selection  *)
(* is honoured, and do_archive is a worker in the sense of Session.        *)
(***************************************************************************)
EXTENDS Archive, SessionProofs, FiniteSetTheorems, WellFoundedInduction

-----------------------------------------------------------------------------
(* The jobs. *)

JobFacts ==
  /\ MaxIn \in Nat /\ MaxOut \in Nat /\ None \notin Nat
  /\ Length \in Nat /\ Length >= 1
  /\ params.tree[1].kind = "dir"
  /\ \A i \in 1..Length :
       /\ params.tree[i].kind \in {"dir", "file", "link"}
       /\ params.tree[i].size \in 0..MaxIn
       /\ params.tree[i].system \in BOOLEAN
       /\ params.tree[i].last \in i..Length
       /\ params.tree[i].last > i => params.tree[i].kind = "dir"
       /\ \A j \in i .. params.tree[i].last : params.tree[j].last <= params.tree[i].last

LEMMA JobTypes ==
  ASSUME params \in Jobs
  PROVE  JobFacts
  <1>1. MaxIn \in Nat /\ MaxOut \in Nat /\ None \notin Nat
    BY SessionAssumption
  <1>2. params \in Params /\ IsTree(params.tree)
    BY ArchiveAssumption
  <1>3. params.tree \in Seq(Entries)
    BY <1>2 DEF Params
  <1>4. Length \in Nat /\ \A i \in 1..Length : params.tree[i] \in Entries
    BY <1>3 DEF Length
  <1>5. \A i \in 1..Length : /\ params.tree[i].kind \in {"dir", "file", "link"}
                             /\ params.tree[i].size \in 0..MaxIn
                             /\ params.tree[i].system \in BOOLEAN
    BY <1>4 DEF Entries
  <1>6. Length >= 1 /\ params.tree[1].kind = "dir"
    BY <1>2, <1>4 DEF IsTree, Length
  <1>7. \A i \in 1..Length :
          /\ params.tree[i].last \in i..Length
          /\ params.tree[i].last > i => params.tree[i].kind = "dir"
          /\ \A j \in i .. params.tree[i].last : params.tree[j].last <= params.tree[i].last
    BY <1>2 DEF IsTree, Length
  <1> QED
    BY <1>1, <1>4, <1>5, <1>6, <1>7 DEF JobFacts

\* One more entry in the tar.
LEMMA OneMoreInTar ==
  ASSUME ATypes, NEW n \in 0..MaxIn, NEW m \in 0..MaxIn, Appended(n, m)
  PROVE  /\ tar' \in Seq([entry : Nat, header : 0..MaxIn, data : 0..MaxIn])
         /\ Len(tar') = Len(tar) + 1
         /\ tar'[Len(tar) + 1] = [entry |-> pos, header |-> n, data |-> m]
         /\ \A k \in 1..Len(tar) : tar'[k] = tar[k]
         /\ InTar' = InTar \cup {pos}
  <1>1. [entry |-> pos, header |-> n, data |-> m] \in [entry : Nat, header : 0..MaxIn, data : 0..MaxIn]
    BY JobTypes DEF ATypes, JobFacts
  <1>2. /\ tar' \in Seq([entry : Nat, header : 0..MaxIn, data : 0..MaxIn])
        /\ Len(tar') = Len(tar) + 1
        /\ tar'[Len(tar) + 1] = [entry |-> pos, header |-> n, data |-> m]
        /\ \A k \in 1..Len(tar) : tar'[k] = tar[k]
    BY <1>1 DEF ATypes, Appended
  <1>3. Len(tar) \in Nat
    BY DEF ATypes
  <1>4. tar'[Len(tar) + 1].entry = pos
    BY <1>2
  <1>5. InTar' = { tar'[k].entry : k \in 1 .. Len(tar) + 1 }
    BY <1>2 DEF InTar
  <1>6. ASSUME NEW e \in InTar PROVE e \in InTar'
    <2>1. PICK k \in 1..Len(tar) : e = tar[k].entry
      BY DEF InTar
    <2>2. tar'[k] = tar[k]
      BY <1>2
    <2>3. k \in 1 .. Len(tar) + 1
      BY <1>3
    <2> QED
      BY <1>5, <2>1, <2>2, <2>3
  <1>7. pos \in InTar'
    <2>1. Len(tar) + 1 \in 1 .. Len(tar) + 1
      BY <1>3
    <2> QED
      BY <1>4, <1>5, <2>1
  <1>8. ASSUME NEW e \in InTar' PROVE e \in InTar \/ e = pos
    <2>1. PICK k \in 1 .. Len(tar) + 1 : e = tar'[k].entry
      BY <1>5
    <2>2. CASE k = Len(tar) + 1
      BY <1>4, <2>1, <2>2
    <2>3. CASE k \in 1..Len(tar)
      BY <1>2, <2>1, <2>3 DEF InTar
    <2> QED
      BY <1>3, <2>2, <2>3
  <1> QED
    BY <1>2, <1>6, <1>7, <1>8

\* The UI thread does not touch what the worker knows.
LEMMA UISparesArchive ==
  ASSUME UI
  PROVE  UNCHANGED worker
  BY DEF UI, BeginPoll, RecvStarted, RecvTick, RecvFinished, RecvFailed, Join,
         RecvNothing, EndPoll, worker

LEMMA JobStays ==
  ASSUME [ANext]_avars
  PROVE  params' = params
  BY DEF ANext, AUI, avars, AWorker, Source, AnnounceMount, Mount, Measure, AnnounceSource, Open,
         PassHidden, SkipSystem, Stat, CallFails, AppendFails, SkipOrAbort, Skip, Abort,
         MaybeTick, AppendDir, ListDir, AppendLink, OpenFile, WriteHeader, CopyData, EndOfFile,
         Finish, DropWriter, DropWriterLoses, DropWriterPanics, Return, AExit, local, Goto

-----------------------------------------------------------------------------
(* What the walk leaves behind. *)

LEMMA InitAInv == AInit => AInv
  <1> SUFFICES ASSUME AInit PROVE AInv
    OBVIOUS
  <1> USE DEF AInit, InitSession
  <1>1. JobFacts
    BY JobTypes
  <1>2. ATypes
    BY <1>1 DEF ATypes, Steps, Outcomes, JobFacts
  <1>3. WalkReport
    BY DEF WalkReport, Before, Inside, After
  <1>4. LeftBehind
    BY DEF LeftBehind, Reached
  <1> QED
    BY <1>2, <1>3, <1>4 DEF AInv

\* What is left behind stays accounted for, and what is passed now is.
LEMMA LeftBehindGrows ==
  ASSUME AInv, params' = params, ~TailLost, Reached' \in Nat,
         InTar \subseteq InTar', told \subseteq told', hidden \subseteq hidden',
         \A e \in Reached + 1 .. Reached' :
           e >= 2 => e \in InTar' \/ e \in Pruned \/ \E i \in told' \cup hidden' : e \in Below(i)
  PROVE  LeftBehind'
  <1>1. Pruned' = Pruned /\ \A i : Below(i)' = Below(i)
    BY DEF Pruned, Skipped, Kept, IsIncluded, ExplicitlyExcluded, Marks, Above, Sel, Below
  <1>2. Reached \in Nat
    BY JobTypes DEF AInv, ATypes, Reached, JobFacts
  <1>3. SUFFICES ASSUME NEW e \in 2..Reached', e \notin InTar'
        PROVE  e \in Pruned \/ \E i \in told' \cup hidden' : e \in Below(i)
    BY <1>1 DEF LeftBehind
  <1>4. CASE e <= Reached
    <2>1. e \in (2..Reached) \ InTar
      BY <1>2, <1>3, <1>4
    <2> QED
      BY <2>1 DEF AInv, LeftBehind
  <1>5. CASE e > Reached
    BY <1>2, <1>3, <1>5
  <1> QED
    BY <1>2, <1>4, <1>5

LEMMA BeforeKeepsAInv ==
  ASSUME AInv, Source \/ AnnounceMount \/ Mount \/ Measure \/ AnnounceSource \/ Open
  PROVE  AInv'
  <1>1. /\ UNCHANGED <<params, pos, header, data, tar, told, hidden, thread, outcome,
                       bytes_in, bytes_out>>
        /\ thread = "running" /\ step \in Before
        /\ \/ step' \in Before \cup {"walk"} /\ ok' = ok
           \/ step' = "return" /\ ok' = FALSE
    BY DEF Source, AnnounceMount, Mount, Measure, AnnounceSource, Open, At, Goto, Silent,
           Unwalked, Fail, vars, worker, SendTick, SendStarted, Before
  <1>2. JobFacts
    BY JobTypes DEF AInv, ATypes
  <1>3. ATypes'
    BY <1>1 DEF AInv, ATypes, Before, Steps, Length
  <1>4. WalkReport'
    BY <1>1, <1>2 DEF AInv, WalkReport, Before, Inside, After, Length, Here, Outcomes
  <1>5. LeftBehind'
    <2>1. Reached' = Reached /\ Reached \in Nat
      BY <1>1, <1>2 DEF Reached, Before, AInv, ATypes, JobFacts
    <2>2. InTar' = InTar /\ ~TailLost
      BY <1>1 DEF InTar, TailLost, Before
    <2> QED
      BY <1>1, <2>1, <2>2, LeftBehindGrows
  <1> QED
    BY <1>3, <1>4, <1>5 DEF AInv

\* The walk goes on behind what is below the entry it is at.
LEMMA PassingKeepsAInv ==
  ASSUME AInv, step \in Inside \cup {"walk"}, pos <= Length,
         Leave(Here.last + 1), Goto("walk"), ok' = ok, tar' = tar, hidden' = hidden,
         UNCHANGED worker,
         \/ told' = told \cup {pos}
         \/ told' = told /\ (pos \in hidden \/ Skipped(pos))
  PROVE  AInv'
  <1>1. JobFacts /\ pos \in 1..Length
    BY JobTypes DEF AInv, ATypes, JobFacts
  <1>2. Here.last \in pos..Length /\ pos \in Below(pos) /\ Below(pos) = pos .. Here.last
    BY <1>1 DEF JobFacts, Here, Below
  <1>3. /\ params' = params /\ step' = "walk" /\ header' = 0 /\ data' = 0
        /\ pos' = Here.last + 1
        /\ UNCHANGED <<thread, outcome, bytes_in, bytes_out>>
    BY DEF Leave, Goto, worker
  <1>4. told' \subseteq 1..Length /\ told \subseteq told'
    BY <1>1 DEF AInv, ATypes
  <1>5. ATypes'
    <2>1. Length' = Length /\ pos' \in 1 .. Length + 1
      BY <1>1, <1>2, <1>3 DEF Length, JobFacts
    <2>2. header' \in 0..MaxIn /\ data' \in 0..MaxIn /\ data' <= bytes_in'
      BY <1>1, <1>3 DEF AInv, ATypes, JobFacts
    <2> QED
      BY <1>3, <1>4, <2>1, <2>2 DEF AInv, ATypes, Steps
  <1>6. step # "done" /\ step \notin Before /\ step \notin After
    BY DEF Inside, Before, After
  <1>7. WalkReport'
    BY <1>1, <1>2, <1>3, <1>6 DEF AInv, WalkReport, Before, Inside, After, Length, JobFacts
  <1>8. LeftBehind'
    <2>1. Reached' = Here.last /\ Reached >= pos - 1 /\ Reached \in Nat
      BY <1>1, <1>2, <1>3 DEF Reached, JobFacts
    <2>2. InTar' = InTar
      BY DEF InTar
    <2>3. ASSUME NEW e \in Reached + 1 .. Reached'
          PROVE  e \in Pruned \/ \E i \in told' \cup hidden' : e \in Below(i)
      <3>1. e \in Below(pos) /\ e \in pos..Length
        BY <1>1, <1>2, <2>1 DEF JobFacts
      <3>2. CASE pos \in told' \cup hidden'
        BY <3>1, <3>2
      <3>3. CASE Skipped(pos)
        BY <1>1, <3>1, <3>3 DEF Pruned, Length, JobFacts
      <3> QED
        BY <3>2, <3>3
    <2>4. Reached' \in Nat /\ ~TailLost
      BY <1>1, <1>2, <2>1 DEF JobFacts, TailLost, Inside
    <2> QED
      BY <1>3, <1>4, <2>2, <2>3, <2>4, LeftBehindGrows
  <1> QED
    BY <1>5, <1>7, <1>8 DEF AInv

LEMMA SkipKeepsAInv ==
  ASSUME AInv, \/ PassHidden \/ SkipSystem \/ (Stat /\ ~Kept(pos))
               \/ \E e \in Errors : CallFails(e) /\ Skip
  PROVE  AInv'
  <1>1. CASE PassHidden
    BY <1>1, PassingKeepsAInv DEF PassHidden, Walking, At, Silent, vars, Length
  <1>2. CASE Stat /\ ~Kept(pos)
    <2>1. Skipped(pos)
      BY <1>2 DEF Skipped
    <2> QED
      BY <1>2, <2>1, PassingKeepsAInv DEF Stat, Walking, At, Silent, vars, Length
  <1>3. ASSUME Skip, step \in Inside \cup {"walk"}, pos <= Length PROVE AInv'
    BY <1>3, PassingKeepsAInv DEF Skip, SendTick
  <1>4. CASE SkipSystem
    BY <1>3, <1>4 DEF SkipSystem, Walking, At, Length
  <1>5. CASE \E e \in Errors : CallFails(e) /\ Skip
    <2>1. step \in Inside \cup {"walk"} /\ pos <= Length /\ Skip
      BY <1>5 DEF CallFails, Walking, At, Inside, Length, AInv, WalkReport
    <2> QED
      BY <1>3, <2>1
  <1> QED
    BY <1>1, <1>2, <1>4, <1>5

\* A step inside an entry, with nothing new in the tar.
LEMMA InsideKeepsAInv ==
  ASSUME AInv, (Stat /\ Kept(pos)) \/ MaybeTick \/ OpenFile \/ WriteHeader \/ CopyData
  PROVE  AInv'
  <1>1. JobFacts
    BY JobTypes DEF AInv, ATypes
  <1>2. /\ UNCHANGED <<params, pos, tar, told, hidden, thread, outcome, ok>>
        /\ pos <= Length /\ thread = "running"
        /\ step \in Inside \cup {"walk"} /\ step # "list"
        /\ step' \in Inside /\ step' # "list"
        /\ step' \in {"header", "data"} => Here.kind = "file"
    BY DEF Stat, MaybeTick, OpenFile, WriteHeader, CopyData, At, Goto, Silent, Unwalked,
           Walking, Inside, vars, worker, SendTick, Move1, AInv, WalkReport, Length
  <1>3. /\ header' \in 0..MaxIn
        /\ bytes_in' \in Nat /\ bytes_out' \in Nat
        /\ data' \in 0..MaxIn /\ data' <= bytes_in'
        /\ step' # "data" => data' = 0
    <2>1. CASE Stat /\ Kept(pos)
      BY <2>1 DEF Stat, Walking, At, Goto, Silent, vars, worker, AInv, ATypes, WalkReport, After
    <2>2. CASE MaybeTick \/ OpenFile
      BY <2>2 DEF MaybeTick, OpenFile, At, Goto, Silent, vars, worker, SendTick, Unwalked,
                  AInv, ATypes, WalkReport, After
    <2>3. CASE WriteHeader
      BY <1>1, <2>3 DEF WriteHeader, At, Goto, Move1, Unwalked, AInv, ATypes, JobFacts
    <2>4. CASE CopyData
      BY <1>1, <2>4 DEF CopyData, At, Goto, Move1, AInv, ATypes, JobFacts
    <2> QED
      BY <2>1, <2>2, <2>3, <2>4
  <1>4. ATypes'
    BY <1>2, <1>3 DEF AInv, ATypes, Length, Inside, Steps
  <1>5. WalkReport'
    BY <1>1, <1>2, <1>3 DEF AInv, WalkReport, Length, Inside, Before, After, Here
  <1>6. LeftBehind'
    <2>1. Reached' = Reached /\ Reached \in Nat
      BY <1>1, <1>2 DEF Reached, AInv, ATypes, JobFacts
    <2>2. InTar' = InTar /\ ~TailLost
      BY <1>2 DEF InTar, TailLost, Inside
    <2> QED
      BY <1>2, <2>1, <2>2, LeftBehindGrows
  <1> QED
    BY <1>4, <1>5, <1>6 DEF AInv

\* The entry is in the tar; the walk goes to the next one or lists it.
LEMMA AppendKeepsAInv ==
  ASSUME AInv, AppendDir \/ AppendLink \/ EndOfFile
  PROVE  AInv'
  <1>1. JobFacts /\ pos \in 1..Length
    BY JobTypes DEF AInv, ATypes, JobFacts, AppendDir, AppendLink, EndOfFile, At, WalkReport,
                    Inside
  <1>2. /\ UNCHANGED <<params, told, hidden, thread, outcome, ok>> /\ thread = "running"
        /\ step \in {"entry", "data"}
        /\ \/ step' = "list" /\ pos' = pos /\ header' = header /\ data' = data
              /\ Here.kind = "dir" /\ step = "entry"
           \/ step' = "walk" /\ pos' = pos + 1 /\ header' = 0 /\ data' = 0
    BY DEF AppendDir, AppendLink, EndOfFile, At, Goto, Silent, Leave, vars, worker, Move1
  <1>3. bytes_in' = bytes_in /\ bytes_out' \in Nat
    BY <1>1 DEF AppendDir, AppendLink, EndOfFile, Silent, vars, worker, Move1, AInv, ATypes, JobFacts
  <1>4. /\ tar' \in Seq([entry : Nat, header : 0..MaxIn, data : 0..MaxIn])
        /\ InTar \subseteq InTar' /\ (pos # 1 => pos \in InTar')
    <2>1. CASE tar' = tar /\ pos = 1
      BY <2>1 DEF InTar, AInv, ATypes
    <2>2. CASE Appended(0, 0) \/ Appended(header, data)
      <3>1. 0 \in 0..MaxIn /\ header \in 0..MaxIn /\ data \in 0..MaxIn
        BY <1>1 DEF AInv, ATypes, JobFacts
      <3>2. CASE Appended(0, 0)
        BY <3>1, <3>2, OneMoreInTar DEF AInv
      <3>3. CASE Appended(header, data)
        BY <3>1, <3>3, OneMoreInTar DEF AInv
      <3> QED
        BY <2>2, <3>2, <3>3
    <2>3. (tar' = tar /\ pos = 1) \/ Appended(0, 0) \/ Appended(header, data)
      BY DEF AppendDir, AppendLink, EndOfFile
    <2> QED
      BY <2>1, <2>2, <2>3
  <1>5. ATypes'
    BY <1>1, <1>2, <1>3, <1>4 DEF AInv, ATypes, Length, JobFacts, Steps
  <1>6. WalkReport'
    BY <1>1, <1>2, <1>3 DEF AInv, WalkReport, Length, Inside, Before, After, Here, JobFacts
  <1>7. LeftBehind'
    <2>1. Reached' = pos /\ Reached = pos - 1 /\ Reached' \in Nat
      BY <1>1, <1>2 DEF Reached, JobFacts
    <2>2. ~TailLost /\ \A e \in Reached + 1 .. Reached' : e = pos
      BY <1>1, <1>2, <2>1 DEF JobFacts, TailLost
    <2> QED
      BY <1>2, <1>4, <2>1, <2>2, LeftBehindGrows
  <1> QED
    BY <1>5, <1>6, <1>7 DEF AInv

LEMMA ListKeepsAInv ==
  ASSUME AInv, ListDir
  PROVE  AInv'
  <1>1. JobFacts /\ pos \in 1..Length
    BY JobTypes DEF AInv, ATypes, JobFacts, ListDir, At, WalkReport, Inside
  <1>2. /\ UNCHANGED <<params, told, tar, thread, outcome, ok, bytes_in, bytes_out>>
        /\ thread = "running"
        /\ step = "list" /\ step' = "walk"
        /\ pos' = pos + 1 /\ header' = 0 /\ data' = 0
    BY DEF ListDir, At, Goto, Silent, Leave, vars, worker
  <1>3. hidden \subseteq hidden' /\ hidden' \subseteq 1..Length
    <2>1. Children(pos) \subseteq 1..Length
      BY <1>1 DEF Children, Below, JobFacts
    <2> QED
      BY <2>1 DEF ListDir, AInv, ATypes
  <1>4. ATypes'
    BY <1>1, <1>2, <1>3 DEF AInv, ATypes, Length, JobFacts, Steps
  <1>5. WalkReport'
    BY <1>1, <1>2 DEF AInv, WalkReport, Length, Inside, Before, After, JobFacts
  <1>6. LeftBehind'
    <2>1. Reached' = Reached /\ Reached \in Nat
      BY <1>1, <1>2 DEF Reached, JobFacts
    <2>2. InTar' = InTar /\ ~TailLost
      BY <1>2 DEF InTar, TailLost
    <2> QED
      BY <1>2, <1>3, <2>1, <2>2, LeftBehindGrows
  <1> QED
    BY <1>4, <1>5, <1>6 DEF AInv

\* The walk is over, or is given up.
LEMMA EndKeepsAInv ==
  ASSUME AInv,
         \/ \E e \in Errors : AppendFails(e) \/ (CallFails(e) /\ Abort)
         \/ Finish \/ DropWriter \/ DropWriterLoses \/ DropWriterPanics \/ Return \/ AExit
  PROVE  AInv'
  <1>1. JobFacts
    BY JobTypes DEF AInv, ATypes
  <1>2. /\ UNCHANGED <<params, pos, header, data, told, hidden>>
        /\ ~DropWriterLoses => tar' = tar
    BY DEF AppendFails, CallFails, Abort, Finish, DropWriter, DropWriterLoses, DropWriterPanics,
           Return, AExit,
           local, Unwalked, Goto
  <1>3. bytes_in' = bytes_in /\ bytes_out' \in Nat
    BY <1>1 DEF AppendFails, CallFails, Abort, Finish, DropWriter, DropWriterLoses,
           DropWriterPanics, Return,
       AExit, Silent, vars, worker, Move1, Panic, SendFinished, SendFailed, Report, Exit,
       AInv, ATypes, JobFacts
  <1>4. /\ LeftBehind' /\ pos \in 1 .. Length + 1
        /\ tar' \in Seq([entry : Nat, header : 0..MaxIn, data : 0..MaxIn])
    <2>1. Reached' = pos - 1 /\ Reached \in {pos - 1, pos} /\ pos \in 1 .. Length + 1
      BY <1>1, <1>2 DEF Reached, AInv, ATypes, JobFacts, AppendFails, CallFails, Abort, Finish,
         DropWriter, DropWriterLoses, DropWriterPanics, Return, AExit, local, Goto, At,
         WalkReport, Exit
    <2>2. Reached' \in Nat /\ Reached + 1 .. Reached' = {}
      BY <1>1, <2>1 DEF JobFacts
    <2>3. CASE TailLost'
      <3> DEFINE E == [entry : Nat, header : 0..MaxIn, data : 0..MaxIn]
      <3>1. tar \in Seq(E) /\ Len(tar) \in Nat
        BY DEF AInv, ATypes
      <3>2. ASSUME NEW n \in 0..Len(tar) PROVE SubSeq(tar, 1, n) \in Seq(E)
        <4> HIDE DEF E
        <4> QED
          BY <3>1
      <3>3. tar' \in Seq(E)
        <4>1. CASE DropWriterLoses
          <5>1. PICK n \in 0..Len(tar) : tar' = SubSeq(tar, 1, n)
            BY <4>1 DEF DropWriterLoses
          <5> QED
            BY <3>2, <5>1
        <4> QED
          BY <1>2, <3>1, <4>1
      <3>4. LeftBehind'
        BY <2>3 DEF LeftBehind
      <3> QED
        BY <2>1, <3>3, <3>4
    <2>4. CASE ~TailLost'
      <3>1. ~DropWriterLoses
        BY <2>4 DEF DropWriterLoses, TailLost, Goto
      <3>2. InTar' = InTar /\ tar' = tar
        BY <1>2, <3>1 DEF InTar
      <3>3. ~TailLost
        BY <2>4 DEF TailLost, AppendFails, CallFails, Abort, Finish, DropWriter,
           DropWriterLoses, DropWriterPanics, Return, AExit, local, Goto, At, Walking
      <3> QED
        BY <1>2, <2>1, <2>2, <3>2, <3>3, LeftBehindGrows DEF AInv, ATypes
    <2> QED
      BY <2>3, <2>4
  <1>5. CASE \/ \E e \in Errors : AppendFails(e) \/ (CallFails(e) /\ Abort)
             \/ Finish \/ DropWriter \/ DropWriterLoses
    <2> DEFINE Ends == /\ UNCHANGED <<thread, outcome>> /\ thread = "running" /\ step # "done"
                       /\ step' \in {"drop", "return"} /\ ok' \in {ok, FALSE}
                       /\ ok' => pos = Length + 1 /\ data = 0 /\ ok
    <2>1. ASSUME \E e \in Errors : AppendFails(e) \/ (CallFails(e) /\ Abort) PROVE Ends
      BY <2>1 DEF AppendFails, CallFails, Abort, At, Walking, Goto, Silent, Fail, vars, worker
    <2>2. ASSUME Finish PROVE Ends
      <3>1. pos = Length + 1
        BY <1>1, <2>2 DEF Finish, AInv, ATypes, JobFacts, Length
      <3>2. thread = "running" /\ step = "walk" /\ step' = "drop" /\ ok' \in {ok, FALSE}
        BY <2>2 DEF Finish, At, Goto, Fail, AInv, ATypes
      <3>3. UNCHANGED <<thread, outcome>>
        BY <2>2 DEF Finish, Silent, Move1, vars, worker
      <3>4. ok' => ok
        BY <3>2
      <3>5. ok => data = 0
        BY <3>2 DEF AInv, WalkReport
      <3> QED
        BY <3>1, <3>2, <3>3, <3>4, <3>5
    <2>3. ASSUME DropWriter PROVE Ends
      BY <2>3 DEF DropWriter, At, Goto, Move1, AInv, WalkReport, After
    <2>4. ASSUME DropWriterLoses PROVE Ends
      BY <2>4 DEF DropWriterLoses, At, Goto, Silent, vars, worker, AInv, WalkReport, After
    <2>5. Ends
      <3> HIDE DEF Ends
      <3> QED
        BY <1>5, <2>1, <2>2, <2>3, <2>4
    <2>6. outcome = "None"
      BY <2>5 DEF AInv, WalkReport
    <2>7. ATypes'
      BY <1>2, <1>3, <1>4, <2>5 DEF AInv, ATypes, Length, Steps
    <2>8. WalkReport'
      BY <1>2, <2>6, <2>5 DEF AInv, WalkReport, Length, Inside, Before, After
    <2> QED
      BY <1>4, <2>7, <2>8 DEF AInv
  <1>6. CASE DropWriterPanics
    <2>1. /\ thread' = "gone" /\ outcome' = outcome /\ outcome = "None" /\ ok' = ok
          /\ step = "drop" /\ step' = "done"
      BY <1>6 DEF DropWriterPanics, At, Goto, Panic, AInv, WalkReport
    <2>2. ATypes'
      BY <1>2, <1>3, <1>4, <2>1 DEF AInv, ATypes, Length, Steps
    <2>3. WalkReport'
      BY <1>2, <2>1 DEF AInv, WalkReport, Length, Inside, Before, After
    <2> QED
      BY <1>4, <2>2, <2>3 DEF AInv
  <1>7. CASE Return
    <2>1. /\ thread' = "reported" /\ ok' = ok /\ ok \in BOOLEAN
          /\ outcome' = IF ok THEN "Finished" ELSE "Failed"
          /\ step = "return" /\ step' = "done"
      BY <1>7 DEF Return, At, Goto, SendFinished, SendFailed, Report, AInv, ATypes
    <2>2. ATypes'
      BY <1>2, <1>3, <1>4, <2>1 DEF AInv, ATypes, Length, Steps, Outcomes
    <2>3. WalkReport'
      BY <1>2, <2>1 DEF AInv, WalkReport, Length, Inside, Before, After
    <2> QED
      BY <1>4, <2>2, <2>3 DEF AInv
  <1>8. CASE AExit
    <2>1. /\ thread = "reported" /\ thread' = "gone"
          /\ UNCHANGED <<ok, step, outcome, bytes_in, bytes_out>>
      BY <1>8 DEF AExit, Exit, local
    <2>2. ATypes'
      BY <1>2, <1>4, <2>1 DEF AInv, ATypes, Length
    <2>3. WalkReport'
      <3>1. step = "done"
        BY <2>1 DEF AInv, WalkReport
      <3> QED
        BY <1>2, <2>1, <3>1 DEF AInv, WalkReport, Before, Inside, After, Length
    <2> QED
      BY <1>4, <2>2, <2>3 DEF AInv
  <1> QED
    BY <1>5, <1>6, <1>7, <1>8

LEMMA IdleKeepsAInv ==
  ASSUME AInv, UNCHANGED worker, UNCHANGED local
  PROVE  AInv'
  <1>1. ATypes' /\ WalkReport'
    BY DEF AInv, ATypes, WalkReport, Length, Here, worker, local
  <1>2. Pruned' = Pruned /\ InTar' = InTar /\ Reached' = Reached /\ \A i : Below(i)' = Below(i)
    BY DEF Pruned, Skipped, Kept, IsIncluded, ExplicitlyExcluded, Marks, Above, Sel, Below,
           InTar, Reached, local
  <1>3. LeftBehind'
    BY <1>2 DEF AInv, LeftBehind, TailLost, local
  <1> QED
    BY <1>1, <1>3 DEF AInv

LEMMA NextAInv == AInv /\ [ANext]_avars => AInv'
  <1> SUFFICES ASSUME AInv, [ANext]_avars PROVE AInv'
    OBVIOUS
  <1>1. CASE AUI
    BY <1>1, UISparesArchive, IdleKeepsAInv DEF AUI
  <1>2. CASE UNCHANGED avars
    BY <1>2, IdleKeepsAInv DEF avars, vars
  <1>3. CASE AWorker
    <2>1. CASE \E e \in Errors : CallFails(e)
      BY <2>1, SkipKeepsAInv, EndKeepsAInv DEF CallFails, SkipOrAbort
    <2>2. CASE \E e \in Errors : AppendFails(e)
      BY <2>2, EndKeepsAInv
    <2>3. CASE Stat
      BY <2>3, SkipKeepsAInv, InsideKeepsAInv
    <2> QED
      BY <1>3, <2>1, <2>2, <2>3, BeforeKeepsAInv, SkipKeepsAInv, InsideKeepsAInv,
         AppendKeepsAInv, ListKeepsAInv, EndKeepsAInv DEF AWorker
  <1> QED
    BY <1>1, <1>2, <1>3 DEF ANext

\* The invariant of do_archive, whatever happens to the tree.
THEOREM ArchiveInvariant == ASpec => []AInv
  BY InitAInv, NextAInv, PTL DEF ASpec

\* What is in the tar can be restored, or is at or behind a torn file.
LEMMA RestorableOrBehindTorn == InTar = Restorable \cup BehindTorn
  <1>1. \A k \in 1..Len(tar) : \/ k \in { n \in 1..Len(tar) : \A l \in 1..n : ~Torn(l) }
                              \/ k \in { n \in 1..Len(tar) : \E l \in 1..n : Torn(l) }
    OBVIOUS
  <1> QED
    BY <1>1 DEF InTar, Restorable, BehindTorn

\* What cannot be restored from a Finished archive was pruned, was reported as
\* skipped or lost by a directory listing, or is behind a file that changed
\* while it was copied, unless the encoder lost the end of the tar.
THEOREM ArchiveOmissionsAreTold == ASpec => []OmissionsAreTold
  <1>1. AInv => OmissionsAreTold
    <2> DEFINE Told == Pruned \cup UNION { Below(i) : i \in told \cup hidden }
    <2> SUFFICES ASSUME AInv, outcome = "Finished", ~TailLost
                 PROVE  (2..Len(params.tree)) \ Restorable
                          \subseteq Pruned \cup BehindTorn
                                  \cup UNION { Below(i) : i \in told \cup hidden }
      BY Zenon DEF OmissionsAreTold
    <2>1. ok /\ step = "done"
      BY DEF AInv, WalkReport
    <2>2. pos = Length + 1 /\ Length \in Nat
      BY <2>1, JobTypes DEF AInv, ATypes, WalkReport, After, JobFacts
    <2>3. Reached = Length
      BY <2>1, <2>2 DEF Reached
    <2>4. (2..Length) \ InTar \subseteq Told
      BY <2>3 DEF AInv, LeftBehind
    <2>5. Told = Pruned \cup UNION { Below(i) : i \in told \cup hidden }
      OBVIOUS
    <2> HIDE DEF Told
    <2>6. (2..Length) \ Restorable \subseteq Told \cup BehindTorn
      BY <2>4, RestorableOrBehindTorn
    <2> QED
      BY <2>5, <2>6 DEF Length
  <1> QED
    BY <1>1, ArchiveInvariant, PTL

-----------------------------------------------------------------------------
(* do_archive implements Session's worker. *)

LEMMA ArchiveStartsAsSession == AInit => Init
  BY DEF AInit, Init

LEMMA MovesAsSession ==
  ASSUME AInv, thread = "running", NEW n \in {0, 1}, Move1(n)
  PROVE  Next
  <1>1. /\ MaxIn \in Nat /\ MaxOut \in Nat
        /\ bytes_in \in Nat /\ bytes_out \in Nat
    BY JobTypes DEF AInv, ATypes, JobFacts
  <1>2. PICK m \in {0, 1} : bytes_out' = bytes_out + m /\ bytes_out + m <= MaxOut
    BY <1>1 DEF Move1
  <1>3. n \in 0..MaxIn /\ m \in 0..MaxOut
    BY <1>1, <1>2 DEF Move1
  <1>4. Move(n, m)
    BY <1>2 DEF Move1, Move
  <1> QED
    BY <1>3, <1>4 DEF Next, Worker

LEMMA ArchiveWorkerAsSession ==
  ASSUME AInv, AWorker
  PROVE  [Next]_vars
  <1>1. SendTick => Next
    BY DEF Next, Worker
  <1>2. CASE Source \/ Mount \/ Open \/ PassHidden \/ Stat \/ OpenFile \/ ListDir \/ EndOfFile
             \/ DropWriterLoses
    BY <1>2 DEF Source, Mount, Open, PassHidden, Stat, OpenFile, ListDir, EndOfFile,
                DropWriterLoses, Silent
  <1>3. CASE AnnounceMount \/ AnnounceSource \/ SkipSystem \/ MaybeTick
    BY <1>1, <1>3 DEF AnnounceMount, AnnounceSource, SkipSystem, Skip, MaybeTick, Silent
  <1>4. CASE \E e \in Errors : CallFails(e) \/ AppendFails(e)
    BY <1>1, <1>4 DEF CallFails, AppendFails, SkipOrAbort, Skip, Abort, Silent
  <1>5. CASE Measure
    BY <1>5 DEF Measure, Next, Worker
  <1>6. CASE AppendDir \/ AppendLink \/ WriteHeader \/ CopyData \/ Finish \/ DropWriter
    <2>1. thread = "running"
      BY <1>6 DEF AppendDir, AppendLink, WriteHeader, CopyData, Finish, DropWriter, At
    <2>2. UNCHANGED vars \/ Move1(0) \/ Move1(1)
      BY <1>6 DEF AppendDir, AppendLink, WriteHeader, CopyData, Finish, DropWriter, Silent
    <2> QED
      BY <2>1, <2>2, MovesAsSession
  <1>7. CASE DropWriterPanics \/ Return \/ AExit
    BY <1>7 DEF DropWriterPanics, Return, AExit, Next, Worker
  <1> QED
    BY <1>2, <1>3, <1>4, <1>5, <1>6, <1>7 DEF AWorker

LEMMA ArchiveStepsAsSession == AInv /\ [ANext]_avars => [Next]_vars
  BY ArchiveWorkerAsSession DEF ANext, AUI, Next, avars

\* do_archive may stand wherever Session has a worker.
THEOREM ArchiveImplementsSession == ASpec => ImplementsSession
  BY ArchiveStartsAsSession, ArchiveStepsAsSession, ArchiveInvariant, PTL
     DEF ASpec, Spec, ImplementsSession

\* Every variable of an archive keeps its type.
THEOREM ArchiveTypeOK == ASpec => []ATypeOK
  <1>1. AInv /\ TypeOK => ATypeOK
    BY DEF AInv, ATypes, ATypeOK, Length
  <1> QED
    BY <1>1, ArchiveInvariant, ArchiveImplementsSession, SessionTypeOK, PTL
       DEF ImplementsSession

\* What sessions promise, archives keep: the frame that says Finished is exact.
THEOREM ArchiveFramesAreExact == ASpec => []FrameIsExact
  BY ArchiveImplementsSession, FramesAreExact, PTL DEF ImplementsSession

-----------------------------------------------------------------------------
(* Sums along the walk. *)

LEMMA LeastOf ==
  ASSUME NEW T, T \subseteq Nat, T # {}
  PROVE  \E x \in T : \A y \in T : x <= y
  <1> DEFINE R == OpToRel(<, Nat)
  <1>1. IsWellFoundedOn(R, Nat)
    BY NatLessThanWellFounded, Zenon
  <1>2. PICK x \in T : \A y \in T : <<y, x>> \notin R
    <2> HIDE DEF R
    <2> QED
      BY <1>1, WFMin, Zenon
  <1>3. \A y \in T : ~(y < x)
    BY <1>2 DEF OpToRel
  <1> QED
    BY <1>3

LEMMA GreatestOf ==
  ASSUME NEW n \in Nat, NEW T, T \subseteq 0..n, T # {}
  PROVE  \E x \in T : \A y \in T : y <= x
  <1> DEFINE D == { k \in 0..n : n - k \in T }
  <1>1. D \subseteq Nat /\ D # {}
    <2>1. PICK x \in T : TRUE
      OBVIOUS
    <2>2. x \in 0..n
      BY <2>1
    <2>3. n - x \in 0..n /\ n - (n - x) = x
      BY <2>2
    <2>4. n - x \in D
      BY <2>1, <2>3
    <2>5. D \subseteq Nat
      OBVIOUS
    <2> HIDE DEF D
    <2> QED
      BY <2>4, <2>5
  <1>2. PICK k \in D : \A y \in D : k <= y
    <2> HIDE DEF D
    <2> QED
      BY <1>1, LeastOf
  <1>3. ASSUME NEW y \in T PROVE y <= n - k
    <2>1. y \in 0..n /\ k \in 0..n
      BY <1>2
    <2>2. n - y \in 0..n /\ n - (n - y) = y
      BY <2>1
    <2>3. k <= n - y
      BY <1>2, <2>2
    <2> QED
      BY <2>1, <2>3
  <1> QED
    BY <1>2, <1>3

\* What the i-th entry adds to the total.
SizeOf(i) == IF i \in Measured THEN params.tree[i].size ELSE 0

\* The recursion in SizeUpTo has a solution, so SizeUpTo satisfies it.
LEMMA SizesAddUp ==
  ASSUME params \in Jobs
  PROVE  /\ SizeUpTo[0] = 0
         /\ \A i \in 1..Length : SizeUpTo[i] = SizeUpTo[i - 1] + SizeOf(i)
         /\ \A i \in 0..Length : SizeUpTo[i] \in Nat
  <1>1. Length \in Nat /\ \A i \in 1..Length : SizeOf(i) \in Nat
    BY JobTypes DEF JobFacts, SizeOf
  <1> DEFINE Sums(f, n) == /\ f \in [0..n -> Nat] /\ f[0] = 0
                           /\ \A i \in 1..n : f[i] = f[i - 1] + SizeOf(i)
             T == { n \in 0..Length : ~ \E f : Sums(f, n) }
  <1>2. T = {}
    <2> SUFFICES ASSUME T # {} PROVE FALSE
      OBVIOUS
    <2>1. PICK n \in T : \A m \in T : n <= m
      <3>1. T \subseteq Nat
        BY <1>1
      <3> HIDE DEF T
      <3> QED
        BY <3>1, LeastOf
    <2>2. CASE n = 0
      <3>1. Sums([i \in 0..0 |-> 0], 0)
        OBVIOUS
      <3> QED
        BY <2>1, <2>2, <3>1
    <2>3. CASE n > 0
      <3>1. n \in 1..Length /\ n - 1 \in 0..Length
        BY <1>1, <2>1, <2>3
      <3>2. n - 1 \notin T
        <4>1. ~(n <= n - 1)
          BY <3>1
        <4> HIDE DEF T
        <4> QED
          BY <2>1, <4>1
      <3>3. PICK g : Sums(g, n - 1)
        BY <3>1, <3>2
      <3> DEFINE f == [i \in 0..n |-> IF i = n THEN g[n - 1] + SizeOf(n) ELSE g[i]]
      <3>4. SizeOf(n) \in Nat /\ g[n - 1] \in Nat
        BY <1>1, <3>1, <3>3
      <3>5. f \in [0..n -> Nat] /\ f[0] = 0
        BY <1>1, <3>1, <3>3, <3>4
      <3>6. ASSUME NEW i \in 1..n PROVE f[i] = f[i - 1] + SizeOf(i)
        <4>1. CASE i = n
          BY <1>1, <3>1, <4>1
        <4>2. CASE i # n
          BY <1>1, <3>1, <3>3, <4>2
        <4> QED
          BY <4>1, <4>2
      <3>7. Sums(f, n)
        BY <3>5, <3>6
      <3> QED
        BY <2>1, <3>7
    <2> QED
      BY <1>1, <2>1, <2>2, <2>3
  <1>3. PICK f : Sums(f, Length)
    <2>1. Length \in 0..Length
      BY <1>1
    <2>2. Length \notin T
      <3> HIDE DEF T
      <3> QED
        BY <1>2
    <2> QED
      BY <2>1, <2>2
  <1>4. f = [i \in 0..Length |-> IF i = 0 THEN 0 ELSE f[i - 1] + SizeOf(i)]
    BY <1>1, <1>3
  <1>5. SizeUpTo = [i \in 0..Length |-> IF i = 0 THEN 0 ELSE SizeUpTo[i - 1] + SizeOf(i)]
    BY <1>4 DEF SizeUpTo, SizeOf, Length
  <1>6. /\ SizeUpTo[0] = 0
        /\ \A i \in 1..Length : SizeUpTo[i] = SizeUpTo[i - 1] + SizeOf(i)
    BY <1>1, <1>5
  <1>7. { i \in 0..Length : SizeUpTo[i] \notin Nat } = {}
    <2> DEFINE B == { i \in 0..Length : SizeUpTo[i] \notin Nat }
    <2> SUFFICES ASSUME B # {} PROVE FALSE
      OBVIOUS
    <2>1. PICK n \in B : \A m \in B : n <= m
      <3>1. B \subseteq Nat
        BY <1>1
      <3> HIDE DEF B
      <3> QED
        BY <3>1, LeastOf
    <2>2. n \in 1..Length /\ n - 1 \in 0..Length /\ n - 1 \notin B
      BY <1>1, <1>6, <2>1
    <2> QED
      BY <1>1, <1>6, <2>1, <2>2
  <1> QED
    BY <1>6, <1>7

\* Entries that are not measured do not change the sum.
LEMMA NothingToMeasure ==
  ASSUME params \in Jobs, NEW a \in 0..Length, NEW b \in a..Length,
         \A i \in a + 1 .. b : i \notin Measured
  PROVE  SizeUpTo[b] = SizeUpTo[a]
  <1>1. Length \in Nat
    BY JobTypes DEF JobFacts
  <1> DEFINE B == { i \in a..b : SizeUpTo[i] # SizeUpTo[a] }
  <1>2. B = {}
    <2> SUFFICES ASSUME B # {} PROVE FALSE
      OBVIOUS
    <2>1. PICK n \in B : \A m \in B : n <= m
      <3>1. B \subseteq Nat
        BY <1>1
      <3> HIDE DEF B
      <3> QED
        BY <3>1, LeastOf
    <2>2. n \in a + 1 .. b /\ n \in 1..Length /\ n - 1 \in a..b /\ n - 1 \notin B
      BY <1>1, <2>1
    <2>3. SizeUpTo[n] = SizeUpTo[n - 1] + 0 /\ SizeUpTo[n - 1] \in Nat
      BY <1>1, <2>2, SizesAddUp DEF SizeOf
    <2> QED
      BY <2>1, <2>2, <2>3
  <1> QED
    BY <1>1, <1>2

-----------------------------------------------------------------------------
(* A tree that is left alone. *)

\* What is computed from the job alone stays.
LEMMA SameJob ==
  ASSUME params' = params
  PROVE  /\ Length' = Length /\ Healthy' = Healthy
         /\ Pruned' = Pruned /\ Measured' = Measured
         /\ \A i : Skipped(i)' = Skipped(i)
         /\ SizeUpTo' = SizeUpTo /\ Total' = Total
  <1> USE DEF Skipped, Kept, IsIncluded, ExplicitlyExcluded, Marks, Above, Sel, Below
  <1>1. Length' = Length /\ Healthy' = Healthy
    BY DEF Length, Healthy
  <1>2. Pruned' = Pruned /\ \A i : Skipped(i)' = Skipped(i)
    BY DEF Pruned
  <1>3. Measured' = Measured
    BY <1>2 DEF Measured
  <1>4. SizeUpTo' = SizeUpTo
    BY <1>3 DEF SizeUpTo
  <1> QED
    BY <1>1, <1>2, <1>3, <1>4 DEF Total

\* An entry the walk has not skipped, below none it has.
LEMMA NotPruned ==
  ASSUME params \in Jobs, NEW i \in 1..Length, ~Skipped(i),
         \A j \in 1 .. i - 1 : Skipped(j) => params.tree[j].last < i
  PROVE  i \notin Pruned
  <1>1. JobFacts
    BY JobTypes
  <1>2. SUFFICES ASSUME NEW j \in 1..i, i \in Below(j), Skipped(j) PROVE FALSE
    BY DEF Pruned
  <1>3. CASE j = i
    BY <1>2, <1>3
  <1>4. CASE j \in 1 .. i - 1
    BY <1>1, <1>2, <1>4 DEF Below, JobFacts
  <1> QED
    BY <1>1, <1>3, <1>4 DEF JobFacts

\* A tar in the order of the walk, up to n, each entry complete.
InOrder(t, n) ==
  /\ \A k \in 1..Len(t) : t[k].header = t[k].data /\ t[k].entry <= n
  /\ \A k, l \in 1..Len(t) : k < l => t[k].entry < t[l].entry

LEMMA EntriesOfTar ==
  ASSUME AInv
  PROVE  Len(tar) \in Nat /\ \A k \in 1..Len(tar) : tar[k].entry \in Nat
  <1> DEFINE E == [entry : Nat, header : 0..MaxIn, data : 0..MaxIn]
  <1>1. tar \in Seq(E)
    BY DEF AInv, ATypes
  <1>2. Len(tar) \in Nat /\ \A k \in 1..Len(tar) : tar[k] \in E
    <2> HIDE DEF E
    <2> QED
      BY <1>1
  <1> QED
    BY <1>1, <1>2

LEMMA StaysInOrder ==
  ASSUME AInv, pos \in 1..Length, InOrder(tar, pos - 1), NEW n \in 0..MaxIn, Appended(n, n)
  PROVE  InOrder(tar', pos)
  <1>1. Length \in Nat /\ pos \in Nat
    BY JobTypes DEF AInv, ATypes, JobFacts
  <1>2. /\ Len(tar') = Len(tar) + 1 /\ Len(tar) \in Nat
        /\ tar'[Len(tar) + 1] = [entry |-> pos, header |-> n, data |-> n]
        /\ \A k \in 1..Len(tar) : tar'[k] = tar[k] /\ tar[k].entry \in Nat
    BY OneMoreInTar, EntriesOfTar DEF AInv
  <1>3. \A k \in 1..Len(tar) : tar'[k].header = tar'[k].data /\ tar'[k].entry < pos
    BY <1>1, <1>2 DEF InOrder
  <1>4. tar'[Len(tar) + 1].header = tar'[Len(tar) + 1].data /\ tar'[Len(tar) + 1].entry = pos
    BY <1>2
  <1>5. \A k \in 1..Len(tar') : k \in 1..Len(tar) \/ k = Len(tar) + 1
    BY <1>2
  <1>6. \A k \in 1..Len(tar') : tar'[k].header = tar'[k].data /\ tar'[k].entry <= pos
    BY <1>1, <1>2, <1>3, <1>4, <1>5
  <1>7. ASSUME NEW k \in 1..Len(tar'), NEW l \in 1..Len(tar'), k < l
        PROVE  tar'[k].entry < tar'[l].entry
    <2>1. k \in 1..Len(tar)
      BY <1>2, <1>7
    <2>2. CASE l \in 1..Len(tar)
      BY <1>2, <1>7, <2>1, <2>2 DEF InOrder
    <2>3. CASE l = Len(tar) + 1
      BY <1>3, <1>4, <2>1, <2>3
    <2> QED
      BY <1>5, <2>2, <2>3
  <1> QED
    BY <1>6, <1>7 DEF InOrder

\* What the walk passes over on purpose is pruned.
LEMMA CalmPassing ==
  ASSUME AInv, params.calm, CalmWalk, SkipSystem \/ (Stat /\ ~Kept(pos))
  PROVE  CalmWalk'
  <1>1. JobFacts /\ params \in Jobs /\ pos \in 1..Length /\ Skipped(pos)
    <2>1. JobFacts /\ params \in Jobs /\ pos \in 1 .. Length + 1
      BY JobTypes DEF AInv, ATypes
    <2>2. pos <= Length
      BY DEF SkipSystem, Stat, Walking, Length
    <2>3. Skipped(pos)
      BY DEF SkipSystem, Stat, Skipped, Here
    <2> QED
      BY <2>1, <2>2, <2>3 DEF JobFacts
  <1>2. /\ UNCHANGED <<params, tar, hidden, bytes_in>>
        /\ step = "walk" /\ step' = "walk"
        /\ pos' = Here.last + 1 /\ header' = 0 /\ data' = 0
    BY DEF SkipSystem, Stat, Skip, Walking, At, Goto, Leave, Silent, vars, worker, SendTick
  <1>3. data = 0 /\ Reached = pos - 1
    BY <1>2 DEF AInv, WalkReport, After, Reached
  <1>4. Here.last \in pos..Length /\ Reached' = Here.last
    BY <1>1, <1>2 DEF JobFacts, Here, Reached
  <1>5. \A i \in pos..Here.last : i \in 1..Length /\ i \in Pruned
    BY <1>1, <1>4 DEF JobFacts, Pruned, Below, Here, Length
  <1>6. ASSUME NEW j \in 1 .. pos' - 1, Skipped(j)
        PROVE  params.tree[j].last < pos'
    <2>1. CASE j \in 1 .. pos - 1
      BY <1>1, <1>2, <1>4, <1>6, <2>1 DEF CalmWalk, JobFacts
    <2>2. CASE j \in pos..Here.last
      <3>1. params.tree[j].last <= Here.last
        BY <1>1, <2>2 DEF JobFacts, Here
      <3>2. params.tree[j].last \in Nat
        BY <1>1, <1>5, <2>2 DEF JobFacts
      <3> QED
        BY <1>2, <1>4, <3>1, <3>2
    <2> QED
      BY <1>1, <1>2, <1>4, <2>1, <2>2 DEF JobFacts
  <1>7. InTar' = (2..Reached') \ Pruned
    <2>1. InTar' = (2..Reached) \ Pruned
      BY <1>2 DEF InTar, CalmWalk
    <2>2. \A i : i \in 2..Reached' <=> i \in 2..Reached \/ (i \in pos..Here.last /\ i >= 2)
      BY <1>1, <1>3, <1>4 DEF JobFacts
    <2>3. \A i : i \in (2..Reached') \ Pruned <=> i \in (2..Reached) \ Pruned
      BY <1>5, <2>2
    <2> QED
      BY <2>1, <2>3
  <1>8. SizeUpTo[Here.last] = SizeUpTo[pos - 1]
    BY <1>1, <1>4, <1>5, NothingToMeasure DEF JobFacts, Measured
  <1>9. /\ \A k \in 1..Len(tar) : tar[k].header = tar[k].data /\ tar[k].entry <= Here.last
        /\ bytes_in' = SizeUpTo[pos' - 1] + data'
    <2>1. \A k \in 1..Len(tar) : tar[k].entry \in Nat
      BY EntriesOfTar
    <2>2. pos' - 1 = Here.last
      BY <1>1, <1>2, <1>4 DEF JobFacts
    <2>3. \A k \in 1..Len(tar) : tar[k].header = tar[k].data /\ tar[k].entry <= pos - 1
      BY <1>3 DEF CalmWalk
    <2>4. \A k \in 1..Len(tar) : tar[k].entry <= Here.last
      BY <1>1, <1>4, <2>1, <2>3 DEF JobFacts
    <2> QED
      BY <1>2, <1>3, <1>8, <2>2, <2>3, <2>4 DEF CalmWalk
  <1> QED
    BY <1>1, <1>2, <1>4, <1>6, <1>7, <1>9, SameJob DEF CalmWalk, Inside, JobFacts

LEMMA CalmInside ==
  ASSUME AInv, params.calm, CalmWalk,
         (Stat /\ Kept(pos)) \/ MaybeTick \/ OpenFile \/ WriteHeader \/ CopyData
  PROVE  CalmWalk'
  <1>1. JobFacts
    BY JobTypes DEF AInv, ATypes
  <1>2. /\ UNCHANGED <<params, pos, tar, hidden>>
        /\ step \in Inside \cup {"walk"} /\ step # "list"
        /\ step' \in Inside /\ step' # "list"
        /\ step # "walk" => step \in Inside \ {"list"} /\ header' = header
    BY DEF Stat, MaybeTick, OpenFile, WriteHeader, CopyData, At, Goto, Walking, Unwalked, Inside
  <1>3. ~Skipped(pos) /\ header' = Here.size
    <2>1. CASE Stat /\ Kept(pos)
      BY <2>1 DEF Stat, Skipped, Here
    <2>2. CASE MaybeTick \/ OpenFile \/ WriteHeader \/ CopyData
      <3>1. step # "walk"
        BY <2>2 DEF MaybeTick, OpenFile, WriteHeader, CopyData, At
      <3> QED
        BY <1>2, <3>1 DEF CalmWalk
    <2> QED
      BY <2>1, <2>2
  <1>4. /\ bytes_in \in Nat /\ data \in Nat /\ data' \in Nat
        /\ bytes_in' - data' = bytes_in - data /\ bytes_in' \in Nat
        /\ data' <= header'
    <2>1. CASE Stat /\ Kept(pos)
      <3>1. data = 0 /\ data' = data /\ bytes_in' = bytes_in
        BY <2>1 DEF Stat, Walking, At, Silent, vars, worker, AInv, WalkReport, After
      <3>2. header' \in Nat /\ bytes_in \in Nat
        BY <1>1, <2>1 DEF Stat, JobFacts, AInv, ATypes
      <3> QED
        BY <3>1, <3>2
    <2>2. CASE MaybeTick \/ OpenFile
      BY <2>2 DEF MaybeTick, OpenFile, Silent, vars, worker, SendTick, Unwalked, AInv, ATypes, CalmWalk
    <2>3. CASE WriteHeader
      BY <2>3 DEF WriteHeader, Move1, Unwalked, AInv, ATypes, CalmWalk
    <2>4. CASE CopyData
      BY <2>4 DEF CopyData, Move1, AInv, ATypes
    <2> QED
      BY <2>1, <2>2, <2>3, <2>4
  <1>5. bytes_in' = SizeUpTo[pos - 1] + data'
    <2>1. pos - 1 \in 0..Length
      BY <1>1 DEF AInv, ATypes, JobFacts
    <2>2. SizeUpTo[pos - 1] \in Nat
      BY <2>1, SizesAddUp DEF AInv, ATypes
    <2>3. bytes_in = SizeUpTo[pos - 1] + data
      BY DEF CalmWalk
    <2> QED
      BY <1>4, <2>2, <2>3
  <1>6. Reached' = Reached /\ InTar' = InTar /\ Here' = Here
    BY <1>2 DEF Reached, InTar, Here
  <1> QED
    BY <1>2, <1>3, <1>4, <1>5, <1>6, SameJob DEF CalmWalk

\* An entry that goes into the tar is the next one, and complete.
LEMMA CalmAppend ==
  ASSUME AInv, params.calm, CalmWalk, AppendDir \/ AppendLink \/ EndOfFile
  PROVE  CalmWalk'
  <1>1. JobFacts /\ params \in Jobs
    BY JobTypes DEF AInv, ATypes
  <1>2. step \in {"entry", "data"}
    BY DEF AppendDir, AppendLink, EndOfFile, At
  <1>3. pos \in 1..Length /\ Reached = pos - 1 /\ pos - 1 \in 0..Length
    BY <1>1, <1>2 DEF AInv, ATypes, WalkReport, Inside, JobFacts, Reached
  <1>4. /\ UNCHANGED <<params, hidden, bytes_in>>
        /\ \/ step' = "list" /\ pos' = pos /\ header' = header /\ data' = data
              /\ Here.kind = "dir" /\ step = "entry"
           \/ step' = "walk" /\ pos' = pos + 1 /\ header' = 0 /\ data' = 0
    <2>1. /\ UNCHANGED <<params, hidden>>
          /\ \/ step' = "list" /\ pos' = pos /\ header' = header /\ data' = data
                /\ Here.kind = "dir" /\ step = "entry"
             \/ step' = "walk" /\ pos' = pos + 1 /\ header' = 0 /\ data' = 0
      BY DEF AppendDir, AppendLink, EndOfFile, At, Goto, Leave
    <2>2. bytes_in \in Nat
      BY DEF AInv, ATypes
    <2>3. bytes_in' = bytes_in
      BY <2>2 DEF AppendDir, AppendLink, EndOfFile, Silent, vars, worker, Move1
    <2> QED
      BY <2>1, <2>3
  <1>5. pos \notin Pruned /\ ~Skipped(pos)
    BY <1>1, <1>2, <1>3, NotPruned DEF CalmWalk, Inside
  <1>6. Reached' = pos
    BY <1>3, <1>4 DEF Reached, JobFacts
  <1>7. InTar' = (2..pos) \ Pruned /\ InOrder(tar', pos)
    <2>1. InOrder(tar, pos - 1) /\ InTar = (2..pos - 1) \ Pruned
      BY <1>3 DEF CalmWalk, InOrder
    <2>2. CASE pos = 1 /\ tar' = tar
      <3>1. InTar' = InTar /\ 2..pos - 1 = {} /\ 2..pos = {}
        BY <2>2 DEF InTar
      <3>2. \A k \in 1..Len(tar) : tar[k].entry \in InTar
        BY DEF InTar
      <3>3. Len(tar) \in Nat /\ \A k \in 1..Len(tar) : FALSE
        BY <2>1, <3>1, <3>2, EntriesOfTar
      <3> QED
        BY <2>1, <2>2, <3>1, <3>3 DEF InOrder
    <2>3. ASSUME NEW n \in 0..MaxIn, Appended(n, n), pos # 1
          PROVE  InTar' = (2..pos) \ Pruned /\ InOrder(tar', pos)
      <3>1. InTar' = InTar \cup {pos}
        BY <2>3, OneMoreInTar DEF AInv
      <3>2. \A i : i \in 2..pos <=> i \in 2..pos - 1 \/ i = pos
        <4>1. pos \in Nat /\ pos >= 2
          BY <1>1, <1>3, <2>3 DEF JobFacts
        <4> QED
          BY <4>1
      <3>3. InTar' = (2..pos) \ Pruned
        BY <1>5, <2>1, <3>1, <3>2
      <3> QED
        BY <1>3, <2>1, <2>3, <3>3, StaysInOrder
    <2>4. CASE AppendDir \/ AppendLink
      <3>1. 0 \in 0..MaxIn /\ (AppendLink => pos # 1)
        BY <1>1 DEF AppendLink, Here, JobFacts
      <3> QED
        BY <2>2, <2>3, <2>4, <3>1 DEF AppendDir, AppendLink
    <2>5. CASE EndOfFile
      <3>1. header \in 0..MaxIn /\ data = header /\ pos # 1
        BY <1>1, <2>5 DEF AInv, ATypes, WalkReport, EndOfFile, At, Here, JobFacts
      <3> QED
        BY <2>3, <2>5, <3>1 DEF EndOfFile
    <2> QED
      BY <2>4, <2>5
  <1>8. bytes_in = SizeUpTo[pos' - 1] + data' /\ data' <= header'
    <2>1. /\ SizeUpTo[pos] = SizeUpTo[pos - 1] + SizeOf(pos)
          /\ SizeUpTo[pos - 1] \in Nat /\ SizeUpTo[pos] \in Nat
      BY <1>1, <1>3, SizesAddUp DEF JobFacts
    <2>2. bytes_in = SizeUpTo[pos - 1] + data /\ data \in Nat /\ data <= header /\ header \in Nat
      BY <1>1 DEF CalmWalk, AInv, ATypes, JobFacts
    <2>3. CASE step' = "list"
      BY <1>2, <1>4, <2>2, <2>3
    <2>4. CASE AppendLink
      <3>1. data = 0
        BY <2>4 DEF AppendLink, At, AInv, WalkReport, After
      <3>2. SizeOf(pos) = 0 /\ step' = "walk"
        BY <2>4 DEF AppendLink, Here, Goto, SizeOf, Measured
      <3>3. pos' - 1 = pos
        BY <1>1, <1>3, <1>4, <3>2 DEF JobFacts
      <3> QED
        BY <1>4, <2>1, <2>2, <3>1, <3>2, <3>3
    <2>5. CASE EndOfFile
      <3>1. step = "data" /\ step' = "walk" /\ data = header
        BY <2>5 DEF EndOfFile, At, Goto
      <3>2. header = Here.size /\ Here.kind = "file"
        BY <3>1 DEF CalmWalk, Inside, AInv, WalkReport
      <3>3. SizeOf(pos) = data
        BY <1>3, <1>5, <3>1, <3>2 DEF SizeOf, Measured, Here, Length
      <3>4. pos' - 1 = pos
        BY <1>1, <1>3, <1>4, <3>1 DEF JobFacts
      <3> QED
        BY <1>4, <2>1, <2>2, <3>1, <3>3, <3>4
    <2> QED
      BY <2>3, <2>4, <2>5 DEF AppendDir, Goto
  <1>9. \A j \in 1 .. pos' - 1 : Skipped(j) => params.tree[j].last < pos'
    <2>1. \A j \in 1 .. pos' - 1 : j \in 1 .. pos - 1 \/ j = pos
      BY <1>1, <1>3, <1>4 DEF JobFacts
    <2>2. \A j \in 1 .. pos - 1 : params.tree[j].last \in Nat
      BY <1>1, <1>3 DEF JobFacts
    <2>3. pos <= pos' /\ pos \in Nat /\ pos' \in Nat
      BY <1>1, <1>3, <1>4 DEF JobFacts
    <2>4. \A j \in 1 .. pos - 1 : Skipped(j) => params.tree[j].last < pos
      BY DEF CalmWalk
    <2>5. ASSUME NEW j \in 1 .. pos - 1, Skipped(j) PROVE params.tree[j].last < pos'
      BY <2>2, <2>3, <2>4, <2>5
    <2> QED
      BY <1>5, <2>1, <2>5
  <1>10. step' \in Inside => step' = "list" /\ pos' = pos
    BY <1>4 DEF Inside
  <1> QED
    BY <1>4, <1>5, <1>6, <1>7, <1>8, <1>9, <1>10, SameJob DEF CalmWalk, InOrder

LEMMA CalmList ==
  ASSUME AInv, params.calm, CalmWalk, ListDir
  PROVE  CalmWalk'
  <1>1. JobFacts /\ params \in Jobs /\ pos \in 1..Length
    BY JobTypes DEF AInv, ATypes, JobFacts, ListDir, At, WalkReport, Inside
  <1>2. /\ UNCHANGED <<params, tar, bytes_in>> /\ hidden' = {}
        /\ step = "list" /\ step' = "walk"
        /\ pos' = pos + 1 /\ header' = 0 /\ data' = 0
    BY DEF ListDir, At, Goto, Silent, Leave, vars, worker, CalmWalk
  <1>3. Reached' = pos /\ Reached = pos /\ InTar' = InTar
    BY <1>1, <1>2 DEF Reached, InTar, JobFacts
  <1>4. ~Skipped(pos) /\ Here.kind = "dir" /\ data = 0
    BY <1>2 DEF CalmWalk, Inside, AInv, WalkReport, After
  <1>5. bytes_in = SizeUpTo[pos' - 1] + data'
    <2>1. SizeUpTo[pos] = SizeUpTo[pos - 1] + 0 /\ SizeUpTo[pos - 1] \in Nat
      <3>1. SizeOf(pos) = 0 /\ pos - 1 \in 0..Length
        BY <1>1, <1>4 DEF SizeOf, Measured, Here, JobFacts
      <3> QED
        BY <1>1, <3>1, SizesAddUp
    <2>2. bytes_in = SizeUpTo[pos - 1] + 0
      BY <1>4 DEF CalmWalk
    <2>3. pos' - 1 = pos
      BY <1>1, <1>2 DEF JobFacts
    <2> QED
      BY <1>2, <2>1, <2>2, <2>3
  <1>6. ASSUME NEW j \in 1 .. pos' - 1, Skipped(j)
        PROVE  params.tree[j].last < pos'
    <2>1. j \in 1 .. pos - 1
      <3>1. pos \in Nat
        BY <1>1 DEF JobFacts
      <3>2. j \in 1..pos
        BY <1>2, <3>1
      <3>3. j # pos
        BY <1>4, <1>6
      <3> QED
        BY <3>1, <3>2, <3>3
    <2>2. params.tree[j].last < pos /\ params.tree[j].last \in Nat
      BY <1>1, <1>6, <2>1 DEF CalmWalk, JobFacts
    <2> QED
      BY <1>1, <1>2, <2>2 DEF JobFacts
  <1> QED
    BY <1>2, <1>3, <1>5, <1>6, SameJob DEF CalmWalk, Inside

LEMMA CalmElsewhere ==
  ASSUME params.calm, CalmWalk,
         UNCHANGED <<params, pos, header, data, tar, hidden, bytes_in>>,
         Reached' = Reached, step' = step \/ step' \notin Inside
  PROVE  CalmWalk'
  <1>1. InTar' = InTar /\ Here' = Here
    BY DEF InTar, Here
  <1> QED
    BY <1>1, SameJob DEF CalmWalk

LEMMA NextCalmWalk ==
  ASSUME AInv, params.calm, CalmWalk, ~TailLost', [ANext]_avars
  PROVE  CalmWalk'
  <1>0. ~DropWriterLoses
    BY DEF DropWriterLoses, TailLost, Goto
  <1>1. CASE AUI \/ UNCHANGED avars
    <2>1. UNCHANGED worker /\ UNCHANGED local
      BY <1>1, UISparesArchive DEF AUI, avars, vars
    <2> QED
      BY <2>1, CalmElsewhere DEF worker, local, Reached
  <1>2. CASE Source \/ AnnounceMount \/ Mount \/ Measure \/ AnnounceSource \/ Open
    <2>1. /\ UNCHANGED <<params, pos, header, data, tar, hidden, bytes_in>>
          /\ step # "list" /\ step' # "list" /\ step' \notin Inside
      BY <1>2 DEF Source, AnnounceMount, Mount, Measure, AnnounceSource, Open, At, Goto, Silent,
             Unwalked, vars, worker, SendTick, SendStarted, Inside
    <2> QED
      BY <2>1, CalmElsewhere DEF Reached
  <1>3. CASE \/ \E e \in Errors : AppendFails(e)
             \/ Finish \/ DropWriter \/ DropWriterPanics \/ Return \/ AExit
    <2>1. /\ UNCHANGED <<params, pos, header, data, tar, hidden>>
          /\ step # "list" /\ step' # "list" /\ step' \notin Inside
      BY <1>3 DEF AppendFails, Abort, Finish, DropWriter, DropWriterLoses, DropWriterPanics,
             Return, AExit, Exit,
             local, At, Goto, Unwalked, Inside, AInv, WalkReport
    <2>2. bytes_in \in Nat
      BY DEF AInv, ATypes
    <2>3. bytes_in' = bytes_in
      BY <1>3, <2>2 DEF AppendFails, Abort, Finish, DropWriter, DropWriterLoses, DropWriterPanics,
             Return, AExit,
             Silent, vars, worker, Move1, Panic, SendFinished, SendFailed, Report, Exit
    <2> QED
      BY <2>1, <2>3, CalmElsewhere DEF Reached
  <1>4. CASE \E e \in Errors : CallFails(e)
    BY <1>4 DEF CallFails
  <1>5. CASE PassHidden
    BY <1>5 DEF PassHidden, CalmWalk
  <1> QED
    BY <1>0, <1>1, <1>2, <1>3, <1>4, <1>5, CalmPassing, CalmInside, CalmAppend, CalmList
       DEF ANext, AWorker

\* What is lost stays lost.
LEMMA TailStaysLost ==
  ASSUME AInv, TailLost, [ANext]_avars
  PROVE  TailLost'
  <1>1. params' = params
    BY JobStays
  <1>2. step' \in {"return", "done"}
    <2>1. CASE AUI \/ UNCHANGED avars
      BY <2>1 DEF AUI, avars, local, TailLost
    <2>2. CASE AWorker
      BY <2>2 DEF TailLost, AWorker, Source, AnnounceMount, Mount, Measure, AnnounceSource,
             Open, PassHidden, SkipSystem, Stat, CallFails, AppendFails, MaybeTick, AppendDir,
             ListDir, AppendLink, OpenFile, WriteHeader, CopyData, EndOfFile, Finish, DropWriter,
             DropWriterLoses, DropWriterPanics, Return, AExit, local, Goto, At, Walking
    <2> QED
      BY <2>1, <2>2 DEF ANext
  <1> QED
    BY <1>1, <1>2 DEF TailLost

-----------------------------------------------------------------------------
(* The announced total. *)

TotalsAgree ==
  /\ total_bytes \in {None, Total}
  /\ \A i \in 1..Len(chan) : chan[i].kind = "Started" => chan[i].total_bytes = Total

OnItsWay == total_bytes = Total \/ \E i \in 1..Len(chan) : chan[i].kind = "Started"

LEMMA EmitKeepsTotals ==
  ASSUME TypeOK, TotalsAgree, NEW e \in Events, Emit(e),
         e.kind = "Started" => e.total_bytes = Total,
         UNCHANGED <<params, total_bytes>>
  PROVE  /\ TotalsAgree'
         /\ OnItsWay \/ e.kind = "Started" => OnItsWay'
  <1>1. /\ Len(chan') = Len(chan) + 1 /\ Len(chan) \in Nat
        /\ chan'[Len(chan) + 1] = e
        /\ \A i \in 1..Len(chan) : chan'[i] = chan[i]
    BY Sent DEF TypeOK
  <1>2. Total' = Total
    BY SameJob
  <1>3. \A i \in 1..Len(chan') : i \in 1..Len(chan) \/ i = Len(chan) + 1
    BY <1>1
  <1>4. TotalsAgree'
    BY <1>1, <1>2, <1>3 DEF TotalsAgree
  <1>5. CASE e.kind = "Started"
    <2>1. Len(chan) + 1 \in 1..Len(chan')
      BY <1>1
    <2> QED
      BY <1>1, <1>4, <1>5, <2>1 DEF OnItsWay
  <1>6. CASE OnItsWay
    <2>1. \A i \in 1..Len(chan) : i \in 1..Len(chan')
      BY <1>1
    <2> QED
      BY <1>1, <1>2, <1>4, <1>6, <2>1 DEF OnItsWay
  <1> QED
    BY <1>4, <1>5, <1>6

LEMMA UIKeepsTotals ==
  ASSUME TypeOK, TotalsAgree, UI, UNCHANGED local
  PROVE  /\ TotalsAgree'
         /\ OnItsWay => OnItsWay'
  <1>1. Total' = Total
    BY SameJob DEF local
  <1>2. CASE UNCHANGED <<chan, total_bytes>>
    BY <1>1, <1>2 DEF TotalsAgree, OnItsWay
  <1>3. CASE /\ chan # <<>> /\ chan' = Tail(chan)
             /\ \/ Head(chan).kind = "Started" /\ total_bytes' = Head(chan).total_bytes
                \/ Head(chan).kind # "Started" /\ total_bytes' = total_bytes
    <2>1. /\ Head(chan) = chan[1] /\ 1 \in 1..Len(chan)
          /\ Len(chan) \in Nat /\ Len(chan') = Len(chan) - 1
          /\ \A i \in 1..Len(chan') : i + 1 \in 1..Len(chan) /\ chan'[i] = chan[i + 1]
      BY <1>3, Received DEF TypeOK
    <2>2. TotalsAgree'
      BY <1>1, <1>3, <2>1 DEF TotalsAgree
    <2>3. CASE Head(chan).kind = "Started"
      BY <1>1, <1>3, <2>1, <2>3 DEF TotalsAgree, OnItsWay
    <2>4. CASE Head(chan).kind # "Started"
      <3>1. SUFFICES ASSUME NEW i \in 1..Len(chan), chan[i].kind = "Started"
                     PROVE  \E j \in 1..Len(chan') : chan'[j].kind = "Started"
        BY <1>1, <1>3, <2>2, <2>4 DEF OnItsWay
      <3>2. i - 1 \in 1..Len(chan') /\ (i - 1) + 1 = i
        BY <2>1, <2>4, <3>1
      <3> QED
        BY <2>1, <3>1, <3>2
    <2> QED
      BY <2>2, <2>3, <2>4
  <1>4. CASE RecvStarted \/ RecvTick \/ RecvFinished \/ RecvFailed
    BY <1>3, <1>4 DEF RecvStarted, RecvTick, RecvFinished, RecvFailed, Receive
  <1>5. CASE BeginPoll \/ Join \/ RecvNothing \/ EndPoll
    BY <1>2, <1>5 DEF BeginPoll, Join, RecvNothing, EndPoll
  <1> QED
    BY <1>4, <1>5 DEF UI

\* What a step of do_archive sends.
LEMMA WorkerKeepsTotals ==
  ASSUME AInv, params.calm, TypeOK, TotalsAgree, AWorker
  PROVE  /\ TotalsAgree'
         /\ OnItsWay \/ Measure => OnItsWay'
  <1>1. params' = params /\ total_bytes' = total_bytes
    <2>1. params' = params
      BY JobStays DEF ANext
    <2>2. total_bytes' = total_bytes
      BY DEF AWorker, Source, AnnounceMount, Mount, Measure, AnnounceSource, Open, PassHidden,
             SkipSystem, Stat, CallFails, AppendFails, SkipOrAbort, Skip, Abort, MaybeTick,
             AppendDir, ListDir, AppendLink, OpenFile, WriteHeader, CopyData, EndOfFile, Finish,
             DropWriter, DropWriterLoses, DropWriterPanics, Return, AExit, Silent, vars, ui,
             SendTick,
             SendStarted, SendFinished, SendFailed, Report, Exit, Panic, Move1
    <2> QED
      BY <2>1, <2>2
  <1>2. /\ Tick(bytes_in, bytes_out) \in Events /\ Tick(bytes_in, bytes_out).kind = "Tick"
        /\ Finished(bytes_in, bytes_out) \in Events
        /\ Finished(bytes_in, bytes_out).kind = "Finished"
        /\ Failed \in Events /\ Failed.kind = "Failed"
    BY EmittedEvents DEF AInv, ATypes
  <1>3. CASE Measure
    <2>1. Emit(Started(Total)) /\ Total \in Nat
      BY <1>3 DEF Measure, SendStarted
    <2>2. Started(Total) \in Events /\ Started(Total).kind = "Started"
          /\ Started(Total).total_bytes = Total
      BY <2>1 DEF Events, Started
    <2> QED
      BY <1>1, <2>1, <2>2, EmitKeepsTotals
  <1>4. CASE UNCHANGED chan
    <2>1. TotalsAgree' /\ (OnItsWay => OnItsWay')
      BY <1>1, <1>4, SameJob DEF TotalsAgree, OnItsWay
    <2> QED
      BY <1>3, <2>1
  <1>5. CASE Emit(Tick(bytes_in, bytes_out))
    BY <1>1, <1>2, <1>3, <1>5, EmitKeepsTotals
  <1>6. CASE Emit(Finished(bytes_in, bytes_out)) \/ Emit(Failed)
    BY <1>1, <1>2, <1>3, <1>6, EmitKeepsTotals
  <1> QED
    BY <1>3, <1>4, <1>5, <1>6
       DEF AWorker, Source, AnnounceMount, Mount, AnnounceSource, Open, PassHidden,
           SkipSystem, Stat, CallFails, AppendFails, SkipOrAbort, Skip, Abort, MaybeTick,
           AppendDir, ListDir, AppendLink, OpenFile, WriteHeader, CopyData, EndOfFile, Finish,
           DropWriter, DropWriterLoses, DropWriterPanics, Return, AExit, Silent, vars, SendTick,
           SendFinished, SendFailed, Report, Exit, Panic, Move1

LEMMA NextAnnounced ==
  ASSUME AInv, params.calm, TypeOK, Announced, [ANext]_avars
  PROVE  Announced'
  <1> DEFINE Quiet == ok /\ step \notin {"source", "mount", "measure"}
  <1>1. TotalsAgree /\ (Quiet => OnItsWay)
    BY DEF Announced, TotalsAgree, OnItsWay
  <1>2. SUFFICES TotalsAgree' /\ (Quiet' => OnItsWay')
    BY DEF Announced, TotalsAgree, OnItsWay
  <1>3. CASE AUI
    BY <1>1, <1>3, UIKeepsTotals DEF AUI, local
  <1>4. CASE UNCHANGED avars
    BY <1>1, <1>4, SameJob DEF avars, vars, ui, local, TotalsAgree, OnItsWay
  <1>5. CASE AWorker
    <2>1. Quiet' => Quiet \/ Measure
      BY <1>5 DEF AWorker, Source, AnnounceMount, Mount, Measure, AnnounceSource, Open, PassHidden,
             SkipSystem, Stat, CallFails, AppendFails, SkipOrAbort, Skip, Abort, MaybeTick,
             AppendDir, ListDir, AppendLink, OpenFile, WriteHeader, CopyData, EndOfFile, Finish,
             DropWriter, DropWriterLoses, DropWriterPanics, Return, AExit, local, Goto, At,
             Walking, Unwalked, Fail,
             AInv, WalkReport, After
    <2> QED
      BY <1>1, <1>5, <2>1, WorkerKeepsTotals
  <1> QED
    BY <1>3, <1>4, <1>5 DEF ANext

-----------------------------------------------------------------------------
(* A healthy directory. *)

\* Nothing stops the walk of a healthy directory.
GoesWell == Healthy => ok /\ step # "mount" /\ (step = "done" => outcome = "Finished")

LEMMA NextGoesWell ==
  ASSUME AInv, GoesWell, params' = params, [ANext]_avars
  PROVE  GoesWell'
  <1>1. SUFFICES ASSUME Healthy
                 PROVE  ok' /\ step' # "mount" /\ (step' = "done" => outcome' = "Finished")
    BY DEF GoesWell, Healthy
  <1>2. ok /\ step # "mount" /\ (step = "done" => outcome = "Finished")
    BY <1>1 DEF GoesWell
  <1>3. params.calm /\ params.room /\ params.opens /\ params.source = "directory"
    BY <1>1 DEF Healthy
  <1>4. CASE AUI \/ UNCHANGED avars
    <2>1. UNCHANGED worker /\ UNCHANGED local
      BY <1>4, UISparesArchive DEF AUI, avars, vars
    <2>2. ok' = ok /\ step' = step /\ outcome' = outcome
      BY <2>1 DEF worker, local
    <2> QED
      BY <1>2, <2>2
  <1>5. CASE Source \/ AnnounceMount \/ Mount \/ Measure \/ AnnounceSource \/ Open
    BY <1>2, <1>3, <1>5 DEF Source, AnnounceMount, Mount, Measure, AnnounceSource, Open, At, Goto
  <1>6. CASE \E e \in Errors : CallFails(e) \/ AppendFails(e)
    BY <1>3, <1>6 DEF CallFails, AppendFails
  <1>7. CASE PassHidden \/ SkipSystem \/ Stat \/ MaybeTick \/ AppendDir \/ ListDir \/ AppendLink
             \/ OpenFile \/ WriteHeader \/ CopyData \/ EndOfFile \/ DropWriter
             \/ DropWriterLoses
    BY <1>2, <1>7 DEF PassHidden, SkipSystem, Stat, Skip, MaybeTick, AppendDir, ListDir,
       AppendLink, OpenFile, WriteHeader, CopyData, EndOfFile, DropWriter, DropWriterLoses,
       Goto
  <1>8. CASE Finish \/ DropWriterPanics
    BY <1>2, <1>3, <1>8 DEF Finish, DropWriterPanics, Goto
  <1>9. CASE Return
    BY <1>2, <1>9 DEF Return, Goto, SendFinished, Report, Unwalked
  <1>10. CASE AExit
    BY <1>2, <1>10 DEF AExit, Exit, local
  <1> QED
    BY <1>4, <1>5, <1>6, <1>7, <1>8, <1>9, <1>10 DEF ANext, AWorker

LEMMA InitCInv == AInit => CInv
  <1> SUFFICES ASSUME AInit PROVE CInv
    OBVIOUS
  <1> USE DEF AInit, InitSession
  <1>1. JobFacts /\ SizeUpTo[0] = 0
    BY JobTypes, SizesAddUp
  <1>2. ~(step \in Inside) /\ Reached = 0 /\ InTar = {} /\ Len(tar) = 0 /\ Len(chan) = 0
    BY DEF Inside, Reached, InTar
  <1>3. CalmWalk
    BY <1>1, <1>2 DEF CalmWalk
  <1>4. Announced
    BY <1>2 DEF Announced
  <1> QED
    BY <1>3, <1>4 DEF CInv

\* The invariant of an archive of a tree that is left alone, by the one that
\* holds for every tree and the one of its session.
THEOREM CalmArchiveInvariant == ASpec => []CInv
  <1>1. AInv /\ TypeOK /\ CInv /\ [ANext]_avars => CInv'
    <2> SUFFICES ASSUME AInv, TypeOK, CInv, [ANext]_avars PROVE CInv'
      OBVIOUS
    <2>1. params' = params
      BY JobStays
    <2>2. params.calm => (TailLost' \/ CalmWalk') /\ Announced'
      BY NextCalmWalk, NextAnnounced, TailStaysLost DEF CInv
    <2>3. GoesWell'
      BY <2>1, NextGoesWell DEF CInv, GoesWell
    <2> QED
      BY <2>1, <2>2, <2>3 DEF CInv, GoesWell
  <1> QED
    BY <1>1, InitCInv, ArchiveInvariant, ArchiveImplementsSession, SessionTypeOK, PTL
       DEF ASpec, ImplementsSession

\* Entries in the order of the walk are as many as they are different.
LEMMA OrderedTarHasNoDuplicates ==
  ASSUME AInv, NEW n, InOrder(tar, n)
  PROVE  Len(tar) = Cardinality(InTar)
  <1>1. Len(tar) \in Nat /\ \A k \in 1..Len(tar) : tar[k].entry \in Nat
    BY EntriesOfTar
  <1> DEFINE f == [k \in 1..Len(tar) |-> tar[k].entry]
  <1>2. f \in Surjection(1..Len(tar), InTar)
    BY DEF Surjection, InTar
  <1>3. ASSUME NEW k \in 1..Len(tar), NEW l \in 1..Len(tar), f[k] = f[l]
        PROVE  k = l
    <2>1. k < l => f[k] < f[l]
      BY DEF InOrder
    <2>2. l < k => f[l] < f[k]
      BY DEF InOrder
    <2> QED
      BY <1>1, <1>3, <2>1, <2>2
  <1>4. f \in Injection(1..Len(tar), InTar)
    BY <1>2, <1>3 DEF Injection, IsInjective, Surjection
  <1>5. ExistsBijection(1..Len(tar), InTar)
    BY <1>2, <1>4 DEF ExistsBijection, Bijection
  <1> QED
    BY <1>1, <1>5, FS_CountingElements

\* A healthy archive holds every entry that is not pruned, once and complete,
\* and its gauge ends at exactly the announced total.
THEOREM CalmArchivesAreExact == ASpec => []CalmArchiveIsExact
  <1>1. AInv /\ CInv /\ IInv => CalmArchiveIsExact
    <2> SUFFICES ASSUME AInv, CInv, IInv, Healthy, thread = "gone"
        PROVE  /\ outcome = "Finished"
               /\ Restorable = (2..Length) \ Pruned
               /\ Len(tar) = Cardinality(Restorable)
               /\ shown.status = "Finished" => total_bytes = shown.bytes_in
      BY DEF CalmArchiveIsExact, Length
    <2>1. step = "done" /\ ok /\ outcome = "Finished" /\ CalmWalk /\ Announced
      BY DEF AInv, WalkReport, CInv, Healthy, TailLost
    <2>2. pos = Length + 1 /\ data = 0 /\ Length \in Nat /\ params \in Jobs
      BY <2>1, JobTypes DEF AInv, ATypes, WalkReport, After, JobFacts
    <2>3. Reached = Length /\ pos - 1 = Length
      BY <2>1, <2>2 DEF Reached
    <2>4. InTar = (2..Length) \ Pruned /\ InOrder(tar, Length)
      BY <2>1, <2>3 DEF CalmWalk, InOrder
    <2>5. Len(tar) = Cardinality(InTar)
      BY <2>4, OrderedTarHasNoDuplicates
    <2>8. Restorable = InTar
      <3>1. Len(tar) \in Nat
        BY EntriesOfTar
      <3>2. \A k \in 1..Len(tar) : \A l \in 1..k : ~Torn(l)
        BY <2>4, <3>1 DEF InOrder, Torn
      <3>3. BehindTorn = {}
        BY <3>2 DEF BehindTorn
      <3> QED
        BY <3>3, RestorableOrBehindTorn
    <2>6. bytes_in = Total
      <3>1. SizeUpTo[Length] \in Nat
        BY <2>2, SizesAddUp
      <3>2. bytes_in = SizeUpTo[Length] + 0
        BY <2>1, <2>2, <2>3 DEF CalmWalk
      <3> QED
        BY <3>1, <3>2 DEF Total, Length
    <2>7. ASSUME shown.status = "Finished" PROVE total_bytes = shown.bytes_in
      <3>1. status = "Finished" /\ shown.bytes_in = bytes_in
        BY <2>7 DEF IInv, UIKnowsOutcome, FrameIsExact
      <3>2. chan = <<>>
        BY <3>1 DEF IInv, TerminalIsLast
      <3>3. total_bytes = Total
        BY <2>1, <3>2 DEF Announced
      <3> QED
        BY <2>6, <3>1, <3>3
    <2> QED
      BY <2>1, <2>4, <2>5, <2>7, <2>8
  <1> QED
    BY <1>1, ArchiveInvariant, CalmArchiveInvariant, ArchiveImplementsSession,
       SessionInvariant, PTL DEF ImplementsSession

-----------------------------------------------------------------------------
(* The selection. *)

\* What is above a directory is above the paths below it, and what is above
\* such a path is either in that directory's subtree or above it.
LEMMA AboveNests ==
  ASSUME params \in Jobs, NEW i \in 1..Length, NEW j \in 1..i, i \in Below(j)
  PROVE  /\ Above(j) \subseteq Above(i)
         /\ \A a \in Above(i) : a \in Below(j) \/ (a \in Above(j) /\ a < j)
  <1>1. JobFacts
    BY JobTypes
  <1>2. i \in Nat /\ j \in Nat /\ j \in 1..Length /\ i <= params.tree[j].last
    BY <1>1 DEF JobFacts, Below
  <1>3. ASSUME NEW a \in Above(j) PROVE a \in Above(i)
    <2>1. CASE a = 0
      BY <2>1 DEF Above
    <2>2. CASE a \in 1..j /\ j \in Below(a)
      <3>1. a \in 1..Length /\ params.tree[j].last <= params.tree[a].last
        BY <1>1, <1>2, <2>2 DEF JobFacts, Below
      <3>2. params.tree[j].last \in Nat /\ params.tree[a].last \in Nat /\ a \in Nat
        BY <1>1, <1>2, <3>1 DEF JobFacts
      <3>3. a \in 1..i /\ i \in a .. params.tree[a].last
        BY <1>2, <2>2, <3>1, <3>2
      <3> QED
        BY <3>3 DEF Above, Below
    <2> QED
      BY <2>1, <2>2 DEF Above
  <1>4. ASSUME NEW a \in Above(i) PROVE a \in Below(j) \/ (a \in Above(j) /\ a < j)
    <2>1. CASE a = 0
      BY <1>2, <2>1 DEF Above
    <2>2. CASE a \in 1..i /\ i \in Below(a)
      <3>1. a \in Nat /\ a \in 1..Length /\ params.tree[a].last \in Nat
            /\ params.tree[j].last \in Nat /\ i <= params.tree[a].last
        BY <1>1, <1>2, <2>2 DEF JobFacts, Below
      <3>2. CASE a >= j
        BY <1>2, <2>2, <3>1, <3>2 DEF Below
      <3>3. CASE a < j
        BY <1>2, <2>2, <3>1, <3>3 DEF Below, Above
      <3> QED
        BY <1>2, <3>1, <3>2, <3>3
    <2> QED
      BY <2>1, <2>2 DEF Above
  <1> QED
    BY <1>3, <1>4

\* Of the marks on the way to a path, one is nearest.
LEMMA NearestMark ==
  ASSUME params \in Jobs, NEW i \in 1..Length, NEW M, M \subseteq Above(i), M # {}
  PROVE  \E x \in M : \A y \in M : y <= x
  <1>1. i \in Nat /\ Above(i) \subseteq 0..i
    BY JobTypes DEF JobFacts, Above
  <1>2. M \subseteq 0..i
    BY <1>1
  <1> QED
    BY <1>1, <1>2, GreatestOf

\* Un-checked means: the nearest mark is an exclusion.
LEMMA ExcludedUnlessNearer ==
  ASSUME params \in Jobs, NEW i \in 1..Length
  PROVE  /\ Above(i) \cap Sel.excluded = {} => ~ExplicitlyExcluded(i)
         /\ \A a \in Above(i) \cap Sel.included :
              (\A x \in Above(i) \cap Sel.excluded : x < a) => ~ExplicitlyExcluded(i)
         /\ ~ExplicitlyExcluded(i) /\ Marks(i) # {} =>
              \E a \in Above(i) \cap Sel.included :
                \A x \in Above(i) \cap Sel.excluded : x < a
  <1>1. Above(i) \subseteq Nat
    BY JobTypes DEF JobFacts, Above
  <1>2. Above(i) \cap Sel.excluded = {} => ~ExplicitlyExcluded(i)
    BY DEF ExplicitlyExcluded, Marks
  <1>3. ASSUME NEW a \in Above(i) \cap Sel.included,
               \A x \in Above(i) \cap Sel.excluded : x < a
        PROVE  ~ExplicitlyExcluded(i)
    <2>1. SUFFICES ASSUME NEW x \in Marks(i) \cap Sel.excluded, \A y \in Marks(i) : y <= x
                   PROVE  FALSE
      BY DEF ExplicitlyExcluded
    <2>2. a \in Marks(i) /\ x \in Above(i) \cap Sel.excluded
      BY DEF Marks
    <2>3. a <= x /\ x < a /\ a \in Nat /\ x \in Nat
      BY <1>1, <1>3, <2>1, <2>2
    <2> QED
      BY <2>3
  <1>4. ASSUME ~ExplicitlyExcluded(i), Marks(i) # {}
        PROVE  \E a \in Above(i) \cap Sel.included :
                 \A x \in Above(i) \cap Sel.excluded : x < a
    <2>1. Marks(i) \subseteq Above(i)
      BY DEF Marks
    <2>2. PICK a \in Marks(i) : \A y \in Marks(i) : y <= a
      BY <1>4, <2>1, NearestMark
    <2>3. a \in Above(i) \cap Sel.included /\ a \notin Sel.excluded
      BY <1>4, <2>2 DEF ExplicitlyExcluded, Marks
    <2>4. ASSUME NEW x \in Above(i) \cap Sel.excluded PROVE x < a
      <3>1. x \in Marks(i) /\ x # a
        BY <2>3 DEF Marks
      <3>2. x <= a /\ x \in Nat /\ a \in Nat
        BY <1>1, <2>2, <2>3, <3>1
      <3> QED
        BY <3>1, <3>2
    <2> QED
      BY <2>3, <2>4
  <1> QED
    BY <1>2, <1>3, <1>4

LEMMA UnprunedFilesAreMeant ==
  ASSUME params \in Jobs, Sel # None, NEW i \in 1..Length,
         params.tree[i].kind = "file", i \notin Pruned
  PROVE  Fully(i) /\ i \notin Sel.globbed
  <1>1. i \in 1..i /\ i \in Below(i)
    BY JobTypes DEF JobFacts, Below
  <1>2. ~Skipped(i)
    BY <1>1 DEF Pruned, Length
  <1>3. IsIncluded(i)
    BY <1>2 DEF Skipped, Kept
  <1>4. ~ExplicitlyExcluded(i) /\ (Sel.included = {} \/ Marks(i) # {})
    BY <1>3 DEF IsIncluded
  <1>5. ASSUME Marks(i) # {} PROVE Fully(i)
    BY <1>4, <1>5, ExcludedUnlessNearer DEF Fully
  <1>6. ASSUME Sel.included = {}, Marks(i) = {} PROVE Fully(i)
    BY <1>6 DEF Fully, Marks
  <1> QED
    BY <1>3, <1>4, <1>5, <1>6 DEF IsIncluded

LEMMA MeantFilesAreUnpruned ==
  ASSUME params \in Jobs, Sel # None, NEW i \in 1..Length, Fully(i),
         Above(i) \cap Sel.globbed = {},
         \A j \in Above(i) \ {0} : ~params.tree[j].system
  PROVE  i \notin Pruned
  <1>1. JobFacts /\ i \in Nat
    BY JobTypes DEF JobFacts
  <1>2. SUFFICES ASSUME NEW j \in 1..i, i \in Below(j) PROVE ~Skipped(j)
    BY DEF Pruned
  <1>3. j \in Above(i) /\ j \in Above(j) /\ j # 0 /\ j \in 1..Length
    <2>1. j \in Nat /\ j \in 1..Length /\ j \in 1..j
      BY <1>1, <1>2 DEF JobFacts
    <2>2. j \in Below(j)
      BY <1>1, <2>1 DEF Below, JobFacts
    <2> QED
      BY <1>2, <2>1, <2>2 DEF Above
  <1>4. ~params.tree[j].system /\ j \notin Sel.globbed
    BY <1>3
  <1>5. /\ Above(j) \subseteq Above(i)
        /\ \A a \in Above(i) : a \in Below(j) \/ (a \in Above(j) /\ a < j)
    BY <1>2, AboveNests
  <1>6. CASE Sel.included = {} /\ Above(i) \cap Sel.excluded = {}
    <2>1. ~ExplicitlyExcluded(j)
      BY <1>3, <1>5, <1>6, ExcludedUnlessNearer
    <2> QED
      BY <1>4, <1>6, <2>1 DEF Skipped, Kept, IsIncluded
  <1>7. ASSUME NEW a \in Above(i) \cap Sel.included,
               \A x \in Above(i) \cap Sel.excluded : x < a
        PROVE  ~Skipped(j)
    <2>1. CASE a \in Above(j)
      <3>1. \A x \in Above(j) \cap Sel.excluded : x < a
        BY <1>5, <1>7
      <3>2. ~ExplicitlyExcluded(j) /\ Marks(j) # {}
        BY <1>3, <1>7, <2>1, <3>1, ExcludedUnlessNearer DEF Marks
      <3> QED
        BY <1>4, <3>2 DEF Skipped, Kept, IsIncluded
    <2>2. CASE a \in Below(j) /\ a \notin Above(j)
      <3>1. a # j
        BY <1>3, <2>2
      <3>2. params.tree[j].last > j
        BY <1>1, <1>3, <2>2, <3>1 DEF Below, JobFacts
      <3>3. params.tree[j].kind = "dir"
        BY <1>1, <1>3, <3>2 DEF JobFacts
      <3> QED
        BY <1>4, <1>7, <2>2, <3>3 DEF Skipped, Kept
    <2> QED
      BY <1>5, <1>7, <2>1, <2>2
  <1> QED
    BY <1>6, <1>7 DEF Fully

\* The files of a healthy archive are those the selection means: none that is
\* not selected, and every one that is.
THEOREM SelectionsAreHonoured == ASpec => []SelectionIsHonoured
  <1>1. AInv /\ CalmArchiveIsExact => SelectionIsHonoured
    <2> SUFFICES ASSUME AInv, CalmArchiveIsExact, Healthy, Sel # None, thread = "gone",
                        NEW i \in 1..Length, params.tree[i].kind = "file"
                 PROVE  /\ i \in Restorable => Fully(i) /\ i \notin Sel.globbed
                        /\ Fully(i) /\ Above(i) \cap Sel.globbed = {}
                             /\ (\A j \in Above(i) \ {0} : ~params.tree[j].system)
                           => i \in Restorable
      BY DEF SelectionIsHonoured, Length
    <2>1. JobFacts /\ params \in Jobs
      BY JobTypes DEF AInv, ATypes
    <2>2. Restorable = (2..Length) \ Pruned
      BY DEF CalmArchiveIsExact, Length
    <2>3. i \in 2..Length
      BY <2>1 DEF JobFacts
    <2> QED
      BY <2>1, <2>2, <2>3, UnprunedFilesAreMeant, MeantFilesAreUnpruned
  <1> QED
    BY <1>1, ArchiveInvariant, CalmArchivesAreExact, PTL
=============================================================================
