----------------------------- MODULE TuiProofs -----------------------------
(***************************************************************************)
(* The TUI's state machine for every set of disks, every order they are    *)
(* listed in, and any number of sessions: one view at a time, keys go to   *)
(* what is on the screen, and whatever is plugged or pulled meanwhile, a   *)
(* session works on the disk that was picked for it.                       *)
(***************************************************************************)
EXTENDS Tui, SequenceTheorems, TLAPS

\* A listing is a sequence of disks.
LEMMA Listed ==
  ASSUME NEW all \in BOOLEAN, NEW s \in Enumerate(all)
  PROVE  s \in Seq(Disks)
  <1> DEFINE Shown == { i \in DOMAIN Order : all \/ Order[i] \notin Internal }
  <1>1. PICK n \in 0..Len(Order) : \E r \in [1..n -> Shown] : s = [k \in DOMAIN r |-> Order[r[k]]]
    BY DEF Enumerate
  <1>2. Order \in Seq(Disks) /\ DOMAIN Order = 1..Len(Order) /\ Len(Order) \in Nat
    BY TuiAssumption
  <1>3. \A i \in Shown : Order[i] \in Disks
    BY <1>2, ElementOfSeq
  <1>4. n \in Nat /\ s \in [1..n -> Disks]
    BY <1>1, <1>2, <1>3
  <1> QED
    BY <1>4

LEMMA ClampIsNatural ==
  ASSUME NEW x \in Nat, NEW n \in Nat
  PROVE  /\ Clamp(x, n) \in Nat
         /\ n # 0 => Clamp(x, n) < n
         /\ x < n => Clamp(x, n) = x
  BY DEF Clamp

LEMMA PathIsDisk ==
  ASSUME TypeOK, NEW idx \in Nat
  PROVE  Path(idx) \in Disks \cup {None}
  <1>1. devices \in Seq(Disks) /\ Len(devices) \in Nat
    BY DEF TypeOK
  <1>2. CASE idx < Len(devices)
    <2>1. idx + 1 \in 1..Len(devices)
      BY <1>1, <1>2
    <2> QED
      BY <1>1, <1>2, <2>1, ElementOfSeq DEF Path, InRange
  <1>3. CASE ~(idx < Len(devices))
    BY <1>3 DEF Path, InRange
  <1> QED
    BY <1>2, <1>3

\* The sessions without one of them are the others, in their order.
LEMMA WithoutOne ==
  ASSUME NEW S, NEW s \in Seq(S), NEW v \in Nat, v < Len(s)
  PROVE  /\ Without(s, v) \in Seq(S)
         /\ Len(Without(s, v)) = Len(s) - 1
         /\ \A i \in 1..v : Without(s, v)[i] = s[i]
         /\ \A i \in v+1..Len(s)-1 : Without(s, v)[i] = s[i + 1]
  <1> DEFINE n == Len(s)
             a == SubSeq(s, 1, v)
             b == SubSeq(s, v + 2, n)
  <1>1. n \in Nat /\ v < n /\ \A i \in 1..n : s[i] \in S
    BY ElementOfSeq
  <1> HIDE DEF n
  <1>2. a \in Seq(S) /\ Len(a) = v /\ \A i \in 1..v : a[i] = s[i]
    <2>1. 1 \in Int /\ v \in Int /\ \A i \in 1..v : s[i] \in S
      BY <1>1
    <2>2. /\ a \in Seq(S)
          /\ Len(a) = IF 1 <= v THEN v - 1 + 1 ELSE 0
          /\ \A i \in 1 .. v - 1 + 1 : a[i] = s[1 + i - 1]
      BY <2>1, SubSeqProperties
    <2>3. v - 1 + 1 = v /\ \A i \in 1..v : 1 + i - 1 = i
      OBVIOUS
    <2>4. Len(a) = v
      BY <2>2
    <2> HIDE DEF a
    <2> QED
      BY <2>2, <2>3, <2>4
  <1>3. b \in Seq(S) /\ Len(b) = n - v - 1 /\ \A i \in 1 .. n - v - 1 : b[i] = s[i + v + 1]
    <2>1. v + 2 \in Int /\ n \in Int /\ \A i \in v+2..n : s[i] \in S
      BY <1>1
    <2> DEFINE m == v + 2
    <2>2. m \in Int /\ m = v + 2
      BY <1>1
    <2> HIDE DEF m
    <2>3. /\ SubSeq(s, m, n) \in Seq(S)
          /\ Len(SubSeq(s, m, n)) = IF m <= n THEN n - m + 1 ELSE 0
          /\ \A i \in 1 .. n - m + 1 : SubSeq(s, m, n)[i] = s[m + i - 1]
      BY <2>1, <2>2, SubSeqProperties
    <2>4. b = SubSeq(s, m, n)
      BY <2>2
    <2> HIDE DEF b
    <2>5. Len(b) = n - v - 1
      BY <1>1, <2>2, <2>3, <2>4
    <2>6. \A i \in 1 .. n - v - 1 : i \in 1 .. n - m + 1 /\ m + i - 1 = i + v + 1
      BY <1>1, <2>2
    <2> QED
      BY <2>3, <2>4, <2>5, <2>6
  <1> HIDE DEF a, b
  <1>4. /\ a \o b \in Seq(S) /\ Len(a \o b) = Len(a) + Len(b)
        /\ \A i \in 1 .. Len(a) + Len(b) : (a \o b)[i] = IF i <= Len(a) THEN a[i] ELSE b[i - Len(a)]
    <2>1. a \in Seq(S) /\ b \in Seq(S)
      BY <1>2, <1>3
    <2> QED
      BY <2>1, ConcatProperties
  <1>5. Len(a \o b) = n - 1
    BY <1>1, <1>2, <1>3, <1>4
  <1>6. \A i \in 1..v : (a \o b)[i] = s[i]
    <2>1. \A i \in 1..v : i \in 1..Len(a) + Len(b) /\ i <= Len(a)
      BY <1>1, <1>2, <1>3
    <2> QED
      BY <1>2, <1>4, <2>1
  <1>7. \A i \in v+1..n-1 : (a \o b)[i] = s[i + 1]
    <2>1. \A i \in v+1..n-1 : /\ i \in 1..Len(a) + Len(b) /\ ~(i <= Len(a))
                             /\ i - v \in 1 .. n - v - 1 /\ i - v + v + 1 = i + 1
      BY <1>1, <1>2, <1>3
    <2> QED
      BY <1>2, <1>3, <1>4, <2>1
  <1>8. Without(s, v) = a \o b
    BY DEF Without, a, b, n
  <1> QED
    BY <1>4, <1>5, <1>6, <1>7, <1>8 DEF n

-----------------------------------------------------------------------------
(* The invariant. *)

\* Who gets the key is the only one there is to get it.
LEMMA OnlyHandler ==
  ASSUME Exclusive
  PROVE  /\ Handler = "home" =>
              /\ viewing_session = None /\ confirm = None /\ browser = None
              /\ codec_picker = None /\ action_picker = None /\ browser_purpose = None
         /\ Handler = "action_picker" =>
              /\ viewing_session = None /\ confirm = None /\ browser = None
              /\ codec_picker = None /\ browser_purpose = None /\ action_picker # None
         /\ Handler = "codec_picker" =>
              /\ viewing_session = None /\ confirm = None /\ browser = None
              /\ action_picker = None /\ browser_purpose = None /\ codec_picker # None
         /\ Handler = "browser" =>
              /\ viewing_session = None /\ confirm = None /\ browser # None
              /\ action_picker = None /\ codec_picker = None
         /\ Handler = "confirm" =>
              /\ viewing_session = None /\ confirm # None /\ browser = None
              /\ action_picker = None /\ codec_picker = None /\ browser_purpose = None
         /\ Handler = "progress" =>
              /\ viewing_session # None /\ confirm = None /\ browser = None
              /\ action_picker = None /\ codec_picker = None /\ browser_purpose = None
              /\ viewing_session < Len(sessions)
  BY DEF Exclusive, Handler

LEMMA InitTInv == Init => TInv
  <1> SUFFICES ASSUME Init
               PROVE  TInv
    OBVIOUS
  <1>1. devices \in Seq(Disks)
    BY Listed DEF Init
  <1>2. sessions = <<>> /\ sessions \in Seq(Sessions) /\ 1..Len(sessions) = {}
    BY DEF Init
  <1>3. TypeOK
    BY <1>1, <1>2 DEF Init, TypeOK
  <1>4. Exclusive /\ AboutThePicked
    BY DEF Init, Exclusive, AboutThePicked
  <1>5. SessionsHitThePickedDisk /\ InOrder
    BY <1>2 DEF SessionsHitThePickedDisk, InOrder
  <1> QED
    BY <1>3, <1>4, <1>5 DEF TInv

\* What a step keeps that leaves the list, the pick and the sessions alone.
LEMMA SameList ==
  ASSUME TInv, UNCHANGED <<devices, picked, sessions, started>>
  PROVE  /\ SessionsHitThePickedDisk' /\ InOrder'
         /\ \A idx : IsPicked(idx)' <=> IsPicked(idx)
  BY DEF TInv, SessionsHitThePickedDisk, InOrder, IsPicked, Path, InRange

LEMMA HomeKeepsTInv ==
  ASSUME TInv,
         HomeQuit \/ HomeHelp \/ HomeBrowse \/ HomeEnter \/ HomeToggleAll
           \/ HomeMove \/ HomeTab \/ HomeRefresh
  PROVE  TInv'
  <1>k. /\ viewing_session = None /\ confirm = None /\ browser = None
        /\ codec_picker = None /\ action_picker = None /\ browser_purpose = None
    BY OnlyHandler DEF HomeQuit, HomeHelp, HomeBrowse, HomeEnter, HomeToggleAll,
       HomeMove, HomeTab, HomeRefresh, Key, TInv
  <1>t. TypeOK /\ Exclusive /\ AboutThePicked
    BY DEF TInv
  <1>n. Len(devices) \in Nat /\ Len(sessions) \in Nat /\ selected \in Nat
    BY <1>t DEF TypeOK
  <1>1. CASE HomeQuit \/ HomeHelp \/ HomeBrowse \/ HomeMove
    <2> USE <1>1 DEF HomeQuit, HomeHelp, HomeBrowse, HomeMove, listing, window, modals, running
    <2>1. UNCHANGED <<devices, picked, sessions, started>>
      OBVIOUS
    <2>2. TypeOK'
      <3>1. selected' \in Nat
        BY <1>n
      <3>2. show_help' \in BOOLEAN /\ quit' \in BOOLEAN /\ browser' \in {"Open", "Save", None}
            /\ browser_purpose' \in Purposes \cup {None}
        BY <1>t DEF TypeOK
      <3>3. UNCHANGED <<devices, show_all, too_small, action_picker, codec_picker, confirm,
                       sessions, viewing_session, started, picked>>
        OBVIOUS
      <3> QED
        BY <1>t, <3>1, <3>2, <3>3 DEF TypeOK
    <2>3. Exclusive' /\ AboutThePicked'
      BY <1>k, <1>t DEF Exclusive, AboutThePicked
    <2> QED
      BY <2>1, <2>2, <2>3, SameList DEF TInv
  <1>2. CASE HomeTab
    <2> USE <1>2 DEF HomeTab, listing, window, modals, running
    <2>1. UNCHANGED <<devices, picked, sessions, started>>
      OBVIOUS
    <2>2. TypeOK'
      BY <1>t DEF TypeOK
    <2>3. Len(sessions) > 0
      BY <1>t, <1>n, EmptySeq DEF TypeOK
    <2>4. Exclusive' /\ AboutThePicked'
      BY <1>k, <2>3 DEF Exclusive, AboutThePicked
    <2> QED
      BY <2>1, <2>2, <2>4, SameList DEF TInv
  <1>3. CASE HomeEnter
    <2>1. /\ action_picker' = [device_idx |-> selected, action |-> "Flash"]
          /\ picked' = Highlighted
          /\ UNCHANGED <<listing, window, codec_picker, browser, browser_purpose,
                         confirm, running, quit>>
      BY <1>3 DEF HomeEnter
    <2>2. Clamp(selected, Len(devices)) \in Nat /\ (selected < Len(devices) => Clamp(selected, Len(devices)) = selected)
      BY <1>n, ClampIsNatural
    <2>3. picked' \in Disks \cup {None}
      BY <1>t, <2>1, <2>2, PathIsDisk DEF Highlighted
    <2>4. IsPicked(selected)'
      <3>1. Path(selected) \in {Highlighted, None}
        BY <2>2 DEF Highlighted, Path, InRange
      <3> QED
        BY <2>1, <3>1 DEF IsPicked, Path, InRange, listing
    <2>5. TypeOK'
      BY <1>t, <1>n, <2>1, <2>3 DEF TypeOK, ActionPickers, Actions, listing, window, running
    <2>6. Exclusive'
      BY <1>k, <2>1 DEF Exclusive, running
    <2>7. AboutThePicked'
      <3>1. action_picker'.device_idx = selected'
        BY <2>1 DEF listing
      <3> QED
        BY <1>k, <2>1, <2>4, <3>1 DEF AboutThePicked, IsPicked, Path, InRange, listing
    <2>8. SessionsHitThePickedDisk' /\ InOrder'
      BY <2>1 DEF TInv, SessionsHitThePickedDisk, InOrder, running
    <2> QED
      BY <2>5, <2>6, <2>7, <2>8 DEF TInv
  <1>4. CASE HomeToggleAll \/ HomeRefresh
    <2>1. devices' \in Seq(Disks) /\ Len(devices') \in Nat
      <3>1. show_all' \in BOOLEAN /\ (devices' \in Enumerate(show_all') \/ devices' \in Enumerate(show_all))
        BY <1>4, <1>t DEF HomeToggleAll, HomeRefresh, TypeOK
      <3>2. devices' \in Seq(Disks)
        BY <3>1, <1>t, Listed DEF TypeOK
      <3> QED
        BY <3>2
    <2>2. selected' \in Nat
      BY <1>4, <1>n, <2>1, ClampIsNatural DEF HomeToggleAll, HomeRefresh
    <2>3. UNCHANGED <<window, modals, running, quit, picked>> /\ show_all' \in BOOLEAN
      BY <1>4, <1>t DEF HomeToggleAll, HomeRefresh, TypeOK
    <2>4. TypeOK'
      BY <1>t, <2>1, <2>2, <2>3 DEF TypeOK, window, modals, running
    <2>5. Exclusive' /\ AboutThePicked'
      BY <1>k, <2>3 DEF Exclusive, AboutThePicked, modals, running
    <2>6. SessionsHitThePickedDisk' /\ InOrder'
      BY <2>3 DEF TInv, SessionsHitThePickedDisk, InOrder, running
    <2> QED
      BY <2>4, <2>5, <2>6 DEF TInv
  <1> QED
    BY <1>1, <1>2, <1>3, <1>4

LEMMA PickersKeepTInv ==
  ASSUME TInv, ActionEsc \/ ActionMove \/ ActionEnter \/ CodecEsc \/ CodecEnter
  PROVE  TInv'
  <1>t. TypeOK /\ Exclusive /\ AboutThePicked
    BY DEF TInv
  <1>s. UNCHANGED <<devices, picked, sessions, started>>
    BY DEF ActionEsc, ActionMove, ActionEnter, CodecEsc, CodecEnter, listing, running
  <1>h. SessionsHitThePickedDisk' /\ InOrder' /\ \A idx : IsPicked(idx)' <=> IsPicked(idx)
    BY <1>s, SameList
  <1>1. CASE ActionEsc \/ ActionMove \/ ActionEnter
    <2>k. /\ viewing_session = None /\ confirm = None /\ browser = None
          /\ codec_picker = None /\ browser_purpose = None /\ action_picker # None
          /\ action_picker \in ActionPickers
      BY <1>1, <1>t, OnlyHandler DEF ActionEsc, ActionMove, ActionEnter, Key, TypeOK
    <2>1. CASE ActionEsc
      <3>1. TypeOK'
        BY <2>1, <1>t DEF ActionEsc, TypeOK, listing, window, running
      <3>2. Exclusive' /\ AboutThePicked'
        BY <2>1, <2>k DEF ActionEsc, Exclusive, AboutThePicked, listing, window, running
      <3> QED
        BY <1>h, <3>1, <3>2 DEF TInv
    <2>2. CASE ActionMove
      <3>1. PICK a \in Actions : action_picker' = [action_picker EXCEPT !.action = a]
        BY <2>2 DEF ActionMove
      <3>2. action_picker' \in ActionPickers /\ action_picker'.device_idx = action_picker.device_idx
        BY <2>k, <3>1 DEF ActionPickers
      <3>3. UNCHANGED <<listing, window, codec_picker, browser, browser_purpose, confirm, running, quit, picked>>
        BY <2>2 DEF ActionMove
      <3>4. TypeOK'
        BY <1>t, <3>2, <3>3 DEF TypeOK, listing, window, running
      <3>5. Exclusive'
        BY <2>k, <3>3 DEF Exclusive, running
      <3>6. AboutThePicked'
        BY <1>t, <2>k, <3>2, <3>3 DEF AboutThePicked, IsPicked, Path, InRange, listing
      <3> QED
        BY <1>h, <3>4, <3>5, <3>6 DEF TInv
    <2>3. CASE ActionEnter
      <3>1. /\ action_picker' = None
            /\ UNCHANGED <<listing, window, confirm, running, quit, picked>>
        BY <2>3 DEF ActionEnter
      <3>2. CASE action_picker.action = "Flash"
        <4>1. browser_purpose' = action_picker /\ browser' = "Open" /\ codec_picker' = codec_picker
          BY <2>3, <3>2 DEF ActionEnter
        <4>2. TypeOK'
          BY <1>t, <2>k, <3>1, <4>1 DEF TypeOK, ActionPickers, Purposes, listing, window, running
        <4>3. Exclusive'
          BY <2>k, <3>1, <4>1, TuiAssumption DEF Exclusive, running
        <4>4. AboutThePicked'
          BY <1>t, <2>k, <3>1, <4>1 DEF AboutThePicked, IsPicked, Path, InRange, listing
        <4> QED
          BY <1>h, <4>2, <4>3, <4>4 DEF TInv
      <3>3. CASE action_picker.action # "Flash"
        <4>1. codec_picker' = action_picker /\ UNCHANGED <<browser, browser_purpose>>
          BY <2>3, <3>3 DEF ActionEnter
        <4>2. TypeOK'
          <5>1. action_picker \in CodecPickers
            BY <2>k, <3>3 DEF ActionPickers, CodecPickers, Actions
          <5> QED
            BY <1>t, <3>1, <4>1, <5>1 DEF TypeOK, listing, window, running
        <4>3. Exclusive'
          BY <2>k, <3>1, <4>1 DEF Exclusive, running
        <4>4. AboutThePicked'
          BY <1>t, <2>k, <3>1, <4>1 DEF AboutThePicked, IsPicked, Path, InRange, listing
        <4> QED
          BY <1>h, <4>2, <4>3, <4>4 DEF TInv
      <3> QED
        BY <3>2, <3>3
    <2> QED
      BY <1>1, <2>1, <2>2, <2>3
  <1>2. CASE CodecEsc \/ CodecEnter
    <2>k. /\ viewing_session = None /\ confirm = None /\ browser = None
          /\ action_picker = None /\ browser_purpose = None /\ codec_picker # None
          /\ codec_picker \in CodecPickers
      BY <1>2, <1>t, OnlyHandler DEF CodecEsc, CodecEnter, Key, TypeOK
    <2>t. codec_picker \in ActionPickers /\ codec_picker \in Purposes
      BY <2>k DEF CodecPickers, ActionPickers, Purposes, Actions
    <2>1. CASE CodecEsc
      <3>1. TypeOK'
        BY <2>1, <2>t, <1>t DEF CodecEsc, TypeOK, listing, window, running
      <3>2. Exclusive'
        BY <2>1, <2>k DEF CodecEsc, Exclusive, running
      <3>3. AboutThePicked'
        BY <1>t, <2>1, <2>k DEF CodecEsc, AboutThePicked, IsPicked, Path, InRange, listing
      <3> QED
        BY <1>h, <3>1, <3>2, <3>3 DEF TInv
    <2>2. CASE CodecEnter
      <3>1. TypeOK'
        BY <2>2, <2>t, <1>t DEF CodecEnter, TypeOK, listing, window, running
      <3>2. Exclusive'
        BY <2>2, <2>k, TuiAssumption DEF CodecEnter, Exclusive, running
      <3>3. AboutThePicked'
        BY <1>t, <2>2, <2>k DEF CodecEnter, AboutThePicked, IsPicked, Path, InRange, listing
      <3> QED
        BY <1>h, <3>1, <3>2, <3>3 DEF TInv
    <2> QED
      BY <1>2, <2>1, <2>2
  <1> QED
    BY <1>1, <1>2

\* A session that starts is the last one, on the disk that was picked.
LEMMA StartAppends ==
  ASSUME TInv, NEW kind \in Actions, NEW idx \in Nat, Start(kind, idx)
  PROVE  /\ Len(sessions) \in Nat /\ Len(sessions') = Len(sessions) + 1
         /\ sessions' \in Seq(Sessions)
         /\ \A i \in 1..Len(sessions) : sessions'[i] = sessions[i]
         /\ sessions'[Len(sessions) + 1].id = started
         /\ sessions'[Len(sessions) + 1].kind = kind
         /\ sessions'[Len(sessions) + 1].device = Path(idx)
         /\ sessions'[Len(sessions) + 1].intended = picked
         /\ \A i \in 1..Len(sessions') : i \in 1..Len(sessions) \/ i = Len(sessions) + 1
         /\ viewing_session' = Len(sessions) /\ started' = started + 1 /\ started \in Nat
  <1> DEFINE s == [id |-> started, kind |-> kind, device |-> Path(idx),
                   intended |-> picked, status |-> "Running"]
  <1>1. sessions \in Seq(Sessions) /\ started \in Nat /\ picked \in Disks \cup {None}
        /\ Path(idx) \in Disks \cup {None}
    BY PathIsDisk DEF TInv, TypeOK
  <1>2. s \in Sessions
    BY <1>1 DEF Sessions, Status
  <1>3. /\ sessions' = Append(sessions, s) /\ viewing_session' = Len(sessions') - 1
        /\ started' = started + 1
    BY DEF Start
  <1>s. s.id = started /\ s.kind = kind /\ s.device = Path(idx) /\ s.intended = picked
    OBVIOUS
  <1> HIDE DEF s
  <1>4. /\ sessions' \in Seq(Sessions) /\ Len(sessions') = Len(sessions) + 1
        /\ \A i \in 1..Len(sessions) : sessions'[i] = sessions[i]
        /\ sessions'[Len(sessions) + 1] = s
    BY <1>1, <1>2, <1>3, AppendProperties
  <1>5. Len(sessions) \in Nat
    BY <1>1, LenProperties
  <1>6. \A i \in 1..Len(sessions') : i \in 1..Len(sessions) \/ i = Len(sessions) + 1
    BY <1>4, <1>5
  <1>7. viewing_session' = Len(sessions)
    BY <1>3, <1>4, <1>5
  <1> QED
    BY <1>1, <1>3, <1>4, <1>5, <1>6, <1>7, <1>s

LEMMA StartKeepsSessions ==
  ASSUME TInv, NEW kind \in Actions, NEW idx \in Nat, Start(kind, idx),
         IsPicked(idx), UNCHANGED <<devices, picked>>
  PROVE  /\ sessions' \in Seq(Sessions) /\ started' \in Nat
         /\ viewing_session' \in Nat /\ viewing_session' < Len(sessions')
         /\ SessionsHitThePickedDisk' /\ InOrder'
  <1>1. PICK n \in Nat : n = Len(sessions)
    BY StartAppends
  <1>2. /\ Len(sessions') = n + 1 /\ sessions' \in Seq(Sessions)
        /\ \A i \in 1..n : sessions'[i] = sessions[i]
        /\ sessions'[n + 1].id = started
        /\ sessions'[n + 1].device = Path(idx) /\ sessions'[n + 1].intended = picked
        /\ \A i \in 1..n + 1 : i \in 1..n \/ i = n + 1
        /\ viewing_session' = n /\ started' = started + 1 /\ started \in Nat
    <2>1. /\ sessions'[Len(sessions) + 1].id = started
          /\ sessions'[Len(sessions) + 1].device = Path(idx)
          /\ sessions'[Len(sessions) + 1].intended = picked
      BY StartAppends
    <2>2. /\ Len(sessions') = Len(sessions) + 1 /\ sessions' \in Seq(Sessions)
          /\ \A i \in 1..Len(sessions) : sessions'[i] = sessions[i]
          /\ \A i \in 1..Len(sessions') : i \in 1..Len(sessions) \/ i = Len(sessions) + 1
          /\ viewing_session' = Len(sessions) /\ started' = started + 1 /\ started \in Nat
      BY StartAppends
    <2> QED
      BY <1>1, <2>1, <2>2
  <1>3. SessionsHitThePickedDisk'
    BY <1>1, <1>2 DEF SessionsHitThePickedDisk, IsPicked, TInv
  <1>4. \A i \in 1..n : sessions[i].id < started /\ sessions[i].id \in Nat
    <2>1. sessions \in Seq(Sessions)
      BY DEF TInv, TypeOK
    <2>2. \A i \in 1..n : sessions[i] \in Sessions
      BY <1>1, <2>1, ElementOfSeq
    <2> QED
      BY <1>1, <2>2 DEF TInv, InOrder, Sessions
  <1>5. \A i \in 1..n + 1 : sessions'[i].id < started'
    BY <1>2, <1>4
  <1>6. ASSUME NEW i \in 1..n + 1, NEW j \in 1..n + 1, i < j
        PROVE  sessions'[i].id < sessions'[j].id
    <2>1. i \in 1..n
      BY <1>6
    <2>2. CASE j \in 1..n
      BY <1>1, <1>2, <1>6, <2>1, <2>2 DEF TInv, InOrder
    <2>3. CASE j = n + 1
      BY <1>2, <1>4, <2>1, <2>3
    <2> QED
      BY <1>2, <2>2, <2>3
  <1>7. InOrder'
    BY <1>2, <1>5, <1>6 DEF InOrder
  <1> QED
    BY <1>2, <1>3, <1>7

LEMMA BrowserKeepsTInv ==
  ASSUME TInv, BrowserEsc \/ BrowserPick
  PROVE  TInv'
  <1>t. TypeOK /\ Exclusive /\ AboutThePicked
    BY DEF TInv
  <1>k. /\ viewing_session = None /\ confirm = None /\ browser # None
        /\ action_picker = None /\ codec_picker = None
    BY <1>t, OnlyHandler DEF BrowserEsc, BrowserPick, Key
  <1>s. /\ browser' = None /\ browser_purpose' = None
        /\ UNCHANGED <<listing, window, action_picker, codec_picker, quit, picked>>
    BY DEF BrowserEsc, BrowserPick
  <1>1. CASE UNCHANGED <<confirm, running>>
    <2>1. TypeOK'
      BY <1>t, <1>s, <1>1 DEF TypeOK, listing, window, running
    <2>2. Exclusive' /\ AboutThePicked'
      BY <1>k, <1>s, <1>1 DEF Exclusive, AboutThePicked, running
    <2>3. UNCHANGED <<devices, picked, sessions, started>>
      BY <1>s, <1>1 DEF listing, running
    <2> QED
      BY <2>1, <2>2, <2>3, SameList DEF TInv
  <1>2. CASE /\ browser_purpose # None /\ browser_purpose.action = "Flash"
             /\ confirm' = [device_idx |-> browser_purpose.device_idx, focus |-> "Cancel"]
             /\ UNCHANGED running
    <2>1. browser_purpose \in Purposes
      BY <1>2, <1>t DEF TypeOK
    <2>2. confirm' \in Confirms /\ confirm'.device_idx = browser_purpose.device_idx
      BY <1>2, <2>1 DEF Purposes, Confirms
    <2>3. TypeOK'
      BY <1>t, <1>s, <1>2, <2>2 DEF TypeOK, listing, window, running
    <2>4. Exclusive'
      BY <1>k, <1>s, <1>2 DEF Exclusive, running
    <2>5. AboutThePicked'
      BY <1>t, <1>k, <1>s, <1>2, <2>2 DEF AboutThePicked, IsPicked, Path, InRange, listing
    <2>6. UNCHANGED <<devices, picked, sessions, started>>
      BY <1>s, <1>2 DEF listing, running
    <2> QED
      BY <2>3, <2>4, <2>5, <2>6, SameList DEF TInv
  <1>3. CASE /\ browser_purpose # None /\ browser_purpose.action # "Flash"
             /\ Start(browser_purpose.action, browser_purpose.device_idx)
             /\ UNCHANGED confirm
    <2>1. browser_purpose \in Purposes
      BY <1>3, <1>t DEF TypeOK
    <2>2. /\ browser_purpose.action \in Actions /\ browser_purpose.device_idx \in Nat
          /\ IsPicked(browser_purpose.device_idx) /\ UNCHANGED <<devices, picked>>
      BY <1>3, <1>t, <1>s, <2>1 DEF Purposes, AboutThePicked, listing
    <2>3. /\ sessions' \in Seq(Sessions) /\ started' \in Nat
          /\ viewing_session' \in Nat /\ viewing_session' < Len(sessions')
          /\ SessionsHitThePickedDisk' /\ InOrder'
      BY <1>3, <2>2, StartKeepsSessions
    <2>4. TypeOK'
      BY <1>t, <1>s, <1>3, <2>3 DEF TypeOK, listing, window
    <2>5. Exclusive' /\ AboutThePicked'
      BY <1>k, <1>s, <1>3, <2>3 DEF Exclusive, AboutThePicked
    <2> QED
      BY <2>3, <2>4, <2>5 DEF TInv
  <1> QED
    BY <1>1, <1>2, <1>3 DEF BrowserEsc, BrowserPick

LEMMA ConfirmKeepsTInv ==
  ASSUME TInv, ConfirmCancel \/ ConfirmFocus \/ ConfirmEnter
  PROVE  TInv'
  <1>t. TypeOK /\ Exclusive /\ AboutThePicked
    BY DEF TInv
  <1>k. /\ viewing_session = None /\ confirm # None /\ browser = None
        /\ action_picker = None /\ codec_picker = None /\ browser_purpose = None
        /\ confirm \in Confirms
    BY <1>t, OnlyHandler DEF ConfirmCancel, ConfirmFocus, ConfirmEnter, Key, TypeOK
  <1>s. UNCHANGED <<listing, window, action_picker, codec_picker, browser,
                    browser_purpose, quit, picked>>
    BY DEF ConfirmCancel, ConfirmFocus, ConfirmEnter
  <1>1. CASE ConfirmCancel
    <2>1. confirm' = None /\ UNCHANGED running
      BY <1>1 DEF ConfirmCancel
    <2>2. TypeOK' /\ Exclusive' /\ AboutThePicked'
      BY <1>t, <1>k, <1>s, <2>1 DEF TypeOK, Exclusive, AboutThePicked, listing, window, running
    <2>3. UNCHANGED <<devices, picked, sessions, started>>
      BY <1>s, <2>1 DEF listing, running
    <2> QED
      BY <2>2, <2>3, SameList DEF TInv
  <1>2. CASE ConfirmFocus
    <2>1. PICK f \in {"Cancel", "Confirm"} : confirm' = [confirm EXCEPT !.focus = f]
      BY <1>2 DEF ConfirmFocus
    <2>2. UNCHANGED running
      BY <1>2 DEF ConfirmFocus
    <2>3. confirm' \in Confirms /\ confirm'.device_idx = confirm.device_idx
      BY <1>k, <2>1 DEF Confirms
    <2>4. TypeOK'
      BY <1>t, <1>s, <2>2, <2>3 DEF TypeOK, listing, window, running
    <2>5. Exclusive'
      BY <1>k, <1>s, <2>2 DEF Exclusive, running
    <2>6. AboutThePicked'
      BY <1>t, <1>k, <1>s, <2>3 DEF AboutThePicked, IsPicked, Path, InRange, listing
    <2>7. UNCHANGED <<devices, picked, sessions, started>>
      BY <1>s, <2>2 DEF listing, running
    <2> QED
      BY <2>4, <2>5, <2>6, <2>7, SameList DEF TInv
  <1>3. CASE ConfirmEnter
    <2>1. confirm' = None /\ Start("Flash", confirm.device_idx)
      BY <1>3 DEF ConfirmEnter
    <2>2. /\ "Flash" \in Actions /\ confirm.device_idx \in Nat
          /\ IsPicked(confirm.device_idx) /\ UNCHANGED <<devices, picked>>
      BY <1>k, <1>t, <1>s DEF Actions, Confirms, AboutThePicked, listing
    <2>3. /\ sessions' \in Seq(Sessions) /\ started' \in Nat
          /\ viewing_session' \in Nat /\ viewing_session' < Len(sessions')
          /\ SessionsHitThePickedDisk' /\ InOrder'
      BY <2>1, <2>2, StartKeepsSessions
    <2>4. TypeOK'
      BY <1>t, <1>s, <2>1, <2>3 DEF TypeOK, listing, window
    <2>5. Exclusive' /\ AboutThePicked'
      BY <1>k, <1>s, <2>1, <2>3 DEF Exclusive, AboutThePicked
    <2> QED
      BY <2>3, <2>4, <2>5 DEF TInv
  <1> QED
    BY <1>1, <1>2, <1>3

LEMMA ProgressKeepsTInv ==
  ASSUME TInv, ProgressDetach \/ ProgressDismiss \/ ProgressTab
  PROVE  TInv'
  <1>t. TypeOK /\ Exclusive /\ AboutThePicked
    BY DEF TInv
  <1>k. /\ viewing_session # None /\ confirm = None /\ browser = None
        /\ action_picker = None /\ codec_picker = None /\ browser_purpose = None
        /\ viewing_session < Len(sessions) /\ viewing_session \in Nat
        /\ Len(sessions) \in Nat
    BY <1>t, OnlyHandler DEF ProgressDetach, ProgressDismiss, ProgressTab, Key, TypeOK
  <1>s. UNCHANGED <<listing, window, modals, started, quit, picked>>
    BY DEF ProgressDetach, ProgressDismiss, ProgressTab
  <1>m. AboutThePicked'
    BY <1>k, <1>s DEF AboutThePicked, modals
  <1>1. CASE ProgressDetach \/ ProgressTab
    <2>1. UNCHANGED sessions /\ viewing_session' \in Nat \cup {None}
          /\ (viewing_session' # None => viewing_session' < Len(sessions))
      BY <1>1, <1>k DEF ProgressDetach, ProgressTab
    <2>2. TypeOK' /\ Exclusive'
      BY <1>t, <1>k, <1>s, <2>1 DEF TypeOK, Exclusive, listing, window, modals
    <2>3. UNCHANGED <<devices, picked, sessions, started>>
      BY <1>s, <2>1 DEF listing
    <2> QED
      BY <1>m, <2>2, <2>3, SameList DEF TInv
  <1>2. CASE ProgressDismiss
    <2>1. PICK v \in Nat, n \in Nat : v = viewing_session /\ n = Len(sessions)
      BY <1>k
    <2>2. /\ sessions' \in Seq(Sessions) /\ Len(sessions') = n - 1 /\ v < n
          /\ \A i \in 1..v : sessions'[i] = sessions[i]
          /\ \A i \in v+1..n-1 : sessions'[i] = sessions[i + 1]
      BY <1>2, <1>k, <1>t, <2>1, WithoutOne DEF ProgressDismiss, TypeOK
    <2>3. /\ viewing_session' \in Nat \cup {None}
          /\ viewing_session' # None => viewing_session' < Len(sessions')
      <3>1. CASE sessions' = <<>>
        BY <1>2, <3>1 DEF ProgressDismiss
      <3>2. CASE sessions' # <<>>
        <4>1. Len(sessions') \in Nat /\ Len(sessions') # 0
          BY <2>2, <3>2, EmptySeq
        <4>2. viewing_session' = Clamp(viewing_session, Len(sessions'))
          BY <1>2, <3>2 DEF ProgressDismiss
        <4> QED
          BY <1>k, <4>1, <4>2, ClampIsNatural
      <3> QED
        BY <3>1, <3>2
    <2>4. TypeOK'
      BY <1>t, <1>s, <2>2, <2>3 DEF TypeOK, listing, window, modals
    <2>5. Exclusive'
      BY <1>k, <1>s, <2>3 DEF Exclusive, modals
    <2>6. \A i \in 1..n-1 : \/ i \in 1..v /\ i \in 1..n
                            \/ i \in v+1..n-1 /\ i + 1 \in 1..n
      BY <2>2
    <2>7. SessionsHitThePickedDisk'
      <3>1. ASSUME NEW i \in 1..n-1
            PROVE  sessions'[i].device \in {sessions'[i].intended, None}
        BY <2>1, <2>2, <2>6 DEF TInv, SessionsHitThePickedDisk
      <3> QED
        BY <2>2, <3>1 DEF SessionsHitThePickedDisk
    <2>8. InOrder'
      <3>1. ASSUME NEW i \in 1..n-1
            PROVE  sessions'[i].id < started'
        BY <1>s, <2>1, <2>2, <2>6 DEF TInv, InOrder
      <3>2. ASSUME NEW i \in 1..n-1, NEW j \in 1..n-1, i < j
            PROVE  sessions'[i].id < sessions'[j].id
        <4>0. \A a, b \in 1..n : a < b => sessions[a].id < sessions[b].id
          BY <2>1 DEF TInv, InOrder
        <4>1. CASE i \in 1..v /\ j \in 1..v
          BY <2>2, <2>6, <3>2, <4>0, <4>1
        <4>2. CASE i \in 1..v /\ j \in v+1..n-1
          <5>1. sessions'[i] = sessions[i] /\ sessions'[j] = sessions[j + 1]
            BY <2>2, <4>2
          <5>2. i < j + 1 /\ i \in 1..n /\ j + 1 \in 1..n
            BY <2>2, <4>2
          <5> QED
            BY <4>0, <5>1, <5>2
        <4>3. CASE i \in v+1..n-1 /\ j \in v+1..n-1
          <5>1. sessions'[i] = sessions[i + 1] /\ sessions'[j] = sessions[j + 1]
            BY <2>2, <4>3
          <5>2. i + 1 < j + 1 /\ i + 1 \in 1..n /\ j + 1 \in 1..n
            BY <3>2, <4>3
          <5> QED
            BY <4>0, <5>1, <5>2
        <4>4. CASE i \in v+1..n-1 /\ j \in 1..v
          BY <3>2, <4>4
        <4> QED
          BY <2>6, <4>1, <4>2, <4>3, <4>4
      <3> QED
        BY <2>2, <3>1, <3>2 DEF InOrder
    <2> QED
      BY <1>m, <2>4, <2>5, <2>7, <2>8 DEF TInv
  <1> QED
    BY <1>1, <1>2

\* Only its status changes when a session ends.
LEMMA EndKeepsSessions ==
  ASSUME TInv, NEW i \in 1..Len(sessions), SessionEnds(i)
  PROVE  /\ sessions' \in Seq(Sessions) /\ Len(sessions') = Len(sessions)
         /\ \A j \in 1..Len(sessions) :
              /\ sessions'[j].id = sessions[j].id /\ sessions'[j].kind = sessions[j].kind
              /\ sessions'[j].device = sessions[j].device
              /\ sessions'[j].intended = sessions[j].intended
  <1>1. sessions \in Seq(Sessions) /\ sessions[i] \in Sessions
    BY ElementOfSeq DEF TInv, TypeOK
  <1>2. sessions' = [sessions EXCEPT ![i] = [sessions[i] EXCEPT !.status = "Ended"]]
    BY DEF SessionEnds
  <1>3. [sessions[i] EXCEPT !.status = "Ended"] \in Sessions
    BY <1>1 DEF Sessions, Status
  <1>4. sessions' \in Seq(Sessions) /\ Len(sessions') = Len(sessions)
    BY <1>1, <1>2, <1>3, ExceptSeq
  <1>5. ASSUME NEW j \in 1..Len(sessions)
        PROVE  /\ sessions'[j].id = sessions[j].id /\ sessions'[j].kind = sessions[j].kind
               /\ sessions'[j].device = sessions[j].device
               /\ sessions'[j].intended = sessions[j].intended
    <2>1. CASE j = i
      BY <1>1, <1>2, <2>1 DEF Sessions
    <2>2. CASE j # i
      BY <1>1, <1>2, <2>2
    <2> QED
      BY <2>1, <2>2
  <1> QED
    BY <1>4, <1>5

LEMMA OthersKeepTInv ==
  ASSUME TInv, CtrlC \/ Resize \/ UNCHANGED vars
  PROVE  TInv'
  <1>1. UNCHANGED <<listing, show_help, modals, running, picked>> /\ too_small' \in BOOLEAN /\ quit' \in BOOLEAN
    BY DEF CtrlC, Resize, vars, window, TInv, TypeOK
  <1>2. TypeOK'
    BY <1>1 DEF TInv, TypeOK, listing, modals, running
  <1>3. Exclusive'
    BY <1>1 DEF TInv, Exclusive, modals, running
  <1>4. AboutThePicked'
    BY <1>1 DEF TInv, AboutThePicked, IsPicked, Path, InRange, listing, modals
  <1>5. UNCHANGED <<devices, picked, sessions, started>>
    BY <1>1 DEF listing, running
  <1> QED
    BY <1>2, <1>3, <1>4, <1>5, SameList DEF TInv

LEMMA EndKeepsTInv ==
  ASSUME TInv, NEW i \in 1..Len(sessions), SessionEnds(i)
  PROVE  TInv'
  <1>1. /\ sessions' \in Seq(Sessions) /\ Len(sessions') = Len(sessions)
        /\ \A j \in 1..Len(sessions) :
              /\ sessions'[j].id = sessions[j].id
              /\ sessions'[j].device = sessions[j].device
              /\ sessions'[j].intended = sessions[j].intended
    BY EndKeepsSessions
  <1>2. UNCHANGED <<listing, window, modals, viewing_session, started, quit, picked>>
    BY DEF SessionEnds
  <1>3. TypeOK'
    BY <1>1, <1>2 DEF TInv, TypeOK, listing, window, modals
  <1>4. Exclusive'
    BY <1>1, <1>2 DEF TInv, Exclusive, modals
  <1>5. AboutThePicked'
    BY <1>2 DEF TInv, AboutThePicked, IsPicked, Path, InRange, listing, modals
  <1>6. SessionsHitThePickedDisk' /\ InOrder'
    BY <1>1, <1>2 DEF TInv, SessionsHitThePickedDisk, InOrder
  <1> QED
    BY <1>3, <1>4, <1>5, <1>6 DEF TInv

LEMMA NextTInv == TInv /\ [Next]_vars => TInv'
  BY HomeKeepsTInv, PickersKeepTInv, BrowserKeepsTInv, ConfirmKeepsTInv, ProgressKeepsTInv,
     EndKeepsTInv, OthersKeepTInv DEF Next

\* The invariant of the TUI.
THEOREM TuiInvariant == Spec => []TInv
  BY InitTInv, NextTInv, PTL DEF Spec

\* Every variable keeps its type.
THEOREM TuiTypeOK == Spec => []TypeOK
  BY TuiInvariant, PTL DEF TInv

-----------------------------------------------------------------------------
(* What it promises. *)

\* Of the five Options for what is on screen at most one is Some.
THEOREM TuiShowsOneThing == Spec => []OneThingAtATime
  <1>1. TInv => OneThingAtATime
    BY DEF TInv, Exclusive, OneThingAtATime
  <1> QED
    BY <1>1, TuiInvariant, PTL

\* Keys go to the view that is drawn on top.
THEOREM TuiKeysGoWhereShown == Spec => []KeysGoToWhatIsShown
  <1>1. TInv => KeysGoToWhatIsShown
    BY DEF TInv, Exclusive, KeysGoToWhatIsShown, Screen, Handler
  <1> QED
    BY <1>1, TuiInvariant, PTL

\* A session works on the disk that was highlighted when it was picked, or on
\* none, whatever was plugged, pulled or refreshed meanwhile.
THEOREM TuiHitsThePickedDisk == Spec => []SessionsHitThePickedDisk
  BY TuiInvariant, PTL DEF TInv

\* Only these touch the sessions: a pick, a confirmation, a dismissal, an end.
LEMMA OthersLeaveSessions ==
  ASSUME \/ CtrlC \/ HomeQuit \/ HomeHelp \/ HomeBrowse \/ HomeEnter \/ HomeToggleAll
         \/ HomeMove \/ HomeTab \/ HomeRefresh \/ ActionEsc \/ ActionMove \/ ActionEnter
         \/ CodecEsc \/ CodecEnter \/ BrowserEsc \/ ConfirmCancel \/ ConfirmFocus
         \/ ProgressDetach \/ ProgressTab \/ Resize \/ UNCHANGED vars
  PROVE  UNCHANGED sessions
  BY DEF CtrlC, HomeQuit, HomeHelp, HomeBrowse, HomeEnter, HomeToggleAll, HomeMove,
     HomeTab, HomeRefresh, ActionEsc, ActionMove, ActionEnter, CodecEsc, CodecEnter,
     BrowserEsc, ConfirmCancel, ConfirmFocus, ProgressDetach, ProgressTab, Resize,
     vars, running

\* No real disk is flashed without its own confirmation dialog.
THEOREM TuiConfirmsFlashes == Spec => FlashIsConfirmed
  <1> DEFINE Confirmed(i) ==
        /\ Screen \in {"confirm", "too_small"}
        /\ confirm # None /\ confirm.focus = "Confirm"
        /\ Path(confirm.device_idx) = sessions'[i].device
  <1>1. ASSUME TInv, [Next]_vars, NEW i \in 1..Len(sessions'), FlashBegins(i)
        PROVE  Confirmed(i)
    <2>s. sessions \in Seq(Sessions) /\ \A j \in 1..Len(sessions) : sessions[j].id < started /\ started \in Nat
      BY <1>1 DEF TInv, TypeOK, InOrder
    <2>0. \A j \in 1..Len(sessions) : sessions[j].id # started
      <3>1. \A j \in 1..Len(sessions) : sessions[j] \in Sessions
        BY <2>s, ElementOfSeq
      <3>2. \A j \in 1..Len(sessions) : sessions[j].id \in Nat
        BY <3>1 DEF Sessions
      <3> QED
        BY <2>s, <3>2
    <2>b. sessions'[i].id = started /\ sessions'[i].kind = "Flash" /\ sessions'[i].device # None
      BY <1>1 DEF FlashBegins
    <2>1. CASE ConfirmEnter
      <3>1. /\ viewing_session = None /\ confirm # None /\ browser = None
            /\ action_picker = None /\ codec_picker = None /\ confirm.device_idx \in Nat
        BY <1>1, <2>1, OnlyHandler DEF ConfirmEnter, Key, TInv, TypeOK, Confirms
      <3>2. confirm.focus = "Confirm" /\ Start("Flash", confirm.device_idx)
        BY <2>1 DEF ConfirmEnter
      <3>3. sessions'[i].device = Path(confirm.device_idx)
        <4>1. "Flash" \in Actions
          BY DEF Actions
        <4>2. i \in 1..Len(sessions) \/ i = Len(sessions) + 1
          BY <1>1, <3>1, <3>2, <4>1, StartAppends
        <4>3. i \in 1..Len(sessions) => sessions'[i] = sessions[i]
          BY <1>1, <3>1, <3>2, <4>1, StartAppends
        <4>4. sessions'[Len(sessions) + 1].device = Path(confirm.device_idx)
          BY <1>1, <3>1, <3>2, <4>1, StartAppends
        <4> QED
          BY <2>0, <2>b, <4>2, <4>3, <4>4
      <3>4. InRange(confirm.device_idx)
        BY <2>b, <3>3 DEF Path
      <3>5. Screen \in {"confirm", "too_small"}
        BY <3>1, <3>4 DEF Screen
      <3> QED
        BY <3>1, <3>2, <3>3, <3>5
    <2>2. CASE BrowserPick
      <3>1. CASE UNCHANGED sessions
        BY <1>1, <2>0, <2>b, <3>1
      <3>2. CASE /\ browser_purpose # None /\ browser_purpose.action # "Flash"
                 /\ Start(browser_purpose.action, browser_purpose.device_idx)
        <4>1. browser_purpose.action \in Actions /\ browser_purpose.device_idx \in Nat
          BY <1>1, <3>2 DEF TInv, TypeOK, Purposes
        <4>2. i \in 1..Len(sessions) \/ i = Len(sessions) + 1
          BY <1>1, <3>2, <4>1, StartAppends
        <4>3. i \in 1..Len(sessions) => sessions'[i] = sessions[i]
          BY <1>1, <3>2, <4>1, StartAppends
        <4>4. sessions'[Len(sessions) + 1].kind = browser_purpose.action
          BY <1>1, <3>2, <4>1, StartAppends
        <4> QED
          BY <2>0, <2>b, <3>2, <4>2, <4>3, <4>4
      <3> QED
        BY <2>2, <3>1, <3>2 DEF BrowserPick, running
    <2>3. CASE ProgressDismiss
      <3>1. viewing_session \in Nat /\ viewing_session < Len(sessions)
        BY <1>1, <2>3, OnlyHandler DEF ProgressDismiss, Key, TInv, TypeOK
      <3>n. Len(sessions) \in Nat
        BY <2>s, LenProperties
      <3>2. PICK v \in Nat, n \in Nat : v = viewing_session /\ n = Len(sessions)
        BY <3>n, <3>1
      <3>3. /\ Len(sessions') = n - 1 /\ v < n
            /\ \A j \in 1..v : sessions'[j] = sessions[j]
            /\ \A j \in v+1..n-1 : sessions'[j] = sessions[j + 1]
        BY <2>3, <2>s, <3>1, <3>2, WithoutOne DEF ProgressDismiss
      <3>4. \/ i \in 1..v /\ i \in 1..n
            \/ i \in v+1..n-1 /\ i + 1 \in 1..n
        BY <1>1, <3>3
      <3> QED
        BY <2>0, <2>b, <3>2, <3>3, <3>4
    <2>4. ASSUME NEW j \in 1..Len(sessions), SessionEnds(j)
          PROVE  Confirmed(i)
      BY <1>1, <2>0, <2>b, <2>4, EndKeepsSessions
    <2>5. CASE UNCHANGED sessions
      BY <1>1, <2>0, <2>b, <2>5
    <2> HIDE DEF Confirmed
    <2> QED
      BY <1>1, <2>1, <2>2, <2>3, <2>4, <2>5, OthersLeaveSessions DEF Next
  <1>2. TInv /\ [Next]_vars
          => [\A i \in 1..Len(sessions') : FlashBegins(i) =>
                /\ Screen \in {"confirm", "too_small"}
                /\ confirm # None /\ confirm.focus = "Confirm"
                /\ Path(confirm.device_idx) = sessions'[i].device]_vars
    BY <1>1
  <1> QED
    BY <1>2, TuiInvariant, PTL DEF Spec, FlashIsConfirmed

\* Dismissing one session leaves the others, running or not, where they are
\* in the order.
THEOREM TuiKeepsRunningSessions == Spec => RunningSessionsStay
  <1>1. ASSUME TInv, [Next]_vars, NEW i \in 1..Len(sessions), sessions[i].status = "Running"
        PROVE  \E j \in 1..Len(sessions') : sessions'[j].id = sessions[i].id
    <2>s. sessions \in Seq(Sessions) /\ TypeOK
      BY <1>1 DEF TInv, TypeOK
    <2>n. Len(sessions) \in Nat
      BY <2>s, LenProperties
    <2>1. CASE UNCHANGED sessions
      BY <2>1
    <2>2. ASSUME NEW kind \in Actions, NEW idx \in Nat, Start(kind, idx)
          PROVE  \E j \in 1..Len(sessions') : sessions'[j].id = sessions[i].id
      <3>1. Len(sessions') = Len(sessions) + 1 /\ sessions'[i] = sessions[i]
        BY <1>1, <2>2, StartAppends
      <3>2. i \in 1..Len(sessions')
        BY <2>n, <3>1
      <3> QED
        BY <3>1, <3>2
    <2>3. CASE ProgressDismiss
      <3>1. viewing_session \in Nat /\ viewing_session < Len(sessions)
            /\ sessions[viewing_session + 1].status # "Running"
        BY <1>1, <2>3, OnlyHandler DEF ProgressDismiss, Key, TInv, TypeOK
      <3>2. PICK v \in Nat, n \in Nat : v = viewing_session /\ n = Len(sessions)
        BY <2>n, <3>1
      <3>3. /\ Len(sessions') = n - 1 /\ v < n
            /\ \A j \in 1..v : sessions'[j] = sessions[j]
            /\ \A j \in v+1..n-1 : sessions'[j] = sessions[j + 1]
        BY <2>3, <2>s, <3>1, <3>2, WithoutOne DEF ProgressDismiss
      <3>4. i # v + 1
        BY <1>1, <3>1, <3>2
      <3>5. CASE i \in 1..v
        <4>1. i \in 1..n-1
          BY <3>3, <3>5
        <4> QED
          BY <3>3, <3>5, <4>1
      <3>6. CASE i \notin 1..v
        <4>1. i - 1 \in v+1..n-1 /\ i - 1 + 1 = i /\ i - 1 \in 1..n-1
          BY <3>2, <3>3, <3>4, <3>6
        <4>2. sessions'[i - 1] = sessions[i]
          BY <3>3, <4>1
        <4> QED
          BY <3>3, <4>1, <4>2
      <3> QED
        BY <3>5, <3>6
    <2>4. ASSUME NEW j \in 1..Len(sessions), SessionEnds(j)
          PROVE  \E k \in 1..Len(sessions') : sessions'[k].id = sessions[i].id
      BY <1>1, <2>4, EndKeepsSessions
    <2>5. CASE BrowserPick
      <3>1. CASE UNCHANGED sessions
        BY <2>1, <3>1
      <3>2. CASE browser_purpose # None /\ Start(browser_purpose.action, browser_purpose.device_idx)
        <4>1. browser_purpose.action \in Actions /\ browser_purpose.device_idx \in Nat
          BY <2>s, <3>2 DEF TypeOK, Purposes
        <4> QED
          BY <2>2, <3>2, <4>1
      <3> QED
        BY <2>5, <3>1, <3>2 DEF BrowserPick, running
    <2>6. CASE ConfirmEnter
      <3>1. confirm # None /\ confirm.device_idx \in Nat /\ "Flash" \in Actions
            /\ Start("Flash", confirm.device_idx)
        BY <1>1, <2>6, <2>s, OnlyHandler DEF ConfirmEnter, Key, TInv, TypeOK, Confirms, Actions
      <3> QED
        BY <2>2, <3>1
    <2> QED
      BY <1>1, <2>1, <2>3, <2>4, <2>5, <2>6, OthersLeaveSessions DEF Next
  <1>2. ASSUME TInv, [Next]_vars
        PROVE  \A i, j \in 1..Len(sessions') : i < j => sessions'[i].id < sessions'[j].id
    BY <1>2, NextTInv DEF TInv, InOrder
  <1>3. TInv /\ [Next]_vars
          => [/\ \A i \in 1..Len(sessions) : sessions[i].status = "Running" =>
                    \E j \in 1..Len(sessions') : sessions'[j].id = sessions[i].id
              /\ \A i, j \in 1..Len(sessions') : i < j => sessions'[i].id < sessions'[j].id]_vars
    BY <1>1, <1>2
  <1> QED
    BY <1>3, TuiInvariant, PTL DEF Spec, RunningSessionsStay

=================================================================================
