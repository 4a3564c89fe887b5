-------------------------------- MODULE Tui --------------------------------
(***************************************************************************)
(* The TUI's state machine: AppState, one key press at a time, as          *)
(* dispatch_key routes it, and the screen event_loop draws between two     *)
(* presses.  Sessions are what the UI sees of them (Job): running until    *)
(* they end.  Indices are the code's, from 0.                              *)
(***************************************************************************)
EXTENDS Naturals, Sequences

CONSTANTS
  Disks,        \* the disks that may be attached
  Internal,     \* those the OS layer marks is_system
  Order,        \* the order enumerate_raw lists them in
  MaxSessions,  \* bound on the sessions ever started
  None          \* the absent value of an Option, and the empty device path

ASSUME TuiAssumption ==
  /\ Internal \subseteq Disks
  /\ Order \in Seq(Disks)
  /\ MaxSessions \in Nat
  /\ None \notin Disks \cup Nat \cup {"Open", "Save"}

VARIABLES
  devices,        \* AppState.devices: what the last enumeration returned
  selected,       \* AppState.selected
  show_all, show_help,
  too_small,      \* was the terminal smaller than 80x24 at the last frame?
  action_picker, codec_picker,
  browser,        \* mode of the open file browser
  browser_purpose,
  confirm,
  sessions, viewing_session,
  quit,           \* has the event loop returned?
  started,        \* sessions started so far: the next one's identity
  picked          \* history: the disk highlighted when Enter was last pressed
                  \* on the home view

listing == <<devices, selected, show_all>>
window  == <<show_help, too_small>>
modals  == <<action_picker, codec_picker, browser, browser_purpose, confirm>>
running == <<sessions, viewing_session, started>>
vars == <<listing, window, modals, running, quit, picked>>

Actions == {"Flash", "Backup", "Archive"}
Status  == {"Running", "Ended"}

ActionPickers == [device_idx : Nat, action : Actions]
CodecPickers  == [device_idx : Nat, action : {"Backup", "Archive"}]
Purposes      == [device_idx : Nat, action : Actions]
Confirms      == [device_idx : Nat, focus : {"Cancel", "Confirm"}]
Sessions      == [id : Nat, kind : Actions, device : Disks \cup {None},
                  intended : Disks \cup {None}, status : Status]

TypeOK ==
  /\ devices \in Seq(Disks)
  /\ selected \in Nat
  /\ show_all \in BOOLEAN /\ show_help \in BOOLEAN /\ too_small \in BOOLEAN
  /\ quit \in BOOLEAN
  /\ action_picker \in ActionPickers \cup {None}
  /\ codec_picker \in CodecPickers \cup {None}
  /\ browser \in {"Open", "Save", None}
  /\ browser_purpose \in Purposes \cup {None}
  /\ confirm \in Confirms \cup {None}
  /\ sessions \in Seq(Sessions)
  /\ viewing_session \in Nat \cup {None}
  /\ started \in Nat
  /\ picked \in Disks \cup {None}

-----------------------------------------------------------------------------
(* Helpers. *)

InRange(idx) == idx < Len(devices)

\* devices.get(idx).map(path).unwrap_or_default()
Path(idx) == IF InRange(idx) THEN devices[idx + 1] ELSE None

\* x.min(len.saturating_sub(1))
Clamp(x, len) == IF len = 0 THEN 0 ELSE IF x < len THEN x ELSE len - 1

\* device::enumerate: the disks attached at this moment (any, they come and
\* go) in the order of the raw list, without the internal ones unless asked
\* for.  An enumeration that fails lists nothing, like one that finds nothing
\* (unwrap_or_default).
Enumerate(all) ==
  LET Shown == { i \in DOMAIN Order : all \/ Order[i] \notin Internal }
      Rows  == UNION { [1..n -> Shown] : n \in 0..Len(Order) }
      Attached == { r \in Rows : \A a, b \in DOMAIN r : a < b => r[a] < r[b] }
  IN  { [k \in DOMAIN r |-> Order[r[k]]] : r \in Attached }

\* The row the home view paints as selected.
Highlighted == Path(Clamp(selected, Len(devices)))

-----------------------------------------------------------------------------
(* Routing: who gets the next key, and what the last frame showed on top.  *)

Handler ==
  IF viewing_session # None THEN "progress"
  ELSE IF confirm # None THEN "confirm"
  ELSE IF browser # None THEN "browser"
  ELSE IF codec_picker # None THEN "codec_picker"
  ELSE IF action_picker # None THEN "action_picker"
  ELSE "home"

Screen ==
  IF too_small THEN "too_small"
  ELSE IF viewing_session # None /\ viewing_session < Len(sessions) THEN "progress"
  ELSE IF browser # None THEN "browser"
  ELSE IF action_picker # None
       THEN IF InRange(action_picker.device_idx) THEN "action_picker" ELSE "home"
  ELSE IF codec_picker # None THEN "codec_picker"
  ELSE IF confirm # None
       THEN IF InRange(confirm.device_idx) THEN "confirm" ELSE "home"
  ELSE IF show_help THEN "help"
  ELSE "home"

Key(handler) == ~quit /\ Handler = handler

-----------------------------------------------------------------------------
Init ==
  /\ \E all \in BOOLEAN : devices \in Enumerate(all)   \* --show-all
  /\ selected = 0
  /\ show_all = FALSE /\ show_help = FALSE
  /\ too_small \in BOOLEAN
  /\ action_picker = None /\ codec_picker = None
  /\ browser = None /\ browser_purpose = None
  /\ confirm = None
  /\ sessions = <<>> /\ viewing_session = None
  /\ quit = FALSE
  /\ started = 0
  /\ picked = None

-----------------------------------------------------------------------------
(* dispatch_key: Ctrl-C works everywhere. *)

CtrlC ==
  /\ ~quit
  /\ quit' = TRUE
  /\ UNCHANGED <<listing, window, modals, running, picked>>

(* handle_home_key *)

HomeQuit ==
  /\ Key("home")
  /\ IF show_help THEN show_help' = FALSE /\ UNCHANGED quit
                  ELSE quit' = TRUE /\ UNCHANGED show_help
  /\ UNCHANGED <<listing, too_small, modals, running, picked>>

HomeHelp ==
  /\ Key("home")
  /\ show_help' = ~show_help
  /\ UNCHANGED <<listing, too_small, modals, running, quit, picked>>

HomeBrowse ==
  /\ Key("home")
  /\ browser' = "Open" /\ browser_purpose' = None
  /\ UNCHANGED <<listing, window, action_picker, codec_picker, confirm,
                 running, quit, picked>>

HomeEnter ==
  /\ Key("home")
  /\ devices # <<>>
  /\ action_picker' = [device_idx |-> selected, action |-> "Flash"]
  /\ picked' = Highlighted
  /\ UNCHANGED <<listing, window, codec_picker, browser, browser_purpose,
                 confirm, running, quit>>

HomeToggleAll ==
  /\ Key("home")
  /\ show_all' = ~show_all
  /\ devices' \in Enumerate(show_all')
  /\ selected' = Clamp(selected, Len(devices'))
  /\ UNCHANGED <<window, modals, running, quit, picked>>

HomeMove ==
  /\ Key("home")
  /\ \/ selected > 0 /\ selected' = selected - 1
     \/ selected + 1 < Len(devices) /\ selected' = selected + 1
  /\ UNCHANGED <<devices, show_all, window, modals, running, quit, picked>>

HomeTab ==
  /\ Key("home")
  /\ sessions # <<>>
  /\ viewing_session' = 0
  /\ UNCHANGED <<listing, window, modals, sessions, started, quit, picked>>

\* Mutant: 'r' works under every view.
HomeRefreshAnywhere ==
  /\ ~quit
  /\ devices' \in Enumerate(show_all)
  /\ UNCHANGED <<selected, show_all, window, modals, running, quit, picked>>

\* 'r' re-reads the list and leaves the cursor where it was.
HomeRefresh ==
  /\ Key("home")
  /\ devices' \in Enumerate(show_all)
  /\ UNCHANGED <<selected, show_all, window, modals, running, quit, picked>>

-----------------------------------------------------------------------------
(* handle_action_picker_key and handle_codec_picker_key *)

ActionEsc ==
  /\ Key("action_picker")
  /\ action_picker' = None
  /\ UNCHANGED <<listing, window, codec_picker, browser, browser_purpose,
                 confirm, running, quit, picked>>

ActionMove ==
  /\ Key("action_picker")
  /\ \E a \in Actions : action_picker' = [action_picker EXCEPT !.action = a]
  /\ UNCHANGED <<listing, window, codec_picker, browser, browser_purpose,
                 confirm, running, quit, picked>>

\* Mutant: the picker stays open behind the next view.
ActionEnterKeepsPicker ==
  /\ Key("action_picker")
  /\ IF action_picker.action = "Flash"
     THEN /\ browser_purpose' = action_picker
          /\ browser' = "Open"
          /\ UNCHANGED codec_picker
     ELSE /\ codec_picker' = action_picker
          /\ UNCHANGED <<browser, browser_purpose>>
  /\ UNCHANGED <<listing, window, action_picker, confirm, running, quit, picked>>

\* Flash needs no codec and goes straight to the file browser.
ActionEnter ==
  /\ Key("action_picker")
  /\ action_picker' = None
  /\ IF action_picker.action = "Flash"
     THEN /\ browser_purpose' = action_picker
          /\ browser' = "Open"
          /\ UNCHANGED codec_picker
     ELSE /\ codec_picker' = action_picker
          /\ UNCHANGED <<browser, browser_purpose>>
  /\ UNCHANGED <<listing, window, confirm, running, quit, picked>>

\* Back to the action picker, on the same device and the same action.
CodecEsc ==
  /\ Key("codec_picker")
  /\ codec_picker' = None
  /\ action_picker' = codec_picker
  /\ UNCHANGED <<listing, window, browser, browser_purpose, confirm,
                 running, quit, picked>>

CodecEnter ==
  /\ Key("codec_picker")
  /\ codec_picker' = None
  /\ browser_purpose' = codec_picker
  /\ browser' = "Save"
  /\ UNCHANGED <<listing, window, action_picker, confirm, running, quit, picked>>

-----------------------------------------------------------------------------
(* Starting a session: BackupProgress::new, then full screen. *)

Start(kind, idx) ==
  /\ started < MaxSessions
  /\ sessions' = Append(sessions,
       [id |-> started, kind |-> kind, device |-> Path(idx),
        intended |-> picked, status |-> "Running"])
  /\ viewing_session' = Len(sessions') - 1
  /\ started' = started + 1

(* handle_browser_key; moving about in the browser changes nothing here. *)

BrowserEsc ==
  /\ Key("browser")
  /\ browser' = None /\ browser_purpose' = None
  /\ UNCHANGED <<listing, window, action_picker, codec_picker, confirm,
                 running, quit, picked>>

\* Mutant: a flash starts from the browser like the other actions.
BrowserPickStartsAll ==
  /\ Key("browser")
  /\ browser' = None /\ browser_purpose' = None
  /\ \/ browser_purpose = None /\ UNCHANGED running
     \/ /\ browser_purpose # None
        /\ Start(browser_purpose.action, browser_purpose.device_idx)
  /\ UNCHANGED <<listing, window, action_picker, codec_picker, confirm, quit, picked>>

\* EnterResult::Picked: without a purpose (F2) the browser just closes;
\* Backup and Archive only read the device and start at once.
BrowserPick ==
  /\ Key("browser")
  /\ browser' = None /\ browser_purpose' = None
  /\ \/ /\ browser_purpose = None
        /\ UNCHANGED <<confirm, running>>
     \/ /\ browser_purpose # None /\ browser_purpose.action = "Flash"
        /\ confirm' = [device_idx |-> browser_purpose.device_idx, focus |-> "Cancel"]
        /\ UNCHANGED running
     \/ /\ browser_purpose # None /\ browser_purpose.action # "Flash"
        /\ Start(browser_purpose.action, browser_purpose.device_idx)
        /\ UNCHANGED confirm
  /\ UNCHANGED <<listing, window, action_picker, codec_picker, quit, picked>>

(* handle_confirm_key *)

ConfirmCancel ==
  /\ Key("confirm")
  /\ confirm' = None
  /\ UNCHANGED <<listing, window, action_picker, codec_picker, browser,
                 browser_purpose, running, quit, picked>>

ConfirmFocus ==
  /\ Key("confirm")
  /\ \E f \in {"Cancel", "Confirm"} : confirm' = [confirm EXCEPT !.focus = f]
  /\ UNCHANGED <<listing, window, action_picker, codec_picker, browser,
                 browser_purpose, running, quit, picked>>

ConfirmEnter ==
  /\ Key("confirm")
  /\ confirm.focus = "Confirm"
  /\ confirm' = None
  /\ Start("Flash", confirm.device_idx)
  /\ UNCHANGED <<listing, window, action_picker, codec_picker, browser,
                 browser_purpose, quit, picked>>

-----------------------------------------------------------------------------
(* handle_progress_key *)

ProgressDetach ==
  /\ Key("progress")
  /\ viewing_session' = None
  /\ UNCHANGED <<listing, window, modals, sessions, started, quit, picked>>

Without(s, idx) == SubSeq(s, 1, idx) \o SubSeq(s, idx + 2, Len(s))

\* Mutant: the index stays although the list may now be empty.
ProgressDismissKeepsIndex ==
  /\ Key("progress")
  /\ viewing_session < Len(sessions)
  /\ sessions[viewing_session + 1].status # "Running"
  /\ sessions' = Without(sessions, viewing_session)
  /\ UNCHANGED <<listing, window, modals, viewing_session, started, quit, picked>>

\* Mutant: Enter dismisses a session that is still running.
ProgressDismissRunning ==
  /\ Key("progress")
  /\ viewing_session < Len(sessions)
  /\ sessions' = Without(sessions, viewing_session)
  /\ viewing_session' = IF sessions' = <<>> THEN None
                        ELSE Clamp(viewing_session, Len(sessions'))
  /\ UNCHANGED <<listing, window, modals, started, quit, picked>>

\* Enter dismisses the session on screen once it is not running any more.
ProgressDismiss ==
  /\ Key("progress")
  /\ viewing_session < Len(sessions)
  /\ sessions[viewing_session + 1].status # "Running"
  /\ sessions' = Without(sessions, viewing_session)
  /\ viewing_session' = IF sessions' = <<>> THEN None
                        ELSE Clamp(viewing_session, Len(sessions'))
  /\ UNCHANGED <<listing, window, modals, started, quit, picked>>

ProgressTab ==
  /\ Key("progress")
  /\ viewing_session' = IF viewing_session + 1 < Len(sessions)
                        THEN viewing_session + 1 ELSE None
  /\ UNCHANGED <<listing, window, modals, sessions, started, quit, picked>>

-----------------------------------------------------------------------------
(* What happens without a key. *)

\* A poll of the event loop learns that a session has ended.
SessionEnds(i) ==
  /\ ~quit
  /\ sessions[i].status = "Running"
  /\ sessions' = [sessions EXCEPT ![i].status = "Ended"]
  /\ UNCHANGED <<listing, window, modals, viewing_session, started, quit, picked>>

\* The terminal is resized; the next frame notices.
Resize ==
  /\ ~quit
  /\ too_small' = ~too_small
  /\ UNCHANGED <<listing, show_help, modals, running, quit, picked>>

Next ==
  \/ CtrlC
  \/ HomeQuit \/ HomeHelp \/ HomeBrowse \/ HomeEnter \/ HomeToggleAll
  \/ HomeMove \/ HomeTab \/ HomeRefresh
  \/ ActionEsc \/ ActionMove \/ ActionEnter
  \/ CodecEsc \/ CodecEnter
  \/ BrowserEsc \/ BrowserPick
  \/ ConfirmCancel \/ ConfirmFocus \/ ConfirmEnter
  \/ ProgressDetach \/ ProgressDismiss \/ ProgressTab
  \/ \E i \in 1..Len(sessions) : SessionEnds(i)
  \/ Resize

Spec == Init /\ [][Next]_vars

-----------------------------------------------------------------------------
(* Properties. *)

\* AppState has five Options for what is on screen; at most one is ever Some,
\* a purpose never outlives its browser, and the session on screen exists.
OneThingAtATime ==
  /\ \A a, b \in {<<1, action_picker>>, <<2, codec_picker>>, <<3, browser>>,
                  <<4, confirm>>, <<5, viewing_session>>} :
       a[2] # None /\ b[2] # None => a[1] = b[1]
  /\ browser_purpose # None => browser # None
  /\ viewing_session # None => viewing_session < Len(sessions)

\* Keys go to the view that is drawn on top, although draw and dispatch_key
\* test the Options in different orders.  Two things get keys without being
\* drawn: whatever is open in a terminal that is too small, and a dialog about
\* a device that is no longer in the list.
KeysGoToWhatIsShown ==
  \/ Screen \in {Handler, "too_small"}
  \/ Screen = "help" /\ Handler = "home"
  \/ action_picker # None /\ ~InRange(action_picker.device_idx)
  \/ confirm # None /\ ~InRange(confirm.device_idx)

\* A session works on the disk that was highlighted when its picker was
\* opened, or on no disk at all (an open that fails): never on another one,
\* whatever was plugged, pulled, toggled or refreshed meanwhile.
SessionsHitThePickedDisk ==
  \A i \in 1..Len(sessions) :
    sessions[i].device \in {sessions[i].intended, None}

\* Is the session at position i of the next state a flash this step starts?
FlashBegins(i) ==
  /\ sessions'[i].kind = "Flash" /\ sessions'[i].device # None
  /\ sessions'[i].id = started

\* A flash of a real disk starts only from the confirmation dialog that names
\* this disk, after the focus has been moved to Confirm, and the dialog is what
\* the screen shows, unless the terminal is too small to show anything.
FlashIsConfirmed ==
  [][\A i \in 1..Len(sessions') : FlashBegins(i) =>
       /\ Screen \in {"confirm", "too_small"}
       /\ confirm # None /\ confirm.focus = "Confirm"
       /\ Path(confirm.device_idx) = sessions'[i].device]_vars

\* No key but quitting makes the program lose a running session, and sessions
\* keep their order and identity while others are dismissed.
RunningSessionsStay ==
  [][/\ \A i \in 1..Len(sessions) : sessions[i].status = "Running" =>
          \E j \in 1..Len(sessions') : sessions'[j].id = sessions[i].id
     /\ \A i, j \in 1..Len(sessions') : i < j => sessions'[i].id < sessions'[j].id]_vars

\* Enter picks the highlighted device.
EnterPicksTheHighlighted ==
  action_picker # None => Path(action_picker.device_idx) = picked

-----------------------------------------------------------------------------
(* The inductive invariant behind them. *)

\* In the order of dispatch_key: what it finds first is all there is.
Exclusive ==
  /\ viewing_session # None => confirm = None
  /\ viewing_session # None \/ confirm # None => browser = None
  /\ viewing_session # None \/ confirm # None \/ browser # None => codec_picker = None
  /\ viewing_session # None \/ confirm # None \/ browser # None \/ codec_picker # None
       => action_picker = None
  /\ browser_purpose # None => browser # None
  /\ viewing_session # None => viewing_session < Len(sessions)

\* A row of the list is the disk that was picked, or is no longer there.
IsPicked(idx) == Path(idx) \in {picked, None}

\* Every view on the way from the picker to a session is about this disk.
AboutThePicked ==
  /\ action_picker # None => IsPicked(action_picker.device_idx)
  /\ codec_picker # None => IsPicked(codec_picker.device_idx)
  /\ browser_purpose # None => IsPicked(browser_purpose.device_idx)
  /\ confirm # None => IsPicked(confirm.device_idx)

\* Sessions are in the order they were started in.
InOrder ==
  /\ \A i \in 1..Len(sessions) : sessions[i].id < started
  /\ \A i, j \in 1..Len(sessions) : i < j => sessions[i].id < sessions[j].id

TInv ==
  /\ TypeOK /\ Exclusive /\ AboutThePicked
  /\ SessionsHitThePickedDisk /\ InOrder
=============================================================================
