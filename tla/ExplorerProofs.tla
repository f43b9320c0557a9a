--------------------------- MODULE ExplorerProofs ---------------------------
(***************************************************************************)
(* A user who waits for what is under way sees the key announced last, if  *)
(* it can be read, and the bookmarks the presses add up to: proof of       *)
(* PatientView, for every hive, every set of keys that cannot be read,     *)
(* every number of key presses and whatever the tree's operations          *)
(* announce.                                                               *)
(***************************************************************************)
EXTENDS Explorer, TLAPS

-----------------------------------------------------------------------------
(* The invariant. *)

UiFields == {"mode", "buf", "query", "idx", "matches", "pane", "help", "detail", "active",
             "busy", "results", "marks", "panic"}

Shaped ==
  /\ rushed \in Nat
  /\ bus = [n |-> bus.n, path |-> bus.path] /\ bus.n \in Nat
  /\ ear = [s \in Subs |-> ear[s]]
  /\ shown = [s \in Subs |-> shown[s]]
  /\ ui = [f \in UiFields |-> ui[f]]

\* A load of a user who waits is about the last event; the key information is
\* written at once.
LoadsRight ==
  \A l \in loads : \E s \in Subs, d \in BOOLEAN :
     l = [sub |-> s, ev |-> bus, done |-> d] /\ (s = "info" => ~d)

NoLoad(s) == \A l \in loads : l.sub # s
OneLoad(s) == \E l \in loads : l.sub = s /\ \A k \in loads : k.sub = s => k = l

\* A listener has nothing to do and its pane is up to date, or the last event is
\* in its channel, in its message, or being loaded.
ListenerRight(s) ==
  \/ ear[s] = Waiting(NoEvent) /\ NoLoad(s) /\ UpToDate(s)
  \/ ear[s] = Waiting(bus) /\ bus.n > 0 /\ NoLoad(s)
  \/ ear[s] = Told(bus) /\ NoLoad(s)
  \/ ear[s] = Waiting(NoEvent) /\ OneLoad(s)

\* One message at most is under way, and then nothing else is.
MessagesRight ==
  /\ \A m, k \in msgs : m = k
  /\ msgs # {} => loads = {} /\ \A s \in Subs : ear[s] = Waiting(NoEvent)

\* The message of the bookmark key says what the key has already done.
MarksRight ==
  /\ ui.marks = toggled
  /\ \A m \in msgs : m.is = "mark" => m.added \in BOOLEAN /\ (m.added <=> m.path \in ui.marks)

PatientInv ==
  patient => /\ LoadsRight
             /\ \A s \in Subs : ListenerRight(s)
             /\ MessagesRight
             /\ MarksRight

ViewInv == Shaped /\ PatientInv

\* An event put on the bus, by whatever operation of the tree.
Announced ==
  \/ UNCHANGED <<bus, ear>>
  \/ \E p : /\ bus' = [n |-> bus.n + 1, path |-> p]
            /\ ear' = [s \in Subs |-> IF ear[s] = Waiting(NoEvent)
                                      THEN Waiting([n |-> bus.n + 1, path |-> p]) ELSE ear[s]]

LEMMA SetTreeAnnounces == ASSUME NEW t, SetTree(t) PROVE Announced
BY DEF SetTree, Notify, Announced

LEMMA KeepTreeAnnounces == KeepTree => Announced /\ UNCHANGED <<bus, ear>>
BY DEF KeepTree, Announced

-----------------------------------------------------------------------------
(* Quiet means settled. *)

LEMMA QuietSettles ==
  ASSUME ViewInv, patient, Quiet
  PROVE  /\ msgs = {} /\ loads = {}
         /\ \A s \in Subs : ear[s] = Waiting(NoEvent) /\ UpToDate(s)
         /\ ui.marks = toggled
<1>1. msgs = {} /\ loads = {} /\ ui.marks = toggled
  BY DEF ViewInv, PatientInv, MarksRight, Quiet
<1>2. ASSUME NEW s \in Subs PROVE ear[s] = Waiting(NoEvent) /\ UpToDate(s)
  <2>1. ListenerRight(s) /\ ear[s] \in {Waiting(NoEvent), Gone}
    BY DEF ViewInv, PatientInv, Quiet
  <2>2. bus = [n |-> bus.n, path |-> bus.path] /\ bus.n \in Nat
    BY DEF ViewInv, Shaped
  <2>3. ~(ear[s] = Waiting(bus) /\ bus.n > 0) /\ ear[s] # Told(bus)
    BY <2>1, <2>2 DEF Waiting, Told, Gone, NoEvent
  <2>4. ~OneLoad(s)
    BY <1>1 DEF OneLoad
  <2> QED BY <2>1, <2>3, <2>4 DEF ListenerRight
<1> QED BY <1>1, <1>2

-----------------------------------------------------------------------------
(* Steps of the bus. *)

\* From a state in which every listener is settled, an event leaves each of them
\* settled or with the event in its channel.
LEMMA AnnouncedKeeps ==
  ASSUME Shaped, Announced, loads = {}, loads' = loads, shown' = shown,
         \A s \in Subs : ear[s] = Waiting(NoEvent) /\ UpToDate(s)
  PROVE  LoadsRight' /\ \A s \in Subs : ListenerRight(s)'
<1>1. LoadsRight'
  BY DEF LoadsRight
<1>2. ASSUME NEW s \in Subs PROVE ListenerRight(s)'
  <2>1. NoLoad(s)'
    BY DEF NoLoad
  <2>2. CASE UNCHANGED <<bus, ear>>
    BY <2>1, <2>2 DEF ListenerRight, UpToDate
  <2>3. CASE \E p : /\ bus' = [n |-> bus.n + 1, path |-> p]
                    /\ ear' = [x \in Subs |-> IF ear[x] = Waiting(NoEvent)
                                  THEN Waiting([n |-> bus.n + 1, path |-> p]) ELSE ear[x]]
    <3>1. PICK p : /\ bus' = [n |-> bus.n + 1, path |-> p]
                   /\ ear' = [x \in Subs |-> IF ear[x] = Waiting(NoEvent)
                                  THEN Waiting([n |-> bus.n + 1, path |-> p]) ELSE ear[x]]
      BY <2>3
    <3>2. bus'.n > 0
      BY <3>1 DEF Shaped
    <3>3. ear'[s] = Waiting(bus')
      BY <3>1
    <3> QED BY <2>1, <3>2, <3>3 DEF ListenerRight
  <2> QED BY <2>2, <2>3 DEF Announced
<1> QED BY <1>1, <1>2

LEMMA AnnouncedShape ==
  ASSUME Shaped, Announced
  PROVE  /\ bus' = [n |-> bus'.n, path |-> bus'.path] /\ bus'.n \in Nat
         /\ ear' = [s \in Subs |-> ear'[s]]
<1>1. CASE UNCHANGED <<bus, ear>>
  BY <1>1 DEF Shaped
<1>2. CASE ~UNCHANGED <<bus, ear>>
  <2>1. PICK p : /\ bus' = [n |-> bus.n + 1, path |-> p]
                 /\ ear' = [x \in Subs |-> IF ear[x] = Waiting(NoEvent)
                                THEN Waiting([n |-> bus.n + 1, path |-> p]) ELSE ear[x]]
    BY <1>2 DEF Announced
  <2> QED BY <2>1 DEF Shaped
<1> QED BY <1>1, <1>2

\* Messages that a key press adds.
NewMessages ==
  \/ msgs' = msgs
  \/ UNCHANGED <<bus, ear>> /\ \E m : msgs' = msgs \cup {m} /\ m.is # "mark"

\* A key press other than the bookmark key.
LEMMA PressKeeps ==
  ASSUME ViewInv, Press, Announced, NewMessages, UNCHANGED <<loads, shown, toggled>>,
         ui' = [f \in UiFields |-> ui'[f]], ui'.marks = ui.marks
  PROVE  ViewInv'
<1>1. rushed' \in Nat /\ (rushed' = 0 => rushed = 0 /\ Quiet)
  BY DEF ViewInv, Shaped, Press
<1>2. Shaped'
  BY <1>1, AnnouncedShape DEF ViewInv, Shaped
<1>3. ASSUME patient' PROVE LoadsRight' /\ (\A s \in Subs : ListenerRight(s)') /\ MessagesRight' /\ MarksRight'
  <2>1. /\ msgs = {} /\ loads = {}
        /\ \A s \in Subs : ear[s] = Waiting(NoEvent) /\ UpToDate(s)
        /\ ui.marks = toggled
    BY <1>1, <1>3, QuietSettles DEF patient
  <2>2. LoadsRight' /\ \A s \in Subs : ListenerRight(s)'
    BY <2>1, AnnouncedKeeps DEF ViewInv
  <2>3. MessagesRight'
    BY <2>1 DEF NewMessages, MessagesRight
  <2>4. MarksRight'
    BY <2>1 DEF NewMessages, MarksRight
  <2> QED BY <2>2, <2>3, <2>4
<1> QED BY <1>2, <1>3 DEF ViewInv, PatientInv

-----------------------------------------------------------------------------
(* Key presses, one lemma per action that needs more than its definition. *)

\* What a press changes besides the tree.
LEMMA UiKept == ASSUME Shaped, ui' = ui PROVE ui' = [f \in UiFields |-> ui'[f]] /\ ui'.marks = ui.marks
BY DEF Shaped

LEMMA TreeKeyKeeps == ASSUME ViewInv, NEW k, TreeKey(k) PROVE ViewInv'
<1>1. Announced /\ Press
  BY SetTreeAnnounces DEF TreeKey, Normal, Open
<1>2. NewMessages /\ ui' = ui /\ UNCHANGED <<loads, shown, toggled>>
  BY DEF TreeKey, TreeOnly, rest, NewMessages
<1> QED BY <1>1, <1>2, UiKept, PressKeeps DEF ViewInv

LEMMA ValueKeyKeeps == ASSUME ViewInv, NEW k, ValueKey(k) PROVE ViewInv'
<1>1. Announced /\ Press
  BY DEF ValueKey, Normal, Open, Announced
<1>2. NewMessages /\ ui' = ui /\ UNCHANGED <<loads, shown, toggled>>
  BY DEF ValueKey, NewMessages
<1> QED BY <1>1, <1>2, UiKept, PressKeeps DEF ViewInv

LEMMA SelectValueKeeps == ASSUME ViewInv, SelectValue PROVE ViewInv'
<1>1. Announced /\ Press
  BY DEF SelectValue, Normal, Open, Announced
<1>2. ui' = ui /\ UNCHANGED <<loads, shown, toggled>>
  BY DEF SelectValue, rest
<1>3. NewMessages
  BY DEF SelectValue, NewMessages
<1> QED BY <1>1, <1>2, <1>3, UiKept, PressKeeps DEF ViewInv

LEMMA RefreshKeyKeeps == ASSUME ViewInv, RefreshKey PROVE ViewInv'
<1>1. Announced /\ Press
  BY SetTreeAnnounces DEF RefreshKey, Normal, Open
<1>2. NewMessages /\ ui' = ui /\ UNCHANGED <<loads, shown, toggled>>
  BY DEF RefreshKey, TreeOnly, rest, NewMessages
<1> QED BY <1>1, <1>2, UiKept, PressKeeps DEF ViewInv

\* Overlays, panes and the start of an input change the ui only.
LEMMA UiOnlyKeeps ==
  ASSUME ViewInv, Press, UiOnly, ui' = [f \in UiFields |-> ui'[f]], ui'.marks = ui.marks
  PROVE  ViewInv'
<1>1. Announced /\ NewMessages /\ UNCHANGED <<loads, shown, toggled>>
  BY DEF UiOnly, rest, Announced, NewMessages
<1> QED BY <1>1, PressKeeps

LEMMA OverlayKeeps ==
  ASSUME ViewInv, CloseOverlay \/ ShowHelp \/ SwitchPane \/ \E mode \in {"search", "path", "values"} : StartInput(mode)
  PROVE  ViewInv'
<1>. USE DEF ViewInv, Shaped, UiFields
<1>1. CASE CloseOverlay
  BY <1>1, UiOnlyKeeps DEF CloseOverlay
<1>2. CASE ShowHelp
  BY <1>2, UiOnlyKeeps DEF ShowHelp, Normal, Open
<1>3. CASE SwitchPane
  BY <1>3, UiOnlyKeeps DEF SwitchPane, Normal, Open
<1>4. ASSUME NEW mode \in {"search", "path", "values"}, StartInput(mode) PROVE ViewInv'
  <2>1. ui' = [f \in UiFields |-> ui'[f]] /\ ui'.marks = ui.marks
    BY <1>4 DEF StartInput
  <2>2. Press /\ UiOnly
    BY <1>4 DEF StartInput, Normal, Open
  <2> QED BY <2>1, <2>2, UiOnlyKeeps
<1> QED BY <1>1, <1>2, <1>3, <1>4

LEMMA TypedKeeps == ASSUME ViewInv, NEW text, Typed(text) PROVE ViewInv'
<1>1. Announced /\ Press
  BY SetTreeAnnounces, KeepTreeAnnounces DEF Typed, Open
<1>2. ui' = [f \in UiFields |-> ui'[f]] /\ ui'.marks = ui.marks
  BY DEF Typed, ViewInv, Shaped, UiFields
<1>3. NewMessages
  BY KeepTreeAnnounces DEF Typed, NewMessages
<1>4. UNCHANGED <<loads, shown, toggled>>
  BY DEF Typed, rest
<1> QED BY <1>1, <1>2, <1>3, <1>4, PressKeeps

LEMMA EscInputKeeps == ASSUME ViewInv, EscInput PROVE ViewInv'
<1>1. Announced /\ Press
  BY SetTreeAnnounces, KeepTreeAnnounces DEF EscInput, Open
<1>2. ui' = [f \in UiFields |-> ui'[f]] /\ ui'.marks = ui.marks
  BY DEF EscInput, ViewInv, Shaped, UiFields
<1>3. NewMessages /\ UNCHANGED <<loads, shown, toggled>>
  BY DEF EscInput, NewMessages, rest
<1> QED BY <1>1, <1>2, <1>3, PressKeeps

LEMMA EscNormalKeeps == ASSUME ViewInv, EscNormal PROVE ViewInv'
<1>1. Announced /\ Press
  BY SetTreeAnnounces, KeepTreeAnnounces DEF EscNormal, Normal, Open
<1>2. ui' = [f \in UiFields |-> ui'[f]] /\ ui'.marks = ui.marks
  BY DEF EscNormal, ViewInv, Shaped, UiFields
<1>3. NewMessages /\ UNCHANGED <<loads, shown, toggled>>
  BY DEF EscNormal, NewMessages, rest
<1> QED BY <1>1, <1>2, <1>3, PressKeeps

LEMMA EnterSearchKeeps == ASSUME ViewInv, EnterSearch PROVE ViewInv'
<1>1. Announced /\ Press
  BY DEF EnterSearch, Open, Announced
<1>2. ui' = [f \in UiFields |-> ui'[f]] /\ ui'.marks = ui.marks
  BY DEF EnterSearch, ViewInv, Shaped, UiFields
<1>3. NewMessages /\ UNCHANGED <<loads, shown, toggled>>
  BY DEF EnterSearch, NewMessages
<1> QED BY <1>1, <1>2, <1>3, PressKeeps

LEMMA EnterValueSearchKeeps == ASSUME ViewInv, EnterValueSearch PROVE ViewInv'
<1>1. Announced /\ Press
  BY DEF EnterValueSearch, Open, Announced
<1>2. ui' = [f \in UiFields |-> ui'[f]] /\ ui'.marks = ui.marks
  BY DEF EnterValueSearch, ViewInv, Shaped, UiFields
<1>3. NewMessages /\ UNCHANGED <<loads, shown, toggled>>
  BY DEF EnterValueSearch, NewMessages, rest
<1> QED BY <1>1, <1>2, <1>3, PressKeeps

LEMMA EnterGoToKeeps == ASSUME ViewInv, NEW p, EnterGoTo(p) PROVE ViewInv'
<1>1. Announced /\ Press
  BY SetTreeAnnounces, KeepTreeAnnounces DEF EnterGoTo, Open
<1>2. ui' = [f \in UiFields |-> ui'[f]] /\ ui'.marks = ui.marks
  BY DEF EnterGoTo, ViewInv, Shaped, UiFields
<1>3. NewMessages /\ UNCHANGED <<loads, shown, toggled>>
  BY DEF EnterGoTo, NewMessages, rest
<1> QED BY <1>1, <1>2, <1>3, PressKeeps

LEMMA NextBookmarkKeeps == ASSUME ViewInv, NextBookmark PROVE ViewInv'
<1>1. Announced /\ Press
  BY SetTreeAnnounces DEF NextBookmark, Normal, Open
<1>2. ui' = [f \in UiFields |-> ui'[f]] /\ ui'.marks = ui.marks
  BY DEF NextBookmark, ViewInv, Shaped, UiFields
<1>3. NewMessages /\ UNCHANGED <<loads, shown, toggled>>
  BY DEF NextBookmark, NewMessages, rest
<1> QED BY <1>1, <1>2, <1>3, PressKeeps

LEMMA MatchKeyKeeps == ASSUME ViewInv, NEW jump, MatchKey(jump) PROVE ViewInv'
<1>1. Press /\ NewMessages /\ UNCHANGED <<loads, shown, toggled>>
  BY DEF MatchKey, Normal, Open, NewMessages
<1>2. Announced
  BY SetTreeAnnounces, KeepTreeAnnounces DEF MatchKey, ValueMatch, KeyMatch
<1>3. ui' = [f \in UiFields |-> ui'[f]] /\ ui'.marks = ui.marks
  BY DEF MatchKey, ValueMatch, KeyMatch, ViewInv, Shaped, UiFields
<1> QED BY <1>1, <1>2, <1>3, PressKeeps

LEMMA ToggleBookmarkKeeps == ASSUME ViewInv, ToggleBookmark PROVE ViewInv'
<1>. DEFINE p == CurrentItem(tree).path
            flip(S) == IF p \in S THEN S \ {p} ELSE S \cup {p}
            new == [is |-> "mark", path |-> p, added |-> p \notin ui.marks]
<1>1. /\ Press /\ UNCHANGED <<bus, ear, loads, shown>>
      /\ ui' = [ui EXCEPT !.marks = flip(@)]
      /\ toggled' = flip(toggled)
      /\ msgs' = msgs \cup {new}
  BY DEF ToggleBookmark, Normal, Open, rest
<1>2. rushed' \in Nat /\ (rushed' = 0 => rushed = 0 /\ Quiet)
  BY <1>1 DEF ViewInv, Shaped, Press
<1>3. Shaped'
  BY <1>1, <1>2 DEF ViewInv, Shaped, UiFields
<1>4. ASSUME patient' PROVE LoadsRight' /\ (\A s \in Subs : ListenerRight(s)') /\ MessagesRight' /\ MarksRight'
  <2>1. /\ msgs = {} /\ loads = {}
        /\ \A s \in Subs : ear[s] = Waiting(NoEvent) /\ UpToDate(s)
        /\ ui.marks = toggled
    BY <1>2, <1>4, QuietSettles DEF patient
  <2>2. LoadsRight' /\ \A s \in Subs : ListenerRight(s)'
    BY <1>1, <2>1, AnnouncedKeeps DEF ViewInv, Announced
  <2>3. MessagesRight'
    BY <1>1, <2>1 DEF MessagesRight
  <2>4. ui'.marks = flip(ui.marks)
    BY <1>1 DEF ViewInv, Shaped, UiFields
  <2>5. new.added \in BOOLEAN /\ (new.added <=> new.path \in ui'.marks)
    BY <2>4
  <2>6. MarksRight'
    BY <1>1, <2>1, <2>4, <2>5 DEF MarksRight
  <2> QED BY <2>2, <2>3, <2>6
<1> QED BY <1>3, <1>4 DEF ViewInv, PatientInv

-----------------------------------------------------------------------------
(* Listeners and loads. *)

LEMMA WakeKeeps == ASSUME ViewInv, NEW s \in Subs, Wake(s) PROVE ViewInv'
<1>1. /\ ear[s].is = "waiting" /\ ear[s].ev # NoEvent
      /\ ear' = [ear EXCEPT ![s] = IF Cancelled(@.ev) THEN Gone ELSE Told(@.ev)]
      /\ UNCHANGED <<tree, ui, bus, loads, shown, row, msgs, keys, rushed, toggled>>
  BY DEF Wake, rest
<1>2. Shaped'
  BY <1>1 DEF ViewInv, Shaped
<1>3. ASSUME patient' PROVE LoadsRight' /\ (\A x \in Subs : ListenerRight(x)') /\ MessagesRight' /\ MarksRight'
  <2>1. LoadsRight /\ (\A x \in Subs : ListenerRight(x)) /\ MessagesRight /\ MarksRight
    BY <1>1, <1>3 DEF ViewInv, PatientInv, patient
  <2>2. ear[s] = Waiting(bus) /\ NoLoad(s)
    BY <1>1, <2>1 DEF ListenerRight, Waiting, Told
  <2>3. msgs = {}
    BY <1>1, <2>1 DEF MessagesRight, Waiting
  <2>4. ear'[s] = Told(bus) /\ \A x \in Subs : x # s => ear'[x] = ear[x]
    BY <1>1, <2>2 DEF Cancelled, Waiting, ViewInv, Shaped
  <2>5. ASSUME NEW x \in Subs PROVE ListenerRight(x)'
    <3>1. CASE x = s
      BY <1>1, <2>2, <2>4, <3>1 DEF ListenerRight, NoLoad
    <3>2. CASE x # s
      <4>1. ListenerRight(x) /\ ear'[x] = ear[x] /\ bus' = bus /\ loads' = loads /\ shown' = shown
        BY <1>1, <2>1, <2>4, <3>2
      <4> QED BY <4>1 DEF ListenerRight, UpToDate, NoLoad, OneLoad
    <3> QED BY <3>1, <3>2
  <2>6. LoadsRight'
    BY <1>1, <2>1 DEF LoadsRight
  <2>7. MessagesRight' /\ MarksRight'
    BY <1>1, <2>1, <2>3 DEF MessagesRight, MarksRight
  <2> QED BY <2>5, <2>6, <2>7
<1> QED BY <1>2, <1>3 DEF ViewInv, PatientInv

LEMMA SignalReceivedKeeps == ASSUME ViewInv, NEW s \in Subs, SignalReceived(s) PROVE ViewInv'
<1>. DEFINE new == [sub |-> s, ev |-> ear[s].ev, done |-> FALSE]
<1>1. /\ ear[s].is = "told"
      /\ loads' = loads \cup {new}
      /\ ear' = [ear EXCEPT ![s] = Waiting(NoEvent)]
      /\ UNCHANGED <<tree, ui, bus, shown, row, msgs, keys, rushed, toggled>>
  BY DEF SignalReceived
<1>2. Shaped'
  BY <1>1 DEF ViewInv, Shaped
<1>3. ASSUME patient' PROVE LoadsRight' /\ (\A x \in Subs : ListenerRight(x)') /\ MessagesRight' /\ MarksRight'
  <2>1. LoadsRight /\ (\A x \in Subs : ListenerRight(x)) /\ MessagesRight /\ MarksRight
    BY <1>1, <1>3 DEF ViewInv, PatientInv, patient
  <2>2. ear[s] = Told(bus) /\ NoLoad(s)
    BY <1>1, <2>1 DEF ListenerRight, Waiting, Told
  <2>3. msgs = {}
    BY <1>1, <2>1 DEF MessagesRight, Waiting
  <2>4. ear'[s] = Waiting(NoEvent) /\ \A x \in Subs : x # s => ear'[x] = ear[x]
    BY <1>1 DEF ViewInv, Shaped
  <2>5. new = [sub |-> s, ev |-> bus, done |-> FALSE]
    BY <2>2 DEF Told
  <2>6. LoadsRight'
    BY <1>1, <2>1, <2>5 DEF LoadsRight
  <2>7. ASSUME NEW x \in Subs PROVE ListenerRight(x)'
    <3>1. CASE x = s
      <4>1. new \in loads' /\ new.sub = s
        BY <1>1
      <4>2. \A k \in loads' : k.sub = s => k = new
        BY <1>1, <2>2 DEF NoLoad
      <4>3. OneLoad(s)'
        BY <4>1, <4>2 DEF OneLoad
      <4> QED BY <2>4, <3>1, <4>3 DEF ListenerRight
    <3>2. CASE x # s
      <4>1. ListenerRight(x) /\ ear'[x] = ear[x] /\ bus' = bus /\ shown' = shown
        BY <1>1, <2>1, <2>4, <3>2
      <4>2. NoLoad(x) => NoLoad(x)'
        BY <1>1, <2>5, <3>2 DEF NoLoad
      <4>3. OneLoad(x) => OneLoad(x)'
        BY <1>1, <2>5, <3>2 DEF OneLoad
      <4> QED BY <4>1, <4>2, <4>3 DEF ListenerRight, UpToDate
    <3> QED BY <3>1, <3>2
  <2>8. MessagesRight' /\ MarksRight'
    BY <1>1, <2>1, <2>3 DEF MessagesRight, MarksRight
  <2> QED BY <2>6, <2>7, <2>8
<1> QED BY <1>2, <1>3 DEF ViewInv, PatientInv

\* A load that ends, also with an error, leaves its pane up to date.
LEMMA LoadEnds ==
  ASSUME ViewInv, patient, NEW s \in Subs, NEW l \in loads, l.sub = s, loads' = loads \ {l},
         \/ shown' = [shown EXCEPT ![s] = l.ev.path]
         \/ l.ev.path \in Unread[s] /\ shown' = shown,
         UNCHANGED <<bus, ear, msgs, ui, toggled>>
  PROVE  LoadsRight' /\ (\A x \in Subs : ListenerRight(x)') /\ MessagesRight' /\ MarksRight'
<1>1. LoadsRight /\ (\A x \in Subs : ListenerRight(x)) /\ MessagesRight /\ MarksRight
  BY DEF ViewInv, PatientInv
<1>2. msgs = {} /\ l.ev = bus
  BY <1>1 DEF MessagesRight, LoadsRight
<1>3. LoadsRight'
  BY <1>1 DEF LoadsRight
<1>4. ear[s] = Waiting(NoEvent) /\ OneLoad(s)
  BY <1>1 DEF ListenerRight, NoLoad
<1>5. ASSUME NEW x \in Subs PROVE ListenerRight(x)'
  <2>1. CASE x = s
    <3>1. NoLoad(s)'
      BY <1>4 DEF OneLoad, NoLoad
    <3>2. UpToDate(s)'
      BY <1>2 DEF ViewInv, Shaped, UpToDate
    <3> QED BY <1>4, <2>1, <3>1, <3>2 DEF ListenerRight
  <2>2. CASE x # s
    <3>1. ListenerRight(x) /\ (UpToDate(x) => UpToDate(x)')
      BY <1>1, <2>2 DEF ViewInv, Shaped, UpToDate
    <3>2. NoLoad(x) => NoLoad(x)'
      BY DEF NoLoad
    <3>3. OneLoad(x) => OneLoad(x)'
      BY <2>2 DEF OneLoad
    <3> QED BY <3>1, <3>2, <3>3 DEF ListenerRight
  <2> QED BY <2>1, <2>2
<1>6. MessagesRight' /\ MarksRight'
  BY <1>1, <1>2 DEF MessagesRight, MarksRight
<1> QED BY <1>3, <1>5, <1>6

LEMMA LoadKeeps == ASSUME ViewInv, NEW l \in loads, Load(l) PROVE ViewInv'
<1>1. /\ ~l.done
      /\ IF Cancelled(l.ev) \/ l.ev.path \in Unread[l.sub] THEN loads' = loads \ {l} /\ UNCHANGED shown
         ELSE IF l.sub = "info"
         THEN loads' = loads \ {l} /\ shown' = [shown EXCEPT !["info"] = l.ev.path]
         ELSE loads' = (loads \ {l}) \cup {[l EXCEPT !.done = TRUE]} /\ UNCHANGED shown
      /\ UNCHANGED <<tree, ui, bus, ear, row, msgs, keys, rushed, toggled>>
  BY DEF Load
<1>2. Shaped'
  BY <1>1 DEF ViewInv, Shaped, Subs
<1>3. ASSUME patient' PROVE LoadsRight' /\ (\A x \in Subs : ListenerRight(x)') /\ MessagesRight' /\ MarksRight'
  <2>1. patient /\ LoadsRight /\ (\A x \in Subs : ListenerRight(x)) /\ MessagesRight /\ MarksRight
    BY <1>1, <1>3 DEF ViewInv, PatientInv, patient
  <2>2. PICK s \in Subs, d \in BOOLEAN : l = [sub |-> s, ev |-> bus, done |-> d] /\ (s = "info" => ~d)
    BY <2>1 DEF LoadsRight
  <2>3. ~Cancelled(l.ev)
    BY <2>2 DEF Cancelled
  <2>4. CASE l.sub = "info" \/ l.ev.path \in Unread[l.sub]
    <3>1. loads' = loads \ {l} /\ UNCHANGED <<bus, ear, msgs, ui, toggled>>
      BY <1>1, <2>3, <2>4
    <3>2. \/ shown' = [shown EXCEPT ![l.sub] = l.ev.path]
          \/ l.ev.path \in Unread[l.sub] /\ shown' = shown
      BY <1>1, <2>3, <2>4
    <3>3. l.sub \in Subs
      BY <2>2
    <3> QED BY <2>1, <3>1, <3>2, <3>3, LoadEnds
  <2>5. CASE ~(l.sub = "info" \/ l.ev.path \in Unread[l.sub])
    <3>. DEFINE done == [sub |-> s, ev |-> bus, done |-> TRUE]
    <3>1. loads' = (loads \ {l}) \cup {done} /\ UNCHANGED <<shown, bus, ear, msgs, ui, toggled>>
      BY <1>1, <2>2, <2>3, <2>5
    <3>2. s # "info" /\ msgs = {}
      BY <2>1, <2>2, <2>5 DEF MessagesRight
    <3>3. LoadsRight'
      BY <2>1, <3>1, <3>2 DEF LoadsRight
    <3>4. ear[s] = Waiting(NoEvent) /\ OneLoad(s)
      BY <2>1, <2>2 DEF ListenerRight, NoLoad
    <3>5. ASSUME NEW x \in Subs PROVE ListenerRight(x)'
      <4>1. CASE x = s
        <5>1. done \in loads' /\ done.sub = s
          BY <3>1
        <5>2. \A k \in loads : k.sub = s => k = l
          BY <2>2, <3>4 DEF OneLoad
        <5>3. \A k \in loads' : k.sub = s => k = done
          BY <3>1, <5>2
        <5>4. OneLoad(s)'
          BY <5>1, <5>3 DEF OneLoad
        <5> QED BY <3>1, <3>4, <4>1, <5>4 DEF ListenerRight
      <4>2. CASE x # s
        <5>1. NoLoad(x) => NoLoad(x)'
          BY <2>2, <3>1, <4>2 DEF NoLoad
        <5>2. OneLoad(x) => OneLoad(x)'
          BY <2>2, <3>1, <4>2 DEF OneLoad
        <5> QED BY <2>1, <3>1, <5>1, <5>2 DEF ListenerRight, UpToDate
      <4> QED BY <4>1, <4>2
    <3>6. MessagesRight' /\ MarksRight'
      BY <2>1, <3>1, <3>2 DEF MessagesRight, MarksRight
    <3> QED BY <3>3, <3>5, <3>6
  <2> QED BY <2>4, <2>5
<1> QED BY <1>2, <1>3 DEF ViewInv, PatientInv

LEMMA ValuesLoadedKeeps == ASSUME ViewInv, NEW l \in loads, ValuesLoaded(l) PROVE ViewInv'
<1>1. /\ l.done /\ loads' = loads \ {l} /\ shown' = [shown EXCEPT !["table"] = l.ev.path]
      /\ UNCHANGED <<tree, ui, bus, ear, msgs, keys, rushed, toggled>>
  BY DEF ValuesLoaded
<1>2. Shaped'
  BY <1>1 DEF ViewInv, Shaped, Subs
<1>3. ASSUME patient' PROVE LoadsRight' /\ (\A x \in Subs : ListenerRight(x)') /\ MessagesRight' /\ MarksRight'
  <2>1. patient /\ LoadsRight
    BY <1>1, <1>3 DEF ViewInv, PatientInv, patient
  <2>2. l.sub = "table"
    BY <1>1, <2>1 DEF LoadsRight, Subs
  <2> QED BY <1>1, <2>1, <2>2, LoadEnds DEF Subs
<1> QED BY <1>2, <1>3 DEF ViewInv, PatientInv

-----------------------------------------------------------------------------
(* Messages. *)

\* A message that is handled is the only one, and every pane is settled.
LEMMA AloneSettles ==
  ASSUME ViewInv, patient, NEW m \in msgs
  PROVE  /\ msgs = {m} /\ loads = {}
         /\ \A s \in Subs : ear[s] = Waiting(NoEvent) /\ UpToDate(s)
<1>1. (\A s \in Subs : ListenerRight(s)) /\ MessagesRight
  BY DEF ViewInv, PatientInv
<1>2. msgs = {m} /\ loads = {} /\ \A s \in Subs : ear[s] = Waiting(NoEvent)
  BY <1>1 DEF MessagesRight
<1>3. ASSUME NEW s \in Subs PROVE UpToDate(s)
  <2>1. ~OneLoad(s) /\ ear[s] # Told(bus)
    BY <1>2 DEF OneLoad, Waiting, Told
  <2>2. ~(ear[s] = Waiting(bus) /\ bus.n > 0)
    BY <1>2 DEF Waiting, NoEvent, ViewInv, Shaped
  <2> QED BY <1>1, <2>1, <2>2 DEF ListenerRight
<1> QED BY <1>2, <1>3

\* A message is handled: it is gone, and what it starts is about the tree or is one
\* other message.
LEMMA HandledKeeps ==
  ASSUME ViewInv, NEW m \in msgs, Announced, UNCHANGED <<loads, shown, toggled, rushed>>,
         ui' = [f \in UiFields |-> ui'[f]], patient => ui'.marks = ui.marks,
         \/ msgs' = msgs \ {m}
         \/ UNCHANGED <<bus, ear>> /\ \E k : msgs' = (msgs \ {m}) \cup {k} /\ k.is # "mark"
  PROVE  ViewInv'
<1>1. Shaped'
  BY AnnouncedShape DEF ViewInv, Shaped
<1>2. ASSUME patient' PROVE LoadsRight' /\ (\A s \in Subs : ListenerRight(s)') /\ MessagesRight' /\ MarksRight'
  <2>1. patient /\ MarksRight
    BY <1>2 DEF ViewInv, PatientInv, patient
  <2>2. /\ msgs = {m} /\ loads = {}
        /\ \A s \in Subs : ear[s] = Waiting(NoEvent) /\ UpToDate(s)
    BY <2>1, AloneSettles
  <2>3. LoadsRight' /\ \A s \in Subs : ListenerRight(s)'
    BY <2>2, AnnouncedKeeps DEF ViewInv
  <2>4. MessagesRight'
    BY <2>2 DEF MessagesRight
  <2>5. MarksRight'
    BY <2>1, <2>2 DEF MarksRight
  <2> QED BY <2>3, <2>4, <2>5
<1> QED BY <1>1, <1>2 DEF ViewInv, PatientInv

LEMMA MessageKeeps ==
  ASSUME ViewInv, NEW m \in msgs,
         \/ BookmarkToggled(m) \/ ValueSelected(m) \/ Trigger(m) \/ SearchRun(m)
         \/ SearchComplete(m) \/ LoadTree(m)
  PROVE  ViewInv'
<1>1. CASE BookmarkToggled(m)
  <2>1. /\ m.is = "mark" /\ msgs' = msgs \ {m} /\ UNCHANGED <<bus, ear, loads, shown, toggled, rushed>>
        /\ ui' = [ui EXCEPT !.marks = IF m.added THEN @ \cup {m.path} ELSE @ \ {m.path}]
    BY <1>1 DEF BookmarkToggled, rest
  <2>2. ui' = [f \in UiFields |-> ui'[f]]
    BY <2>1 DEF ViewInv, Shaped, UiFields
  <2>3. ASSUME patient PROVE ui'.marks = ui.marks
    <3>1. m.added \in BOOLEAN /\ (m.added <=> m.path \in ui.marks)
      BY <2>1, <2>3 DEF ViewInv, PatientInv, MarksRight
    <3>2. ui'.marks = IF m.added THEN ui.marks \cup {m.path} ELSE ui.marks \ {m.path}
      BY <2>1 DEF ViewInv, Shaped, UiFields
    <3> QED BY <3>1, <3>2
  <2> QED BY <2>1, <2>2, <2>3, HandledKeeps DEF Announced
<1>2. CASE ValueSelected(m)
  <2>1. msgs' = msgs \ {m} /\ Announced /\ UNCHANGED <<loads, shown, toggled, rushed>>
    BY <1>2 DEF ValueSelected, rest, Announced
  <2>2. ui' = [f \in UiFields |-> ui'[f]] /\ ui'.marks = ui.marks
    BY <1>2 DEF ValueSelected, ViewInv, Shaped, UiFields
  <2> QED BY <2>1, <2>2, HandledKeeps
<1>3. CASE Trigger(m)
  <2>1. UNCHANGED <<bus, ear, loads, shown, toggled, rushed>>
    BY <1>3 DEF Trigger, rest
  <2>2. ui' = [f \in UiFields |-> ui'[f]] /\ ui'.marks = ui.marks
    BY <1>3 DEF Trigger, ViewInv, Shaped, UiFields
  <2>3. msgs' = msgs \ {m} \/ \E k : msgs' = (msgs \ {m}) \cup {k} /\ k.is # "mark"
    <3>1. CASE ui.mode = "values" /\ m.query = ui.buf
      <4>1. msgs' = (msgs \ {m}) \cup {[is |-> "run", query |-> m.query]}
        BY <1>3, <3>1 DEF Trigger
      <4> QED BY <4>1
    <3>2. CASE ~(ui.mode = "values" /\ m.query = ui.buf)
      BY <1>3, <3>2 DEF Trigger
    <3> QED BY <3>1, <3>2
  <2> QED BY <2>1, <2>2, <2>3, HandledKeeps DEF Announced
<1>4. CASE SearchRun(m)
  <2>1. UNCHANGED <<bus, ear, loads, shown, toggled, rushed, ui>>
    BY <1>4 DEF SearchRun, rest
  <2>2. \E k : msgs' = (msgs \ {m}) \cup {k} /\ k.is # "mark"
    <3>. DEFINE new == [is |-> "complete",
                        results |-> IF m.query = 2 /\ tree.ready THEN Found ELSE <<>>]
    <3>1. msgs' = (msgs \ {m}) \cup {new} /\ new.is # "mark"
      BY <1>4 DEF SearchRun
    <3> QED BY <3>1
  <2> QED BY <2>1, <2>2, UiKept, HandledKeeps DEF Announced, ViewInv
<1>5. CASE SearchComplete(m)
  <2>1. msgs' = msgs \ {m} /\ UNCHANGED <<loads, shown, toggled, rushed>>
    BY <1>5 DEF SearchComplete, rest
  <2>2. Announced
    BY <1>5, SetTreeAnnounces, KeepTreeAnnounces DEF SearchComplete
  <2>3. ui' = [f \in UiFields |-> ui'[f]] /\ ui'.marks = ui.marks
    BY <1>5 DEF SearchComplete, ViewInv, Shaped, UiFields
  <2> QED BY <2>1, <2>2, <2>3, HandledKeeps
<1>6. CASE LoadTree(m)
  <2>1. msgs' = msgs \ {m} /\ UNCHANGED <<loads, shown, toggled, rushed, ui>>
    BY <1>6 DEF LoadTree, rest
  <2>2. Announced
    BY <1>6, SetTreeAnnounces, KeepTreeAnnounces DEF LoadTree
  <2> QED BY <2>1, <2>2, UiKept, HandledKeeps DEF ViewInv
<1> QED BY <1>1, <1>2, <1>3, <1>4, <1>5, <1>6

-----------------------------------------------------------------------------
LEMMA InitView == ViewInit => ViewInv
<1>. SUFFICES ASSUME ViewInit PROVE ViewInv
  OBVIOUS
<1>1. Shaped
  BY DEF ViewInit, Shaped, NewUi, UiFields, NoEvent, Subs
<1>2. LoadsRight /\ \A s \in Subs : ListenerRight(s)
  BY DEF ViewInit, LoadsRight, ListenerRight, UpToDate, NoLoad, NoEvent
<1>3. MessagesRight
  BY DEF ViewInit, MessagesRight
<1>4. MarksRight
  <2>1. ui.marks = toggled
    BY DEF ViewInit, NewUi
  <2>2. ASSUME NEW m \in msgs PROVE m.is # "mark"
    <3>1. m = [is |-> "load tree"]
      BY DEF ViewInit
    <3>2. m.is = "load tree"
      BY <3>1
    <3> QED BY <3>2
  <2> QED BY <2>1, <2>2 DEF MarksRight
<1> QED BY <1>1, <1>2, <1>3, <1>4 DEF ViewInv, PatientInv

LEMMA StepView == ViewInv /\ [ViewNext]_viewVars => ViewInv'
<1>. SUFFICES ASSUME ViewInv, [ViewNext]_viewVars PROVE ViewInv'
  OBVIOUS
<1>1. CASE UNCHANGED viewVars
  BY <1>1 DEF viewVars, ViewInv, Shaped, PatientInv, LoadsRight, ListenerRight, UpToDate, NoLoad, OneLoad,
              MessagesRight, MarksRight, patient
<1>2. CASE ViewNext
  <2>1. CASE \E k \in TreeKeys : TreeKey(k)
    BY <2>1, TreeKeyKeeps
  <2>2. CASE \E k \in RowKeys : ValueKey(k)
    BY <2>2, ValueKeyKeeps
  <2>3. CASE CloseOverlay \/ ShowHelp \/ SwitchPane \/ \E mode \in {"search", "path", "values"} : StartInput(mode)
    BY <2>3, OverlayKeeps
  <2>4. CASE TypeRunes \/ Backspace
    BY <2>4, TypedKeeps DEF TypeRunes, Backspace
  <2>5. CASE \E p \in Targets : EnterGoTo(p)
    BY <2>5, EnterGoToKeeps
  <2>6. CASE \E jump \in Jumps : MatchKey(jump)
    BY <2>6, MatchKeyKeeps
  <2>7. CASE \E s \in Subs : Wake(s) \/ SignalReceived(s)
    BY <2>7, WakeKeeps, SignalReceivedKeeps
  <2>8. CASE \E l \in loads : Load(l) \/ ValuesLoaded(l)
    BY <2>8, LoadKeeps, ValuesLoadedKeeps
  <2>9. CASE \E m \in msgs : \/ BookmarkToggled(m) \/ ValueSelected(m) \/ Trigger(m) \/ SearchRun(m)
                             \/ SearchComplete(m) \/ LoadTree(m)
    BY <2>9, MessageKeeps
  <2>10. CASE \/ ToggleBookmark \/ SelectValue \/ RefreshKey \/ EscInput \/ EscNormal
              \/ EnterSearch \/ EnterValueSearch \/ NextBookmark
    BY <2>10, ToggleBookmarkKeeps, SelectValueKeeps, RefreshKeyKeeps, EscInputKeeps, EscNormalKeeps,
       EnterSearchKeeps, EnterValueSearchKeeps, NextBookmarkKeeps
  <2> QED BY <1>2, <2>1, <2>2, <2>3, <2>4, <2>5, <2>6, <2>7, <2>8, <2>9, <2>10 DEF ViewNext
<1> QED BY <1>1, <1>2

\* A user who presses a key only when nothing is under way sees, once the loads have
\* ended, the values and the information of the key announced last, and the bookmarks
\* that the presses of the bookmark key add up to (bus.go, StartListening of the table
\* and of the key information), however many keys are pressed.  Of a key whose load ends with an
\* error it says nothing (UpToDate).
THEOREM WaitingUserSees == ViewSpec => []PatientView
<1>1. ViewInv => PatientView
  BY QuietSettles DEF PatientView
<1> QED BY <1>1, InitView, StepView, PTL DEF ViewSpec
=============================================================================
