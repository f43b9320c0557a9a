------------------------------ MODULE Explorer ------------------------------
(***************************************************************************)
(* The terminal explorer (cmd/hiveexplorer): one update loop that handles  *)
(* key presses and messages one at a time, and commands that run beside it *)
(* in goroutines of their own and post a message when they end, in any     *)
(* order.  The tree announces the key under the cursor on a bus            *)
(* (keyselection); the value table and the key information each listen on  *)
(* a channel of one place and load what they hear.                         *)
(*                                                                         *)
(*   tree    the key tree (KeyTree)                                        *)
(*   ui      mode, input buffer, searches, focus, overlays, bookmarks      *)
(*   bus     the number and path of the last event; only its context is    *)
(*           not cancelled                                                 *)
(*   ear     per listener: waiting on its channel (with the event in it),  *)
(*           the message it posted, or gone                                *)
(*   loads   the load commands that run                                    *)
(*   shown   what the table and the key information display                *)
(*   row     the cursor of the value table                                 *)
(*   msgs    the other messages under way                                  *)
(***************************************************************************)
EXTENDS KeyTree

CONSTANTS Hits,      \* paths that a query of three characters matches
          Found,     \* paths with values the global search finds, in tree order
          Rows,      \* number of values of a path
          Unread,    \* per listener, the paths whose load ends with an error
          Sorted,    \* all paths in the order of their text
          Targets,   \* paths a user may ask for, missing ones too
          MaxKeys,   \* bound on key presses of a user who waits for what is under way,
          MaxHasty,  \* ... and of one who did not wait
          MaxRush    \* bound on the keys pressed while something is under way

VARIABLES tree, ui, bus, ear, loads, shown, row, msgs, keys, rushed, toggled

viewVars == <<tree, ui, bus, ear, loads, shown, row, msgs, keys, rushed, toggled>>
rest == <<loads, shown, row>>

Subs == {"table", "info"}
NoEvent == [n |-> 0, path |-> NoPath]

Waiting(ev) == [is |-> "waiting", ev |-> ev]
Told(ev) == [is |-> "told", ev |-> ev]
Gone == [is |-> "gone", ev |-> NoEvent]

\* Typed text (buf, query) counts as nothing, too short to filter, or long enough: 0 to 2.
NewUi == [mode |-> "normal", buf |-> 0, query |-> 0, idx |-> 0, matches |-> 0,
          pane |-> "tree", help |-> FALSE, detail |-> FALSE, active |-> FALSE,
          busy |-> FALSE, results |-> <<>>, marks |-> {}, panic |-> FALSE]

ViewInit ==
  /\ tree = NewTree
  /\ ui = NewUi
  /\ bus = NoEvent
  /\ ear = [s \in Subs |-> Waiting(NoEvent)]
  /\ loads = {}
  /\ shown = [s \in Subs |-> NoPath]
  /\ row = 0
  /\ msgs = {[is |-> "load tree"]}
  /\ keys = 0
  /\ rushed = 0
  /\ toggled = {}

Quiet == /\ msgs = {} /\ loads = {}
         /\ \A s \in Subs : ear[s] \in {Waiting(NoEvent), Gone}

-----------------------------------------------------------------------------
(* The bus. *)

\* An event replaces the context of the one before and is put into every channel
\* that is empty; a listener whose message is under way has left its channel.
Notify(t) ==
  LET ev == [n |-> bus.n + 1, path |-> t.say]
  IN /\ bus' = ev
     /\ ear' = [s \in Subs |-> IF ear[s] = Waiting(NoEvent) THEN Waiting(ev) ELSE ear[s]]

\* The tree becomes t; what the operation announced goes on the bus.
SetTree(t) ==
  /\ tree' = [t EXCEPT !.say = NoPath]
  /\ IF t.say = NoPath THEN UNCHANGED <<bus, ear>> ELSE Notify(t)
KeepTree == UNCHANGED <<tree, bus, ear>>

Cancelled(ev) == ev.n # bus.n

\* The listener wakes: a cancelled event ends it, with no message.
Wake(s) ==
  /\ ear[s].is = "waiting" /\ ear[s].ev # NoEvent
  /\ ear' = [ear EXCEPT ![s] = IF Cancelled(@.ev) THEN Gone ELSE Told(@.ev)]
  /\ UNCHANGED <<tree, ui, bus, rest, msgs, keys, rushed, toggled>>

\* (mutant) the listener is not started again
SignalReceivedOnce(s) ==
  /\ ear[s].is = "told"
  /\ loads' = loads \cup {[sub |-> s, ev |-> ear[s].ev, done |-> FALSE]}
  /\ ear' = [ear EXCEPT ![s] = Gone]
  /\ UNCHANGED <<tree, ui, bus, shown, row, msgs, keys, rushed, toggled>>

\* The message starts a load and listens again, on a new channel.
SignalReceived(s) ==
  /\ ear[s].is = "told"
  /\ loads' = loads \cup {[sub |-> s, ev |-> ear[s].ev, done |-> FALSE]}
  /\ ear' = [ear EXCEPT ![s] = Waiting(NoEvent)]
  /\ UNCHANGED <<tree, ui, bus, shown, row, msgs, keys, rushed, toggled>>

\* The load reads the key, or gives up when its event is cancelled by then or the key cannot be
\* read: nothing handles the error, and the pane keeps what it shows.  The key information
\* is written by the command itself.
Load(l) ==
  /\ ~l.done
  /\ IF Cancelled(l.ev) \/ l.ev.path \in Unread[l.sub] THEN loads' = loads \ {l} /\ UNCHANGED shown
     ELSE IF l.sub = "info"
     THEN loads' = loads \ {l} /\ shown' = [shown EXCEPT !["info"] = l.ev.path]
     ELSE loads' = (loads \ {l}) \cup {[l EXCEPT !.done = TRUE]} /\ UNCHANGED shown
  /\ UNCHANGED <<tree, ui, bus, ear, row, msgs, keys, rushed, toggled>>

\* The values are shown whatever the cursor is on by then.
ValuesLoaded(l) ==
  /\ l.done
  /\ loads' = loads \ {l}
  /\ shown' = [shown EXCEPT !["table"] = l.ev.path]
  /\ row' = 0
  /\ UNCHANGED <<tree, ui, bus, ear, msgs, keys, rushed, toggled>>

-----------------------------------------------------------------------------
(* Key presses. *)

\* A press is rushed when something is still under way.
Press == /\ Quiet \/ rushed < MaxRush
         /\ keys' = keys + 1
         /\ rushed' = IF Quiet THEN rushed ELSE rushed + 1
         /\ keys < IF rushed' = 0 THEN MaxKeys ELSE MaxHasty
patient == rushed = 0

Open == Press /\ ~ui.panic /\ ~ui.help /\ ~ui.detail
Normal == Open /\ ui.mode = "normal"
TreeOnly == UNCHANGED <<ui, rest, msgs, toggled>>
UiOnly == UNCHANGED <<tree, bus, ear, rest, msgs, toggled>>

TreeKey(k) ==
  /\ Normal /\ ui.pane = "tree"
  /\ SetTree(HandleKeyMsg(tree, k))
  /\ TreeOnly

\* The map is toggled at once, and once more by the message.
ToggleBookmark ==
  /\ Normal /\ ui.pane = "tree" /\ HasItem(tree)
  /\ LET p == CurrentItem(tree).path
         flip(S) == IF p \in S THEN S \ {p} ELSE S \cup {p}
     IN /\ ui' = [ui EXCEPT !.marks = flip(@)]
        /\ toggled' = flip(toggled)
        /\ msgs' = msgs \cup {[is |-> "mark", path |-> p, added |-> p \notin ui.marks]}
  /\ UNCHANGED <<tree, bus, ear, rest>>

BookmarkToggled(m) ==
  /\ m.is = "mark"
  /\ ui' = [ui EXCEPT !.marks = IF m.added THEN @ \cup {m.path} ELSE @ \ {m.path}]
  /\ msgs' = msgs \ {m}
  /\ UNCHANGED <<tree, bus, ear, rest, keys, rushed, toggled>>

RowKeys == {"up", "down", "home", "end"}

ValueKey(k) ==
  /\ Normal /\ ui.pane = "values"
  /\ LET last == IF Rows[shown["table"]] = 0 THEN 0 ELSE Rows[shown["table"]] - 1
     IN row' = CASE k = "up" -> IF row > 0 THEN row - 1 ELSE row
                 [] k = "down" -> IF row < last THEN row + 1 ELSE row
                 [] k = "home" -> 0
                 [] k = "end" -> IF row < last THEN last ELSE row
  /\ UNCHANGED <<tree, ui, bus, ear, loads, shown, msgs, toggled>>

SelectValue ==
  /\ Normal /\ ui.pane = "values" /\ row < Rows[shown["table"]]
  /\ msgs' = msgs \cup {[is |-> "detail"]}
  /\ UNCHANGED <<tree, ui, bus, ear, rest, toggled>>

ValueSelected(m) ==
  /\ m.is = "detail"
  /\ ui' = [ui EXCEPT !.detail = TRUE]
  /\ msgs' = msgs \ {m}
  /\ UNCHANGED <<tree, bus, ear, rest, keys, rushed, toggled>>

CloseOverlay ==
  /\ Press /\ (ui.help \/ ui.detail)
  /\ ui' = IF ui.help THEN [ui EXCEPT !.help = FALSE] ELSE [ui EXCEPT !.detail = FALSE]
  /\ UiOnly

ShowHelp == Normal /\ ui' = [ui EXCEPT !.help = TRUE] /\ UiOnly
SwitchPane == Normal /\ ui' = [ui EXCEPT !.pane = IF @ = "tree" THEN "values" ELSE "tree"] /\ UiOnly
RefreshKey == Normal /\ HasItem(tree) /\ SetTree(EmitSignal(tree)) /\ TreeOnly

-----------------------------------------------------------------------------
(* Searching for keys, and going to a path. *)

StartInput(mode) ==
  /\ Normal
  /\ ui' = IF mode = "values"
           THEN [ui EXCEPT !.mode = mode, !.buf = 0, !.active = FALSE, !.busy = FALSE,
                           !.results = <<>>]
           ELSE [ui EXCEPT !.mode = mode, !.buf = 0]
  /\ UiOnly

Filter(t, text) == IF text < 2 THEN ClearFilter(t) ELSE FilterBy(t, Hits)

Typed(text) ==
  /\ Open /\ ui.mode # "normal"
  /\ IF ui.mode = "search" /\ ui.pane = "tree" THEN SetTree(Filter(tree, text)) ELSE KeepTree
  /\ ui' = IF ui.mode = "values" /\ text = 0
           THEN [ui EXCEPT !.buf = text, !.active = FALSE, !.results = <<>>]
           ELSE [ui EXCEPT !.buf = text]
  /\ msgs' = IF ui.mode = "values" /\ text > 0
             THEN msgs \cup {[is |-> "trigger", query |-> text]} ELSE msgs
  /\ UNCHANGED <<rest, toggled>>

TypeRunes == \E text \in (ui.buf + 1)..2 : Typed(text)
Backspace == ui.buf > 0 /\ Typed(ui.buf - 1)

EscInput ==
  /\ Open /\ ui.mode # "normal"
  /\ IF ui.pane = "tree" THEN SetTree(ClearFilter(tree)) ELSE KeepTree
  /\ LET out == [ui EXCEPT !.mode = "normal", !.buf = 0, !.query = 0]
     IN ui' = IF ui.mode = "values" THEN [out EXCEPT !.active = FALSE, !.results = <<>>] ELSE out
  /\ UNCHANGED <<rest, msgs, toggled>>

\* Positions of the matches in the focused pane.  A short text matches everything.
MatchRows(query) ==
  IF ui.pane = "tree"
  THEN SelectSeq([i \in DOMAIN tree.items |-> i - 1],
                 LAMBDA i : query = 1 \/ tree.items[i + 1].path \in Hits)
  ELSE [i \in 1..(IF query = 1 THEN Rows[shown["table"]] ELSE 0) |-> i - 1]

\* Keys were filtered while typing; in the value pane the cursor goes to the first match.
EnterSearch ==
  /\ Open /\ ui.mode = "search"
  /\ LET found == IF ui.buf = 0 THEN <<>> ELSE MatchRows(ui.buf)
     IN /\ ui' = [ui EXCEPT !.mode = "normal", !.query = ui.buf, !.idx = 0,
                            !.matches = Len(found)]
        /\ row' = IF ui.pane = "values" /\ found # <<>> THEN found[1] ELSE row
  /\ UNCHANGED <<tree, bus, ear, loads, shown, msgs, toggled>>

EnterGoTo(target) ==
  /\ Open /\ ui.mode = "path"
  /\ LET out == [ui EXCEPT !.mode = "normal", !.buf = 0]
     IN IF ui.buf = 0 THEN ui' = out /\ KeepTree
        ELSE ui' = [out EXCEPT !.pane = "tree"] /\ SetTree(NavigateToPath(tree, target))
  /\ UNCHANGED <<rest, msgs, toggled>>

EscNormal ==
  /\ Normal /\ ui.query # 0
  /\ ui' = [ui EXCEPT !.query = 0, !.matches = 0, !.idx = 0]
  /\ IF ui.pane = "tree" THEN SetTree(ClearFilter(tree)) ELSE KeepTree
  /\ UNCHANGED <<rest, msgs, toggled>>

\* The first bookmark after the current key in the order of names, else the first.
NextBookmark ==
  /\ Normal /\ ui.marks # {}
  /\ LET marked == SelectSeq(Sorted, LAMBDA p : p \in ui.marks)
         pos(p) == CHOOSE i \in DOMAIN Sorted : Sorted[i] = p
         later == SelectSeq(marked, LAMBDA p : HasItem(tree) /\ pos(p) > pos(CurrentItem(tree).path))
     IN SetTree(NavigateToPath(tree, Head(later \o marked)))
  /\ ui' = [ui EXCEPT !.pane = "tree"]
  /\ UNCHANGED <<rest, msgs, toggled>>

-----------------------------------------------------------------------------
(* Searching all values. *)

\* A debounce timer expired: only the query still typed is searched for.
Trigger(m) ==
  /\ m.is = "trigger"
  /\ LET go == ui.mode = "values" /\ m.query = ui.buf
     IN /\ ui' = IF go THEN [ui EXCEPT !.busy = TRUE] ELSE ui
        /\ msgs' = (msgs \ {m}) \cup (IF go THEN {[is |-> "run", query |-> m.query]} ELSE {})
  /\ UNCHANGED <<tree, bus, ear, rest, keys, rushed, toggled>>

EnterValueSearch ==
  /\ Open /\ ui.mode = "values"
  /\ ui' = [ui EXCEPT !.mode = "normal", !.buf = 0, !.busy = TRUE]
  /\ msgs' = IF ui.buf = 0 THEN msgs ELSE msgs \cup {[is |-> "run", query |-> ui.buf]}
  /\ UNCHANGED <<tree, bus, ear, rest, toggled>>

\* The command that reads the values of every key.
SearchRun(m) ==
  /\ m.is = "run"
  /\ msgs' = (msgs \ {m}) \cup
             {[is |-> "complete", results |-> IF m.query = 2 /\ tree.ready THEN Found ELSE <<>>]}
  /\ UNCHANGED <<tree, ui, bus, ear, rest, keys, rushed, toggled>>

SearchComplete(m) ==
  /\ m.is = "complete"
  /\ ui' = [ui EXCEPT !.results = m.results, !.busy = FALSE, !.active = m.results # <<>>]
  /\ IF m.results = <<>> THEN KeepTree
     ELSE SetTree(NavigateToPath(FoldLeft(ExpandParents, tree, m.results), m.results[1]))
  /\ msgs' = msgs \ {m}
  /\ UNCHANGED <<rest, keys, rushed, toggled>>

\* The place of the next, previous, first or last match among n.
Jumps == {"next", "prev", "first", "last"}
MatchAt(jump, idx, n) ==
  CASE jump = "next" -> (idx + 1) % n
    [] jump = "prev" -> IF idx = 0 THEN n - 1 ELSE idx - 1
    [] jump = "first" -> 0
    [] jump = "last" -> n - 1

ValueMatch(jump) ==
  LET R == ui.results
      here == IF HasItem(tree) /\ CurrentItem(tree).path \in Range(R)
              THEN (CHOOSE i \in DOMAIN R : R[i] = CurrentItem(tree).path) - 1
              ELSE IF jump = "next" THEN Len(R) - 1 ELSE 0
  IN SetTree(NavigateToPath(tree, R[MatchAt(jump, here, Len(R)) + 1])) /\ UNCHANGED <<ui, row>>

\* The list of matches may have become shorter since: the index of the previous
\* one then lies outside it, and the program panics.
KeyMatch(jump) ==
  LET M == MatchRows(ui.query)
      at == MatchAt(jump, ui.idx, Len(M))
  IN IF ui.matches = 0 \/ M = <<>> THEN KeepTree /\ UNCHANGED <<ui, row>>
     ELSE IF at >= Len(M)
     THEN ui' = [ui EXCEPT !.panic = TRUE] /\ KeepTree /\ UNCHANGED row
     ELSE /\ ui' = [ui EXCEPT !.idx = at]
          /\ IF ui.pane = "tree" THEN SetTree(MoveTo(tree, M[at + 1])) /\ UNCHANGED row
             ELSE KeepTree /\ row' = M[at + 1]

MatchKey(jump) ==
  /\ Normal /\ (ui.query # 0 \/ ui.active)
  /\ IF ui.active /\ ui.results # <<>> THEN ValueMatch(jump) ELSE KeyMatch(jump)
  /\ UNCHANGED <<loads, shown, msgs, toggled>>

-----------------------------------------------------------------------------
\* The tree arrives, or the hive cannot be read; that message has no handler.
LoadTree(m) ==
  /\ m.is = "load tree"
  /\ msgs' = msgs \ {m}
  /\ \/ SetTree(TreeLoaded(tree))
     \/ KeepTree
  /\ UNCHANGED <<ui, rest, keys, rushed, toggled>>

ViewNext ==
  \/ \E k \in TreeKeys : TreeKey(k)
  \/ \E k \in RowKeys : ValueKey(k)
  \/ ToggleBookmark \/ SelectValue \/ CloseOverlay \/ ShowHelp \/ SwitchPane \/ RefreshKey
  \/ \E mode \in {"search", "path", "values"} : StartInput(mode)
  \/ TypeRunes \/ Backspace \/ EscInput \/ EscNormal
  \/ EnterSearch \/ EnterValueSearch \/ NextBookmark
  \/ \E p \in Targets : EnterGoTo(p)
  \/ \E jump \in Jumps : MatchKey(jump)
  \/ \E s \in Subs : Wake(s)
  \/ \E s \in Subs : SignalReceived(s)
  \/ \E l \in loads : Load(l)
  \/ \E l \in loads : ValuesLoaded(l)
  \/ \E m \in msgs : BookmarkToggled(m)
  \/ \E m \in msgs : ValueSelected(m)
  \/ \E m \in msgs : Trigger(m)
  \/ \E m \in msgs : SearchRun(m)
  \/ \E m \in msgs : SearchComplete(m)
  \/ \E m \in msgs : LoadTree(m)

ViewSpec == ViewInit /\ [][ViewNext]_viewVars

-----------------------------------------------------------------------------
(* Properties. *)

\* The visible keys are keys of the hive, none twice, in the order of the hive,
\* each below its parent: inserting and removing runs of children, filtering and
\* rebuilding keep the list a cut of the tree, in whatever order they come
\* (expand_manager.go, tree_state.go, model.go of keytree).
TreeShape ==
  \A list \in {tree.items, IF tree.pre = NoList THEN <<>> ELSE tree.pre} :
    LET ps == [i \in DOMAIN list |-> list[i].path]
    IN /\ ps = SelectSeq(TreeOrder, LAMBDA p : p \in Range(ps))
       /\ \A p \in Range(ps) : Depth(p) > 0 => Parent(p) \in Range(ps)

\* A key whose row is marked as collapsed has no key below it in the list; an
\* expansion relies on it, since it inserts the children without looking.
CollapsedHides ==
  \A i \in DOMAIN tree.items :
    ~tree.items[i].exp => \A p \in Shown(tree) : ~Below(tree.items[i].path, p)

\* With no filter left every top-level key is visible, for a user who waits for the
\* tree before typing: clearing a filter brings back what it hid.
RootsShown ==
  patient /\ tree.ready /\ tree.pre = NoList
     => \A p \in Paths : Depth(p) = 0 => p \in Shown(tree)

\* Whatever was expanded, collapsed, filtered and searched for, the list is a view of
\* the tree.
TreeSound == TreeShape /\ CollapsedHides /\ RootsShown

\* What a pane shows is the key announced last, if that key can be read; else it is left open:
\* the pane goes on showing the key it showed before, under no notice of an error
\* (valuetable/model.go:188, displays/keyinfo.go:97).
UpToDate(s) == bus.path \notin Unread[s] => shown[s] = bus.path

\* A user who presses a key only when nothing is under way sees, once the loads have
\* ended, the values and the information of the key announced last, if they can be read, and the
\* bookmarks that the presses of the bookmark key add up to.
PatientView ==
  patient /\ Quiet => /\ \A s \in Subs : UpToDate(s)
                      /\ ui.marks = toggled
=============================================================================
