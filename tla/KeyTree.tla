------------------------------ MODULE KeyTree ------------------------------
(***************************************************************************)
(* The key tree of the explorer (cmd/hiveexplorer/keytree): the list of    *)
(* visible keys, the cursor on it, and the operations that expand,         *)
(* collapse, filter and navigate.                                          *)
(*                                                                         *)
(* The tree is one record t:                                               *)
(*   ready    the whole tree has been loaded (allItems is set)             *)
(*   items    the visible keys, each with its Expanded flag                *)
(*   pre      the list saved when a filter was first applied (NoList: none)*)
(*   loaded   the paths whose children count as loaded                     *)
(*   cursor   the position of the cursor, from 0                           *)
(*   say      the path the operation announced on the bus (NoPath: none)   *)
(*                                                                         *)
(* A path is the sequence of its names.  The lazy loading of children is   *)
(* left out: Init always loads the entire tree, and before that the list   *)
(* is empty and there is nothing to expand.                                *)
(***************************************************************************)
EXTENDS Integers, Sequences, SequencesExt, FiniteSets

CONSTANT TreeOrder   \* every key of the hive, parents before children

NoList == <<[path |-> <<>>, exp |-> FALSE]>>
NoPath == <<>>

Paths == Range(TreeOrder)
Parent(p) == Front(p)
Depth(p) == Len(p) - 1
Below(p, q) == Len(p) < Len(q) /\ IsPrefix(p, q)
HasChildren(p) == \E q \in Paths : Parent(q) = p

Collapsed(ps) == [i \in 1..Len(ps) |-> [path |-> ps[i], exp |-> FALSE]]
Roots == Collapsed(SelectSeq(TreeOrder, LAMBDA p : Depth(p) = 0))
GetChildren(p) == Collapsed(SelectSeq(TreeOrder, LAMBDA q : Parent(q) = p))

NewTree == [ready |-> FALSE, items |-> <<>>, pre |-> NoList, loaded |-> {},
            cursor |-> 0, say |-> NoPath]

-----------------------------------------------------------------------------
(* Cursor and selection. *)

Shown(t) == {t.items[i].path : i \in DOMAIN t.items}
HasItem(t) == t.cursor < Len(t.items)
CurrentItem(t) == t.items[t.cursor + 1]
IndexOf(t, p) == (CHOOSE i \in DOMAIN t.items :
                     /\ t.items[i].path = p
                     /\ \A j \in 1..(i - 1) : t.items[j].path # p) - 1

EmitSignal(t) == IF HasItem(t) THEN [t EXCEPT !.say = CurrentItem(t).path] ELSE t

MoveTo(t, pos) ==
  IF pos < 0 \/ pos >= Len(t.items) \/ pos = t.cursor THEN t
  ELSE EmitSignal([t EXCEPT !.cursor = pos])

GoToParent(t) ==
  IF HasItem(t) /\ Depth(CurrentItem(t).path) > 0
                /\ Parent(CurrentItem(t).path) \in Shown(t)
  THEN MoveTo(t, IndexOf(t, Parent(CurrentItem(t).path)))
  ELSE t

\* The same move without the signal: MoveToParent writes the cursor itself.
MoveToParent(t) ==
  IF Parent(CurrentItem(t).path) \in Shown(t)
  THEN [t EXCEPT !.cursor = IndexOf(t, Parent(CurrentItem(t).path))]
  ELSE t

-----------------------------------------------------------------------------
(* Expanding and collapsing. *)

\* (mutant) the insertion leaves the item marked as collapsed
InsertUnmarked(t, i) ==
  [t EXCEPT !.items = SubSeq(@, 1, i + 1) \o GetChildren(@[i + 1].path)
                      \o SubSeq(@, i + 2, Len(@))]

InsertChildren(t, i) ==
  [t EXCEPT !.items = [SubSeq(@, 1, i + 1) EXCEPT ![i + 1].exp = TRUE]
                      \o GetChildren(@[i + 1].path) \o SubSeq(@, i + 2, Len(@))]

\* An item is skipped from a child of p on, as long as the depth does not fall.
RemoveChildren(t, p) ==
  LET skipped(i) == \E f \in 1..i :
                       /\ Parent(t.items[f].path) = p
                       /\ \A k \in f..i : Depth(t.items[k].path) >= Depth(t.items[f].path)
      keep == SelectSeq([i \in DOMAIN t.items |-> i], LAMBDA i : ~skipped(i))
      kept == [n \in DOMAIN keep |-> t.items[keep[n]]]
  IN [t EXCEPT !.items = kept,
               !.loaded = {q \in @ : ~IsPrefix(p, q)},
               !.cursor = IF @ >= Len(kept) /\ kept # <<>> THEN Len(kept) - 1 ELSE @]

CollapseAt(t, i) ==
  IF i >= Len(t.items) THEN t
  ELSE IF ~t.items[i + 1].exp
       THEN IF Depth(t.items[i + 1].path) > 0 THEN MoveToParent(t) ELSE t
       ELSE RemoveChildren([t EXCEPT !.items[i + 1].exp = FALSE], t.items[i + 1].path)

Expand(t) ==
  IF ~HasItem(t) \/ ~HasChildren(CurrentItem(t).path) THEN t
  ELSE IF CurrentItem(t).exp THEN CollapseAt(t, t.cursor)
  ELSE InsertChildren(t, t.cursor)

Collapse(t) == CollapseAt(t, t.cursor)

\* Every item that has no visible ancestor is the root of a rebuilt subtree; its
\* own flag is kept, the flags below it are forgotten.  The cursor stays put.
ExpandAllChildren(t) ==
  IF ~HasItem(t) \/ ~HasChildren(CurrentItem(t).path) THEN t
  ELSE LET root == CurrentItem(t).path
           tops == {p \in Shown(t) : \A q \in Shown(t) : ~Below(q, p)}
           open(p) == \/ IsPrefix(root, p) /\ HasChildren(p)
                      \/ p \in tops /\ t.items[IndexOf(t, p) + 1].exp
           seen(q) == \E r \in tops : /\ IsPrefix(r, q)
                                      /\ \A k \in Len(r)..(Len(q) - 1) : open(SubSeq(q, 1, k))
           list == SelectSeq(TreeOrder, seen)
       IN [t EXCEPT !.items = [i \in DOMAIN list |-> [path |-> list[i], exp |-> open(list[i])]]]

CollapseAll(t) ==
  LET kept == SelectSeq(t.items, LAMBDA it : Depth(it.path) = 0)
  IN [t EXCEPT !.items = [i \in DOMAIN kept |-> [kept[i] EXCEPT !.exp = FALSE]],
               !.loaded = {<<>>},
               !.cursor = IF @ < Len(kept) THEN @ ELSE IF kept = <<>> THEN 0 ELSE Len(kept) - 1]

\* The flag is set and no child is inserted.
ExpandCurrentLevel(t) ==
  IF ~HasItem(t) THEN t
  ELSE LET d == Depth(CurrentItem(t).path)
       IN [t EXCEPT !.items = [i \in DOMAIN @ |->
             IF Depth(@[i].path) = d /\ HasChildren(@[i].path) /\ @[i].path \in t.loaded
             THEN [@[i] EXCEPT !.exp = TRUE] ELSE @[i]]]

CollapseToCurrentLevel(t) ==
  IF ~HasItem(t) THEN t
  ELSE LET d == Depth(CurrentItem(t).path)
           kept == SelectSeq(t.items, LAMBDA it : Depth(it.path) <= d)
       IN [t EXCEPT !.items = [i \in DOMAIN kept |->
                                 IF Depth(kept[i].path) = d THEN [kept[i] EXCEPT !.exp = FALSE]
                                 ELSE kept[i]],
                    !.loaded = @ \ {p \in Shown(t) : Depth(p) > d},
                    !.cursor = IF @ >= Len(kept) THEN Len(kept) - 1 ELSE @]

-----------------------------------------------------------------------------
(* Going to a path. *)

ExpandOne(t, p) ==
  IF p \notin Shown(t) THEN t
  ELSE LET i == IndexOf(t, p)
           childrenVisible == i + 1 < Len(t.items) /\ Below(p, t.items[i + 2].path)
       IN IF t.items[i + 1].exp /\ childrenVisible THEN t
          ELSE IF p \in t.loaded THEN InsertChildren(t, i)
          ELSE [Expand([t EXCEPT !.cursor = i]) EXCEPT !.cursor = t.cursor]

ExpandParents(t, target) ==
  FoldLeft(ExpandOne, t, [k \in 1..(Len(target) - 1) |-> SubSeq(target, 1, k)])

NavigateToPath(t, target) ==
  LET u == ExpandParents(t, target)
  IN IF target \in Shown(u) THEN MoveTo(u, IndexOf(u, target)) ELSE u

-----------------------------------------------------------------------------
(* Filtering.  `hits' is the set of paths a query of three characters or   *)
(* more matches; a shorter query removes the filter.                       *)

Refresh(t) == IF t.items = <<>> THEN t
              ELSE EmitSignal([t EXCEPT !.cursor = IF @ >= Len(t.items) THEN 0 ELSE @])

ClearFilter(t) ==
  Refresh([t EXCEPT !.items = IF t.pre = NoList THEN @ ELSE t.pre, !.pre = NoList])

FilterBy(t, hits) ==
  LET source == IF t.pre = NoList THEN t.items ELSE t.pre
      found == {source[i].path : i \in DOMAIN source} \cap hits
  IN Refresh([t EXCEPT !.pre = source,
                       !.items = SelectSeq(source, LAMBDA it :
                                   it.path \in found \/ \E h \in found : Below(it.path, h))])

-----------------------------------------------------------------------------
(* The tree has been read. *)

TreeLoaded(t) ==
  EmitSignal([t EXCEPT !.ready = TRUE, !.items = Roots, !.loaded = @ \cup Paths])

(* Keys in the tree pane. *)

TreeKeys == {"up", "down", "enter", "right", "left", "home", "end", "parent",
             "expandAll", "collapseAll", "expandLevel", "collapseToLevel"}

HandleKeyMsg(t, k) ==
  CASE k = "up" -> MoveTo(t, t.cursor - 1)
    [] k = "down" -> MoveTo(t, t.cursor + 1)
    [] k = "enter" -> IF HasItem(t) /\ CurrentItem(t).exp THEN Collapse(t) ELSE Expand(t)
    [] k = "right" -> Expand(t)
    [] k = "left" -> Collapse(t)
    [] k = "home" -> MoveTo(t, 0)
    [] k = "end" -> MoveTo(t, Len(t.items) - 1)
    [] k = "parent" -> GoToParent(t)
    [] k = "expandAll" -> ExpandAllChildren(t)
    [] k = "collapseAll" -> CollapseAll(t)
    [] k = "expandLevel" -> ExpandCurrentLevel(t)
    [] k = "collapseToLevel" -> CollapseToCurrentLevel(t)
=============================================================================
