------------------------------ MODULE KeyEdit ------------------------------
(***************************************************************************)
(* Subkey lists under edit: keyEditor of hive/edit/nkedit.go, in immediate *)
(* and in deferred mode, driven by Session.Apply of hive/merge/session.go  *)
(* through the strategies of hive/merge/strategy.                          *)
(*                                                                         *)
(* A cell is an NK (a key), a subkey list, or free.  The allocator is the  *)
(* one module CellStore describes: it may give out any free cell, also one *)
(* that was freed a moment ago.  Lists are short enough for one cell (of a *)
(* longer one that loses an entry in immediate mode only the RI cell is    *)
(* freed, its chunks stay allocated: removeFromParentSubkeyList).  Values, *)
(* security cells and time stamps are left out; what a value operation     *)
(* does to keys (it creates its path) is an EnsureKey.  The hive's index   *)
(* (hive/index) is a set of entries.                                       *)
(*                                                                         *)
(* A name is a number: its place in byte order.  Capitals come first, and  *)
(* the small letter of a capital is Case places further.                   *)
(***************************************************************************)
EXTENDS Integers, Sequences, FiniteSets, TLC
LOCAL INSTANCE Functions

CONSTANTS
  Ref, Root,   \* cell references, and the reference of the root key
  Case,        \* distance from a capital to its small letter
  MaxDepth,    \* bound on the length of a path
  Uses         \* the ways the editor is used: [strategy, deferred, mixed, paths]

ASSUME EditAssumption ==
  /\ Root \in Ref /\ IsFiniteSet(Ref)
  /\ Case \in Nat \ {0} /\ MaxDepth \in Nat \ {0}
  /\ \A u \in Uses : /\ u.strategy \in {"inplace", "append", "hybrid"}
                     /\ u.deferred \in BOOLEAN /\ u.mixed \in BOOLEAN
                     /\ \A q \in u.paths : q \in Seq(Nat) /\ Len(q) \in 1..MaxDepth

VARIABLES
  use,       \* the strategy, whether Apply defers (FALSE: the editor is used
             \* directly), whether one plan may both create and delete keys,
             \* and the paths its operations name
  cell,      \* the cells of the hive
  index,     \* Session.idx: entries [parent, name, ref]
  deferredMode, deferredParents,   \* of the strategy's (main) key editor
  pc,        \* where Session.Apply is
  plan,      \* which operations the rest of the plan may hold
  op,        \* the operation under way
  err,       \* why Apply failed
  want       \* history: the paths the operations so far ask for

vars == <<use, cell, index, deferredMode, deferredParents, pc, plan, op, err, want>>
editor == <<deferredMode, deferredParents>>

Strategy == use.strategy

None == "none"     \* format.InvalidOffset
Lower(s) == IF s < Case THEN s + Case ELSE s
LowerPath(p) == [k \in 1..Len(p) |-> Lower(p[k])]

Free == [kind |-> "free"]
NK(s, p) == [kind |-> "nk", name |-> s, parent |-> p, list |-> None, count |-> 0]
ListOf(refs) == [kind |-> "list", refs |-> refs]

FreeRefs(C) == {r \in Ref : C[r].kind = "free"}
IsNK(C, r) == r \in Ref /\ C[r].kind = "nk"
IsList(C, l) == l \in Ref /\ C[l].kind = "list"

Entry(s, r) == [NameLower |-> s, NKRef |-> r]
Refs(entries) == [k \in 1..Len(entries) |-> entries[k].NKRef]

(***************************************************************************)
(* hive/subkeys: ReadRaw, Read (which skips what is no key), Insert.       *)
(***************************************************************************)
Raw(C, l) == C[l].refs
ReadList(C, l) ==
  LET nks == SelectSeq(Raw(C, l), LAMBDA r : IsNK(C, r))
  IN [k \in 1..Len(nks) |-> Entry(Lower(C[nks[k]].name), nks[k])]

\* (mutant) nothing is filtered out.
WithoutNone(refs, S) == refs
Without(refs, S) == SelectSeq(refs, LAMBDA r : r \notin S)

\* List.Insert: an entry of that name is replaced, otherwise the entry goes
\* in front of the first greater one.
Insert(entries, e) ==
  LET same == {k \in 1..Len(entries) : entries[k].NameLower = e.NameLower}
      from == {k \in 1..Len(entries) : entries[k].NameLower > e.NameLower}
      at == IF from = {} THEN Len(entries) + 1 ELSE CHOOSE k \in from : \A j \in from : k <= j
  IN IF same # {}
       THEN [entries EXCEPT ![CHOOSE k \in same : \A j \in same : k <= j] = e]
       ELSE SubSeq(entries, 1, at - 1) \o <<e>> \o SubSeq(entries, at, Len(entries))

SortEntries(entries) == SortSeq(entries, LAMBDA a, b : a.NameLower < b.NameLower)

\* mergeRawAndNewEntries: each new entry's place is found by bisection, then
\* old and new are interleaved in one pass over the places.
Place(C, raw, s) ==
  LET n == Len(raw)
      name(k) == Lower(C[raw[k + 1]].name)
      search[lo \in 0..n, hi \in 0..n] ==
        LET mid == lo + (hi - lo) \div 2
        IN IF lo >= hi THEN lo
           ELSE IF name(mid) < s THEN search[mid + 1, hi] ELSE search[lo, mid]
  IN search[0, n]

MergeRaw(C, raw, new) ==
  LET n == Len(raw)
      m == Len(new)
      pos == [k \in 1..m |-> Place(C, raw, new[k].NameLower)]
      out[ri \in 0..n, k \in 1..(m + 1)] ==
        IF k <= m /\ pos[k] = ri THEN <<new[k].NKRef>> \o out[ri, k + 1]
        ELSE IF ri < n THEN <<raw[ri + 1]>> \o out[ri + 1, k] ELSE <<>>
  IN out[0, 1]

(***************************************************************************)
(* The editors a strategy uses.  The hybrid strategy creates the path of a *)
(* large value with the append strategy's editor, which is never deferred; *)
(* the append strategy's allocator never frees.                            *)
(***************************************************************************)
CreateEditors == IF Strategy = "hybrid" THEN {"inplace", "append"} ELSE {Strategy}
DeleteEditor == IF Strategy = "append" THEN "append" ELSE "inplace"

Defers(ed) == deferredMode /\ (Strategy = "hybrid" => ed = "inplace")
Released(ed, C, S) == IF ed = "append" THEN C ELSE [r \in Ref |-> IF r \in S THEN Free ELSE C[r]]

\* freeSubkeyList: an error of resolveCell is ignored, and what is there is
\* freed whatever it is.
FreeList(ed, C, l) == IF l = None \/ C[l] = Free THEN C ELSE Released(ed, C, {l})

\* updateParentNK.
SetList(C, p, refs, l) == [C EXCEPT ![p] = [@ EXCEPT !.list = l, !.count = Len(refs)]]

GetNK(p, s) == {e \in index : e.parent = p /\ e.name = Lower(s)}
AddNK(p, s, r) == (index \ GetNK(p, s)) \cup {[parent |-> p, name |-> Lower(s), ref |-> r]}

NoOp == [do |-> "none", ed |-> None, cur |-> Root, rest |-> <<>>, parent |-> Root]
\* The operation returns an error and so does Apply; the session is left as
\* it is, to be closed.
Fail(why) == pc' = "failed" /\ err' = why /\ op' = NoOp /\ UNCHANGED <<index, deferredParents>>

\* subkeys.Write* and updateParentNK: the list goes to a free cell of C, the
\* key p is pointed at it.  An empty list needs no cell.  If p is no key any
\* more, updateParentNK fails on a free cell or overwrites what is there.
WriteList(C, p, refs, then) ==
  IF ~IsNK(C, p) THEN cell' = C /\ Fail("badref")
  ELSE IF refs = <<>> THEN cell' = SetList(C, p, refs, None) /\ then
  ELSE IF FreeRefs(C) = {} THEN cell' = C /\ Fail("nospace")
  ELSE \E l \in FreeRefs(C) :
         cell' = SetList([C EXCEPT ![l] = ListOf(refs)], p, refs, l) /\ then

(***************************************************************************)
(* Deferred mode.                                                          *)
(***************************************************************************)
Pending(p) == p \in DOMAIN deferredParents
With(D, p, d) == (p :> d) @@ D
Drop(D, p) == [q \in DOMAIN D \ {p} |-> D[q]]

\* (mutant) the list on disk is not read.
LoadedEmpty(C, p) ==
  IF Pending(p) THEN deferredParents[p]
  ELSE [children |-> <<>>, rawChildren |-> <<>>, raw |-> FALSE,
        oldListRef |-> C[p].list, deletedNKRefs |-> {}, loaded |-> TRUE]
\* insertDeferredChild on the key p of C: the first child of a batch takes a
\* copy of the list ("raw": rawChildren is not nil).
Loaded(C, p) ==
  LET l == C[p].list
      readable == C[p].count > 0 /\ IsList(C, l)
      old == IF C[p].count > 0 THEN l ELSE None
  IN IF ~Pending(p)
       THEN [children |-> <<>>, rawChildren |-> IF readable THEN Raw(C, l) ELSE <<>>,
             raw |-> readable, oldListRef |-> old, deletedNKRefs |-> {}, loaded |-> TRUE]
     ELSE IF ~deferredParents[p].loaded
       THEN [deferredParents[p] EXCEPT
               !.children = IF readable THEN ReadList(C, l) ELSE <<>>,
               !.oldListRef = IF C[p].count > 0 /\ l # None THEN l ELSE @,
               !.loaded = TRUE]
     ELSE deferredParents[p]

InsertDeferred(C, p, e) ==
  LET d == Loaded(C, p)
  IN With(deferredParents, p, [d EXCEPT !.children = Append(@, e)])

\* removeDeferredChild.  DeleteKey has flushed p just before.
RemoveDeferred(p, r) ==
  With(deferredParents, p,
       [children |-> <<>>, rawChildren |-> <<>>, raw |-> FALSE, oldListRef |-> None,
        deletedNKRefs |-> {r}, loaded |-> FALSE])

(***************************************************************************)
(* flushDeferredParent: "then" is what its caller does next.               *)
(***************************************************************************)
Flushed(p, then) == deferredParents' = Drop(deferredParents, p) /\ then

FlushDeletes(ed, p, then) ==
  LET l == cell[p].list
      left == Without(Raw(cell, l), deferredParents[p].deletedNKRefs)
  IN IF ~IsNK(cell, p) \/ (l # None /\ ~IsList(cell, l))
       THEN Fail("badref") /\ cell' = cell
     ELSE IF l = None THEN cell' = cell /\ Flushed(p, then)
     ELSE WriteList(FreeList(ed, cell, l), p, left, Flushed(p, then))

FlushRaw(ed, p, then) ==
  LET d == deferredParents[p]
      lost == d.children # <<>> /\ \E k \in 1..Len(d.rawChildren) : ~IsNK(cell, d.rawChildren[k])
  IN IF lost
       THEN Fail("badref") /\ cell' = cell
       ELSE WriteList(FreeList(ed, cell, d.oldListRef), p,
                      MergeRaw(cell, d.rawChildren, d.children), Flushed(p, then))

FlushStandard(ed, p, then) ==
  LET d == deferredParents[p]
      kept == SelectSeq(d.children, LAMBDA e : e.NKRef \notin d.deletedNKRefs)
  IN WriteList(FreeList(ed, cell, d.oldListRef), p, Refs(SortEntries(kept)), Flushed(p, then))

FlushParent(ed, p, then) ==
  LET d == deferredParents[p]
  IN IF ~Pending(p) THEN UNCHANGED <<cell, deferredParents>> /\ then
     ELSE IF ~d.loaded /\ d.children = <<>> /\ d.deletedNKRefs # {} THEN FlushDeletes(ed, p, then)
     ELSE IF d.raw /\ d.deletedNKRefs = {} THEN FlushRaw(ed, p, then)
     ELSE FlushStandard(ed, p, then)

(***************************************************************************)
(* Session.Apply: deferred mode is switched on, which forgets whatever was *)
(* pending; the operations of the plan follow; then the flush.             *)
(***************************************************************************)
Plans == IF use.mixed THEN {"mixed"} ELSE {"create", "delete"}

Apply ==
  /\ pc = "idle"
  /\ pc' = "apply" /\ plan' \in Plans
  /\ deferredMode' = use.deferred /\ deferredParents' = <<>>
  /\ UNCHANGED <<use, cell, index, op, err, want>>

\* ctx is cancelled between two operations: Apply returns at once.
Cancel ==
  /\ pc = "apply"
  /\ Fail("cancelled")
  /\ UNCHANGED <<use, cell, deferredMode, plan, want>>

PathsTo(p) == {SubSeq(p, 1, k) : k \in 1..Len(p)}
Below(p) == {q \in want : Len(q) >= Len(p) /\ SubSeq(q, 1, Len(p)) = p}

(***************************************************************************)
(* EnsureKeyPath.                                                          *)
(***************************************************************************)
EnsureKey(ed, path) ==
  /\ pc = "apply" /\ plan # "delete"
  /\ pc' = "op"
  /\ op' = [do |-> "ensure", ed |-> ed, cur |-> Root, rest |-> path, parent |-> Root]
  /\ want' = want \cup PathsTo(LowerPath(path))
  /\ UNCHANGED <<use, cell, index, editor, plan, err>>

\* The segment is in the index.
Descend ==
  /\ op.do = "ensure" /\ op.rest # <<>>
  /\ \E e \in GetNK(op.cur, Head(op.rest)) : op' = [op EXCEPT !.cur = e.ref, !.rest = Tail(@)]
  /\ UNCHANGED <<use, cell, index, editor, pc, plan, err, want>>

EnsureDone ==
  /\ op.do = "ensure" /\ op.rest = <<>>
  /\ op' = NoOp /\ pc' = "apply"
  /\ UNCHANGED <<use, cell, index, editor, plan, err, want>>

\* createKey: the cell of the new key, the parent's list, the index.
CreateKey ==
  LET p == op.cur
      s == Head(op.rest)
      after(r) == /\ index' = AddNK(p, s, r)
                  /\ op' = [op EXCEPT !.cur = r, !.rest = Tail(@)]
                  /\ UNCHANGED <<pc, err>>
  IN /\ op.do = "ensure" /\ op.rest # <<>> /\ GetNK(p, s) = {}
     /\ IF ~IsNK(cell, p) THEN Fail("badref") /\ cell' = cell
        ELSE IF FreeRefs(cell) = {} THEN Fail("nospace") /\ cell' = cell
        ELSE \E r \in FreeRefs(cell) :
          LET C == [cell EXCEPT ![r] = NK(s, p)]
              l == C[p].list
              old == IF IsList(C, l) THEN ReadList(C, l) ELSE <<>>
          IN IF Defers(op.ed)
               THEN /\ deferredParents' = InsertDeferred(C, p, Entry(s, r))
                    /\ cell' = C /\ after(r)
               ELSE /\ WriteList(FreeList(op.ed, C, l), p, Refs(Insert(old, Entry(s, r))), after(r))
                    /\ UNCHANGED deferredParents
     /\ UNCHANGED <<use, deferredMode, plan, want>>

(***************************************************************************)
(* DeleteKey, recursive.  In deferred mode the key's own pending children  *)
(* and those of its parent are flushed first.                              *)
(***************************************************************************)
\* index.WalkPath.
WalkPath(path) ==
  LET at[k \in 0..Len(path)] ==
        IF k = 0 THEN {Root}
        ELSE {e.ref : e \in {f \in index : f.parent \in at[k - 1] /\ f.name = Lower(path[k])}}
  IN at[Len(path)]

\* A path that does not exist is left alone.
DeleteKey(path) ==
  /\ pc = "apply" /\ plan # "create"
  /\ \E nk \in WalkPath(path) :
       IF IsNK(cell, nk)
         THEN /\ op' = [do |-> IF deferredMode THEN "flushkey" ELSE "remove", ed |-> DeleteEditor,
                        cur |-> nk, rest |-> <<>>, parent |-> cell[nk].parent]
              /\ pc' = "op"
              /\ UNCHANGED <<index, deferredParents, err>>
         ELSE Fail("badref")
  /\ want' = want \ Below(LowerPath(path))
  /\ UNCHANGED <<use, cell, deferredMode, plan>>

FlushKey ==
  /\ op.do = "flushkey"
  /\ FlushParent(op.ed, op.cur, op' = [op EXCEPT !.do = "flushparent"] /\ UNCHANGED <<pc, err>>)
  /\ UNCHANGED <<use, index, deferredMode, plan, want>>

FlushItsParent ==
  /\ op.do = "flushparent"
  /\ FlushParent(op.ed, op.parent, op' = [op EXCEPT !.do = "remove"] /\ UNCHANGED <<pc, err>>)
  /\ UNCHANGED <<use, index, deferredMode, plan, want>>

\* deleteSubkeys: the keys the lists below nk name.
Children(C, r) == IF IsNK(C, r) /\ IsList(C, C[r].list) THEN {e.NKRef : e \in Range(ReadList(C, C[r].list))} ELSE {}
Subtree(C, nk) ==
  LET level[d \in 0..MaxDepth] ==
        IF d = 0 THEN {nk} ELSE level[d - 1] \cup UNION {Children(C, r) : r \in level[d - 1]}
  IN level[MaxDepth]

\* index.RemoveNK for each of them.
Unindex(gone) ==
  {e \in index : \A r \in gone : e.parent # cell[r].parent \/ e.name # Lower(cell[r].name)}

\* subkeys.RemoveByRef, in immediate mode: the shorter list is written
\* before the old one is freed.
RemoveImmediate(C, nk, p, then) ==
  LET l == C[p].list
      left == Without(Raw(C, l), {nk})
  IN /\ IF ~IsNK(C, p) \/ (l # None /\ ~IsList(C, l)) THEN Fail("badref") /\ cell' = C
        ELSE IF l = None THEN cell' = Released(op.ed, C, {nk}) /\ then
        ELSE IF left = <<>> THEN cell' = Released(op.ed, SetList(C, p, left, None), {l, nk}) /\ then
        ELSE IF FreeRefs(C) = {} THEN Fail("nospace") /\ cell' = C
        ELSE \E new \in FreeRefs(C) :
               /\ cell' = Released(op.ed, SetList([C EXCEPT ![new] = ListOf(left)], p, left, new), {l, nk})
               /\ then
     /\ UNCHANGED deferredParents

\* The subtree, its lists and its index entries go, then the entry in the
\* parent's list, then the key.
RemoveKey ==
  LET nk == op.cur
      gone == Subtree(cell, nk)
      lists == {cell[r].list : r \in gone} \ {None}
      C == Released(op.ed, cell, (gone \ {nk}) \cup lists)
      done == index' = Unindex(gone) /\ op' = NoOp /\ pc' = "apply" /\ err' = err
  IN /\ op.do = "remove"
     /\ IF ~IsNK(cell, nk) \/ (\E x \in lists : ~IsList(cell, x))
          THEN Fail("badref") /\ cell' = cell
        ELSE IF deferredMode
          THEN /\ cell' = Released(op.ed, C, {nk})
               /\ deferredParents' = RemoveDeferred(op.parent, nk)
               /\ done
        ELSE RemoveImmediate(C, nk, op.parent, done)
     /\ UNCHANGED <<use, deferredMode, plan, want>>

(***************************************************************************)
(* FlushDeferredSubkeys: all old lists are freed, then the parents are     *)
(* written one by one, in the order of a map.                              *)
(***************************************************************************)
FlushDeferredSubkeys ==
  /\ pc = "apply"
  /\ LET L == {deferredParents[p].oldListRef : p \in DOMAIN deferredParents}
         sorted(d) == IF d.oldListRef = None THEN d
                      ELSE [d EXCEPT !.children = SortEntries(@), !.oldListRef = None]
     IN /\ cell' = Released(DeleteEditor, cell, L)
        /\ deferredParents' = [p \in DOMAIN deferredParents |-> sorted(deferredParents[p])]
  /\ pc' = "flush"
  /\ UNCHANGED <<use, index, deferredMode, plan, op, err, want>>

FlushOne ==
  /\ pc = "flush"
  /\ \E p \in DOMAIN deferredParents : FlushParent(DeleteEditor, p, UNCHANGED <<pc, op, err>>)
  /\ UNCHANGED <<use, index, deferredMode, plan, want>>

DisableDeferredMode ==
  /\ pc = "flush" /\ DOMAIN deferredParents = {}
  /\ pc' = "idle" /\ deferredMode' = FALSE /\ deferredParents' = <<>>
  /\ UNCHANGED <<use, cell, index, plan, op, err, want>>

Init ==
  /\ use \in Uses
  /\ cell = [r \in Ref |-> IF r = Root THEN NK(Case, Root) ELSE Free]
  /\ index = {} /\ deferredMode = FALSE /\ deferredParents = <<>>
  /\ pc = "idle" /\ plan = "create" /\ op = NoOp /\ err = "none" /\ want = {}

Next ==
  \/ Apply \/ Cancel
  \/ \E path \in use.paths : (\E ed \in CreateEditors : EnsureKey(ed, path)) \/ DeleteKey(path)
  \/ Descend \/ CreateKey \/ EnsureDone
  \/ FlushKey \/ FlushItsParent \/ RemoveKey
  \/ FlushDeferredSubkeys \/ FlushOne \/ DisableDeferredMode

Spec == Init /\ [][Next]_vars
-----------------------------------------------------------------------------
(***************************************************************************)
(* Properties.                                                             *)
(***************************************************************************)
\* The keys a reader finds in the hive: [path, ref], level by level.
Found ==
  LET level[d \in 0..MaxDepth] ==
        IF d = 0 THEN {[path |-> <<>>, ref |-> Root]}
        ELSE UNION {{[path |-> Append(f.path, Lower(cell[r].name)), ref |-> r] :
                       r \in Children(cell, f.ref)} : f \in level[d - 1]}
  IN UNION {level[d] : d \in 0..MaxDepth}
FoundRefs == {f.ref : f \in Found}

\* When Apply has returned without an error, the hive on disk holds exactly
\* the keys that the operations so far, in their order, ask for.
TreeRight == pc = "idle" => {f.path : f \in Found} \ {<<>>} = want

\* ... and the index leads to the same cells.
IndexRight ==
  pc = "idle" => \A f \in Found \ {[path |-> <<>>, ref |-> Root]} : WalkPath(f.path) = {f.ref}

\* ... every list is sorted by lower-case name, without repetition, and the
\* parent's count is its length: readers bisect these lists.
ListsSorted ==
  pc = "idle" =>
    \A r \in FoundRefs : IsList(cell, cell[r].list) =>
      LET refs == Raw(cell, cell[r].list)
      IN /\ cell[r].count = Len(refs)
         /\ \A k \in 1..(Len(refs) - 1) : Lower(cell[refs[k]].name) < Lower(cell[refs[k + 1]].name)

\* ... every entry of a reachable list is a key whose parent field names the
\* key that owns the list, and no cell is allocated but unreachable (for an
\* editor that frees).
NothingDangles ==
  pc = "idle" =>
    /\ \A r \in FoundRefs : cell[r].list # None =>
         /\ IsList(cell, cell[r].list)
         /\ \A c \in Range(Raw(cell, cell[r].list)) : IsNK(cell, c) /\ cell[c].parent = r
    /\ Strategy = "inplace" => Ref \ FreeRefs(cell) = FoundRefs \cup ({cell[r].list : r \in FoundRefs} \ {None})

\* No operation of a plan meets a cell that an earlier one freed, but for the flush of a list
\* whose owner is gone: DeleteKey flushes the pending lists of the key and of its parent, and
\* not those deeper down, so that deleting a\b\c and then a leaves b's list pending.
NoBadRef == err = "badref" => \E p \in DOMAIN deferredParents : ~IsNK(cell, p)
=============================================================================
