------------------------------ MODULE HiveCopy ------------------------------
(***************************************************************************)
(* Defragment and ValidateHive of pkg/hive/util.go: the hive is walked     *)
(* from its root, and every key and value goes to a builder that writes a  *)
(* new file beside it (its batches are in module HiveBuilder).             *)
(*                                                                         *)
(* The builder keeps the paths it is given until it flushes, and a path is *)
(* a Go slice: append writes into the array of its argument while there is *)
(* room and takes a larger array when there is none.                       *)
(***************************************************************************)
EXTENDS SubkeyLists, TLC

CONSTANTS
  Hives,      \* the hives that Defragment may find
  Root,
  RootPrefixes, \* names in hiveRootPrefixes (HKLM, ...)
  Threshold,  \* Options.AutoFlushThreshold
  Limits,     \* limits for ValidateHive
  LongNames,  \* names that are longer than the limits allow
  MaxCalls    \* bound on the calls of Defragment

VARIABLES
  src,      \* the cells of the hive
  backup,   \* hive.bak: cells, or <<>> for no file
  temp,     \* hive.tmp: the tree in it, or None
  todo,     \* the keys still to walk, the next one first
  heap,     \* the arrays of the paths
  ops,      \* the operations the builder has collected
  status,   \* idle, copying, done or failed
  leftover, \* history: hive.tmp was there when Defragment began
  calls

vars == <<src, backup, temp, todo, heap, ops, status, leftover, calls>>

None == [keys |-> {}, vals |-> <<>>]     \* no file
Empty == [keys |-> {<<>>}, vals |-> <<>>]

-----------------------------------------------------------------------------
(* Slices. *)
Slice(arr, len) == [arr |-> arr, len |-> len]
Contents(H, s) == SubSeq(H[s.arr], 1, s.len)

\* The capacity of a new array is twice the old one.
NewArray(H, s, x) ==
  LET cap == Len(H[s.arr])
  IN [i \in 1..(IF cap = 0 THEN 1 ELSE 2 * cap) |->
        IF i <= s.len THEN H[s.arr][i] ELSE IF i = s.len + 1 THEN x ELSE ""]
HasRoom(H, s) == s.len < Len(H[s.arr])
HeapWith(H, s, x) ==
  IF HasRoom(H, s) THEN [H EXCEPT ![s.arr][s.len + 1] = x] ELSE Append(H, NewArray(H, s, x))
Longer(H, s) == Slice(IF HasRoom(H, s) THEN s.arr ELSE Len(H) + 1, s.len + 1)

-----------------------------------------------------------------------------
(* The walk.  A ref that leads to no cell ends the list it is in, and is forgiven        *)
(* (isCellResolutionError).  Any other error ends the whole: it stands as Fatal, a ref   *)
(* that is followed and is no key and no value.                                          *)
Fatal == <<Invalid>>
Resolved(h, refs) ==
  LET i == SelectInSeq(refs, LAMBDA r : Cell(h, r).kind = "gone")
  IN IF i = 0 THEN refs ELSE SubSeq(refs, 1, i - 1)

SubkeysOf(h, r) ==
  LET nk == Cell(h, r)
      c == Cell(h, nk.list)
  IN CASE nk.count = 0 -> <<>>
       [] nk.count # 0 /\ nk.list = Invalid -> Fatal
       [] nk.count # 0 /\ nk.list # Invalid /\ c.kind = "gone" -> <<>>
       [] nk.count # 0 /\ c.kind = "ri" -> Resolved(h, ExtractRIRefs(h, c).refs)
       [] nk.count # 0 /\ Direct(c) -> Resolved(h, c.refs)
       [] OTHER -> Fatal

WalkValues(h, r) ==
  LET nk == Cell(h, r)
      refs == ValueRefs(h, nk)
  IN CASE nk.nvals = 0 -> <<>>
       [] nk.nvals # 0 /\ (nk.vals = Invalid \/ (Cell(h, nk.vals).kind = "values" /\ ~refs.ok)) -> Fatal
       [] OTHER -> Resolved(h, refs.refs)
Loses(h, v) == Cell(h, v).kind = "vk" /\ Cell(h, v).data # Invalid /\ Cell(h, Cell(h, v).data).kind = "gone"
ValuesOf(h, r) ==
  LET refs == WalkValues(h, r)
      i == SelectInSeq(refs, LAMBDA v : Loses(h, v))
  IN IF i = 0 THEN refs ELSE SubSeq(refs, 1, i - 1)

\* Data of several blocks is longer than the cell that VK.Data finds.
Copied(h, v) == /\ Cell(h, v).kind = "vk"
                /\ Cell(h, v).data = Invalid \/ Cell(h, Cell(h, v).data).kind = "data"

-----------------------------------------------------------------------------
(* The builder. *)
Content(h, v) == [type |-> Cell(h, v).type, size |-> Cell(h, v).size, data |-> Cell(h, Cell(h, v).data)]
EnsureKey(s) == [op |-> "ensure", path |-> s]
SetValue(s, h, v) == [op |-> "set", path |-> s, name |-> Cell(h, v).name, value |-> Content(h, v)]

NormalizePathArray(p) == IF p # <<>> /\ Head(p) \in RootPrefixes THEN Tail(p) ELSE p
ApplyOp(T, H, o) ==
  LET p == NormalizePathArray(Contents(H, o.path))
      keys == T.keys \cup {SubSeq(p, 1, n) : n \in 0..Len(p)}
  IN IF o.op = "ensure" THEN [T EXCEPT !.keys = keys]
     ELSE [keys |-> keys, vals |-> (<<p, o.name>> :> o.value) @@ T.vals]
Flush(T, H, os) == FoldLeft(LAMBDA t, o : ApplyOp(t, H, o), T, os)

\* (mutant) the operation that fills the batch is not in it.
AddOpsBefore(H, os) ==
  FoldLeft(LAMBDA b, o : IF Len(b.ops) + 1 >= Threshold
                           THEN [ops |-> <<>>, temp |-> Flush(b.temp, H, b.ops)]
                           ELSE [b EXCEPT !.ops = Append(@, o)],
           [ops |-> ops, temp |-> temp], os)
\* addOp, for one operation after the other.
AddOps(H, os) ==
  FoldLeft(LAMBDA b, o : IF Len(b.ops) + 1 >= Threshold
                           THEN [ops |-> <<>>, temp |-> Flush(b.temp, H, Append(b.ops, o))]
                           ELSE [b EXCEPT !.ops = Append(@, o)],
           [ops |-> ops, temp |-> temp], os)

-----------------------------------------------------------------------------
\* Defragment, up to the walk.  A file that is there under the name of the new one is
\* opened and added to.
Defragment ==
  /\ status = "idle" /\ calls < MaxCalls
  /\ backup' = src
  /\ leftover' = (temp # None)
  /\ temp' = IF temp = None THEN Empty ELSE temp
  /\ heap' = <<<<>>>> /\ ops' = <<>>
  /\ todo' = <<[ref |-> Root, parent |-> Slice(1, 0), name |-> ""]>>
  /\ status' = "copying" /\ calls' = calls + 1
  /\ UNCHANGED src

NameAt(h, r) == IF Cell(h, r).kind = "nk" THEN Cell(h, r).name ELSE ""

\* walkKey: the key, its values, and then the calls for its subkeys.
WalkKey ==
  LET c == Head(todo)
      H == IF c.name = "" THEN heap ELSE HeapWith(heap, c.parent, c.name)
      path == IF c.name = "" THEN c.parent ELSE Longer(heap, c.parent)
      vals == ValuesOf(src, c.ref)
      kids == SubkeysOf(src, c.ref)
      added == AddOps(H, <<EnsureKey(path)>> \o [i \in DOMAIN vals |-> SetValue(path, src, vals[i])])
  IN /\ status = "copying" /\ todo # <<>>
     /\ Cell(src, c.ref).kind = "nk" /\ \A v \in Range(vals) : Copied(src, v)
     /\ heap' = H
     /\ ops' = added.ops /\ temp' = added.temp
     /\ todo' = [i \in DOMAIN kids |-> [ref |-> kids[i], parent |-> path, name |-> NameAt(src, kids[i])]]
                \o Tail(todo)
     /\ UNCHANGED <<src, backup, status, leftover, calls>>

\* An error of the walk: the new file is removed.
WalkFails ==
  LET c == Head(todo)
  IN /\ status = "copying" /\ todo # <<>>
     /\ Cell(src, c.ref).kind = "nk" => \E v \in Range(ValuesOf(src, c.ref)) : ~Copied(src, v)
     /\ temp' = None /\ todo' = <<>> /\ ops' = <<>> /\ status' = "failed"
     /\ UNCHANGED <<src, backup, heap, leftover, calls>>

\* Commit and Rename: temp is the hive now (it stays in the variable until the next call).
CommitAndRename ==
  /\ status = "copying" /\ todo = <<>>
  /\ temp' = Flush(temp, heap, ops)
  /\ ops' = <<>> /\ status' = "done"
  /\ UNCHANGED <<src, backup, todo, heap, leftover, calls>>

\* The process ends while it copies: the new file stays, as far as it was flushed.
\* Until the next call other programs may have changed the hive.
Crash ==
  /\ status = "copying" /\ calls < MaxCalls
  /\ src' \in Hives
  /\ todo' = <<>> /\ ops' = <<>> /\ status' = "idle"
  /\ UNCHANGED <<backup, temp, heap, leftover, calls>>

Init ==
  /\ src \in Hives /\ backup = <<>> /\ temp = None /\ todo = <<>> /\ heap = <<<<>>>>
  /\ ops = <<>> /\ status = "idle" /\ leftover = FALSE /\ calls = 0

Next == Defragment \/ WalkKey \/ WalkFails \/ CommitAndRename \/ Crash

Spec == Init /\ [][Next]_vars

-----------------------------------------------------------------------------
(* ValidateHive: ok, limit or error. *)
FirstNot(results) ==
  LET i == SelectInSeq(results, LAMBDA x : x # "ok")
  IN IF i = 0 THEN "ok" ELSE results[i]

ValidateValue(h, v, L) ==
  LET vk == Cell(h, v)
  IN CASE vk.kind # "vk" -> "error"
       [] vk.kind = "vk" /\ (vk.name \in LongNames \/ vk.size > L.size) -> "limit"
       [] OTHER -> "ok"

RECURSIVE ValidateKeyRecursive(_, _, _, _)
ValidateKeyRecursive(h, r, depth, L) ==
  LET nk == Cell(h, r)
      vals == WalkValues(h, r)
      values == FirstNot([i \in DOMAIN vals |-> ValidateValue(h, vals[i], L)])
      kids == SubkeysOf(h, r)
  IN IF nk.kind # "nk" THEN "error"
     ELSE IF depth > L.depth \/ nk.name \in LongNames \/ nk.count > L.subkeys \/ nk.nvals > L.values THEN "limit"
     ELSE IF values # "ok" THEN values
     ELSE FirstNot([i \in DOMAIN kids |-> ValidateKeyRecursive(h, kids[i], depth + 1, L)])

-----------------------------------------------------------------------------
(* Properties. *)
RECURSIVE Located(_, _, _)
Located(h, r, path) ==
  {[path |-> path, ref |-> r]}
  \cup UNION {Located(h, c, Append(path, Cell(h, c).name)) : c \in Children(h, r)}
Keys(h) == Located(h, Root, <<>>)
Vals(h, k) == {v \in Range(ValueRefs(h, Cell(h, k.ref)).refs) : Cell(h, v).kind = "vk"}

\* The keys and values of a hive, by definition.
TreeOf(h) ==
  LET pairs == UNION {{<<k.path, v>> : v \in Vals(h, k)} : k \in Keys(h)}
  IN [keys |-> {k.path : k \in Keys(h)},
      vals |-> [n \in {<<p[1], Cell(h, p[2]).name>> : p \in pairs} |->
                  Content(h, (CHOOSE p \in pairs : <<p[1], Cell(h, p[2]).name>> = n)[2])]]

\* What ends a walk with an error: a key that has subkeys, or values, and no list of them; a list
\* of subkeys that is none; a value list that is too short; an entry that is no key, or no value.
Ends(h, k) ==
  LET nk == Cell(h, k.ref)
      list == Cell(h, nk.list)
      vals == Cell(h, nk.vals)
  IN \/ nk.count # 0 /\ (nk.list = Invalid \/ ~(Direct(list) \/ list.kind \in {"ri", "gone"}))
     \/ \E r \in Held(h, nk.list) : Cell(h, r).kind \notin {"nk", "gone"}
     \/ nk.nvals # 0 /\ nk.vals = Invalid
     \/ vals.kind = "values" /\ (\/ nk.nvals > Len(vals.refs)
                                 \/ \E v \in Range(vals.refs) : Cell(h, v).kind \notin {"vk", "gone"})

\* Nothing is missing, no list is nested below another of its kind, and no key of the root
\* is named like the root of a registry.
Sound(h) ==
  /\ \A k \in Keys(h) :
       LET nk == Cell(h, k.ref)
           list == Cell(h, nk.list)
       IN /\ ~Ends(h, k)
          /\ nk.count = 0 \/ Direct(list) \/ (list.kind = "ri" /\ \A s \in Range(list.refs) : Direct(Cell(h, s)))
          /\ \A c \in Held(h, nk.list) : Cell(h, c).kind = "nk"
          /\ ValueRefs(h, nk).ok /\ \A v \in Range(ValueRefs(h, nk).refs) : Cell(h, v).kind = "vk" /\ ~Loses(h, v)
  /\ \A k \in Keys(h) : k.path = <<>> \/ Head(k.path) \notin RootPrefixes

\* No ref leads to no cell, and no ri list to another.
NothingPassed(h) ==
  \A r \in DOMAIN h : /\ h[r].kind # "gone"
                      /\ h[r].kind = "ri" => \A s \in Range(h[r].refs) : Cell(h, s).kind # "ri"

\* Keys beside each other whose paths share an array: the capacities are 1, 2, 4, 8.
Shares(h) ==
  \E k, l \in Keys(h) : /\ Len(k.path) \notin {0, 1, 2, 3, 5} /\ k.path # l.path
                        /\ Len(l.path) = Len(k.path) /\ Front(k.path) = Front(l.path)

\* A defragmented hive holds the keys and values it had, however they fell into batches.
\* Left out are hives in which siblings four or more levels down share the array of their
\* path, damaged hives, whose readable rest is not all copied, and calls that found the
\* file of a call cut off (copyHiveContents, Builder.addOp, Defragment).
DefragRight == status = "done" /\ Sound(src) /\ ~Shares(src) /\ ~leftover => temp = TreeOf(src)

\* "copyHiveContents walks the source hive and copies all keys and values to dst": on a
\* hive without damage, and with no file left behind, nothing is lost.
DefragKeeps == status = "done" /\ Sound(src) /\ ~leftover => temp = TreeOf(src)

\* Defragment fails only for a value it cannot copy or for damage that ends the walk (Ends), so
\* that refs to no cell alone never make it fail, and the hive it replaces is in the backup; what
\* it adds to a file left behind by an earlier call covers everything but what that file alone
\* holds.  Such damage does make it fail, where the walk passes nothing over on the way to it
\* (copyHiveContents, isCellResolutionError).
DefragEnds ==
  /\ status = "done" => backup = src
  /\ status = "done" /\ Sound(src) /\ ~Shares(src) =>
       TreeOf(src).keys \subseteq temp.keys /\ \A n \in DOMAIN TreeOf(src).vals : temp.vals[n] = TreeOf(src).vals[n]
  /\ status = "failed" => \E k \in Keys(src) : Ends(src, k) \/ \E v \in Vals(src, k) : ~Copied(src, v)
  /\ status = "done" /\ NothingPassed(src) => \A k \in Keys(src) : ~Ends(src, k)

\* ValidateHive finds a limit exceeded only where a key or value exceeds it, and in a hive
\* without damage whenever one does; and it fails for damage only where some ends the walk.
Exceeds(h, k, L) ==
  \/ Len(k.path) > L.depth \/ Cell(h, k.ref).name \in LongNames
  \/ Cell(h, k.ref).count > L.subkeys \/ Cell(h, k.ref).nvals > L.values
  \/ \E v \in Vals(h, k) : Cell(h, v).name \in LongNames \/ Cell(h, v).size > L.size
ValidateRight ==
  status = "idle" /\ calls = 0 =>
    \A L \in Limits :
      LET verdict == ValidateKeyRecursive(src, Root, 0, L)
          over == \E k \in Keys(src) : Exceeds(src, k, L)
      IN /\ verdict = "limit" => over
         /\ verdict = "error" => \E k \in Keys(src) : Ends(src, k)
         /\ Sound(src) => verdict = IF over THEN "limit" ELSE "ok"
=============================================================================
