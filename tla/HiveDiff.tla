------------------------------ MODULE HiveDiff ------------------------------
(***************************************************************************)
(* Comparing two hives: ListKeys and ListValues of pkg/hive/read.go, and   *)
(* DiffHives and FilterDiffKeys of pkg/hive/diff.go.  Both hives are read  *)
(* as in module HiveRead; the values of a key are looked up by its path    *)
(* once more.  hive is the new hive and job.old the old one.               *)
(***************************************************************************)
EXTENDS HiveRead

-----------------------------------------------------------------------------
(* Children that cannot be read are left out, and so is what is below a list that      *)
(* cannot be read; only the list of the key itself is an error.  max: levels, 0 for all. *)
RECURSIVE ListKeysRecursive(_, _, _, _, _)
ListKeysRecursive(h, r, path, max, depth) ==
  LET kids == SelectSeq(Subkeys(h, r).refs, LAMBDA c : StatKey(h, c))
      Info(c) == [path |-> Append(path, Cell(h, c).name), ref |-> c, time |-> Cell(h, c).time]
      Under(c) == IF max = 0 \/ depth < max - 1
                    THEN ListKeysRecursive(h, c, Append(path, Cell(h, c).name), max, depth + 1) ELSE <<>>
  IN FoldLeft(LAMBDA acc, c : Append(acc, Info(c)) \o Under(c), <<>>, kids)

ListKeys(h, max) == [ok |-> Subkeys(h, Root).ok, keys |-> ListKeysRecursive(h, Root, <<>>, max, 0)]

\* The bytes of a value; data that cannot be read is as no data.
Bytes(h, v) ==
  LET d == Cell(h, Cell(h, v).data)
  IN IF ~ValueBytes(h, v) THEN <<>>
     ELSE IF d.kind = "db" THEN [i \in DOMAIN Cell(h, d.blocks).refs |-> Cell(h, Cell(h, d.blocks).refs[i])]
     ELSE <<d>>

ListValues(h, path) ==
  LET r == Find(h, path)
      vals == IF r = Invalid THEN Fails ELSE Values(h, r)
      refs == SelectSeq(vals.refs, LAMBDA v : StatValue(h, v))
  IN [i \in DOMAIN refs |-> [name |-> Cell(h, refs[i]).name, type |-> Cell(h, refs[i]).type,
                             size |-> Cell(h, refs[i]).size, data |-> Bytes(h, refs[i])]]

\* A map by path or by name: of two with one key the later.
MapOf(seq, field) ==
  [k \in {x[field] : x \in Range(seq)} |-> seq[SelectLastInSeq(seq, LAMBDA x : x[field] = k)]]

\* The status of everything in either map; same are those in both that agree.
Status(o, n, same) ==
  [k \in DOMAIN o \cup DOMAIN n |->
     IF k \notin DOMAIN o THEN "added" ELSE IF k \notin DOMAIN n THEN "removed"
     ELSE IF k \in same THEN "unchanged" ELSE "modified"]

CompareKeyValues(old, new, path) ==
  LET o == MapOf(ListValues(old, path), "name")
      n == MapOf(ListValues(new, path), "name")
  IN Status(o, n, {k \in DOMAIN o \cap DOMAIN n : o[k] = n[k]})
Unmodified(diffs) == \A n \in DOMAIN diffs : diffs[n] = "unchanged"

\* (mutant) a key with the same time is taken to have the same values
KeyDiffsByTime(old, new) ==
  LET o == MapOf(ListKeys(old, 0).keys, "path")
      n == MapOf(ListKeys(new, 0).keys, "path")
  IN Status(o, n, {p \in DOMAIN o \cap DOMAIN n : o[p].time = n[p].time})

KeyDiffs(old, new) ==
  LET o == MapOf(ListKeys(old, 0).keys, "path")
      n == MapOf(ListKeys(new, 0).keys, "path")
  IN Status(o, n, {p \in DOMAIN o \cap DOMAIN n :
                     Unmodified(CompareKeyValues(old, new, p)) /\ o[p].time = n[p].time})

DiffHives ==
  /\ Is("diff")
  /\ IF ~ListKeys(job.old, 0).ok \/ ~ListKeys(hive, 0).ok THEN Fail
     ELSE Step(<<>>, <<KeyDiffs(job.old, hive)>>)
  /\ UNCHANGED <<hive, job>>

\* FilterDiffKeys: the keys with a status that is to be shown, and unless unchanged keys are
\* shown anyway the keys above them.
GetParentPaths(path) == {SubSeq(path, 1, n) : n \in 1..(Len(path) - 1)}
FilterDiffKeys(diff, show) ==
  LET matching == {p \in DOMAIN diff : diff[p] \in show}
      above == IF "unchanged" \in show THEN {} ELSE UNION {GetParentPaths(p) : p \in matching}
  IN (matching \cup above) \cap DOMAIN diff

DiffNext == Next \/ DiffHives

-----------------------------------------------------------------------------
(* Properties. *)
KeysOf(h) == Located(h, Root, <<>>, Cardinality(Keys(h)))
Known(h, path) == CHOOSE k \in KeysOf(h) : k.path = path
Has(h, path) == \E k \in KeysOf(h) : k.path = path

\* The values of a key, by definition.
Told(h, k) == {[name |-> Cell(h, v).name, type |-> Cell(h, v).type, size |-> Cell(h, v).size, data |-> Bytes(h, v)] :
                 v \in {w \in Range(Values(h, k.ref).refs) : StatValue(h, w)}}
SameKey(old, new, path) ==
  /\ Told(old, Known(old, path)) = Told(new, Known(new, path))
  /\ Cell(old, Known(old, path).ref).time = Cell(new, Known(new, path).ref).time

Whole(h) == \A k \in Keys(h) : /\ Subkeys(h, k).ok /\ Values(h, k).ok
                               /\ \A c \in Range(Subkeys(h, k).refs) : StatKey(h, c)
Clear(h) == \A k \in KeysOf(h) : k.path = <<>> \/ (Head(k.path) # Cell(h, Root).name /\ Head(k.path) \notin Aliases)

\* The diff of two hives that can be read has every key of either but the roots, as added,
\* removed, modified or unchanged by what the two hives hold under its path; the roots' own
\* values are not compared, and what cannot be read counts as not there (DiffHives,
\* compareKeyValues).  A filtered diff shows what it is asked for and everything above it,
\* and a diff of a hive with itself shows no change (FilterDiffKeys).
DiffRight ==
  job.what = "diff" =>
    /\ status = "error" => ~Subkeys(job.old, Root).ok \/ ~Subkeys(hive, Root).ok
    /\ status = "done" =>
         LET diff == out[1]
             changed == FilterDiffKeys(diff, {"added", "removed", "modified"})
         IN /\ Whole(hive) /\ Whole(job.old) /\ Clear(hive) /\ Clear(job.old) =>
                 /\ DOMAIN diff = {k.path : k \in KeysOf(hive) \cup KeysOf(job.old)} \ {<<>>}
                 /\ \A p \in DOMAIN diff :
                      diff[p] = IF ~Has(job.old, p) THEN "added" ELSE IF ~Has(hive, p) THEN "removed"
                                ELSE IF SameKey(job.old, hive, p) THEN "unchanged" ELSE "modified"
            /\ \A p \in changed : GetParentPaths(p) \subseteq changed
            /\ hive = job.old => changed = {}
            /\ \A n \in 1..3 : {k.path : k \in Range(ListKeys(hive, n).keys)}
                                 = {p \in DOMAIN diff : diff[p] # "removed" /\ Len(p) <= n}
=============================================================================
