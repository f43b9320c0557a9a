------------------------------ MODULE ListWriter ------------------------------
(***************************************************************************)
(* How hive/subkeys writes the list of a key's children, and what the      *)
(* readers make of what it wrote.  Keys are numbered in the order of their *)
(* lower-case names, and a key's number is also its NKRef.  A list is the  *)
(* value that its cells encode:                                            *)
(*   [kind |-> "lf" / "lh" / "li", entries |-> <<[ref, hash], ...>>]       *)
(*   [kind |-> "ri", subs |-> <<list, ...>>]                               *)
(* An li list stores no hash; in an lf list of Windows the hash is a hint, *)
(* the first letters of the name.  Read decodes the name of every child    *)
(* and skips a child whose name cannot be decoded; ReadRaw does not look   *)
(* at the children at all.                                                 *)
(***************************************************************************)
EXTENDS Integers, Sequences, SequencesExt, FiniteSets

CONSTANTS Keys,         \* the children there may be, numbers
          Hash(_),      \* subkeys.Hash of the name of a key; names may collide
          LFThreshold, RIThreshold, ChunkSize

VARIABLES list,         \* what the parent's subkey list encodes
          held,         \* the children the parent should have
          broken,       \* the children whose names cannot be decoded
          foreign,      \* the hashes in the list are not ours
          cut,          \* RemoveByRef has met an ri list over li lists
          err           \* why the last call failed: a name, or no space for a list
listVars == <<list, held, broken, foreign, cut, err>>

NoHash == 0
Hint == -1
Raw(k, hash) == [ref |-> k, hash |-> hash]
Entry(k) == Raw(k, Hash(k))
Leaf(kind, entries) == [kind |-> kind, entries |-> entries]
NoList == Leaf("none", <<>>)
Gone == Leaf("free", <<>>)
Sorted(S) == SetToSortSeq(S, <)
Each(F(_), s) == [i \in DOMAIN s |-> F(s[i])]
RefsOf(entries) == Each(LAMBDA e : e.ref, entries)

-----------------------------------------------------------------------------
(* Writing.  Entries without a hash get theirs when their names are known. *)

Chunks(entries) ==
  LET n == Len(entries)
      last(c) == IF c * ChunkSize < n THEN c * ChunkSize ELSE n
  IN [c \in 1..((n + ChunkSize - 1) \div ChunkSize) |->
        SubSeq(entries, (c - 1) * ChunkSize + 1, last(c))]

WriteRIList(entries) ==
  [kind |-> "ri", subs |-> Each(LAMBDA chunk : Leaf("lh", chunk), Chunks(entries))]

WriteRaw(entries) ==
  IF entries = <<>> THEN NoList
  ELSE IF Len(entries) > RIThreshold THEN WriteRIList(entries)
  ELSE Leaf(IF Len(entries) <= LFThreshold THEN "lf" ELSE "lh", entries)

WriteHashLeafList(entries) ==
  Each(LAMBDA e : IF e.hash = NoHash THEN Entry(e.ref) ELSE e, entries)
WritePresorted(entries) == WriteRaw(WriteHashLeafList(entries))
Write(entries) == WritePresorted(SortSeq(entries, LAMBDA a, b : a.ref < b.ref))

-----------------------------------------------------------------------------
(* Reading.                                                                *)
Leaves(l) == IF l.kind = "ri" THEN l.subs ELSE <<l>>
Joined(s) == FoldLeft(LAMBDA acc, x : acc \o x, <<>>, s)

ReadDirectListRaw(leaf) ==
  IF leaf.kind = "li" THEN Each(LAMBDA e : Raw(e.ref, NoHash), leaf.entries) ELSE leaf.entries
ReadRaw(l) == Joined(Each(ReadDirectListRaw, Leaves(l)))
ReadOffsets(l) == Joined(Each(LAMBDA leaf : RefsOf(leaf.entries), Leaves(l)))

Readable(k) == k \notin broken
ReadNKEntry(k) == Entry(k)
Read(l) == Each(ReadNKEntry, SelectSeq(ReadOffsets(l), Readable))

MatchNKsFromOffsets(offsets, names) ==
  Each(ReadNKEntry, SelectSeq(offsets, LAMBDA k : Readable(k) /\ k \in names))

\* MatchByHash looks at the names of those entries of an lh list whose stored hash is the
\* hash of a name wanted, and at the names of all entries of other lists.
NameEquals(k, name) == Readable(k) /\ k = name

\* (mutant) of names with the same hash only the first is compared
MatchLHFirst(leaf, names) ==
  SelectSeq(leaf.entries, LAMBDA e : \E n \in names : /\ Hash(n) = e.hash /\ NameEquals(e.ref, n)
                                                     /\ \A m \in names : Hash(m) = Hash(n) => n <= m)

MatchLH(leaf, names) ==
  SelectSeq(leaf.entries, LAMBDA e : \E n \in names : Hash(n) = e.hash /\ NameEquals(e.ref, n))
MatchLFLIFallback(leaf, names) ==
  SelectSeq(leaf.entries, LAMBDA e : \E n \in names : NameEquals(e.ref, n))
MatchByHash(l, names) ==
  RefsOf(Joined(Each(LAMBDA leaf : IF leaf.kind = "lh" THEN MatchLH(leaf, names)
                                   ELSE MatchLFLIFallback(leaf, names), Leaves(l))))

-----------------------------------------------------------------------------
(* The edits of a list.                                                    *)
Insert(entries, e) ==
  LET less == SelectSeq(entries, LAMBDA x : x.ref < e.ref)
      more == SelectSeq(entries, LAMBDA x : x.ref > e.ref)
  IN less \o <<e>> \o more
ListRemove(entries, k) == SelectSeq(entries, LAMBDA e : e.ref # k)
Find(entries, k) ==
  LET at == {i \in DOMAIN entries : \A j \in DOMAIN entries : j < i <=> entries[j].ref < k}
  IN \E i \in at : entries[i].ref = k

\* Below an ri list every list is taken for an lh list, with entries of eight bytes: of an
\* li list every second child is seen, with its neighbour's ref for a hash.
Stride(leaf) ==
  IF leaf.kind # "li" THEN leaf.entries
  ELSE [i \in 1..((Len(leaf.entries) + 1) \div 2) |-> leaf.entries[2 * i - 1]]

\* The writers of RemoveByRef lay entries out as WriteRaw does; an li list stays one.
WriteRefHashList(entries) == WriteRaw(entries)
WriteRefHashListLI(entries) == Leaf("li", entries)

RemoveByRefRI(l, k) == WriteRefHashList(ListRemove(Joined(Each(Stride, l.subs)), k))
RemoveByRefDirect(l, k) ==
  LET left == ListRemove(l.entries, k)
  IN IF left = <<>> THEN NoList
     ELSE IF l.kind = "li" THEN WriteRefHashListLI(left)
     ELSE Leaf(IF Len(left) <= LFThreshold THEN "lf" ELSE "lh", left)

RemoveByRef(l, k) ==
  IF l.kind = "none" THEN NoList
  ELSE IF l.kind = "ri" THEN RemoveByRefRI(l, k) ELSE RemoveByRefDirect(l, k)

\* mergeRawAndNewEntries bisects the raw entries by the names of the children it meets.
Bisected(raw, k) ==
  LET meets[lo \in 0..Len(raw), hi \in 0..Len(raw)] ==
        LET mid == lo + (hi - lo) \div 2
        IN IF lo >= hi THEN {}
           ELSE {raw[mid + 1].ref} \cup (IF raw[mid + 1].ref < k THEN meets[mid + 1, hi]
                                          ELSE meets[lo, mid])
  IN meets[0, Len(raw)]
MergeFails(raw, new) == \E k \in new, m \in Keys : m \in Bisected(raw, k) /\ ~Readable(m)
Place(raw, k) ==
  LET lo[i \in 0..Len(raw), j \in 0..Len(raw)] ==
        LET mid == i + (j - i) \div 2
        IN IF i >= j THEN i ELSE IF raw[mid + 1].ref < k THEN lo[mid + 1, j] ELSE lo[i, mid]
  IN lo[0, Len(raw)]
MergeRaw(raw, new) ==
  LET at(i) == Each(Entry, Sorted({k \in new : Place(raw, k) = i}))
  IN Joined([i \in 1..Len(raw) |-> at(i - 1) \o <<raw[i]>>]) \o at(Len(raw))

-----------------------------------------------------------------------------
(* The states: a list this code wrote, or one that Windows may have left.  *)
Windows(S) ==
  LET entries(hash) == Each(LAMBDA k : Raw(k, hash), Sorted(S))
  IN {Leaf("lf", entries(Hint)), Leaf("li", entries(NoHash)),
      [kind |-> "ri", subs |-> Each(LAMBDA c : Leaf("li", c), Chunks(entries(NoHash)))]}

ListInit ==
  /\ held \in SUBSET Keys
  /\ broken \in {b \in SUBSET held : Cardinality(b) <= 1}
  /\ cut = FALSE /\ err = "none"
  /\ foreign \in (IF held = {} THEN {FALSE} ELSE BOOLEAN)
  /\ IF foreign THEN list \in Windows(held)
     ELSE list = Write(Each(Entry, Reverse(Sorted(held))))

Written(l) == list' = l /\ err' = "none" /\ UNCHANGED <<broken, cut>>

\* Insertions and flushes free the old list before they ask for cells of the new one, a flush
\* those of all its parents.  If one of the cells cannot be had, the parent, which is updated
\* last, still refers to the freed list.
Lost(why) ==
  /\ list' = (IF list.kind = "none" THEN list ELSE Gone)
  /\ err' = why
  /\ UNCHANGED <<held, broken, foreign, cut>>

InsertImmediateChild(k) ==
  /\ k \notin held /\ list.kind # "free"
  /\ \/ /\ Written(WritePresorted(Insert(Read(list), Entry(k))))
        /\ held' = held \cup {k} /\ foreign' = FALSE
     \/ Lost("space")

\* The new list is written before the old one is freed: if that fails, nothing has changed.
RemoveImmediate(k) ==
  /\ k \in held /\ list.kind # "free"
  /\ \/ /\ list' = RemoveByRef(list, k)
        /\ held' = held \ {k} /\ err' = "none"
        /\ cut' = (cut \/ \E i \in DOMAIN Leaves(list) : list.kind = "ri" /\ list.subs[i].kind = "li")
     \/ RemoveByRef(list, k) # NoList /\ err' = "space" /\ UNCHANGED <<list, held, cut>>
  /\ UNCHANGED <<broken, foreign>>

FlushDeletes(D) ==
  LET left == SelectSeq(ReadRaw(list), LAMBDA e : e.ref \notin D)
  IN /\ D # {} /\ D \subseteq held /\ list.kind # "free"
     /\ \/ Written(WriteRaw(left)) /\ held' = held \ D /\ UNCHANGED foreign
        \/ Lost("space")

FlushInserts(I) ==
  /\ I # {} /\ I \cap held = {} /\ list.kind # "free"
  /\ IF MergeFails(ReadRaw(list), I) THEN Lost("name")
     ELSE \/ Written(WriteRaw(MergeRaw(ReadRaw(list), I))) /\ held' = held \cup I /\ UNCHANGED foreign
          \/ Lost("space")

\* Deleted first, then inserted: the children are read with their names.
FlushBoth(D, I) ==
  /\ D # {} /\ D \subseteq held /\ I # {} /\ I \cap held = {} /\ list.kind # "free"
  /\ \/ /\ Written(Write(SelectSeq(Read(list), LAMBDA e : e.ref \notin D) \o Each(Entry, Sorted(I))))
        /\ held' = (held \ D) \cup I /\ foreign' = FALSE
     \/ Lost("space")

ListNext ==
  \/ \E k \in Keys : InsertImmediateChild(k) \/ RemoveImmediate(k)
  \/ \E D \in SUBSET Keys : FlushDeletes(D) \/ FlushInserts(D)
  \/ \E D, I \in SUBSET Keys : FlushBoth(D, I)
ListSpec == ListInit /\ [][ListNext]_listVars

-----------------------------------------------------------------------------
(* Whatever the edits and whatever the shape of the list, at its limits    *)
(* too: no child whose name can be decoded is lost or duplicated, every    *)
(* reader returns them in order, and bisection finds exactly them, also    *)
(* after a removal that failed.  Not so once RemoveByRef has met an ri     *)
(* list over li lists, nor after an insertion or a flush that returned an  *)
(* error: it has lost the list, which it freed first, be it that a child   *)
(* cannot be named or that there was no space.                             *)
ListRight ==
  LET refs == SelectSeq(ReadOffsets(list), Readable)
  IN /\ err = "none" => list.kind # "free"
     /\ err = "name" => broken \cap held # {}
     /\ list.kind # "free" =>
          /\ ReadOffsets(list) = RefsOf(ReadRaw(list))
          /\ refs = RefsOf(Read(list))
          /\ ~cut => /\ refs = Sorted(held \ broken)
                     /\ \A k \in Keys : Find(Read(list), k) <=> k \in held \ broken

(* MatchByHash finds the named children of a list with this code's hashes, *)
(* as does comparing every name.                                           *)
MatchRight ==
  ~foreign /\ ~cut /\ list.kind # "free" =>
    \A names \in SUBSET Keys :
      /\ MatchByHash(list, names) = Sorted((held \cap names) \ broken)
      /\ RefsOf(MatchNKsFromOffsets(ReadOffsets(list), names)) = MatchByHash(list, names)

(* "This hash is used in LH (Leaf-Hash) subkey list entries": the hash of  *)
(* an entry of an lh list is the hash of its name, so that a lookup by     *)
(* hash finds it.                                                          *)
HashesRight ==
  \A i \in DOMAIN Leaves(list) :
    LET leaf == Leaves(list)[i]
    IN leaf.kind = "lh" => \A j \in DOMAIN leaf.entries : leaf.entries[j].hash = Hash(leaf.entries[j].ref)
=============================================================================
