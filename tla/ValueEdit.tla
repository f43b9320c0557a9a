------------------------------ MODULE ValueEdit ------------------------------
(***************************************************************************)
(* The value editor (hive/edit/vkedit.go) on one key, with the value lists *)
(* (hive/values) and the big-data store (hive/bigdata) it writes, and the  *)
(* reader that gets the values back (internal/reader).                     *)
(*                                                                         *)
(*   cells   ref -> cell; Free is a freed or unused cell                   *)
(*   key     the value list and the value count of the key                 *)
(*   index   lower-case name -> VK, the part of the index for this key     *)
(*   wanted  history: lower-case name -> data, what was set successfully   *)
(*   res     the result of the last call; failed, whether any call failed  *)
(*   calls   how many calls were made                                      *)
(*                                                                         *)
(* A call is atomic, and given the number of allocations that succeed in   *)
(* it.  Data is its type, its length and a tag that stands for the bytes;  *)
(* lengths are bytes, so that the limits and the padding are the real ones.*)
(***************************************************************************)
EXTENDS Integers, Sequences, SequencesExt, FiniteSets

CONSTANTS Names,     \* numbers; n and n + 10 differ in case
          Datas,     \* what values are set to
          Refs,      \* cell refs
          Budgets,   \* how many allocations of one call succeed
          MaxCalls   \* bound on the calls that change something or fail

ASSUME ValueAssumption ==
  /\ Names \subseteq Nat /\ Refs \subseteq Nat \ {0} /\ Budgets \subseteq Nat
  /\ \A d \in Datas : d.len \in Nat /\ d = [typ |-> d.typ, len |-> d.len, tag |-> d.tag, db |-> d.db]

VARIABLES cells, key, index, wanted, res, failed, calls

valueVars == <<cells, key, index, wanted, res, failed, calls>>

Invalid == 0
Free == [kind |-> "free"]
MaxInline == 4
MaxBlock == 16344      \* MaxExternalValueBytes and bigdata.MaxBlockSize
MaxBlocks == 65535     \* maxUint16
Padding == 4           \* format.DBBlockPadding

Folded(name) == name % 10
Payload(len) == ((len + 4 + 7) \div 8) * 8 - 4      \* the room in a cell allocated for len bytes

Nothing == [n \in {Folded(name) : name \in Names} |-> Invalid]

ValueInit ==
  /\ cells = [r \in Refs |-> Free]
  /\ key = [list |-> Invalid, count |-> 0]
  /\ index = Nothing
  /\ wanted = [n \in DOMAIN Nothing |-> <<>>]
  /\ res = "ok" /\ failed = FALSE /\ calls = 0

-----------------------------------------------------------------------------
(* Allocation inside a call: s is the state so far, s.left the allocations *)
(* that still succeed, s.ref the last cell, s.ok whether none has failed.  *)

Begin(left) == [cells |-> cells, key |-> key, left |-> left, ref |-> Invalid, ok |-> TRUE]
Unused(s) == {r \in Refs : s.cells[r] = Free}

Alloc(s, cell) ==
  IF ~s.ok \/ s.left = 0 \/ Unused(s) = {} THEN [s EXCEPT !.ok = FALSE, !.ref = Invalid]
  ELSE LET r == CHOOSE u \in Unused(s) : \A v \in Unused(s) : u <= v
       IN [s EXCEPT !.cells[r] = cell, !.ref = r, !.left = @ - 1]

FreeAll(s, R) == [s EXCEPT !.cells = [c \in Refs |-> IF c \in R THEN Free ELSE s.cells[c]]]
Freed(s, r) == FreeAll(s, {r})

Blocks(len) == (len + MaxBlock - 1) \div MaxBlock
BlockLen(len, k) == IF k < Blocks(len) THEN MaxBlock ELSE len - (Blocks(len) - 1) * MaxBlock

\* The kinds of cells.
DataBlock(d, k) == [kind |-> "block", room |-> Payload(BlockLen(d.len, k)), bytes |-> <<d, k>>]
Blocklist(refs) == [kind |-> "blocklist", refs |-> refs]
DBHeader(count, list) == [kind |-> "db", count |-> count, blocklist |-> list]
DataCell(d) == [kind |-> "data", room |-> Payload(d.len), bytes |-> d]
VK(name, d, data) ==
  [kind |-> "vk", name |-> name, len |-> d.len, typ |-> d.typ,
   inline |-> IF d.len <= MaxInline THEN d ELSE <<>>, data |-> data]
ValueList(refs) == [kind |-> "values", refs |-> refs]

\* The cells for the blocks: one for each, or as many as there are.
Rooms(s, n) == {q \in [1..n -> Unused(s)] : n <= s.left /\ \A k, l \in 1..n : q[k] = q[l] => k = l}
Most(s, d) == CHOOSE n \in 0..Blocks(d.len) :
                /\ \E q \in Rooms(s, n) : TRUE
                /\ \A k \in (n + 1)..Blocks(d.len) : ~\E q \in Rooms(s, k) : TRUE
RoomFor(s, d) == CHOOSE q \in Rooms(s, Most(s, d)) : TRUE

WriteDataBlocks(s, d) ==
  LET q == RoomFor(s, d)
  IN [s EXCEPT !.cells = [c \in Refs |-> IF \E k \in DOMAIN q : q[k] = c
                                         THEN DataBlock(d, CHOOSE k \in DOMAIN q : q[k] = c)
                                         ELSE s.cells[c]],
               !.left = @ - Len(q),
               !.ok = @ /\ Len(q) = Blocks(d.len)]

\* bigdata.Store: the blocks, then their list, then the header, which counts them in 16 bits.
StoreBig(s, d) ==
  LET l == Alloc(WriteDataBlocks(s, d), Blocklist(RoomFor(s, d)))
  IN IF Blocks(d.len) > MaxBlocks THEN [s EXCEPT !.ok = FALSE] ELSE Alloc(l, DBHeader(Blocks(d.len), l.ref))

\* The data first, then the VK cell.
AllocateVK(s, name, d) ==
  LET t == IF d.len <= MaxInline THEN s
           ELSE IF d.len <= MaxBlock THEN Alloc(s, DataCell(d)) ELSE StoreBig(s, d)
  IN Alloc(t, VK(name, d, IF d.len <= MaxInline THEN Invalid ELSE t.ref))

-----------------------------------------------------------------------------
(* The value list. *)

ValueRefs(s) == IF s.key.count = 0 \/ s.key.list = Invalid THEN <<>>
                ELSE SubSeq(s.cells[s.key.list].refs, 1, s.key.count)

\* A list is always written to a new cell; the old cell stays allocated.
WriteList(s, refs) ==
  IF refs = <<>> THEN IF s.ok THEN [s EXCEPT !.key = [list |-> Invalid, count |-> 0]] ELSE s
  ELSE LET t == Alloc(s, ValueList(refs))
       IN IF t.ok THEN [t EXCEPT !.key = [list |-> t.ref, count |-> Len(refs)]] ELSE t

AddToValueList(s, vk) == WriteList(s, Append(ValueRefs(s), vk))

ReplaceInValueList(s, old, vk) ==
  LET refs == ValueRefs(s)
      k == CHOOSE n \in DOMAIN refs : refs[n] = old /\ \A m \in 1..(n - 1) : refs[m] # old
  IN IF ~s.ok \/ old \notin Range(refs) THEN [s EXCEPT !.ok = FALSE]
     ELSE WriteList(s, [refs EXCEPT ![k] = vk])

\* List.Remove: without its first occurrence.
RemoveRef(refs, vk) ==
  LET k == CHOOSE n \in DOMAIN refs : refs[n] = vk /\ \A m \in 1..(n - 1) : refs[m] # vk
  IN IF vk \in Range(refs) THEN SubSeq(refs, 1, k - 1) \o SubSeq(refs, k + 1, Len(refs)) ELSE refs

RemoveFromValueList(s, vk) ==
  IF ValueRefs(s) = <<>> THEN [s EXCEPT !.ok = FALSE] ELSE WriteList(s, RemoveRef(ValueRefs(s), vk))

-----------------------------------------------------------------------------
(* Freeing. *)

\* A replaced VK: its data too, unless it is big data, which is left behind.
\* (mutant) the VK alone
FreeVKOnly(s, r) == Freed(s, r)

FreeVK(s, r) ==
  LET vk == s.cells[r]
  IN IF vk.data # Invalid /\ vk.len <= MaxBlock THEN FreeAll(s, {vk.data, r}) ELSE Freed(s, r)

\* A cell is taken for a big-data header by its first two bytes, whatever the length.
LooksDB(cell) == cell.kind = "db" \/ (cell.kind = "data" /\ cell.bytes.db # Invalid)
DBList(cell) == IF cell.kind = "db" THEN cell.blocklist ELSE cell.bytes.db

FreeBigDataIfNeeded(s, r) ==
  LET list == DBList(s.cells[r])
      blocks == IF s.cells[list].kind = "blocklist" THEN Range(s.cells[list].refs) ELSE {}
  IN IF LooksDB(s.cells[r]) THEN FreeAll(s, blocks \cup {list, r}) ELSE Freed(s, r)

-----------------------------------------------------------------------------
(* The calls. *)

\* (mutant) the index learns of new names only
EndCallOldIndex(s, n, d, vk) ==
  /\ cells' = s.cells /\ key' = s.key
  /\ IF s.ok
     THEN res' = "ok" /\ wanted' = [wanted EXCEPT ![n] = d]
          /\ index' = [index EXCEPT ![n] = IF @ = Invalid \/ vk = Invalid THEN vk ELSE @]
     ELSE res' = "error" /\ UNCHANGED <<wanted, index>>
  /\ failed' = (failed \/ ~s.ok)
  /\ calls' = calls + 1

EndCall(s, n, d, vk) ==
  /\ cells' = s.cells /\ key' = s.key
  /\ IF s.ok
     THEN res' = "ok" /\ wanted' = [wanted EXCEPT ![n] = d] /\ index' = [index EXCEPT ![n] = vk]
     ELSE res' = "error" /\ UNCHANGED <<wanted, index>>
  /\ failed' = (failed \/ ~s.ok)
  /\ calls' = calls + 1

\* The bytes that VK.Data gives for an existing value; big data it cannot read.
Existing(r) == IF cells[r].len <= MaxInline THEN cells[r].inline ELSE cells[cells[r].data].bytes
SameHeader(r, d) == cells[r].typ = d.typ /\ cells[r].len = d.len

CreateValue(name, d, left) ==
  /\ calls < MaxCalls /\ index[Folded(name)] = Invalid
  /\ LET v == AllocateVK(Begin(left), name, d)
         t == IF v.ok THEN AddToValueList(v, v.ref) ELSE v
     IN EndCall(t, Folded(name), d, v.ref)

UpdateValue(name, d, left) ==
  LET old == index[Folded(name)] IN
  /\ calls < MaxCalls /\ old # Invalid
  /\ SameHeader(old, d) => d.len <= MaxBlock /\ Existing(old) # d
  /\ LET v == AllocateVK(Begin(left), name, d)
         t == ReplaceInValueList(v, old, v.ref)
     IN EndCall(IF t.ok THEN FreeVK(t, old) ELSE t, Folded(name), d, v.ref)

KeepValue(name, d) ==
  LET old == index[Folded(name)] IN
  /\ old # Invalid /\ SameHeader(old, d) /\ d.len <= MaxBlock /\ Existing(old) = d
  /\ res' = "ok"
  /\ UNCHANGED <<cells, key, index, wanted, failed, calls>>

\* Big data of the same type and length cannot be compared.
CompareFails(name, d) ==
  LET old == index[Folded(name)] IN
  /\ old # Invalid /\ SameHeader(old, d) /\ d.len > MaxBlock
  /\ res' = "error" /\ failed' = TRUE
  /\ UNCHANGED <<cells, key, index, wanted, calls>>

DeleteValue(name, left) ==
  LET old == index[Folded(name)]
      s == RemoveFromValueList(Begin(left), old)
      t == IF cells[old].data # Invalid /\ cells[old].len > 4
           THEN FreeBigDataIfNeeded(s, cells[old].data) ELSE s
  IN /\ calls < MaxCalls /\ old # Invalid
     /\ EndCall(IF s.ok THEN Freed(t, old) ELSE s, Folded(cells[old].name), <<>>, Invalid)

DeleteAbsent(name) ==
  /\ index[Folded(name)] = Invalid
  /\ res' = "ok"
  /\ UNCHANGED <<cells, key, index, wanted, failed, calls>>

ValueNext ==
  \E name \in Names :
    \/ \E d \in Datas :
         \/ \E left \in Budgets : CreateValue(name, d, left) \/ UpdateValue(name, d, left)
         \/ KeepValue(name, d)
         \/ CompareFails(name, d)
    \/ \E left \in Budgets : DeleteValue(name, left)
    \/ DeleteAbsent(name)

ValueSpec == ValueInit /\ [][ValueNext]_valueVars

-----------------------------------------------------------------------------
(* The reader. *)

\* What is left of a block: the padding is cut off, then what exceeds the length.

Readable(room, most) ==
  LET bytes == IF room > Padding THEN room - Padding ELSE room
  IN IF bytes > most THEN most ELSE bytes

\* The bytes of a value: a sequence of pieces <<data, block, length>>, empty for an
\* error.  A data cell is used as it is, one that looks like big data as a header.
Whole(d) == <<<<d, 0, d.len>>>>

ValueDB(vk) ==
  LET blocks == cells[DBList(cells[vk.data])].refs
      read(acc, r) ==
        LET n == Readable(cells[r].room, vk.len - acc.n)
        IN IF acc.n >= vk.len THEN acc
           ELSE [n |-> acc.n + n, out |-> Append(acc.out, cells[r].bytes \o <<n>>)]
      all == FoldLeft(read, [n |-> 0, out |-> <<>>], blocks)
  IN IF all.n = vk.len THEN all.out ELSE <<>>

ReadValue(r) ==
  LET vk == cells[r]
  IN IF vk.len <= MaxInline THEN Whole(vk.inline)
     ELSE IF ~LooksDB(cells[vk.data]) THEN Whole(cells[vk.data].bytes)
     ELSE IF cells[DBList(cells[vk.data])].kind # "blocklist" THEN <<>>
     ELSE ValueDB(vk)

\* GetValue: the first value of the list with the name; what is no value is skipped.
GetValue(n) ==
  LET refs == ValueRefs(Begin(0))
      hits == {k \in DOMAIN refs : cells[refs[k]].kind = "vk" /\ Folded(cells[refs[k]].name) = n}
  IN IF hits = {} THEN Invalid ELSE refs[CHOOSE k \in hits : \A j \in hits : k <= j]

AsStored(d) ==
  IF d.len <= MaxBlock THEN Whole(d)
  ELSE [k \in 1..Blocks(d.len) |-> <<d, k, BlockLen(d.len, k)>>]

-----------------------------------------------------------------------------
(* Properties. *)

VKs == Range(ValueRefs(Begin(0)))

\* The value list holds one VK for each value that was set, under the name in whatever
\* case, and none that was deleted; a call that failed half way has changed nothing
\* that can be seen (UpsertValue, DeleteValue).
ListRight ==
  /\ \A n \in DOMAIN wanted : (wanted[n] = <<>>) = (GetValue(n) = Invalid)
  /\ Cardinality(VKs) = Cardinality({n \in DOMAIN wanted : wanted[n] # <<>>})
  /\ key.count = Cardinality(VKs)

\* The index leads to the VK in the list, never to a freed or a replaced one.
IndexAgrees == \A n \in DOMAIN index : index[n] = GetValue(n)

\* What was set successfully is what the reader finds, byte for byte, if it is not big data.
SmallBack ==
  \A n \in DOMAIN wanted :
    wanted[n] # <<>> /\ wanted[n].len <= MaxBlock => ReadValue(GetValue(n)) = AsStored(wanted[n])

\* Big data is read whole or not at all: never a part of it, never the blocks of another
\* value (valueDB).  That it is read is not claimed: a value whose last block has fewer than
\* four bytes to spare in its cell cannot be, because the store adds no padding
\* (writeDataBlock) and the reader cuts it off.
BigWhole ==
  \A n \in DOMAIN wanted :
    wanted[n] # <<>> /\ wanted[n].len > MaxBlock =>
      ReadValue(GetValue(n)) \in {<<>>, AsStored(wanted[n])}

\* The list of a key's values, its index and the reader agree with what was set and deleted,
\* also after a call that failed half way (UpsertValue, DeleteValue).
ValuesRight == ListRight /\ IndexAgrees /\ SmallBack

\* The cells that belong to a value.
CellsOf(C, r) ==
  LET d == C[r].data
  IN {r} \cup (IF d = Invalid THEN {} ELSE {d})
         \cup (IF d # Invalid /\ C[d].kind = "db"
               THEN {C[d].blocklist} \cup Range(C[C[d].blocklist].refs) ELSE {})

\* No cell belongs to two values, and none of them is free: a cell is never given out
\* again while a value uses it (freeVK, freeBigDataIfNeeded).
NothingDangles ==
  /\ \A r \in VKs : cells[r].kind = "vk" /\ \A c \in CellsOf(cells, r) : cells[c] # Free
  /\ \A r, q \in VKs : r # q => CellsOf(cells, r) \cap CellsOf(cells, q) = {}

\* As long as no call failed, the cells left behind are old value lists and the big
\* data of replaced values (freeVK: "skip freeing big data structures").
LeaksKnown ==
  ~failed =>
    \A r \in Refs : cells[r] # Free /\ r # key.list /\ r \notin UNION {CellsOf(cells, q) : q \in VKs} =>
      cells[r].kind \in {"values", "db", "blocklist", "block"}

\* No cell of a value is free or belongs to two values, and what is left behind is only
\* what freeVK says it skips.
ValuesWhole == NothingDangles /\ LeaksKnown

\* No data begins with the two letters by which a big-data header is known.
PlainData == \A d \in Datas : d.db = Invalid
=============================================================================
