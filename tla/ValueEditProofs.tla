--------------------------- MODULE ValueEditProofs ---------------------------
(***************************************************************************)
(* Proofs about ValueEdit, for every set of names, data, cells and budgets *)
(* and any number of calls: if no data begins like a big-data header, the  *)
(* value list, the index and the reader agree with what was set, a cell    *)
(* that a value uses is never free nor another value's, and what is left   *)
(* behind while no call fails is what freeVK says it skips.                *)
(*                                                                         *)
(* The invariant (ValueInv) says of each name in the index what its cells  *)
(* hold (Kept), that the cells of two values are disjoint, and that the    *)
(* list of the key has each VK of the index once (Describes, Lists).  The  *)
(* pieces of a call only write cells that were free (Extends), and freeing *)
(* comes last and takes only cells of the value that was replaced or       *)
(* deleted (Called).                                                       *)
(***************************************************************************)
EXTENDS ValueEdit, FiniteSetTheorems, FunctionTheorems, SequenceTheorems, WellFoundedInduction, TLAPS

\* A state inside a call.
State(s) ==
  /\ s = [cells |-> s.cells, key |-> s.key, left |-> s.left, ref |-> s.ref, ok |-> s.ok]
  /\ s.cells = [c \in Refs |-> s.cells[c]]
  /\ s.left \in Nat /\ s.ok \in BOOLEAN

\* The cells that were in use are as they were.
Extends(D, C) == \A c \in Refs : C[c] # Free => D[c] = C[c]

\* Every set of numbers has a smallest member.
LEMMA Smallest ==
  ASSUME NEW S, S \subseteq Nat, S # {}
  PROVE  \E m \in S : \A k \in S : m <= k
<1>1. IsWellFoundedOn(OpToRel(<, Nat), Nat)
  BY NatLessThanWellFounded
<1>2. PICK m \in S : \A k \in S : <<k, m>> \notin OpToRel(<, Nat)
  BY <1>1, WFMin
<1>3. \A k \in S : ~(k < m)
  BY <1>2 DEF OpToRel
<1>4. \A k \in S : m <= k
  <2> SUFFICES ASSUME NEW k \in S PROVE m <= k
    OBVIOUS
  <2>1. k \in Nat /\ m \in Nat /\ ~(k < m)
    BY <1>3
  <2> QED  BY <2>1
<1> QED  BY <1>4

\* Alloc fails and changes no cell, or writes one cell that was free.
LEMMA AllocGives ==
  ASSUME NEW s, State(s), NEW cell
  PROVE  LET t == Alloc(s, cell)
         IN /\ State(t) /\ t.key = s.key
            /\ ~t.ok => t.cells = s.cells
            /\ t.ok => /\ s.ok /\ t.ref \in Refs /\ s.cells[t.ref] = Free
                       /\ t.cells = [s.cells EXCEPT ![t.ref] = cell]
<1> DEFINE r == CHOOSE u \in Unused(s) : \A v \in Unused(s) : u <= v
           t == Alloc(s, cell)
<1>1. CASE ~s.ok \/ s.left = 0 \/ Unused(s) = {}
  <2>1. t = [s EXCEPT !.ok = FALSE, !.ref = Invalid]
    BY <1>1 DEF Alloc
  <2>2. t = [cells |-> s.cells, key |-> s.key, left |-> s.left, ref |-> Invalid, ok |-> FALSE]
    BY <2>1 DEF State
  <2> QED  BY <2>2 DEF State
<1>2. CASE ~(~s.ok \/ s.left = 0 \/ Unused(s) = {})
  <2>1. r \in Unused(s)
    <3>1. Unused(s) \in SUBSET Nat /\ Unused(s) # {}
      BY <1>2, ValueAssumption DEF Unused
    <3> QED  BY <3>1, Smallest
  <2>2. t = [s EXCEPT !.cells[r] = cell, !.ref = r, !.left = @ - 1]
    BY <1>2 DEF Alloc
  <2>3. t = [cells |-> [s.cells EXCEPT ![r] = cell], key |-> s.key, left |-> s.left - 1, ref |-> r, ok |-> s.ok]
    BY <2>2 DEF State
  <2>4. r \in Refs /\ s.cells[r] = Free
    BY <2>1 DEF Unused
  <2>5. s.left - 1 \in Nat
    BY <1>2 DEF State
  <2>6. [s.cells EXCEPT ![r] = cell] = [c \in Refs |-> [s.cells EXCEPT ![r] = cell][c]]
    BY DEF State
  <2>7. t.key = s.key /\ t.ok = s.ok /\ t.ref = r /\ t.left = s.left - 1
        /\ t.cells = [s.cells EXCEPT ![r] = cell]
    BY <2>3
  <2>8. State(t)
    BY <2>3, <2>5, <2>6, <2>7, <1>2 DEF State
  <2> HIDE DEF t
  <2>9. /\ State(t) /\ t.key = s.key
        /\ ~t.ok => t.cells = s.cells
        /\ t.ok => /\ s.ok /\ t.ref \in Refs /\ s.cells[t.ref] = Free
                   /\ t.cells = [s.cells EXCEPT ![t.ref] = cell]
    BY <2>4, <2>7, <2>8, <1>2
  <2> QED  BY <2>9 DEF t
<1> QED  BY <1>1, <1>2

\* The cells q are free, distinct, and not more than may be allocated.
RoomOK(s, q) ==
  /\ q \in Seq(Refs) /\ Len(q) <= s.left
  /\ \A k \in DOMAIN q : s.cells[q[k]] = Free
  /\ \A k, l \in DOMAIN q : q[k] = q[l] => k = l

\* There is always a longest choice of cells for the blocks, if only the empty one.
LEMMA RoomGives ==
  ASSUME NEW s, State(s), NEW d \in Datas
  PROVE  RoomOK(s, RoomFor(s, d))
<1> DEFINE B == Blocks(d.len)
           N == {n \in 0..B : Rooms(s, n) # {}}
           S == {B - n : n \in N}
           q == RoomFor(s, d)
           most == Most(s, d)
<1>1. B \in Nat
  BY ValueAssumption DEF Blocks, MaxBlock
<1>2. 0 \in N
  <2>1. <<>> \in [1..0 -> Unused(s)] /\ 0 <= s.left
    BY DEF State
  <2>2. <<>> \in Rooms(s, 0)
    BY <2>1 DEF Rooms
  <2> QED  BY <1>1, <2>2
<1> HIDE DEF B
<1>3. S \subseteq Nat /\ S # {}
  BY <1>1, <1>2
<1>4. PICK m \in S : \A k \in S : m <= k
  BY <1>3, Smallest
<1>5. PICK n \in N : m = B - n
  BY <1>4
<1>6. ASSUME NEW k \in (n + 1)..B PROVE Rooms(s, k) = {}
  <2>1. k \in 0..B /\ B - k < m
    BY <1>1, <1>5
  <2>2. B - k \notin S
    <3>1. B - k \in S => m <= B - k
      BY <1>4
    <3> QED  BY <1>1, <1>5, <2>1, <3>1
  <2> QED  BY <2>1, <2>2
<1>7. most \in 0..B /\ Rooms(s, most) # {}
  <2>1. n \in 0..B /\ (\E x \in Rooms(s, n) : TRUE)
    BY <1>5
  <2>2. \A k \in (n + 1)..B : ~\E x \in Rooms(s, k) : TRUE
    BY <1>6
  <2>3. \E l \in 0..B : /\ \E x \in Rooms(s, l) : TRUE
                        /\ \A k \in (l + 1)..B : ~\E x \in Rooms(s, k) : TRUE
    BY <2>1, <2>2
  <2>4. most \in 0..B /\ \E x \in Rooms(s, most) : TRUE
    BY <2>3 DEF Most, B
  <2> QED  BY <2>4
<1>8. q \in Rooms(s, most)
  BY <1>7 DEF RoomFor
<1> HIDE DEF q, most
<1>9. q \in [1..most -> Unused(s)] /\ most <= s.left /\ \A k, l \in 1..most : q[k] = q[l] => k = l
  BY <1>8 DEF Rooms
<1>10. q \in Seq(Unused(s)) /\ Len(q) = most /\ DOMAIN q = 1..most
  BY <1>1, <1>7, <1>9
<1>11. q \in Seq(Refs) /\ \A k \in DOMAIN q : s.cells[q[k]] = Free
  BY <1>10 DEF Unused
<1>12. RoomOK(s, q)
  BY <1>9, <1>10, <1>11 DEF RoomOK
<1> QED  BY <1>12 DEF q

\* writeDataBlock: blocks in cells that were free, and nothing else.
LEMMA BlocksGive ==
  ASSUME NEW s, State(s), NEW d \in Datas
  PROVE  LET t == WriteDataBlocks(s, d)
             q == RoomFor(s, d)
         IN /\ State(t) /\ t.key = s.key /\ (t.ok => s.ok)
            /\ \A k \in DOMAIN q : t.cells[q[k]].kind = "block"
            /\ \A c \in Refs : c \notin Range(q) => t.cells[c] = s.cells[c]
<1> DEFINE q == RoomFor(s, d)
           C == [c \in Refs |-> IF \E k \in DOMAIN q : q[k] = c
                                THEN DataBlock(d, CHOOSE k \in DOMAIN q : q[k] = c)
                                ELSE s.cells[c]]
           t == WriteDataBlocks(s, d)
<1>1. q \in Seq(Refs) /\ Len(q) <= s.left
  BY RoomGives DEF RoomOK
<1>2. t = [s EXCEPT !.cells = C, !.left = @ - Len(q), !.ok = @ /\ Len(q) = Blocks(d.len)]
  BY DEF WriteDataBlocks
<1> HIDE DEF q, C
<1>3. t = [cells |-> C, key |-> s.key, left |-> s.left - Len(q), ref |-> s.ref,
           ok |-> s.ok /\ Len(q) = Blocks(d.len)]
  BY <1>2 DEF State
<1>4. t.cells = C /\ t.key = s.key /\ t.left = s.left - Len(q) /\ t.ref = s.ref
      /\ t.ok = (s.ok /\ Len(q) = Blocks(d.len))
  BY <1>3
<1>5. s.left - Len(q) \in Nat
  BY <1>1 DEF State
<1>6. C = [c \in Refs |-> C[c]]
  BY DEF C
<1>7. State(t)
  BY <1>3, <1>4, <1>5, <1>6 DEF State
<1>8. \A k \in DOMAIN q : C[q[k]].kind = "block"
  BY <1>1 DEF C, DataBlock
<1>9. \A c \in Refs : c \notin Range(q) => C[c] = s.cells[c]
  BY DEF C, Range
<1> HIDE DEF t
<1>10. /\ State(t) /\ t.key = s.key /\ (t.ok => s.ok)
       /\ \A k \in DOMAIN q : t.cells[q[k]].kind = "block"
       /\ \A c \in Refs : c \notin Range(q) => t.cells[c] = s.cells[c]
  BY <1>4, <1>7, <1>8, <1>9
<1> QED  BY <1>10 DEF t, q

\* Big data in the cell x of C: the header, the list and the blocks.
BigAt(C, x, d) ==
  /\ x \in Refs /\ C[x] = DBHeader(Blocks(d.len), C[x].blocklist)
  /\ C[x].blocklist \in Refs
  /\ C[C[x].blocklist] = Blocklist(C[C[x].blocklist].refs)
  /\ C[C[x].blocklist].refs \in Seq(Refs)
  /\ \A k \in DOMAIN C[C[x].blocklist].refs : C[C[C[x].blocklist].refs[k]].kind = "block"

\* The cells of that big data.
BigCells(C, x) == {x, C[x].blocklist} \cup Range(C[C[x].blocklist].refs)

\* bigdata.Store: the whole structure, in cells that were free.
LEMMA StoreGives ==
  ASSUME NEW s, State(s), NEW d \in Datas
  PROVE  LET t == StoreBig(s, d)
         IN /\ State(t) /\ t.key = s.key /\ Extends(t.cells, s.cells)
            /\ t.ok => /\ s.ok /\ BigAt(t.cells, t.ref, d)
                       /\ \A c \in BigCells(t.cells, t.ref) : c \in Refs /\ s.cells[c] = Free
                       /\ \A c \in Refs \ BigCells(t.cells, t.ref) : t.cells[c] = s.cells[c]
<1> DEFINE q == RoomFor(s, d)
           w == WriteDataBlocks(s, d)
           l == Alloc(w, Blocklist(q))
           t == Alloc(l, DBHeader(Blocks(d.len), l.ref))
<1>1. RoomOK(s, q)
  BY RoomGives
<1>2. /\ State(w) /\ w.key = s.key /\ (w.ok => s.ok)
      /\ \A k \in DOMAIN q : w.cells[q[k]].kind = "block"
      /\ \A c \in Refs : c \notin Range(q) => w.cells[c] = s.cells[c]
  BY BlocksGive
<1> HIDE DEF w, q
<1>3. /\ State(l) /\ l.key = w.key
      /\ ~l.ok => l.cells = w.cells
      /\ l.ok => /\ w.ok /\ l.ref \in Refs /\ w.cells[l.ref] = Free
                 /\ l.cells = [w.cells EXCEPT ![l.ref] = Blocklist(q)]
  BY <1>2, AllocGives
<1> HIDE DEF l
<1>4. /\ State(t) /\ t.key = l.key
      /\ ~t.ok => t.cells = l.cells
      /\ t.ok => /\ l.ok /\ t.ref \in Refs /\ l.cells[t.ref] = Free
                 /\ t.cells = [l.cells EXCEPT ![t.ref] = DBHeader(Blocks(d.len), l.ref)]
  BY <1>3, AllocGives
<1> HIDE DEF t
<1>5. Extends(w.cells, s.cells)
  BY <1>1, <1>2 DEF Extends, RoomOK, Range
<1>6. Extends(l.cells, w.cells)
  BY <1>2, <1>3 DEF Extends, State
<1>7. Extends(t.cells, l.cells)
  BY <1>3, <1>4 DEF Extends, State
<1>8. Extends(t.cells, s.cells)
  BY <1>5, <1>6, <1>7 DEF Extends
<1>9. ASSUME t.ok
      PROVE  /\ s.ok /\ BigAt(t.cells, t.ref, d)
             /\ \A c \in BigCells(t.cells, t.ref) : c \in Refs /\ s.cells[c] = Free
             /\ \A c \in Refs \ BigCells(t.cells, t.ref) : t.cells[c] = s.cells[c]
  <2>1. l.ok /\ w.ok /\ s.ok
    BY <1>2, <1>3, <1>4, <1>9
  <2>2. l.ref \in Refs /\ w.cells[l.ref] = Free /\ t.ref \in Refs /\ l.cells[t.ref] = Free
    BY <1>3, <1>4, <1>9, <2>1
  <2>3. l.cells[l.ref] = Blocklist(q)
    BY <1>2, <1>3, <2>1, <2>2 DEF State
  <2>4. t.ref # l.ref
    BY <2>2, <2>3 DEF Blocklist, Free
  <2>5. t.cells[t.ref] = DBHeader(Blocks(d.len), l.ref) /\ t.cells[l.ref] = Blocklist(q)
    BY <1>3, <1>4, <1>9, <2>2, <2>3, <2>4 DEF State
  <2>6. q \in Seq(Refs)
    BY <1>1 DEF RoomOK
  <2>7. ASSUME NEW k \in DOMAIN q
        PROVE  t.cells[q[k]].kind = "block" /\ q[k] \in Refs /\ s.cells[q[k]] = Free
    <3>1. q[k] \in Refs /\ s.cells[q[k]] = Free
      BY <1>1, <2>6 DEF RoomOK
    <3>2. w.cells[q[k]].kind = "block" /\ w.cells[q[k]] # Free
      BY <1>2 DEF Free
    <3>3. l.cells[q[k]] = w.cells[q[k]]
      BY <1>6, <3>1, <3>2 DEF Extends
    <3>4. t.cells[q[k]] = w.cells[q[k]]
      BY <1>7, <3>1, <3>2, <3>3 DEF Extends
    <3> QED  BY <3>1, <3>2, <3>4
  <2>8. t.cells[t.ref].blocklist = l.ref /\ t.cells[l.ref].refs = q
    BY <2>5 DEF DBHeader, Blocklist
  <2>9. BigAt(t.cells, t.ref, d)
    BY <2>2, <2>5, <2>6, <2>7, <2>8 DEF BigAt
  <2>10. BigCells(t.cells, t.ref) = {t.ref, l.ref} \cup Range(q)
    BY <2>8 DEF BigCells
  <2>11. s.cells[l.ref] = Free
    BY <1>5, <2>2 DEF Extends
  <2>12. s.cells[t.ref] = Free
    BY <1>5, <1>6, <2>2 DEF Extends
  <2>13. \A c \in Range(q) : c \in Refs /\ s.cells[c] = Free
    BY <2>7 DEF Range
  <2>14. \A c \in BigCells(t.cells, t.ref) : c \in Refs /\ s.cells[c] = Free
    BY <2>2, <2>10, <2>11, <2>12, <2>13
  <2>15. ASSUME NEW c \in Refs \ BigCells(t.cells, t.ref)
         PROVE  t.cells[c] = s.cells[c]
    <3>1. c # t.ref /\ c # l.ref /\ c \notin Range(q)
      BY <2>10
    <3>2. w.cells[c] = s.cells[c]
      BY <1>2, <3>1
    <3>3. l.cells[c] = w.cells[c]
      BY <1>2, <1>3, <2>1, <3>1 DEF State
    <3>4. t.cells[c] = l.cells[c]
      BY <1>3, <1>4, <1>9, <3>1 DEF State
    <3> QED  BY <3>2, <3>3, <3>4
  <2> QED  BY <2>1, <2>9, <2>14, <2>15
<1>10. t.key = s.key
  BY <1>2, <1>3, <1>4
<1>11. CASE Blocks(d.len) > MaxBlocks
  <2> DEFINE e == StoreBig(s, d)
  <2>1. e = [s EXCEPT !.ok = FALSE]
    BY <1>11 DEF StoreBig
  <2>2. e = [cells |-> s.cells, key |-> s.key, left |-> s.left, ref |-> s.ref, ok |-> FALSE]
    BY <2>1 DEF State
  <2> HIDE DEF e
  <2>3. State(e) /\ e.key = s.key /\ e.cells = s.cells /\ ~e.ok
    BY <2>2 DEF State
  <2> QED  BY <2>3 DEF Extends, e
<1>12. CASE ~(Blocks(d.len) > MaxBlocks)
  <2>1. t = StoreBig(s, d)
    BY <1>12 DEF StoreBig, t, l, w, q
  <2> QED  BY <1>4, <1>8, <1>9, <1>10, <2>1
<1> QED  BY <1>11, <1>12

\* The cells of big data are in use, and of its three kinds.
LEMMA BigKinds ==
  ASSUME NEW C, NEW x, NEW d, BigAt(C, x, d)
  PROVE  /\ x \in Refs /\ C[x].kind = "db" /\ C[x].blocklist \in Refs
         /\ C[C[x].blocklist].kind = "blocklist"
         /\ \A c \in Range(C[C[x].blocklist].refs) : c \in Refs /\ C[c].kind = "block"
         /\ \A c \in BigCells(C, x) : /\ c \in Refs /\ C[c] # Free
                                      /\ C[c].kind \in {"db", "blocklist", "block"}
<1> DEFINE b == C[x].blocklist
           q == C[b].refs
<1>1. /\ x \in Refs /\ C[x] = DBHeader(Blocks(d.len), b) /\ b \in Refs
      /\ C[b] = Blocklist(q) /\ q \in Seq(Refs) /\ \A k \in DOMAIN q : C[q[k]].kind = "block"
  BY DEF BigAt
<1>2. BigCells(C, x) = {x, b} \cup Range(q)
  BY DEF BigCells
<1> HIDE DEF b, q
<1>3. C[x].kind = "db" /\ C[b].kind = "blocklist"
  BY <1>1 DEF DBHeader, Blocklist
<1>4. \A c \in Range(q) : c \in Refs /\ C[c].kind = "block"
  BY <1>1 DEF Range
<1>5. \A c \in BigCells(C, x) : c \in Refs /\ C[c] # Free /\ C[c].kind \in {"db", "blocklist", "block"}
  BY <1>1, <1>2, <1>3, <1>4 DEF Free
<1> QED  BY <1>1, <1>3, <1>4, <1>5 DEF b, q

-----------------------------------------------------------------------------
\* The VK in the cell r of C, its data with it, is what an upsert of d under n has written.
Kept(C, r, n, d) ==
  /\ r \in Refs
  /\ \E name \in Names : Folded(name) = n /\ C[r] = VK(name, d, C[r].data)
  /\ d.len <= MaxInline => C[r].data = Invalid
  /\ MaxInline < d.len /\ d.len <= MaxBlock => C[r].data \in Refs /\ C[C[r].data] = DataCell(d)
  /\ MaxBlock < d.len => BigAt(C, C[r].data, d)

\* The cells of a value, by the length of its data.
LEMMA KeptCells ==
  ASSUME NEW C, NEW r, NEW n, NEW d \in Datas, Kept(C, r, n, d)
  PROVE  /\ d.len <= MaxInline => CellsOf(C, r) = {r}
         /\ MaxInline < d.len /\ d.len <= MaxBlock => CellsOf(C, r) = {r, C[r].data}
         /\ MaxBlock < d.len => CellsOf(C, r) = {r} \cup BigCells(C, C[r].data)
<1> DEFINE x == C[r].data
<1>0. Invalid \notin Refs /\ d.len \in Nat
  BY ValueAssumption DEF Invalid
<1>1. CASE d.len <= MaxInline
  BY <1>0, <1>1 DEF Kept, CellsOf, MaxInline, MaxBlock
<1>2. CASE MaxInline < d.len /\ d.len <= MaxBlock
  <2>1. x \in Refs /\ C[x].kind = "data"
    BY <1>2 DEF Kept, DataCell
  <2> QED  BY <1>0, <1>2, <2>1 DEF CellsOf, MaxInline, MaxBlock
<1>3. CASE MaxBlock < d.len
  <2>1. BigAt(C, x, d)
    BY <1>3 DEF Kept
  <2>2. x \in Refs /\ C[x].kind = "db"
    BY <2>1, BigKinds
  <2> QED  BY <1>0, <1>3, <2>2 DEF CellsOf, BigCells, MaxInline, MaxBlock
<1> QED  BY <1>0, <1>1, <1>2, <1>3 DEF MaxInline, MaxBlock

\* The cells of a value are in use.
LEMMA KeptNotFree ==
  ASSUME NEW C, NEW r, NEW n, NEW d \in Datas, Kept(C, r, n, d)
  PROVE  /\ C[r].kind = "vk" /\ r \in CellsOf(C, r)
         /\ \A c \in CellsOf(C, r) : /\ c \in Refs /\ C[c] # Free
                                     /\ c # r => C[c].kind \in {"data", "db", "blocklist", "block"}
<1> DEFINE x == C[r].data
<1>1. r \in Refs /\ C[r].kind = "vk"
  BY DEF Kept, VK
<1>2. CASE d.len <= MaxInline
  BY <1>1, <1>2, KeptCells DEF Free
<1>3. CASE MaxInline < d.len /\ d.len <= MaxBlock
  <2>1. x \in Refs /\ C[x].kind = "data"
    BY <1>3 DEF Kept, DataCell
  <2> QED  BY <1>1, <1>3, <2>1, KeptCells DEF Free
<1>4. CASE MaxBlock < d.len
  <2> DEFINE b == C[x].blocklist
  <2>1. BigAt(C, x, d)
    BY <1>4 DEF Kept
  <2>2. x \in Refs /\ C[x].kind = "db" /\ b \in Refs /\ C[b].kind = "blocklist"
    BY <2>1, BigKinds
  <2>3. \A c \in Range(C[b].refs) : c \in Refs /\ C[c].kind = "block"
    BY <2>1, BigKinds
  <2>4. CellsOf(C, r) = {r, x, b} \cup Range(C[b].refs)
    BY <1>4, KeptCells DEF BigCells
  <2> QED  BY <1>1, <2>2, <2>3, <2>4 DEF Free
<1> QED  BY <1>2, <1>3, <1>4, ValueAssumption DEF MaxInline, MaxBlock

\* A value stays what it is if its cells do.
LEMMA KeptStays ==
  ASSUME NEW C, NEW D, NEW r, NEW n, NEW d \in Datas, Kept(C, r, n, d),
         \A c \in CellsOf(C, r) : D[c] = C[c]
  PROVE  Kept(D, r, n, d) /\ CellsOf(D, r) = CellsOf(C, r)
<1> DEFINE x == C[r].data
<1>1. D[r] = C[r]
  BY KeptNotFree
<1>2. CASE d.len <= MaxInline
  <2>1. Kept(D, r, n, d)
    BY <1>1, <1>2, ValueAssumption DEF Kept, MaxInline, MaxBlock
  <2> QED  BY <1>2, <2>1, KeptCells
<1>3. CASE MaxInline < d.len /\ d.len <= MaxBlock
  <2>1. D[x] = C[x]
    BY <1>3, KeptCells
  <2>2. Kept(D, r, n, d)
    BY <1>1, <1>3, <2>1, ValueAssumption DEF Kept, MaxInline, MaxBlock
  <2> QED  BY <1>1, <1>3, <2>2, KeptCells
<1>4. CASE MaxBlock < d.len
  <2> DEFINE b == C[x].blocklist
  <2>1. BigAt(C, x, d)
    BY <1>4 DEF Kept
  <2>2. D[x] = C[x] /\ D[b] = C[b] /\ \A c \in Range(C[b].refs) : D[c] = C[c]
    BY <1>4, KeptCells DEF BigCells
  <2>3. BigAt(D, x, d)
    BY <2>1, <2>2 DEF BigAt, Range
  <2>4. BigCells(D, x) = BigCells(C, x)
    BY <2>2 DEF BigCells
  <2>5. Kept(D, r, n, d)
    BY <1>1, <1>4, <2>3, ValueAssumption DEF Kept, MaxInline, MaxBlock
  <2> QED  BY <1>1, <1>4, <2>4, <2>5, KeptCells
<1> QED  BY <1>2, <1>3, <1>4, ValueAssumption DEF MaxInline, MaxBlock

\* allocateVK: a value that is kept, in cells that were free, and nothing else.
LEMMA VKGives ==
  ASSUME NEW s, State(s), NEW name \in Names, NEW d \in Datas
  PROVE  LET v == AllocateVK(s, name, d)
         IN /\ State(v) /\ v.key = s.key /\ Extends(v.cells, s.cells)
            /\ v.ok => /\ Kept(v.cells, v.ref, Folded(name), d)
                       /\ \A c \in CellsOf(v.cells, v.ref) : s.cells[c] = Free
                       /\ \A c \in Refs \ CellsOf(v.cells, v.ref) : v.cells[c] = s.cells[c]
<1> DEFINE t == IF d.len <= MaxInline THEN s
                ELSE IF d.len <= MaxBlock THEN Alloc(s, DataCell(d)) ELSE StoreBig(s, d)
           x == IF d.len <= MaxInline THEN Invalid ELSE t.ref
           v == Alloc(t, VK(name, d, x))
           R == v.ref
           F == IF d.len <= MaxInline THEN {} ELSE IF d.len <= MaxBlock THEN {x} ELSE BigCells(t.cells, x)
<1>0. d.len \in Nat /\ Invalid \notin Refs
  BY ValueAssumption DEF Invalid
<1>1. /\ State(t) /\ t.key = s.key /\ Extends(t.cells, s.cells)
      /\ t.ok => /\ d.len <= MaxInline => x = Invalid
                 /\ MaxInline < d.len /\ d.len <= MaxBlock => x \in Refs /\ t.cells[x] = DataCell(d)
                 /\ MaxBlock < d.len => BigAt(t.cells, x, d)
                 /\ \A c \in F : c \in Refs /\ s.cells[c] = Free /\ t.cells[c] # Free
                 /\ \A c \in Refs \ F : t.cells[c] = s.cells[c]
  <2>1. CASE d.len <= MaxInline
    BY <1>0, <2>1 DEF Extends, MaxInline, MaxBlock
  <2>2. CASE MaxInline < d.len /\ d.len <= MaxBlock
    <3>1. t = Alloc(s, DataCell(d)) /\ x = t.ref /\ F = {x}
      BY <1>0, <2>2 DEF MaxInline, MaxBlock
    <3> HIDE DEF t, x, F
    <3>2. /\ State(t) /\ t.key = s.key
          /\ ~t.ok => t.cells = s.cells
          /\ t.ok => /\ t.ref \in Refs /\ s.cells[t.ref] = Free
                     /\ t.cells = [s.cells EXCEPT ![t.ref] = DataCell(d)]
      BY <3>1, AllocGives
    <3>3. Extends(t.cells, s.cells)
      BY <3>2 DEF Extends, State
    <3>4. t.ok => t.cells[x] = DataCell(d) /\ t.cells[x] # Free
      BY <3>1, <3>2 DEF State, DataCell, Free
    <3>5. t.ok => \A c \in Refs \ F : t.cells[c] = s.cells[c]
      BY <3>1, <3>2 DEF State
    <3> QED  BY <1>0, <2>2, <3>1, <3>2, <3>3, <3>4, <3>5 DEF MaxInline, MaxBlock
  <2>3. CASE MaxBlock < d.len
    <3>1. t = StoreBig(s, d) /\ x = t.ref /\ F = BigCells(t.cells, x)
      BY <1>0, <2>3 DEF MaxInline, MaxBlock
    <3> HIDE DEF t, x, F
    <3>2. /\ State(t) /\ t.key = s.key /\ Extends(t.cells, s.cells)
          /\ t.ok => /\ BigAt(t.cells, t.ref, d)
                     /\ \A c \in BigCells(t.cells, t.ref) : c \in Refs /\ s.cells[c] = Free
                     /\ \A c \in Refs \ BigCells(t.cells, t.ref) : t.cells[c] = s.cells[c]
      BY <3>1, StoreGives
    <3>3. t.ok => \A c \in F : t.cells[c] # Free
      BY <3>1, <3>2, BigKinds
    <3> QED  BY <1>0, <2>3, <3>1, <3>2, <3>3 DEF MaxInline, MaxBlock
  <2> QED  BY <1>0, <2>1, <2>2, <2>3 DEF MaxInline, MaxBlock
<1> HIDE DEF t
<1>2. /\ State(v) /\ v.key = t.key
      /\ ~v.ok => v.cells = t.cells
      /\ v.ok => /\ t.ok /\ R \in Refs /\ t.cells[R] = Free
                 /\ v.cells = [t.cells EXCEPT ![R] = VK(name, d, x)]
  BY <1>1, AllocGives
<1> HIDE DEF v
<1>3. Extends(v.cells, s.cells)
  BY <1>1, <1>2 DEF Extends, State
<1>4. ASSUME v.ok
      PROVE  /\ Kept(v.cells, R, Folded(name), d)
             /\ \A c \in CellsOf(v.cells, R) : s.cells[c] = Free
             /\ \A c \in Refs \ CellsOf(v.cells, R) : v.cells[c] = s.cells[c]
  <2>1. t.ok /\ R \in Refs /\ t.cells[R] = Free /\ R \notin F
    BY <1>1, <1>2, <1>4
  <2>2. v.cells[R] = VK(name, d, x)
    BY <1>1, <1>2, <1>4, <2>1 DEF State
  <2>3. v.cells[R].data = x
    BY <2>2 DEF VK
  <2>4. \A c \in Refs : c # R => v.cells[c] = t.cells[c]
    BY <1>1, <1>2, <1>4, <2>1 DEF State
  <2>5. \A c \in F : v.cells[c] = t.cells[c]
    BY <1>1, <2>1, <2>4
  <2>6. MaxInline < d.len /\ d.len <= MaxBlock => x \in Refs /\ v.cells[x] = DataCell(d)
    BY <1>0, <1>1, <2>1, <2>5 DEF MaxInline, MaxBlock
  <2>7. MaxBlock < d.len => BigAt(v.cells, x, d) /\ BigCells(v.cells, x) = BigCells(t.cells, x)
    <3> SUFFICES ASSUME MaxBlock < d.len
                 PROVE  BigAt(v.cells, x, d) /\ BigCells(v.cells, x) = BigCells(t.cells, x)
      OBVIOUS
    <3> DEFINE b == t.cells[x].blocklist
    <3>1. BigAt(t.cells, x, d) /\ F = BigCells(t.cells, x)
      BY <1>0, <1>1, <2>1 DEF MaxInline, MaxBlock
    <3>2. v.cells[x] = t.cells[x] /\ v.cells[b] = t.cells[b] /\ \A c \in Range(t.cells[b].refs) : v.cells[c] = t.cells[c]
      BY <2>5, <3>1 DEF BigCells
    <3>3. BigAt(v.cells, x, d)
      BY <3>1, <3>2 DEF BigAt, Range
    <3> QED  BY <3>2, <3>3 DEF BigCells
  <2>8. Kept(v.cells, R, Folded(name), d)
    BY <1>0, <1>1, <2>1, <2>2, <2>3, <2>6, <2>7 DEF Kept
  <2>9. CellsOf(v.cells, R) = {R} \cup F
    BY <1>0, <2>3, <2>7, <2>8, KeptCells DEF MaxInline, MaxBlock
  <2>10. s.cells[R] = Free
    BY <1>1, <2>1 DEF Extends
  <2> QED  BY <1>1, <2>1, <2>4, <2>8, <2>9, <2>10
<1>5. v = AllocateVK(s, name, d)
  BY DEF AllocateVK, v, t
<1>6. v.key = s.key /\ State(v)
  BY <1>1, <1>2
<1> QED  BY <1>3, <1>4, <1>5, <1>6

-----------------------------------------------------------------------------
\* The key K describes the list L, whose cell is in C.
Describes(C, K, L) ==
  /\ L \in Seq(Refs) /\ K.count = Len(L)
  /\ L = <<>> => K.list = Invalid
  /\ L # <<>> => K.list \in Refs /\ C[K.list] = ValueList(L)

\* The refs that a key describes are the ones that are read.
LEMMA DescribedRefs ==
  ASSUME NEW s, NEW L, Describes(s.cells, s.key, L)
  PROVE  ValueRefs(s) = L
<1>1. L \in Seq(Refs) /\ s.key.count = Len(L) /\ Invalid \notin Refs
  BY ValueAssumption DEF Describes, Invalid
<1>2. CASE L = <<>>
  BY <1>1, <1>2 DEF ValueRefs
<1>3. CASE L # <<>>
  <2>1. Len(L) # 0 /\ s.key.list # Invalid
    BY <1>1, <1>3 DEF Describes
  <2>2. s.cells[s.key.list].refs = L
    BY <1>3 DEF Describes, ValueList
  <2>3. ValueRefs(s) = SubSeq(L, 1, Len(L))
    BY <1>1, <2>1, <2>2 DEF ValueRefs
  <2>4. SubSeq(L, 1, Len(L)) = L
    BY <1>1
  <2> QED  BY <2>3, <2>4
<1> QED  BY <1>2, <1>3

\* Writing a list: a new cell that the key then describes, or a failure and the old key.
LEMMA ListGives ==
  ASSUME NEW s, State(s), NEW L \in Seq(Refs)
  PROVE  LET t == WriteList(s, L)
         IN /\ State(t) /\ Extends(t.cells, s.cells)
            /\ ~t.ok => t.key = s.key
            /\ t.ok => /\ Describes(t.cells, t.key, L)
                       /\ \A c \in Refs : IF c = t.key.list THEN s.cells[c] = Free ELSE t.cells[c] = s.cells[c]
<1> DEFINE t == WriteList(s, L)
<1>0. Invalid \notin Refs
  BY ValueAssumption DEF Invalid
<1>1. CASE L = <<>> /\ ~s.ok
  <2>1. t = s
    BY <1>1 DEF WriteList
  <2> QED  BY <1>1, <2>1 DEF Extends
<1>2. CASE L = <<>> /\ s.ok
  <2>1. t = [s EXCEPT !.key = [list |-> Invalid, count |-> 0]]
    BY <1>2 DEF WriteList
  <2>2. t = [cells |-> s.cells, key |-> [list |-> Invalid, count |-> 0], left |-> s.left, ref |-> s.ref, ok |-> s.ok]
    BY <2>1 DEF State
  <2>3. t.cells = s.cells /\ t.key.list = Invalid /\ t.key.count = 0 /\ t.ok
    BY <1>2, <2>2
  <2>4. State(t)
    BY <2>2 DEF State
  <2>5. Describes(t.cells, t.key, L)
    BY <1>2, <2>3 DEF Describes
  <2> QED  BY <1>0, <2>3, <2>4, <2>5 DEF Extends
<1>3. CASE L # <<>>
  <2> DEFINE a == Alloc(s, ValueList(L))
  <2>1. /\ State(a) /\ a.key = s.key
        /\ ~a.ok => a.cells = s.cells
        /\ a.ok => /\ a.ref \in Refs /\ s.cells[a.ref] = Free
                   /\ a.cells = [s.cells EXCEPT ![a.ref] = ValueList(L)]
    BY AllocGives
  <2>2. t = IF a.ok THEN [a EXCEPT !.key = [list |-> a.ref, count |-> Len(L)]] ELSE a
    BY <1>3 DEF WriteList
  <2> HIDE DEF a
  <2>3. CASE ~a.ok
    BY <2>1, <2>2, <2>3 DEF Extends
  <2>4. CASE a.ok
    <3>1. t = [cells |-> a.cells, key |-> [list |-> a.ref, count |-> Len(L)], left |-> a.left, ref |-> a.ref, ok |-> a.ok]
      BY <2>1, <2>2, <2>4 DEF State
    <3>2. t.cells = a.cells /\ t.key.list = a.ref /\ t.key.count = Len(L) /\ t.ok
      BY <2>4, <3>1
    <3>3. State(t)
      BY <2>1, <3>1 DEF State
    <3>4. t.cells[a.ref] = ValueList(L) /\ \A c \in Refs : c # a.ref => t.cells[c] = s.cells[c]
      BY <2>1, <2>4, <3>2 DEF State
    <3>5. Describes(t.cells, t.key, L)
      BY <1>3, <2>1, <2>4, <3>2, <3>4 DEF Describes
    <3>6. Extends(t.cells, s.cells)
      BY <2>1, <2>4, <3>4 DEF Extends
    <3> QED  BY <2>1, <2>4, <3>2, <3>3, <3>4, <3>5, <3>6
  <2> QED  BY <2>3, <2>4
<1> QED  BY <1>1, <1>2, <1>3

\* L lists the members of S, each once.
Lists(L, S) ==
  /\ L \in Seq(Refs) /\ Range(L) = S
  /\ \A k, l \in DOMAIN L : L[k] = L[l] => k = l

\* List.Append: a list that has each of its members once, with one more.
LEMMA ListsAppend ==
  ASSUME NEW L, NEW S, Lists(L, S), NEW v \in Refs, v \notin S
  PROVE  Lists(Append(L, v), S \cup {v})
<1> DEFINE M == Append(L, v)
<1>1. L \in Seq(Refs) /\ M \in Seq(Refs) /\ Len(M) = Len(L) + 1 /\ DOMAIN L = 1..Len(L) /\ DOMAIN M = 1..(Len(L) + 1)
  BY DEF Lists
<1>2. M[Len(L) + 1] = v /\ \A k \in DOMAIN L : M[k] = L[k]
  BY <1>1
<1>3. Range(L) = S
  BY DEF Lists
<1>4. Range(M) = S \cup {v}
  BY <1>1, <1>2, <1>3 DEF Range
<1>5. \A k \in DOMAIN L : L[k] # v
  BY <1>3 DEF Range
<1>6. \A k, l \in DOMAIN L : L[k] = L[l] => k = l
  BY DEF Lists
<1>7. \A k, l \in DOMAIN M : M[k] = M[l] => k = l
  BY <1>1, <1>2, <1>5, <1>6
<1> QED  BY <1>1, <1>4, <1>7 DEF Lists

\* replaceInValueList: the list with one member in place of another.
LEMMA ListsReplace ==
  ASSUME NEW L, NEW S, Lists(L, S), NEW v \in Refs, v \notin S, NEW k \in DOMAIN L
  PROVE  Lists([L EXCEPT ![k] = v], (S \ {L[k]}) \cup {v})
<1> DEFINE M == [L EXCEPT ![k] = v]
<1>1. L \in Seq(Refs) /\ M \in Seq(Refs) /\ DOMAIN M = DOMAIN L
  BY DEF Lists
<1>2. M[k] = v /\ \A l \in DOMAIN L : l # k => M[l] = L[l]
  OBVIOUS
<1>3. Range(L) = S /\ \A l, m \in DOMAIN L : L[l] = L[m] => l = m
  BY DEF Lists
<1>4. \A l \in DOMAIN L : L[l] # v
  BY <1>3 DEF Range
<1> HIDE DEF M
<1>5. Range(M) = (S \ {L[k]}) \cup {v}
  BY <1>1, <1>2, <1>3 DEF Range
<1>6. \A l, m \in DOMAIN M : M[l] = M[m] => l = m
  BY <1>1, <1>2, <1>3, <1>4
<1> QED  BY <1>1, <1>5, <1>6 DEF Lists, M

\* List.Remove: the list without one member; the order of the others is kept.
LEMMA ListsRemove ==
  ASSUME NEW L, NEW S, Lists(L, S), NEW v \in S
  PROVE  Lists(RemoveRef(L, v), S \ {v})
<1> DEFINE P(n) == L[n] = v /\ \A m \in 1..(n - 1) : L[m] # v
           k == CHOOSE n \in DOMAIN L : P(n)
           M == SubSeq(L, 1, k - 1) \o SubSeq(L, k + 1, Len(L))
<1>1. L \in Seq(Refs) /\ DOMAIN L = 1..Len(L) /\ Len(L) \in Nat
  BY DEF Lists
<1>2. Range(L) = S /\ \A l, m \in DOMAIN L : L[l] = L[m] => l = m
  BY DEF Lists
<1>3. PICK n \in DOMAIN L : L[n] = v
  BY <1>2 DEF Range
<1>4. P(n)
  BY <1>1, <1>2, <1>3
<1>5. k \in DOMAIN L /\ P(k)
  BY <1>4
<1>6. k = n
  BY <1>2, <1>3, <1>5
<1>7. RemoveRef(L, v) = M
  BY <1>2 DEF RemoveRef
<1> HIDE DEF k
<1> DEFINE A == SubSeq(L, 1, k - 1)
           B == SubSeq(L, k + 1, Len(L))
<1>8. A \in Seq(Refs) /\ Len(A) = k - 1 /\ \A m \in 1..(k - 1) : A[m] = L[m]
  BY <1>1, <1>5
<1>9. B \in Seq(Refs) /\ Len(B) = Len(L) - k /\ \A m \in 1..(Len(L) - k) : B[m] = L[k + m]
  BY <1>1, <1>5
<1>10. M = A \o B
  OBVIOUS
<1> HIDE DEF A, B, M
<1>11. k \in 1..Len(L)
  BY <1>1, <1>5
<1>12. M \in Seq(Refs) /\ Len(M) = Len(L) - 1 /\ DOMAIN M = 1..(Len(L) - 1)
  <2>1. M \in Seq(Refs) /\ Len(M) = Len(A) + Len(B)
    BY <1>8, <1>9, <1>10, ConcatProperties
  <2>2. Len(M) = Len(L) - 1
    BY <1>1, <1>11, <1>8, <1>9, <2>1
  <2> QED  BY <2>1, <2>2
<1>13. \A m \in 1..(Len(L) - 1) : M[m] = IF m < k THEN L[m] ELSE L[m + 1]
  <2> SUFFICES ASSUME NEW m \in 1..(Len(L) - 1)
               PROVE  M[m] = IF m < k THEN L[m] ELSE L[m + 1]
    OBVIOUS
  <2>1. \A i \in 1..(Len(A) + Len(B)) : M[i] = IF i <= Len(A) THEN A[i] ELSE B[i - Len(A)]
    BY <1>8, <1>9, <1>10, ConcatProperties
  <2>2. M[m] = IF m <= k - 1 THEN A[m] ELSE B[m - (k - 1)]
    BY <2>1, <1>1, <1>11, <1>8, <1>9
  <2>3. CASE m < k
    BY <1>1, <1>11, <1>8, <2>2, <2>3
  <2>4. CASE ~(m < k)
    <3>1. M[m] = B[m - (k - 1)] /\ m - (k - 1) \in 1..(Len(L) - k)
      BY <1>1, <1>11, <2>2, <2>4
    <3>2. k + (m - (k - 1)) = m + 1
      BY <1>1, <1>11
    <3> QED  BY <1>9, <2>4, <3>1, <3>2
  <2> QED  BY <2>3, <2>4
<1>14. \A l, m \in DOMAIN M : M[l] = M[m] => l = m
  <2> SUFFICES ASSUME NEW l \in DOMAIN M, NEW m \in DOMAIN M, M[l] = M[m] PROVE l = m
    OBVIOUS
  <2> DEFINE up(i) == IF i < k THEN i ELSE i + 1
  <2>1. l \in 1..(Len(L) - 1) /\ m \in 1..(Len(L) - 1)
    BY <1>12
  <2>2. up(l) \in DOMAIN L /\ up(m) \in DOMAIN L
    BY <1>1, <1>11, <2>1
  <2>3. M[l] = L[up(l)] /\ M[m] = L[up(m)]
    BY <1>13, <2>1
  <2>4. up(l) = up(m)
    BY <1>2, <2>2, <2>3
  <2> QED  BY <1>11, <2>1, <2>4
<1>15. Range(M) = S \ {v}
  <2>1. ASSUME NEW m \in DOMAIN M PROVE M[m] \in S \ {v}
    BY <1>1, <1>2, <1>3, <1>5, <1>6, <1>12, <1>13 DEF Range
  <2>2. ASSUME NEW x \in S \ {v} PROVE x \in Range(M)
    <3>1. PICK l \in DOMAIN L : L[l] = x
      BY <1>2 DEF Range
    <3>2. l # k
      BY <1>3, <1>6, <3>1
    <3>3. CASE l < k
      <4>1. l \in DOMAIN M /\ M[l] = x
        BY <1>1, <1>5, <1>12, <1>13, <3>1, <3>3
      <4> QED  BY <4>1 DEF Range
    <3>4. CASE l > k
      <4>1. l - 1 \in DOMAIN M /\ M[l - 1] = x
        BY <1>1, <1>5, <1>12, <1>13, <3>1, <3>4
      <4> QED  BY <4>1 DEF Range
    <3> QED  BY <1>1, <1>5, <3>1, <3>2, <3>3, <3>4
  <2> QED  BY <2>1, <2>2 DEF Range
<1> QED  BY <1>7, <1>12, <1>14, <1>15 DEF Lists

-----------------------------------------------------------------------------
\* The names in lower case, and those that have a value.
Folds == {Folded(name) : name \in Names}
Present(I) == {n \in Folds : I[n] # Invalid}

\* The cells C, the key K and the index I hold the values W.
Sound(C, K, I, W) ==
  /\ C = [c \in Refs |-> C[c]] /\ I = [n \in Folds |-> I[n]] /\ W = [n \in Folds |-> W[n]]
  /\ \A n \in Folds : IF I[n] = Invalid THEN W[n] = <<>> ELSE W[n] \in Datas /\ Kept(C, I[n], n, W[n])
  /\ \A n, m \in Present(I) : n # m => CellsOf(C, I[n]) \cap CellsOf(C, I[m]) = {}
  /\ \E L : Describes(C, K, L) /\ Lists(L, {I[n] : n \in Present(I)})

\* What belongs to no value and is not the value list was a value list or big data.
Leaks(C, K, I) ==
  \A c \in Refs : C[c] # Free /\ c # K.list /\ (\A n \in Present(I) : c \notin CellsOf(C, I[n])) =>
    C[c].kind \in {"values", "db", "blocklist", "block"}

\* What the invariant says of a value.
LEMMA SoundKept ==
  ASSUME NEW C, NEW K, NEW I, NEW W, Sound(C, K, I, W), NEW n \in Present(I)
  PROVE  /\ n \in Folds /\ I[n] \in Refs /\ W[n] \in Datas /\ Kept(C, I[n], n, W[n])
         /\ I[n] \in CellsOf(C, I[n])
         /\ \A c \in CellsOf(C, I[n]) : c \in Refs /\ C[c] # Free
<1>1. n \in Folds /\ W[n] \in Datas /\ Kept(C, I[n], n, W[n])
  BY DEF Sound, Present
<1>2. I[n] \in Refs
  BY <1>1 DEF Kept
<1>3. I[n] \in CellsOf(C, I[n])
  BY <1>1, KeptNotFree
<1>4. \A c \in CellsOf(C, I[n]) : c \in Refs /\ C[c] # Free
  BY <1>1, KeptNotFree
<1> QED  BY <1>1, <1>2, <1>3, <1>4

\* A key describes its list as long as the cell of the list is left alone,
LEMMA DescribesStays ==
  ASSUME NEW C, NEW D, NEW K, NEW L, Describes(C, K, L), L # <<>> => D[K.list] = C[K.list]
  PROVE  Describes(D, K, L)
BY DEF Describes

\* which allocation does.
LEMMA DescribesGrows ==
  ASSUME NEW C, NEW D, NEW K, NEW L, Describes(C, K, L), Extends(D, C)
  PROVE  Describes(D, K, L)
<1>1. L # <<>> => K.list \in Refs /\ C[K.list].kind = "values"
  BY DEF Describes, ValueList
<1>2. L # <<>> => D[K.list] = C[K.list]
  BY <1>1 DEF Extends, Free
<1> QED  BY <1>2, DescribesStays

\* A call that only wrote free cells and then failed has disturbed nothing.
LEMMA SoundGrows ==
  ASSUME NEW C, NEW D, NEW K, NEW I, NEW W, Sound(C, K, I, W), Extends(D, C),
         D = [c \in Refs |-> D[c]]
  PROVE  Sound(D, K, I, W)
<1>1. ASSUME NEW n \in Present(I)
      PROVE  Kept(D, I[n], n, W[n]) /\ CellsOf(D, I[n]) = CellsOf(C, I[n])
  <2>1. W[n] \in Datas /\ Kept(C, I[n], n, W[n]) /\ \A c \in CellsOf(C, I[n]) : c \in Refs /\ C[c] # Free
    BY SoundKept
  <2>2. \A c \in CellsOf(C, I[n]) : D[c] = C[c]
    BY <2>1 DEF Extends
  <2> QED  BY <2>1, <2>2, KeptStays
<1>2. \A n \in Folds : IF I[n] = Invalid THEN W[n] = <<>> ELSE W[n] \in Datas /\ Kept(D, I[n], n, W[n])
  BY <1>1 DEF Sound, Present
<1>3. \A n, m \in Present(I) : n # m => CellsOf(D, I[n]) \cap CellsOf(D, I[m]) = {}
  BY <1>1 DEF Sound
<1>4. \E L : Describes(D, K, L) /\ Lists(L, {I[n] : n \in Present(I)})
  <2>1. PICK L : Describes(C, K, L) /\ Lists(L, {I[n] : n \in Present(I)})
    BY DEF Sound
  <2> QED  BY <2>1, DescribesGrows
<1> QED  BY <1>2, <1>3, <1>4 DEF Sound

\* A call has set the name n to d in the VK v, or deleted it (v is Invalid): D is what has
\* become of the cells C.
Called(C, I, D, n, v, d) ==
  /\ n \in Folds /\ D = [c \in Refs |-> D[c]]
  /\ \A c \in Refs : C[c] # Free =>
       D[c] = C[c] \/ (D[c] = Free /\ I[n] # Invalid /\ c \in CellsOf(C, I[n]))
  /\ IF v = Invalid THEN d = <<>>
     ELSE d \in Datas /\ Kept(D, v, n, d) /\ \A c \in CellsOf(D, v) : C[c] = Free

\* The call leaves the other values alone, and the new one shares no cell with them.
LEMMA OthersStay ==
  ASSUME NEW C, NEW K, NEW I, NEW W, Sound(C, K, I, W),
         NEW D, NEW n, NEW v, NEW d, Called(C, I, D, n, v, d),
         NEW m \in Present(I), m # n
  PROVE  /\ Kept(D, I[m], m, W[m]) /\ CellsOf(D, I[m]) = CellsOf(C, I[m])
         /\ v # Invalid => CellsOf(D, v) \cap CellsOf(C, I[m]) = {}
<1>1. W[m] \in Datas /\ Kept(C, I[m], m, W[m]) /\ \A c \in CellsOf(C, I[m]) : c \in Refs /\ C[c] # Free
  BY SoundKept
<1>2. ASSUME NEW c \in CellsOf(C, I[m]) PROVE D[c] = C[c]
  <2>1. I[n] # Invalid => c \notin CellsOf(C, I[n])
    BY DEF Sound, Present, Called
  <2> QED  BY <1>1, <2>1 DEF Called
<1>3. Kept(D, I[m], m, W[m]) /\ CellsOf(D, I[m]) = CellsOf(C, I[m])
  BY <1>1, <1>2, KeptStays
<1>4. v # Invalid => CellsOf(D, v) \cap CellsOf(C, I[m]) = {}
  BY <1>1 DEF Called
<1> QED  BY <1>3, <1>4

\* After the call the values are sound, with the new one in its place.
LEMMA CallSound ==
  ASSUME NEW C, NEW K, NEW I, NEW W, Sound(C, K, I, W),
         NEW D, NEW J, NEW n, NEW v, NEW d, Called(C, I, D, n, v, d),
         NEW L, Describes(D, J, L),
         Lists(L, {I[m] : m \in Present(I) \ {n}} \cup (IF v = Invalid THEN {} ELSE {v}))
  PROVE  Sound(D, J, [I EXCEPT ![n] = v], [W EXCEPT ![n] = d])
<1> DEFINE I2 == [I EXCEPT ![n] = v]
           W2 == [W EXCEPT ![n] = d]
<1>1. n \in Folds /\ D = [c \in Refs |-> D[c]]
  BY DEF Called
<1>2. /\ I2 = [m \in Folds |-> I2[m]] /\ W2 = [m \in Folds |-> W2[m]]
      /\ I2[n] = v /\ W2[n] = d
      /\ \A m \in Folds : m # n => I2[m] = I[m] /\ W2[m] = W[m]
  BY <1>1 DEF Sound
<1> HIDE DEF I2, W2
<1>3. \A m \in Folds : IF I2[m] = Invalid THEN W2[m] = <<>> ELSE W2[m] \in Datas /\ Kept(D, I2[m], m, W2[m])
  <2> SUFFICES ASSUME NEW m \in Folds
               PROVE  IF I2[m] = Invalid THEN W2[m] = <<>> ELSE W2[m] \in Datas /\ Kept(D, I2[m], m, W2[m])
    OBVIOUS
  <2>1. CASE m = n
    BY <1>2, <2>1 DEF Called
  <2>2. CASE m # n /\ I[m] = Invalid
    BY <1>2, <2>2 DEF Sound
  <2>3. CASE m # n /\ I[m] # Invalid
    <3>1. m \in Present(I)
      BY <2>3 DEF Present
    <3>2. Kept(D, I[m], m, W[m]) /\ W[m] \in Datas
      BY <2>3, <3>1, OthersStay, SoundKept
    <3> QED  BY <1>2, <2>3, <3>2
  <2> QED  BY <2>1, <2>2, <2>3
<1>4. \A l, m \in Present(I2) : l # m => CellsOf(D, I2[l]) \cap CellsOf(D, I2[m]) = {}
  <2> SUFFICES ASSUME NEW l \in Present(I2), NEW m \in Present(I2), l # m
               PROVE  CellsOf(D, I2[l]) \cap CellsOf(D, I2[m]) = {}
    OBVIOUS
  <2>1. CASE l # n /\ m # n
    <3>1. l \in Present(I) /\ m \in Present(I) /\ I2[l] = I[l] /\ I2[m] = I[m]
      BY <1>2, <2>1 DEF Present
    <3>2. CellsOf(D, I[l]) = CellsOf(C, I[l]) /\ CellsOf(D, I[m]) = CellsOf(C, I[m])
      BY <2>1, <3>1, OthersStay
    <3> QED  BY <3>1, <3>2 DEF Sound
  <2>2. CASE l = n
    <3>1. m \in Present(I) /\ I2[m] = I[m] /\ I2[l] = v /\ v # Invalid /\ m # n
      BY <1>2, <2>2 DEF Present
    <3> QED  BY <3>1, OthersStay
  <2>3. CASE m = n
    <3>1. l \in Present(I) /\ I2[l] = I[l] /\ I2[m] = v /\ v # Invalid /\ l # n
      BY <1>2, <2>3 DEF Present
    <3> QED  BY <3>1, OthersStay
  <2> QED  BY <2>1, <2>2, <2>3
<1>5. {I2[m] : m \in Present(I2)} = {I[m] : m \in Present(I) \ {n}} \cup (IF v = Invalid THEN {} ELSE {v})
  BY <1>1, <1>2 DEF Present
<1>6. Sound(D, J, I2, W2)
  BY <1>1, <1>2, <1>3, <1>4, <1>5 DEF Sound
<1> QED  BY <1>6 DEF I2, W2

\* And nothing is left behind but the old list and big data.
LEMMA CallLeaks ==
  ASSUME NEW C, NEW K, NEW I, NEW W, Sound(C, K, I, W), Leaks(C, K, I),
         NEW D, NEW J, NEW n, NEW v, NEW d, Called(C, I, D, n, v, d),
         \A c \in Refs : C[c] = Free /\ D[c] # Free => c = J.list \/ (v # Invalid /\ c \in CellsOf(D, v)),
         I[n] # Invalid => \A c \in CellsOf(C, I[n]) : D[c] # Free => D[c].kind \in {"db", "blocklist", "block"}
  PROVE  Leaks(D, J, [I EXCEPT ![n] = v])
<1> DEFINE I2 == [I EXCEPT ![n] = v]
<1>1. I2[n] = v /\ \A m \in Folds : m # n => I2[m] = I[m]
  BY DEF Sound, Called
<1>2. n \in Folds
  BY DEF Called
<1> HIDE DEF I2
<1> SUFFICES ASSUME NEW c \in Refs, D[c] # Free, c # J.list,
                    \A m \in Present(I2) : c \notin CellsOf(D, I2[m])
             PROVE  D[c].kind \in {"values", "db", "blocklist", "block"}
  BY DEF Leaks, I2
<1>3. v # Invalid => c \notin CellsOf(D, v)
  BY <1>1, <1>2 DEF Present
<1>4. C[c] # Free
  BY <1>3
<1>5. D[c] = C[c]
  BY <1>4 DEF Called
<1>6. ASSUME NEW m \in Present(I), m # n PROVE c \notin CellsOf(C, I[m])
  <2>1. m \in Present(I2) /\ I2[m] = I[m]
    BY <1>1, <1>6 DEF Present
  <2> QED  BY <1>6, <2>1, OthersStay
<1>7. CASE I[n] # Invalid /\ c \in CellsOf(C, I[n])
  BY <1>7
<1>8. CASE c = K.list
  <2>1. PICK L : Describes(C, K, L)
    BY DEF Sound
  <2>2. L # <<>>
    BY <1>8, <2>1, ValueAssumption DEF Describes, Invalid
  <2>3. C[c] = ValueList(L)
    BY <1>8, <2>1, <2>2 DEF Describes
  <2> QED  BY <1>5, <2>3 DEF ValueList
<1>9. CASE c # K.list /\ ~(I[n] # Invalid /\ c \in CellsOf(C, I[n]))
  <2>1. \A m \in Present(I) : c \notin CellsOf(C, I[m])
    BY <1>6, <1>9 DEF Present
  <2> QED  BY <1>4, <1>5, <1>9, <2>1 DEF Leaks
<1> QED  BY <1>7, <1>8, <1>9

-----------------------------------------------------------------------------
\* The inductive invariant.
ValueInv ==
  /\ Sound(cells, key, index, wanted)
  /\ failed \in BOOLEAN
  /\ ~failed => Leaks(cells, key, index)

\* The end of a call that failed.
LEMMA EndFails ==
  ASSUME ValueInv, NEW s, NEW n, NEW d, NEW vk, EndCall(s, n, d, vk),
         ~s.ok, State(s), s.key = key, Extends(s.cells, cells)
  PROVE  ValueInv'
<1>1. cells' = s.cells /\ key' = key /\ wanted' = wanted /\ index' = index /\ failed' = TRUE
  BY DEF EndCall, ValueInv
<1>2. Sound(s.cells, key, index, wanted)
  BY SoundGrows DEF ValueInv, State
<1> QED  BY <1>1, <1>2 DEF ValueInv

\* The end of a call that succeeded.
LEMMA EndRight ==
  ASSUME ValueInv, NEW s, NEW n, NEW d, NEW vk, EndCall(s, n, d, vk),
         s.ok, Called(cells, index, s.cells, n, vk, d),
         NEW L, Describes(s.cells, s.key, L),
         Lists(L, {index[m] : m \in Present(index) \ {n}} \cup (IF vk = Invalid THEN {} ELSE {vk})),
         \A c \in Refs : cells[c] = Free /\ s.cells[c] # Free =>
           c = s.key.list \/ (vk # Invalid /\ c \in CellsOf(s.cells, vk)),
         index[n] # Invalid =>
           \A c \in CellsOf(cells, index[n]) : s.cells[c] # Free => s.cells[c].kind \in {"db", "blocklist", "block"}
  PROVE  ValueInv'
<1>1. cells' = s.cells /\ key' = s.key /\ wanted' = [wanted EXCEPT ![n] = d]
      /\ index' = [index EXCEPT ![n] = vk] /\ failed' = failed
  BY DEF EndCall, ValueInv
<1>2. Sound(cells, key, index, wanted)
  BY DEF ValueInv
<1>3. Sound(s.cells, s.key, [index EXCEPT ![n] = vk], [wanted EXCEPT ![n] = d])
  BY <1>2, CallSound
<1>4. ~failed => Leaks(s.cells, s.key, [index EXCEPT ![n] = vk])
  BY <1>2, CallLeaks DEF ValueInv
<1> QED  BY <1>1, <1>3, <1>4 DEF ValueInv

\* The beginning of a call.
LEMMA BeginState ==
  ASSUME ValueInv, NEW left \in Budgets
  PROVE  State(Begin(left)) /\ Begin(left).cells = cells /\ Begin(left).key = key /\ Begin(left).ok
BY ValueAssumption DEF ValueInv, Sound, State, Begin

\* What an upsert has after its list is written: the new value and the list, all in cells
\* that were free.
LEMMA NewListGives ==
  ASSUME ValueInv, NEW name \in Names, NEW d \in Datas, NEW left \in Budgets, NEW M \in Seq(Refs),
         NEW v, v = AllocateVK(Begin(left), name, d), v.ok,
         NEW t, t = WriteList(v, M)
  PROVE  /\ State(t) /\ Extends(t.cells, cells)
         /\ ~t.ok => t.key = key
         /\ t.ok => /\ Describes(t.cells, t.key, M) /\ (M # <<>> => cells[t.key.list] = Free)
                    /\ Kept(t.cells, v.ref, Folded(name), d)
                    /\ \A c \in CellsOf(t.cells, v.ref) : cells[c] = Free
                    /\ \A c \in Refs : cells[c] = Free /\ t.cells[c] # Free =>
                         c = t.key.list \/ c \in CellsOf(t.cells, v.ref)
<1>1. State(Begin(left)) /\ Begin(left).cells = cells /\ Begin(left).key = key
  BY BeginState
<1>2. /\ State(v) /\ v.key = key /\ Extends(v.cells, cells)
      /\ Kept(v.cells, v.ref, Folded(name), d)
      /\ \A c \in CellsOf(v.cells, v.ref) : cells[c] = Free
      /\ \A c \in Refs \ CellsOf(v.cells, v.ref) : v.cells[c] = cells[c]
  BY <1>1, VKGives
<1>3. /\ State(t) /\ Extends(t.cells, v.cells)
      /\ ~t.ok => t.key = v.key
      /\ t.ok => /\ Describes(t.cells, t.key, M)
                 /\ \A c \in Refs : IF c = t.key.list THEN v.cells[c] = Free ELSE t.cells[c] = v.cells[c]
  BY <1>2, ListGives
<1>4. Extends(t.cells, cells)
  BY <1>2, <1>3 DEF Extends
<1>5. \A c \in CellsOf(v.cells, v.ref) : t.cells[c] = v.cells[c]
  <2>1. \A c \in CellsOf(v.cells, v.ref) : c \in Refs /\ v.cells[c] # Free
    BY <1>2, KeptNotFree
  <2> QED  BY <1>3, <2>1 DEF Extends
<1>6. Kept(t.cells, v.ref, Folded(name), d) /\ CellsOf(t.cells, v.ref) = CellsOf(v.cells, v.ref)
  <2> DEFINE C == v.cells
             D == t.cells
             r == v.ref
             n == Folded(name)
  <2>1. Kept(C, r, n, d) /\ \A c \in CellsOf(C, r) : D[c] = C[c]
    BY <1>2, <1>5
  <2> HIDE DEF C, D, r, n
  <2>2. Kept(D, r, n, d) /\ CellsOf(D, r) = CellsOf(C, r)
    BY <2>1, KeptStays
  <2> QED  BY <2>2 DEF C, D, r, n
<1>7. t.ok => (M # <<>> => cells[t.key.list] = Free)
  <2> SUFFICES ASSUME t.ok, M # <<>> PROVE cells[t.key.list] = Free
    OBVIOUS
  <2>1. t.key.list \in Refs
    BY <1>3 DEF Describes
  <2>2. v.cells[t.key.list] = Free
    BY <1>3, <2>1
  <2> QED  BY <1>2, <2>1, <2>2 DEF Extends
<1>8. ASSUME t.ok, NEW c \in Refs, cells[c] = Free, t.cells[c] # Free
      PROVE  c = t.key.list \/ c \in CellsOf(t.cells, v.ref)
  BY <1>2, <1>3, <1>6, <1>8
<1>9. t.ok => /\ Describes(t.cells, t.key, M) /\ (M # <<>> => cells[t.key.list] = Free)
              /\ Kept(t.cells, v.ref, Folded(name), d)
              /\ \A c \in CellsOf(t.cells, v.ref) : cells[c] = Free
              /\ \A c \in Refs : cells[c] = Free /\ t.cells[c] # Free =>
                   c = t.key.list \/ c \in CellsOf(t.cells, v.ref)
  BY <1>2, <1>3, <1>6, <1>7, <1>8
<1>10. ~t.ok => t.key = key
  BY <1>2, <1>3
<1> QED  BY <1>3, <1>4, <1>9, <1>10

\* An upsert of a new name.
LEMMA CreateRight ==
  ASSUME ValueInv, NEW name \in Names, NEW d \in Datas, NEW left \in Budgets, CreateValue(name, d, left)
  PROVE  ValueInv'
<1> DEFINE n == Folded(name)
           v == AllocateVK(Begin(left), name, d)
           t == IF v.ok THEN AddToValueList(v, v.ref) ELSE v
<1>1. index[n] = Invalid /\ EndCall(t, n, d, v.ref) /\ n \in Folds
  BY DEF CreateValue, Folds
<1>2. State(Begin(left)) /\ Begin(left).cells = cells /\ Begin(left).key = key
  BY BeginState
<1>3. State(v) /\ v.key = key /\ Extends(v.cells, cells)
      /\ (v.ok => v.ref \in Refs /\ v.ref \in CellsOf(v.cells, v.ref) /\ cells[v.ref] = Free)
  <2>1. /\ State(v) /\ v.key = key /\ Extends(v.cells, cells)
        /\ v.ok => /\ Kept(v.cells, v.ref, n, d)
                   /\ \A c \in CellsOf(v.cells, v.ref) : cells[c] = Free
    BY <1>2, VKGives
  <2>2. v.ok => v.ref \in Refs /\ v.ref \in CellsOf(v.cells, v.ref)
    BY <2>1, KeptNotFree DEF Kept
  <2> QED  BY <2>1, <2>2
<1>4. CASE ~v.ok
  BY <1>1, <1>3, <1>4, EndFails
<1>5. CASE v.ok
  <2>1. PICK L : Describes(cells, key, L) /\ Lists(L, {index[m] : m \in Present(index)})
    BY DEF ValueInv, Sound
  <2>2. ValueRefs(v) = L
    BY <1>3, <2>1, DescribesGrows, DescribedRefs
  <2> DEFINE M == Append(L, v.ref)
  <2>3. t = WriteList(v, M)
    BY <1>5, <2>2 DEF AddToValueList
  <2>4. v.ref \notin {index[m] : m \in Present(index)}
    BY <1>3, <1>5, SoundKept DEF ValueInv
  <2>5. Lists(M, {index[m] : m \in Present(index)} \cup {v.ref})
    BY <1>3, <1>5, <2>1, <2>4, ListsAppend
  <2>6. M \in Seq(Refs)
    BY <2>5 DEF Lists
  <2> HIDE DEF M, v, t
  <2>7. /\ State(t) /\ Extends(t.cells, cells)
        /\ ~t.ok => t.key = key
        /\ t.ok => /\ Describes(t.cells, t.key, M) /\ (M # <<>> => cells[t.key.list] = Free)
                   /\ Kept(t.cells, v.ref, n, d)
                   /\ \A c \in CellsOf(t.cells, v.ref) : cells[c] = Free
                   /\ \A c \in Refs : cells[c] = Free /\ t.cells[c] # Free =>
                        c = t.key.list \/ c \in CellsOf(t.cells, v.ref)
    BY <1>5, <2>3, <2>6, NewListGives DEF v
  <2>8. CASE ~t.ok
    BY <1>1, <2>7, <2>8, EndFails
  <2>9. CASE t.ok
    <3>1. v.ref # Invalid
      BY <1>3, <1>5, ValueAssumption DEF Invalid
    <3>2. Called(cells, index, t.cells, n, v.ref, d)
      BY <1>1, <2>7, <2>9, <3>1 DEF Called, Extends, State
    <3>3. Present(index) \ {n} = Present(index)
      BY <1>1 DEF Present
    <3>4. Lists(M, {index[m] : m \in Present(index) \ {n}} \cup (IF v.ref = Invalid THEN {} ELSE {v.ref}))
      BY <2>5, <3>1, <3>3
    <3> QED  BY <1>1, <2>7, <2>9, <3>1, <3>2, <3>4, EndRight
  <2> QED  BY <2>8, <2>9
<1> QED  BY <1>4, <1>5

\* Two names never lead to the same VK.
LEMMA WithoutOne ==
  ASSUME ValueInv, NEW n \in Present(index)
  PROVE  {index[m] : m \in Present(index)} \ {index[n]} = {index[m] : m \in Present(index) \ {n}}
<1>1. Sound(cells, key, index, wanted)
  BY DEF ValueInv
<1>2. ASSUME NEW m \in Present(index), m # n PROVE index[m] # index[n]
  <2>1. index[m] \in CellsOf(cells, index[m]) /\ index[n] \in CellsOf(cells, index[n])
    BY <1>1, SoundKept
  <2> QED  BY <1>1, <1>2, <2>1 DEF Sound
<1> QED  BY <1>2

\* What FreeAll gives.
LEMMA FreeGives ==
  ASSUME NEW s, State(s), NEW R
  PROVE  LET t == FreeAll(s, R)
         IN /\ State(t) /\ t.key = s.key /\ t.ok = s.ok
            /\ t.cells = [c \in Refs |-> IF c \in R THEN Free ELSE s.cells[c]]
<1> DEFINE t == FreeAll(s, R)
           D == [c \in Refs |-> IF c \in R THEN Free ELSE s.cells[c]]
<1>1. t = [s EXCEPT !.cells = D]
  BY DEF FreeAll
<1>2. D = [c \in Refs |-> D[c]]
  OBVIOUS
<1> HIDE DEF D
<1>3. t = [cells |-> D, key |-> s.key, left |-> s.left, ref |-> s.ref, ok |-> s.ok]
  BY <1>1 DEF State
<1>4. State(t) /\ t.key = s.key /\ t.ok = s.ok /\ t.cells = D
  BY <1>2, <1>3 DEF State
<1> QED  BY <1>4 DEF D

\* An upsert of a name that has a value: the new VK takes the place of the old one in
\* the list, and only then is the old one freed.
LEMMA UpdateRight ==
  ASSUME ValueInv, NEW name \in Names, NEW d \in Datas, NEW left \in Budgets, UpdateValue(name, d, left)
  PROVE  ValueInv'
<1> DEFINE n == Folded(name)
           old == index[n]
           v == AllocateVK(Begin(left), name, d)
           t == ReplaceInValueList(v, old, v.ref)
           u == IF t.ok THEN FreeVK(t, old) ELSE t
<1>1. old # Invalid /\ EndCall(u, n, d, v.ref) /\ n \in Folds
  BY DEF UpdateValue, Folds
<1>2. State(Begin(left)) /\ Begin(left).cells = cells /\ Begin(left).key = key
  BY BeginState
<1>3. State(v) /\ v.key = key /\ Extends(v.cells, cells)
      /\ (v.ok => v.ref \in Refs /\ v.ref \in CellsOf(v.cells, v.ref) /\ cells[v.ref] = Free)
  <2>1. /\ State(v) /\ v.key = key /\ Extends(v.cells, cells)
        /\ v.ok => /\ Kept(v.cells, v.ref, n, d)
                   /\ \A c \in CellsOf(v.cells, v.ref) : cells[c] = Free
    BY <1>2, VKGives
  <2>2. v.ok => v.ref \in Refs /\ v.ref \in CellsOf(v.cells, v.ref)
    BY <2>1, KeptNotFree DEF Kept
  <2> QED  BY <2>1, <2>2
<1>4. Sound(cells, key, index, wanted) /\ n \in Present(index)
  BY <1>1 DEF ValueInv, Present
<1>5. PICK L : Describes(cells, key, L) /\ Lists(L, {index[m] : m \in Present(index)})
  BY <1>4 DEF Sound
<1>6. ValueRefs(v) = L
  BY <1>3, <1>5, DescribesGrows, DescribedRefs
<1>7. old \in Range(L)
  BY <1>4, <1>5 DEF Lists
<1>8. CASE ~v.ok
  <2>1. t = [v EXCEPT !.ok = FALSE]
    BY <1>8 DEF ReplaceInValueList
  <2>2. t = [cells |-> v.cells, key |-> v.key, left |-> v.left, ref |-> v.ref, ok |-> FALSE]
    BY <1>3, <2>1 DEF State
  <2>3. State(t) /\ t.key = key /\ ~t.ok /\ Extends(t.cells, cells)
    BY <1>3, <2>2 DEF State
  <2>4. u = t
    BY <2>3
  <2> QED  BY <1>1, <2>3, <2>4, EndFails
<1>9. CASE v.ok
  <2> DEFINE P(l) == L[l] = old /\ \A m \in 1..(l - 1) : L[m] # old
             k == CHOOSE l \in DOMAIN L : P(l)
             M == [L EXCEPT ![k] = v.ref]
  <2>1. k \in DOMAIN L /\ L[k] = old
    <3>1. PICK l \in DOMAIN L : L[l] = old
      BY <1>7 DEF Range
    <3>2. L \in Seq(Refs) /\ \A i, j \in DOMAIN L : L[i] = L[j] => i = j
      BY <1>5 DEF Lists
    <3>3. P(l)
      BY <3>1, <3>2
    <3> QED  BY <3>1, <3>3
  <2>2. t = WriteList(v, M)
    BY <1>6, <1>7, <1>9 DEF ReplaceInValueList
  <2> HIDE DEF k
  <2>3. v.ref \notin {index[m] : m \in Present(index)}
    BY <1>3, <1>4, <1>9, SoundKept
  <2>4. Lists(M, ({index[m] : m \in Present(index)} \ {old}) \cup {v.ref})
    BY <1>3, <1>5, <1>9, <2>1, <2>3, ListsReplace
  <2>5. M \in Seq(Refs)
    BY <2>4 DEF Lists
  <2>6. v.ref # Invalid
    BY <1>3, <1>9, ValueAssumption DEF Invalid
  <2>7. Lists(M, {index[m] : m \in Present(index) \ {n}} \cup (IF v.ref = Invalid THEN {} ELSE {v.ref}))
    BY <1>4, <2>4, <2>6, WithoutOne
  <2> HIDE DEF M, v, t, u
  <2>8. /\ State(t) /\ Extends(t.cells, cells)
        /\ ~t.ok => t.key = key
        /\ t.ok => /\ Describes(t.cells, t.key, M) /\ (M # <<>> => cells[t.key.list] = Free)
                   /\ Kept(t.cells, v.ref, n, d)
                   /\ \A c \in CellsOf(t.cells, v.ref) : cells[c] = Free
                   /\ \A c \in Refs : cells[c] = Free /\ t.cells[c] # Free =>
                        c = t.key.list \/ c \in CellsOf(t.cells, v.ref)
    BY <1>9, <2>2, <2>5, NewListGives DEF v
  <2>9. CASE ~t.ok
    <3>1. u = t
      BY <2>9 DEF u
    <3> QED  BY <1>1, <2>8, <2>9, <3>1, EndFails
  <2>10. CASE t.ok
    <3> DEFINE w == wanted[n]
               F == IF cells[old].data # Invalid /\ cells[old].len <= MaxBlock THEN {cells[old].data, old} ELSE {old}
               D == u.cells
    <3>1. /\ w \in Datas /\ Kept(cells, old, n, w) /\ old \in CellsOf(cells, old)
          /\ \A c \in CellsOf(cells, old) : c \in Refs /\ cells[c] # Free
      BY <1>4, SoundKept
    <3>2. t.cells[old] = cells[old]
      BY <2>8, <3>1 DEF Extends
    <3>3. u = FreeAll(t, F)
      BY <2>10, <3>2 DEF u, FreeVK, Freed
    <3>4. cells[old].len = w.len
      BY <3>1 DEF Kept, VK
    <3>5. F \subseteq CellsOf(cells, old)
          /\ \A c \in CellsOf(cells, old) : c \notin F => cells[c].kind \in {"db", "blocklist", "block"}
      <4>0. Invalid \notin Refs /\ w.len \in Nat
        BY <3>1, ValueAssumption DEF Invalid
      <4>1. CASE w.len <= MaxInline
        <5>1. cells[old].data = Invalid /\ CellsOf(cells, old) = {old}
          BY <3>1, <4>1, KeptCells DEF Kept
        <5> QED  BY <5>1
      <4>2. CASE MaxInline < w.len /\ w.len <= MaxBlock
        <5>1. cells[old].data \in Refs /\ CellsOf(cells, old) = {old, cells[old].data}
          BY <3>1, <4>2, KeptCells DEF Kept
        <5> QED  BY <3>4, <4>0, <4>2, <5>1
      <4>3. CASE MaxBlock < w.len
        <5>1. CellsOf(cells, old) = {old} \cup BigCells(cells, cells[old].data)
          BY <3>1, <4>3, KeptCells
        <5>2. \A c \in BigCells(cells, cells[old].data) : cells[c].kind \in {"db", "blocklist", "block"}
          <6>1. BigAt(cells, cells[old].data, w)
            BY <3>1, <4>3 DEF Kept
          <6> QED  BY <6>1, BigKinds
        <5>3. F = {old}
          BY <3>4, <4>0, <4>3 DEF MaxBlock
        <5> QED  BY <5>1, <5>2, <5>3
      <4> QED  BY <4>0, <4>1, <4>2, <4>3 DEF MaxInline, MaxBlock
    <3> HIDE DEF F, w
    <3>6. /\ State(u) /\ u.key = t.key /\ u.ok
          /\ D = [c \in Refs |-> IF c \in F THEN Free ELSE t.cells[c]]
      BY <2>8, <2>10, <3>3, FreeGives
    <3>7. \A c \in CellsOf(t.cells, v.ref) : D[c] = t.cells[c]
      <4>1. \A c \in CellsOf(t.cells, v.ref) : c \in Refs /\ cells[c] = Free
        BY <2>8, <2>10, KeptNotFree
      <4> QED  BY <3>1, <3>5, <3>6, <4>1
    <3>8. Kept(D, v.ref, n, d) /\ CellsOf(D, v.ref) = CellsOf(t.cells, v.ref)
      <4> DEFINE C == t.cells
                 r == v.ref
      <4>1. Kept(C, r, n, d) /\ \A c \in CellsOf(C, r) : D[c] = C[c]
        BY <2>8, <2>10, <3>7
      <4> HIDE DEF C, D, r, n
      <4>2. Kept(D, r, n, d) /\ CellsOf(D, r) = CellsOf(C, r)
        BY <4>1, KeptStays
      <4> QED  BY <4>2 DEF C, r
    <3>9. \A c \in Refs : cells[c] # Free =>
            D[c] = cells[c] \/ (D[c] = Free /\ index[n] # Invalid /\ c \in CellsOf(cells, index[n]))
      BY <1>1, <2>8, <3>5, <3>6 DEF Extends
    <3>10. D = [c \in Refs |-> D[c]]
      BY <3>6 DEF State
    <3>11. \A c \in CellsOf(D, v.ref) : cells[c] = Free
      BY <2>8, <2>10, <3>8
    <3>12. Called(cells, index, D, n, v.ref, d)
      BY <1>1, <2>6, <3>8, <3>9, <3>10, <3>11 DEF Called
    <3>13. M # <<>> => D[t.key.list] = t.cells[t.key.list]
      <4>1. M # <<>> => t.key.list \in Refs /\ cells[t.key.list] = Free
        BY <2>8, <2>10 DEF Describes
      <4> QED  BY <3>1, <3>5, <3>6, <4>1
    <3>14. Describes(D, u.key, M)
      BY <2>8, <2>10, <3>6, <3>13, DescribesStays
    <3>15. \A c \in Refs : cells[c] = Free /\ D[c] # Free =>
             c = u.key.list \/ (v.ref # Invalid /\ c \in CellsOf(D, v.ref))
      BY <2>6, <2>8, <2>10, <3>6, <3>8
    <3>16. \A c \in CellsOf(cells, index[n]) : D[c] # Free => D[c].kind \in {"db", "blocklist", "block"}
      <4> SUFFICES ASSUME NEW c \in CellsOf(cells, old), D[c] # Free
                   PROVE  D[c].kind \in {"db", "blocklist", "block"}
        OBVIOUS
      <4>1. c \in Refs /\ c \notin F /\ cells[c] # Free
        BY <3>1, <3>6
      <4>2. D[c] = cells[c]
        BY <2>8, <3>6, <4>1 DEF Extends
      <4> QED  BY <3>5, <4>1, <4>2
    <3> QED  BY <1>1, <2>7, <3>6, <3>12, <3>14, <3>15, <3>16, EndRight
  <2> QED  BY <2>9, <2>10
<1> QED  BY <1>8, <1>9

\* What is freed with a deleted value is all that belongs to it.
LEMMA AllIsFreed ==
  ASSUME PlainData, NEW s, State(s), NEW C, NEW r, NEW n, NEW w \in Datas, Kept(C, r, n, w),
         \A c \in CellsOf(C, r) : c \in Refs /\ s.cells[c] = C[c],
         NEW t, t = IF C[r].data # Invalid /\ C[r].len > 4 THEN FreeBigDataIfNeeded(s, C[r].data) ELSE s,
         NEW u, u = Freed(t, r)
  PROVE  /\ State(u) /\ u.key = s.key /\ u.ok = s.ok
         /\ u.cells = [c \in Refs |-> IF c \in CellsOf(C, r) THEN Free ELSE s.cells[c]]
<1> DEFINE x == C[r].data
           F == CellsOf(C, r) \ {r}
           b == C[x].blocklist
<1>1. w.len \in Nat /\ Invalid \notin Refs /\ C[r].len = w.len /\ r \in CellsOf(C, r)
  <2>1. C[r].len = w.len
    BY DEF Kept, VK
  <2>2. r \in CellsOf(C, r)
    BY KeptNotFree
  <2> QED  BY <2>1, <2>2, ValueAssumption DEF Invalid
<1>2. /\ State(t) /\ t.key = s.key /\ t.ok = s.ok
      /\ \A c \in Refs : c # r => t.cells[c] = IF c \in F THEN Free ELSE s.cells[c]
  <2>1. CASE w.len <= MaxInline
    <3>1. x = Invalid /\ CellsOf(C, r) = {r}
      BY <2>1, KeptCells DEF Kept
    <3>2. t = s /\ F = {}
      BY <3>1
    <3> QED  BY <3>2
  <2>2. CASE MaxInline < w.len /\ w.len <= MaxBlock
    <3>1. x \in Refs /\ C[x] = DataCell(w)
      BY <2>2 DEF Kept
    <3>2. CellsOf(C, r) = {r, x}
      BY <2>2, KeptCells
    <3>3. s.cells[x].kind = "data" /\ s.cells[x].bytes = w
      BY <3>1, <3>2 DEF DataCell
    <3>4. w.db = Invalid
      BY DEF PlainData
    <3>5. ~LooksDB(s.cells[x])
      BY <3>3, <3>4 DEF LooksDB
    <3>6. x # Invalid /\ C[r].len > 4
      BY <1>1, <2>2, <3>1 DEF MaxInline
    <3>7. t = FreeAll(s, {x})
      BY <3>5, <3>6 DEF FreeBigDataIfNeeded, Freed
    <3>8. /\ State(t) /\ t.key = s.key /\ t.ok = s.ok
          /\ t.cells = [c \in Refs |-> IF c \in {x} THEN Free ELSE s.cells[c]]
      BY <3>7, FreeGives
    <3> QED  BY <3>2, <3>8
  <2>3. CASE MaxBlock < w.len
    <3>1. BigAt(C, x, w)
      BY <2>3 DEF Kept
    <3>2. CellsOf(C, r) = {r} \cup BigCells(C, x)
      BY <2>3, KeptCells
    <3>3. /\ x \in Refs /\ C[x].kind = "db" /\ b \in Refs /\ C[b].kind = "blocklist"
      BY <3>1, BigKinds
    <3>4. s.cells[x] = C[x] /\ s.cells[b] = C[b]
      BY <3>2 DEF BigCells
    <3>5. LooksDB(s.cells[x]) /\ DBList(s.cells[x]) = b
      BY <3>3, <3>4 DEF LooksDB, DBList
    <3>6. x # Invalid /\ C[r].len > 4
      BY <1>1, <2>3, <3>3 DEF MaxBlock
    <3>7. t = FreeAll(s, Range(C[b].refs) \cup {b, x})
      BY <3>3, <3>4, <3>5, <3>6 DEF FreeBigDataIfNeeded
    <3>8. Range(C[b].refs) \cup {b, x} = BigCells(C, x)
      BY DEF BigCells
    <3>9. /\ State(t) /\ t.key = s.key /\ t.ok = s.ok
          /\ t.cells = [c \in Refs |-> IF c \in BigCells(C, x) THEN Free ELSE s.cells[c]]
      BY <3>7, <3>8, FreeGives
    <3> QED  BY <3>2, <3>9
  <2> QED  BY <1>1, <2>1, <2>2, <2>3 DEF MaxInline, MaxBlock
<1>3. /\ State(u) /\ u.key = t.key /\ u.ok = t.ok
      /\ u.cells = [c \in Refs |-> IF c \in {r} THEN Free ELSE t.cells[c]]
  BY <1>2, FreeGives DEF Freed
<1>4. [c \in Refs |-> IF c \in {r} THEN Free ELSE t.cells[c]]
      = [c \in Refs |-> IF c \in CellsOf(C, r) THEN Free ELSE s.cells[c]]
  BY <1>1, <1>2
<1> QED  BY <1>2, <1>3, <1>4

\* A deletion: the VK leaves the list, and then its cells are freed.
LEMMA DeleteRight ==
  ASSUME PlainData, ValueInv, NEW name \in Names, NEW left \in Budgets, DeleteValue(name, left)
  PROVE  ValueInv'
<1> DEFINE n == Folded(name)
           old == index[n]
           w == wanted[n]
           a == Begin(left)
           s == RemoveFromValueList(a, old)
           t == IF cells[old].data # Invalid /\ cells[old].len > 4
                THEN FreeBigDataIfNeeded(s, cells[old].data) ELSE s
           u == IF s.ok THEN Freed(t, old) ELSE s
<1>1. old # Invalid /\ EndCall(u, Folded(cells[old].name), <<>>, Invalid) /\ n \in Folds
  BY DEF DeleteValue, Folds
<1>2. State(a) /\ a.cells = cells /\ a.key = key /\ a.ok
  BY BeginState
<1>3. Sound(cells, key, index, wanted) /\ n \in Present(index)
  BY <1>1 DEF ValueInv, Present
<1>4. /\ w \in Datas /\ Kept(cells, old, n, w) /\ old \in CellsOf(cells, old)
      /\ \A c \in CellsOf(cells, old) : c \in Refs /\ cells[c] # Free
  BY <1>3, SoundKept
<1>5. Folded(cells[old].name) = n
  BY <1>4 DEF Kept, VK
<1>6. EndCall(u, n, <<>>, Invalid)
  BY <1>1, <1>5
<1>7. PICK L : Describes(cells, key, L) /\ Lists(L, {index[m] : m \in Present(index)})
  BY <1>3 DEF Sound
<1>8. ValueRefs(a) = L
  BY <1>2, <1>7, DescribedRefs
<1> DEFINE M == RemoveRef(L, old)
<1>9. old \in {index[m] : m \in Present(index)} /\ L # <<>>
  <2>1. old \in {index[m] : m \in Present(index)}
    BY <1>3
  <2>2. old \in Range(L)
    BY <1>7, <2>1 DEF Lists
  <2>3. PICK k \in DOMAIN L : L[k] = old
    BY <2>2 DEF Range
  <2> QED  BY <2>1, <2>3
<1>10. s = WriteList(a, M)
  BY <1>8, <1>9 DEF RemoveFromValueList
<1>11. Lists(M, {index[m] : m \in Present(index)} \ {old})
  BY <1>7, <1>9, ListsRemove
<1>12. M \in Seq(Refs)
  BY <1>11 DEF Lists
<1>13. Lists(M, {index[m] : m \in Present(index) \ {n}} \cup {})
  BY <1>3, <1>11, WithoutOne
<1> HIDE DEF M, a
<1>14. /\ State(s) /\ Extends(s.cells, cells)
       /\ ~s.ok => s.key = key
       /\ s.ok => /\ Describes(s.cells, s.key, M)
                  /\ \A c \in Refs : IF c = s.key.list THEN cells[c] = Free ELSE s.cells[c] = cells[c]
  BY <1>2, <1>10, <1>12, ListGives
<1> HIDE DEF s, w
<1>15. CASE ~s.ok
  <2>1. u = s
    BY <1>15
  <2> QED  BY <1>6, <1>14, <1>15, <2>1, EndFails
<1>16. CASE s.ok
  <2>1. u = Freed(t, old)
    BY <1>16
  <2>2. \A c \in CellsOf(cells, old) : c \in Refs /\ s.cells[c] = cells[c]
    BY <1>4, <1>14 DEF Extends
  <2> DEFINE D == u.cells
  <2> HIDE DEF u
  <2>3. /\ State(u) /\ u.key = s.key /\ u.ok = s.ok
        /\ D = [c \in Refs |-> IF c \in CellsOf(cells, old) THEN Free ELSE s.cells[c]]
    BY <1>4, <1>14, <2>1, <2>2, AllIsFreed
  <2>4. Called(cells, index, D, n, Invalid, <<>>)
    <3>1. \A c \in Refs : cells[c] # Free =>
            D[c] = cells[c] \/ (D[c] = Free /\ index[n] # Invalid /\ c \in CellsOf(cells, index[n]))
      BY <1>1, <1>14, <2>3 DEF Extends
    <3>2. D = [c \in Refs |-> D[c]]
      BY <2>3 DEF State
    <3> QED  BY <1>1, <3>1, <3>2 DEF Called
  <2>5. M # <<>> => D[s.key.list] = s.cells[s.key.list]
    <3>1. M # <<>> => s.key.list \in Refs /\ cells[s.key.list] = Free
      BY <1>14, <1>16 DEF Describes
    <3> QED  BY <1>4, <2>3, <3>1
  <2>6. Describes(D, u.key, M)
    BY <1>14, <1>16, <2>3, <2>5, DescribesStays
  <2>7. \A c \in Refs : cells[c] = Free /\ D[c] # Free => c = u.key.list
    BY <1>14, <1>16, <2>3
  <2>8. \A c \in CellsOf(cells, index[n]) : D[c] = Free
    BY <1>4, <2>3
  <2> DEFINE vk == Invalid
             d == <<>>
  <2>9. /\ EndCall(u, n, d, vk) /\ Called(cells, index, D, n, vk, d)
        /\ Lists(M, {index[m] : m \in Present(index) \ {n}} \cup (IF vk = Invalid THEN {} ELSE {vk}))
    BY <1>6, <1>13, <2>4
  <2>10. \A c \in Refs : cells[c] = Free /\ D[c] # Free => c = u.key.list \/ (vk # Invalid /\ c \in CellsOf(D, vk))
    BY <2>7
  <2>11. \A c \in CellsOf(cells, index[n]) : D[c] # Free => D[c].kind \in {"db", "blocklist", "block"}
    BY <2>8
  <2>12. u.ok
    BY <1>16, <2>3
  <2> HIDE DEF vk, d, n
  <2> QED  BY <2>6, <2>9, <2>10, <2>11, <2>12, EndRight
<1> QED  BY <1>15, <1>16

-----------------------------------------------------------------------------
\* No data is the mark of a name without a value.
LEMMA DataIsNotNothing ==
  ASSUME NEW d \in Datas
  PROVE  d # <<>>
<1>1. d = [typ |-> d.typ, len |-> d.len, tag |-> d.tag, db |-> d.db]
  BY ValueAssumption
<1>2. "len" \in DOMAIN d
  BY <1>1
<1> QED  BY <1>2

\* A key without values.
LEMMA ValueInvStarts == ValueInit => ValueInv
<1> SUFFICES ASSUME ValueInit PROVE ValueInv
  OBVIOUS
<1>1. cells = [r \in Refs |-> Free] /\ key = [list |-> Invalid, count |-> 0] /\ failed = FALSE
  BY DEF ValueInit
<1>2. index = [n \in Folds |-> Invalid] /\ wanted = [n \in Folds |-> <<>>]
  BY DEF ValueInit, Nothing, Folds
<1>3. Present(index) = {}
  BY <1>2 DEF Present
<1>4. Describes(cells, key, <<>>)
  BY <1>1 DEF Describes
<1>5. Lists(<<>>, {index[n] : n \in Present(index)})
  BY <1>3 DEF Lists, Range
<1>6. Sound(cells, key, index, wanted)
  BY <1>1, <1>2, <1>3, <1>4, <1>5 DEF Sound
<1>7. Leaks(cells, key, index)
  BY <1>1 DEF Leaks
<1> QED  BY <1>1, <1>6, <1>7 DEF ValueInv

\* Every call keeps the invariant.
LEMMA ValueInvStays ==
  ASSUME PlainData, ValueInv, [ValueNext]_valueVars
  PROVE  ValueInv'
<1>1. CASE UNCHANGED valueVars
  BY <1>1 DEF valueVars, ValueInv
<1>2. ASSUME NEW name \in Names, NEW d \in Datas, KeepValue(name, d)
      PROVE  ValueInv'
  BY <1>2 DEF KeepValue, ValueInv
<1>3. ASSUME NEW name \in Names, NEW d \in Datas, CompareFails(name, d)
      PROVE  ValueInv'
  BY <1>3 DEF CompareFails, ValueInv
<1>4. ASSUME NEW name \in Names, DeleteAbsent(name)
      PROVE  ValueInv'
  BY <1>4 DEF DeleteAbsent, ValueInv
<1>5. CASE ValueNext
  BY <1>2, <1>3, <1>4, <1>5, CreateRight, UpdateRight, DeleteRight DEF ValueNext
<1> QED  BY <1>1, <1>5

\* The list that the key describes is the one that the reader takes.
LEMMA TheList ==
  ASSUME ValueInv
  PROVE  LET L == ValueRefs(Begin(0))
         IN /\ Describes(cells, key, L) /\ Lists(L, {index[n] : n \in Present(index)})
            /\ VKs = {index[n] : n \in Present(index)}
<1>1. PICK L : Describes(cells, key, L) /\ Lists(L, {index[n] : n \in Present(index)})
  BY DEF ValueInv, Sound
<1>2. Begin(0).cells = cells /\ Begin(0).key = key
  BY DEF Begin
<1>3. ValueRefs(Begin(0)) = L
  BY <1>1, <1>2, DescribedRefs
<1> QED  BY <1>1, <1>3 DEF VKs, Lists

\* The reader finds the VK that the index names.
LEMMA GetIsIndex ==
  ASSUME ValueInv, NEW n \in Folds
  PROVE  GetValue(n) = index[n]
<1> DEFINE L == ValueRefs(Begin(0))
           hits == {k \in DOMAIN L : cells[L[k]].kind = "vk" /\ Folded(cells[L[k]].name) = n}
<1>1. Lists(L, {index[m] : m \in Present(index)})
  BY TheList
<1>2. ASSUME NEW k \in DOMAIN L
      PROVE  \E m \in Present(index) : /\ L[k] = index[m] /\ cells[L[k]].kind = "vk"
                                       /\ Folded(cells[L[k]].name) = m
  <2>1. L[k] \in {index[m] : m \in Present(index)}
    BY <1>1 DEF Lists, Range
  <2>2. PICK m \in Present(index) : L[k] = index[m]
    BY <2>1
  <2>3. Kept(cells, index[m], m, wanted[m])
    BY SoundKept DEF ValueInv
  <2>4. cells[index[m]].kind = "vk" /\ Folded(cells[index[m]].name) = m
    BY <2>3 DEF Kept, VK
  <2> QED  BY <2>2, <2>4
<1>3. \A k \in hits : L[k] = index[n] /\ n \in Present(index)
  BY <1>2
<1>4. GetValue(n) = IF hits = {} THEN Invalid ELSE L[CHOOSE k \in hits : \A j \in hits : k <= j]
  BY DEF GetValue
<1>5. CASE n \in Present(index)
  <2>1. index[n] \in Range(L)
    BY <1>1, <1>5 DEF Lists
  <2>2. PICK k \in DOMAIN L : L[k] = index[n]
    BY <2>1 DEF Range
  <2>3. Kept(cells, index[n], n, wanted[n])
    BY <1>5, SoundKept DEF ValueInv
  <2>4. cells[index[n]].kind = "vk" /\ Folded(cells[index[n]].name) = n
    BY <2>3 DEF Kept, VK
  <2>5. k \in hits
    BY <2>2, <2>4
  <2>6. L \in Seq(Refs) /\ hits \subseteq Nat
    BY <1>1 DEF Lists
  <2> HIDE DEF hits, L
  <2>7. (CHOOSE i \in hits : \A j \in hits : i <= j) \in hits
    BY <2>5, <2>6, Smallest
  <2> QED  BY <1>3, <1>4, <2>5, <2>7
<1>6. CASE n \notin Present(index)
  <2>1. index[n] = Invalid
    BY <1>6 DEF Present
  <2>2. hits = {}
    BY <1>3, <1>6
  <2> QED  BY <1>4, <2>1, <2>2
<1> QED  BY <1>5, <1>6

\* The index knows the names that have a value.
LEMMA Domains ==
  ASSUME ValueInv
  PROVE  /\ DOMAIN wanted = Folds /\ DOMAIN index = Folds
         /\ \A n \in Folds : (wanted[n] = <<>>) = (index[n] = Invalid)
<1>1. Sound(cells, key, index, wanted)
  BY DEF ValueInv
<1>2. DOMAIN wanted = Folds /\ DOMAIN index = Folds
  BY <1>1 DEF Sound
<1>3. \A n \in Folds : (wanted[n] = <<>>) = (index[n] = Invalid)
  BY <1>1, DataIsNotNothing DEF Sound
<1> QED  BY <1>2, <1>3

\* The list has as many values as were set, and the key counts them.
LEMMA ListIsRight == ValueInv => ListRight
<1> SUFFICES ASSUME ValueInv PROVE ListRight
  OBVIOUS
<1> DEFINE L == ValueRefs(Begin(0))
           P == {n \in DOMAIN wanted : wanted[n] # <<>>}
<1>1. Describes(cells, key, L) /\ Lists(L, VKs) /\ VKs = {index[n] : n \in Present(index)}
  BY TheList
<1>2. \A n \in DOMAIN wanted : (wanted[n] = <<>>) = (GetValue(n) = Invalid)
  BY Domains, GetIsIndex
<1>3. P = Present(index)
  BY Domains DEF Present
<1> HIDE DEF L
<1>4. Len(L) \in Nat /\ ExistsBijection(1..Len(L), VKs)
  <2>1. L \in Seq(Refs) /\ Range(L) = VKs /\ \A k, l \in DOMAIN L : L[k] = L[l] => k = l
    BY <1>1 DEF Lists
  <2>2. Len(L) \in Nat /\ DOMAIN L = 1..Len(L)
    BY <2>1
  <2>3. L \in [1..Len(L) -> VKs]
    BY <2>1, <2>2 DEF Range
  <2>4. \A v \in VKs : \E k \in 1..Len(L) : L[k] = v
    BY <2>1, <2>2 DEF Range
  <2>5. L \in Bijection(1..Len(L), VKs)
    BY <2>1, <2>2, <2>3, <2>4 DEF Bijection, Injection, Surjection, IsInjective
  <2> QED  BY <2>2, <2>5 DEF ExistsBijection
<1>5. IsFiniteSet(VKs) /\ Cardinality(VKs) = Len(L)
  BY <1>4, FS_NatBijection, FS_CountingElements
<1>6. ExistsBijection(P, VKs)
  <2> DEFINE f == [n \in P |-> index[n]]
  <2>1. f \in [P -> VKs] /\ \A v \in VKs : \E n \in P : f[n] = v
    BY <1>1, <1>3
  <2>2. ASSUME NEW n \in P, NEW m \in P, f[n] = f[m] PROVE n = m
    <3>1. index[n] \in CellsOf(cells, index[n]) /\ index[m] \in CellsOf(cells, index[m]) /\ index[n] = index[m]
      BY <1>3, <2>2, SoundKept DEF ValueInv
    <3> QED  BY <1>3, <3>1 DEF ValueInv, Sound
  <2>3. f \in Bijection(P, VKs)
    BY <2>1, <2>2 DEF Bijection, Injection, Surjection, IsInjective
  <2> QED  BY <2>3 DEF ExistsBijection
<1>7. Cardinality(VKs) = Cardinality(P)
  <2>1. ExistsBijection(VKs, P)
    BY <1>6, Fun_ExistsBijSymmetric
  <2> QED  BY <1>5, <2>1, FS_Bijection
<1>8. key.count = Cardinality(VKs)
  BY <1>1, <1>5 DEF Describes
<1> QED  BY <1>2, <1>7, <1>8 DEF ListRight

\* Data in the VK or in a cell is read as it was set.
LEMMA SmallIsBack == PlainData /\ ValueInv => SmallBack
<1> SUFFICES ASSUME PlainData, ValueInv, NEW n \in DOMAIN wanted, wanted[n] # <<>>, wanted[n].len <= MaxBlock
             PROVE  ReadValue(GetValue(n)) = AsStored(wanted[n])
  BY DEF SmallBack
<1> DEFINE d == wanted[n]
           r == index[n]
<1>1. n \in Folds /\ GetValue(n) = r /\ n \in Present(index)
  BY Domains, GetIsIndex DEF Present
<1>2. d \in Datas /\ Kept(cells, r, n, d)
  BY <1>1, SoundKept DEF ValueInv
<1>3. d.len \in Nat /\ AsStored(d) = Whole(d)
  BY <1>2, ValueAssumption DEF AsStored
<1>4. cells[r].len = d.len /\ (d.len <= MaxInline => cells[r].inline = d)
  BY <1>2 DEF Kept, VK
<1>5. CASE d.len <= MaxInline
  BY <1>1, <1>3, <1>4, <1>5 DEF ReadValue
<1>6. CASE ~(d.len <= MaxInline)
  <2>1. cells[cells[r].data] = DataCell(d)
    BY <1>2, <1>3, <1>6 DEF Kept, MaxInline
  <2>2. cells[cells[r].data].kind = "data" /\ cells[cells[r].data].bytes = d
    BY <2>1 DEF DataCell
  <2>3. d.db = Invalid
    BY <1>2 DEF PlainData
  <2>4. ~LooksDB(cells[cells[r].data])
    BY <2>2, <2>3 DEF LooksDB
  <2> QED  BY <1>1, <1>3, <1>4, <1>6, <2>2, <2>4 DEF ReadValue
<1> QED  BY <1>5, <1>6

\* What the invariant says to a reader,
LEMMA AllIsRight == PlainData /\ ValueInv => ValuesRight
<1> SUFFICES ASSUME PlainData, ValueInv PROVE ValuesRight
  OBVIOUS
<1>1. IndexAgrees
  BY Domains, GetIsIndex DEF IndexAgrees
<1> QED  BY <1>1, ListIsRight, SmallIsBack DEF ValuesRight

\* and of the cells.
LEMMA AllIsWhole == ValueInv => ValuesWhole
<1> SUFFICES ASSUME ValueInv PROVE ValuesWhole
  OBVIOUS
<1>1. VKs = {index[n] : n \in Present(index)} /\ Sound(cells, key, index, wanted)
  BY TheList DEF ValueInv
<1>2. \A r \in VKs : cells[r].kind = "vk" /\ \A c \in CellsOf(cells, r) : cells[c] # Free
  BY <1>1, SoundKept, KeptNotFree
<1>3. \A r, q \in VKs : r # q => CellsOf(cells, r) \cap CellsOf(cells, q) = {}
  BY <1>1 DEF Sound
<1>4. LeaksKnown
  BY <1>1 DEF LeaksKnown, ValueInv, Leaks
<1> QED  BY <1>2, <1>3, <1>4 DEF ValuesWhole, NothingDangles

\* After any sequence of upserts and deletions, also of ones that failed half way for want of
\* space: the value list has one VK for each name that was set, in whatever case, and the key
\* counts them; the index leads to that VK; and data that is not big is read back as it was
\* set (UpsertValue, DeleteValue, GetValue).
THEOREM ValuesAreRight == ASSUME PlainData PROVE ValueSpec => []ValuesRight
<1>1. ValueInit => ValueInv
  BY ValueInvStarts
<1>2. ValueInv /\ [ValueNext]_valueVars => ValueInv'
  BY ValueInvStays
<1>3. ValueInv => ValuesRight
  BY AllIsRight
<1> QED  BY <1>1, <1>2, <1>3, PTL DEF ValueSpec

\* No cell of a value is free, and none is another value's, so that no allocation can write
\* over a value; while no call has failed, what is left behind is old value lists and the big
\* data of replaced values (freeVK, freeBigDataIfNeeded).
THEOREM ValuesAreWhole == ASSUME PlainData PROVE ValueSpec => []ValuesWhole
<1>1. ValueInit => ValueInv
  BY ValueInvStarts
<1>2. ValueInv /\ [ValueNext]_valueVars => ValueInv'
  BY ValueInvStays
<1>3. ValueInv => ValuesWhole
  BY AllIsWhole
<1> QED  BY <1>1, <1>2, <1>3, PTL DEF ValueSpec
=============================================================================
