----------------------------- MODULE FastAlloc -----------------------------
(***************************************************************************)
(* The cell allocator of hivekit, hive/alloc/fastalloc.go: segregated free *)
(* lists, splitting, coalescing through an end-offset index, and growth of *)
(* the hive by whole HBINs.                                                *)
(*                                                                         *)
(* The unit of offsets and sizes is 8 bytes: Align8I32 makes every request *)
(* a multiple of it and every cell size in a REGF file is one, so minCell- *)
(* Size is 1, a remainder is either 0 or a legal cell, and the REGF header *)
(* is PageSize units long.  "word" is the int32 at each offset of the      *)
(* mapping that starts a cell (negative: allocated); an offset inside a    *)
(* cell holds payload, which is the clients', and 0 stands for it.  The    *)
(* signature at the start of an HBIN reads as a large positive number.     *)
(*                                                                         *)
(* The per-class heaps and the list of large blocks are one set, "free";   *)
(* a cell's size says where it is.  byOff follows from it.  A heap's tie   *)
(* order and the order of the large list are left open.  startIdx and      *)
(* maxFree are written and never read, the statistics are only printed.    *)
(***************************************************************************)
EXTENDS Integers, Sequences, FiniteSets

CONSTANTS
  PageSize,      \* format.HBINAlignment = format.HeaderSize
  HbinHeader,    \* format.HBINHeaderSize
  MaxHive,       \* maxHiveSize: the file never grows beyond it
  Boundaries,    \* sizeClassTable.boundaries; larger cells are "large"
  FitTolerance,  \* fitTolerance of allocFromSizeClass
  GrowFactor,    \* the factor 4 of Grow
  Needs,         \* the request sizes clients use
  InitPages,     \* pages of the first HBIN
  RootSize       \* size of the cell the first HBIN starts with

NumClasses == Len(Boundaries)

ASSUME AllocAssumption ==
  /\ PageSize \in Nat /\ HbinHeader \in Nat \ {0} /\ HbinHeader < PageSize
  /\ MaxHive \in Nat
  /\ Boundaries \in Seq(Nat)
  /\ FitTolerance \in Nat
  /\ GrowFactor \in Nat \ {0}
  /\ Needs \subseteq Nat \ {0}
  /\ InitPages \in Nat \ {0} /\ PageSize + InitPages * PageSize <= MaxHive
  /\ RootSize \in Nat \ {0} /\ HbinHeader + RootSize < InitPages * PageSize

Offset == 0..MaxHive

VARIABLES
  fileEnd,   \* len(h.Bytes())
  dataSize,  \* the data size field of the REGF header
  word,      \* the cell headers in the mapping, 0 inside a cell
  free,      \* freeLists and largeFree: records [off, size]
  endIdx,    \* endIdx: end offset -> offset of the free cell, 0 if absent
  bins,      \* bins: records [start, end]
  live,      \* the cells clients own: records [off, size]
  marked,    \* the offsets the last call handed to DirtyTracker.Add
  res        \* what the last call returned

heap == <<word, free, endIdx>>
vars == <<fileEnd, dataSize, word, free, endIdx, bins, live, marked, res>>

Cell(o, s) == [off |-> o, size |-> s]
End(c) == c.off + c.size

(***************************************************************************)
(* Free lists.                                                             *)
(***************************************************************************)
\* getSizeClass, tabulated: the first class whose boundary holds the size,
\* or one past the last class.  (The search itself is in AllocLookup.)
SizeClassOf ==
  [s \in 0..MaxHive |->
     CHOOSE k \in 1..(NumClasses + 1) :
       /\ k <= NumClasses => s <= Boundaries[k]
       /\ \A j \in 1..NumClasses : j < k => Boundaries[j] < s]

Large(s) == SizeClassOf[s] > NumClasses
\* Every request is of a size that has a class.
Classed == \A n \in Needs : \E k \in 1..NumClasses : n <= Boundaries[k]
SameClass(s, t) == SizeClassOf[s] = SizeClassOf[t] /\ ~Large(s)

\* insertFreeCell ignores a cell that is out of bounds.
InBounds(c, end) == c.off >= PageSize + HbinHeader /\ End(c) <= end
InsertCell(F, c, end) == IF InBounds(c, end) THEN F \cup {c} ELSE F
InsertIdx(E, c, end) == IF InBounds(c, end) THEN [E EXCEPT ![End(c)] = c.off] ELSE E

\* removeFreeCell looks the offset up among the cells of that kind; if it is
\* not there nothing changes.
Listed(F, c) == {d \in F : d.off = c.off /\ (Large(d.size) <=> Large(c.size))}
\* (mutant) the cell is looked up and left on its list.
RemoveCellKeeps(F, c) == F
RemoveCell(F, c) == F \ Listed(F, c)
RemoveIdx(E, F, c) == IF Listed(F, c) # {} THEN [E EXCEPT ![End(c)] = 0] ELSE E

(***************************************************************************)
(* allocFromSizeClass over the classes from the request's class up, then   *)
(* allocFromLarge: the cells a request of size n may be given.             *)
(***************************************************************************)
HeapFits(F, n) == {c \in F : ~Large(c.size) /\ c.size >= n}

\* The fitting cells of the lowest class that has one.
FirstClass(F, n) ==
  {c \in HeapFits(F, n) : \A d \in HeapFits(F, n) : SizeClassOf[c.size] <= SizeClassOf[d.size]}

\* The heap's minimum when it fits; when it does not, a scan of the class
\* takes the first cell within the tolerance, else the smallest that fits.
HeapChoice(F, n) ==
  {c \in FirstClass(F, n) :
     \/ \A d \in FirstClass(F, n) : c.size <= d.size
     \/ /\ \E d \in F : SameClass(c.size, d.size) /\ d.size < n
        /\ c.size <= n + FitTolerance}

LargeChoice(F, n) == {c \in F : Large(c.size) /\ c.size >= n}

Choice(F, n) == IF HeapFits(F, n) # {} THEN HeapChoice(F, n) ELSE LargeChoice(F, n)

\* Taking cell c off its list; allocFromLarge leaves the end index alone.
TakeIdx(E, c) == IF Large(c.size) THEN E ELSE [E EXCEPT ![End(c)] = 0]

(***************************************************************************)
(* Grow: the size of the HBIN for a request, and growByHBINSize.           *)
(***************************************************************************)
AlignHBIN(x) == x + ((-x) % PageSize)
GrowSize(n) == AlignHBIN(GrowFactor * n + HbinHeader)

HbinSignature == MaxHive + 1

Master(size) == Cell(fileEnd + HbinHeader, size - HbinHeader)

\* Hive.Append, whose system calls succeed: the new bytes are zeros.
GrowFile(size) == fileEnd' = fileEnd + size

\* The file, the bins and the header after an HBIN of that size is appended.
AppendHBIN(size) ==
  /\ GrowFile(size)
  /\ bins' = bins \cup {[start |-> fileEnd, end |-> fileEnd + size]}
  /\ dataSize' = dataSize + size

\* The headers in the new HBIN: its signature and the master free cell.
NewHbinWords(size) ==
  [word EXCEPT ![fileEnd] = HbinSignature, ![Master(size).off] = Master(size).size]

NewHbinMarks(size) == 0..(PageSize - 1) \cup fileEnd..(fileEnd + size - 1)

(***************************************************************************)
(* The end of Alloc: cell c is marked allocated, a remainder is split off. *)
(* F, W, E are the free cells, headers and end index found so far.         *)
(***************************************************************************)

Place(c, n, F, W, E, end) ==
  LET tail == Cell(c.off + n, c.size - n)
      Idx == TakeIdx(E, c)
  IN /\ live' = live \cup {Cell(c.off, n)}
     /\ IF c.size > n
          THEN /\ word' = [W EXCEPT ![c.off] = -n, ![tail.off] = tail.size]
               /\ free' = InsertCell(F \ {c}, tail, end)
               /\ endIdx' = InsertIdx(Idx, tail, end)
          ELSE /\ word' = [W EXCEPT ![c.off] = -n]
               /\ free' = F \ {c}
               /\ endIdx' = Idx

\* (mutant) only the allocated cell is marked dirty.
PlaceMarksHead(c, n) == {c.off}
PlaceMarks(c, n) == {c.off} \cup (IF c.size > n THEN {c.off + n} ELSE {})

\* Alloc when a free cell fits.  ErrBadRef if the cell lies beyond the file.
AllocFast(n) ==
  \E c \in Choice(free, n) :
    /\ IF End(c) > fileEnd
         THEN /\ res' = "badref"
              /\ free' = free \ {c} /\ endIdx' = TakeIdx(endIdx, c)
              /\ UNCHANGED <<word, live>>
              /\ marked' = {}
         ELSE /\ res' = "ok"
              /\ Place(c, n, free, word, endIdx, fileEnd)
              /\ marked' = PlaceMarks(c, n)
    /\ UNCHANGED <<fileEnd, dataSize, bins>>

\* Alloc when none fits: Grow, then the same search again.
AllocGrow(n) ==
  LET size == GrowSize(n)
      F == InsertCell(free, Master(size), fileEnd + size)
      W == NewHbinWords(size)
      E == InsertIdx(endIdx, Master(size), fileEnd + size)
  IN /\ Choice(free, n) = {}
     /\ fileEnd + size <= MaxHive
     /\ AppendHBIN(size)
     /\ IF Choice(F, n) = {}
          THEN /\ res' = "nospace"
               /\ free' = F /\ word' = W /\ endIdx' = E
               /\ live' = live
               /\ marked' = NewHbinMarks(size)
          ELSE \E c \in Choice(F, n) :
               /\ res' = "ok"
               /\ Place(c, n, F, W, E, fileEnd + size)
               /\ marked' = NewHbinMarks(size) \cup PlaceMarks(c, n)

\* Alloc when none fits and Grow fails: the 2 GB limit, or Append's error.
AllocFails(n) ==
  /\ Choice(free, n) = {}
  /\ res' = IF fileEnd + GrowSize(n) > MaxHive THEN "limit" ELSE "growfail"
  /\ marked' = {}
  /\ UNCHANGED <<fileEnd, dataSize, heap, bins, live>>

Alloc(n) == AllocFast(n) \/ AllocGrow(n) \/ AllocFails(n)

(***************************************************************************)
(* Free: the cell becomes free, merges with a free successor in its HBIN,  *)
(* then with the free cell the end index names, and is inserted.           *)
(***************************************************************************)
\* findHBINBounds: the bin that holds an offset, found by bisection.
HbinOf(o) == {b \in bins : b.start <= o /\ o < b.end}
HbinEnd(o) == (CHOOSE b \in HbinOf(o) : TRUE).end

Abs(x) == IF x < 0 THEN -x ELSE x

MergesForward(o, next) == HbinOf(o) # {} /\ next < HbinEnd(o) /\ next < fileEnd /\ word[next] > 0

Free(a) ==
  LET o == a.off
      sz == Abs(word[o])
      next == o + sz
      fwd == MergesForward(o, next)
      succ == Cell(next, word[next])
      F1 == IF fwd THEN RemoveCell(free, succ) ELSE free
      E1 == IF fwd THEN RemoveIdx(endIdx, free, succ) ELSE endIdx
      mid == IF fwd THEN Cell(o, sz + word[next]) ELSE Cell(o, sz)
      W1 == [word EXCEPT ![o] = mid.size]
      bwd == HbinOf(o) # {} /\ E1[o] # 0 /\ W1[E1[o]] > 0
      pred == Cell(E1[o], W1[E1[o]])
      F2 == IF bwd THEN RemoveCell(F1, pred) ELSE F1
      E2 == IF bwd THEN RemoveIdx(E1, F1, pred) ELSE E1
      new == IF bwd THEN Cell(pred.off, pred.size + mid.size) ELSE mid
      W2 == IF fwd THEN [W1 EXCEPT ![next] = 0] ELSE W1
      W3 == IF bwd THEN [W2 EXCEPT ![o] = 0] ELSE W2
  IN /\ word' = [W3 EXCEPT ![new.off] = new.size]
     /\ free' = InsertCell(F2, new, fileEnd)
     /\ endIdx' = InsertIdx(E2, new, fileEnd)
     /\ live' = live \ {a}
     /\ marked' = {o, new.off}
     /\ res' = "ok"
     /\ UNCHANGED <<fileEnd, dataSize, bins>>

\* GrowByPages: an HBIN of exactly that many pages.
GrowByPages(k) ==
  LET size == k * PageSize
  IN /\ IF fileEnd + size > MaxHive
          THEN /\ res' = "limit" /\ marked' = {}
               /\ UNCHANGED <<fileEnd, dataSize, bins, heap>>
          ELSE /\ res' = "ok"
               /\ AppendHBIN(size)
               /\ word' = NewHbinWords(size)
               /\ free' = InsertCell(free, Master(size), fileEnd + size)
               /\ endIdx' = InsertIdx(endIdx, Master(size), fileEnd + size)
               /\ marked' = NewHbinMarks(size)
     /\ live' = live

(***************************************************************************)
(* NewFast on a hive with one HBIN that starts with an allocated cell.     *)
(***************************************************************************)
RootCell == Cell(PageSize + HbinHeader, RootSize)
InitFree == Cell(End(RootCell), InitPages * PageSize - HbinHeader - RootSize)

Init ==
  /\ fileEnd = PageSize + InitPages * PageSize
  /\ dataSize = InitPages * PageSize
  /\ word = [o \in Offset |-> CASE o = PageSize -> HbinSignature
                                [] o = RootCell.off -> -RootSize
                                [] o = InitFree.off -> InitFree.size
                                [] OTHER -> 0]
  /\ free = {InitFree}
  /\ endIdx = [o \in Offset |-> IF o = fileEnd THEN InitFree.off ELSE 0]
  /\ bins = {[start |-> PageSize, end |-> fileEnd]}
  /\ live = {RootCell}
  /\ marked = {} /\ res = "none"

Next ==
  \/ \E n \in Needs : Alloc(n)
  \/ \E a \in live : Free(a)
  \/ GrowByPages(1)

Spec == Init /\ [][Next]_vars
-----------------------------------------------------------------------------
(***************************************************************************)
(* Properties.                                                             *)
(***************************************************************************)
\* After a Grow the retried search finds a cell, and no list ever names a
\* cell beyond the file: Alloc's ErrNoSpace and ErrBadRef never happen.
NeverStuck == res \notin {"nospace", "badref"}
=============================================================================
