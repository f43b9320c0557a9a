----------------------------- MODULE AllocModes -----------------------------
(***************************************************************************)
(* The allocator of module FastAlloc with what surrounds it: bump mode     *)
(* (hive/alloc/bump.go, used by merge/v2), TruncatePages, and NewFast on   *)
(* the hive a previous allocator left behind.                              *)
(***************************************************************************)
EXTENDS FastAlloc

CONSTANTS
  BumpTotals,      \* the totals merge/v2 may ask EnableBumpMode for
  TruncateCounts   \* the page counts TruncatePages may be called with

ASSUME ModesAssumption == BumpTotals \subseteq Nat /\ TruncateCounts \subseteq Nat

VARIABLES
  bump,     \* FastAllocator.bump
  session,  \* history: "clean" since NewFast, "bump" while bump mode is on,
            \* "spent" after it, "cut" after TruncatePages
  overran   \* history: some batch asked for more than its region had left

allvars == <<vars, bump, session, overran>>

NoBump == [active |-> FALSE, startOff |-> 0, capacity |-> 0, cursor |-> 0]

(***************************************************************************)
(* What the callers keep to and nothing enforces.  merge/v2.Merge makes an *)
(* allocator for one batch, asks it for cells only between EnableBumpMode  *)
(* and FinalizeBumpMode and calls neither Free nor Grow; every other       *)
(* caller leaves bump mode alone.  TruncatePages "trusts the caller" to    *)
(* cut only whole, empty HBINs.  A batch does not keep to its total: that  *)
(* is Overrun below.                                                       *)
(***************************************************************************)
ListsUsable == session = "clean"
CutIsEmpty(end) ==
  /\ session = "clean"
  /\ \A c \in live : End(c) <= end
  /\ \E b \in bins : b.end = end

(***************************************************************************)
(* Bump mode.                                                              *)
(***************************************************************************)
EnableBumpMode(total) ==
  LET size == AlignHBIN(total + HbinHeader)
  IN /\ ~bump.active /\ ListsUsable
     /\ fileEnd + size <= MaxHive
     /\ AppendHBIN(size)
     /\ word' = NewHbinWords(size)
     /\ free' = InsertCell(free, Master(size), fileEnd + size)
     /\ endIdx' = InsertIdx(endIdx, Master(size), fileEnd + size)
     /\ bump' = [active |-> TRUE, startOff |-> Master(size).off,
                 capacity |-> Master(size).size, cursor |-> 0]
     /\ session' = "bump"
     /\ marked' = NewHbinMarks(size) /\ res' = "ok"
     /\ live' = live

BumpFits(n) == bump.active /\ bump.cursor + n <= bump.capacity

\* (mutant) the cursor is not advanced past the cell header's unit.
BumpAllocStays(n) ==
  LET off == bump.startOff + bump.cursor
  IN /\ BumpFits(n)
     /\ word' = [word EXCEPT ![off] = -n]
     /\ live' = live \cup {Cell(off, n)}
     /\ bump' = [bump EXCEPT !.cursor = @ + n - 1]
     /\ marked' = {off} /\ res' = "ok"
     /\ UNCHANGED <<fileEnd, dataSize, free, endIdx, bins, session>>

BumpAlloc(n) ==
  LET off == bump.startOff + bump.cursor
  IN /\ BumpFits(n)
     /\ word' = [word EXCEPT ![off] = -n]
     /\ live' = live \cup {Cell(off, n)}
     /\ bump' = [bump EXCEPT !.cursor = @ + n]
     /\ marked' = {off} /\ res' = "ok"
     /\ UNCHANGED <<fileEnd, dataSize, free, endIdx, bins, session>>

\* Alloc when bump mode is off.
ListAlloc(n) ==
  /\ ~bump.active /\ ListsUsable
  /\ Alloc(n)
  /\ UNCHANGED <<bump, session>>

\* Alloc when the region has not enough left: it "falls back to the normal
\* free-list path transparently", whose lists still hold the region itself
\* (growByHBINSize lists its master cell).  merge/v2 does come here, as
\* plan.Estimate leaves out the lists of new parents, the root's list and
\* lists that only lose entries.
Overrun(n) ==
  /\ bump.active /\ ~BumpFits(n)
  /\ Alloc(n)
  /\ overran' = TRUE
  /\ UNCHANGED <<bump, session>>

FinalizeBumpMode ==
  LET tail == Cell(bump.startOff + bump.cursor, bump.capacity - bump.cursor)
  IN /\ bump.active
     /\ IF tail.size > 0
          THEN /\ word' = [word EXCEPT ![tail.off] = tail.size]
               /\ free' = InsertCell(free, tail, fileEnd)
               /\ endIdx' = InsertIdx(endIdx, tail, fileEnd)
               /\ marked' = {tail.off}
          ELSE UNCHANGED <<word, free, endIdx>> /\ marked' = {}
     /\ bump' = NoBump /\ session' = "spent" /\ res' = "ok"
     /\ UNCHANGED <<fileEnd, dataSize, bins, live>>

(***************************************************************************)
(* TruncatePages: the free lists forget the cells beyond the cut, the file *)
(* and the data size shrink; bins and endIdx stay as they are.             *)
(***************************************************************************)
\* (mutant) the data size is left alone.
TruncateKeepsSize(k) ==
  LET end == fileEnd - k * PageSize
  IN /\ end >= 2 * PageSize /\ CutIsEmpty(end)
     /\ fileEnd' = end /\ dataSize' = dataSize
     /\ free' = {c \in free : c.off < end}
     /\ word' = [o \in Offset |-> IF o < end THEN word[o] ELSE 0]
     /\ session' = "cut"
     /\ marked' = 0..(PageSize - 1) /\ res' = "ok"
     /\ UNCHANGED <<endIdx, bins, live, bump>>

\* Hive.Truncate, whose system calls succeed: what was behind the new end is gone.
CutFile(end) == fileEnd' = end /\ word' = [o \in Offset |-> IF o < end THEN word[o] ELSE 0]

TruncatePages(k) ==
  LET newDataSize == dataSize - k * PageSize
      end == PageSize + newDataSize
  IN /\ newDataSize >= PageSize /\ CutIsEmpty(end)
     /\ CutFile(end) /\ dataSize' = newDataSize
     /\ free' = {c \in free : c.off < end}
     /\ session' = "cut"
     /\ marked' = 0..(PageSize - 1) /\ res' = "ok"
     /\ UNCHANGED <<endIdx, bins, live, bump>>

(***************************************************************************)
(* NewFast on the hive as it is, also after a process died in bump mode.   *)
(***************************************************************************)
\* CellIterator: cell after cell by the headers, until the HBIN's end, a
\* header of 0, or one that leads beyond the end.
Starts(b) ==
  LET next(o) == o + Abs(word[o])
      from[o \in b.start..b.end] ==
        IF o >= b.end \/ word[o] = 0 \/ next(o) > b.end THEN {} ELSE {o} \cup from[next(o)]
  IN from[b.start + HbinHeader]

FileBins == {b \in bins : b.start < fileEnd}
ScannedStarts == UNION {Starts(b) : b \in FileBins}
ScannedFree == {Cell(o, word[o]) : o \in {s \in ScannedStarts : word[s] > 0}}
IdxOf(F) ==
  [e \in Offset |-> IF \E c \in F : End(c) = e THEN (CHOOSE c \in F : End(c) = e).off ELSE 0]

NewFast ==
  /\ \A b \in FileBins : b.end <= fileEnd
  /\ free' = ScannedFree /\ endIdx' = IdxOf(free') /\ bins' = FileBins
  /\ bump' = NoBump /\ session' = "clean"
  /\ marked' = {} /\ res' = "ok"
  /\ UNCHANGED <<fileEnd, dataSize, word, live>>

ModeFree(a) ==
  /\ ListsUsable
  /\ Free(a)
  /\ UNCHANGED <<bump, session>>

ModeGrow(k) ==
  /\ ~bump.active /\ ListsUsable
  /\ GrowByPages(k)
  /\ UNCHANGED <<bump, session>>

ModeInit == Init /\ bump = NoBump /\ session = "clean" /\ overran = FALSE

ModeStep ==
  \/ \E n \in Needs : BumpAlloc(n) \/ ListAlloc(n)
  \/ \E a \in live : ModeFree(a)
  \/ \E t \in BumpTotals : EnableBumpMode(t)
  \/ FinalizeBumpMode
  \/ \E k \in TruncateCounts : TruncatePages(k)
  \/ ModeGrow(1) \/ NewFast

ModeNext ==
  \/ ModeStep /\ UNCHANGED overran
  \/ \E n \in Needs : Overrun(n)

ModeSpec == ModeInit /\ [][ModeNext]_allvars
-----------------------------------------------------------------------------
(***************************************************************************)
(* Properties.  Each is claimed of hives in which no batch overran: once   *)
(* one did, two owners may hold the same bytes and nothing here remains.   *)
(***************************************************************************)
\* The allocator implements the abstract cell store, also across bump
\* batches, truncations, deaths in the middle of a batch and reopenings,
\* until a batch overruns its region.
Store == INSTANCE CellStore WITH bins <- FileBins
Implements == Store!Init /\ [][overran' \/ Store!Next]_<<live, FileBins>>

\* While an allocator serves list requests, its lists are exactly what a new
\* scan of the file would find: splits, merges and growth are all reflected
\* in cell headers, also after earlier bump batches, truncations or deaths.
ListsAreScan == session = "clean" => free = ScannedFree

\* ... and Free, which trusts the end index to find the free cell in front of
\* the one it frees, finds every such cell and nothing else: the index has the
\* ends of the free cells and no other entry, although allocFromLarge leaves
\* it alone.
IdxLeadsRight == session = "clean" => endIdx = IdxOf(free)

\* "Check if there's a free cell ending exactly at our start position": what
\* Free would merge with a cell before it is a free cell that ends where the
\* cell begins.
MergesRight ==
  session = "clean" /\ ~overran =>
    \A a \in live : LET p == endIdx[a.off]
                    IN p # 0 /\ word[p] > 0 => \E c \in free : c.off = p /\ End(c) = a.off

\* The walk over an HBIN by cell headers, as every reader makes it, meets
\* every allocated cell, also in a hive that was left inside a bump batch, as
\* long as no batch overran its region.
WalkMeetsLive ==
  ~overran => \A c \in live : word[c.off] = -c.size /\ c.off \in ScannedStarts

\* No two free cells of one HBIN touch: Free merges everything it could.
Coalesced ==
  session = "clean" =>
    \A c, d \in free : End(c) = d.off => \A b \in bins : ~(b.start < c.off /\ End(d) <= b.end)

\* While an allocator serves list requests its lists are what a scan of the
\* file finds, each index entry leads to its cell, and no two free cells lie
\* side by side.  The search that Alloc repeats after Grow never comes back
\* without a cell.  All this in a hive no batch of which overran its region.
FreeListsRight == ~overran => ListsAreScan /\ IdxLeadsRight /\ Coalesced /\ NeverStuck

\* A call that changes a cell header hands that offset to the dirty tracker;
\* otherwise the change would not be flushed by the next Commit.
WritesMarked ==
  [][overran' \/ \A o \in Offset : word'[o] # word[o] /\ word'[o] # 0 => o \in marked']_vars
=============================================================================
