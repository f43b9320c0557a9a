---------------------------- MODULE HiveTxProofs ----------------------------
(***************************************************************************)
(* Proofs about HiveTx, for every number of pages, writes and sequences.   *)
(*                                                                         *)
(* The ordered flush does not hold unconditionally: on Linux a dirty page   *)
(* next to the header is merged with it and skipped.  "Separated" names    *)
(* the instances free of that; there the inductive invariant IInv holds.   *)
(* What no tracker knows of (the later pages of a list, the pages a dead   *)
(* process left in the cache) is the history variable loose, and the       *)
(* invariant speaks of the other pages, Recorded.                          *)
(***************************************************************************)
EXTENDS HiveTx, TLAPS

\* Every page is flushed (macOS), or no edit touches the page next to the header.
Separated ==
  \A s \in Setups : s.Platform = "darwin" \/ (1 \notin s.DataPages /\ InitPages > 1)

Mapped == 0..(npages - 1)

\* Commit and Close run only on an open hive, whose header says its length.
Control ==
  /\ pc # "idle" => status = "open"
  /\ pc \in {"second", "checksum"} => op = "commit"
  /\ status = "open" => hdr.size = npages
  /\ InitPages <= dhdr.size /\ dhdr.size <= hdr.size

\* The disk is never ahead of the page cache, nor the cache of the clock.
Monotone ==
  /\ \A p \in HbinPage : disk[p] <= mem[p] /\ mem[p] <= clock
  /\ status = "open" => \A p \in HbinPage : p >= npages => mem[p] = 0

\* Both headers stand for recorded pages that are on disk, and cover what
\* was acked; where Commit calls fdatasync what was acked is on disk.
Covered ==
  /\ \A p \in Recorded : hdr.snap[p] <= disk[p] /\ dhdr.snap[p] <= disk[p]
  /\ \A p \in HbinPage : p >= hdr.size => hdr.snap[p] = 0
  /\ \A p \in HbinPage : p >= dhdr.size => dhdr.snap[p] = 0
  /\ \A p \in HbinPage : p \in Recorded \/ setup.Mode # "FlushDataOnly" =>
       acked[p] <= disk[p] /\ acked[p] <= hdr.snap[p] /\ acked[p] <= dhdr.snap[p]

\* Where Commit is.
OnDisk == \A p \in Recorded : disk[p] = mem[p]

Stages ==
  /\ pc = "flush" => \A p \in Recorded : disk[p] # mem[p] => \E run \in todo : p \in run
  /\ pc \in {"second", "checksum"} /\ op = "commit" => OnDisk
  /\ pc \in {"checksum", "header", "sync"} /\ op = "commit" => hdr.snap = mem
  /\ pc = "sync" => dhdr = hdr
  /\ status = "open" /\ inTx /\ ranges = {} => OnDisk

\* The tracker knows every recorded page that is not on disk.
Tracked ==
  setup.Platform = "unix" =>
    /\ status = "open" => ranges \subseteq Mapped
    /\ 1 \notin ranges
    /\ status = "open" => \A p \in Recorded : disk[p] # mem[p] => p \in ranges
    /\ status \in {"closed", "crashed"} => OnDisk
    /\ \A run \in todo : run \subseteq Mapped /\ (0 \in run => run = {0})

IInv == TypeOK /\ Control /\ Monotone /\ Covered /\ Stages /\ Tracked
-----------------------------------------------------------------------------
\* The updates Begin and Commit make to the header keep its type.
LEMMA BeginHeader ==
  ASSUME NEW h \in Header, NEW n \in Nat
  PROVE  [h EXCEPT !.seq1 = n, !.sumOK = FALSE] \in Header
  BY DEF Header

LEMMA CommitHeader ==
  ASSUME NEW h \in Header, NEW n \in Nat, NEW v \in Versions
  PROVE  [h EXCEPT !.seq2 = n, !.sumOK = FALSE, !.snap = v] \in Header
  BY DEF Header

\* Runs of dirty pages are sets of pages.
LEMMA PendingType == ranges \subseteq Page => Pending \subseteq SUBSET Page
  BY DEF Pending, Coalesce, Run

\* The setup stays what it was.
LEMMA SameSetup ==
  ASSUME [Next]_vars
  PROVE  setup' = setup
  BY DEF Next, vars

\* Pages become loose where lists are written and processes die, and are
\* recorded again by the fdatasync of a Commit; no other step matters here.
LEMMA RecordedPages ==
  ASSUME TypeOK, [Next]_vars
  PROVE  /\ Recorded \subseteq HbinPage /\ Recorded' \subseteq HbinPage
         /\ loose' = loose => Recorded' = Recorded
         /\ loose \subseteq loose' => Recorded' \subseteq Recorded
         /\ setup' = setup
  BY SameSetup DEF Recorded

\* The pages of the initial hive that edits touch.
LEMMA EditedPages ==
  ASSUME TypeOK
  PROVE  setup.DataPages \subseteq 1..(InitPages - 1)
  BY TxAssumption DEF TypeOK

\* A step keeps the types; the bounds on the page count need Control.
LEMMA TypeStep ==
  ASSUME TypeOK, Control, [Next]_vars
  PROVE  TypeOK'
<1>0. setup' \in Setups
  BY SameSetup DEF TypeOK
<1>. USE TxAssumption, <1>0
<1>1. CASE BeginNew
  <2>1. hdr.seq1 \in Nat /\ seq' \in 0..MaxSeq
    BY <1>1 DEF BeginNew, TypeOK, Header
  <2>4. hdr \in Header /\ seq' \in Nat
    BY <2>1 DEF TypeOK
  <2>2. [hdr EXCEPT !.seq1 = seq', !.sumOK = FALSE] \in Header
    BY <2>4, BeginHeader
  <2>3. hdr' \in Header
    BY <1>1, <2>2 DEF BeginNew
  <2>. QED
    BY <1>1, <2>1, <2>3 DEF BeginNew, NoPersist, durable, TypeOK, Page, HeaderPage
<1>2. CASE BeginAgain
  BY <1>2 DEF BeginAgain, NoPersist, durable, TypeOK
<1>3. ASSUME NEW p \in Writable, Write(p) PROVE TypeOK'
  <2>1. p \in HbinPage
    BY EditedPages DEF Writable, HbinPage, Page, HeaderPage, IInv
  <2>2. clock' \in 0..MaxWrites /\ mem' \in Versions
    BY <1>3, <2>1 DEF Write, TypeOK, Versions
  <2>. QED
    BY <1>3, <2>1, <2>2 DEF Write, NoPersist, durable, TypeOK, HbinPage
<1>30. ASSUME NEW first \in Writable, NEW last \in Writable, WriteList(first, last) PROVE TypeOK'
  <2>1. Writable \subseteq HbinPage
    BY EditedPages DEF Writable, HbinPage, Page, HeaderPage
  <2>2. clock' \in 0..MaxWrites /\ mem' \in Versions
    BY <1>30 DEF WriteList, TypeOK, Versions
  <2>3. first \in HbinPage /\ (first + 1)..last \subseteq first..last /\ first..last \subseteq HbinPage
    BY <1>30, <2>1 DEF WriteList, HbinPage, Page
  <2>4. ranges' \subseteq Page /\ loose' \subseteq HbinPage
    BY <1>30, <2>3 DEF WriteList, TypeOK, HbinPage
  <2>. QED
    BY <1>30, <2>2, <2>4 DEF WriteList, NoPersist, durable, TypeOK
<1>4. CASE Grow
  <2>1. npages' \in 1..MaxPages /\ npages \in Page /\ hdr.size = npages
    BY <1>4 DEF Grow, TypeOK, Control, Page
  <2>2. clock' \in 0..MaxWrites
    BY <1>4 DEF Grow, TypeOK
  <2>4. mem' \in Versions
    BY <1>4, <2>2 DEF Grow, TypeOK, Versions
  <2>3. hdr' \in Header
    BY <1>4, <2>1 DEF Grow, TypeOK, Header
  <2>. QED
    BY <1>4, <2>1, <2>2, <2>3, <2>4 DEF Grow, NoPersist, durable, TypeOK, Page, HeaderPage
<1>5. CASE Rollback
  BY <1>5 DEF Rollback, NoPersist, durable, TypeOK
<1>6. ASSUME NEW caller \in {"commit", "close"}, FlushStart(caller) PROVE TypeOK'
  <2>1. todo' \subseteq SUBSET Page
    BY <1>6, PendingType DEF FlushStart, TypeOK
  <2>2. pc' \in PcValues
    BY <1>6 DEF FlushStart, AfterFlush, PcValues
  <2>. QED
    BY <1>6, <2>1, <2>2 DEF FlushStart, NoPersist, durable, TypeOK
<1>8. CASE FlushRangeUnix
  BY <1>8 DEF FlushRangeUnix, Persist, NoPersist, durable, TypeOK, Versions
<1>9. CASE FlushRangeDarwin
  BY <1>9 DEF FlushRangeDarwin, Persist, TypeOK, Versions
<1>10. CASE FlushDone
  BY <1>10 DEF FlushDone, NoPersist, durable, AfterFlush, TypeOK, PcValues
<1>11. CASE SetSecondary
  <2>3. hdr \in Header /\ seq \in Nat /\ mem \in Versions
    BY DEF TypeOK
  <2>2. [hdr EXCEPT !.seq2 = seq, !.sumOK = FALSE, !.snap = mem] \in Header
    BY <2>3, CommitHeader
  <2>1. hdr' \in Header
    BY <1>11, <2>2 DEF SetSecondary
  <2>. QED
    BY <1>11, <2>1 DEF SetSecondary, NoPersist, durable, TypeOK, PcValues
<1>12. CASE SetChecksum
  <2>1. hdr' \in Header
    BY <1>12 DEF SetChecksum, TypeOK, Header
  <2>. QED
    BY <1>12, <2>1 DEF SetChecksum, NoPersist, durable, TypeOK, PcValues, Page, HeaderPage
<1>13. CASE FlushHeader
  BY <1>13 DEF FlushHeader, Persist, TypeOK, Versions, PcValues
<1>14. CASE Sync
  BY <1>14 DEF Sync, Persist, NoPersist, durable, TypeOK, Versions, PcValues
<1>15. CASE FlushFails
  BY <1>15 DEF FlushFails, NoPersist, durable, TypeOK, PcValues
<1>16. ASSUME NEW p \in Page, Writeback(p) PROVE TypeOK'
  BY <1>16 DEF Writeback, Persist, TypeOK, Versions
<1>17. CASE ProcessCrash
  BY <1>17 DEF ProcessCrash, ProcessGone, NoPersist, durable, mapping, TypeOK, PcValues
<1>18. CASE PowerLoss
  BY <1>18 DEF PowerLoss, ProcessGone, NoPersist, durable, TypeOK, PcValues
<1>19. CASE OpenRejects
  BY <1>19 DEF OpenRejects, NoPersist, durable, TypeOK
<1>20. CASE Open
  <2>1. hdr.size \in 1..MaxPages
    BY DEF TypeOK, Header
  <2>2. mem' \in Versions /\ disk' \in Versions
    BY <1>20, <2>1 DEF Open, TypeOK, Versions
  <2>3. dpages' \in 1..MaxPages
    BY <1>20, <2>1 DEF Open, TypeOK
  <2>4. /\ status' = "open" /\ npages' = hdr.size /\ inTx' = FALSE /\ seq' = 0
        /\ ranges' = {} /\ todo' = {}
        /\ UNCHANGED <<client, pc, op, hdr, dhdr, clock, acked, loose>>
    BY <1>20 DEF Open
  <2>5. npages' \in 1..MaxPages /\ seq' \in 0..MaxSeq /\ ranges' \subseteq Page
        /\ todo' \subseteq SUBSET Page
    BY <2>1, <2>4
  <2>7. inTx' \in BOOLEAN
    BY <2>4
  <2>6. hdr' \in Header /\ dhdr' \in Header /\ acked' \in Versions /\ loose' \subseteq HbinPage
        /\ clock' \in 0..MaxWrites /\ client' \in {"idle", "apply"}
        /\ pc' \in PcValues /\ op' \in {"commit", "close"}
    BY <2>4 DEF TypeOK
  <2>. QED
    BY <2>2, <2>3, <2>4, <2>5, <2>6, <2>7 DEF TypeOK
<1>21. CASE UNCHANGED vars
  BY <1>21 DEF vars, TypeOK
<1>. QED
  BY <1>1, <1>2, <1>3, <1>30, <1>4, <1>5, <1>6, <1>8, <1>9, <1>10, <1>11, <1>12, <1>13, <1>14,
     <1>15, <1>16, <1>17, <1>18, <1>19, <1>20, <1>21
  DEF Next, Step, CommitStep, CommitStart, CloseStart

\* Control is kept by every step.  First what the header updates leave alone.
LEMMA HeaderFields ==
  ASSUME NEW h \in Header
  PROVE  /\ \A n : [h EXCEPT !.seq1 = n, !.sumOK = FALSE].size = h.size
         /\ \A n : [h EXCEPT !.seq1 = n, !.sumOK = FALSE].snap = h.snap
         /\ \A n, v : [h EXCEPT !.seq2 = n, !.sumOK = FALSE, !.snap = v].size = h.size
         /\ \A n, v : [h EXCEPT !.seq2 = n, !.sumOK = FALSE, !.snap = v].snap = v
         /\ [h EXCEPT !.sumOK = TRUE].size = h.size
         /\ [h EXCEPT !.sumOK = TRUE].snap = h.snap
         /\ [h EXCEPT !.size = @ + 1, !.sumOK = TRUE].size = h.size + 1
         /\ [h EXCEPT !.size = @ + 1, !.sumOK = TRUE].snap = h.snap
  BY DEF Header

\* What TypeOK says of page contents and sizes, in the form the leaves use.
LEMMA Typed ==
  ASSUME TypeOK
  PROVE  /\ hdr \in Header /\ dhdr \in Header
         /\ hdr.size \in Nat /\ dhdr.size \in Nat /\ npages \in Nat /\ clock \in Nat
         /\ \A p \in HbinPage : mem[p] \in Nat /\ disk[p] \in Nat /\ acked[p] \in Nat
         /\ \A p \in HbinPage : hdr.snap[p] \in Nat /\ dhdr.snap[p] \in Nat
         /\ hdr.snap \in Versions /\ dhdr.snap \in Versions
         /\ \A p \in HbinPage : p \in Nat /\ p # 0 /\ p < MaxPages
  BY TxAssumption DEF TypeOK, Header, Versions, HbinPage, Page, HeaderPage

LEMMA ControlStep ==
  ASSUME TypeOK, Control, [Next]_vars
  PROVE  Control'
<1>. USE TxAssumption
<1>1. CASE BeginNew
  BY <1>1, HeaderFields, Typed DEF BeginNew, NoPersist, durable, Control
<1>2. CASE BeginAgain
  BY <1>2, HeaderFields, Typed DEF BeginAgain, NoPersist, durable, Control
<1>3. ASSUME NEW p \in Writable, Write(p) PROVE Control'
  BY <1>3, HeaderFields, Typed DEF Write, NoPersist, durable, Control
<1>30. ASSUME NEW first \in Writable, NEW last \in Writable, WriteList(first, last) PROVE Control'
  BY <1>30, HeaderFields, Typed DEF WriteList, NoPersist, durable, Control
<1>4. CASE Grow
  BY <1>4, HeaderFields, Typed DEF Grow, NoPersist, durable, Control
<1>5. CASE Rollback
  BY <1>5, HeaderFields, Typed DEF Rollback, NoPersist, durable, Control
<1>6. ASSUME NEW caller \in {"commit", "close"}, FlushStart(caller) PROVE Control'
  BY <1>6, HeaderFields, Typed DEF FlushStart, NoPersist, durable, Control, AfterFlush
<1>7. CASE FlushRangeUnix
  BY <1>7, HeaderFields, Typed DEF FlushRangeUnix, Persist, NoPersist, durable, Control
<1>8. CASE FlushRangeDarwin
  BY <1>8, HeaderFields, Typed DEF FlushRangeDarwin, Persist, Control
<1>9. CASE FlushDone
  BY <1>9, HeaderFields, Typed DEF FlushDone, NoPersist, durable, Control, AfterFlush
<1>10. CASE SetSecondary
  BY <1>10, HeaderFields, Typed DEF SetSecondary, NoPersist, durable, Control
<1>11. CASE SetChecksum
  BY <1>11, HeaderFields, Typed DEF SetChecksum, NoPersist, durable, Control
<1>12. CASE FlushHeader
  BY <1>12, HeaderFields, Typed DEF FlushHeader, Persist, Control
<1>13. CASE Sync
  BY <1>13, HeaderFields, Typed DEF Sync, Persist, NoPersist, durable, Control
<1>14. CASE FlushFails
  BY <1>14, HeaderFields, Typed DEF FlushFails, NoPersist, durable, Control
<1>15. ASSUME NEW p \in Page, Writeback(p) PROVE Control'
  BY <1>15, HeaderFields, Typed DEF Writeback, Persist, Control
<1>16. CASE ProcessCrash
  BY <1>16, HeaderFields, Typed DEF ProcessCrash, ProcessGone, NoPersist, durable, mapping, Control
<1>17. CASE PowerLoss
  BY <1>17, HeaderFields, Typed DEF PowerLoss, ProcessGone, NoPersist, durable, Control
<1>18. CASE OpenRejects
  BY <1>18, HeaderFields, Typed DEF OpenRejects, NoPersist, durable, Control
<1>19. CASE Open
  BY <1>19, HeaderFields, Typed DEF Open, Control
<1>20. CASE UNCHANGED vars
  BY <1>20 DEF vars, Control
<1>. QED
  BY <1>1, <1>2, <1>3, <1>30, <1>4, <1>5, <1>6, <1>7, <1>8, <1>9, <1>10, <1>11, <1>12, <1>13, <1>14,
     <1>15, <1>16, <1>17, <1>18, <1>19, <1>20
  DEF Next, Step, CommitStep, CommitStart, CloseStart

\* A write is newer than what it replaces, and flushing only copies.
LEMMA MonotoneStep ==
  ASSUME TypeOK, Control, Monotone, [Next]_vars
  PROVE  Monotone'
<1>. USE TxAssumption
<1>1. CASE BeginNew
  BY <1>1, HeaderFields, Typed DEF BeginNew, NoPersist, durable, Monotone, Control, TypeOK, Versions
<1>2. CASE BeginAgain
  BY <1>2, HeaderFields, Typed DEF BeginAgain, NoPersist, durable, Monotone, Control, TypeOK, Versions
<1>3. ASSUME NEW p \in Writable, Write(p) PROVE Monotone'
  BY <1>3, HeaderFields, Typed DEF Write, NoPersist, durable, Monotone, Control, TypeOK, Versions, Writable
<1>30. ASSUME NEW first \in Writable, NEW last \in Writable, WriteList(first, last) PROVE Monotone'
  <2>1. \A p \in HbinPage : mem'[p] = IF p \in first..last THEN clock' ELSE mem[p]
    BY <1>30 DEF WriteList
  <2>2. \A p \in first..last : p < npages
    BY <1>30, Typed, EditedPages DEF WriteList, Writable, Page
  <2>. QED
    BY <1>30, <2>1, <2>2, Typed DEF WriteList, NoPersist, durable, Monotone
<1>4. CASE Grow
  BY <1>4, HeaderFields, Typed DEF Grow, NoPersist, durable, Monotone, Control, TypeOK, Versions
<1>5. CASE Rollback
  BY <1>5, HeaderFields, Typed DEF Rollback, NoPersist, durable, Monotone, Control, TypeOK, Versions
<1>6. ASSUME NEW caller \in {"commit", "close"}, FlushStart(caller) PROVE Monotone'
  BY <1>6, HeaderFields, Typed DEF FlushStart, NoPersist, durable, Monotone, Control, TypeOK, Versions
<1>7. CASE FlushRangeUnix
  BY <1>7, HeaderFields, Typed DEF FlushRangeUnix, Persist, NoPersist, durable, Monotone, Control, TypeOK, Versions
<1>8. CASE FlushRangeDarwin
  BY <1>8, HeaderFields, Typed DEF FlushRangeDarwin, Persist, Monotone, Control, TypeOK, Versions
<1>9. CASE FlushDone
  BY <1>9, HeaderFields, Typed DEF FlushDone, NoPersist, durable, Monotone, Control, TypeOK, Versions
<1>10. CASE SetSecondary
  BY <1>10, HeaderFields, Typed DEF SetSecondary, NoPersist, durable, Monotone, Control, TypeOK, Versions
<1>11. CASE SetChecksum
  BY <1>11, HeaderFields, Typed DEF SetChecksum, NoPersist, durable, Monotone, Control, TypeOK, Versions
<1>12. CASE FlushHeader
  BY <1>12, HeaderFields, Typed DEF FlushHeader, Persist, Monotone, Control, TypeOK, Versions
<1>13. CASE Sync
  BY <1>13, HeaderFields, Typed DEF Sync, Persist, NoPersist, durable, Monotone, Control, TypeOK, Versions
<1>14. CASE FlushFails
  BY <1>14, HeaderFields, Typed DEF FlushFails, NoPersist, durable, Monotone, Control, TypeOK, Versions
<1>15. ASSUME NEW p \in Page, Writeback(p) PROVE Monotone'
  BY <1>15, HeaderFields, Typed DEF Writeback, Persist, Monotone, Control, TypeOK, Versions
<1>16. CASE ProcessCrash
  BY <1>16, HeaderFields, Typed DEF ProcessCrash, ProcessGone, NoPersist, durable, mapping, Monotone, Control, TypeOK, Versions
<1>17. CASE PowerLoss
  BY <1>17, HeaderFields, Typed DEF PowerLoss, ProcessGone, NoPersist, durable, Monotone, Control, TypeOK, Versions
<1>18. CASE OpenRejects
  BY <1>18, HeaderFields, Typed DEF OpenRejects, NoPersist, durable, Monotone, Control, TypeOK, Versions
<1>19. CASE Open
  BY <1>19, HeaderFields, Typed DEF Open, Monotone, Control, TypeOK, Versions
<1>20. CASE UNCHANGED vars
  BY <1>20 DEF vars, Monotone, Control, TypeOK, Versions
<1>. QED
  BY <1>1, <1>2, <1>3, <1>30, <1>4, <1>5, <1>6, <1>7, <1>8, <1>9, <1>10, <1>11, <1>12, <1>13, <1>14,
     <1>15, <1>16, <1>17, <1>18, <1>19, <1>20
  DEF Next, Step, CommitStep, CommitStart, CloseStart

\* Functions on the pages that agree on every page are equal.
LEMMA SamePages ==
  ASSUME NEW f \in Versions, NEW g \in Versions, \A p \in HbinPage : f[p] = g[p]
  PROVE  f = g
  BY DEF Versions

\* What Persist does to a page, and that it never undoes "all on disk".
LEMMA PersistPages ==
  ASSUME TypeOK, NEW S, Persist(S)
  PROVE  /\ \A p \in HbinPage : disk'[p] = IF p \in S THEN mem[p] ELSE disk[p]
         /\ disk' \in Versions /\ mem \in Versions /\ disk \in Versions
         /\ disk = mem => disk' = mem
         /\ S \cap HbinPage = {} => disk' = disk
<1>1. /\ \A p \in HbinPage : disk'[p] = IF p \in S THEN mem[p] ELSE disk[p]
      /\ disk' \in Versions /\ mem \in Versions /\ disk \in Versions
  BY DEF Persist, TypeOK, Versions
<1>2. disk = mem => disk' = mem
  BY <1>1, SamePages
<1>3. S \cap HbinPage = {} => disk' = disk
  BY <1>1, SamePages
<1>. QED
  BY <1>1, <1>2, <1>3

\* msync of the whole mapping, or fdatasync, leaves nothing to write.
LEMMA PersistAll ==
  ASSUME TypeOK, Control, Monotone, status = "open", Persist({p \in Page : p < npages})
  PROVE  disk' = mem
<1>1. \A p \in HbinPage : disk'[p] = mem[p]
  BY PersistPages, Typed DEF Monotone, HbinPage
<1>. QED
  BY <1>1, PersistPages, SamePages

\* A header is marked complete only when its pages are on disk.
LEMMA CoveredStep ==
  ASSUME TypeOK, Control, Monotone, Covered, Stages, [Next]_vars
  PROVE  Covered'
<1>0. /\ Recorded \subseteq HbinPage /\ Recorded' \subseteq HbinPage /\ setup' = setup
      /\ loose' = loose => Recorded' = Recorded
      /\ loose \subseteq loose' => Recorded' \subseteq Recorded
  BY RecordedPages
<1>. USE TxAssumption, <1>0
<1>1. CASE BeginNew
  BY <1>1, HeaderFields, Typed DEF BeginNew, NoPersist, durable, Covered, Monotone, Control, Stages, TypeOK, Versions
<1>2. CASE BeginAgain
  BY <1>2, HeaderFields, Typed DEF BeginAgain, NoPersist, durable, Covered, Monotone, Control, Stages, TypeOK, Versions
<1>3. ASSUME NEW p \in Writable, Write(p) PROVE Covered'
  BY <1>3, HeaderFields, Typed DEF Write, NoPersist, durable, Covered, Monotone, Control, Stages, TypeOK, Versions
<1>30. ASSUME NEW first \in Writable, NEW last \in Writable, WriteList(first, last) PROVE Covered'
  <2>1. Recorded' \subseteq Recorded
    BY <1>30, RecordedPages DEF WriteList
  <2>. QED
    BY <1>30, <2>1 DEF WriteList, NoPersist, durable, Covered
<1>4. CASE Grow
  BY <1>4, HeaderFields, Typed DEF Grow, NoPersist, durable, Covered, Monotone, Control, Stages, TypeOK, Versions
<1>5. CASE Rollback
  BY <1>5, HeaderFields, Typed DEF Rollback, NoPersist, durable, Covered, Monotone, Control, Stages, TypeOK, Versions
<1>6. ASSUME NEW caller \in {"commit", "close"}, FlushStart(caller) PROVE Covered'
  BY <1>6, HeaderFields, Typed DEF FlushStart, NoPersist, durable, Covered, Monotone, Control, Stages, TypeOK, Versions
<1>7. CASE FlushRangeUnix
  BY <1>7, HeaderFields, Typed DEF FlushRangeUnix, Persist, NoPersist, durable, Covered, Monotone, Control, Stages, TypeOK, Versions
<1>8. CASE FlushRangeDarwin
  BY <1>8, HeaderFields, Typed DEF FlushRangeDarwin, Persist, Covered, Monotone, Control, Stages, TypeOK, Versions
<1>9. CASE FlushDone
  BY <1>9, HeaderFields, Typed DEF FlushDone, NoPersist, durable, Covered, Monotone, Control, Stages, TypeOK, Versions
<1>10. CASE SetSecondary
  <2>1. /\ hdr'.size = hdr.size /\ hdr'.snap = mem /\ pc = "second" /\ op = "commit" /\ status = "open"
        /\ UNCHANGED <<mem, disk, dhdr, acked, loose>>
    BY <1>10, HeaderFields, Typed DEF SetSecondary, NoPersist, durable, Control
  <2>2. \A p \in Recorded : disk[p] = mem[p]
    BY <2>1 DEF Stages, OnDisk
  <2>3. \A p \in HbinPage : /\ mem[p] \in Nat /\ disk[p] \in Nat /\ acked[p] \in Nat
                             /\ disk[p] <= mem[p] /\ (p >= hdr.size => mem[p] = 0)
    BY <2>1, Typed DEF Monotone, Control
  <2>. QED
    BY <2>1, <2>2, <2>3 DEF Covered
<1>11. CASE SetChecksum
  BY <1>11, HeaderFields, Typed DEF SetChecksum, NoPersist, durable, Covered, Monotone, Control, Stages, TypeOK, Versions
<1>12. CASE FlushHeader
  BY <1>12, HeaderFields, Typed DEF FlushHeader, Persist, Covered, Monotone, Control, Stages, TypeOK, Versions
<1>13. CASE Sync
  <2>1. /\ UNCHANGED <<hdr, mem>> /\ dhdr = hdr /\ status = "open" /\ dhdr' = hdr
    BY <1>13 DEF Sync, Persist, NoPersist, durable, Stages, Control
  <2>2. CASE op # "commit"
    <3>1. UNCHANGED <<acked, loose>> /\ \A p \in HbinPage : disk'[p] = disk[p] \/ disk'[p] = mem[p]
      BY <1>13, <2>2 DEF Sync, Persist, NoPersist, durable
    <3>2. \A p \in HbinPage : /\ mem[p] \in Nat /\ disk[p] \in Nat /\ disk'[p] \in Nat /\ acked[p] \in Nat
                               /\ hdr.snap[p] \in Nat /\ disk[p] <= mem[p] /\ disk[p] <= disk'[p]
      BY <3>1, Typed DEF Monotone
    <3>. QED
      BY <2>1, <3>1, <3>2 DEF Covered
  <2>3. CASE op = "commit" /\ setup.Mode = "FlushDataOnly"
    <3>1. UNCHANGED <<disk, loose>> /\ acked' = mem
      BY <1>13, <2>3 DEF Sync, NoPersist, durable
    <3>2. hdr.snap = mem
      BY <1>13, <2>3 DEF Sync, Stages
    <3>3. \A p \in Recorded : disk[p] = mem[p]
      BY <3>2, Typed DEF Covered, Monotone
    <3>. QED
      BY <2>1, <2>3, <3>1, <3>2, <3>3, Typed DEF Covered
  <2>4. CASE op = "commit" /\ setup.Mode # "FlushDataOnly"
    <3>1. Persist({p \in Page : p < npages}) /\ acked' = mem
      BY <1>13, <2>4 DEF Sync
    <3>2. disk' = mem
      BY <2>1, <3>1, PersistAll
    <3>3. hdr.snap = mem
      BY <1>13, <2>4 DEF Sync, Stages
    <3>. QED
      BY <2>1, <3>1, <3>2, <3>3, Typed DEF Covered
  <2>. QED
    BY <2>2, <2>3, <2>4
<1>14. CASE FlushFails
  BY <1>14, HeaderFields, Typed DEF FlushFails, NoPersist, durable, Covered, Monotone, Control, Stages, TypeOK, Versions
<1>15. ASSUME NEW p \in Page, Writeback(p) PROVE Covered'
  BY <1>15, HeaderFields, Typed DEF Writeback, Persist, Covered, Monotone, Control, Stages, TypeOK, Versions
<1>16. CASE ProcessCrash
  BY <1>16, HeaderFields, Typed DEF ProcessCrash, ProcessGone, NoPersist, durable, mapping, Covered, Monotone, Control, Stages, TypeOK, Versions
<1>17. CASE PowerLoss
  BY <1>17, HeaderFields, Typed DEF PowerLoss, ProcessGone, NoPersist, durable, Covered, Monotone, Control, Stages, TypeOK, Versions
<1>18. CASE OpenRejects
  BY <1>18, HeaderFields, Typed DEF OpenRejects, NoPersist, durable, Covered, Monotone, Control, Stages, TypeOK, Versions
<1>19. CASE Open
  BY <1>19, HeaderFields, Typed DEF Open, Covered, Monotone, Control, Stages, TypeOK, Versions
<1>20. CASE UNCHANGED vars
  BY <1>20 DEF vars, Covered, Monotone, Control, Stages, TypeOK, Versions
<1>. QED
  BY <1>1, <1>2, <1>3, <1>30, <1>4, <1>5, <1>6, <1>7, <1>8, <1>9, <1>10, <1>11, <1>12, <1>13, <1>14,
     <1>15, <1>16, <1>17, <1>18, <1>19, <1>20
  DEF Next, Step, CommitStep, CommitStart, CloseStart

\* A run holds the page it is built around and only dirty pages; when page 1
\* is clean the run of the header is the header alone.
LEMMA RunFacts ==
  ASSUME NEW D, D \subseteq Page, NEW p \in D
  PROVE  /\ p \in Run(D, p) /\ Run(D, p) \subseteq D
         /\ 1 \notin D /\ 0 \in Run(D, p) => Run(D, p) = {0}
<1>. USE TxAssumption
<1>1. p \in Run(D, p) /\ Run(D, p) \subseteq D
  BY DEF Run, Page
<1>2. ASSUME 1 \notin D, 0 \in Run(D, p) PROVE p = 0
  <2>1. \A r \in Page : 0 <= r /\ r <= p => r \in D
    BY <1>2 DEF Run, Page
  <2>. QED
    BY <1>2, <2>1 DEF Page
<1>3. ASSUME 1 \notin D, 0 \in Run(D, p), NEW q \in Run(D, p) PROVE q = 0
  <2>1. \A r \in Page : 0 <= r /\ r <= q => r \in D
    BY <1>2, <1>3 DEF Run, Page
  <2>. QED
    BY <1>3, <2>1 DEF Run, Page
<1>. QED
  BY <1>1, <1>2, <1>3

\* Each stage of Commit leaves what the next one relies on.
LEMMA StagesStep ==
  ASSUME Separated, IInv, [Next]_vars
  PROVE  Stages'
<1>0. /\ Recorded \subseteq HbinPage /\ Recorded' \subseteq HbinPage /\ setup' = setup
      /\ loose' = loose => Recorded' = Recorded
      /\ loose \subseteq loose' => Recorded' \subseteq Recorded
  BY RecordedPages DEF IInv
<1>. USE TxAssumption, <1>0 DEF OnDisk
<1>1. CASE BeginNew
  BY <1>1 DEF BeginNew, NoPersist, durable, IInv, Stages
<1>2. CASE BeginAgain
  BY <1>2 DEF BeginAgain, NoPersist, durable, IInv, Stages
<1>3. ASSUME NEW p \in Writable, Write(p) PROVE Stages'
  BY <1>3 DEF Write, NoPersist, durable, IInv, Stages
<1>30. ASSUME NEW first \in Writable, NEW last \in Writable, WriteList(first, last) PROVE Stages'
  <2>1. pc' = "idle" /\ ranges' # {}
    BY <1>30 DEF WriteList
  <2>. QED
    BY <2>1 DEF Stages
<1>4. CASE Grow
  BY <1>4 DEF Grow, NoPersist, durable, IInv, Stages
<1>5. CASE Rollback
  BY <1>5 DEF Rollback, NoPersist, durable, IInv, Stages
<1>6. ASSUME NEW caller \in {"commit", "close"}, FlushStart(caller) PROVE Stages'
  <2>1. ASSUME ranges # {}, NEW p \in Recorded, disk[p] # mem[p]
        PROVE  \E run \in Pending : p \in run
    <3>1. CASE setup.Platform = "unix"
      <4>1. p \in ranges /\ ranges \subseteq Page
        BY <2>1, <3>1, <1>6 DEF IInv, Tracked, TypeOK, FlushStart
      <4>2. p \in Run(ranges, p)
        BY <4>1, RunFacts
      <4>3. Run(ranges, p) \in Pending
        BY <3>1, <4>1 DEF Pending, Coalesce
      <4>. QED
        BY <4>2, <4>3
    <3>2. CASE setup.Platform # "unix"
      BY <3>2 DEF Pending, HbinPage
    <3>. QED
      BY <3>1, <3>2
  <2>2. ranges # {} => pc' = "flush" /\ todo' = Pending
    BY <1>6 DEF FlushStart
  <2>3. ranges = {} /\ caller = "commit" => OnDisk
    BY <1>6 DEF FlushStart, IInv, Stages
  <2>4. UNCHANGED <<status, inTx, ranges, mem, hdr, disk, dhdr, loose>> /\ op' = caller
    BY <1>6 DEF FlushStart, NoPersist, durable
  <2>5. ranges = {} => pc' = AfterFlush(caller)
    BY <1>6 DEF FlushStart
  <2>. QED
    BY <2>1, <2>2, <2>3, <2>4, <2>5 DEF IInv, Stages, AfterFlush
<1>7. CASE FlushRangeUnix
  <2>1. PICK run \in todo : /\ todo' = todo \ {run}
                            /\ IF Skipped(run) THEN NoPersist ELSE Persist(run)
    BY <1>7 DEF FlushRangeUnix, First
  <2>2. UNCHANGED <<status, inTx, ranges, mem, hdr, pc, op, loose>> /\ pc = "flush" /\ setup.Platform = "unix"
    BY <1>7 DEF FlushRangeUnix
  <2>3. run \subseteq Mapped /\ (0 \in run => run = {0})
    BY <2>2 DEF IInv, Tracked
  <2>4. ASSUME NEW p \in Recorded, disk'[p] # mem'[p] PROVE \E r \in todo' : p \in r
    <3>1. CASE Skipped(run)
      <4>1. run = {0}
        BY <2>3, <3>1, Typed DEF Skipped, HeaderPage, Mapped, IInv
      <4>. QED
        BY <2>1, <2>2, <2>4, <3>1, <4>1, Typed DEF NoPersist, durable, IInv, Stages
    <3>2. CASE ~Skipped(run)
      <4>1. p \notin run /\ disk[p] # mem[p]
        BY <2>1, <2>2, <2>4, <3>2, PersistPages DEF IInv
      <4>. QED
        BY <2>1, <2>2, <4>1 DEF IInv, Stages
    <3>. QED
      BY <3>1, <3>2
  <2>5. \A p \in HbinPage : disk'[p] = disk[p] \/ disk'[p] = mem[p]
    BY <2>1, PersistPages DEF NoPersist, durable, IInv
  <2>. QED
    BY <2>2, <2>4, <2>5 DEF IInv, Stages
<1>8. CASE FlushRangeDarwin
  <2>1. disk' = mem
    BY <1>8, PersistAll DEF FlushRangeDarwin, IInv, Control
  <2>. QED
    BY <1>8, <2>1 DEF FlushRangeDarwin, IInv, Stages
<1>9. CASE FlushDone
  <2>2. OnDisk
    BY <1>9 DEF FlushDone, IInv, Stages
  <2>. QED
    BY <1>9, <2>2 DEF FlushDone, NoPersist, durable, AfterFlush, IInv, Stages
<1>10. CASE SetSecondary
  BY <1>10 DEF SetSecondary, NoPersist, durable, IInv, Stages
<1>11. CASE SetChecksum
  BY <1>11 DEF SetChecksum, NoPersist, durable, IInv, Stages
<1>12. CASE FlushHeader
  <2>1. disk' = disk
    BY <1>12, PersistPages DEF FlushHeader, IInv, HbinPage
  <2>2. dhdr' = hdr
    BY <1>12 DEF FlushHeader, Persist
  <2>. QED
    BY <1>12, <2>1, <2>2 DEF FlushHeader, IInv, Stages
<1>13. CASE Sync
  BY <1>13 DEF Sync, Persist, NoPersist, durable, IInv, Stages
<1>14. CASE FlushFails
  BY <1>14 DEF FlushFails, NoPersist, durable, IInv, Stages
<1>15. ASSUME NEW p \in Page, Writeback(p) PROVE Stages'
  <2>1. \A q \in HbinPage : disk'[q] = disk[q] \/ disk'[q] = mem[q]
    BY <1>15, PersistPages DEF Writeback, IInv
  <2>2. dhdr' = hdr \/ dhdr' = dhdr
    BY <1>15 DEF Writeback, Persist
  <2>3. UNCHANGED <<status, pc, op, inTx, ranges, todo, mem, hdr, loose>>
    BY <1>15 DEF Writeback
  <2>. QED
    BY <2>1, <2>2, <2>3 DEF IInv, Stages
<1>16. CASE ProcessCrash
  BY <1>16 DEF ProcessCrash, ProcessGone, NoPersist, durable, mapping, IInv, Stages
<1>17. CASE PowerLoss
  BY <1>17 DEF PowerLoss, ProcessGone, NoPersist, durable, IInv, Stages
<1>18. CASE OpenRejects
  BY <1>18 DEF OpenRejects, NoPersist, durable, IInv, Stages
<1>19. CASE Open
  <2>1. pc' = "idle" /\ inTx' = FALSE
    BY <1>19 DEF Open, IInv, Control
  <2>. QED
    BY <2>1 DEF Stages
<1>20. CASE UNCHANGED vars
  BY <1>20 DEF vars, IInv, Stages
<1>. QED
  BY <1>1, <1>2, <1>3, <1>30, <1>4, <1>5, <1>6, <1>7, <1>8, <1>9, <1>10, <1>11, <1>12, <1>13, <1>14,
     <1>15, <1>16, <1>17, <1>18, <1>19, <1>20
  DEF Next, Step, CommitStep, CommitStart, CloseStart

\* The tracker forgets a page only when it is on disk.
LEMMA TrackedStep ==
  ASSUME Separated, IInv, [Next]_vars
  PROVE  Tracked'
<1>0. /\ Recorded \subseteq HbinPage /\ Recorded' \subseteq HbinPage /\ setup' = setup
      /\ loose' = loose => Recorded' = Recorded
      /\ loose \subseteq loose' => Recorded' \subseteq Recorded
  BY RecordedPages DEF IInv
<1>. USE TxAssumption, <1>0 DEF OnDisk
<1>1. CASE BeginNew
  <2>1. ranges' = ranges \cup {0} /\ UNCHANGED <<status, todo, npages, mem, disk, loose>>
    BY <1>1 DEF BeginNew, NoPersist, durable, HeaderPage
  <2>2. 0 \in Mapped
    BY DEF IInv, TypeOK, Mapped
  <2>. QED
    BY <2>1, <2>2 DEF IInv, Tracked, Mapped
<1>2. CASE BeginAgain
  BY <1>2 DEF BeginAgain, NoPersist, durable, IInv, Tracked, Mapped
<1>3. ASSUME NEW p \in Writable, Write(p) PROVE Tracked'
  <2>1. /\ ranges' = ranges \cup {p} /\ UNCHANGED <<status, todo, npages, disk, loose>>
        /\ mem' = [mem EXCEPT ![p] = clock'] /\ p < npages /\ status = "open"
    BY <1>3 DEF Write, NoPersist, durable
  <2>2. p \in HbinPage
    BY EditedPages DEF Writable, HbinPage, Page, HeaderPage, IInv
  <2>3. p \in Mapped
    BY <2>1, <2>2, Typed DEF Mapped, IInv
  <2>4. \A q \in HbinPage : q # p => mem'[q] = mem[q]
    BY <2>1 DEF IInv, TypeOK, Versions
  <2>5. setup.Platform = "unix" => p # 1
    BY DEF Writable, Separated, IInv, TypeOK
  <2>. QED
    BY <2>1, <2>3, <2>4, <2>5 DEF IInv, Tracked, Mapped
<1>30. ASSUME NEW first \in Writable, NEW last \in Writable, WriteList(first, last) PROVE Tracked'
  <2>1. /\ ranges' = ranges \cup {first} /\ UNCHANGED <<status, todo, npages, disk>>
        /\ mem' = [p \in HbinPage |-> IF p \in first..last THEN clock' ELSE mem[p]]
        /\ loose' = loose \cup (((first + 1)..last) \ ranges)
        /\ first < last /\ last < npages /\ status = "open"
    BY <1>30 DEF WriteList, NoPersist, durable
  <2>2. first \in HbinPage /\ last \in HbinPage
    BY EditedPages DEF Writable, HbinPage, Page, HeaderPage, IInv
  <2>3. first \in Mapped
    BY <2>1, <2>2, Typed DEF Mapped, IInv
  <2>5. setup.Platform = "unix" => first # 1
    BY DEF Writable, Separated, IInv, TypeOK
  <2>6. ASSUME setup.Platform = "unix", NEW p \in Recorded', disk'[p] # mem'[p] PROVE p \in ranges'
    <3>1. p \in HbinPage /\ p \in Recorded /\ p \notin ((first + 1)..last) \ ranges
      BY <2>1, <2>6 DEF Recorded
    <3>2. CASE p \in first..last
      BY <2>1, <2>2, <3>1, <3>2, Typed DEF IInv
    <3>3. CASE p \notin first..last
      BY <2>1, <2>6, <3>1, <3>3 DEF IInv, Tracked
    <3>. QED
      BY <3>2, <3>3
  <2>. QED
    BY <2>1, <2>3, <2>5, <2>6 DEF IInv, Tracked, Mapped
<1>4. CASE Grow
  <2>1. /\ ranges' = ranges \cup {0, npages} /\ UNCHANGED <<status, todo, disk, loose>>
        /\ mem' = [mem EXCEPT ![npages] = clock'] /\ npages' = npages + 1 /\ status = "open"
    BY <1>4 DEF Grow, NoPersist, durable, HeaderPage
  <2>2. npages \in Nat \ {0} /\ InitPages <= npages /\ npages < MaxPages
    BY <1>4, <2>1, Typed DEF Grow, IInv, Control, TypeOK
  <2>3. Mapped \cup {0, npages} \subseteq Mapped'
    BY <2>1, <2>2 DEF Mapped
  <2>4. \A q \in HbinPage : q # npages => mem'[q] = mem[q]
    BY <2>1 DEF IInv, TypeOK, Versions
  <2>5. setup.Platform = "unix" => npages # 1
    BY <2>2 DEF Separated, IInv, TypeOK
  <2>. QED
    BY <2>1, <2>3, <2>4, <2>5 DEF IInv, Tracked
<1>5. CASE Rollback
  BY <1>5 DEF Rollback, NoPersist, durable, IInv, Tracked, Mapped
<1>6. ASSUME NEW caller \in {"commit", "close"}, FlushStart(caller) PROVE Tracked'
  <2>1. /\ UNCHANGED <<status, ranges, npages, mem, disk, loose>> /\ status = "open"
        /\ todo' = IF ranges = {} THEN {} ELSE Pending
    BY <1>6 DEF FlushStart, NoPersist, durable
  <2>2. ASSUME setup.Platform = "unix", NEW run \in todo'
        PROVE  run \subseteq Mapped /\ (0 \in run => run = {0})
    <3>1. PICK p \in ranges : run = Run(ranges, p)
      BY <2>1, <2>2 DEF Pending, Coalesce
    <3>2. ranges \subseteq Page /\ ranges \subseteq Mapped /\ 1 \notin ranges
      BY <2>1, <2>2 DEF IInv, TypeOK, Tracked
    <3>. QED
      BY <3>1, <3>2, RunFacts
  <2>. QED
    BY <2>1, <2>2 DEF IInv, Tracked, Mapped
<1>7. CASE FlushRangeUnix
  <2>1. PICK run \in todo : /\ todo' = todo \ {run}
                            /\ IF Skipped(run) THEN NoPersist ELSE Persist(run)
    BY <1>7 DEF FlushRangeUnix, First
  <2>2. UNCHANGED <<status, ranges, npages, mem, loose>> /\ status = "open"
    BY <1>7 DEF FlushRangeUnix, IInv, Control
  <2>3. \A p \in HbinPage : disk'[p] = disk[p] \/ disk'[p] = mem[p]
    BY <2>1, PersistPages DEF NoPersist, durable, IInv
  <2>. QED
    BY <2>1, <2>2, <2>3 DEF IInv, Tracked, Mapped
<1>8. CASE FlushRangeDarwin
  BY <1>8 DEF FlushRangeDarwin, Persist, IInv, Tracked, Mapped
<1>9. CASE FlushDone
  <2>1. \A p \in Recorded : disk[p] = mem[p]
    BY <1>9 DEF FlushDone, IInv, Stages
  <2>2. ranges' = {} /\ status = "open" /\ UNCHANGED <<status, todo, npages, mem, disk, loose>>
    BY <1>9 DEF FlushDone, NoPersist, durable, IInv, Control
  <2>. QED
    BY <2>1, <2>2 DEF IInv, Tracked, Mapped
<1>10. CASE SetSecondary
  BY <1>10 DEF SetSecondary, NoPersist, durable, IInv, Tracked, Mapped
<1>11. CASE SetChecksum
  <2>1. ranges' = ranges \cup {0} /\ UNCHANGED <<status, todo, npages, mem, disk, loose>>
    BY <1>11 DEF SetChecksum, NoPersist, durable, HeaderPage
  <2>2. 0 \in Mapped
    BY DEF IInv, TypeOK, Mapped
  <2>. QED
    BY <2>1, <2>2 DEF IInv, Tracked, Mapped
<1>12. CASE FlushHeader
  <2>1. disk' = disk
    BY <1>12, PersistPages DEF FlushHeader, IInv, HbinPage
  <2>2. UNCHANGED <<status, ranges, todo, npages, mem, loose>>
    BY <1>12 DEF FlushHeader
  <2>. QED
    BY <2>1, <2>2 DEF IInv, Tracked, Mapped
<1>13. CASE Sync
  <2>1. UNCHANGED <<todo, npages, mem>> /\ status = "open"
    BY <1>13 DEF Sync, IInv, Control
  <2>2. CASE op = "close"
    <3>1. disk' = mem /\ ranges' = {} /\ status' = "closed"
      BY <1>13, <2>1, <2>2, PersistAll DEF Sync, IInv
    <3>. QED
      BY <2>1, <3>1 DEF IInv, Tracked, Mapped
  <2>3. CASE op # "close"
    <3>1. UNCHANGED <<ranges, status>>
      BY <1>13, <2>3 DEF Sync
    <3>2. \A p \in HbinPage : disk'[p] = disk[p] \/ disk'[p] = mem[p]
      BY <1>13, PersistPages DEF Sync, NoPersist, durable, IInv
    <3>3. \A p \in Recorded' : disk'[p] # mem'[p] => p \in Recorded
      <4>1. CASE loose' = loose
        BY <4>1
      <4>2. CASE loose' # loose
        <5>1. disk' = mem
          BY <1>13, <2>1, <2>3, <4>2, PersistAll DEF Sync, IInv
        <5>. QED
          BY <2>1, <5>1
      <4>. QED
        BY <4>1, <4>2
    <3>. QED
      BY <2>1, <3>1, <3>2, <3>3 DEF IInv, Tracked, Mapped
  <2>. QED
    BY <2>2, <2>3
<1>14. CASE FlushFails
  BY <1>14 DEF FlushFails, NoPersist, durable, IInv, Tracked, Mapped
<1>15. ASSUME NEW p \in Page, Writeback(p) PROVE Tracked'
  <2>1. /\ \A q \in HbinPage : disk'[q] = disk[q] \/ disk'[q] = mem[q]
    BY <1>15, PersistPages DEF Writeback, IInv
  <2>2. UNCHANGED <<status, ranges, todo, npages, mem, loose>>
    BY <1>15 DEF Writeback
  <2>. QED
    BY <2>1, <2>2 DEF IInv, Tracked, Mapped
<1>16. CASE ProcessCrash
  <2>1. /\ status' = "crashed" /\ ranges' = {} /\ todo' = {} /\ UNCHANGED <<npages, mem, disk>>
        /\ loose' = loose \cup {p \in HbinPage : disk[p] # mem[p]}
    BY <1>16 DEF ProcessCrash, ProcessGone, mapping, NoPersist, durable
  <2>2. setup.Platform = "unix" => OnDisk'
    BY <2>1 DEF Recorded
  <2>. QED
    BY <2>1, <2>2 DEF Tracked
<1>17. CASE PowerLoss
  BY <1>17 DEF PowerLoss, ProcessGone, NoPersist, durable, IInv, Tracked, Mapped
<1>18. CASE OpenRejects
  BY <1>18 DEF OpenRejects, NoPersist, durable, IInv, Tracked, Mapped
<1>19. CASE Open
  BY <1>19 DEF Open, IInv, Tracked, Mapped
<1>20. CASE UNCHANGED vars
  BY <1>20 DEF vars, IInv, Tracked, Mapped
<1>. QED
  BY <1>1, <1>2, <1>3, <1>30, <1>4, <1>5, <1>6, <1>7, <1>8, <1>9, <1>10, <1>11, <1>12, <1>13, <1>14,
     <1>15, <1>16, <1>17, <1>18, <1>19, <1>20
  DEF Next, Step, CommitStep, CommitStart, CloseStart

\* A freshly opened clean hive satisfies the invariant.
LEMMA InitHolds == Init => IInv
<1>. SUFFICES ASSUME Init PROVE IInv
  OBVIOUS
<1>. USE TxAssumption
<1>1. ZeroVersions \in Versions
  BY DEF ZeroVersions, Versions
<1>2. hdr \in Header
  BY <1>1 DEF Init, Header
<1>3. TypeOK
  <2>1. inTx \in BOOLEAN
    BY DEF Init
  <2>2. dhdr \in Header
    BY <1>2 DEF Init
  <2>3. mem \in Versions /\ disk \in Versions /\ acked \in Versions
    BY <1>1 DEF Init
  <2>4. npages \in 1..MaxPages /\ dpages \in 1..MaxPages /\ seq \in 0..MaxSeq
        /\ clock \in 0..MaxWrites
    BY DEF Init
  <2>. QED
    BY <1>2, <2>1, <2>2, <2>3, <2>4 DEF Init, TypeOK, PcValues
<1>4. Control
  BY DEF Init, Control
<1>5. Monotone
  BY DEF Init, Monotone, ZeroVersions
<1>9. Recorded \subseteq HbinPage
  BY DEF Recorded
<1>6. Covered
  BY <1>9 DEF Init, Covered, ZeroVersions
<1>7. Stages
  BY DEF Init, Stages
<1>8. Tracked
  BY DEF Init, Tracked, OnDisk
<1>. QED
  BY <1>3, <1>4, <1>5, <1>6, <1>7, <1>8 DEF IInv

\* Every variable keeps its type, whatever platform, mode and faults: in
\* particular Grow and Open never let the header's size leave the file's
\* bounds, though each computes it on its own.
THEOREM TypeCorrect == Spec => []TypeOK
<1>1. Init => TypeOK /\ Control
  BY InitHolds DEF IInv
<1>2. TypeOK /\ Control /\ [Next]_vars => (TypeOK /\ Control)'
  BY TypeStep, ControlStep
<1>. QED
  BY <1>1, <1>2, PTL DEF Spec

\* The inductive invariant, where no edit touches the page next to the header.
THEOREM Invariant == Separated /\ Spec => []IInv
<1>. SUFFICES ASSUME Separated PROVE Spec => []IInv
  OBVIOUS
<1>1. IInv /\ [Next]_vars => IInv'
  <2>. SUFFICES ASSUME IInv, [Next]_vars PROVE IInv'
    OBVIOUS
  <2>1. TypeOK' /\ Control' /\ Monotone'
    BY TypeStep, ControlStep, MonotoneStep DEF IInv
  <2>2. Covered'
    BY CoveredStep DEF IInv
  <2>3. Stages' /\ Tracked'
    BY StagesStep, TrackedStep
  <2>. QED
    BY <2>1, <2>2, <2>3 DEF IInv
<1>. QED
  BY <1>1, InitHolds, PTL DEF Spec

\* Commit's order: the header on disk never stands for recorded pages that are
\* not there, for any number of pages, lists, failed commits and crashes.
THEOREM HeaderOrder == Separated /\ Spec => []HeaderNeverAhead
<1>1. IInv => HeaderNeverAhead
  BY DEF IInv, Covered, HeaderNeverAhead
<1>. QED
  BY <1>1, Invariant, PTL

\* Step 1 of Commit is complete before step 2 begins, as far as the tracker was
\* told: the later pages of a list are not flushed by it.
THEOREM FlushOrder == Separated /\ Spec => []DataBeforeHeader
<1>1. IInv => DataBeforeHeader
  BY DEF IInv, Stages, OnDisk, DataBeforeHeader
<1>. QED
  BY <1>1, Invariant, PTL

\* What Commit acknowledged stays on disk: every page in the modes that end with
\* fdatasync, the recorded ones in mode FlushDataOnly.
THEOREM Durability == Separated /\ Spec => []AckedDurable
<1>1. IInv => AckedDurable
  BY DEF IInv, Covered, AckedDurable
<1>. QED
  BY <1>1, Invariant, PTL

-----------------------------------------------------------------------------
(***************************************************************************)
(* What a clean header says.  A Commit that fails after it has set         *)
(* SecondarySeq leaves a transaction open under a clean header, and a      *)
(* power loss takes the pages back but not together; without those two, a  *)
(* transaction that is not committed shows in the sequence numbers.        *)
(***************************************************************************)
\* While a transaction is open its number is PrimarySeq, and SecondarySeq is
\* behind it until Commit has set it.
Sealed ==
  /\ hdr.seq2 <= hdr.seq1
  /\ inTx => seq = hdr.seq1
  /\ client = "apply" => inTx /\ status = "open"
  /\ pc # "idle" /\ op = "commit" => inTx
  /\ inTx => hdr.seq2 < hdr.seq1 \/ (pc \in {"checksum", "header", "sync"} /\ op = "commit")
  /\ \A p \in HbinPage : p >= hdr.size => hdr.snap[p] = 0

CleanInv == TypeOK /\ Control /\ Monotone /\ Sealed /\ UncommittedIsDirty

\* What the header updates leave of the sequence numbers.
LEMMA HeaderSeqs ==
  ASSUME NEW h \in Header
  PROVE  /\ \A n : [h EXCEPT !.seq1 = n, !.sumOK = FALSE].seq1 = n
         /\ \A n : [h EXCEPT !.seq1 = n, !.sumOK = FALSE].seq2 = h.seq2
         /\ \A n, v : [h EXCEPT !.seq2 = n, !.sumOK = FALSE, !.snap = v].seq1 = h.seq1
         /\ \A n, v : [h EXCEPT !.seq2 = n, !.sumOK = FALSE, !.snap = v].seq2 = n
         /\ [h EXCEPT !.sumOK = TRUE].seq1 = h.seq1
         /\ [h EXCEPT !.sumOK = TRUE].seq2 = h.seq2
         /\ [h EXCEPT !.size = @ + 1, !.sumOK = TRUE].seq1 = h.seq1
         /\ [h EXCEPT !.size = @ + 1, !.sumOK = TRUE].seq2 = h.seq2
         /\ h.seq1 \in Nat /\ h.seq2 \in Nat
  BY DEF Header

LEMMA SealedStep ==
  ASSUME EarlyFaultsOnly, CleanInv, [Next]_vars
  PROVE  Sealed' /\ UncommittedIsDirty'
<1>. USE TxAssumption
<1>. DEFINE Good == Sealed' /\ UncommittedIsDirty'
<1>0. /\ hdr \in Header /\ hdr.seq1 \in Nat /\ hdr.seq2 \in Nat /\ hdr.size \in Nat
      /\ \A p \in HbinPage : p \in Nat
  BY Typed, HeaderSeqs DEF CleanInv
<1>1. CASE BeginNew
  <2>1. /\ seq' = hdr.seq1 + 1 /\ hdr'.seq1 = seq' /\ hdr'.seq2 = hdr.seq2 /\ hdr'.size = hdr.size
        /\ hdr'.snap = hdr.snap /\ inTx' = TRUE /\ client' = "apply" /\ pc' = "idle" /\ UNCHANGED op
        /\ status' = "open"
    BY <1>0, <1>1, HeaderSeqs, HeaderFields DEF BeginNew
  <2>. QED
    BY <1>0, <2>1 DEF CleanInv, Sealed, UncommittedIsDirty, IsClean
<1>2. CASE BeginAgain
  BY <1>2 DEF BeginAgain, CleanInv, Sealed, UncommittedIsDirty, IsClean
<1>3. ASSUME NEW p \in Writable, Write(p) PROVE Good
  <2>1. hdr.seq1 # hdr.seq2 /\ UNCHANGED <<status, hdr, inTx, seq, client, pc, op>>
    BY <1>0, <1>3 DEF Write, CleanInv, Sealed
  <2>. QED
    BY <2>1 DEF CleanInv, Sealed, UncommittedIsDirty, IsClean
<1>30. ASSUME NEW first \in Writable, NEW last \in Writable, WriteList(first, last) PROVE Good
  <2>1. hdr.seq1 # hdr.seq2 /\ UNCHANGED <<status, hdr, inTx, seq, client, pc, op>>
    BY <1>0, <1>30 DEF WriteList, CleanInv, Sealed
  <2>. QED
    BY <2>1 DEF CleanInv, Sealed, UncommittedIsDirty, IsClean
<1>4. CASE Grow
  <2>1. /\ hdr'.seq1 = hdr.seq1 /\ hdr'.seq2 = hdr.seq2 /\ hdr'.size = hdr.size + 1 /\ hdr'.snap = hdr.snap
        /\ UNCHANGED <<status, inTx, seq, client, pc, op>>
    BY <1>0, <1>4, HeaderSeqs, HeaderFields DEF Grow
  <2>2. hdr.seq1 # hdr.seq2
    BY <1>0, <1>4 DEF Grow, CleanInv, Sealed
  <2>. QED
    BY <1>0, <2>1, <2>2 DEF CleanInv, Sealed, UncommittedIsDirty, IsClean
<1>5. CASE Rollback
  BY <1>5 DEF Rollback, CleanInv, Sealed, UncommittedIsDirty, IsClean
<1>6. ASSUME NEW caller \in {"commit", "close"}, FlushStart(caller) PROVE Good
  <2>1. /\ UNCHANGED <<status, hdr, inTx, seq, client, mem>> /\ pc = "idle" /\ op' = caller
        /\ caller = "commit" => inTx /\ pc' \in {"flush", "second"}
    BY <1>6 DEF FlushStart, AfterFlush
  <2>. QED
    BY <2>1 DEF CleanInv, Sealed, UncommittedIsDirty, IsClean
<1>7. CASE FlushRangeUnix
  BY <1>7 DEF FlushRangeUnix, CleanInv, Sealed, UncommittedIsDirty, IsClean
<1>8. CASE FlushRangeDarwin
  BY <1>8 DEF FlushRangeDarwin, CleanInv, Sealed, UncommittedIsDirty, IsClean
<1>9. CASE FlushDone
  BY <1>9 DEF FlushDone, AfterFlush, CleanInv, Sealed, UncommittedIsDirty, IsClean
<1>10. CASE SetSecondary
  <2>1. /\ hdr'.seq1 = hdr.seq1 /\ hdr'.seq2 = seq /\ hdr'.size = hdr.size /\ hdr'.snap = mem
        /\ UNCHANGED <<status, inTx, seq, client, op, mem>> /\ pc = "second" /\ pc' = "checksum"
    BY <1>0, <1>10, HeaderSeqs, HeaderFields DEF SetSecondary
  <2>2. op = "commit" /\ inTx /\ seq = hdr.seq1
    BY <2>1 DEF CleanInv, Control, Sealed
  <2>3. \A p \in HbinPage : p >= hdr.size => mem[p] = 0
    BY <2>1 DEF CleanInv, Control, Monotone
  <2>. QED
    BY <1>0, <2>1, <2>2, <2>3 DEF CleanInv, Sealed, UncommittedIsDirty, IsClean
<1>11. CASE SetChecksum
  <2>1. /\ hdr'.seq1 = hdr.seq1 /\ hdr'.seq2 = hdr.seq2 /\ hdr'.size = hdr.size /\ hdr'.snap = hdr.snap
        /\ UNCHANGED <<status, inTx, seq, client, op, mem>> /\ pc = "checksum" /\ pc' = "header"
    BY <1>0, <1>11, HeaderSeqs, HeaderFields DEF SetChecksum
  <2>. QED
    BY <2>1 DEF CleanInv, Sealed, UncommittedIsDirty, IsClean
<1>12. CASE FlushHeader
  BY <1>12 DEF FlushHeader, CleanInv, Sealed, UncommittedIsDirty, IsClean
<1>13. CASE Sync
  <2>1. /\ UNCHANGED <<hdr, seq, op, mem>> /\ pc = "sync" /\ pc' = "idle" /\ client' = "idle"
        /\ inTx' = (inTx /\ op = "close")
    BY <1>13 DEF Sync
  <2>. QED
    BY <2>1 DEF CleanInv, Sealed, UncommittedIsDirty, IsClean
<1>14. CASE FlushFails
  <2>1. pc \in {"flush", "second"}
    BY <1>14 DEF FlushFails, EarlyFaultsOnly
  <2>. QED
    BY <1>14, <2>1 DEF FlushFails, CleanInv, Sealed, UncommittedIsDirty, IsClean
<1>15. ASSUME NEW p \in Page, Writeback(p) PROVE Good
  BY <1>15 DEF Writeback, CleanInv, Sealed, UncommittedIsDirty, IsClean
<1>16. CASE ProcessCrash
  BY <1>16 DEF ProcessCrash, ProcessGone, mapping, CleanInv, Sealed, UncommittedIsDirty, IsClean
<1>17. CASE PowerLoss
  BY <1>17 DEF PowerLoss, EarlyFaultsOnly
<1>18. CASE OpenRejects
  BY <1>18 DEF OpenRejects, CleanInv, Sealed, UncommittedIsDirty, IsClean
<1>19. CASE Open
  <2>1. /\ UNCHANGED <<hdr, client, pc, op>> /\ inTx' = FALSE /\ status \in {"closed", "crashed"}
        /\ mem' = [p \in HbinPage |-> IF p < hdr.size THEN mem[p] ELSE 0]
    BY <1>19 DEF Open
  <2>2. pc = "idle" /\ client # "apply"
    BY <2>1 DEF CleanInv, Control, Sealed, TypeOK
  <2>3. ASSUME hdr.snap = mem PROVE mem' = mem
    <3>1. \A p \in HbinPage : mem'[p] = mem[p]
      BY <1>0, <2>1, <2>3 DEF CleanInv, Sealed
    <3>. QED
      BY <2>1, <3>1 DEF CleanInv, TypeOK, Versions
  <2>. QED
    BY <2>1, <2>2, <2>3 DEF CleanInv, Sealed, UncommittedIsDirty, IsClean
<1>20. CASE UNCHANGED vars
  BY <1>20 DEF vars, CleanInv, Sealed, UncommittedIsDirty, IsClean
<1>. QED
  BY <1>1, <1>2, <1>3, <1>30, <1>4, <1>5, <1>6, <1>7, <1>8, <1>9, <1>10, <1>11, <1>12, <1>13, <1>14,
     <1>15, <1>16, <1>17, <1>18, <1>19, <1>20
  DEF Next, Step, CommitStep, CommitStart, CloseStart

\* "PrimarySeq != SecondarySeq" from Begin to Commit: on every platform and
\* in every mode, for any number of processes that die, a header that says
\* clean describes the pages that are there, as long as Commit fails only
\* before it has touched the header and the power stays on (CleanHeaderRight).
THEOREM CleanHeader == Spec => []CleanHeaderRight
<1> DEFINE CInv == TypeOK /\ Control /\ Monotone /\ (EarlyFaultsOnly => Sealed /\ UncommittedIsDirty)
<1>1. Init => CInv
  <2>1. Init => Sealed /\ UncommittedIsDirty
    BY DEF Init, Sealed, UncommittedIsDirty, ZeroVersions
  <2>. QED
    BY <2>1, InitHolds DEF IInv
<1>2. CInv /\ [Next]_vars => CInv'
  <2>. SUFFICES ASSUME CInv, [Next]_vars
                PROVE  CInv'
    OBVIOUS
  <2>1. TypeOK' /\ Control' /\ Monotone'
    BY TypeStep, ControlStep, MonotoneStep
  <2>2. EarlyFaultsOnly' = EarlyFaultsOnly
    BY SameSetup DEF EarlyFaultsOnly
  <2>3. ASSUME EarlyFaultsOnly PROVE Sealed' /\ UncommittedIsDirty'
    BY <2>3, SealedStep DEF CleanInv
  <2>. QED
    BY <2>1, <2>2, <2>3
<1>3. CInv => CleanHeaderRight
  BY DEF CleanHeaderRight
<1>. QED
  BY <1>1, <1>2, <1>3, PTL DEF Spec
=============================================================================
