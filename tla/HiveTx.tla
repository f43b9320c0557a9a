------------------------------- MODULE HiveTx -------------------------------
(***************************************************************************)
(* The transaction manager of hivekit (hive/tx/tx.go) together with the    *)
(* dirty-range tracker (hive/dirty), the memory mapping of the hive file   *)
(* (hive/loader_unix.go) and the session calls that drive them             *)
(* (hive/merge/session.go: ApplyWithTx, Close).                            *)
(*                                                                         *)
(* The file is a sequence of 4 KiB pages.  Page 0 is the REGF header, the  *)
(* others hold HBINs.  Everything is written through a MAP_SHARED mapping, *)
(* so "mem" is the kernel's page cache and "disk" what survives a power    *)
(* loss; the kernel may write any page back at any moment.  A process      *)
(* crash leaves the page cache alone, a power loss replaces it by the      *)
(* disk.  A page's content is the number of the write that produced it.    *)
(* Only Linux and macOS map the file; elsewhere hive/loader_other.go reads *)
(* it into the heap, and this module says nothing.                         *)
(***************************************************************************)
EXTENDS Integers, FiniteSets

CONSTANTS
  InitPages,  \* pages of the hive when it is first opened (header included)
  MaxPages,   \* bound on the pages Grow may reach
  Setups,     \* where the program runs and what happens to it: a set of records
              \*   Platform   "unix" (Linux): one msync per coalesced range
              \*              "darwin": one msync of the whole mapping
              \*   Mode       the FlushMode given to NewManager
              \*   DataPages  the pages of the initial hive that edits may touch
              \*   Faults     what may go wrong: see FaultKinds
  MaxWrites,  \* bound on the number of page writes in a behaviour
  MaxSeq      \* bound on the number of Begin calls that bump PrimarySeq

FlushModes == {"FlushAuto", "FlushDataOnly", "FlushFull"}

\* A Commit or Close may fail at the step of that name (a cancelled context,
\* a failed msync or fdatasync), the process may die, the power may fail.
FaultKinds == {"flush", "second", "header", "sync", "process", "power"}

ASSUME TxAssumption ==
  /\ InitPages \in Nat \ {0}
  /\ MaxPages \in Nat /\ InitPages <= MaxPages
  /\ Setups \subseteq [Platform : {"unix", "darwin"}, Mode : FlushModes,
                       DataPages : SUBSET (1..(InitPages - 1)), Faults : SUBSET FaultKinds]
  /\ MaxWrites \in Nat
  /\ MaxSeq \in Nat

Page == 0..(MaxPages - 1)
HeaderPage == 0
HbinPage == Page \ {HeaderPage}

VARIABLES
  setup,    \* of Setups; never changes
  status,   \* "open", "closed", "crashed" or "unopenable"
  client,   \* "idle", or "apply" between ApplyWithTx's Begin and its return
  pc,       \* where Commit or Close is: see PcValues
  op,       \* "commit" or "close": the caller of the running flush
  inTx,     \* Manager.inTx
  seq,      \* Manager.seq
  ranges,   \* Tracker.ranges, page-aligned: the pages recorded dirty
  todo,     \* coalesced ranges FlushDataOnly has still to flush
  npages,   \* len(Hive.data) in pages
  mem,      \* content of each HBIN page in the mapping
  hdr,      \* the REGF header in the mapping
  disk,     \* content of each HBIN page on disk
  dhdr,     \* the REGF header on disk
  dpages,   \* length of the file on disk, in pages
  clock,    \* number of page writes so far
  acked,    \* history: page contents of the last Commit that returned nil
  loose     \* history: pages changed since the last fdatasync of a Commit by
            \* a write no tracker knows of

mapping == <<npages, mem, hdr>>
durable == <<dpages, disk, dhdr>>
vars == <<setup, status, client, pc, op, inTx, seq, ranges, todo, npages, mem, hdr,
          disk, dhdr, dpages, clock, acked, loose>>

PcValues == {"idle", "flush", "second", "checksum", "header", "sync"}

(***************************************************************************)
(* The header: sequence numbers, HBIN data size (as a page count), and     *)
(* whether the stored checksum is that of the other fields.  "snap" is a   *)
(* history field: the page contents the last SecondarySeq stands for.      *)
(***************************************************************************)
Versions == [HbinPage -> 0..MaxWrites]
Header == [seq1: Nat, seq2: Nat, size: 1..MaxPages, sumOK: BOOLEAN, snap: Versions]

\* BaseBlock.IsClean.
IsClean(h) == h.seq1 = h.seq2

(***************************************************************************)
(* coalesce: maximal runs of adjacent dirty pages.  Two pages are in one   *)
(* run when every page between them is dirty.  (The algorithm over byte    *)
(* ranges is module DirtyRanges, checked against this definition.)         *)
(***************************************************************************)
Run(D, p) == {q \in D : \A r \in Page : (p <= r /\ r <= q) \/ (q <= r /\ r <= p) => r \in D}
Coalesce(D) == {Run(D, p) : p \in D}

\* The ranges flushRanges does not hand to msync: the one at offset 0, and
\* those that end beyond the mapping.
Skipped(run) == HeaderPage \in run \/ \E p \in run : p >= npages

\* The next range in the order of coalesce's sort.
First(T) == {run \in T : \A other \in T : \E p \in run : \A q \in other : p <= q}

(***************************************************************************)
(* External: the kernel.                                                   *)
(***************************************************************************)
\* msync of a set of pages, or the kernel writing them back unasked.
Persist(pages) ==
  /\ disk' = [p \in HbinPage |-> IF p \in pages THEN mem[p] ELSE disk[p]]
  /\ dhdr' = IF HeaderPage \in pages THEN hdr ELSE dhdr
  /\ dpages' = IF \E p \in pages : p >= dpages THEN npages ELSE dpages

NoPersist == UNCHANGED durable

(***************************************************************************)
(* hive.Open of a well-formed, clean hive, then NewTracker and NewManager. *)
(***************************************************************************)
ZeroVersions == [p \in HbinPage |-> 0]

Init ==
  /\ setup \in Setups
  /\ status = "open" /\ client = "idle" /\ pc = "idle" /\ op = "commit"
  /\ inTx = FALSE /\ seq = 0
  /\ ranges = {} /\ todo = {}
  /\ npages = InitPages /\ mem = ZeroVersions
  /\ hdr = [seq1 |-> 0, seq2 |-> 0, size |-> InitPages, sumOK |-> TRUE,
            snap |-> ZeroVersions]
  /\ dpages = npages /\ disk = mem /\ dhdr = hdr
  /\ clock = 0 /\ acked = ZeroVersions /\ loose = {}

(***************************************************************************)
(* Manager.Begin, as the first call of ApplyWithTx.  A Manager that still  *)
(* is in a transaction (its last Commit failed) returns nil at once.       *)
(***************************************************************************)
BeginNew ==
  /\ status = "open" /\ client = "idle" /\ pc = "idle" /\ ~inTx
  /\ hdr.seq1 < MaxSeq
  /\ seq' = hdr.seq1 + 1
  /\ hdr' = [hdr EXCEPT !.seq1 = seq', !.sumOK = FALSE]
  /\ ranges' = ranges \cup {HeaderPage}
  /\ inTx' = TRUE
  /\ client' = "apply"
  /\ NoPersist
  /\ UNCHANGED <<status, pc, op, todo, npages, mem, clock, acked, loose>>

BeginAgain ==
  /\ status = "open" /\ client = "idle" /\ pc = "idle" /\ inTx
  /\ client' = "apply"
  /\ NoPersist
  /\ UNCHANGED <<status, pc, op, inTx, seq, ranges, todo, npages, mem, hdr, clock, acked, loose>>

(***************************************************************************)
(* An edit of a cell in page p by the key and value editors (an NK, a VK,  *)
(* a big-data block, the header of an allocated cell): the bytes change    *)
(* and DirtyTracker.Add records them.                                      *)
(***************************************************************************)
Writable == setup.DataPages \cup {p \in Page : p >= InitPages}

Write(p) ==
  /\ status = "open" /\ client = "apply" /\ pc = "idle"
  /\ clock < MaxWrites
  /\ p < npages
  /\ clock' = clock + 1
  /\ mem' = [mem EXCEPT ![p] = clock']
  /\ ranges' = ranges \cup {p}
  /\ NoPersist
  /\ UNCHANGED <<status, client, pc, op, inTx, seq, todo, npages, hdr, acked, loose>>

(***************************************************************************)
(* A subkey list or a value list in a cell from page first to page last.   *)
(* Alloc records the 4 bytes of the cell's header; the writers of package  *)
(* subkeys and hive/values fill in the payload and record nothing, and     *)
(* their callers record the parent's NK cell.                              *)
(***************************************************************************)
WriteList(first, last) ==
  /\ status = "open" /\ client = "apply" /\ pc = "idle"
  /\ clock < MaxWrites
  /\ first < last /\ last < npages /\ first..last \subseteq Writable
  /\ clock' = clock + 1
  /\ mem' = [p \in HbinPage |-> IF p \in first..last THEN clock' ELSE mem[p]]
  /\ ranges' = ranges \cup {first}
  /\ loose' = loose \cup (((first + 1)..last) \ ranges)
  /\ NoPersist
  /\ UNCHANGED <<status, client, pc, op, inTx, seq, todo, npages, hdr, acked>>

(***************************************************************************)
(* FastAllocator.growByHBINSize as the protocol sees it: Hive.Append maps  *)
(* one page more, the HBIN header and master free cell are written there,  *)
(* the header gets the new data size and a fresh checksum, both recorded.  *)
(***************************************************************************)
\* (mutant) the data size counts the new HBIN twice.
GrowCountsTwice ==
  /\ status = "open" /\ client = "apply" /\ pc = "idle"
  /\ npages < MaxPages
  /\ clock < MaxWrites
  /\ npages' = npages + 1
  /\ clock' = clock + 1
  /\ mem' = [mem EXCEPT ![npages] = clock']
  /\ hdr' = [hdr EXCEPT !.size = @ + 2, !.sumOK = TRUE]
  /\ ranges' = ranges \cup {HeaderPage, npages}
  /\ NoPersist
  /\ UNCHANGED <<status, client, pc, op, inTx, seq, todo, acked, loose>>

Grow ==
  /\ status = "open" /\ client = "apply" /\ pc = "idle"
  /\ npages < MaxPages
  /\ clock < MaxWrites
  /\ npages' = npages + 1
  /\ clock' = clock + 1
  /\ mem' = [mem EXCEPT ![npages] = clock']
  /\ hdr' = [hdr EXCEPT !.size = @ + 1, !.sumOK = TRUE]
  /\ ranges' = ranges \cup {HeaderPage, npages}
  /\ NoPersist
  /\ UNCHANGED <<status, client, pc, op, inTx, seq, todo, acked, loose>>

\* ApplyWithTx when Apply returned an error: Manager.Rollback.
\* (mutant) Rollback restores PrimarySeq.
RollbackRestores ==
  /\ status = "open" /\ client = "apply" /\ pc = "idle"
  /\ inTx' = FALSE
  /\ client' = "idle"
  /\ hdr' = [hdr EXCEPT !.seq1 = hdr.seq2]
  /\ NoPersist
  /\ UNCHANGED <<status, pc, op, seq, ranges, todo, npages, mem, clock, acked, loose>>

Rollback ==
  /\ status = "open" /\ client = "apply" /\ pc = "idle"
  /\ inTx' = FALSE
  /\ client' = "idle"
  /\ NoPersist
  /\ UNCHANGED <<status, pc, op, seq, ranges, todo, npages, mem, hdr, clock, acked, loose>>

(***************************************************************************)
(* Tracker.FlushDataOnly, called by Manager.Commit and Session.Close.      *)
(***************************************************************************)
AfterFlush(caller) == IF caller = "commit" THEN "second" ELSE "header"
Pending == IF setup.Platform = "unix" THEN Coalesce(ranges) ELSE {Page}

FlushStart(caller) ==
  /\ status = "open" /\ pc = "idle"
  /\ IF caller = "commit" THEN client = "apply" /\ inTx ELSE client = "idle"
  /\ op' = caller
  /\ todo' = IF ranges = {} THEN {} ELSE Pending
  /\ pc' = IF ranges = {} THEN AfterFlush(caller) ELSE "flush"
  /\ NoPersist
  /\ UNCHANGED <<status, client, inTx, seq, ranges, npages, mem, hdr, clock, acked, loose>>

\* (mutant) Commit marks the header before it flushes the data.
CommitHeaderFirst ==
  /\ status = "open" /\ pc = "idle" /\ client = "apply" /\ inTx
  /\ op' = "commit"
  /\ pc' = "second"
  /\ NoPersist
  /\ UNCHANGED <<status, client, inTx, seq, ranges, todo, npages, mem, hdr, clock, acked, loose>>

CommitStart == FlushStart("commit")
CloseStart == FlushStart("close")

\* flush_unix.go / flush_windows.go: the next coalesced range.
FlushRangeUnix ==
  /\ setup.Platform = "unix" /\ pc = "flush" /\ todo # {}
  /\ \E run \in First(todo) :
       /\ todo' = todo \ {run}
       /\ IF Skipped(run) THEN NoPersist ELSE Persist(run)
  /\ UNCHANGED <<status, client, pc, op, inTx, seq, ranges, npages, mem, hdr, clock, acked, loose>>

\* flush_darwin.go: the whole mapping, header included.
FlushRangeDarwin ==
  /\ setup.Platform = "darwin" /\ pc = "flush" /\ todo # {}
  /\ todo' = {}
  /\ Persist({p \in Page : p < npages})
  /\ UNCHANGED <<status, client, pc, op, inTx, seq, ranges, npages, mem, hdr, clock, acked, loose>>

\* All ranges flushed: the slice is cleared.
FlushDone ==
  /\ pc = "flush" /\ todo = {}
  /\ ranges' = {}
  /\ pc' = AfterFlush(op)
  /\ NoPersist
  /\ UNCHANGED <<status, client, op, inTx, seq, todo, npages, mem, hdr, clock, acked, loose>>

(***************************************************************************)
(* The rest of Manager.Commit.                                             *)
(***************************************************************************)
SetSecondary ==
  /\ pc = "second"
  /\ hdr' = [hdr EXCEPT !.seq2 = seq, !.sumOK = FALSE, !.snap = mem]
  /\ pc' = "checksum"
  /\ NoPersist
  /\ UNCHANGED <<status, client, op, inTx, seq, ranges, todo, npages, mem, clock, acked, loose>>

SetChecksum ==
  /\ pc = "checksum"
  /\ hdr' = [hdr EXCEPT !.sumOK = TRUE]
  /\ ranges' = ranges \cup {HeaderPage}
  /\ pc' = "header"
  /\ NoPersist
  /\ UNCHANGED <<status, client, op, inTx, seq, todo, npages, mem, clock, acked, loose>>

\* FlushHeaderAndMeta: msync of the first page, ...

FlushHeader ==
  /\ pc = "header"
  /\ Persist({HeaderPage})
  /\ pc' = "sync"
  /\ UNCHANGED <<status, client, op, inTx, seq, ranges, todo, npages, mem, hdr, clock, acked, loose>>

\* ... then fdatasync unless the mode is FlushDataOnly (Close always syncs).
\* Commit returns nil and leaves the transaction; Close resets the tracker.
Sync ==
  /\ pc = "sync"
  /\ IF op = "commit" /\ setup.Mode = "FlushDataOnly"
       THEN NoPersist
       ELSE Persist({p \in Page : p < npages})
  /\ pc' = "idle"
  /\ inTx' = (inTx /\ op = "close")
  /\ acked' = IF op = "commit" THEN mem ELSE acked
  /\ ranges' = IF op = "close" THEN {} ELSE ranges
  /\ status' = IF op = "close" THEN "closed" ELSE status
  /\ client' = "idle"
  /\ loose' = IF op = "commit" /\ setup.Mode # "FlushDataOnly" THEN {} ELSE loose
  /\ UNCHANGED <<op, seq, todo, npages, mem, hdr, clock>>

\* A cancelled context or a failed msync/fdatasync: the error is returned
\* at once.  ApplyWithTx passes a Commit error on without a Rollback.
\* (mutant) a failed flush clears the tracker.
FlushFailsClears ==
  /\ pc \in {"flush", "second", "header", "sync"} \cap setup.Faults
  /\ pc' = "idle"
  /\ client' = "idle"
  /\ todo' = {}
  /\ ranges' = {}
  /\ NoPersist
  /\ UNCHANGED <<status, op, inTx, seq, npages, mem, hdr, clock, acked, loose>>

FlushFails ==
  /\ pc \in {"flush", "second", "header", "sync"} \cap setup.Faults
  /\ pc' = "idle"
  /\ client' = "idle"
  /\ todo' = {}
  /\ NoPersist
  /\ UNCHANGED <<status, op, inTx, seq, ranges, npages, mem, hdr, clock, acked, loose>>

(***************************************************************************)
(* External: writeback, crashes.                                           *)
(***************************************************************************)
Writeback(p) ==
  /\ status # "unopenable"
  /\ p < npages
  /\ IF p = HeaderPage THEN dhdr # hdr ELSE disk[p] # mem[p]
  /\ Persist({p})
  /\ UNCHANGED <<status, client, pc, op, inTx, seq, ranges, todo, npages, mem, hdr, clock, acked, loose>>

ProcessGone ==
  /\ status \in {"open", "closed"}
  /\ status' = "crashed"
  /\ client' = "idle" /\ pc' = "idle" /\ inTx' = FALSE
  /\ ranges' = {} /\ todo' = {}
  /\ UNCHANGED <<op, seq, clock, acked>>

\* The process dies; the mapping's pages stay in the page cache, but the
\* tracker of the process that opens the hive next has not heard of them.
ProcessCrash ==
  /\ "process" \in setup.Faults
  /\ ProcessGone
  /\ loose' = loose \cup {p \in HbinPage : disk[p] # mem[p]}
  /\ UNCHANGED mapping /\ NoPersist

\* The machine dies; only the disk is left.
PowerLoss ==
  /\ "power" \in setup.Faults
  /\ ProcessGone
  /\ npages' = dpages /\ mem' = disk /\ hdr' = dhdr
  /\ NoPersist /\ UNCHANGED loose

(***************************************************************************)
(* hive.Open after a Close or a crash.  ValidateSanity rejects a header    *)
(* that claims more than the file holds; slack beyond it is truncated.     *)
(* Open looks neither at the sequence numbers nor at the checksum.         *)
(***************************************************************************)
OpenRejects ==
  /\ status \in {"closed", "crashed"}
  /\ hdr.size > npages
  /\ status' = "unopenable"
  /\ NoPersist
  /\ UNCHANGED <<client, pc, op, inTx, seq, ranges, todo, npages, mem, hdr, clock, acked, loose>>

\* (mutant) the logical end leaves out the header page.
OpenForgetsHeader ==
  /\ status \in {"closed", "crashed"}
  /\ hdr.size <= npages
  /\ status' = "open"
  /\ npages' = hdr.size
  /\ dpages' = IF dpages > hdr.size THEN hdr.size ELSE dpages
  /\ mem' = [p \in HbinPage |-> IF p < hdr.size - 1 THEN mem[p] ELSE 0]
  /\ disk' = [p \in HbinPage |-> IF p < hdr.size - 1 THEN disk[p] ELSE 0]
  /\ inTx' = FALSE /\ seq' = 0 /\ ranges' = {} /\ todo' = {}
  /\ UNCHANGED <<client, pc, op, hdr, dhdr, clock, acked, loose>>

Open ==
  /\ status \in {"closed", "crashed"}
  /\ hdr.size <= npages
  /\ status' = "open"
  /\ npages' = hdr.size
  /\ dpages' = IF dpages > hdr.size THEN hdr.size ELSE dpages
  /\ mem' = [p \in HbinPage |-> IF p < hdr.size THEN mem[p] ELSE 0]
  /\ disk' = [p \in HbinPage |-> IF p < hdr.size THEN disk[p] ELSE 0]
  /\ inTx' = FALSE /\ seq' = 0 /\ ranges' = {} /\ todo' = {}
  /\ UNCHANGED <<client, pc, op, hdr, dhdr, clock, acked, loose>>

CommitStep ==
  \/ CommitStart \/ CloseStart \/ FlushRangeUnix \/ FlushRangeDarwin \/ FlushDone
  \/ SetSecondary \/ SetChecksum \/ FlushHeader \/ Sync \/ FlushFails

Step ==
  \/ BeginNew \/ BeginAgain
  \/ \E p \in Writable : Write(p)
  \/ \E first, last \in Writable : WriteList(first, last)
  \/ Grow \/ Rollback
  \/ CommitStep
  \/ \E p \in Page : Writeback(p)
  \/ ProcessCrash \/ PowerLoss \/ OpenRejects \/ Open

Next == Step /\ UNCHANGED setup

Spec == Init /\ [][Next]_vars
-----------------------------------------------------------------------------
(***************************************************************************)
(* Properties.                                                             *)
(***************************************************************************)
TypeOK ==
  /\ setup \in Setups
  /\ status \in {"open", "closed", "crashed", "unopenable"}
  /\ client \in {"idle", "apply"}
  /\ pc \in PcValues
  /\ op \in {"commit", "close"}
  /\ inTx \in BOOLEAN
  /\ seq \in 0..MaxSeq
  /\ ranges \subseteq Page
  /\ todo \subseteq SUBSET Page
  /\ npages \in 1..MaxPages
  /\ mem \in Versions /\ hdr \in Header
  /\ dpages \in 1..MaxPages
  /\ disk \in Versions /\ dhdr \in Header
  /\ clock \in 0..MaxWrites
  /\ acked \in Versions
  /\ loose \subseteq HbinPage

\* The pages FlushDataOnly can know of: macOS flushes the whole mapping, Linux
\* what the tracker was told.
Recorded == IF setup.Platform = "unix" THEN HbinPage \ loose ELSE HbinPage

\* The header on disk is never ahead of the data it stands for: whatever the
\* kernel wrote back and wherever a Commit stopped, the pages on disk are at
\* least as new as the ones the SecondarySeq on disk was set for.  This is
\* what the order "data pages, then header" of Manager.Commit is for.  It
\* holds of the recorded pages; the second page of a list, and what a dead
\* process left in the page cache, are beyond it on Linux until a Commit
\* has called fdatasync.
HeaderNeverAhead == \A p \in Recorded : dhdr.snap[p] <= disk[p]

\* When Commit reaches the point where it marks the transaction complete,
\* every recorded page the transaction changed is on disk ("Step 1: Flush all
\* dirty data pages"), even if earlier Commits failed half way.
DataBeforeHeader ==
  pc \in {"second", "checksum"} /\ op = "commit" => \A p \in Recorded : disk[p] = mem[p]

\* "After Commit() returns successfully, all changes are durable": no later
\* crash, failed Commit or reopening loses a page Commit has acknowledged,
\* recorded or not, where Commit ends with fdatasync; in mode FlushDataOnly
\* so much holds of the recorded pages.
AckedDurable ==
  \A p \in HbinPage : p \in Recorded \/ setup.Mode # "FlushDataOnly" =>
    acked[p] <= disk[p] /\ acked[p] <= dhdr.snap[p]

\* "If a crash occurs between Begin() and Commit(), PrimarySeq != SecondarySeq":
\* a header that says clean describes the pages that are there.
UncommittedIsDirty == IsClean(hdr) => hdr.snap = mem

\* So it is on every platform and in every mode, also after processes that died,
\* while flushes fail only before Commit touches the header and the power stays on.
\* (A Commit that fails later leaves a transaction open under a clean header, and
\* after a power loss pages and header need not be of the same moment.)
EarlyFaultsOnly == setup.Faults \cap {"header", "sync", "power"} = {}
CleanHeaderRight == EarlyFaultsOnly => UncommittedIsDirty
=============================================================================
