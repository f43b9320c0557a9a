# hivekit in TLA+

Specifications of hivekit, a library that reads and edits Windows registry
hives: how a hive is changed (transactions, allocator, editors, sessions,
builders, the two merge engines), how it is read (walkers, reader, printers,
diff, linker), how it is copied and repaired, and how the explorer shows it.
Modules are translated from the Go source; `PROJECT.json` maps each definition
to the lines it models.  Run TLC with `tlc -config X.cfg M` and TLAPS with
`tlapm MProofs.tla`.

## 1. The system

A hive file is a REGF header page followed by HBINs (multiples of 4 KiB) that are
tiled by cells; a cell is a key (NK), a value (VK), a list, data or free space,
and its signed size says whether it is allocated.  Edits are made in place
through a shared memory mapping.

| component (src/) | state | operations | what makes it correct |
|---|---|---|---|
| hive/tx | inTx, seq; the header's sequence numbers | Begin, Commit, Rollback | the header on disk never speaks of data that is not there; what Commit acknowledged stays |
| hive/dirty | the ranges recorded | Add, FlushDataOnly, FlushHeaderAndMeta, Reset | every dirty page is flushed, none is lost in coalescing |
| hive (loader, base block, iterators) | mapping, file, header fields | Open, Append, Close, HBIN and cell scans | a scan meets every cell |
| hive/alloc | free lists by size class, end index, HBIN table, bump region | Alloc, Free, Grow, GrowByPages, TruncatePages, EnableBumpMode, FinalizeBumpMode, NewFast | cells never overlap, space is not lost, a fitting cell is found |
| hive/verify | - | the structural checks | accepts every hive the allocator leaves |
| hive/edit (keys) | deferred parents | EnsureKeyPath, DeleteKey, deferred mode, flush | the tree is what the operations ask for; lists sorted, nothing dangling |
| hive/edit (values), hive/values, hive/bigdata | - | UpsertValue, DeleteValue | list, index and reader agree; no cell freed twice, also after a failure half way |
| hive/subkeys | - | Read, ReadRaw, Insert, RemoveByRef, Write, WriteRaw, MatchByHash | no child lost or doubled whatever the layout |
| hive/namecache | shards with LRU lists, shared by all readers | Lookup, Store, SetCapacity, Reset | a reader gets the name that its bytes stand for |
| hive/index | maps from parent and name to cell | Add, Get, Remove, Reset, pool | lookups are case-insensitive and exact |
| hive/merge, hive/merge/strategy | session, strategy, plan, index | Apply, ApplyWithTx, HasKeys, Close, single-pass apply | a committed plan has the effect of its operations in order, in every mode |
| internal/regmerge, internal/regtext, hive/merge/api.go, planner.go, merge_prefix.go | operations, sweep state | ParseReg, optimize, order, plans from and to text | the optimized plan has the effect of the text |
| hive/merge/v2 | trie, estimate, update queue | trie, annotate, estimate, execute, apply | same effect as the operations in order; the estimate covers what is written; a stop anywhere leaves a sound tree |
| hive/builder | pending plan, session | SetValue, DeleteKey, ..., Commit, Close | the hive is what all calls add up to, however they fall into batches |
| hive/walker, internal/reader (scan) | stack, visited bitmap | validate, count, index, partial index, scan | every cell reached once; ends on cyclic hives |
| internal/reader, hive/printer, hive/link, pkg/hive (read, diff) | the calls still to make | find, walk, print, export, link, diff | everything reachable is shown once, at the right path, within the limit |
| pkg/hive (util) | path slices, builder, files | Defragment, ValidateHive | the copy is the original; the original is replaced only by a whole one |
| internal/repair, internal/reader (diagnose, repair), pkg/types/repair.go | buffer, log, files | Diagnose, ApplyRepairs, rollback, backup, atomic write, restore | all or nothing; the file is whole at every moment |
| cmd/hiveexplorer | key tree, value table, bus, messages | key presses, load commands, listeners | the cursor is on a key; once all is quiet the panes show it |
| pkg/hive (write) | - | SetValue, DeleteKey, DeleteValue | a path names the same key by every way in |
| cmd/hivectl, bindings/hivex | thin layers | - | - |

Interaction.  A session opens a hive, builds an index by a walk, and owns a
dirty tracker, an allocator, a strategy with editors, and a transaction manager.
An operation of a plan goes through the strategy to an editor, which asks the
index, takes cells from the allocator, writes the mapping and reports ranges to
the tracker; Commit flushes the tracker's ranges and then the header.  A builder
collects operations into plans for a session of its own; Defragment and
LinkSubtree read one hive and feed a builder or a session.  merge/v2 uses the
same allocator in bump mode and flushes by itself.  Repair works on a copy of
the file and replaces it.  All readers of all hives share one name cache.  In the
explorer one update loop handles key presses and messages, while commands run in
goroutines and post their results.

Hard behaviours.  Two parts are concurrent inside the process: the name cache and
the explorer.  Elsewhere the other actors are the kernel, which writes pages of
the mapping back whenever it likes, and crashes.  The rest is protocol: deferred
lists that name cells other operations free and reuse; two owners of one new
HBIN; lists, end index and cell headers that must agree; a sort that moves
operations past each other; a plan that stops half way with nothing undone, and
the next plan on the same session; batches whose commit fails and which are
applied again; slices that share an array; a log that must be undone completely;
answers that arrive after the question has changed.  `hazards` in PROJECT.json
lists them line by line.

## 2. Modules

| module | models | uses |
|---|---|---|
| HiveTx | hive/tx, hive/dirty and the mapping, page by page, with kernel, crash and reopening | |
| DirtyRanges | Tracker.Add and coalesce on byte ranges | |
| CellStore | abstract: what an allocator promises | |
| FastAlloc | Alloc, Free, Grow, GrowByPages on free lists, end index, headers | |
| AllocModes | bump mode, TruncatePages, NewFast around FastAlloc | FastAlloc; implements CellStore |
| HiveVerify | hive/verify on what the allocator leaves | AllocModes |
| AllocLookup | size-class table and bisection | |
| KeyEdit | keyEditor under Session.Apply and the strategies | relies on what CellStore states: any free cell may be given |
| ValueEdit | the value editor, value lists, big data and the reader of values | relies on CellStore in the same way |
| ListWriter | the subkey lists written, in all four layouts | |
| SubkeyLists | the readers' ways of reading subkey and value lists | |
| NameCache | the sharded cache and the two decoders | |
| NameIndex | what an index is asked for: a case-insensitive map (string_index.go) | |
| NumericIndex | numeric_index.go | compared with NameIndex |
| BuildValues | text to bytes in the builder | |
| PlanText | plans to and from JSON, under a prefix, and from paths as text by each way in: merge, merge/v2, builder, facade | |
| MergeSession | sessions, strategies, single-pass apply | abstracts KeyEdit, ValueEdit, HiveTx to whole operations |
| HiveBuilder | the builder's batches | MergeSession |
| RegMerge | parser lines, sweep, ordering, plan, and the effect of a plan | |
| PatchMerge | merge/v2 | relies on AllocModes' bump mode |
| HiveWalk | walkers, index builders, the reader's scan | SubkeyLists |
| HiveRead | finding by path, printers, export, walks, linker | SubkeyLists |
| HiveDiff | ListKeys, ListValues, DiffHives, FilterDiffKeys | HiveRead |
| HiveCopy | Defragment, ValidateHive | SubkeyLists |
| Repair | diagnosis, dry run, engine, log, backup, atomic write, restore | |
| KeyTree | the explorer's tree: expand, collapse, filter, navigate | |
| Explorer | update loop, bus, listeners, loads, searches | KeyTree |
| HiveTxProofs, AlgorithmProofs, AllocProofs, ValueEditProofs, RepairProofs, ExplorerProofs, PatchMergeProofs, MergeSessionProofs | theorems about the module of that name (AlgorithmProofs: AllocLookup, DirtyRanges, NameCache and NumericIndex; AllocProofs: FastAlloc, AllocModes and HiveVerify) | |

`MC*` modules give constants for TLC.  MCWriteParts, MCKeyEdit, MCPlans and
MCReading each hold several independent specifications: a behaviour picks one part at the
start, the others stand still, and a property speaks of one part.  The parts that
theorems are about are extended, so that a run and a proof read one definition.  Operators marked `(mutant)` are wrong
variants of the definition that follows them; they are used to confirm that a
property can fail and occur in no specification.

**HiveTx.**  `mem`/`hdr` are the mapping, `disk`/`dhdr`/`dpages` what survives a
power loss; a page's content is the number of the write that made it.
`Persist` is msync and also unasked writeback.  `Coalesce` gives the maximal
runs of dirty pages, `Skipped` is the test of flushRanges that leaves out the
range at offset 0.  Commit is the steps FlushStart (nothing to do if the tracker
is empty), FlushRange*, FlushDone, SetSecondary, SetChecksum, FlushHeader, Sync;
FlushFails may end it at each step where msync, fdatasync or the context can
fail, after which ApplyWithTx returns with the manager still in the transaction.
An edit of a cell (`Write`) is reported to the tracker; a list of several pages
(`WriteList`) is not beyond its first one, because Alloc records the header of a cell
and the list writers nothing (subkeys/writer.go:125): those pages are `loose`, a
history, until something records them, and so are pages that a dead process left in
the page cache.  "unix" is Linux; on other systems
loader_other.go copies the file into the heap, and nothing is mapped.
`snap` in the header and `acked` are history.  `setup` never changes: the platform,
the flush mode, the pages edits may touch and what may go wrong (`Faults`).

**FastAlloc / AllocModes / HiveVerify.**  The unit is 8 bytes.  `word` is the cell
header at an offset, `free` all free lists together (the size says which list),
`endIdx` the end index.  A choice among equally good cells is left open.
allocFromLarge leaves its end-index entry behind, as the code does (run
alloc_large); `Classed` says that every request has a size class, so that only
larger requests meet it.  `session` is history: an allocator that finished a bump
batch ("spent") or truncated its file ("cut") serves no list request any more
(`ListsUsable`): merge/v2 makes an allocator per merge, and nothing outside the tests
truncates.  Inside a batch a request may exceed the region, and Alloc falls back to
lists that hold the region itself (`Overrun`); merge/v2 comes there, since its
estimate leaves lists out.  From then on (`overran`) cells may overlap, and no
property claims anything.  A process may die
inside a bump batch; NewFast then scans what is there.  HiveVerify evaluates the
checks of hive/verify on each of these states.

**DirtyRanges, AllocLookup.**  The two loops, an iteration per step; sort.Slice
may order equal offsets either way.

**KeyEdit.**  A cell is a key, a subkey list or free; lists are short enough for one
cell (the chunks of an RI list that removeFromParentSubkeyList replaces stay
allocated, nkedit.go:1195).  `use` says with which strategy and which paths the editor
is used.  Every
allocation may return any free cell.  `deferredParents` has the fields of the Go
struct.  EnsureKey, Descend, CreateKey, EnsureDone are EnsureKeyPath; DeleteKey,
FlushKey, FlushItsParent, RemoveKey are DeleteKey; FlushDeferredSubkeys frees all
old lists first and FlushOne writes the parents in any order, as a Go map gives
them.  `want` is history: the paths the operations ask for, in order.  A failed
or cancelled plan is the session's last.

**ValueEdit.**  One key.  A call is atomic, and given the number of allocations
that succeed in it (`Budgets`), so that it may fail at every one of them.  Lengths
are real bytes: 4 for inline data, the big-data limit and its padding.  `wanted`
is what was set successfully.  `AllocateVK`, `WriteList`, `FreeVK` and the others map
the state inside a call (cells, key, allocations left) to the next; `EndCall` makes the
last one the state of the hive, or reports the error with what was written so far.
`RoomFor` stands for the loop that allocates the blocks of big data: one cell for each,
or as many as the allocator still gives.

**ListWriter, SubkeyLists.**  A list is the value that its cells encode: lf and lh
with hashes, li without, ri with lists below.  ListWriter has the editor's
sequences of calls (read, insert or remove, write; raw reading and merging at a
flush).  Insertions and flushes free the old list first: when the new one finds no
room, or a child cannot be named, the list is lost (`Lost`) and the call returns an
error; a removal writes first, and loses nothing.  SubkeyLists has each reader's own
way with a list or an entry it cannot resolve: skip, stop or fail.  A ref that cannot
be resolved leads to no cell at all ("gone").  Refs to freed cells do not occur in the
hives that are read: hive.ResolveCellPayload follows them as if the cell were
allocated (cell_resolve.go:57), the other resolvers do not.

**NameCache.**  A decode is Lookup, Find, Decode, Store: lookup and store look at the
shard's capacity before they take its lock, so two readers, eviction, SetCapacity
(a shard at a time) and Reset interleave between any two of them.  A name is its
bytes and the encoding they were read in.

**MergeSession, HiveBuilder.**  An operation of a plan is one step, and nothing is
undone.  `h` holds keys with their lists, pending parents and the index; no path is
longer than MaxDepth, which bounds every walk down a tree or up a path.  A list that
is written at the end of Apply (`FlushFails`) or by DeleteKey (`DeleteFails`) may find
no room, in any order of the parents; with an allocator that frees, its old cell is
lost then.  A session is full, partial or single-pass; `Cancel` is a context checked between
operations; a plan that failed or was cut off may be followed by another plan on
the same session, or by a new session.  HiveBuilder adds the batches: a flush
whose commit fails keeps its plan, and the next call applies it again from the
start.

**PatchMerge.**  Trie, Annotate, Estimate, the recursive Execute as a stack of work
(`todo`), and ApplyUpdates one update at a time: the process may stop between any
two.  A cell is named by a number and new cells go behind the old ones (`top`), as
the bump allocator hands them out.  If cells were asked for that the estimate does not
count, the region may still hold them, in what rounding to pages left, or the merge
ends in the phase "overrun": what becomes of cells that may overlap is not followed.
HiveAssumption says what hive a merge is given:
keys, lists, values and data are there and form a tree, a list has no name twice, and
a key counts its values.

**NumericIndex.**  The collision maps of the Go type are never allocated outside
a test, so they are not part of the state: of two names with one hash the later
takes the entry of the earlier.  The three ways in which names are lowered are three
functions.  `bound` is what NameIndex, a map by lowered names, would hold, and
`touched` the names added or removed; both are history.

**RegMerge.**  Lines of one or more files become operations (a section emits a
CreateKey once per file), the sweep goes from the last to the first, `orderOps`
returns every order sort.Slice may produce, and `Execute` is what the session
does to keys and values.  `Run(ops)` is the reference, `Run(result)` the plan.
`Told` names the values about which the optimizer is known to be mistaken.

**HiveWalk.**  The iterative walk with its stack and its bitmap.  The Go code keeps
a pointer to the stack's top entry across an append: `room` is the capacity of
the stack's array, and when it is exceeded a write through that pointer is lost
(`lost`).  The scanner is the reader's own pass over all cells: it walks the tree and
then names orphans, at most maxIssuesPerReport of them (`DetectOrphans`).  `Reachable` is every
cell a key leads to; `PassedBy` are those that neither looks at.

**HiveRead, HiveDiff.**  A read is a stack of calls (`todo`); `job` says which
reader with which options.  HiveDiff compares what the facade's listings return,
so it inherits what they leave out.

**HiveCopy.**  A ref that leads to no cell ends the list it is in and is forgiven; a
missing, foreign or short list and an entry of another kind end the call (`Fatal`).
`heap` has the arrays of Go slices: a path is an array and a length,
and append writes into the array while there is room.  The builder keeps the
paths until its threshold is reached.  The process may end between two steps; the
next call finds what was left.

**Repair.**  The hive is a function from the fields repairs are about to their
contents.  `vis` is the directory as processes see it, `dur` as a crash leaves
it; a rename reaches `dur` with the fsync of the directory or by chance.

**KeyTree, Explorer.**  The tree is one record, its operations are functions on it
and the Explorer's actions apply them.  A listener is waiting, has posted a
message, or is gone; a load command ends at any time, for some keys with an error
(`Unread`), which nothing handles; messages are handled in any order.

## 3. Runs

| run | module, config | properties |
|---|---|---|
| tx | MCHiveTx, Tx | TypeOK, HeaderNeverAhead, DataBeforeHeader, AckedDurable, CleanHeaderRight |
| alloc | MCAllocModes, Alloc | FreeListsRight, WalkMeetsLive, VerifyAccepts, Implements (CellStore), WritesMarked |
| write_parts | MCWriteParts, WriteParts | SearchRight, RangesRight, CacheRight, ConversionsRight, SubkeysRight, ValuesRight, ValuesWhole, LookupRight, LoopsEnd |
| edit | MCKeyEdit, Edit | KeysRight, KeysWhole; PatchRight, PatchSafe |
| plans | MCPlans, Plans | CommittedRight, FailsForCause, HasKeysRight, CutOffSafe; BuilderRight; RegSame |
| reading | MCReading, Reading | WalksRight, WalkEnds; ReadsRight, DiffRight; CopiesRight; TreeSound, PatientView; AllOrNothing, FileSafe, Cured |
| tx_header_adjacent | MCHiveTx, TxHeaderAdjacent | **violation** of DataBeforeHeader |
| alloc_large | MCAllocModes, AllocLarge | **violation** of MergesRight |
| edit_reuse | MCKeyEdit, EditReuse | **violation** of TreeRight |
| reg_replace | MCPlans, RegReplace | **violation** of RegKeysSame |
| list_hash | MCWriteParts, ListHash | **violation** of HashesRight |
| defrag_siblings | MCReading, Defrag | **violation** of DefragKeeps |

What the runs show, and why their bounds are enough:

* **tx.**  Linux with failing Commits, growth, writeback and power loss: 4 pages growing
  to 5, 3 writes, of cells or of lists of two pages, 2 transactions, so a failed
  Commit is followed by a good one with a write after each.  Edits stay away from
  the page after the header (see tx_header_adjacent).  The same in mode FlushFull with
  processes that die, in mode FlushDataOnly, and on macOS, where flushes fail only
  before the header is touched, the power stays on and all pages may be edited.  The
  order of Commit holds of the pages that were recorded; what it acknowledged is
  durable on every page, because fdatasync writes also those that were not.
* **alloc.**  Two classes and a large list; pages of 4 units, a hive of up to 16 with
  HBINs of one or more pages; requests of 1 and 2 units, one for each class, meet
  exact fits, splits of class and large cells and merges on both sides; truncation
  by one and two pages; bump batches, finished, cut off, or asking for more than their
  region (the constraint `NotOverrun` ends the search there, as every property is
  about hives before that).  Structural verification holds after every call.  Larger requests are the matter of alloc_large.
* **write_parts.**  Size classes: the real default table and every 8-byte size up to
  20800, beyond the last boundary.  Ranges: pages of 3 bytes, 3 ranges, nested,
  equal, touching, apart, on and off a boundary.  Cache: two readers, four names,
  three of them in a shard of two entries, three reads.  Text: all inputs of up to
  8 bytes over NUL, a letter and half a surrogate.  Lists: five children, two of
  one hash, with the thresholds at 1 (lf to lh) and 2 (direct to ri) and leaves of
  2, so that every layout and each change of layout occurs.  Values: two names in
  three spellings, 12 cells, which two big values fill, and 3 calls; data inline,
  at the cell limit and big; 1, 2, 4, 5 or 9 allocations succeed, so calls fail in
  the blocks of big data, at their list, at the VK, at the value list, or not at
  all.  Index: two spellings of a name, another with the same hash, and one with a capital
  outside ASCII, 2 parents, 2 offsets, 3 names touched between two resets.
* **edit.**  7 cells, 3 names to depth 2, and one name to depth 3: lists of three
  children, nested pending parents, a deletion two levels above an earlier one, cells
  reused, and running out of cells.  `Uses` says which plans are
  mixed: those that create only or delete only, deferred, and any mix without
  deferral.  Patches: every plan of up to 2 operations on a hive of 11 cells with a
  big value, a shared security cell and keys at two levels, stopped anywhere.
* **plans.**  Sessions: 5 paths to depth 3 (MaxDepth), three hives, one of them with
  keys at every depth, plans of 2 operations followed by one of 1, in each mode, with
  Cancel and a list without room anywhere; so a plan can delete a key and then one two
  levels above it.  Builder: batches of 2,
  3 calls, 3 flushes, of which any commit may fail.  .reg: 2 files with 4
  operations on a key and a key below it, under a root in capitals and one in small
  letters, with a value name in two spellings and the default value.
* **reading.**  Every tree of four keys, with lists as lf, li, ri and nested ri, a big
  value, a class, and one damage: a list, sublist, value list, VK, data block or
  key that is gone, a value shorter than its type, a list that leads back to the
  root, a key listed twice; for copies also a count without a list, a list that is
  something else or names something else, and a value list that is missing or short.
  At most 2 orphans are named, so both cases of the limit occur.  Printers without limit and with limits 1 and 2, links
  of every strategy; diffs of pairs of hives with one change each; copies of these
  and of chains whose last key has a sibling four levels down, in batches of 3,
  over two calls, one of which may be cut off.  Explorer: six keys, one of which either pane cannot read, with 6 presses of a user who waits
  for what is under way, or 4 of which one came before the answers.  Repair: 3
  diagnostics and 2 calls, so a failure after two applied repairs and a second
  repair over the first one's file.

`SYMMETRY` permutes the cell references of KeyEdit, which are only compared; no
temporal property with an eventuality is checked in those runs.  `CHECK_DEADLOCK FALSE` stands where the bounds end the
behaviour: writes and transactions, a failed plan, a finished walk, the calls of a
builder or of ApplyRepairs, the key presses of a user.

Fairness.  LoopsEnd and WalkEnds assume weak fairness of the loop's own steps: the
bisection, the coalescing, the walk (not its cancellation).  They are sequential
Go code without waiting, so a step that can be taken is.  Nothing else assumes
fairness; in particular no message of the explorer and no writeback of the kernel
is assumed to arrive.

Exceptions.  Where the code departs from a property in a way the next list records,
the property names the exception in its definition and in its comment, says nothing of
what happens there, and holds everywhere else: `Overrun`, `WriteList`, `Lost`,
`FlushFails`, `Unread`, colliding hashes, roots in small letters and damage that ends a
walk all occur in the runs.  Where a property would have to be given up, the constants
of the run keep the case away instead: the page next to the header
(tx_header_adjacent), requests without a size class (alloc_large), mixed plans in
deferred mode (edit_reuse), data that begins with "db" (`PlainData`), diagnostics that
do not come from the scan (`foreign`), and RI lists in a cycle.

### The six findings

* **tx_header_adjacent.**  flush_unix.go skips each coalesced range that starts
  at offset 0.  Begin always marks the header page, so a dirty first HBIN page
  joins that range and is skipped: "Step 1: Flush all dirty data pages" leaves it
  out, and the sequence numbers are set equal before it is on disk.
* **alloc_large.**  allocFromLarge takes a cell from the large list and leaves its
  entry in endIdx; when the rest of the split is used up by other cells, a cell that
  begins where the old one ended merges with what is not there any more
  (fastalloc.go:1205; TryMergeWithPrev trusts the index).  Found by the proof of
  AllocSound, which fails at that call without `Classed`.
* **edit_reuse.**  A key deleted in a deferred batch gives its cell back at once;
  a key created later in the batch under the same parent may get that cell, and
  the flush, which drops every child in deletedNKRefs, drops the new key.
* **reg_replace.**  `[-k]` followed by `[k]` keeps both operations, and the order
  within a key puts creation before deletion, so the key is gone.
* **list_hash.**  A flush that only deletes or only inserts takes the raw entries of
  the old list; the hints of an LF list, or the zeros of an LI list, become the
  "hashes" of an LH list, and a search by hash misses those children
  (nkedit.go:491, 523).
* **defrag_siblings.**  copyHiveContents appends the child's name to its own path; with
  capacities 1, 2, 4 the paths of siblings at the fourth level share an array, and
  the builder, which keeps them until it flushes, applies the earlier sibling's
  operations to the later one (util.go:140).

### Other disagreements met while modelling

Each was seen in a TLC counterexample of these modules with the constants given,
or follows from the lines named, and is not a run of its own.

* HiveTx, a setup with `Faults` {"power"}: UncommittedIsDirty fails; Begin does not flush the
  header, so a data page can be on disk under a header that says clean
  (tx.go:12 promises a mismatch).  With {"header"} it fails as well, after a
  Commit that failed late (session.go:339).  Open never looks at the sequence
  numbers, though tx.go:185 says that reopening "will detect" a mismatch.
* HiveTx, `WriteList`: the later pages of a list are not recorded although
  strategy/doc.go:166 says "All strategies must properly track dirty ranges"; on Linux
  they may be missing on disk when the header says that the transaction is complete, until
  fdatasync, and in mode FlushDataOnly after Commit returned.
* AllocModes, after `Overrun`: Implements fails.  The HBIN EnableBumpMode adds
  is in the free list too (bump.go:58), so a fall-back allocation, which bump.go:31
  calls transparent, overlaps the bump region; TruncatePages cuts pages with live cells
  when its caller asks for it (fastalloc.go:951, 926).
* size_classes.go:109 says sizes from MediumMax up use the large list; the last
  boundary of the default table lies above MediumMax.
* KeyEdit with mixed plans: children created out of order reach
  mergeRawAndNewEntries unsorted (`"append"`, deferred; nkedit.go:510, 668);
  deleting a key with pending grandchildren frees cells that pending lists name
  (nkedit.go:893), and so does deleting twice, the second time two levels
  above the first, which the run reaches and NoBadRef names; the hybrid strategy's second editor is not
  deferred (`"hybrid"`; hybrid.go:138); lists of mixed-case names are sorted by
  spelling (`Names = {2, 11}`; nkedit.go:204, 550).
* ValueEdit: the big-data writer adds no padding while the reader takes
  DBBlockPadding off each block, so big values with fewer than 4 spare bytes in the
  last block cannot be read; setting a big value again with the same type and
  length fails; freeVK leaves big data behind, and old value lists are never
  freed; data that begins with "db" is taken for a big-data header.
* ListWriter: RemoveByRef takes every leaf of an RI list for LH and loses every
  second child of an LI leaf; an immediate insertion drops siblings whose names
  cannot be decoded; insertions and flushes free old lists before a merge or an
  allocation that may fail, and leave the parent with a freed list (nkedit.go:418, 487,
  516, 557, 616); WriteRaw's comment "writes LH format for all lists" (LF up
  to 12 entries).
* NameCache: a store that looked at the capacity before SetCapacity(0) leaves an
  entry in an emptied shard, though cache.go:117 says that a capacity of 0 "disables
  caching and clears all entries"; CacheBounded gives such a shard room for
  one.  The cache is keyed by bytes without the encoding, so a name read as one-byte text
  is returned for the same bytes as UTF-16 (subkeys/reader.go:888, 1022); CacheRight
  speaks of bytes met in one encoding.
* NumericIndex: two names of one hash take over and remove each other's entries
  (numeric_index.go:148; :22 says that collisions are handled), and a name with a
  capital letter outside ASCII is stored and sought under different hashes (:113).
  LookupRight names both (`Mistaken`).
* MergeSession: single-pass apply sets values a second time in its second phase,
  skips creations below a deleted path and fails on a repeated DeleteKey; a plan
  cut off after a DeleteKey in deferred mode leaves the parent's list naming a freed
  key, and one cut off after a creation leaves the index knowing keys no list
  holds; a flush that finds no room leaves parents whose old lists were freed without
  a list, and the keys below are lost; the second phase of single-pass apply passes
  over keys for which there is no room and reports success (walk_apply.go:503);
  api.go:316 calls a plan atomic, and nothing is undone.  A plan of deletions
  alone can fail: with an index, deleting a\b\c leaves the removal pending at b
  (removeDeferredChild, nkedit.go:1205), deleting a then frees b with its subtree
  (DeleteKey flushes only a and its parent, nkedit.go:864), and the flush at the end
  finds "points to free cell" at b (flushDeferredParent, nkedit.go:443), with the
  deletions made and the parent's list still naming a.  FailsForCause names it (DeletesAgainAbove).  It was
  met in the proof of SInv, where a pending parent could not be shown allocated.
  HasKey("") asks for a child without a name, so the root is reported missing, and
  walkPathExists' case of an empty path (session.go:760) is never reached.
* HiveBuilder: a flush that is repeated first writes the pending lists of the failed
  one; an operation that fails stays in the plan and fails every later flush; root
  prefixes are stripped also when StripHiveRootPrefixes is false; FlushMode,
  SlackPct and PreallocPages are ignored.
* RegMerge: a later section header drops an earlier default value
  (optimizer.go:160); a value name in two spellings is kept twice, and either may come
  last (:111); a root in small letters is dropped by the optimizer and kept as a key by
  the plan (api.go:279).  ValuesSame names these values (`Told`).  A creation dropped because the key is deleted later
  would have created its parents (:163).
* PlanText: types above 11 become `UNKNOWN_n`, which is not parsed back; a prefix
  that is only a root is dropped; api.go's stripping knows no HKCC.  A root in small
  letters, or with nothing behind it, is stripped by merge/v2 and by the builder's
  normalizePathArray (builder.go:522) and kept as a key name by the others; the facade
  strips no root and keeps empty names (write.go:188).
* PatchMerge: the estimate leaves out the root's list, the lists of new parents and
  lists that only lose entries, though estimate.go:31 calls it exact; when the rest of
  the last page does not hold them, cells overlap (AllocModes).  Of a big value only the
  header is freed (execute.go:258), which NothingLeaks names.  Both sequence numbers are written together at the
  end (apply.go:139), while a comment speaks of a marker for a write in progress; DeleteValue and
  DeleteKey on a missing key create it; of the operations on one key a DeleteKey
  wins whatever the order; two values set under one name append two VKs; the
  root's values are dropped by a plan that names nothing else; cells of deleted keys are never freed.
* HiveWalk: the stale stack entry visits a key twice; LI lists are read with the
  stride of LF lists; leaves of RI lists and block lists are never visited
  (counter.go:54: "statistics about all reachable cells"); a cycle of RI lists never
  ends; WalkSubkeys fails on a key without subkeys; the partial index leaves out
  the root's values, and the keys below one whose value list is gone (partial.go:172).
  The scan counts data, block lists and RI leaves as orphans, and names ten of them
  (diagnose.go:518).  None of this is claimed to be right by WalksRight.
* HiveRead: a depth limit of n shows levels 1 to n as text, 0 to n as .reg and 0 to
  n - 1 as JSON; the text printer gives up at a value it cannot decode;
  no reader but the walkers notices a cycle; a child named like the root, or like
  an alias such as HKLM, resolves to the root, and behind the name of a root called
  HKEY_LOCAL_MACHINE two names are cut off (path.go:79, 157); importing the root's values ignores the conflict strategy;
  .reg cuts binary data at MaxValueBytes.
* HiveDiff: the root's own values are never compared; lists and data that cannot be
  read count as empty.
* HiveCopy: a hive.tmp that a crashed call left is opened and added to; a child or
  value that cannot be resolved drops its later siblings, and the shortened copy
  replaces the original, while a missing or unknown list makes the whole call fail
  (util.go:445); nested RI lists are copied as empty; a big value makes the
  call fail; a root key named HKLM loses a level; class, security and time stamps
  are not copied.  ValidateHive skips what follows an unresolved cell.
* Repair, `foreign |-> TRUE`: a repair that fails verification after it was
  written is not undone (engine.go:287).  The repair of a sequence mismatch
  writes the number that is there (diagnose.go:90-94); Cured therefore speaks of
  automatic repairs.  A dry run does not call Apply and passes truncations that
  fail; restoring computes a name without the time stamp CreateBackup adds
  (pkg/types/repair.go:59, writer.go:121) and writes in place; a second backup in
  the same second replaces the first.
* Explorer: a listener that wakes for a cancelled event is never started again, and
  an event between a message and the next subscription is not heard
  (valuetable/model.go:131-155, keyinfo.go:52, bus.go:44-72), so PatientView speaks
  of a user who waits; a key that cannot be read leaves the values and the information
  of the key before it in the panes, without a message (valuetable/model.go:188, whose
  errMsg the main update does not handle; keyinfo.go:97); values are shown without comparing their path; answers to
  the bookmark key may overtake each other; a tree that arrives after a search was
  typed is lost when the search is cleared; Enter with an empty value search leaves
  the program busy; a late search result is applied after the search was cancelled.
* Facade (not in a model): DeleteKey ignores `recursive`, Limits are accepted and
  not enforced, and encodeUTF16LEString cuts characters beyond the BMP
  (pkg/hive/write.go).

## 4. Proofs

TLAPS proves, for every value of the constants that meets the named assumptions:

* **HiveTxProofs**: TypeCorrect, HeaderOrder (HeaderNeverAhead), FlushOrder
  (DataBeforeHeader), Durability (AckedDurable), of the pages that the tracker was told
  of (`Recorded`; on macOS and after fdatasync all).  All but type correctness assume
  `Separated`: macOS, or no edit next to the header, which is what tx_header_adjacent
  refutes.  The
  invariants are not inductive: HeaderNeverAhead needs to know what the header in
  *memory* stands for, because the kernel may write it at any moment, and that
  depends on where Commit is and on the tracker knowing every page that is not on
  disk.  IInv says so in parts: Control, Monotone (disk <= mem), Covered (both
  headers stand for pages on disk), Stages (per step of Commit), Tracked.  One
  lemma per part, one case per action.
  CleanHeader (CleanHeaderRight) needs no such condition: on every platform and in
  every mode, where flushes fail only before the header is touched and the power stays
  on (`EarlyFaultsOnly`, in the property), a clean header describes only flushed pages;
  section 3 says what happens otherwise.  The part it adds, Sealed, says where the two
  sequence numbers stand while a transaction is open and at each step of Commit.
* **AlgorithmProofs**, the dirty ranges: CoalesceRight (RangesRight): the pages of the result are
  those the ranges touch, in maximal runs, for every page size and any number of
  ranges.  The invariant: the aligned copy is sorted and has the same ranges
  (AlignedRight); the ranges put away and the current one cover what the loop has
  seen, with a gap between, and the current one starts no later than the last one
  seen (LoopRight); what was put away
  is whole pages with gaps between (MergedRight).
* **AlgorithmProofs**, the size classes: TableIncreases (BoundariesIncrease) and LookupCorrect
  (SearchRight) from ConfigAssumption, which asks that the first logarithmic step
  is no shorter than the last linear one (true of the four predefined
  configurations) - without it the table need not increase.  LookupInv adds that
  classes below `lo` are too small and those above `hi` are too large to be first.
* **AllocProofs**: AllocSound (the invariant), ListsAreRight (FreeListsRight),
  WalkIsComplete (WalkMeetsLive), AllocImplements (the refinement of CellStore: a cell
  handed out overlaps no live one, and only Free changes a live one) and
  WritesAreMarked (WritesMarked), for every page size, table of classes, limit and
  set of requests that meets `Classed`, and as long as no bump batch overran its
  region; what happens otherwise is in section 3.  That lists, end index and headers agree is not
  inductive without the geometry of the file.  Inv has four parts: CellsSound (bins
  lie apart; every header lies in a bin, is its first or begins where another ends,
  and covers no other; what follows the last cell is zero; no two free cells touch),
  ListsSound (lists and end index are exactly the free cells), BumpSound (the bump
  region is the last bin, its cells end at the cursor, and nothing is behind it) and
  NeverStuck.  The lemmas say what one
  primitive change (Put, Split, Join, AppendAt, Cut) does to that geometry; every
  action is a composition of them.  The walk, which is a recursive function, is
  shown complete by the smallest offset it would miss.
  VerifyIsContent (VerifyAccepts) needs one part more, FileSound: bins of whole pages
  follow each other from the first page to the end of the file, and the last cell of a
  finished bump batch reaches it.
* **AlgorithmProofs**, the name cache: CacheIsRight (CacheRight) for any number of readers, shards,
  names and capacities.  What a reader was given can only be traced through the
  entry it found: every entry's name is what its bytes stand for in an encoding
  they were met in (ShardsRight), and so is what readers hold (ReadersRight).
* **AlgorithmProofs**, the name index: LookupsRight (LookupRight) for all names, hash
  functions and ways of lowering (`NameAssumption` gives their types): an answer is
  wrong only after an operation, under the same parent, on a name that can be mistaken
  for the one looked up.  The property is inductive: an operation changes one entry and
  touches one name, and either that entry is the one sought, or the names are told
  apart, or one is mistaken for the other and touched from now on (UpdateRight).
* **ValueEditProofs**: ValuesAreRight (ValuesRight) and ValuesAreWhole (ValuesWhole)
  for every set of names, data, cells and budgets and any number of calls, failed
  ones too, provided that no data begins with "db" (`PlainData`): such data is taken
  for a big-data header and its deletion frees cells of others (section 3).  That the
  list is right is not inductive without what is in the cells.  ValueInv says of each
  name in the index what its VK and its data cells hold (Kept), that the cells of two
  values are disjoint, that the list which the key describes has each VK of the index
  once, and, as long as no call has failed, what the unowned cells are (Leaks).  The
  lemmas follow the code: allocation, blocks, big data, VK and list each write only
  cells that were free (Extends), so a call that fails half way has disturbed
  nothing (SoundGrows); a call that succeeds has freed only cells of the value it
  replaced or deleted (Called), so the other values stay (OthersStay).
* **RepairProofs**: RepairSound (the invariant), BatchIsUndone (AllOrNothing),
  FileIsSafe (FileSafe), RepairCures (Cured), for any diagnostics and
  configurations, any number of calls, crashes and failing writes.  BatchIsUndone
  assumes `NoForeign`, diagnostics of hivekit's own scan; section 3 says what happens
  otherwise.  Typed and Shapes say what diagnostics of which hive a call was
  given; Ordered, per stage, which of the visible and the durable directory hold the
  old file, the new one and the backup; Placed, where the temporary file is; Applying
  relates buffer, log and status to the repairs already applied.  AllOrNothing
  also needs Logged: the log replayed backwards gives the original, though several
  entries may be about one field.  The engine's filter is a recursive function; that it
  is one, and keeps only what it was given, is shown by the smallest counterexample.
* **ExplorerProofs**: WaitingUserSees (PatientView) for every hive and any number of
  key presses.  The operations of the tree stay opaque: all that is used is that an
  operation announces at most one event.  Once nothing is under way a pane could
  still be behind, so the invariant says where the last event is while it travels:
  for each listener it is shown, or in the channel, in its message, or in the one
  load of that listener (ListenerRight); a load of a waiting user is never about
  another event (LoadsRight); a message is alone, with every pane settled
  (MessagesRight); and the bookmark message repeats what the key has done
  (MarksRight).  A load that fails ends like one that succeeds, and the pane is behind
  for good: UpToDate excepts keys that cannot be read.  Nothing is claimed once a key was rushed: then it fails (section 3).
* **PatchMergeProofs**: PatchIsSafe (PatchSafe) for every hive that meets
  HiveAssumption, every plan and any number of cells; of a merge that may have overrun
  its region, up to the application of its queue.  That nothing reachable is free
  says nothing of the updates still queued, and that the tree is the old one nothing
  of the cells written beside it; the invariant adds both.  CellsSound: every key of
  the file, old or new, is sound.  OldKept: until the queue is applied the old cells
  are what they were, and new keys have no lists yet.  Matched: a node that has a key
  has one of its name and security cell, which no other node has.  QueueShaped and
  QueueSound: every update is of the right group and about a cell of the right kind, and
  a list it installs is sound and will not be freed, so each update may be applied on
  its own.  FreedLast, the heart of it: a cell that waits to be freed is referred to only
  by a field that a queued update of an earlier group will change, so when its turn
  comes nothing refers to it.  OwnValues: an old value in a new list is one of the same
  key, without which freeing one key's values would break another's.  TodoShaped,
  TodoOnce and TodoFresh: the stack of Execute comes to a node's values and to its list
  once, and finds them as Annotate read them, so no cell is put into a list after it
  was queued to be freed.  A path of any length is followed by
  a recursive function (KeyAt); that it leads from one sound key to another, and that
  the old tree is still read the same, is shown by the shortest path that would not.
* **MergeSessionProofs**: SessionCutOffSafe (CutOffSafe) and SessionHasKeysRight
  (HasKeysRight) for any paths, hives, plans, modes and number of plans and retries;
  SessionAssumption asks that the paths are distinct and no longer than MaxDepth and
  that a hive to begin with has the parent of each of its keys.  SessionCutOffSafe
  includes flushes and deletions that find no room for a list; the one exception, an
  allocator that freed the old list, is in the property.  That the hive can be
  indexed again is not inductive: an operation leaves removals and new children
  pending, and whether the lists will be right depends on them and on where the index
  leads.  SInv says, as long as the hive is not spoilt: Sound, every key has its
  parent one level above it (Layered), lists, pending children and index entries are
  of that parent (Owned), and a list names only allocated keys and keys whose
  removal is pending (Alive); Whole, outside a plan that frees keys no list names a
  freed key; what is pending never takes a key from a plan that does not delete, and
  the paths found before it are still found (HiveKept).  Of the index: it leads from
  allocated keys to allocated ones (Leads); on a session that is not spoilt what it
  names is in the list as it will be once written (Virtual, Indexed), and a full one
  names all of that (Full).  Every editor is shown to be an edit that keeps these
  (Moved) and, if it deletes nothing, only adds (Edited); a deletion takes the whole
  subtree, so nothing left over leads into it (RemovedMoved).  Subtrees, paths and
  walks are recursive functions; that each exists and does what its name says is
  shown by the smallest counterexample, and MaxDepth levels are enough because every
  step leads one level down (ClosureClosed).

Model-checked only:

* liveness (LoopsEnd, WalkEnds): out of the prover's reach;
* WalksRight, ReadsRight, DiffRight, CopiesRight: about definitions that recurse
  over trees of lists (SubkeyLists, HiveRead, HiveDiff, HiveCopy, HiveWalk), for
  which there is neither induction over data nor an SMT backend;
* ConversionsRight, SubkeysRight: what a fold over an input of any length computes,
  which is again an induction over data; big values read back block by block
  (BigWhole) are among them;
* PatchRight: MergedRight compares the tree with a fold over the plan, an induction
  over data; its other parts (order of the lists, counts, leaks, the estimate) are
  not proved either;
* CommittedRight and BuilderRight compare the tree with a fold over the operations
  of a plan, RegSame two folds over the lines of files: inductions over data.
  FailsForCause needs the history of the whole plan (which keys were deleted, and
  where), which SInv does not have;
* KeysRight, KeysWhole and TreeSound: not proved; the operations of KeyEdit and
  KeyTree rebuild whole lists and trees with recursive functions, and each would need
  an argument of its own like that for Closure in MergeSessionProofs.

## 5. Not modelled, and the plan

Not modelled: decoding and encoding of cells and headers as bytes (a cell is a
record); reference counts of security cells in the editors (hive/edit/skedit.go
is used by nothing; merge/v2's counts are in PatchMerge); statistics and logging;
staleness of Go slices after a remap (cells are named by offset); escapes and hex
payloads of .reg text; UTF-16 tables beyond what BuildValues needs; the facade's
backups, limits and values given as text; the command line and the hivex
bindings, which forward; failing system calls in Hive.Append and Hive.Truncate; of the
explorer drawing, scrolling, dialogs, the diff view and quitting, and the lazy
loading of children, which Init never leaves to do.

Theorems worth adding:

1. MergeSession: FailsForCause, with the deletions of the plan so far in the invariant.
2. KeyEdit: NothingDangles in immediate mode.
3. PatchMerge: ListsOrdered, from the order that InOrder gives the entries.
