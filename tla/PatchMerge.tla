----------------------------- MODULE PatchMerge -----------------------------
(***************************************************************************)
(* The second merge engine (hive/merge/v2): a plan becomes a trie of key   *)
(* nodes (trie), the trie is matched against the hive (walk), the space it *)
(* needs is estimated (plan), the new cells are written beside the old     *)
(* ones while every change to an old cell is queued (write), and the queue *)
(* is applied in three groups before the header is written (flush).        *)
(*                                                                         *)
(*   ops     the operations of the plan, in order                          *)
(*   trie    path -> node; the node keeps what Annotate read of the hive   *)
(*   cells   ref -> cell; Unset is a freed or unused cell                  *)
(*   top     where new cells go: every cell from there on is unused        *)
(*   todo    the work of Execute that is left, innermost first             *)
(*   queue   the in-place updates: a set, for Apply sorts them             *)
(*   gained  SK ref -> keys created with it                                *)
(*   need    the cells Estimate counted, used the ones Execute allocated   *)
(*   hdr     the two sequence numbers in the mapping                       *)
(*                                                                         *)
(* A key is the sequence of its names, a name a number, so that the order  *)
(* of names is the order of numbers.  Lists stay below the size that would *)
(* split them.  Freeing is the write of a size: of a big value only the    *)
(* data header goes, and its blocks stay (kind "blocks").                  *)
(***************************************************************************)
EXTENDS Integers, Sequences, SequencesExt, FiniteSets

CONSTANTS PatchPaths, \* the paths that plans name, with the root <<>>
          Tried,      \* the plans
          Hive,       \* the cells of the hive before the merge
          HiveRoot,   \* the root key's cell
          MaxCell     \* bound on the cells, new ones after the old

VARIABLES phase, ops, trie, cells, top, todo, queue, gained, need, used, hdr

patchVars == <<phase, ops, trie, cells, top, todo, queue, gained, need, used, hdr>>

Invalid == 0
Unset == [kind |-> "free"]
Cells == 1..MaxCell
Deleted == "deleted"        \* the value of a delete-value operation
Inline == "inline"          \* a value kept in its VK, other values have a data cell
Kind(p, k) == <<p, k, 0>>
VkKind(p, i) == <<p, "vk", i>>

\* The members of S in the order of the numbers that f gives them.
InOrder(S, f) ==
  [i \in 1..Cardinality(S) |-> CHOOSE x \in S : Cardinality({y \in S : f[y] < f[x]}) = i - 1]

OldHive == [r \in Cells |-> IF r \in DOMAIN Hive THEN Hive[r] ELSE Unset]

PatchInit ==
  /\ phase = "build"
  /\ ops \in Tried
  /\ trie = <<>>
  /\ cells = OldHive
  /\ top = Len(Hive) + 1
  /\ todo = <<>> /\ queue = {} /\ gained = <<>>
  /\ need = {} /\ used = {}
  /\ hdr = [seq1 |-> 0, seq2 |-> 0]

-----------------------------------------------------------------------------
(* Reading a hive with the cells C. *)

Entries(C, list) == IF list = Invalid \/ C[list] = Unset THEN <<>> ELSE C[list].refs
ChildOf(C, r, name) ==
  LET es == Entries(C, C[r].subs)
      hit == {i \in DOMAIN es : C[es[i]].name = name}
  IN IF hit = {} THEN Invalid ELSE es[CHOOSE i \in hit : TRUE]
KeyAt(C, p) ==
  LET at[k \in 0..Len(p)] ==
        IF k = 0 THEN HiveRoot
        ELSE IF at[k - 1] = Invalid THEN Invalid ELSE ChildOf(C, at[k - 1], p[k])
  IN at[Len(p)]

-----------------------------------------------------------------------------
(* What makes a key sound, and the hive before the merge. *)

VkSound(C, v) ==
  C[v].kind = "vk" /\ (C[v].data # Invalid => C[v].data \in Cells /\ C[C[v].data].kind = "data")
ListSound(C, l) ==
  l # Invalid => /\ l \in Cells /\ C[l].kind = "values" /\ C[l].refs \in Seq(Cells)
                 /\ \A v \in Range(C[l].refs) : VkSound(C, v)
SubsSound(C, l) ==
  l # Invalid => /\ l \in Cells /\ C[l].kind = "subkeys" /\ C[l].refs \in Seq(Cells)
                 /\ \A e \in Range(C[l].refs) : C[e].kind = "nk"
KeySound(C, r) ==
  /\ r \in Cells /\ C[r].kind = "nk"
  /\ C[r].sk \in Cells /\ C[C[r].sk].kind = "sk"
  /\ SubsSound(C, C[r].subs) /\ ListSound(C, C[r].list)

\* The cells of a list of values.
ValueCells(C, l) ==
  IF l = Invalid THEN {}
  ELSE ({l} \cup Range(C[l].refs) \cup {C[v].data : v \in Range(C[l].refs)}) \ {Invalid}

NkCell == [kind : {"nk"}, name : Nat, parent : Nat, sk : Nat,
           subs : Nat, nsubs : Nat, list : Nat, nvals : Nat]
OldKeys == {r \in DOMAIN Hive : Hive[r].kind = "nk"}
Op == [is : {"ensure", "delete", "set", "unset"}, path : Seq(Nat), name : Nat, val : STRING]

ASSUME PlansAssumption == (\A t \in Tried : t \in Seq(Op)) /\ \A p \in PatchPaths : p \in Seq(Nat)

\* Keys, their lists, values and data form a tree.
ASSUME HiveAssumption ==
  /\ Hive \in Seq(Range(Hive)) /\ MaxCell \in Nat /\ Len(Hive) <= MaxCell
  /\ \A r \in DOMAIN Hive : Hive[r].kind = "sk" => DOMAIN Hive[r] = {"kind", "count"}
  /\ HiveRoot \in OldKeys
  /\ \A r \in OldKeys :
       /\ Hive[r] \in NkCell /\ KeySound(OldHive, r)
       /\ Hive[r].nvals = (IF Hive[r].list = Invalid THEN 0 ELSE Len(Hive[Hive[r].list].refs))
       /\ Hive[r].subs # Invalid =>
            \A e \in Range(Hive[Hive[r].subs].refs) :
              /\ e # HiveRoot /\ Hive[e].parent = r
              /\ \A f \in Range(Hive[Hive[r].subs].refs) : Hive[e].name = Hive[f].name => e = f
       /\ Hive[r].list # Invalid =>
            \A v, w \in Range(Hive[Hive[r].list].refs) :
              v # w /\ Hive[v].data # Invalid => Hive[v].data # Hive[w].data
  /\ \A r, s \in OldKeys : r # s =>
       /\ Hive[r].subs # Invalid => Hive[r].subs # Hive[s].subs
       /\ ValueCells(OldHive, Hive[r].list) \cap ValueCells(OldHive, Hive[s].list) = {}

-----------------------------------------------------------------------------
(* Building and annotating the trie. *)

Named == {<<>>} \cup UNION {{SubSeq(ops[i].path, 1, k) : k \in 0..Len(ops[i].path)} : i \in DOMAIN ops}

\* attachOp: a key is ensured by its node alone.
OpsAt(p, kinds) == {i \in DOMAIN ops : ops[i].path = p /\ ops[i].is \in kinds}
ValueOps(p) ==
  LET S == OpsAt(p, {"set", "unset"})
      q == InOrder(S, [i \in S |-> i])
  IN [k \in 1..Cardinality(S) |->
        [name |-> ops[q[k]].name, val |-> IF ops[q[k]].is = "set" THEN ops[q[k]].val ELSE Deleted]]
NewNode(p) ==
  [del |-> OpsAt(p, {"delete"}) # {}, vals |-> ValueOps(p), ref |-> Invalid, sk |-> Invalid,
   subs |-> Invalid, nsubs |-> 0, list |-> Invalid, nvals |-> 0]

Build ==
  /\ phase = "build" /\ phase' = "annotate"
  /\ trie' = [p \in Named |-> NewNode(p)]
  /\ UNCHANGED <<ops, cells, top, todo, queue, gained, need, used, hdr>>

Kids(p) == {q \in DOMAIN trie : q # <<>> /\ Front(q) = p}
ByName(S) == InOrder(S, [p \in S |-> Last(p)])
Exists(p) == trie[p].ref # Invalid

\* Without key operations below the root, the root itself stays unmatched.
Annotate ==
  /\ phase = "annotate" /\ phase' = "estimate"
  /\ trie' = IF Kids(<<>>) = {} THEN trie
             ELSE [p \in DOMAIN trie |->
                    LET r == KeyAt(cells, p) IN
                    IF r = Invalid THEN trie[p]
                    ELSE [trie[p] EXCEPT !.ref = r, !.sk = cells[r].sk,
                                         !.subs = cells[r].subs, !.nsubs = cells[r].nsubs,
                                         !.list = cells[r].list, !.nvals = cells[r].nvals]]
  /\ UNCHANGED <<ops, cells, top, todo, queue, gained, need, used, hdr>>

-----------------------------------------------------------------------------
(* Estimating the space. *)

Sets(p) == {i \in DOMAIN trie[p].vals : trie[p].vals[i].val # Deleted}

\* The cells one node is expected to need.  The walk leaves out the root.
NodeNeeds(p) ==
  (IF ~Exists(p) THEN {Kind(p, "nk")} ELSE {})
  \cup {VkKind(p, i) : i \in Sets(p)}
  \cup (IF Exists(p) /\ \E q \in Kids(p) : ~Exists(q) THEN {Kind(p, "subkeys")} ELSE {})
  \cup (IF Sets(p) # {} THEN {Kind(p, "values")} ELSE {})

Estimate ==
  /\ phase = "estimate" /\ phase' = "execute"
  /\ need' = UNION {NodeNeeds(p) : p \in DOMAIN trie \ {<<>>}}
  /\ todo' = <<[do |-> "node", p |-> <<>>]>>
  /\ UNCHANGED <<ops, trie, cells, top, queue, gained, used, hdr>>

-----------------------------------------------------------------------------
(* Executing. *)

Doing(what) == phase = "execute" /\ todo # <<>> /\ Head(todo).do = what
Here == Head(todo).p

\* Children first, then the node's values, then its list; whether the list must be
\* rebuilt is decided before the children are created.
ProcessNode ==
  /\ Doing("node")
  /\ LET p == Here
         kids == ByName(Kids(p))
         rebuild == Exists(p) /\ \E q \in Kids(p) : ~Exists(q) \/ trie[q].del
     IN todo' = [i \in DOMAIN kids |-> [do |-> "child", p |-> kids[i]]]
                \o <<[do |-> "values", p |-> p]>>
                \o (IF rebuild THEN <<[do |-> "list", p |-> p]>> ELSE <<>>)
                \o Tail(todo)
  /\ UNCHANGED <<phase, ops, trie, cells, top, queue, gained, need, used, hdr>>

Bump(f, r) == [x \in DOMAIN f \cup {r} |-> IF x \in DOMAIN f THEN f[x] + (IF x = r THEN 1 ELSE 0) ELSE 1]

\* A child marked for deletion is skipped with everything below it; a missing one is
\* created, whatever its operations are.
ProcessChild ==
  /\ Doing("child")
  /\ LET p == Here
         up == trie[Front(p)]
         deeper == <<[do |-> "node", p |-> p]>> \o Tail(todo)
     IN IF trie[p].del
        THEN todo' = Tail(todo) /\ UNCHANGED <<trie, cells, top, gained, used>>
        ELSE IF Exists(p)
        THEN todo' = deeper /\ UNCHANGED <<trie, cells, top, gained, used>>
        ELSE /\ top \in Cells
             /\ todo' = deeper
             /\ cells' = [cells EXCEPT ![top] =
                            [kind |-> "nk", name |-> Last(p), parent |-> up.ref, sk |-> up.sk,
                             subs |-> Invalid, nsubs |-> 0, list |-> Invalid, nvals |-> 0]]
             /\ top' = top + 1
             /\ trie' = [trie EXCEPT ![p].ref = top, ![p].sk = up.sk]
             /\ gained' = IF up.sk = Invalid THEN gained ELSE Bump(gained, up.sk)
             /\ used' = used \cup {Kind(p, "nk")}
  /\ UNCHANGED <<phase, ops, queue, need, hdr>>

Update(cat, r, field, val) == [cat |-> cat, ref |-> r, field |-> field, val |-> val]
Frees(R) == {Update(2, r, "free", 0) : r \in {s \in R \ {Invalid} : cells[s] # Unset}}

\* The new cells of a node's values: for each value set a data cell if the data does
\* not fit inline, then its VK; the list comes after them.
DataRef(i) == top + 2 * i - 2
VkRef(i) == top + 2 * i - 1
ListRef(p) == top + 2 * Len(trie[p].vals)
External(p, i) == trie[p].vals[i].val # Inline
NewVK(p, i) == [kind |-> "vk", name |-> trie[p].vals[i].name, val |-> trie[p].vals[i].val,
                data |-> IF External(p, i) THEN DataRef(i) ELSE Invalid]
Written(p, refs) ==
  [r \in Cells |->
     IF \E i \in Sets(p) : r = VkRef(i) THEN NewVK(p, CHOOSE i \in Sets(p) : r = VkRef(i))
     ELSE IF \E i \in Sets(p) : External(p, i) /\ r = DataRef(i) THEN [kind |-> "data"]
     ELSE IF refs # <<>> /\ r = ListRef(p) THEN [kind |-> "values", refs |-> refs]
     ELSE cells[r]]

\* Old VKs of the names touched leave the list, with their data.
OldValues(p) == SubSeq(Entries(cells, trie[p].list), 1, trie[p].nvals)
Touched(p, r) == \E i \in DOMAIN trie[p].vals : trie[p].vals[i].name = cells[r].name
GoneValues(p) == {r \in Range(OldValues(p)) : Touched(p, r)}
KeptValues(p) ==
  LET S == Range(OldValues(p)) \ GoneValues(p)
  IN InOrder(S, [r \in S |-> CHOOSE i \in DOMAIN OldValues(p) : OldValues(p)[i] = r])
NewValues(p) == LET S == {VkRef(i) : i \in Sets(p)} IN InOrder(S, [r \in S |-> r])

ProcessValues ==
  /\ Doing("values")
  /\ todo' = Tail(todo)
  /\ LET p == Here
         all == KeptValues(p) \o NewValues(p)
         list == IF all = <<>> THEN Invalid ELSE ListRef(p)
     IN IF ~Exists(p) \/ trie[p].vals = <<>>
        THEN UNCHANGED <<trie, cells, top, queue, used>>
        ELSE /\ ListRef(p) \in Cells
             /\ cells' = Written(p, all)
             /\ top' = ListRef(p) + 1
             /\ queue' = queue \cup Frees(GoneValues(p) \cup {cells[r].data : r \in GoneValues(p)})
                               \cup {Update(0, trie[p].ref, "nvals", Len(all)),
                                     Update(0, trie[p].ref, "list", list)}
                               \cup Frees({trie[p].list})
             /\ trie' = [trie EXCEPT ![p].list = list, ![p].nvals = Len(all)]
             /\ used' = used \cup {VkKind(p, i) : i \in Sets(p)}
                             \cup (IF list = Invalid THEN {} ELSE {Kind(p, "values")})
  /\ UNCHANGED <<phase, ops, gained, need, hdr>>

\* The entries that leave an old list, those that stay, and those that come.
GoneKeys(p) == {trie[q].ref : q \in {k \in Kids(p) : trie[k].del}}
KeptKeys(p, old) ==
  LET S == Range(old) \ GoneKeys(p)
  IN InOrder(S, [r \in S |-> CHOOSE i \in DOMAIN old : old[i] = r])
NewKeys(p, old) ==
  LET S == {q \in Kids(p) : ~trie[q].del /\ Exists(q) /\ trie[q].ref \notin Range(old)}
  IN [i \in 1..Cardinality(S) |-> trie[ByName(S)[i]].ref]

\* (mutant) new entries go to the end
MergedAtEnd(p, old) == KeptKeys(p, old) \o NewKeys(p, old)

\* New entries among old ones are placed by name, replacing an entry of the same
\* name; otherwise one of the two sequences is empty and their order is kept.
Merged(p, old) ==
  LET kept == KeptKeys(p, old)
      new == NewKeys(p, old)
      other == {r \in Range(kept) : \A s \in Range(new) : cells[s].name # cells[r].name}
  IN IF old = <<>> \/ new = <<>> THEN kept \o new
     ELSE InOrder(other \cup Range(new), [r \in other \cup Range(new) |-> cells[r].name])

RebuildSubkeyList ==
  /\ Doing("list")
  /\ todo' = Tail(todo)
  /\ LET p == Here
         all == Merged(p, IF trie[p].nsubs = 0 THEN <<>> ELSE Entries(cells, trie[p].subs))
         list == IF all = <<>> THEN Invalid ELSE top
     IN /\ all # <<>> => top \in Cells
        /\ cells' = IF list = Invalid THEN cells
                    ELSE [cells EXCEPT ![list] = [kind |-> "subkeys", refs |-> all]]
        /\ top' = IF list = Invalid THEN top ELSE top + 1
        /\ queue' = queue \cup {Update(0, trie[p].ref, "nsubs", Len(all)),
                                Update(0, trie[p].ref, "subs", list)}
                          \cup Frees({trie[p].subs})
        /\ trie' = [trie EXCEPT ![p].subs = list, ![p].nsubs = Len(all)]
        /\ used' = IF list = Invalid THEN used ELSE used \cup {Kind(p, "subkeys")}
  /\ UNCHANGED <<phase, ops, gained, need, hdr>>

FlushSKRefcounts ==
  /\ phase = "execute" /\ todo = <<>> /\ phase' = "apply"
  /\ queue' = queue \cup {Update(1, s, "count", cells[s].count + gained[s]) : s \in DOMAIN gained}
  /\ UNCHANGED <<ops, trie, cells, top, todo, gained, need, used, hdr>>

\* Estimate's total is the room of the bump region, rounded up to whole pages.  Cells it did
\* not count may fit what the rounding leaves, or Alloc falls back to lists that hold the
\* region itself (AllocModes: Overrun) and new cells may lie over each other.  The hive that
\* Apply makes of those is not followed.
Overrun ==
  /\ phase = "execute" /\ todo = <<>>
  /\ need # {} /\ used \ need # {}
  /\ phase' = "overrun"
  /\ UNCHANGED <<ops, trie, cells, top, todo, queue, gained, need, used, hdr>>

\* An allocation fails: the queue is dropped, the cells written stay where they are.
AllocFails ==
  /\ phase = "execute" /\ todo # <<>>
  /\ phase' = "failed" /\ queue' = {}
  /\ UNCHANGED <<ops, trie, cells, top, todo, gained, need, used, hdr>>

\* The context is checked before each phase that changes nothing.
CancelMerge ==
  /\ phase \in {"build", "annotate", "estimate"}
  /\ phase' = "failed"
  /\ UNCHANGED <<ops, trie, cells, top, todo, queue, gained, need, used, hdr>>

-----------------------------------------------------------------------------
(* Flushing: by category, then by offset. *)

FieldOffset == [nsubs |-> 1, subs |-> 2, nvals |-> 3, list |-> 4, count |-> 5, free |-> 0]

\* (mutant) cells are freed before the keys point elsewhere
BeforeFreesFirst(u, v) == u.cat > v.cat \/ (u.cat = v.cat /\ u.ref < v.ref)

Before(u, v) == \/ u.cat < v.cat
                \/ u.cat = v.cat /\ u.ref < v.ref
                \/ u.cat = v.cat /\ u.ref = v.ref /\ FieldOffset[u.field] < FieldOffset[v.field]

ApplyUpdate ==
  /\ phase = "apply"
  /\ \E u \in queue :
       /\ \A v \in queue : ~Before(v, u)
       /\ cells' = IF u.field = "free" THEN [cells EXCEPT ![u.ref] = Unset]
                   ELSE [cells EXCEPT ![u.ref][u.field] = u.val]
       /\ queue' = queue \ {u}
  /\ UNCHANGED <<phase, ops, trie, top, todo, gained, need, used, hdr>>

\* Both sequence numbers are written before anything is flushed.
FinalizeHeader ==
  /\ phase = "apply" /\ queue = {} /\ phase' = "done"
  /\ hdr' = [seq1 |-> hdr.seq1 + 1, seq2 |-> hdr.seq1 + 1]
  /\ UNCHANGED <<ops, trie, cells, top, todo, queue, gained, need, used>>

PatchNext == \/ Build \/ Annotate \/ Estimate \/ CancelMerge
             \/ ProcessNode \/ ProcessChild \/ ProcessValues \/ RebuildSubkeyList
             \/ FlushSKRefcounts \/ Overrun \/ AllocFails \/ ApplyUpdate \/ FinalizeHeader

PatchSpec == PatchInit /\ [][PatchNext]_patchVars

-----------------------------------------------------------------------------
(* What a plan means: its operations one after the other, on the tree alone. *)

ValuesAt(C, r) == LET vs == SubSeq(Entries(C, C[r].list), 1, C[r].nvals)
                  IN [i \in DOMAIN vs |-> <<C[vs[i]].name, C[vs[i]].val>>]
TreeOf(C) == [p \in {q \in PatchPaths : KeyAt(C, q) # Invalid} |-> Range(ValuesAt(C, KeyAt(C, p)))]
OldTree == TreeOf(OldHive)

Ensure(t, p) == [q \in DOMAIN t \cup {SubSeq(p, 1, k) : k \in 0..Len(p)} |->
                   IF q \in DOMAIN t THEN t[q] ELSE {}]
Run(t, op) ==
  LET drop(S) == {v \in S : v[1] # op.name}
  IN CASE op.is = "ensure" -> Ensure(t, op.path)
       [] op.is = "delete" -> [q \in {x \in DOMAIN t : ~IsPrefix(op.path, x)} |-> t[q]]
       [] op.is = "set" -> [Ensure(t, op.path) EXCEPT ![op.path] = drop(@) \cup {<<op.name, op.val>>}]
       [] op.is = "unset" -> IF op.path \in DOMAIN t THEN [t EXCEPT ![op.path] = drop(@)] ELSE t

\* Plans the trie can represent: one operation for each value, none at or below a
\* key that is deleted, nothing deleted that is not there, a key below the root.
PlainOps ==
  /\ \A i, j \in DOMAIN ops : i # j =>
       /\ ~(ops[i].is = "delete" /\ IsPrefix(ops[i].path, ops[j].path))
       /\ ~(ops[i].path = ops[j].path /\ ops[i].name = ops[j].name
            /\ ops[i].is \in {"set", "unset"} /\ ops[j].is \in {"set", "unset"})
  /\ \A i \in DOMAIN ops : ops[i].is \in {"delete", "unset"} => ops[i].path \in DOMAIN OldTree
  /\ \E i \in DOMAIN ops : ops[i].path # <<>>

-----------------------------------------------------------------------------
(* Properties. *)

\* A finished merge leaves the keys and values that the operations of the plan leave
\* one after the other (execute.go, subkeymerge.go, annotate.go).
MergedRight ==
  phase = "done" /\ PlainOps =>
    LET T == TreeOf(cells)
    IN T = FoldLeft(Run, OldTree, ops) /\ \A p \in DOMAIN T : Len(ValuesAt(cells, KeyAt(cells, p))) = Cardinality(T[p])

\* Every subkey list a key refers to is sorted by name without repetition, and as long
\* as the key says, in every state outside the application of the queue.
ListsOrdered ==
  phase # "apply" =>
    \A r \in Cells : cells[r].kind = "nk" =>
      LET es == Entries(cells, cells[r].subs)
      IN /\ Len(es) = cells[r].nsubs
         /\ \A i, j \in DOMAIN es : i < j => cells[es[i]].name < cells[es[j]].name

\* Wherever the process stops, also between two updates, what can be reached from the
\* root is allocated: a cell is freed only when nothing refers to it any more
\* (flush/apply.go: "Ordering of categories determines write safety").
CrashSafe == \A p \in PatchPaths : KeyAt(cells, p) # Invalid => KeySound(cells, KeyAt(cells, p))

\* The cells a tree of keys is made of.
CellsOf(r) == {r, cells[r].sk, cells[r].subs} \cup ValueCells(cells, cells[r].list)
ReachableCells == UNION {CellsOf(KeyAt(cells, p)) : p \in {q \in PatchPaths : KeyAt(cells, q) # Invalid}}

\* A finished merge that deletes no key leaves no cell that nothing refers to: what it
\* replaces is freed (processValues, rebuildSubkeyList, queueCellFree), but for the blocks of
\* a big value, of which processValues frees only the data header.
Blocks == {r \in Cells : cells[r].kind = "blocks"}
NothingLeaks ==
  phase = "done" /\ PlainOps /\ (\A i \in DOMAIN ops : ops[i].is # "delete") =>
    {r \in Cells : cells[r] # Unset} \subseteq ReachableCells \cup Blocks

\* A security cell counts the keys that refer to it, deleted ones included, whose
\* cells are never freed.
RefcountRight ==
  phase = "done" =>
    \A s \in Cells : cells[s].kind = "sk" =>
      cells[s].count = Cardinality({r \in Cells : cells[r].kind = "nk" /\ cells[r].sk = s})

\* Until the queue is applied, and when the merge fails, the tree is the old one, also when
\* new cells may overlap.
FailsWhole ==
  phase \in {"build", "annotate", "estimate", "execute", "overrun", "failed"} => TreeOf(cells) = OldTree

\* The space that Estimate counted (plan/estimate.go: "computes exactly how many bytes of
\* new cells the write phase will need to allocate") covers every cell that Execute allocates,
\* but for what belongs to the root, the lists of keys that are new, and the lists that only
\* lose an entry.
EstimateKnown ==
  \A u \in used \ need :
    \/ u[1] = <<>>
    \/ u[2] = "subkeys" /\ (Kind(u[1], "nk") \in used \/ \A q \in Kids(u[1]) : Kind(q, "nk") \notin used)
    \/ u[2] = "values" /\ Sets(u[1]) = {}

\* A patch whose new cells all found room in the bump region has made the tree that its
\* operations, one after the other, make; subkey lists are in order, the security cell counts
\* the keys that use it and what was replaced is freed.  Of the patches for which the room may
\* be short (phase "overrun", nothing is claimed of what they make) it says which they are:
\* those that write the root's cells, lists of new keys, or lists that only lose entries.
PatchRight == MergedRight /\ ListsOrdered /\ RefcountRight /\ NothingLeaks /\ EstimateKnown

\* A patch that fails has not changed the tree, and one that stops anywhere leaves nothing in
\* the tree that is free.  Of a patch that asked for more than the bump region holds this is
\* claimed until its queue is applied (phase "overrun" ends the behaviour there).
PatchSafe == CrashSafe /\ FailsWhole
=============================================================================
