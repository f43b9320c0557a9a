----------------------------- MODULE MCKeyEdit -----------------------------
(* Instances of KeyEdit and PatchMerge for TLC: the two ways keys are written.  A       *)
(* behaviour is one of those named in Parts; the other part stays where it starts.      *)
EXTENDS KeyEdit, PatchMerge

CONSTANTS Parts
VARIABLES part

OtherRefs == Permutations(Ref \ {Root})

PathsOf(names, depth) == UNION {[1..n -> names] : n \in 1..depth}
Use(strategy, deferred, mixed, paths) ==
  [strategy |-> strategy, deferred |-> deferred, mixed |-> mixed, paths |-> paths]

\* Plans of one kind under the in-place and the append strategy, the editor
\* used directly for creations and deletions in any order, and plans of one
\* kind on a chain of keys three deep.
Disciplined ==
  LET wide == PathsOf({11, 12, 13}, 2)
  IN {Use("inplace", TRUE, FALSE, wide), Use("append", TRUE, FALSE, wide),
      Use("inplace", FALSE, TRUE, wide), Use("inplace", TRUE, FALSE, PathsOf({11}, 3))}

\* Plans that both delete and create, as Session.Apply is given them.
MixedPlans == {Use("inplace", TRUE, TRUE, PathsOf({11, 12}, 1))}

-----------------------------------------------------------------------------
(* Patches: plans of up to two operations on a root with a key 1 (with a big value and *)
(* a child 1\1) and a key 3; all share one security cell.                              *)
MCPatchPaths == {<<>>, <<1>>, <<1, 1>>, <<1, 2>>, <<2>>, <<2, 1>>, <<3>>}
Nk(name, parent, subs, nsubs, list, nvals) ==
  [kind |-> "nk", name |-> name, parent |-> parent, sk |-> 2,
   subs |-> subs, nsubs |-> nsubs, list |-> list, nvals |-> nvals]
MCHive == <<Nk(0, 0, 3, 2, 0, 0), [kind |-> "sk", count |-> 4], [kind |-> "subkeys", refs |-> <<4, 8>>],
            Nk(1, 1, 6, 1, 5, 1), [kind |-> "values", refs |-> <<7>>],
            [kind |-> "subkeys", refs |-> <<9>>], [kind |-> "vk", name |-> 1, val |-> "old", data |-> 10],
            Nk(3, 1, 0, 0, 0, 0), Nk(1, 4, 0, 0, 0, 0),
            [kind |-> "data", more |-> 11], [kind |-> "blocks"]>>

\* The values of name 1 are kept inline, those of name 2 are not.
PatchOp(is, path, name) == [is |-> is, path |-> path, name |-> name,
                            val |-> IF name = 1 THEN "inline" ELSE "new"]
PatchOps == {PatchOp(is, p, 0) : is \in {"ensure", "delete"}, p \in MCPatchPaths \ {<<>>}}
            \cup {PatchOp(is, p, n) : is \in {"set", "unset"}, p \in {<<>>, <<1>>, <<1, 2>>}, n \in {1, 2}}
MCTried == UNION {[1..n -> PatchOps] : n \in 1..2}

-----------------------------------------------------------------------------
MCInit ==
  /\ part \in Parts
  /\ Init /\ PatchInit
  /\ part = "keys" => ops = CHOOSE t \in Tried : TRUE
  /\ part = "patch" => use = CHOOSE u \in Uses : TRUE

MCNext ==
  \/ part = "keys" /\ Next /\ UNCHANGED <<part, patchVars>>
  \/ part = "patch" /\ PatchNext /\ UNCHANGED <<part, vars>>

MCSpec == MCInit /\ [][MCNext]_<<part, vars, patchVars>>
-----------------------------------------------------------------------------
\* When Apply has returned without an error, the hive holds exactly the keys that the
\* operations so far ask for, the index leads to the same cells, and every list is sorted,
\* without repetition.
KeysRight == TreeRight /\ IndexRight /\ ListsSorted

\* When Apply has returned without an error, no list names a cell that is no child of its
\* owner and no cell is lost (lists of one cell); no operation meets a cell that an earlier one
\* freed, but for the list of a key that was deleted from further above while it was pending.
KeysWhole == NothingDangles /\ NoBadRef
=============================================================================
