---------------------------- MODULE MergeSession ----------------------------
(***************************************************************************)
(* Merging plans into a hive: Session of hive/merge/session.go, the        *)
(* strategies it drives, and the single-pass applier of walk_apply.go.     *)
(*                                                                         *)
(* The hive is mapped memory, so every edit is there at once and nothing   *)
(* is undone; only the subkey lists wait for the end of Apply (deferred    *)
(* mode).  The editors' own steps are in modules KeyEdit and ValueEdit;    *)
(* here an operation of a plan is one step, an allocated cell is never one *)
(* freed before in the run, and a key has at most one value name.  A list  *)
(* is the set of its entries.  Of the allocations those fail here that     *)
(* write lists, at the end of Apply and in DeleteKey; those of a new key   *)
(* or value fail in KeyEdit and ValueEdit.  Counts of what was done        *)
(* (Applied), time stamps and the flushes of Commit and Close (module      *)
(* HiveTx) are left out.                                                   *)
(***************************************************************************)
EXTENDS Naturals, Sequences, FiniteSets, SequencesExt

CONSTANTS
  PathOrder,      \* the key paths plans use, in the order of normalizePath
  Hives,          \* the hives to begin with: path |-> has it a value
  Threshold,      \* Options.IndexThreshold
  UpperThreshold, \* PartialIndexUpperThreshold
  MaxDepth,       \* bound on the length of a path
  MaxOps, MaxNext, \* bounds on the length of the first and of a later plan
  MaxPlans        \* bound on the number of plans and retries

Paths == Range(PathOrder)
Root == 0

ASSUME SessionAssumption ==
  /\ PathOrder \in Seq(Seq(Nat)) /\ MaxDepth \in Nat /\ MaxOps \in Nat /\ MaxNext \in Nat
  /\ \A k \in DOMAIN PathOrder : Len(PathOrder[k]) <= MaxDepth
  /\ \A j, k \in DOMAIN PathOrder : PathOrder[j] = PathOrder[k] => j = k
  /\ \A f \in Hives : /\ DOMAIN f \subseteq Paths /\ <<>> \in DOMAIN f
                       /\ \A q \in DOMAIN f : q # <<>> => Front(q) \in DOMAIN f

VARIABLES
  h,        \* the hive and the editor's view of it, a record: see NewHive
  session,  \* "none", or how it finds keys: "single", "partial", "full"
  plan, pc, \* the plan, and where its application is
  todo,     \* keys the single-pass walk has still to visit
  deleted,  \* walkApplier.deleted
  i,        \* the next operation, or the next path of phase 2
  plans,    \* how many plans were begun
  base,     \* history: the tree when the plan was first begun
  spoilt    \* history: what earlier plans may have left behind: "no"thing,
            \* a "session" whose index knows keys no list names, "twins" of
            \* keys or values, or a "hive" with lists that name freed keys
            \* or are freed themselves

vars == <<h, session, plan, pc, todo, deleted, i, plans, base, spoilt>>

Op(do, path) == [do |-> do, path |-> path]
Creates(op) == op.do \in {"ensure", "set"}

(***************************************************************************)
(* The hive.  A key: its parent and name, the entries of its list, its     *)
(* values (VK cells with their data), whether the cell is allocated and    *)
(* whether the list's cell is.  nk and vk are the index; pend the children *)
(* added and removed that no list shows yet; frees, whether the session's  *)
(* allocator frees cells (the append strategy's does not).                 *)
(***************************************************************************)
Key(p, s) == [parent |-> p, name |-> s, kids |-> {}, vals |-> <<>>, live |-> TRUE, listed |-> TRUE]

\* The hive with the paths of f, numbered by PathOrder.
NewHive(f) ==
  LET ref(p) == IF p = <<>> THEN Root ELSE CHOOSE k \in DOMAIN PathOrder : PathOrder[k] = p
      path(r) == IF r = Root THEN <<>> ELSE PathOrder[r]
      refs == {ref(p) : p \in DOMAIN f}
  IN [node |-> [r \in refs |->
                  [Key(IF r = Root THEN Root ELSE ref(Front(path(r))),
                       IF r = Root THEN 0 ELSE Last(path(r)))
                     EXCEPT !.kids = {c \in refs \ {Root} : Front(path(c)) = path(r)},
                            !.vals = IF f[path(r)] THEN <<[vk |-> 100 + r, data |-> 0]>> ELSE <<>>]],
      nk |-> {}, vk |-> {}, pend |-> <<>>, next |-> Len(PathOrder) + 1, ok |-> TRUE, frees |-> TRUE]

Failed(H) == [H EXCEPT !.ok = FALSE]

\* index.GetNK, WalkPath, GetVK, AddVK, RemoveVK.
GetNK(H, p, s) == {e.ref : e \in {x \in H.nk : x.parent = p /\ x.name = s}}
WalkPath(H, path) ==
  LET at[k \in 0..Len(path)] ==
        IF k = 0 THEN {Root} ELSE UNION {GetNK(H, p, path[k]) : p \in at[k - 1]}
  IN at[Len(path)]
AddNK(H, p, s, r) ==
  {e \in H.nk : e.parent # p \/ e.name # s} \cup {[parent |-> p, name |-> s, ref |-> r]}
GetVK(H, r) == {e.vk : e \in {x \in H.vk : x.key = r}}
PutVK(H, r, S) == {e \in H.vk : e.key # r} \cup {[key |-> r, vk |-> v] : v \in S}

(***************************************************************************)
(* The editors.                                                            *)
(***************************************************************************)
NothingPending == [add |-> {}, del |-> {}]
PendingOf(H, p) == IF p \in DOMAIN H.pend THEN H.pend[p] ELSE NothingPending
Pend(H, p, d) == [q \in DOMAIN H.pend \cup {p} |-> IF q = p THEN d ELSE H.pend[q]]
Unpend(H, p) == [q \in DOMAIN H.pend \ {p} |-> H.pend[q]]

\* (mutant) the list of the parent is written with the new child alone.
CreateKeyAtOnce(H, p, s) ==
  LET r == H.next
  IN IF ~H.node[p].live THEN Failed(H)
     ELSE [H EXCEPT !.node = [q \in DOMAIN H.node \cup {r} |->
                               IF q = r THEN Key(p, s)
                               ELSE IF q = p THEN [H.node[q] EXCEPT !.kids = {r}] ELSE H.node[q]],
                    !.nk = AddNK(H, p, s, r),
                    !.next = @ + 1]
\* keyEditor.createKey in deferred mode.
CreateKey(H, p, s) ==
  LET r == H.next
      d == PendingOf(H, p)
  IN IF ~H.node[p].live THEN Failed(H)
     ELSE [H EXCEPT !.node = [q \in DOMAIN H.node \cup {r} |-> IF q = r THEN Key(p, s) ELSE H.node[q]],
                    !.nk = AddNK(H, p, s, r),
                    !.pend = Pend(H, p, [d EXCEPT !.add = @ \cup {r}]),
                    !.next = @ + 1]

\* EnsureKeyPath from the root: the hive after it and the key it leads to.
EnsureSegment(here, s) ==
  LET there == GetNK(here.hive, here.ref, s)
  IN IF ~here.hive.ok THEN here
     ELSE IF there # {} THEN [hive |-> here.hive, ref |-> CHOOSE r \in there : TRUE]
     ELSE [hive |-> CreateKey(here.hive, here.ref, s), ref |-> here.hive.next]
EnsureKeyPath(H, path) ==
  LET at[k \in 0..Len(path)] ==
        IF k = 0 THEN [hive |-> H, ref |-> Root] ELSE EnsureSegment(at[k - 1], path[k])
  IN at[Len(path)]

\* valueEditor.UpsertValue: nothing is done when the value is already so.
UpsertValue(H, r, data) ==
  LET vals == H.node[r].vals
      old == GetVK(H, r)
      new == [vk |-> 100 + H.next, data |-> data]
      same == \E k \in 1..Len(vals) : vals[k].vk \in old /\ vals[k].data = data
      put == IF old = {} THEN Append(vals, new)
             ELSE [k \in 1..Len(vals) |-> IF vals[k].vk \in old THEN new ELSE vals[k]]
  IN IF ~H.node[r].live THEN Failed(H)
     ELSE IF same THEN H
     ELSE [H EXCEPT !.node[r].vals = put, !.vk = PutVK(H, r, {new.vk}), !.next = @ + 1]

DeleteValue(H, r) ==
  LET old == GetVK(H, r)
  IN IF old = {} THEN H
     ELSE [H EXCEPT !.node[r].vals = SelectSeq(@, LAMBDA v : v.vk \notin old),
                    !.vk = PutVK(H, r, {})]

\* flushDeferredParent.
FlushParent(H, p) ==
  LET d == PendingOf(H, p)
  IN IF d = NothingPending THEN H
     ELSE IF ~H.node[p].live THEN Failed(H)
     ELSE [H EXCEPT !.node[p].kids = (@ \cup d.add) \ d.del, !.node[p].listed = TRUE,
                    !.pend = Unpend(H, p)]

\* The old list is freed, by an allocator that frees, before the new one is
\* written: it is lost when there is no room for the new one.
Unwritten(H, p) ==
  IF H.frees /\ H.node[p].kids # {} THEN [H EXCEPT !.node[p].listed = FALSE] ELSE H

\* r and what K leads to from there, level by level.
Closure(K, r) ==
  LET level[k \in 0..MaxDepth] ==
        IF k = 0 THEN {r} ELSE level[k - 1] \cup UNION {K[c] : c \in level[k - 1]}
  IN level[MaxDepth]

\* The keys the lists below r name.
LiveKids(H, r) == IF H.node[r].listed THEN {c \in H.node[r].kids : H.node[c].live} ELSE {}
Subtree(H, r) == Closure([c \in DOMAIN H.node |-> LiveKids(H, c)], r)

\* noFreeAllocator.Free does nothing.
Freed(H, r) == IF H.frees THEN [H.node[r] EXCEPT !.live = FALSE, !.vals = <<>>] ELSE H.node[r]

\* (mutant) the index keeps the keys.
DeleteKeyAtIndexed(H, r) ==
  LET p == H.node[r].parent
      F == FlushParent(FlushParent(H, r), p)
      gone == Subtree(F, r)
  IN IF r = Root \/ ~H.node[r].live \/ ~F.ok THEN Failed(F)
     ELSE [F EXCEPT !.node = [q \in DOMAIN @ |->
                               IF q \in gone THEN Freed(F, q) ELSE @[q]],
                    !.pend = Pend(F, p, [NothingPending EXCEPT !.del = {r}])]
\* keyEditor.DeleteKey, recursive: the subtree goes, with its values and its
\* entries in the index; the parent's list still names the key.
DeleteKeyAt(H, r) ==
  LET p == H.node[r].parent
      F == FlushParent(FlushParent(H, r), p)
      gone == Subtree(F, r)
  IN IF r = Root \/ ~H.node[r].live \/ ~F.ok THEN Failed(F)
     ELSE [F EXCEPT !.node = [q \in DOMAIN @ |->
                               IF q \in gone THEN Freed(F, q) ELSE @[q]],
                    !.nk = {e \in @ : e.ref \notin gone},
                    !.vk = {e \in @ : e.key \notin gone},
                    !.pend = Pend(F, p, [NothingPending EXCEPT !.del = {r}])]

\* DeleteKey, when one of the two lists it writes first finds no room.
DeleteUnflushed(H, r) ==
  LET p == H.node[r].parent
      F == FlushParent(H, r)
  IN {Unwritten(H, r) : x \in {r} \cap DOMAIN H.pend}
     \cup {Unwritten(F, p) : x \in {p} \cap DOMAIN F.pend}

\* FlushDeferredSubkeys: every old list of a parent with new children is
\* freed, then the parents are written in the order of a map.  S are the
\* parents written before one fails, all of them when none does.
Lost(H, p) == H.frees /\ PendingOf(H, p).add # {} /\ H.node[p].kids # {}
Flushed(H, S) ==
  LET written(p) == FlushParent(H, p).node[p]
  IN [H EXCEPT !.node = [p \in DOMAIN @ |->
                           IF p \in S THEN written(p)
                           ELSE IF Lost(H, p) THEN [@[p] EXCEPT !.listed = FALSE] ELSE @[p]],
               !.pend = [p \in DOMAIN @ \ S |-> @[p]]]

FlushDeferredSubkeys ==
  LET live == {p \in DOMAIN h.pend : h.node[p].live}
  IN IF live = DOMAIN h.pend THEN {[hive |-> Flushed(h, live), whole |-> TRUE]}
     ELSE {[hive |-> Flushed(h, S), whole |-> FALSE] : S \in SUBSET live}

(***************************************************************************)
(* Opening a session.                                                      *)
(***************************************************************************)
\* walker.IndexBuilder: an entry that is no allocated key, or a list that is
\* not allocated, is an error.
Reachable(H) == Closure([c \in DOMAIN H.node |-> IF H.node[c].live THEN H.node[c].kids ELSE {}], Root)
Builds(H) == \A r \in Reachable(H) : H.node[r].live /\ H.node[r].listed

\* The index of the keys R and of the values of V: of two values with one
\* name the last one listed is found.
IndexOf(H, R, V) ==
  [H EXCEPT !.nk = {[parent |-> H.node[r].parent, name |-> H.node[r].name, ref |-> r] : r \in R \ {Root}},
            !.vk = {[key |-> r, vk |-> Last(H.node[r].vals).vk] : r \in {x \in V : H.node[x].vals # <<>>}},
            !.pend = <<>>, !.ok = TRUE]
\* newNoIndexSession has no index; every plan it applies fills one of its own.
SinglePass(H) == H
FreshIndex(H) == IndexOf(H, {}, {})
FullIndex(H) == IndexOf(H, Reachable(H), Reachable(H))

\* walker.BuildPartial along the paths of extractPlanPaths: the root's own
\* values are not indexed.
PathOf(H, r) ==
  LET up[k \in 0..MaxDepth] ==   \* <<path so far, ancestor>>
        IF k = 0 THEN <<<<>>, r>>
        ELSE LET x == up[k - 1]
             IN IF x[2] = Root THEN x ELSE <<<<H.node[x[2]].name>> \o x[1], H.node[x[2]].parent>>
  IN up[MaxDepth][1]
Tree(H) == Subtree(H, Root)
OnPaths(H, P) == {r \in Tree(H) : \E q \in P : IsPrefix(PathOf(H, r), q)}
PartialIndex(H, P) == IndexOf(H, OnPaths(H, P), OnPaths(H, P) \ {Root})

\* NewSessionForPlan with Options.IndexMode m.
ModeFor(m, n) ==
  IF m # "auto" THEN m
  ELSE IF n < Threshold THEN "single"
  ELSE IF n < UpperThreshold THEN "partial" ELSE "full"

PlanPaths(q) == {q[k].path : k \in DOMAIN q}
NoPlan == <<>>
Plans(n) == UNION {[1..k -> {Op(d, p) : d \in {"ensure", "set", "delvalue", "delkey"}, p \in Paths}] : k \in 1..n}

\* The tree as a careful reader finds it: paths with the data of their values.
Shown(H) ==
  {[path |-> PathOf(H, r), vals |-> [k \in DOMAIN H.node[r].vals |-> H.node[r].vals[k].data]] : r \in Tree(H)}

\* What a partial index covers: the keys of the plan it was built for, and
\* no value of the root.  Under another plan keys and values may appear
\* twice.
Covered(q, mode, fresh) == mode = "partial" => fresh /\ <<>> \notin PlanPaths(q)

Begin(q, mode, H, fresh) ==
  /\ plan' = q /\ pc' = IF mode = "single" THEN "walk" ELSE "apply"
  /\ session' = mode
  /\ h' = IF mode = "single" THEN FreshIndex(H) ELSE [H EXCEPT !.pend = <<>>, !.ok = TRUE]
  /\ todo' = <<[ref |-> Root, path |-> <<>>]>> /\ deleted' = {} /\ i' = 1
  /\ plans' = plans + 1
  /\ spoilt' = IF Covered(q, mode, fresh) THEN spoilt ELSE "twins"

Opened(mode, q) ==
  CASE mode = "full" -> FullIndex(h)
    [] mode = "partial" -> PartialIndex(h, PlanPaths(q) \ {<<>>})
    [] mode = "single" -> SinglePass(h)

\* MergePlan, or a session opened for its first plan.  What a session does
\* with a hive in which an Apply with deletions was cut off is followed only
\* as far as BuildFails.
NewSessionForPlan(m, frees, q) ==
  LET mode == ModeFor(m, Len(q))
  IN /\ pc = "closed" /\ plans < MaxPlans /\ spoilt # "hive"
     /\ mode = "single" => frees
     /\ Begin(q, mode, [Opened(mode, q) EXCEPT !.frees = frees], TRUE)
     /\ base' = IF q = plan THEN base ELSE Shown(h)

\* "build index" fails, the hive stays as it is.
BuildFails(m) ==
  /\ pc = "closed" /\ plans < MaxPlans /\ ModeFor(m, 1) = "full" /\ ~Builds(h)
  /\ plans' = MaxPlans
  /\ UNCHANGED <<h, session, plan, pc, todo, deleted, i, base, spoilt>>

\* ApplyWithTx again on the session: EnableDeferredMode forgets what an
\* Apply that was cut off left pending.
ApplyNext(q) ==
  /\ pc \in {"done", "failed", "cancelled", "nospace"} /\ plans < MaxPlans /\ spoilt # "hive"
  /\ Begin(q, session, h, FALSE)
  /\ base' = Shown(h)

Close ==
  /\ pc \in {"done", "failed", "cancelled", "nospace"}
  /\ pc' = "closed" /\ session' = "none"
  /\ spoilt' = IF spoilt = "session" THEN "no" ELSE spoilt
  /\ plan' = IF pc = "done" THEN NoPlan ELSE plan   \* a failed plan may be tried again
  /\ UNCHANGED <<h, todo, deleted, i, plans, base>>

\* HasKeys and HasKey: the index, or a walk over the lists, which takes a
\* freed key that is still listed for a key.  strings.Split gives at least one
\* name, so the path is never empty.
WalkLists(H, path) ==
  LET at[k \in 0..Len(path)] ==
        IF k = 0 THEN {Root}
        ELSE UNION {{c \in H.node[p].kids : H.node[c].name = path[k]} : p \in at[k - 1]}
  IN at[Len(path)]
HasKey(path) == IF session = "single" THEN WalkLists(h, path) # {} ELSE WalkPath(h, path) # {}

(***************************************************************************)
(* Apply with an index: applyOp on the strategy, one operation a step.     *)
(***************************************************************************)
Deletes(q) == \E k \in DOMAIN q : q[k].do = "delkey"
LeftBehind == IF Deletes(plan) /\ h.frees THEN "hive" ELSE IF spoilt = "twins" THEN "twins" ELSE "session"
Rollback(how) == pc' = how /\ spoilt' = LeftBehind

Advance(H, next) ==
  IF H.ok
    THEN h' = H /\ next /\ UNCHANGED spoilt
    ELSE /\ h' = H /\ Rollback("failed") /\ UNCHANGED <<i, todo, deleted>>

\* The strategy's operations (InPlace; Hybrid hands small values to it).
\* SetValue and DeleteValue create the key's path.
\* (mutant) a value is set only where the key was there before.
SetValueIfThere(H, path, data) ==
  LET at == WalkPath(H, path)
  IN IF at = {} THEN H ELSE UpsertValue(H, CHOOSE r \in at : TRUE, data)
SetValue(H, path, data) ==
  LET e == EnsureKeyPath(H, path)
  IN IF e.hive.ok THEN UpsertValue(e.hive, e.ref, data) ELSE e.hive
ClearValue(H, path) ==
  LET e == EnsureKeyPath(H, path)
  IN IF e.hive.ok THEN DeleteValue(e.hive, e.ref) ELSE e.hive
DeleteKey(H, path) ==
  LET at == WalkPath(H, path)
  IN IF path = <<>> THEN Failed(H)
     ELSE IF at = {} THEN H ELSE DeleteKeyAt(H, CHOOSE r \in at : TRUE)

ApplyOp(H, op, data) ==
  CASE op.do = "ensure" -> EnsureKeyPath(H, op.path).hive
    [] op.do = "set" -> SetValue(H, op.path, data)
    [] op.do = "delvalue" -> ClearValue(H, op.path)
    [] op.do = "delkey" -> DeleteKey(H, op.path)

ApplyStep ==
  /\ pc = "apply" /\ i <= Len(plan)
  /\ Advance(ApplyOp(h, plan[i], i), pc' = pc /\ i' = i + 1 /\ UNCHANGED <<todo, deleted>>)
  /\ UNCHANGED <<session, plan, plans, base>>

\* (mutant) what is pending is dropped.
CommitUnflushed(H, whole) ==
  IF whole THEN h' = [h EXCEPT !.pend = <<>>] /\ pc' = "done" /\ UNCHANGED spoilt
           ELSE h' = H /\ Rollback("failed")
CommitFlushed(H, whole) ==
  IF whole THEN h' = H /\ pc' = "done" /\ UNCHANGED spoilt ELSE h' = H /\ Rollback("failed")

Applied == \/ pc = "apply" /\ i > Len(plan)
           \/ pc = "create" /\ i > Len(PathOrder)

\* The flush at the end of Apply, then Commit, or Rollback if it fails.
FlushAndCommit ==
  /\ Applied
  /\ \E f \in FlushDeferredSubkeys : CommitFlushed(f.hive, f.whole)
  /\ UNCHANGED <<session, plan, todo, deleted, i, plans, base>>

\* The flush finds no room for the list of p, after S were written.
FlushFails ==
  /\ Applied
  /\ \E p \in DOMAIN h.pend, S \in SUBSET {q \in DOMAIN h.pend : h.node[q].live} :
       h.node[p].live /\ p \notin S /\ h' = Unwritten(Flushed(h, S), p)
  /\ pc' = "nospace"
  /\ spoilt' = IF \A q \in DOMAIN h.node : h'.node[q].listed = h.node[q].listed THEN LeftBehind ELSE "hive"
  /\ UNCHANGED <<session, plan, todo, deleted, i, plans, base>>

\* ctx is cancelled: Apply returns before its next operation or key.
Cancel ==
  /\ \/ pc = "apply" /\ i <= Len(plan)
     \/ pc = "walk" /\ todo # <<>>
     \/ pc = "create" /\ i <= Len(PathOrder)
  /\ Rollback("cancelled")
  /\ UNCHANGED <<h, session, plan, todo, deleted, i, plans, base>>

(***************************************************************************)
(* ApplyPlanDirect: one walk over the keys the plan names, then the        *)
(* missing ones.                                                           *)
(***************************************************************************)
At(path) == {k \in DOMAIN plan : plan[k].path = path}

\* The operations at an existing key, in their order.  Value operations wait
\* for the next operation on the key itself; those after a DeleteKey are
\* left out unless such an operation follows them.
ValueOp(H, r, k) == IF plan[k].do = "set" THEN UpsertValue(H, r, k) ELSE DeleteValue(H, r)
IsValueOp(k) == plan[k].do \in {"set", "delvalue"}
LeftOut(path, k) == /\ \E j \in At(path) : j < k /\ plan[j].do = "delkey"
                    /\ \A j \in At(path) : j > k => IsValueOp(j)
OpAt(H, r, path, k) ==
  IF ~H.ok \/ k \notin At(path) THEN H
  ELSE IF IsValueOp(k) THEN IF LeftOut(path, k) THEN H ELSE ValueOp(H, r, k)
  ELSE IF plan[k].do = "delkey" THEN DeleteKeyAt(H, r) ELSE H
OpsUpTo(H, r, path, n) ==
  LET after[k \in 0..n] == IF k = 0 THEN H ELSE OpAt(after[k - 1], r, path, k)
  IN after[n]
OpsAt(H, r, path) == OpsUpTo(H, r, path, Len(plan))

\* walkAndApply on the next key: it and its values are indexed, its
\* operations done, its children of wanted names found.
Visited(x) ==
  LET node == h.node[x.ref]
      H1 == IF x.path = <<>> THEN h ELSE [h EXCEPT !.nk = AddNK(h, node.parent, node.name, x.ref)]
  IN [H1 EXCEPT !.vk = IF node.vals = <<>> THEN @ ELSE PutVK(H1, x.ref, {Last(node.vals).vk})]
WalkAndApply ==
  LET x == Head(todo)
      H == OpsAt(Visited(x), x.ref, x.path)
      dies == \E k \in At(x.path) : plan[k].do = "delkey"
      kids == {c \in LiveKids(H, x.ref) :
                 \E op \in Range(plan) : IsPrefix(Append(x.path, H.node[c].name), op.path)}
      more == SetToSeq({[ref |-> c, path |-> Append(x.path, H.node[c].name)] : c \in kids})
  IN /\ pc = "walk" /\ todo # <<>>
     /\ Advance(H, /\ deleted' = IF dies THEN deleted \cup {x.path} ELSE deleted
                   /\ todo' = IF dies THEN Tail(todo) ELSE more \o Tail(todo)
                   /\ UNCHANGED <<pc, i>>)
     /\ UNCHANGED <<session, plan, plans, base>>

\* The lists that DeleteKey writes before it deletes find no room.
DeleteFails ==
  /\ \/ /\ pc = "apply" /\ i <= Len(plan)
        /\ plan[i].do = "delkey" /\ plan[i].path # <<>>
        /\ \E r \in WalkPath(h, plan[i].path) : h' \in DeleteUnflushed(h, r)
     \/ /\ pc = "walk" /\ todo # <<>> /\ Head(todo).path # <<>>
        /\ \E k \in At(Head(todo).path) :
             LET r == Head(todo).ref
                 H == OpsUpTo(Visited(Head(todo)), r, Head(todo).path, k - 1)
             IN plan[k].do = "delkey" /\ H.ok /\ H.node[r].live /\ h' \in DeleteUnflushed(H, r)
  /\ Rollback("nospace")
  /\ UNCHANGED <<session, plan, todo, deleted, i, plans, base>>

WalkDone ==
  /\ pc = "walk" /\ todo = <<>>
  /\ pc' = "create"
  /\ UNCHANGED <<h, session, plan, todo, deleted, i, plans, base, spoilt>>

\* createMissingKeysAndApply for one path: the key is created if the walk
\* did not meet it (the index knows exactly the keys it met), and every
\* SetValue of the path is done, again or for the first time.
SetAt(H, r, path, k) == IF H.ok /\ k \in At(path) /\ plan[k].do = "set" THEN UpsertValue(H, r, k) ELSE H
SetAll(H, r, path) ==
  LET after[k \in 0..Len(plan)] == IF k = 0 THEN H ELSE SetAt(after[k - 1], r, path, k)
  IN after[Len(plan)]
\* ensureKeyForPhase2 returns no error: a path that cannot be created is
\* passed over, with the keys that were created on the way.
PassedOver(H) == [H EXCEPT !.ok = TRUE]
NotUnderDeleted(path) == \A d \in deleted : ~IsPrefix(d, path)

CreateMissingKeysAndApply ==
  LET path == PathOrder[i]
      e == EnsureKeyPath(h, path)
      needed == (\E k \in At(path) : Creates(plan[k])) /\ NotUnderDeleted(path)
  IN /\ pc = "create" /\ i <= Len(PathOrder)
     /\ Advance(IF needed THEN IF e.hive.ok THEN SetAll(e.hive, e.ref, path) ELSE PassedOver(e.hive) ELSE h,
                i' = i + 1 /\ UNCHANGED <<pc, todo, deleted>>)
     /\ UNCHANGED <<session, plan, plans, base>>

Init ==
  /\ \E f \in Hives : h = NewHive(f)
  /\ session = "none" /\ plan = NoPlan /\ pc = "closed" /\ todo = <<>> /\ deleted = {}
  /\ i = 1 /\ plans = 0 /\ base = Shown(h) /\ spoilt = "no"

Modes == {"auto", "single", "partial", "full"}
Next ==
  \/ \E m \in Modes :
       \/ BuildFails(m)
       \/ \E q \in IF plan = NoPlan THEN Plans(IF plans = 0 THEN MaxOps ELSE MaxNext) ELSE {plan}, frees \in BOOLEAN :
            NewSessionForPlan(m, frees, q)
  \/ \E q \in Plans(MaxNext) : ApplyNext(q)
  \/ ApplyStep \/ FlushAndCommit \/ FlushFails \/ DeleteFails \/ Cancel
  \/ WalkAndApply \/ WalkDone \/ CreateMissingKeysAndApply
  \/ Close

Spec == Init /\ [][Next]_vars
-----------------------------------------------------------------------------
(***************************************************************************)
(* Properties.                                                             *)
(***************************************************************************)
\* What an operation asks for, on a tree as Shown gives it.
Ensured(T, p) == T \cup {[path |-> q, vals |-> <<>>] : q \in Prefixes(p) \ {x.path : x \in T}}
WithValue(T, p, v) == {x \in Ensured(T, p) : x.path # p} \cup {[path |-> p, vals |-> v]}
Asked(T, op, data) ==
  CASE op.do = "ensure" -> Ensured(T, op.path)
    [] op.do = "set" -> WithValue(T, op.path, <<data>>)
    [] op.do = "delvalue" -> WithValue(T, op.path, <<>>)
    [] op.do = "delkey" -> {x \in T : ~IsPrefix(op.path, x.path)}
Wanted(T, q) ==
  LET after[k \in 0..Len(q)] == IF k = 0 THEN T ELSE Asked(after[k - 1], q[k], k)
  IN after[Len(q)]

\* A plan that only deletes keys, or deletes none: with both, the cells freed
\* by one may become the cells of another (module KeyEdit).
Plain(q) == Deletes(q) => \A k \in DOMAIN q : q[k].do = "delkey"

\* What the single pass handles as the other modes do: it repeats every
\* SetValue at the end, does not create the key of a DeleteValue, and cannot
\* delete a key twice.
OrderFree(T, q) ==
  \A j, k \in DOMAIN q :
    /\ q[j].path = q[k].path /\ j # k => q[j].do \notin {"delvalue", "delkey"}
    /\ q[j].do = "delvalue" => q[j].path \in {x.path : x \in T}

\* The three ways to apply a plan have one meaning: a committed plan leaves
\* exactly the tree its operations, one after the other, ask for, every key
\* and every value once; also on a session that applied a plan before, and
\* also when the plan was cut off and is tried again in a new session
\* (session.go, walk_apply.go, strategy/).
CommittedRight ==
  pc = "done" /\ spoilt = "no" /\ Plain(plan)
    /\ (session = "single" => OrderFree(base, plan))
    => Shown(h) = Wanted(base, plan)

\* A key is deleted, and later one two or more levels above it: the key
\* between them is freed while its list is still to be written.
DeletesAgainAbove(q) ==
  \E j, k \in DOMAIN q : /\ j < k /\ q[j].do = "delkey" /\ q[k].do = "delkey"
                        /\ IsPrefix(q[k].path, q[j].path) /\ Len(q[k].path) + 2 <= Len(q[j].path)

\* Such a plan fails, as long as lists find room, only if it would delete the
\* root, or, where the index leads to the keys, if it deletes again above what
\* it deleted: no other
\* operation meets a cell an earlier one freed, no list a parent that is
\* gone (flushDeferredParent, DeleteKey of nkedit.go).
FailsForCause ==
  pc = "failed" /\ Plain(plan) /\ (session = "single" => OrderFree(base, plan))
    => \/ \E k \in DOMAIN plan : plan[k] = Op("delkey", <<>>)
       \/ session # "single" /\ DeletesAgainAbove(plan)

\* HasKeys answers what the lists in the hive say, between plans, whether by
\* its index or by a walk; a partial index may miss a key but never invents one
\* (HasKeys, walkPathExists of session.go).  No string stands for the root.
HasKeysRight ==
  pc = "done" /\ spoilt = "no" =>
    LET there == {x.path : x \in Shown(h)}
    IN \A p \in Paths \ {<<>>} :
         /\ HasKey(p) => p \in there
         /\ session # "partial" => (p \in there => HasKey(p))

\* Wherever a plan is cut off, unless it deletes keys and frees their cells,
\* the hive can be opened and indexed again; unless it deletes keys, every
\* key that was there is still found (ApplyWithTx, Rollback of session.go).
\* The exception is a flush that finds no room for a list whose old cell it
\* has freed, or for others while that one waits (spoilt is "hive"): the
\* parent is left with a freed list, and the keys under it are gone.  An
\* allocator that frees nothing has no exception.
CutOffSafe ==
  (spoilt # "hive" \/ ~h.frees) /\ plan # NoPlan =>
    /\ (Deletes(plan) /\ h.frees) \/ Builds(h)
    /\ Deletes(plan) \/ {x.path : x \in base} \subseteq {x.path : x \in Shown(h)}
=============================================================================
