------------------------------- MODULE HiveWalk -------------------------------
(***************************************************************************)
(* The walkers of hive/walker over one hive: the validation walker (and    *)
(* the cell counter, which counts what it visits), the index builder and   *)
(* the partial index builder; and the scanner of internal/reader, which    *)
(* looks for cells that no key leads to.                                   *)
(*                                                                         *)
(*   hive     the cells                                                    *)
(*   who      the walker that runs                                         *)
(*   paths    the paths a partial index is built for: sequences of names   *)
(*   stack    the entries of the walk; room, the capacity of its array     *)
(*   visited  the bitmap                                                   *)
(*   out      the cells the visitor was given, in order                    *)
(*   index    <<parent, name>> -> ref of a key, and of a value             *)
(*   status   running, done, error or cancelled                            *)
(*   lost     history: the keys whose state was written to an array that   *)
(*            append had already replaced                                  *)
(*   scan     the scanner's orphanedCells, what it reports, and the        *)
(*            orphans it names                                             *)
(***************************************************************************)
EXTENDS SubkeyLists, TLC

CONSTANTS Hives,     \* what may be walked
          Requests,  \* sets of paths
          Root,
          Room,      \* initialStackCapacity
          MaxIssues  \* maxIssuesPerReport

VARIABLES hive, who, paths, stack, room, visited, out, index, status, lost, scan

vars == <<hive, who, paths, stack, room, visited, out, index, status, lost, scan>>

Nothing == [nk |-> <<>>, vk |-> <<>>]
Entry(r, parent, path) == [ref |-> r, parent |-> parent, path |-> path, state |-> "initial"]

\* catalogCells: every allocated cell is an orphan until something marks it.
CatalogCells(h) == {r \in DOMAIN h : h[r].kind # "gone"}

Init ==
  /\ hive \in Hives /\ who \in {"validator", "builder", "partial", "scanner"}
  /\ paths \in IF who = "partial" THEN Requests ELSE {{}}
  /\ stack = <<Entry(Root, Root, <<>>)>> /\ room = Room
  /\ visited = IF who \in {"partial", "scanner"} THEN {} ELSE {Root}
  /\ out = <<>>
  /\ index = IF who \in {"validator", "scanner"} THEN Nothing ELSE [Nothing EXCEPT !.nk = (<<Root, "">> :> Root)]
  /\ status = "running" /\ lost = {}
  /\ scan = [orphans |-> IF who = "scanner" THEN CatalogCells(hive) ELSE {}, reports |-> {}, named |-> {}]

Running(w, state) == status = "running" /\ who = w /\ stack # <<>> /\ Last(stack).state = state
Top == Last(stack)
NK == Cell(hive, Top.ref)
Stop(s) == status' = s
Goto(state) == stack' = [stack EXCEPT ![Len(stack)].state = state]

\* append one by one: an array that is too small is replaced by one of twice the size
Sizes == {Room * 2 ^ i : i \in 0..8}
Grown(n) == IF n <= room THEN room ELSE CHOOSE s \in Sizes : s >= n /\ (s = Room \/ s \div 2 < n)

\* (mutant) the state is always written to the array that was there before
PushLost(entries, state) ==
  /\ stack' = stack \o entries
  /\ room' = Grown(Len(stack) + Len(entries)) /\ UNCHANGED lost

\* Push the children, then write the state through the pointer taken before.
Push(entries, state) ==
  LET n == Len(stack) + Len(entries)
  IN /\ room' = Grown(n)
     /\ IF n > room THEN stack' = stack \o entries /\ lost' = lost \cup {Top.ref}
        ELSE stack' = [stack EXCEPT ![Len(stack)].state = state] \o entries /\ UNCHANGED lost

-----------------------------------------------------------------------------
(* The validation walker. *)

VisitNK ==
  /\ Running("validator", "initial")
  /\ LET list == IF NK.kind = "nk" THEN NK.list ELSE Invalid
         skip == list = Invalid \/ list \in visited
         known == Direct(Cell(hive, list)) \/ Cell(hive, list).kind = "ri"
         refs == WalkSubkeysFast(hive, list)
         fresh == SelectSeq(refs.refs, LAMBDA r : r \notin visited \cup {list})
     IN IF NK.kind # "nk" THEN Stop("error") /\ out' = Append(out, Top.ref)
                               /\ UNCHANGED <<stack, room, visited, lost>>
        ELSE IF skip THEN Goto("subkeys") /\ out' = Append(out, Top.ref)
                          /\ UNCHANGED <<room, visited, lost, status>>
        ELSE /\ visited' = visited \cup {list}
             /\ out' = Append(out, Top.ref) \o IF known THEN <<list>> ELSE <<>>
             /\ IF known /\ refs.ok
                THEN Push([i \in DOMAIN fresh |-> Entry(fresh[i], Top.ref, <<>>)], "subkeys")
                     /\ UNCHANGED status
                ELSE Stop("error") /\ UNCHANGED <<stack, room, lost>>
  /\ UNCHANGED <<hive, who, paths, index>>

\* What visitVK gives the visitor and marks, after seen.
VisitVK(seen, v) ==
  LET vk == Cell(hive, v)
      d == IF vk.kind = "vk" THEN vk.data ELSE Invalid
      blocks == IF Cell(hive, d).kind = "db" THEN Cell(hive, Cell(hive, d).blocks) ELSE Unresolved
      marks == IF blocks.kind = "blocks" THEN Range(blocks.refs) ELSE {}
  IN IF v \in seen.visited THEN seen
     ELSE IF d = Invalid \/ d \in seen.visited
     THEN [visited |-> seen.visited \cup {v}, out |-> Append(seen.out, v)]
     ELSE [visited |-> seen.visited \cup {v, d} \cup marks, out |-> seen.out \o <<v, d>>]

ProcessValues ==
  /\ Running("validator", "subkeys")
  /\ LET has == NK.nvals # 0 /\ NK.vals # Invalid
         new == IF has /\ NK.vals \notin visited THEN <<NK.vals>> ELSE <<>>
         refs == ValueRefs(hive, NK)
         seen == FoldLeft(VisitVK, [visited |-> visited \cup Range(new), out |-> out \o new],
                          refs.refs)
     IN /\ visited' = seen.visited /\ out' = seen.out
        /\ IF refs.ok THEN Goto("values") /\ UNCHANGED status
           ELSE Stop("error") /\ UNCHANGED stack
  /\ UNCHANGED <<hive, who, paths, room, index, lost>>

VisitOnce(r, next) ==
  /\ IF r = Invalid \/ r \in visited THEN UNCHANGED <<visited, out>>
     ELSE visited' = visited \cup {r} /\ out' = Append(out, r)
  /\ Goto(next)
  /\ UNCHANGED <<hive, who, paths, room, index, status, lost>>

ProcessSecurity == Running("validator", "values") /\ VisitOnce(NK.sk, "security")
ProcessClassName == Running("validator", "security") /\ VisitOnce(NK.class, "done")

-----------------------------------------------------------------------------
(* The index builder. *)

Put(f, key, r) == (key :> r) @@ f

\* (mutant) a child is put under the parent of its parent
ChildUp(r) == Entry(r, Top.parent, <<>>)

Child(r) == Entry(r, Top.ref, <<>>)

ProcessNK ==
  /\ Running("builder", "initial")
  /\ LET nk == NK.kind = "nk"
         refs == IF nk THEN ReadOffsets(hive, NK.list) ELSE Fails
         fresh == SelectSeq(refs.refs, LAMBDA r : r \notin visited)
         added == IF nk /\ Top.parent # Top.ref
                  THEN [index EXCEPT !.nk = Put(@, <<Top.parent, NK.name>>, Top.ref)] ELSE index
     IN IF ~refs.ok
        THEN index' = added /\ Stop("error") /\ UNCHANGED <<stack, room, visited, lost>>
        ELSE /\ index' = added
             /\ visited' = visited \cup Range(fresh)
             /\ Push([i \in DOMAIN fresh |-> Child(fresh[i])], "values")
             /\ UNCHANGED status
  /\ UNCHANGED <<hive, who, paths, out>>

\* A VK that cannot be read is left out.
WithValues(idx, r, refs) ==
  FoldLeft(LAMBDA f, v : IF Cell(hive, v).kind = "vk" THEN Put(f, <<r, Cell(hive, v).name>>, v)
                         ELSE f, idx, refs)

BuilderValues ==
  /\ Running("builder", "values")
  /\ LET refs == ValueRefs(hive, NK)
     IN IF refs.ok THEN /\ index' = [index EXCEPT !.vk = WithValues(@, Top.ref, refs.refs)]
                        /\ Goto("done") /\ UNCHANGED status
        ELSE Stop("error") /\ UNCHANGED <<stack, index>>
  /\ UNCHANGED <<hive, who, paths, room, visited, out, lost>>

Cancel ==
  /\ status = "running" /\ who = "builder"
  /\ Stop("cancelled")
  /\ UNCHANGED <<hive, who, paths, stack, room, visited, out, index, lost>>

-----------------------------------------------------------------------------
(* The partial index: partialDescend, one call at a time. *)

Wanted(path) == {p[Len(path) + 1] : p \in {q \in paths : Len(q) > Len(path) /\ IsPrefix(path, q)}}

\* The values of a matched key.  A list that cannot be resolved makes the descent skip
\* the key; a list that is too short is taken for empty.
BadValues(nk) == nk.nvals # 0 /\ nk.vals # Invalid /\ Cell(hive, nk.vals).kind = "gone"
PartialValues(r) == LET refs == ValueRefs(hive, Cell(hive, r))
                    IN IF refs.ok THEN refs.refs ELSE <<>>

DescendInto(refs) == SelectSeq(refs, LAMBDA r : ~BadValues(Cell(hive, r)))

PartialDescend ==
  /\ Running("partial", "initial")
  /\ LET names == Wanted(Top.path)
         leaf == names = {} \/ (NK.kind = "nk" /\ (NK.count = 0 \/ NK.list = Invalid))
         found == IF leaf THEN Refs(<<>>) ELSE IF NK.kind # "nk" THEN Fails
                  ELSE MatchByHash(hive, NK.list, names)
         into == DescendInto(found.refs)
         below == [i \in DOMAIN into |->
                    Entry(into[i], Top.ref, Append(Top.path, Cell(hive, into[i]).name))]
     IN IF ~found.ok THEN Stop("error") /\ UNCHANGED <<stack, index>>
        ELSE /\ stack' = Front(stack) \o below
             /\ index' =
                  [nk |-> FoldLeft(LAMBDA f, r : Put(f, <<Top.ref, Cell(hive, r).name>>, r),
                                   index.nk, found.refs),
                   vk |-> FoldLeft(LAMBDA f, r : WithValues(f, r, PartialValues(r)),
                                   index.vk, found.refs)]
             /\ UNCHANGED status
  /\ UNCHANGED <<hive, who, paths, room, visited, out, lost>>

-----------------------------------------------------------------------------
(* The scanner: walkTree, one call at a time.  A key that was met before is reported as a *)
(* cycle.  Of a key, its lists, values, security and class are marked; not the lists that *)
(* an ri list leads to, nor what a value's data is in.                                    *)

\* walkValues; a value list that cannot be read is passed over.
WalkValues(r) == Range(Values(hive, r).refs)

\* What the call for a key takes from orphanedCells.
Marked(r) ==
  LET nk == Cell(hive, r)
  IN IF nk.kind # "nk" THEN {r}
     ELSE {r, nk.sk, nk.class} \cup WalkValues(r)
          \cup (IF nk.nvals > 0 THEN {nk.vals} ELSE {}) \cup (IF nk.count > 0 THEN {nk.list} ELSE {})

WalkTree ==
  /\ Running("scanner", "initial")
  /\ LET r == Top.ref
         again == r \in visited
         nk == NK.kind = "nk"
         kids == IF again \/ ~nk THEN <<>> ELSE Reverse(Subkeys(hive, r).refs)
         badVKs == IF nk THEN {v \in WalkValues(r) : Cell(hive, v).kind # "vk"} ELSE {}
     IN /\ stack' = Front(stack) \o [i \in DOMAIN kids |-> Entry(kids[i], r, <<>>)]
        /\ visited' = visited \cup {r}
        /\ scan' = IF again THEN [scan EXCEPT !.reports = @ \cup {<<"cycle", r>>}]
                   ELSE [scan EXCEPT !.orphans = @ \ Marked(r),
                                     !.reports = @ \cup (IF nk THEN {} ELSE {<<"nk", r>>})
                                                   \cup {<<"vk", v>> : v \in badVKs}]
  /\ UNCHANGED <<hive, who, paths, room, out, index, status, lost>>

\* What is left are orphans: all are counted, and the first of them, in the order of a map, named.
DetectOrphans ==
  LET n == IF Cardinality(scan.orphans) <= MaxIssues THEN Cardinality(scan.orphans) ELSE MaxIssues
  IN /\ status = "running" /\ who = "scanner" /\ stack = <<>>
     /\ \E first \in [1..n -> scan.orphans] :
          IsInjective(first) /\ scan' = [scan EXCEPT !.named = Range(first)]
     /\ Stop("done")
     /\ UNCHANGED <<hive, who, paths, stack, room, visited, out, index, lost>>

-----------------------------------------------------------------------------
Pop ==
  /\ Running(who, "done")
  /\ stack' = Front(stack)
  /\ UNCHANGED <<hive, who, paths, room, visited, out, index, status, lost>>

Finish ==
  /\ status = "running" /\ who # "scanner" /\ stack = <<>>
  /\ Stop("done")
  /\ UNCHANGED <<hive, who, paths, stack, room, visited, out, index, lost>>

Walk ==
  \/ /\ \/ VisitNK \/ ProcessValues \/ ProcessSecurity \/ ProcessClassName
        \/ ProcessNK \/ BuilderValues
        \/ PartialDescend
        \/ Pop \/ Finish
     /\ UNCHANGED scan
  \/ WalkTree \/ DetectOrphans

Next == Walk \/ (Cancel /\ UNCHANGED scan)
Spec == Init /\ [][Next]_vars /\ WF_vars(Walk)

-----------------------------------------------------------------------------
(* Properties. *)

Keys(h) == Closure(h, {Root})

\* Every key has one parent and is in one list.
Tree(h) ==
  /\ \A k, l \in Keys(h) : k # l => Children(h, k) \cap Children(h, l) = {}
  /\ Root \notin UNION {Children(h, k) : k \in Keys(h)}

\* What a key leads to: itself, its list and the lists below that, its values, their list
\* and their data, its security and its class.
RECURSIVE ListsOf(_, _)
ListsOf(h, r) == {r} \cup IF Cell(h, r).kind # "ri" THEN {}
                          ELSE UNION {ListsOf(h, s) : s \in Range(Cell(h, r).refs)}
DataOf(h, vals) == {Cell(h, v).data : v \in {w \in vals : Cell(h, w).kind = "vk"}}
Blocks(h, d) == IF Cell(h, d).kind # "db" THEN {}
                ELSE {Cell(h, d).blocks} \cup (IF Cell(h, Cell(h, d).blocks).kind # "blocks" THEN {}
                                                ELSE Range(Cell(h, Cell(h, d).blocks).refs))
Shown(h, k) ==
  LET nk == Cell(h, k)
      vals == Range(ValueRefs(h, nk).refs)
  IN ({k, nk.list, nk.sk, nk.class} \cup vals \cup DataOf(h, vals)
      \cup (IF nk.nvals # 0 THEN {nk.vals} ELSE {})) \ {Invalid}

\* ... and of these, what neither the validation walker nor the scanner looks at: the lists
\* below a list, and what big data is in.
PassedBy(h, k) ==
  LET nk == Cell(h, k)
  IN (ListsOf(h, nk.list) \ {nk.list, Invalid})
     \cup UNION {Blocks(h, d) : d \in DataOf(h, Range(ValueRefs(h, nk).refs))}
Reachable(h) == UNION {Shown(h, k) \cup PassedBy(h, k) : k \in Keys(h)}

Halved(h) == \E r \in DOMAIN h : h[r].kind = "li" /\ Len(h[r].refs) > 1
Times(r) == Len(SelectSeq(out, LAMBDA q : q = r))

\* "visiting all reachable cells and invoking a callback for each one" (validator.go:53): the
\* walker gives the visitor no cell that no key leads to, and a cell of a tree once.  It gives it
\* all of them except, and these are the places where it falls short of that sentence, the lists
\* below an ri list and the blocks of big data (PassedBy), and in a hive with li lists of several
\* keys every other one (core.go:269); and of a key at which the stack had to grow it is
\* not claimed that it is given once (validator.go:98, Walk writes entry.state to the old array).
VisitsRight ==
  who = "validator" /\ status = "done" =>
    /\ Range(out) \subseteq Reachable(hive)
    /\ ~Halved(hive) => \A r \in Reachable(hive) : r \in Range(out) \/ \E k \in Keys(hive) : r \in PassedBy(hive, k)
    /\ Tree(hive) => \A r \in Range(out) \ lost : Times(r) = 1

Pairs(f) == {<<k, f[k]>> : k \in DOMAIN f}
TrueKeys == {<<<<Root, "">>, Root>>} \cup
  UNION {{<<<<p, Cell(hive, c).name>>, c>> : c \in Children(hive, p)} : p \in Keys(hive)}
TrueValues ==
  UNION {{<<<<p, Cell(hive, v).name>>, v>> :
            v \in {w \in Range(ValueRefs(hive, Cell(hive, p)).refs) : Cell(hive, w).kind = "vk"}}
         : p \in Keys(hive)}

\* The index that Build returns holds every key under its parent and every value that
\* can be read, and nothing else, also when the stack grew under it; in a hive that
\* is no tree it holds each key once (IndexBuilder.Build).
IndexComplete ==
  who = "builder" /\ status = "done" =>
    /\ Pairs(index.vk) = TrueValues
    /\ IF Tree(hive) THEN Pairs(index.nk) = TrueKeys
       ELSE Pairs(index.nk) \subseteq TrueKeys /\ {p[2] : p \in Pairs(index.nk)} = Keys(hive)

RECURSIVE Leads(_, _, _)
Leads(h, k, path) ==
  IF path = <<>> THEN TRUE
  ELSE \E c \in Children(h, k) : Cell(h, c).name = Head(path) /\ Leads(h, c, Tail(path))

\* The keys on a path that leads somewhere.
RECURSIVE Along(_, _, _)
Along(h, k, path) ==
  IF path = <<>> THEN {}
  ELSE LET c == CHOOSE x \in Children(h, k) : Cell(h, x).name = Head(path)
       IN {<<<<k, Head(path)>>, c>>} \cup Along(h, c, Tail(path))
Requested == UNION {{SubSeq(p, 1, i) : i \in 1..Len(p)} : p \in paths}

\* A partial index agrees with the whole one, and holds every key on a requested path that exists,
\* with its values.  The keys below a key whose value list is gone it may not hold, although
\* they can be read (partial.go:172 calls that "Non-fatal: skip values for this key"): of these
\* nothing is claimed.
PartialAgrees ==
  who = "partial" /\ status = "done" =>
    /\ Pairs(index.nk) \subseteq TrueKeys /\ Pairs(index.vk) \subseteq TrueValues
    /\ \A path \in Requested :
         /\ Leads(hive, Root, path)
         /\ \A e \in Along(hive, Root, Front(path)) : ~BadValues(Cell(hive, e[2]))
         => Along(hive, Root, path) \subseteq Pairs(index.nk)
    /\ \A v \in TrueValues : v[1][1] # Root /\ v[1][1] \in {p[2] : p \in Pairs(index.nk)} =>
         v \in Pairs(index.vk)

NoNested(h) == \A r \in DOMAIN h : h[r].kind = "ri" => \A s \in Range(h[r].refs) : Cell(h, s).kind # "ri"

\* The readers of subkey lists agree: what the reader of internal/reader returns, the
\* editors, the builder, WalkSubkeys and MatchByHash return too, as long as ri lists
\* are not nested (ReadOffsets, subkeyList, extractRIRefs, matchRIList).
ListsAgree ==
  \A k \in Keys(hive) :
    LET strict == Subkeys(hive, k)
    IN strict.ok =>
         /\ ReadOffsets(hive, Cell(hive, k).list) = strict
         /\ Range(strict.refs) = Held(hive, Cell(hive, k).list)
         /\ NoNested(hive) /\ Children(hive, k) = Range(strict.refs) =>
              /\ WalkSubkeys(hive, k) = IF strict.refs = <<>> THEN Fails ELSE strict
              /\ MatchByHash(hive, Cell(hive, k).list, {Cell(hive, r).name : r \in Range(strict.refs)})
                   = strict

\* In a hive whose lists can be read, the scan reports a cycle exactly when some key is reached
\* twice, and names no key, list of a key, value or other cell of the tree as an orphan, except
\* those it does not look at (PassedBy) and the data of values.  In any hive the orphans it counts
\* include every allocated cell that no key leads to; it names them all if they are not more than
\* maxIssuesPerReport, and otherwise that many (walkTree, detectOrphans).
ScanRight ==
  who = "scanner" /\ status = "done" =>
    LET keys == Keys(hive)
        whole == \A k \in keys : Subkeys(hive, k).ok
        marked(k) == Shown(hive, k) \ DataOf(hive, Range(ValueRefs(hive, Cell(hive, k)).refs))
        lone == CatalogCells(hive) \ Reachable(hive)
    IN /\ whole => ~Tree(hive) = \E r \in DOMAIN hive : <<"cycle", r>> \in scan.reports
       /\ whole => scan.orphans \cap UNION {marked(k) : k \in keys} = {}
       /\ lone \subseteq scan.orphans /\ scan.named \subseteq scan.orphans
       /\ IF Cardinality(scan.orphans) <= MaxIssues THEN lone \subseteq scan.named
          ELSE Cardinality(scan.named) = MaxIssues
=============================================================================
