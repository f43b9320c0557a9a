------------------------------ MODULE MCReading ------------------------------
(* What reads a hive, for TLC: the walkers, the printers and the linker, the copier,   *)
(* the explorer, and the repair of a hive that a scan has looked at.  A behaviour is    *)
(* one of those named in Parts.  The explorer and the repair have their own variables   *)
(* and stand still in the others, which share v1 to v11.                                *)
EXTENDS Repair, Explorer, SubkeyLists, TLC

CONSTANTS Parts, k1, f1   \* a key and a value record for the repair

VARIABLES part, v1, v2, v3, v4, v5, v6, v7, v8, v9, v10, v11
slots == <<v1, v2, v3, v4, v5, v6, v7, v8, v9, v10, v11>>

-----------------------------------------------------------------------------
(* Every tree of four keys, over lists of every kind, with values (one of them big),   *)
(* security and a class.                                                               *)
K == 1..4
Trees == {p \in [2..4 -> 1..3] : \A k \in 2..4 : p[k] < k}
Plain == <<"root", "a", "b", "c">>

Kids(p, k) == SetToSortSeq({c \in DOMAIN p : p[c] = k}, <)
List(kind, refs) == [kind |-> kind, refs |-> refs]
Vk(name, type, size, ref) == [kind |-> "vk", name |-> name, type |-> type, size |-> size, data |-> ref]

KeyCell(p, names, k) ==
  [kind |-> "nk", name |-> names[k], count |-> Len(Kids(p, k)),
   list |-> IF Kids(p, k) = <<>> THEN Invalid ELSE 10 + k,
   vals |-> IF k \in {1, 3} THEN 50 + k ELSE Invalid, nvals |-> IF k = 1 THEN 1 ELSE IF k = 3 THEN 2 ELSE 0,
   time |-> 0, sk |-> 80, class |-> IF k = 2 THEN 81 ELSE Invalid]

\* The lists of key k: direct, split in two under an ri list, or nested once more.
ListCells(p, kind, k) ==
  LET kids == Kids(p, k)
  IN IF kids = <<>> THEN <<>>
     ELSE IF kind = "ri" THEN (10 + k :> List("ri", <<20 + k, 30 + k>>)) @@ (20 + k :> List("lh", <<Head(kids)>>))
                              @@ (30 + k :> List("li", Tail(kids)))
     ELSE IF kind = "riri" THEN (10 + k :> List("ri", <<40 + k>>)) @@ (40 + k :> List("ri", <<20 + k>>))
                                @@ (20 + k :> List("lf", kids))
     ELSE (10 + k :> List(kind, kids))

Others == (51 :> List("values", <<61>>)) @@ (61 :> Vk("v", "SZ", 2, 71)) @@ (71 :> [kind |-> "data"])
          @@ (53 :> List("values", <<62, 63>>)) @@ (62 :> Vk("v", "DWORD", 4, Invalid))
          @@ (63 :> Vk("w", "BINARY", 3, 73)) @@ (73 :> [kind |-> "db", blocks |-> 93])
          @@ (93 :> List("blocks", <<94>>)) @@ (94 :> [kind |-> "data"])
          @@ (80 :> [kind |-> "sk"]) @@ (81 :> [kind |-> "data"])

Whole(p, names, kinds) ==
  [k \in K |-> KeyCell(p, names, k)] @@ ListCells(p, kinds[1], 1) @@ ListCells(p, kinds[2], 2)
  @@ ListCells(p, kinds[3], 3) @@ Others

\* One damage: something is gone, not what it should be, or too short, or a key leads to keys
\* above it.
Missing(h, r) == IF r \in DOMAIN h THEN [h EXCEPT ![r] = Unresolved] ELSE h
Broken(h, d) ==
  CASE d = "none" -> h
    [] d = "list" -> Missing(h, 12)
    [] d = "sublist" -> Missing(h, 21)
    [] d = "values" -> Missing(h, 53)
    [] d = "vk" -> Missing(h, 62)
    [] d = "data" -> Missing(h, 94)
    [] d = "nolist" -> [h EXCEPT ![2].list = Invalid, ![2].count = 1]
    [] d = "otherlist" -> IF 12 \in DOMAIN h THEN [h EXCEPT ![12] = [kind |-> "data"]] ELSE h
    [] d = "otherkey" -> IF 13 \in DOMAIN h THEN [h EXCEPT ![13] = List("lf", <<4, 80>>)] ELSE h
    [] d = "novalues" -> [h EXCEPT ![2].nvals = 1]
    [] d = "fewvalues" -> [h EXCEPT ![53] = List("values", <<62>>)]
    [] d = "short" -> [h EXCEPT ![62].size = 3]
    [] d = "key" -> Missing(h, 4)
    [] d = "back" -> [h EXCEPT ![4].list = 11, ![4].count = h[1].count]
    [] d = "shared" -> [h EXCEPT ![4].list = 14, ![4].count = 1] @@ (14 :> List("lf", <<2>>))

-----------------------------------------------------------------------------
(* The walkers. *)
ListKinds == {"lf", "li", "ri", "riri"}
WalkDamages == {"none", "list", "sublist", "values", "vk", "key", "back", "shared"}
Walker == INSTANCE HiveWalk WITH
  Hives <- {Broken(Whole(p, Plain, <<k, l, k>>), d) :
              p \in Trees, k \in ListKinds, l \in ListKinds, d \in WalkDamages},
  Requests <- {{<<"a", "b", "c">>}, {<<"b">>, <<"a", "c">>}}, Root <- 1, Room <- 2, MaxIssues <- 2,
  hive <- v1, who <- v2, paths <- v3, stack <- v4, room <- v5, visited <- v6, out <- v7,
  index <- v8, status <- v9, lost <- v10, scan <- v11

-----------------------------------------------------------------------------
(* The printers, with and without a limit, and links of every strategy to a mount path  *)
(* whose last name may be that of a key.  Names may be the root's or an alias.  A hive  *)
(* whose lists lead back is only read with a limit.                                     *)
NameLists == {Plain, <<"root", "root", "b", "a">>, <<"HKEY_LOCAL_MACHINE", "HKLM", "a", "c">>}
Prints == {[what |-> w, max |-> m, vals |-> v, meta |-> w = "json" /\ v] :
             w \in {"text", "reg", "json"}, m \in {0, 1, 2}, v \in BOOLEAN}
          \cup {[what |-> w, max |-> 0, vals |-> w = "export", meta |-> FALSE] : w \in {"walk", "keys", "export"}}
Links == {[what |-> "link", max |-> 0, vals |-> TRUE, meta |-> FALSE, mount |-> m, flatten |-> f,
           strategy |-> s, rootvals |-> r] :
             m \in {<<>>, <<"m", "a">>}, f \in BOOLEAN, s \in {"overwrite", "skip", "error"}, r \in BOOLEAN}
ReadDamages == {"none", "list", "sublist", "values", "vk", "data", "short", "key"}
Jobs ==
  {[hive |-> Broken(Whole(p, n, [i \in 1..3 |-> k]), d), job |-> j] :
     p \in Trees, n \in NameLists, k \in {"lf", "ri"}, d \in ReadDamages, j \in Prints \cup Links}
  \cup {[hive |-> Broken(Whole(p, n, [i \in 1..3 |-> "lf"]), "back"), job |-> j] :
     p \in Trees, n \in NameLists, j \in {i \in Prints : i.max > 0}}

\* Two hives to compare: one change, or damage to one or both.
Changed(h, c) ==
  CASE c = "time" -> [h EXCEPT ![2].time = 1]
    [] c = "data" -> [h EXCEPT ![62].data = 95] @@ (95 :> [kind |-> "data"])
    [] c = "type" -> [h EXCEPT ![63].type = "SZ"]
    [] c = "block" -> [h EXCEPT ![94] = [kind |-> "data", bytes |-> 1]]
    [] c = "removed" -> [h EXCEPT ![3].nvals = 1]
    [] c = "renamed" -> [h EXCEPT ![4].name = "d"]
    [] c = "root" -> [h EXCEPT ![61].size = 4]
Changes == {"time", "data", "type", "block", "removed", "renamed", "root"}
Variants(p, n, k) ==
  LET h == Whole(p, n, [i \in 1..3 |-> k])
  IN {Changed(h, c) : c \in Changes} \cup {Broken(h, d) : d \in ReadDamages}
DiffJob(old) == [what |-> "diff", max |-> 0, vals |-> TRUE, meta |-> FALSE, old |-> old]
Diffs ==
  UNION {{[hive |-> h, job |-> DiffJob(o)] : h, o \in Variants(p, n, "lf")} : p \in Trees, n \in {Plain, <<"root", "HKLM", "a", "c">>}}
  \cup {[hive |-> Whole(p, Plain, <<"ri", "ri", "ri">>), job |-> DiffJob(Whole(q, Plain, <<"lf", "lf", "lf">>))] :
          p \in Trees, q \in Trees}

Reader == INSTANCE HiveDiff WITH
  Inputs <- Jobs \cup Diffs, Root <- 1, Alphabet <- <<"HKEY_LOCAL_MACHINE", "HKLM", "a", "b", "c", "root", "v", "w">>,
  Aliases <- {"HKEY_LOCAL_MACHINE", "HKLM"},
  Existing <- {<<<<"m", "a">>, "v">>, <<<<"m", "a", "b">>, "v">>, <<<<"b">>, "w">>, <<<<"a">>, "v">>},
  hive <- v1, job <- v2, todo <- v3, out <- v4, status <- v5

-----------------------------------------------------------------------------
(* Copies of every tree without big values, and of one with a key four levels down that  *)
(* may have a sibling; the process may end once.                                        *)
NoBig(h) == [h EXCEPT ![63].data = 71]
DeepHive(n) ==
  LET p == [k \in 2..(4 + n) |-> IF k <= 5 THEN k - 1 ELSE 4]
      cells == [k \in 1..(4 + n) |-> KeyCell(p, <<"root", "a", "b", "c", "d", "e">>, k)]
  IN NoBig(cells @@ ListCells(p, "lf", 1) @@ ListCells(p, "lf", 2) @@ ListCells(p, "lf", 3)
           @@ ListCells(p, "lf", 4) @@ Others)
CopyDamages == {"none", "list", "sublist", "values", "vk", "key",
                "nolist", "otherlist", "otherkey", "novalues", "fewvalues"}
CopyHives ==
  {Broken(NoBig(Whole(p, Plain, [i \in 1..3 |-> k])), d) : p \in Trees, k \in {"li", "ri", "riri"}, d \in CopyDamages}
  \cup {Whole(p, n, [i \in 1..3 |-> "lf"]) : p \in Trees, n \in {Plain, <<"root", "HKLM", "a", "c">>}}
  \cup {DeepHive(1), DeepHive(2)}
Copier == INSTANCE HiveCopy WITH
  Hives <- CopyHives, Root <- 1, RootPrefixes <- {"HKLM"}, Threshold <- 3,
  Limits <- {[depth |-> d, subkeys |-> 2, values |-> v, size |-> s] : d \in {1, 3}, v \in {1, 2}, s \in {3, 9}},
  LongNames <- {"c"}, MaxCalls <- 2,
  src <- v1, backup <- v2, temp <- v3, todo <- v4, heap <- v5, ops <- v6, status <- v7, leftover <- v8,
  calls <- v9

-----------------------------------------------------------------------------
(* The explorer, on a hive of six keys: a chain of three with two leaves, beside a key  *)
(* with one child.                                                                     *)
SixKeys == <<<<1>>, <<1, 1>>, <<1, 1, 1>>, <<1, 1, 2>>, <<2>>, <<2, 1>>>>
SixHits == {<<1, 1>>, <<1, 1, 1>>, <<1, 1, 2>>}
SixFound == <<<<1, 1, 2>>, <<2, 1>>>>
SixRows == [p \in Range(SixKeys) \cup {<<>>} |-> IF p = <<1, 1, 2>> THEN 2 ELSE IF p = <<2>> THEN 1 ELSE 0]
SixUnread == [s \in Subs |-> IF s = "table" THEN {<<2, 1>>} ELSE {<<1, 1>>}]
SixTargets == {<<1, 1, 1>>, <<2, 1>>, <<2, 2>>}

-----------------------------------------------------------------------------
(* Repairs: everything is to be repaired, while writes fail and the machine stops; or   *)
(* only what is safe, while the directory cannot be synced.                            *)
RepairSetups == {[AutoOnly |-> FALSE, MaxRisk |-> 3, foreign |-> FALSE, faults |-> {"write", "crash"}],
                 [AutoOnly |-> TRUE, MaxRisk |-> 1, foreign |-> FALSE, faults |-> {"syncdir"}]}
\* The other parts leave a repair at one of its initial states.
NoRepair == Init /\ setup = (CHOOSE x \in Setups : TRUE) /\ data = (CHOOSE D \in Damaged : TRUE)

-----------------------------------------------------------------------------
NoSlots == v1 = 0 /\ v2 = 0 /\ v3 = 0 /\ v4 = 0 /\ v5 = 0 /\ v6 = 0 /\ v7 = 0 /\ v8 = 0 /\ v9 = 0 /\ v10 = 0 /\ v11 = 0
MCInit ==
  /\ part \in Parts /\ ViewInit
  /\ \/ part = "walk" /\ Walker!Init /\ NoRepair
     \/ part = "read" /\ Reader!Init /\ v6 = 0 /\ v7 = 0 /\ v8 = 0 /\ v9 = 0 /\ v10 = 0 /\ v11 = 0 /\ NoRepair
     \/ part = "copy" /\ Copier!Init /\ v10 = 0 /\ v11 = 0 /\ NoRepair
     \/ part = "explore" /\ NoSlots /\ NoRepair
     \/ part = "repair" /\ NoSlots /\ Init

MCNext ==
  \/ part = "walk" /\ Walker!Next /\ UNCHANGED <<part, vars, viewVars>>
  \/ part = "read" /\ Reader!DiffNext /\ UNCHANGED <<part, vars, viewVars, v6, v7, v8, v9, v10, v11>>
  \/ part = "copy" /\ Copier!Next /\ UNCHANGED <<part, vars, viewVars, v10, v11>>
  \/ part = "explore" /\ ViewNext /\ UNCHANGED <<part, vars, slots>>
  \/ part = "repair" /\ Next /\ UNCHANGED <<part, viewVars, slots>>

\* A walk runs on until it ends or is cancelled.
mcVars == <<part, vars, viewVars, slots>>
MCSpec ==
  /\ MCInit /\ [][MCNext]_mcVars
  /\ WF_mcVars(part = "walk" /\ Walker!Walk /\ UNCHANGED <<part, vars, viewVars>>)
-----------------------------------------------------------------------------
\* A walk that has ended agrees with what the cells say: the validator visits every cell of every key
\* once, the index holds every key and every readable value and nothing else, a partial index
\* what lies on the paths asked for, the scan reports cycles and lost cells, and the readers of
\* subkey lists return the same keys; with the exceptions that module HiveWalk names.
WalksRight ==
  part = "walk" /\ v9 # "running" =>
    Walker!VisitsRight /\ Walker!IndexComplete /\ Walker!PartialAgrees /\ Walker!ListsAgree
    /\ Walker!ScanRight

\* Every walk ends, also in a hive whose lists lead back to keys above (the bitmap is all that
\* stops it).
WalkEnds == (part = "walk" /\ v9 = "running") ~> (part = "walk" /\ v9 # "running")

\* A printer shows every key and readable value once and in order, a key is found under its
\* path, and a link holds every key and the values that its strategy does not keep.
ReadsRight == part = "read" => Reader!PrintsRight /\ Reader!FindRight /\ Reader!LinkRight

\* The diff of two hives says of every key what the two hold under its path.
DiffRight == part = "read" => Reader!DiffRight

\* A defragmented hive holds what the hive held, a failed one is left as it was, and limits are
\* found exceeded where they are; with the exceptions that module HiveCopy names.
CopiesRight == part = "copy" => Copier!DefragRight /\ Copier!DefragEnds /\ Copier!ValidateRight

\* "copyHiveContents walks the source hive and copies all keys and values to dst."
DefragKeeps == part = "copy" => Copier!DefragKeeps
=============================================================================
