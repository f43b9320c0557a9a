------------------------------ MODULE RegMerge ------------------------------
(***************************************************************************)
(* From .reg files to a merge plan: the parser of internal/regtext, the    *)
(* optimizer of internal/regmerge (a sweep from right to left, then a new  *)
(* order), and PlanFromRegTexts of hive/merge/api.go, which turns what is  *)
(* left into the operations a session executes.                            *)
(*                                                                         *)
(* A line of a file is a section, a deleted section, a value or a deleted  *)
(* value.  A path is spelled with a root, which is dropped, and segments,  *)
(* all in lower case; "V" is another spelling of the value name "v", and   *)
(* "" is the default value.                                                *)
(***************************************************************************)
EXTENDS Naturals, Sequences, FiniteSets, TLC
LOCAL INSTANCE SequencesExt

CONSTANTS
  Paths,     \* the paths that occur, as sequences of segments
  Spelled,   \* ... and as files spell them, with a root: [root: {"HKLM", "hklm"}, segs: Paths]
  Names,     \* value names
  Data,      \* value data
  MaxOps,    \* bound on the operations of all files
  MaxFiles   \* bound on the files

VARIABLES
  hive,            \* the hive before the merge
  files,           \* files begun
  seenKeys,        \* ParseReg's: sections that had their CreateKey
  current,         \* ParseReg's: the section a value belongs to
  ops,             \* the parsed operations of all files
  pc, i,           \* where the optimizer is; the operation it looks at
  kept,            \* applyR2LOptimization's: what a later operation decides
  deletedPaths,    \* applyR2LOptimization's: keys deleted later
  result           \* what is kept, newest first; at the end the plan

vars == <<hive, files, seenKeys, current, ops, pc, i, kept, deletedPaths, result>>
parser == <<hive, files, seenKeys, current, ops>>
sweep == <<i, kept, deletedPaths, result>>

NoSection == <<>>
Op(k, p, n, d) == [kind |-> k, path |-> p, name |-> n, data |-> d]
LowerName(n) == IF n = "V" THEN "v" ELSE n

(***************************************************************************)
(* What a plan does to a hive: the keys and the values it has.             *)
(***************************************************************************)
\* stripHiveRootAndSplit knows the roots in capitals only.
stripHiveRootAndSplit(p) == IF p.root = "HKLM" THEN p.segs ELSE <<p.root>> \o p.segs

Below(p, q) == IsPrefix(p, q)
EnsureKey(h, p) == [h EXCEPT !.keys = @ \cup {SubSeq(p, 1, k) : k \in 1..Len(p)}]
WithoutValue(h, p, n) == [h EXCEPT !.vals = {v \in @ : ~(v.key = p /\ v.name = LowerName(n))}]

Execute(h, op) ==
  LET p == stripHiveRootAndSplit(op.path)
  IN CASE op.kind = "CreateKey" -> EnsureKey(h, p)
       [] op.kind = "SetValue" ->
            [WithoutValue(EnsureKey(h, p), p, op.name)
              EXCEPT !.vals = @ \cup {[key |-> p, name |-> LowerName(op.name), data |-> op.data]}]
       [] op.kind = "DeleteValue" -> WithoutValue(EnsureKey(h, p), p, op.name)
       [] op.kind = "DeleteKey" -> [keys |-> {k \in h.keys : ~Below(p, k)},
                                    vals |-> {v \in h.vals : ~Below(p, v.key)}]

Run(plan) == FoldLeft(Execute, hive, plan)

\* An empty hive, and one in which every path and every value is there.
StartHives ==
  LET keys == UNION {{SubSeq(p, 1, k) : k \in 1..Len(p)} : p \in Paths}
  IN {[keys |-> {}, vals |-> {}],
      [keys |-> keys,
       vals |-> {[key |-> p, name |-> LowerName(n), data |-> "old"] : p \in Paths, n \in Names}]}

Init ==
  /\ hive \in StartHives
  /\ files = 1 /\ seenKeys = {} /\ current = NoSection /\ ops = <<>>
  /\ pc = "parse" /\ i = 0 /\ kept = {} /\ deletedPaths = {} /\ result = <<>>

(***************************************************************************)
(* ParseReg, a line at a time.                                             *)
(***************************************************************************)
Section(p) ==
  /\ pc = "parse" /\ Len(ops) < MaxOps
  /\ ops' = IF p \in seenKeys THEN ops ELSE Append(ops, Op("CreateKey", p, "", "none"))
  /\ seenKeys' = seenKeys \cup {p} /\ current' = p
  /\ UNCHANGED <<hive, files, pc, sweep>>

DeleteSection(p) ==
  /\ pc = "parse" /\ Len(ops) < MaxOps
  /\ ops' = Append(ops, Op("DeleteKey", p, "", "none"))
  /\ current' = NoSection
  /\ UNCHANGED <<hive, files, seenKeys, pc, sweep>>

\* A value without a section is an error of the parser.
ValueLine(op) ==
  /\ pc = "parse" /\ Len(ops) < MaxOps
  /\ current # NoSection
  /\ ops' = Append(ops, op)
  /\ UNCHANGED <<hive, files, seenKeys, current, pc, sweep>>
SetValue(n, d) == ValueLine(Op("SetValue", current, n, d))
DeleteValue(n) == ValueLine(Op("DeleteValue", current, n, "none"))

\* ParseAndOptimize parses each file by itself and joins the operations.
NextFile ==
  /\ pc = "parse" /\ files < MaxFiles
  /\ files' = files + 1 /\ seenKeys' = {} /\ current' = NoSection
  /\ UNCHANGED <<hive, ops, pc, sweep>>

Optimize ==
  /\ pc = "parse" /\ ops # <<>>
  /\ pc' = "sweep" /\ i' = Len(ops)
  /\ UNCHANGED <<parser, kept, deletedPaths, result>>

(***************************************************************************)
(* applyR2LOptimization.                                                   *)
(***************************************************************************)
normalizePath(p) == p.segs

isUnderDeleted(p) == \E q \in deletedPaths : Below(q, p)

opKey(op) == <<normalizePath(op.path), IF op.kind = "CreateKey" THEN "" ELSE op.name>>

SweepDeleteKey ==
  /\ pc = "sweep" /\ i > 0 /\ ops[i].kind = "DeleteKey"
  /\ deletedPaths' = deletedPaths \cup {normalizePath(ops[i].path)}
  /\ result' = Append(result, ops[i])
  /\ i' = i - 1
  /\ UNCHANGED <<parser, pc, kept>>

\* SetValue, DeleteValue and CreateKey: dropped if a later operation decides
\* the same value, or deletes the key or one above it.
SweepOther ==
  /\ pc = "sweep" /\ i > 0 /\ ops[i].kind # "DeleteKey"
  /\ IF opKey(ops[i]) \in kept \/ isUnderDeleted(normalizePath(ops[i].path))
       THEN UNCHANGED <<kept, result>>
       ELSE /\ kept' = kept \cup {opKey(ops[i])}
            /\ result' = Append(result, ops[i])
  /\ i' = i - 1
  /\ UNCHANGED <<parser, pc, deletedPaths>>

(***************************************************************************)
(* orderOps: by depth, by path, and within a key by kind.                  *)
(***************************************************************************)
\* (mutant) deletions last.
opPriorityDeleteLast(op) ==
  CASE op.kind = "CreateKey" -> 0
    [] op.kind = "DeleteKey" -> 4
    [] op.kind = "DeleteValue" -> 2
    [] op.kind = "SetValue" -> 3
opPriority(op) ==
  CASE op.kind = "CreateKey" -> 0
    [] op.kind = "DeleteKey" -> 1
    [] op.kind = "DeleteValue" -> 2
    [] op.kind = "SetValue" -> 3

\* Some order of the paths of one depth stands for the lexicographic one:
\* operations on them do not meet.
PathRank == CHOOSE f \in [Paths -> 1..Cardinality(Paths)] : \A p, q \in Paths : f[p] = f[q] => p = q

getOpPath(op) == normalizePath(op.path)
Before(a, b) ==
  LET p == getOpPath(a)  q == getOpPath(b)
  IN IF Len(p) # Len(q) THEN Len(p) < Len(q)
     ELSE IF p # q THEN PathRank[p] < PathRank[q]
     ELSE opPriority(a) < opPriority(b)

\* sort.Slice promises nothing about operations that compare as equal.
orderOps(s) ==
  LET n == Len(s)
      orders == {f \in Permutations(1..n) : \A a, b \in 1..n : a < b => ~Before(s[f[b]], s[f[a]])}
  IN {[k \in 1..n |-> s[f[k]]] : f \in orders}

Order ==
  /\ pc = "sweep" /\ i = 0
  /\ result' \in orderOps(Reverse(result))
  /\ pc' = "done"
  /\ UNCHANGED <<parser, i, kept, deletedPaths>>

Next ==
  \/ \E p \in Spelled : Section(p) \/ DeleteSection(p)
  \/ \E n \in Names : DeleteValue(n) \/ \E d \in Data : SetValue(n, d)
  \/ NextFile \/ Optimize
  \/ SweepDeleteKey \/ SweepOther \/ Order

Spec == Init /\ [][Next]_vars
-----------------------------------------------------------------------------
\* What the sweep does not tell apart, or takes for different: a root that is not in capitals,
\* which only normalizePath drops, beside one that is ...
RootsMeet(p) ==
  \E a, b \in DOMAIN ops :
    /\ ops[a].path.root # ops[b].path.root
    /\ Below(ops[a].path.segs, p) \/ Below(<<ops[a].path.root>> \o ops[a].path.segs, p)
    /\ Below(ops[a].path.segs, ops[b].path.segs) \/ Below(ops[b].path.segs, ops[a].path.segs)

\* ... a value name in two spellings, the order of which orderOps leaves open ...
TwoSpellings(v) ==
  \E a, b \in DOMAIN ops :
    /\ ops[a].kind \in {"SetValue", "DeleteValue"} /\ ops[b].kind \in {"SetValue", "DeleteValue"}
    /\ stripHiveRootAndSplit(ops[a].path) = v.key /\ stripHiveRootAndSplit(ops[b].path) = v.key
    /\ LowerName(ops[a].name) = v.name /\ LowerName(ops[b].name) = v.name
    /\ ops[a].name # ops[b].name

\* ... and the default value of a key and a later section of the same key.
DefaultThenSection(v) ==
  /\ v.name = ""
  /\ \E a, b \in DOMAIN ops :
       /\ a < b
       /\ ops[a].kind \in {"SetValue", "DeleteValue"} /\ ops[a].name = ""
       /\ ops[b].kind = "CreateKey" /\ ops[b].path = ops[a].path
       /\ stripHiveRootAndSplit(ops[a].path) = v.key

Told(v) == ~RootsMeet(v.key) /\ ~TwoSpellings(v) /\ ~DefaultThenSection(v)

\* The optimized plan leaves the values that the operations as written leave,
\* whatever is dropped and however it is ordered, except for values that the
\* optimizer does not tell apart.
ValuesSame ==
  pc = "done" => LET as == Run(result).vals  written == Run(ops).vals
                 IN \A v \in as \cup written : Told(v) => v \in as /\ v \in written

\* ... and, in any case, no key that the operations as written would not
\* leave: nothing deleted survives.
NoExtraKeys == pc = "done" => Run(result).keys \subseteq Run(ops).keys

\* ... and all of the keys ("Final states should be identical").
KeysSame == pc = "done" => Run(result).keys = Run(ops).keys
=============================================================================
