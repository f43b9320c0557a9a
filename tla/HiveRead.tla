------------------------------- MODULE HiveRead -------------------------------
(***************************************************************************)
(* Reading a hive from its root: how the reader finds a key by its path,   *)
(* the printer's three formats, the .reg export, Hive.Walk, a session's    *)
(* WalkKeys, and LinkSubtree, which reads a child hive by paths and makes  *)
(* a plan for its parent.  Names are taken as already folded to one case;  *)
(* a path is a sequence of names.                                          *)
(*                                                                         *)
(*   hive    the cells                                                     *)
(*   job     what: text, json, reg, export, walk, keys or link, options    *)
(*   todo    the calls still to make, the next one first                   *)
(*   out     what was printed, or the operations of the plan               *)
(*   status  running, done or error                                        *)
(***************************************************************************)
EXTENDS SubkeyLists, TLC

CONSTANTS Inputs,   \* pairs of a hive and a job for it
          Root,
          Alphabet, \* the names in alphabetical order
          Aliases,  \* HKEY_LOCAL_MACHINE, HKLM, ...
          Existing  \* <<path, name>> of the values the parent hive has

VARIABLES hive, job, todo, out, status

vars == <<hive, job, todo, out, status>>

-----------------------------------------------------------------------------
(* The reader. *)

StatKey(h, r) == Cell(h, r).kind = "nk"

StatValue(h, v) == Cell(h, v).kind = "vk"
ValueBytes(h, v) ==
  LET d == Cell(h, Cell(h, v).data)
      blocks == IF d.kind = "db" THEN Cell(h, d.blocks) ELSE Unresolved
  IN /\ StatValue(h, v)
     /\ \/ Cell(h, v).data = Invalid
        \/ d.kind = "data"
        \/ blocks.kind = "blocks" /\ \A b \in Range(blocks.refs) : Cell(h, b).kind = "data"

\* ValueString, ValueStrings, ValueDWORD and ValueQWORD: whether the data suits the type.
Decodes(h, v) ==
  /\ ValueBytes(h, v)
  /\ LET vk == Cell(h, v)
     IN CASE vk.type = "SZ" -> vk.size % 2 = 0
          [] vk.type = "MULTI_SZ" -> vk.size % 2 = 0 /\ vk.size > 0
          [] vk.type = "DWORD" -> vk.size >= 4
          [] vk.type = "QWORD" -> vk.size >= 8
          [] OTHER -> TRUE

First(seq, Test(_)) == SelectInSeq(seq, Test)

\* The first value of the name; values that cannot be read are passed over.
GetValue(h, r, name) ==
  LET refs == Values(h, r).refs
      i == First(refs, LAMBDA v : StatValue(h, v) /\ Cell(h, v).name = name)
  IN IF i = 0 THEN Invalid ELSE refs[i]

\* Find stops at the first child that cannot be read; Lookup and GetChild pass over it.
FindChild(h, r, name) ==
  LET refs == Subkeys(h, r).refs
      i == First(refs, LAMBDA c : ~StatKey(h, c) \/ Cell(h, c).name = name)
  IN IF i = 0 \/ ~StatKey(h, refs[i]) THEN Invalid ELSE refs[i]

GetChild(h, r, name) ==
  LET refs == Subkeys(h, r).refs
      i == First(refs, LAMBDA c : StatKey(h, c) /\ Cell(h, c).name = name)
  IN IF i = 0 THEN Invalid ELSE refs[i]

StripRootPrefix(path) == IF path # <<>> /\ Head(path) \in Aliases THEN Tail(path) ELSE path

\* The root by its own name, or by the short form of it; one pair stands for those of rootAliasMap.
AliasMatches(name, segment) == name = "HKEY_LOCAL_MACHINE" /\ segment = "HKLM"
CutRootName(h, path) ==
  LET name == Cell(h, Root).name
  IN IF path # <<>> /\ (Head(path) = name \/ AliasMatches(name, Head(path))) THEN Tail(path) ELSE path

RECURSIVE FindBySegments(_, _, _)
FindBySegments(h, r, segments) ==
  IF segments = <<>> \/ r = Invalid THEN r
  ELSE FindBySegments(h, FindChild(h, r, Head(segments)), Tail(segments))

Find(h, path) == FindBySegments(h, Root, CutRootName(h, StripRootPrefix(path)))

-----------------------------------------------------------------------------
Call(r, path) == [do |-> "visit", ref |-> r, path |-> path]
ListCall(path) == [do |-> "list", ref |-> Invalid, path |-> path]

\* The readable children of a key, as calls.
ChildCalls(r, path) ==
  LET refs == SelectSeq(Subkeys(hive, r).refs, LAMBDA c : StatKey(hive, c))
  IN [i \in DOMAIN refs |-> Call(refs[i], Append(path, Cell(hive, refs[i]).name))]

Deep(path) == job.max > 0 /\ Len(path) >= job.max
ReadableNames(v) == [i \in DOMAIN v |-> Cell(hive, v[i]).name]
Line(path, vals) == [path |-> path, vals |-> ReadableNames(vals), blank |-> FALSE]

Is(what) == status = "running" /\ job.what = what /\ todo # <<>>
Here == Head(todo)
Fail == status' = "error" /\ UNCHANGED <<todo, out>>
Step(calls, lines) == todo' = calls \o Tail(todo) /\ out' = out \o lines /\ UNCHANGED status

\* (mutant) the limit is tested before the key is printed
TextBelow(r, path) ==
  IF job.max > 0 /\ Len(path) + 1 >= job.max THEN <<>> ELSE ChildCalls(r, path)

\* The children a text or .reg printer goes on with.
Below(r, path) == IF Deep(path) THEN <<>> ELSE ChildCalls(r, path)
BelowFails(r, path) == ~Deep(path) /\ ~Subkeys(hive, r).ok

\* The values a key is printed with: in text one that cannot be decoded ends all,
\* in the other formats it is left out.
PrintKeyText(r) ==
  LET vals == IF job.vals THEN Values(hive, r) ELSE Refs(<<>>)
  IN IF \E v \in Range(vals.refs) : ~Decodes(hive, v) THEN Fails ELSE vals
PrintValueReg(r) ==
  SelectSeq(IF job.vals THEN Values(hive, r).refs ELSE <<>>, LAMBDA v : Decodes(hive, v))
DecodeValueJSON(r) ==
  SelectSeq(IF job.vals THEN Values(hive, r).refs ELSE <<>>, LAMBDA v : Decodes(hive, v))

\* The key the printing starts from is not printed.
PrintTreeText ==
  /\ Is("text")
  /\ LET shown == Here.path # <<>>
         vals == PrintKeyText(Here.ref)
     IN IF (shown /\ ~vals.ok) \/ BelowFails(Here.ref, Here.path) THEN Fail
        ELSE Step(Below(Here.ref, Here.path), IF shown THEN <<Line(Here.path, vals.refs)>> ELSE <<>>)
  /\ UNCHANGED <<hive, job>>

PrintTreeReg ==
  /\ Is("reg")
  /\ IF BelowFails(Here.ref, Here.path) THEN Fail
     ELSE Step(Below(Here.ref, Here.path), <<Line(Here.path, PrintValueReg(Here.ref))>>)
  /\ UNCHANGED <<hive, job>>

\* Below the limit a key is an entry without a name; a list that cannot be read is empty.
BuildJSONTree ==
  /\ Is("json") /\ job.meta
  /\ IF Deep(Here.path) THEN Step(<<>>, <<[path |-> Here.path, vals |-> <<>>, blank |-> TRUE]>>)
     ELSE IF ~StatKey(hive, Here.ref) THEN Fail
     ELSE Step(ChildCalls(Here.ref, Here.path), <<Line(Here.path, DecodeValueJSON(Here.ref))>>)
  /\ UNCHANGED <<hive, job>>

PrintTreeJSONNamesOnly ==
  /\ Is("json") /\ ~job.meta
  /\ LET calls == ChildCalls(Here.ref, Here.path)
     IN IF ~Subkeys(hive, Here.ref).ok THEN Fail
        ELSE Step(<<>>, [i \in DOMAIN calls |-> Line(calls[i].path, <<>>)])
  /\ UNCHANGED <<hive, job>>

NameOf(r) == IF StatKey(hive, r) THEN Cell(hive, r).name ELSE "?"

\* Hive.Walk: every child is called for, one that cannot be read ends the walk.
WalkKey ==
  /\ Is("walk")
  /\ LET refs == Subkeys(hive, Here.ref)
     IN IF ~StatKey(hive, Here.ref) \/ ~refs.ok THEN Fail
        ELSE Step([i \in DOMAIN refs.refs |->
                     Call(refs.refs[i], Append(Here.path, NameOf(refs.refs[i])))],
                  <<Line(Here.path, <<>>)>>)
  /\ UNCHANGED <<hive, job>>

\* Session.WalkKeys, by the lists of walker.WalkSubkeysCtx.
WalkKeysRecursive ==
  /\ Is("keys")
  /\ LET refs == IF Cell(hive, Here.ref).count = 0 THEN Refs(<<>>) ELSE WalkSubkeysCtx(hive, Here.ref)
     IN IF ~refs.ok THEN Fail
        ELSE Step([i \in DOMAIN refs.refs |-> Call(refs.refs[i], Append(Here.path, NameOf(refs.refs[i])))],
                  <<Line(Here.path, <<>>)>>)
  /\ UNCHANGED <<hive, job>>

\* exportKey: values and children by name; whatever cannot be read ends the export.
Rank(r) == SelectInSeq(Alphabet, LAMBDA n : n = Cell(hive, r).name)
ByName(refs) == SortSeq(refs, LAMBDA x, y : Rank(x) < Rank(y))
EmitValue(v) == IF Cell(hive, v).kind = "vk" /\ Cell(hive, v).type = "QWORD" THEN ValueBytes(hive, v) ELSE Decodes(hive, v)
ExportKey ==
  /\ Is("export")
  /\ LET vals == Values(hive, Here.ref)
         kids == Subkeys(hive, Here.ref)
         readable == /\ vals.ok /\ \A v \in Range(vals.refs) : EmitValue(v)
                     /\ kids.ok /\ \A c \in Range(kids.refs) : StatKey(hive, c)
     IN IF ~readable THEN Fail
        ELSE Step([i \in DOMAIN kids.refs |-> LET c == ByName(kids.refs)[i]
                                              IN Call(c, Append(Here.path, Cell(hive, c).name))],
                  <<Line(Here.path, ByName(vals.refs))>>)
  /\ UNCHANGED <<hive, job>>

-----------------------------------------------------------------------------
(* LinkSubtree: everything is looked up again by its path. *)

SplitAndStripPath(path) == IF Len(path) > 1 THEN StripRootPrefix(path) ELSE path
RootNames(h) == LET calls == SelectSeq(Subkeys(h, Root).refs, LAMBDA c : StatKey(h, c))
                IN [i \in DOMAIN calls |-> Cell(h, calls[i]).name]
SkipFirstSegment(h, j) ==
  j.flatten /\ j.mount # <<>> /\ RootNames(h) # <<>> /\ Head(RootNames(h)) = Last(j.mount)

TargetPath(path) ==
  LET segments == SplitAndStripPath(path)
  IN job.mount \o IF SkipFirstSegment(hive, job) THEN Tail(segments) ELSE segments

EnsureKey(path) == [op |-> "key", path |-> path, name |-> "", from |-> Invalid]
SetValue(path, v) == [op |-> "set", path |-> path, name |-> Cell(hive, v).name, from |-> v]

\* ListValues and then GetValue of each name.
Listed(r) == SelectSeq(Values(hive, r).refs, LAMBDA v : StatValue(hive, v))
Got(r, v) == GetValue(hive, r, Cell(hive, v).name)
Copyable(r) == /\ r # Invalid /\ Values(hive, r).ok
               /\ \A v \in Range(Listed(r)) : ValueBytes(hive, Got(r, v))

ImportRootValues(h, j) ==
  IF ~j.rootvals THEN <<>>
  ELSE LET vals == SelectSeq(Values(h, Root).refs, LAMBDA v : StatValue(h, v))
       IN [i \in DOMAIN vals |-> [op |-> "set", path |-> j.mount, name |-> Cell(h, vals[i]).name,
                                   from |-> GetValue(h, Root, Cell(h, vals[i]).name)]]
RootFails(h, j) ==
  j.rootvals /\ \/ ~Values(h, Root).ok
                \/ \E v \in Range(Values(h, Root).refs) :
                     StatValue(h, v) /\ ~ValueBytes(h, GetValue(h, Root, Cell(h, v).name))

Conflict(target, v) == <<target, Cell(hive, v).name>> \in Existing

Copied(r, target) ==
  SelectSeq(Listed(r), LAMBDA v : ~(job.strategy = "skip" /\ Conflict(target, v)))

\* One key of walkAndLink: the key, its values, and then the call for its subkeys.
LinkKey ==
  /\ Is("link") /\ Here.do = "visit"
  /\ LET r == Find(hive, Here.path)
         target == TargetPath(Here.path)
         copied == Copied(r, target)
     IN IF ~Copyable(r) \/ (job.strategy = "error" /\ \E v \in Range(Listed(r)) : Conflict(target, v))
        THEN Fail
        ELSE Step(<<ListCall(Here.path)>>,
                  <<EnsureKey(target)>> \o [i \in DOMAIN copied |-> SetValue(target, Got(r, copied[i]))])
  /\ UNCHANGED <<hive, job>>

WalkAndLink ==
  /\ Is("link") /\ Here.do = "list"
  /\ LET r == Find(hive, Here.path)
     IN IF r = Invalid \/ ~Subkeys(hive, r).ok THEN Fail
        ELSE Step(ChildCalls(r, Here.path), <<>>)
  /\ UNCHANGED <<hive, job>>

-----------------------------------------------------------------------------
Init ==
  /\ \E in \in Inputs : hive = in.hive /\ job = in.job
  /\ todo = <<IF job.what = "link" THEN ListCall(<<>>) ELSE Call(Root, <<>>)>>
  /\ out = IF job.what = "link" /\ ~RootFails(hive, job) THEN ImportRootValues(hive, job) ELSE <<>>
  /\ status = IF job.what = "link" /\ RootFails(hive, job) THEN "error" ELSE "running"

Finish == status = "running" /\ todo = <<>> /\ status' = "done" /\ UNCHANGED <<hive, job, todo, out>>

Next ==
  \/ PrintTreeText \/ PrintTreeReg \/ BuildJSONTree \/ PrintTreeJSONNamesOnly
  \/ WalkKey \/ WalkKeysRecursive \/ ExportKey
  \/ LinkKey \/ WalkAndLink
  \/ Finish

Spec == Init /\ [][Next]_vars

-----------------------------------------------------------------------------
(* Properties. *)

Keys(h) == Closure(h, {Root})

\* The keys below r with their paths, down to n levels.
RECURSIVE Located(_, _, _, _)
Located(h, r, path, n) ==
  {[path |-> path, ref |-> r]} \cup
  IF n = 0 THEN {}
  ELSE UNION {Located(h, c, Append(path, Cell(h, c).name), n - 1) : c \in Children(h, r)}

Levels == IF job.max > 0 THEN job.max ELSE Cardinality(Keys(hive))
All == Located(hive, Root, <<>>, Levels)

\* Every list can be read; and every entry of the lists, every value and its data.
ListsWhole == \A k \in Keys(hive) : Subkeys(hive, k).ok
KeysWhole == ListsWhole /\ \A k \in Keys(hive) : \A c \in Range(Subkeys(hive, k).refs) : StatKey(hive, c)
ValuesWhole == \A k \in Keys(hive) : /\ Values(hive, k).ok
                                     /\ \A v \in Range(Values(hive, k).refs) : Decodes(hive, v)

\* What each format is to show: text leaves out the key it starts from and json shows
\* no names at the limit.
Depths == CASE job.what = "text" -> 1..Levels
            [] job.what = "json" /\ ~job.meta -> {1}
            [] job.what = "json" /\ job.max > 0 -> 0..(Levels - 1)
            [] OTHER -> 0..Levels
ToShow == {k \in All : Len(k.path) \in Depths}
Shows == job.vals /\ (job.what = "json" => job.meta)
Sees(k) == LET v == Values(hive, k.ref).refs
           IN IF Shows THEN {Cell(hive, x).name : x \in {y \in Range(v) : Decodes(hive, y)}} ELSE {}

Printed == SelectSeq(out, LAMBDA l : ~l.blank)

\* A printer or walk that ends well, in a hive whose lists can be read, has shown every
\* key it should and no other, each once with all its readable values, in order: a key
\* right after its parent or after the subtree of an earlier sibling.  It ends well
\* exactly when what it does not pass over can be read; an export is in alphabetical order
\* (printTreeText, printTreeReg, buildJSONTree, exportKey, Hive.Walk, Session.WalkKeys).
PrintsRight ==
  job.what \notin {"link", "diff"} =>
    /\ status = "done" /\ ListsWhole =>
         /\ {[path |-> Printed[i].path, vals |-> Range(Printed[i].vals)] : i \in DOMAIN Printed}
              = {[path |-> k.path, vals |-> Sees(k)] : k \in ToShow}
         /\ Len(Printed) = Cardinality(ToShow)
         /\ \A i \in DOMAIN Printed \ {1} :
              LET p == Printed[i].path
                  q == Printed[i - 1].path
              IN ~(job.what = "json" /\ ~job.meta) => Len(p) <= Len(q) + 1 /\ IsPrefix(Front(p), q)
         /\ job.what = "export" =>
              \A i, j \in DOMAIN Printed :
                LET p == Printed[i].path
                    q == Printed[j].path
                    Place(n) == SelectInSeq(Alphabet, LAMBDA m : m = n)
                IN p # <<>> /\ q # <<>> /\ Front(p) = Front(q) /\ i < j => Place(Last(p)) <= Place(Last(q))
    /\ status = "error" =>
         CASE job.what = "text" -> ~ListsWhole \/ ~ValuesWhole
           [] job.what = "export" -> ~KeysWhole \/ ~ValuesWhole
           [] job.what \in {"walk", "keys"} -> ~KeysWhole
           [] OTHER -> ~ListsWhole

\* A first segment that Find may take for the hive's own name.
Ambiguous == \E n \in Range(RootNames(hive)) : n = Cell(hive, Root).name \/ n \in Aliases

\* Every key is found under its path, and only that key, and child by child too, and also with
\* the name of the root in front; but where a key of the root has the name of the root or of an
\* alias its path leads elsewhere, and behind the name of a root that is itself such a name,
\* two are cut off (findBySegments, stripRootPrefix).  Of these paths nothing is claimed.
FindRight ==
  status = "done" /\ KeysWhole =>
    \A k \in All : /\ ~Ambiguous => Find(hive, k.path) = k.ref
                   /\ ~(Ambiguous /\ Cell(hive, Root).name \in Aliases) =>
                        Find(hive, <<Cell(hive, Root).name>> \o k.path) = k.ref
                   /\ FoldLeft(LAMBDA r, n : GetChild(hive, r, n), Root, k.path) = k.ref

LinkTarget(path) == job.mount \o path
ExpectedSets ==
  UNION {{<<LinkTarget(k.path), Cell(hive, v).name, v>> :
            v \in {w \in Range(Values(hive, k.ref).refs) : k.path # <<>> \/ job.rootvals}} : k \in All}
Kept(s) == job.strategy = "skip" /\ <<s[1], s[2]>> \in Existing /\ s[1] # job.mount
Ops(kind) == SelectSeq(out, LAMBDA o : o.op = kind)

\* The plan of LinkSubtree holds every key of the child under the mount path once, after
\* its parent, and every value but those the strategy keeps; root values are set whatever
\* the strategy (importRootValues, walkAndLink, copyKeyValues).
LinkRight ==
  job.what = "link" /\ status # "running" /\ KeysWhole /\ ValuesWhole /\ ~Ambiguous /\ ~SkipFirstSegment(hive, job) =>
    /\ status = "done" =>
         /\ {o.path : o \in Range(Ops("key"))} = {LinkTarget(k.path) : k \in {l \in All : l.path # <<>>}}
         /\ Len(Ops("key")) = Cardinality(All) - 1
         /\ {<<o.path, o.name, o.from>> : o \in Range(Ops("set"))} = {s \in ExpectedSets : ~Kept(s)}
         /\ \A i, j \in DOMAIN out :
              out[i].op = "key" /\ out[j].path # out[i].path /\ IsPrefix(out[i].path, out[j].path)
              /\ out[j].op = "key" => i < j
    /\ status = "error" => job.strategy = "error" /\ \E s \in ExpectedSets : <<s[1], s[2]>> \in Existing

=============================================================================
