------------------------------- MODULE PlanText -------------------------------
(***************************************************************************)
(* The ways of a plan through text: as a JSON patch and back               *)
(* (hive/merge/planner.go), and from the operations of a .reg file, with a *)
(* prefix put in front of their paths (hive/merge/merge_prefix.go) or      *)
(* without (api.go, v2/merge.go, hive/builder, pkg/hive/write.go).  Each   *)
(* way has its own idea of the root that a path may begin with.            *)
(* A path as text is the sequence of what stands between its backslashes,  *)
(* empty segments included; a path of a plan has none of these.            *)
(***************************************************************************)
EXTENDS Naturals, Sequences, SequencesExt, TLC

CONSTANTS Texts,      \* the paths that occur, as text
          PrefixTexts,   \* the prefixes, as text
          Types,      \* value types, numbers
          Capitals    \* names written in small letters |-> the same in capitals

VARIABLES op, prefix  \* an operation of the plan or of the file, and a prefix

Kinds == {"ensure_key", "delete_key", "set_value", "delete_value"}
Op(kind, path, type, data) == [kind |-> kind, path |-> path, type |-> type, data |-> data]
PlanInit ==
  /\ prefix \in PrefixTexts
  /\ op \in {Op(kind, path, IF kind = "set_value" THEN type ELSE 0,
                IF kind = "set_value" THEN data ELSE "none")
              : kind \in Kinds, path \in Texts, type \in Types, data \in {"none", "some"}}

-----------------------------------------------------------------------------
(* Paths.                                                                  *)
RootNames == <<"HKEY_LOCAL_MACHINE", "HKEY_CURRENT_USER", "HKEY_CLASSES_ROOT", "HKEY_USERS",
               "HKEY_CURRENT_CONFIG", "HKLM", "HKCU", "HKCR", "HKU", "HKCC">>

\* TrimPrefix(path, root + "\"): a root with nothing behind it stays.
TrimRoot(text, root) == IF Len(text) > 1 /\ text[1] = root THEN Tail(text) ELSE text
stripHiveRootPrefix(text) == FoldLeft(TrimRoot, text, RootNames)
NonEmpty(text) == SelectSeq(text, LAMBDA s : s # "")

splitPath(text) == NonEmpty(stripHiveRootPrefix(text))

\* api.go strips one root only, and does not know HKCC.
stripHiveRootAndSplit(text) ==
  LET known == {r \in Range(RootNames) : r \notin {"HKEY_CURRENT_CONFIG", "HKCC"}}
  IN NonEmpty(IF Len(text) > 1 /\ text[1] \in known THEN Tail(text) ELSE text)

\* The joined path is cut again, and a root at its front is stripped again.
transformOp(o, parts) == [o EXCEPT !.path = parts \o splitPath(@)]
convertEditOpToMergeOp(o) == [o EXCEPT !.path = splitPath(@)]
WithPrefix(o, p) == convertEditOpToMergeOp(transformOp(o, splitPath(stripHiveRootPrefix(p))))

-----------------------------------------------------------------------------
(* JSON.  Empty data are left out, and come back as none.                  *)
TypeNames == <<"REG_NONE", "REG_SZ", "REG_EXPAND_SZ", "REG_BINARY", "REG_DWORD",
               "REG_DWORD_BIG_ENDIAN", "REG_LINK", "REG_MULTI_SZ", "REG_RESOURCE_LIST",
               "REG_FULL_RESOURCE_DESCRIPTOR", "REG_RESOURCE_REQUIREMENTS_LIST", "REG_QWORD">>
Unknown == "UNKNOWN"

formatValueType(code) == IF code + 1 \in DOMAIN TypeNames THEN TypeNames[code + 1] ELSE Unknown
Aliases == ("REG_DWORD_LITTLE_ENDIAN" :> 4) @@ ("REG_QWORD_LITTLE_ENDIAN" :> 11)
parseValueType(name) ==
  LET at == {i \in DOMAIN TypeNames : TypeNames[i] = name}
  IN IF name \in DOMAIN Aliases THEN {Aliases[name]} ELSE {i - 1 : i \in at}

convertOpToPatch(o) ==
  [op |-> o.kind, key_path |-> o.path, data |-> o.data,
   value_type |-> IF o.kind = "set_value" THEN formatValueType(o.type) ELSE ""]

\* The operations a patch operation stands for: one, or none if it is refused.
convertPatchOp(q) ==
  LET types == IF q.op = "set_value" THEN parseValueType(q.value_type) ELSE {0}
  IN IF q.op = "delete_key" /\ q.key_path = <<>> THEN {}
     ELSE {Op(q.op, q.key_path, type, q.data) : type \in types}

-----------------------------------------------------------------------------
(* Without a prefix. *)
PlanFromRegTextOpts(o) == [o EXCEPT !.path = stripHiveRootAndSplit(@)]

ToUpper(name) == IF name \in DOMAIN Capitals THEN Capitals[name] ELSE name
IsRoot(name) == ToUpper(name) \in Range(RootNames)

\* merge/v2 takes one root, however it is written, also with nothing behind it.
v2stripHiveRootAndSplit(text) == NonEmpty(IF IsRoot(text[1]) THEN Tail(text) ELSE text)
convertEditOps(o) == [o EXCEPT !.path = v2stripHiveRootAndSplit(@)]

\* The builder strips twice: from the text, if it is told to, and from the path.
stripHiveRoot(text, strip) ==
  IF strip /\ Len(text) > 1 /\ text[1] \in Range(RootNames) THEN Tail(text) ELSE text
builderSplitPath(text, strip) == NonEmpty(stripHiveRoot(text, strip))
normalizePathArray(path) == IF path # <<>> /\ IsRoot(path[1]) THEN Tail(path) ELSE path
BuilderOps(o, strip) ==
  LET path == builderSplitPath(o.path, strip)
  IN IF o.kind = "ensure_key" /\ path = <<>> THEN <<>>
     ELSE <<[o EXCEPT !.path = normalizePathArray(path)]>>

JoinPath(parts) == IF NonEmpty(parts) = <<>> THEN <<"">> ELSE NonEmpty(parts)
SplitPath(text) == NonEmpty(stripHiveRoot(text, TRUE))
ShortNames == <<"NONE", "SZ", "EXPAND_SZ", "BINARY", "DWORD", "DWORD_BIG_ENDIAN", "LINK", "MULTI_SZ", "RESOURCE_LIST",
                "FULL_RESOURCE_DESCRIPTOR", "RESOURCE_REQUIREMENTS_LIST", "QWORD">>
ParseValueType(name) ==
  {i - 1 : i \in {j \in DOMAIN TypeNames : name \in {TypeNames[j], ShortNames[j]}}}
  \cup (IF name = "STRING" THEN {1} ELSE IF name = "DWORD_BE" THEN {5} ELSE {})
SetValueFromString(text, name, data) ==
  {Op("set_value", normalizePathArray(SplitPath(text)), type, data) : type \in ParseValueType(name)}

\* The facade: no root is stripped, and empty names stay, one in front aside.
facadeSplitPath(text) == IF text = <<"">> THEN <<>> ELSE text
FacadePath(text) == facadeSplitPath(IF Len(text) > 1 /\ text[1] = "" THEN Tail(text) ELSE text)
FacadeSet(o, create) ==
  LET set == [o EXCEPT !.path = FacadePath(@)]
  IN IF create THEN <<[set EXCEPT !.kind = "ensure_key", !.type = 0, !.data = "none"], set>> ELSE <<set>>
FacadeDelete(o) == <<[o EXCEPT !.path = FacadePath(@)]>>
FacadePlan(o, create) == IF o.kind = "set_value" THEN FacadeSet(o, create) ELSE FacadeDelete(o)

-----------------------------------------------------------------------------
(* A plan whose types have names comes back from its JSON form as it was,  *)
(* except that the deletion of the root is refused; a value of another     *)
(* type makes the whole patch unreadable.                                  *)
RoundTrip ==
  LET o == convertEditOpToMergeOp(op)
      back == convertPatchOp(convertOpToPatch(o))
  IN back = IF \/ o.kind = "set_value" /\ o.type >= Len(TypeNames)
               \/ o.kind = "delete_key" /\ o.path = <<>>
            THEN {} ELSE {o}

(* The ways differ in the root names they take off the front of a path:    *)
(* how many, in which case, and whether one with nothing behind it.  What  *)
(* a path may become, taking them off as anyone likes.                     *)
OffRoots(text) ==
  LET names == NonEmpty(text)
  IN {SubSeq(names, n + 1, Len(names)) :
        n \in {k \in 0..Len(names) : \A i \in 1..k : IsRoot(names[i])}}

(* A path in the form every way knows: no root, or one in capitals that is *)
(* not HKCC, and something behind it that does not begin with a root.      *)
Usual(text) ==
  LET names == NonEmpty(text)
      root == names # <<>> /\ names[1] \in Range(RootNames) \ {"HKEY_CURRENT_CONFIG", "HKCC"}
      rest == IF root THEN Tail(names) ELSE names
  IN (root => text[1] # "" /\ rest # <<>>) /\ (rest # <<>> => ~IsRoot(rest[1]))
Named(text) == CHOOSE rest \in OffRoots(text) : \A other \in OffRoots(text) : Len(rest) <= Len(other)

(* An operation of a .reg file goes below the prefix: whatever roots path  *)
(* and prefix are written with, no name other than a root's is lost, added *)
(* or moved, and in the usual form the roots are taken off and all else    *)
(* stays (transformOp, convertEditOpToMergeOp).                            *)
PrefixRight ==
  LET path == WithPrefix(op, prefix).path
  IN /\ \E a \in OffRoots(prefix), b \in OffRoots(op.path) : path \in OffRoots(a \o b)
     /\ Usual(op.path) /\ Usual(prefix) => path = Named(prefix) \o Named(op.path)

(* Without a prefix: whatever the path, two ways send an operation to two  *)
(* keys only by the root names in front of one of them, and give a value   *)
(* one type; in the usual form all send it to the same key.  The facade    *)
(* takes no root off, and keeps empty names.                               *)
RoadsAgree ==
  LET ways == {convertEditOpToMergeOp(op), convertEditOps(op), PlanFromRegTextOpts(op)}
              \cup UNION {Range(BuilderOps(op, strip)) : strip \in BOOLEAN}
      facade == IF op.kind = "ensure_key" THEN {}
                ELSE UNION {Range(FacadePlan(op, create)) : create \in BOOLEAN}
      typed == {name \in Range(TypeNames) \cup Range(ShortNames) : op.type + 1 \in DOMAIN TypeNames
                  /\ name \in {TypeNames[op.type + 1], ShortNames[op.type + 1]}}
  IN /\ \A o \in ways : o.path \in OffRoots(op.path) /\ o = [op EXCEPT !.path = o.path]
     /\ \A o \in facade : NonEmpty(o.path) = NonEmpty(op.path)
     /\ \A strip \in BOOLEAN :
          BuilderOps(op, strip) = <<>> => op.kind = "ensure_key" /\ <<>> \in OffRoots(op.path)
     /\ op.kind = "set_value" => \A name \in typed :
          \E path \in OffRoots(op.path) :
            SetValueFromString(JoinPath(op.path), name, op.data) = {[op EXCEPT !.path = path]}
     /\ Usual(op.path) => \A o \in ways : o.path = Named(op.path)
PlanKept == RoundTrip /\ PrefixRight /\ RoadsAgree
=============================================================================
