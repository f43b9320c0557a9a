---------------------------- MODULE NumericIndex ----------------------------
(***************************************************************************)
(* hive/index/numeric_index.go, the index sessions use by default: maps    *)
(* from (parent, 32-bit hash of the name) to a cell offset.  "Hash         *)
(* collisions are handled via a separate collision map", its comment says; *)
(* the collision maps are allocated nowhere but in a test, so every branch *)
(* that asks for them finds nil and a second name with a hash takes over   *)
(* the entry of the first.                                                 *)
(*                                                                         *)
(* Texts are byte strings.  AddNK and AddVK lower a name with              *)
(* strings.ToLower; lookups, removals and the index builder, which hashes  *)
(* the bytes as they are in the file, lower A..Z only.                     *)
(***************************************************************************)
EXTENDS Naturals, FiniteSets

CONSTANTS
  Kind, Parent, Name, Offset, None,
  Text,        \* names, lowered names, and names as the file has them
  ToLower,     \* strings.ToLower
  LowerASCII,  \* fnv32Lower's lower case
  FileBytes,   \* the bytes a compressed name has in the file
  Hash,        \* fnv32
  MaxTouched   \* bound: names added or removed between two resets

\* What the proofs assume of the constants.
ASSUME NameAssumption ==
  /\ Name \subseteq Text
  /\ ToLower \in [Text -> Text] /\ LowerASCII \in [Text -> Text]
  /\ FileBytes \in [Text -> Text] /\ Hash \in [Text -> Nat]
  /\ None \notin Offset

VARIABLES
  entries,     \* NumericIndex.nodes and .values
  bound,       \* history: the map the calls ask for
  touched      \* history: the names added or removed since the index was empty

indexVars == <<entries, bound, touched>>

Abs == INSTANCE NameIndex

\* (mutant) the parent is left out of the key.
makeNumericKeyFlat(k, p, s) == <<k, CHOOSE q \in Parent : TRUE, Hash[s]>>
makeNumericKey(k, p, s) == <<k, p, Hash[s]>>
NumericKeys == {makeNumericKey(k, p, s) : k \in Kind, p \in Parent, s \in Text}

NumericInit ==
  /\ entries = [x \in NumericKeys |-> None]
  /\ Abs!IndexInit
  /\ touched = {}

Touch(k, p, n) == touched' = touched \cup {<<k, p, n>>} /\ Cardinality(touched') <= MaxTouched

\* AddNK, AddVK, AddNKLower, AddVKLower.
AddEntry(k, p, n, o) ==
  /\ entries' = [entries EXCEPT ![makeNumericKey(k, p, ToLower[n])] = o]
  /\ Abs!Add(k, p, n, o)
  /\ Touch(k, p, n)

\* AddNKHash, AddVKHash and their fast forms, as the index builder uses them.
AddHash(k, p, n, o) ==
  /\ entries' = [entries EXCEPT ![makeNumericKey(k, p, LowerASCII[FileBytes[n]])] = o]
  /\ Abs!Add(k, p, n, o)
  /\ Touch(k, p, n)

RemoveEntry(k, p, n) ==
  /\ entries' = [entries EXCEPT ![makeNumericKey(k, p, LowerASCII[n])] = None]
  /\ Abs!Remove(k, p, n)
  /\ Touch(k, p, n)

GetEntry(k, p, n) == entries[makeNumericKey(k, p, LowerASCII[n])]

ResetEntries ==
  /\ entries' = [x \in NumericKeys |-> None]
  /\ Abs!Reset
  /\ touched' = {}

NumericNext ==
  \/ \E k \in Kind, p \in Parent, n \in Name :
       (\E o \in Offset : AddEntry(k, p, n, o) \/ AddHash(k, p, n, o)) \/ RemoveEntry(k, p, n)
  \/ ResetEntries

NumericSpec == NumericInit /\ [][NumericNext]_indexVars
-----------------------------------------------------------------------------
TypeOK ==
  /\ entries \in [NumericKeys -> Offset \cup {None}]
  /\ bound \in [Abs!Keys -> Offset \cup {None}]
  /\ touched \subseteq Kind \X Parent \X Name

\* The hashes under which a name is added or removed, and the one it is looked up by.
StoredBy(n) == {Hash[ToLower[n]], Hash[LowerASCII[FileBytes[n]]], Hash[LowerASCII[n]]}
SoughtBy(n) == Hash[LowerASCII[n]]

\* An operation on m can be taken for one on n, another name with its hash; or
\* cannot be told to be one on n, the same name lowered or encoded differently.
Mistaken(m, n) == \E h \in StoredBy(m) : (h = SoughtBy(n)) # (ToLower[m] = ToLower[n])

\* A lookup returns the cell last added under that parent and name, in whatever
\* case, and nothing once the name is removed, unless a name that can be
\* mistaken for it, or it for another, was added or removed under that very
\* parent.  One such operation on another name is enough: it takes the entry
\* over, or removes it, and nothing tells.
LookupRight ==
  \A k \in Kind, p \in Parent, n \in Name :
    \/ GetEntry(k, p, n) = Abs!Get(k, p, n)
    \/ \E m \in Name : <<k, p, m>> \in touched /\ Mistaken(m, n)
=============================================================================
