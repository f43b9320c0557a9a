----------------------------- MODULE SubkeyLists -----------------------------
(***************************************************************************)
(* The subkey lists of a hive and the ways the code reads them.  A hive h  *)
(* maps refs to cells; a ref outside its domain, or to a cell that is      *)
(* gone, leads to no cell at all: beyond the data, or to a size that does  *)
(* not fit.  No ref leads to a cell that was freed: it keeps its bytes,    *)
(* hive.ResolveCellPayload takes it for a cell still, and the readers with *)
(* a resolver of their own do not.  lf, lh and li lists hold refs of keys; *)
(* an ri list holds refs of lists.  Each reader has its own idea of a list *)
(* that cannot be read: skip it, or fail.                                  *)
(*                                                                         *)
(*   nk      name, list, count (of subkeys), vals, nvals, sk, class        *)
(*   values  refs     vk  name, data     db  blocks     blocks  refs       *)
(***************************************************************************)
EXTENDS Integers, Sequences, SequencesExt, FiniteSets

Invalid == 0
Unresolved == [kind |-> "gone"]
Cell(h, r) == IF r \in DOMAIN h THEN h[r] ELSE Unresolved
Direct(c) == c.kind \in {"lf", "lh", "li"}

Refs(refs) == [ok |-> TRUE, refs |-> refs]
Fails == [ok |-> FALSE, refs |-> <<>>]

\* One after the other; skip: a list that fails is left out.
Joined(results, skip) ==
  IF ~skip /\ \E i \in DOMAIN results : ~results[i].ok THEN Fails
  ELSE Refs(FoldLeft(LAMBDA acc, x : acc \o x.refs, <<>>, results))

\* subkeys.ReadOffsets, for the editor and the index builder.
RECURSIVE ReadOffsets(_, _)
ReadOffsets(h, r) ==
  LET c == Cell(h, r)
  IN IF r = Invalid THEN Refs(<<>>)
     ELSE IF c.kind = "ri" THEN Joined([i \in DOMAIN c.refs |-> ReadOffsets(h, c.refs[i])], TRUE)
     ELSE IF Direct(c) THEN Refs(c.refs) ELSE Fails

\* walkSubkeysFast reads every list in steps of eight bytes; an li entry has four.
Entries(c) == IF c.kind = "li" THEN [i \in 1..((Len(c.refs) + 1) \div 2) |-> c.refs[2 * i - 1]]
              ELSE c.refs

RECURSIVE WalkSubkeysFast(_, _)
WalkSubkeysFast(h, r) ==
  LET c == Cell(h, r)
      subs == SelectSeq(c.refs, LAMBDA s : s # Invalid)
  IN IF r = Invalid THEN Refs(<<>>)
     ELSE IF c.kind = "ri" THEN Joined([i \in DOMAIN subs |-> WalkSubkeysFast(h, subs[i])], FALSE)
     ELSE IF Direct(c) THEN Refs(Entries(c)) ELSE Fails

\* The reader's list: expected, when not zero, cuts a direct list short.
DecodeSubkeyList(c, expected) ==
  IF ~Direct(c) THEN Fails
  ELSE Refs(IF expected # 0 /\ expected < Len(c.refs) THEN SubSeq(c.refs, 1, expected) ELSE c.refs)

RECURSIVE SubkeyList(_, _, _)
SubkeyList(h, r, expected) ==
  LET c == Cell(h, r)
  IN IF c.kind = "ri"
     THEN Joined([i \in DOMAIN c.refs |-> SubkeyList(h, c.refs[i], 0)], FALSE)
     ELSE DecodeSubkeyList(c, expected)

Subkeys(h, r) ==
  LET nk == Cell(h, r)
  IN IF nk.kind # "nk" THEN Fails
     ELSE IF nk.count = 0 \/ nk.list = Invalid THEN Refs(<<>>)
     ELSE SubkeyList(h, nk.list, nk.count)

\* A value list is cut to the key's count; entries are not looked at.
ValueList(h, r, count) ==
  LET c == Cell(h, r)
  IN IF c.kind # "values" \/ count > Len(c.refs) THEN Fails ELSE Refs(SubSeq(c.refs, 1, count))
Values(h, r) ==
  LET nk == Cell(h, r)
  IN IF nk.kind # "nk" THEN Fails
     ELSE IF nk.nvals = 0 \/ nk.vals = Invalid THEN Refs(<<>>)
     ELSE ValueList(h, nk.vals, nk.nvals)

\* WalkSubkeys: a key without subkeys is an error, an ri list below an ri list empty.
ExtractSublistRefs(c) == IF Direct(c) THEN c.refs ELSE <<>>
ExtractRIRefs(h, c) ==
  Joined([i \in DOMAIN c.refs |-> IF Cell(h, c.refs[i]).kind = "gone" THEN Fails
                                  ELSE Refs(ExtractSublistRefs(Cell(h, c.refs[i])))], FALSE)
ResolveSubkeyList(h, nk) ==
  IF nk.count = 0 \/ nk.list = Invalid THEN Unresolved ELSE Cell(h, nk.list)
WalkSubkeys(h, r) ==
  LET nk == Cell(h, r)
      c == ResolveSubkeyList(h, nk)
  IN IF nk.kind # "nk" THEN Fails
     ELSE LET refs == IF c.kind = "ri" THEN ExtractRIRefs(h, c)
                      ELSE IF Direct(c) THEN Refs(c.refs) ELSE Fails
          IN IF \E i \in DOMAIN refs.refs : Cell(h, refs.refs[i]).kind # "nk" THEN Fails ELSE refs
\* The same under a context that is not cancelled.
WalkSubkeysCtx(h, r) == WalkSubkeys(h, r)

\* MatchByHash: the children with one of the names.  A sublist that cannot be resolved
\* is skipped, one that is no list makes the whole fail.
Named(h, refs, names) ==
  SelectSeq(refs, LAMBDA r : Cell(h, r).kind = "nk" /\ Cell(h, r).name \in names)
MatchDirect(h, c, names) == IF Direct(c) THEN Refs(Named(h, c.refs, names)) ELSE Fails
MatchRIList(h, c, names) ==
  LET subs == SelectSeq(c.refs, LAMBDA s : Cell(h, s).kind # "gone")
  IN Joined([i \in DOMAIN subs |-> MatchDirect(h, Cell(h, subs[i]), names)], FALSE)
MatchByHash(h, r, names) ==
  LET c == Cell(h, r)
  IN IF names = {} \/ r = Invalid THEN Refs(<<>>)
     ELSE IF c.kind = "gone" THEN Fails
     ELSE IF c.kind = "ri" THEN MatchRIList(h, c, names) ELSE MatchDirect(h, c, names)

\* The values of a key, as the builder and the validator read them.
ValueRefs(h, nk) ==
  LET c == Cell(h, nk.vals)
  IN IF nk.nvals = 0 \/ nk.vals = Invalid THEN Refs(<<>>)
     ELSE IF c.kind # "values" \/ nk.nvals > Len(c.refs) THEN Fails
     ELSE Refs(SelectSeq(SubSeq(c.refs, 1, nk.nvals), LAMBDA v : v # Invalid))

\* The children that a list holds, by definition.
RECURSIVE Held(_, _)
Held(h, r) ==
  LET c == Cell(h, r)
  IN IF r = Invalid THEN {}
     ELSE IF c.kind = "ri" THEN UNION {Held(h, s) : s \in Range(c.refs)}
     ELSE IF Direct(c) THEN Range(c.refs) ELSE {}
Children(h, r) == {c \in Held(h, Cell(h, r).list) : Cell(h, c).kind = "nk"}

\* The keys below and in a set of keys.
RECURSIVE Closure(_, _)
Closure(h, keys) ==
  LET more == keys \cup UNION {Children(h, k) : k \in keys}
  IN IF more = keys THEN keys ELSE Closure(h, more)
=============================================================================
