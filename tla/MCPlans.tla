------------------------------- MODULE MCPlans -------------------------------
(* The ways a plan of changes gets into a hive, for TLC: merge sessions by themselves  *)
(* and under a builder, and the optimizer of .reg files.  A behaviour is one of those  *)
(* named in Parts; the optimizer's variables are p1 to p10.                            *)
EXTENDS HiveBuilder

CONSTANTS Parts,
          RegPaths, RegSpelled, RegNames, MaxRegOps   \* what .reg files name; their operations

VARIABLES part, p1, p2, p3, p4, p5, p6, p7, p8, p9, p10
slots == <<p1, p2, p3, p4, p5, p6, p7, p8, p9, p10>>

-----------------------------------------------------------------------------
(* Sessions and builders. *)
x == 1
y == 2
HKLM == 3
MCPathOrder == <<<<>>, <<x>>, <<x, y>>, <<x, y, x>>, <<y>>>>
MCGiven == {<<>>, <<x>>, <<x, y, x>>, <<HKLM>>, <<HKLM, x>>}

\* A new hive; a chain of keys with values; two keys, and a value at the root.
MCHives ==
  {[p \in {<<>>} |-> FALSE],
   [p \in {<<>>, <<x>>, <<x, y>>, <<x, y, x>>} |-> p # <<>>],
   [p \in {<<>>, <<x>>, <<y>>} |-> p = <<>>]}

-----------------------------------------------------------------------------
(* .reg files: a key, and a key below it. *)
OnePath == {<<"a">>}
Chain == {<<"a">>, <<"a", "b">>}

InCapitals(ps) == [root: {"HKLM"}, segs: ps]
OneInCapitals == InCapitals(OnePath)
AndInLowerCase == InCapitals(Chain) \cup [root: {"hklm"}, segs: OnePath]

Reg == INSTANCE RegMerge WITH
  Paths <- RegPaths, Spelled <- RegSpelled, Names <- RegNames, Data <- {"1", "2"},
  MaxOps <- MaxRegOps, MaxFiles <- 2,
  hive <- p1, files <- p2, seenKeys <- p3, current <- p4, ops <- p5, pc <- p6, i <- p7,
  kept <- p8, deletedPaths <- p9, result <- p10

-----------------------------------------------------------------------------
NoSlots == /\ p1 = 0 /\ p2 = 0 /\ p3 = 0 /\ p4 = 0 /\ p5 = 0
           /\ p6 = 0 /\ p7 = 0 /\ p8 = 0 /\ p9 = 0 /\ p10 = 0
NoBuilder == b = NewBuilder("unused") /\ want = base /\ kept = base

MCInit ==
  /\ part \in Parts
  /\ \/ part = "builder" /\ BuilderInit /\ NoSlots
     \/ part = "session" /\ Init /\ NoBuilder /\ NoSlots
     \/ part = "reg" /\ Init /\ h = MinimalHive /\ NoBuilder /\ Reg!Init

MCNext ==
  \/ part = "builder" /\ BuilderNext /\ UNCHANGED <<part, slots>>
  \/ part = "session" /\ Next /\ UNCHANGED <<part, bvars, slots>>
  \/ part = "reg" /\ Reg!Next /\ UNCHANGED <<part, vars, bvars>>

MCSpec == MCInit /\ [][MCNext]_<<part, vars, bvars, slots>>
-----------------------------------------------------------------------------
\* After Commit a built hive is what all operations asked for add up to, after Close what those
\* add up to that were flushed, however they fell into plans and whichever commits failed.
BuilderRight == part = "builder" => BuiltRight

\* The optimized operations of .reg files leave the values that the files as written leave, and
\* no key that the files as written would not leave: nothing deleted survives.  About a value the
\* claim is not made where the optimizer mistakes one thing for another (RegMerge!Told): a root
\* in small letters beside one in capitals (api.go:279), a value name in two spellings
\* (optimizer.go:111), and a default value before a section of the same key (optimizer.go:160).
RegSame == part = "reg" => Reg!ValuesSame /\ Reg!NoExtraKeys

\* ... and every key that they leave (internal/regmerge/correctness_test.go: "Final states should
\* be identical").
RegKeysSame == part = "reg" => Reg!KeysSame
=============================================================================
