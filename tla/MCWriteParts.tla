---------------------------- MODULE MCWriteParts ----------------------------
(* The parts that writing a hive is made of, each on its own, for TLC: the search for  *)
(* a size class, the coalescing of dirty ranges, the cache and the index of names, the *)
(* encoding of values, subkey lists, plans as text, and the values of one key.  A      *)
(* behaviour is one of the parts named in Parts.  Those that are extended have their   *)
(* own variables and stand still in the others, which share s1 to s6.                  *)
EXTENDS AllocLookup, DirtyRanges, NameCache, NumericIndex, ValueEdit

CONSTANTS Parts, g1, g2

VARIABLES part, s1, s2, s3, s4, s5, s6
slots == <<s1, s2, s3, s4, s5, s6>>

\* The Balanced configuration, which is the default one, and its sizes.
CellSizes == {8 * k : k \in 1..2600}

\* Two readers; three names share a shard of two entries, one is alone.
TwoReaders == {g1, g2}
FourNames == 1..4
TwoShards == [r \in FourNames |-> IF r < 4 THEN 0 ELSE 1]

\* The map of keys; the one of values is its like.  Texts are numbers: 1 is the lower case
\* of 11, 2 has the hash of 1, 14 is a capital that is not ASCII, 4 its lower case, and
\* 24 the bytes of 14 in the file.
IndexTexts == {1, 2, 4, 11, 14, 24}
IndexNames == {1, 2, 11, 14}
Lower == [n \in IndexTexts |-> CASE n = 11 -> 1 [] n = 14 -> 4 [] OTHER -> n]
LowerAZ == [n \in IndexTexts |-> IF n = 11 THEN 1 ELSE n]
InFile == [n \in IndexTexts |-> IF n = 14 THEN 24 ELSE n]
Hashes == [n \in IndexTexts |-> IF n = 2 THEN 101 ELSE 100 + n]

\* NUL, a letter, and half a surrogate.
Build == INSTANCE BuildValues WITH Bytes <- {0, 65, 216}, MaxBytes <- 8, typ <- s1, data <- s2

\* Five children; the first and the last have the same hash.
H(k) == 1 + (k % 4)
List == INSTANCE ListWriter WITH
  Keys <- 1..5, Hash <- H, LFThreshold <- 1, RIThreshold <- 2, ChunkSize <- 2,
  list <- s1, held <- s2, broken <- s3, foreign <- s4, cut <- s5, err <- s6

Plan == INSTANCE PlanText WITH
  Texts <- {<<"">>, <<"a">>, <<"HKLM">>, <<"HKLM", "">>, <<"HKLM", "a", "", "b">>, <<"HKCC", "a">>,
            <<"HKU", "HKLM", "a">>, <<"HKEY_USERS", "HKU", "a">>, <<"a", "HKLM", "b">>,
            <<"hklm", "a">>, <<"", "a">>, <<"a", "b">>},
  PrefixTexts <- {<<"">>, <<"p">>, <<"HKLM">>, <<"HKLM", "p", "q">>, <<"p", "">>},
  Types <- {0, 4, 5, 11, 12}, Capitals <- [n \in {"hklm"} |-> "HKLM"], op <- s1, prefix <- s2

\* Values: two names, one of them in two cases; data inline, at the limit of a cell, and big with
\* enough and with too few spare bytes in the last block.
Datum(typ, len, tag) == [typ |-> typ, len |-> len, tag |-> tag, db |-> 0]
FiveData == {Datum(1, 4, 1), Datum(1, 16344, 1), Datum(1, 16344, 2), Datum(2, 16352, 1), Datum(2, 16356, 1)}
\* What the theorem about values assumes.
ASSUME DataAssumption == PlainData

MCInit ==
  /\ part \in Parts /\ Init /\ RangesInit /\ CacheInit /\ NumericInit /\ ValueInit
  /\ \/ part \in {"search", "ranges", "cache", "index", "value"} /\ s1 = 0 /\ s2 = 0 /\ s3 = 0 /\ s4 = 0 /\ s5 = 0 /\ s6 = 0
     \/ part = "build" /\ Build!Init /\ s3 = 0 /\ s4 = 0 /\ s5 = 0 /\ s6 = 0
     \/ part = "list" /\ List!ListInit
     \/ part = "plan" /\ Plan!PlanInit /\ s3 = 0 /\ s4 = 0 /\ s5 = 0 /\ s6 = 0

\* Encoding a value and reading a plan take no steps: their states are their inputs.
own == <<vars, rangeVars, cvars, indexVars, valueVars>>
MCNext ==
  \/ part = "search" /\ Next /\ UNCHANGED <<part, slots, rangeVars, cvars, indexVars, valueVars>>
  \/ part = "ranges" /\ RangesNext /\ UNCHANGED <<part, slots, vars, cvars, indexVars, valueVars>>
  \/ part = "cache" /\ CacheNext /\ UNCHANGED <<part, slots, vars, rangeVars, indexVars, valueVars>>
  \/ part = "index" /\ NumericNext /\ UNCHANGED <<part, slots, vars, rangeVars, cvars, valueVars>>
  \/ part = "value" /\ ValueNext /\ UNCHANGED <<part, slots, vars, rangeVars, cvars, indexVars>>
  \/ part = "list" /\ List!ListNext /\ UNCHANGED <<part, own>>

\* The loops of the search and of coalesce run on, without waiting for anything.
Loops ==
  \/ part = "search" /\ Step /\ UNCHANGED <<part, slots, rangeVars, cvars, indexVars, valueVars>>
  \/ part = "ranges" /\ (Merge \/ Finish) /\ UNCHANGED <<part, slots, vars, cvars, indexVars, valueVars>>

mcVars == <<part, slots, own>>
MCSpec == MCInit /\ [][MCNext]_mcVars /\ WF_mcVars(Loops)
-----------------------------------------------------------------------------
\* Every lookup of a size class returns, and a flush that has ranges to coalesce gets them.
LoopsEnd == SearchEnds /\ (stage = "merge" ~> stage = "done")

\* Text that the builder is given with or without its terminator, or with a broken character,
\* is stored with one terminator, and storing what was read back changes nothing; a plan
\* survives JSON; the ways into a plan, with a prefix or without, keep every name of a path
\* but the roots in front of it; big data is never read in part.
ConversionsRight ==
  /\ part = "build" => Build!StoredOnce
  /\ part = "plan" => Plan!PlanKept
  /\ BigWhole

\* Whatever the edits and the shape of a subkey list, also at its limits, no child that has a
\* name is lost or doubled, every reader gives them in order, and a search by hash finds them,
\* unless an insertion or a flush returned an error, which has freed the list.
SubkeysRight == part = "list" => List!ListRight /\ List!MatchRight

\* "This hash is used in LH (Leaf-Hash) subkey list entries": the hash stored with a child in
\* an lh list is the hash of its name.
HashesRight == part = "list" => List!HashesRight
=============================================================================
