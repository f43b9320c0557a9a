----------------------------- MODULE DirtyRanges -----------------------------
(***************************************************************************)
(* Tracker of hive/dirty/dirty.go at the level of byte ranges: Add, and    *)
(* the loop of coalesce that page-aligns, sorts and merges.  Module HiveTx *)
(* uses the result as a set of page runs; this module shows that the loop  *)
(* computes it.                                                            *)
(***************************************************************************)
EXTENDS Integers, Sequences, FiniteSets

CONSTANTS
  pageSize,    \* Tracker.pageSize
  Offs, Lens,  \* arguments of Add
  MaxRanges    \* bound on the number of ranges recorded between two flushes

VARIABLES
  ranges,   \* Tracker.ranges, in the order they were added
  aligned,  \* the sorted, page-aligned copy
  i,        \* index of the next range to merge (1-based)
  current,  \* the range being extended
  merged,   \* the result so far
  stage        \* "idle", "merge", or "done": merged is what coalesce returned

rangeVars == <<ranges, aligned, i, current, merged, stage>>

\* Every structure that an editor reports has at least a byte.
ASSUME RangesAssumption ==
  pageSize \in Nat \ {0} /\ Offs \subseteq Nat /\ Lens \subseteq Nat \ {0} /\ MaxRanges \in Nat

NewRange(o, l) == [Off |-> o, Len |-> l]
EndOf(r) == r.Off + r.Len

\* (mutant) an end inside a page is rounded down.
AlignShort(r) ==
  LET start == (r.Off \div pageSize) * pageSize
  IN NewRange(start, ((EndOf(r) + pageSize - 2) \div pageSize) * pageSize - start)
Align(r) ==
  LET start == (r.Off \div pageSize) * pageSize
      end == IF EndOf(r) % pageSize # 0 THEN (EndOf(r) \div pageSize + 1) * pageSize ELSE EndOf(r)
  IN NewRange(start, end - start)

\* sort.Slice by offset; it is not stable.
Sorted(s) == \A k \in 1..(Len(s) - 1) : s[k].Off <= s[k + 1].Off
Orders(n) == {p \in [1..n -> 1..n] : \A k \in 1..n : \E j \in 1..n : p[j] = k}
Arrangements(s) == {[k \in 1..Len(s) |-> s[p[k]]] : p \in Orders(Len(s))}

RangesInit ==
  /\ ranges = <<>> /\ aligned = <<>> /\ merged = <<>>
  /\ i = 0 /\ current = NewRange(0, 0) /\ stage = "idle"

Add(o, l) ==
  /\ stage = "idle" /\ Len(ranges) < MaxRanges
  /\ ranges' = Append(ranges, NewRange(o, l))
  /\ UNCHANGED <<aligned, i, current, merged, stage>>

Start ==
  /\ stage = "idle" /\ ranges # <<>>
  /\ \E s \in Arrangements([k \in 1..Len(ranges) |-> Align(ranges[k])]) :
       Sorted(s) /\ aligned' = s /\ current' = s[1]
  /\ i' = 2 /\ merged' = <<>> /\ stage' = "merge"
  /\ UNCHANGED ranges

Touches(next) == next.Off <= EndOf(current)

Later(a, b) == IF a > b THEN a ELSE b
Extend(next) == NewRange(current.Off, Later(EndOf(current), EndOf(next)) - current.Off)

\* (mutant) the index moves on only when a range is put out.
MergeStays ==
  /\ stage = "merge" /\ i <= Len(aligned)
  /\ IF Touches(aligned[i])
       THEN current' = Extend(aligned[i]) /\ merged' = merged /\ i' = i
       ELSE current' = aligned[i] /\ merged' = Append(merged, current) /\ i' = i + 1
  /\ UNCHANGED <<ranges, aligned, stage>>

Merge ==
  /\ stage = "merge" /\ i <= Len(aligned)
  /\ IF Touches(aligned[i])
       THEN current' = Extend(aligned[i]) /\ merged' = merged
       ELSE current' = aligned[i] /\ merged' = Append(merged, current)
  /\ i' = i + 1
  /\ UNCHANGED <<ranges, aligned, stage>>

Finish ==
  /\ stage = "merge" /\ i > Len(aligned)
  /\ merged' = Append(merged, current)
  /\ stage' = "done"
  /\ UNCHANGED <<ranges, aligned, i, current>>

\* The flush that asked for the ranges is over, or Reset: the slice is
\* emptied and its array reused.
Clear ==
  /\ stage = "done"
  /\ ranges' = <<>> /\ aligned' = <<>> /\ merged' = <<>>
  /\ i' = 0 /\ current' = NewRange(0, 0) /\ stage' = "idle"

RangesNext == (\E o \in Offs, l \in Lens : Add(o, l)) \/ Start \/ Merge \/ Finish \/ Clear

RangesSpec == RangesInit /\ [][RangesNext]_rangeVars /\ WF_rangeVars(Merge \/ Finish)
-----------------------------------------------------------------------------
SeqRange(s) == {s[k] : k \in 1..Len(s)}
BytesOf(r) == r.Off..(EndOf(r) - 1)
Pages(S) == {b \div pageSize : b \in UNION {BytesOf(r) : r \in S}}

\* No dirty byte is lost: what coalesce returns covers every range that was
\* added, in whole pages, and no page that none of them touches.
CoversExactly ==
  stage = "done" =>
    /\ Pages(SeqRange(merged)) = Pages(SeqRange(ranges))
    /\ \A r \in SeqRange(merged) : r.Off % pageSize = 0 /\ r.Len % pageSize = 0

\* The result is sorted and has a gap of a page between any two ranges:
\* no page is handed to msync twice, and each range is a maximal run, which
\* is what HiveTx!Coalesce assumes.
MaximalRuns ==
  stage = "done" => \A k \in 1..(Len(merged) - 1) : EndOf(merged[k]) < merged[k + 1].Off

\* What coalesce returns is the dirty pages, each once.
RangesRight == CoversExactly /\ MaximalRuns
=============================================================================
