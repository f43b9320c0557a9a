----------------------------- MODULE AllocLookup -----------------------------
(***************************************************************************)
(* hive/alloc/size_classes.go: newSizeClassTable builds the upper bounds   *)
(* of the size classes, getSizeClass searches them by bisection.  Sizes    *)
(* are bytes.  The growth factor is the fraction GrowthNum / GrowthDen.    *)
(***************************************************************************)
EXTENDS Integers, Sequences

CONSTANTS SmallMin, SmallMax, SmallIncrement, MediumMax, GrowthNum, GrowthDen,
          Sizes   \* the sizes looked up

\* math.Ceil(size * factor), and at least one more than size.
CeilTimes(size) == (size * GrowthNum + GrowthDen - 1) \div GrowthDen
NextSize(size) == IF CeilTimes(size) <= size THEN size + 1 ELSE CeilTimes(size)

\* True of the four predefined configurations.
ASSUME ConfigAssumption ==
  /\ SmallMin \in Nat \ {0} /\ SmallMax \in Nat /\ SmallIncrement \in Nat \ {0}
  /\ MediumMax \in Nat
  /\ GrowthNum \in Nat \ {0} /\ GrowthDen \in Nat \ {0}
  /\ NextSize(SmallMax) >= SmallMax + SmallIncrement
  /\ Sizes \subseteq Nat

VARIABLES
  boundaries,  \* sizeClassTable.boundaries
  size,        \* the loop variable of newSizeClassTable
  want,        \* the argument of getSizeClass
  lo, hi,      \* its search interval, 0-based as in the code
  found,       \* what it returned
  pc           \* "small", "medium", "ready", "search", "return"

vars == <<boundaries, size, want, lo, hi, found, pc>>

numClasses == Len(boundaries)
Bound(k) == boundaries[k + 1]

Init ==
  /\ boundaries = <<>> /\ size = SmallMin /\ pc = "small"
  /\ want = 0 /\ lo = 0 /\ hi = 0 /\ found = 0

SmallClass ==
  /\ pc = "small" /\ size < SmallMax
  /\ boundaries' = Append(boundaries, size + SmallIncrement - 1)
  /\ size' = size + SmallIncrement
  /\ UNCHANGED <<want, lo, hi, found, pc>>

SmallDone ==
  /\ pc = "small" /\ size >= SmallMax
  /\ size' = SmallMax
  /\ pc' = "medium"
  /\ UNCHANGED <<boundaries, want, lo, hi, found>>

MediumClass ==
  /\ pc = "medium" /\ size < MediumMax
  /\ boundaries' = Append(boundaries, NextSize(size) - 1)
  /\ size' = NextSize(size)
  /\ UNCHANGED <<want, lo, hi, found, pc>>

MediumDone ==
  /\ pc = "medium" /\ size >= MediumMax
  /\ pc' = "ready"
  /\ UNCHANGED <<boundaries, size, want, lo, hi, found>>

Call(s) ==
  /\ pc = "ready"
  /\ want' = s /\ lo' = 0 /\ hi' = numClasses - 1
  /\ pc' = "search"
  /\ UNCHANGED <<boundaries, size, found>>

Mid == (lo + hi) \div 2

\* The smallest boundary that holds the size is at Mid.
AtMid == want <= Bound(Mid) /\ (Mid # 0 => want > Bound(Mid - 1))

Probe ==
  /\ pc = "search" /\ lo <= hi
  /\ \/ /\ AtMid
        /\ found' = Mid /\ pc' = "return"
        /\ UNCHANGED <<lo, hi>>
     \/ /\ want <= Bound(Mid) /\ ~AtMid
        /\ hi' = Mid - 1
        /\ UNCHANGED <<lo, found, pc>>
     \/ /\ want > Bound(Mid)
        /\ lo' = Mid + 1
        /\ UNCHANGED <<hi, found, pc>>
  /\ UNCHANGED <<boundaries, size, want>>

\* (mutant) the last class is returned.
NotFoundLast ==
  /\ pc = "search" /\ lo > hi
  /\ found' = numClasses - 1 /\ pc' = "return"
  /\ UNCHANGED <<boundaries, size, want, lo, hi>>
\* Larger than all boundaries: the large list.
NotFound ==
  /\ pc = "search" /\ lo > hi
  /\ found' = numClasses /\ pc' = "return"
  /\ UNCHANGED <<boundaries, size, want, lo, hi>>

Return ==
  /\ pc = "return"
  /\ pc' = "ready" /\ want' = 0 /\ lo' = 0 /\ hi' = 0 /\ found' = 0
  /\ UNCHANGED <<boundaries, size>>

Step == SmallClass \/ SmallDone \/ MediumClass \/ MediumDone \/ Probe \/ NotFound
Next == Step \/ (\E s \in Sizes : Call(s)) \/ Return

Spec == Init /\ [][Next]_vars /\ WF_vars(Step)
-----------------------------------------------------------------------------
Classes == 0..(numClasses - 1)

\* The boundaries increase strictly, across the change from linear to
\* logarithmic steps too: bisection relies on it, and so does Alloc when it
\* tries the classes from the request's class upwards.
BoundariesIncrease == \A j, k \in Classes : j < k => Bound(j) < Bound(k)

\* getSizeClass returns the first class whose boundary holds the size, or
\* numClasses when there is none: the class that FastAlloc assumes.
SearchRight ==
  pc = "return" =>
    /\ found \in 0..numClasses
    /\ found < numClasses => want <= Bound(found)
    /\ \A k \in Classes : k < found => Bound(k) < want

\* Every lookup returns.
SearchEnds == pc = "search" ~> pc = "return"
=============================================================================
