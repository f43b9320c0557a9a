-------------------------- MODULE AlgorithmProofs --------------------------
(***************************************************************************)
(* Proofs about the algorithms and tables of the write and read paths.     *)
(*                                                                         *)
(* AllocLookup, for every size class configuration that satisfies          *)
(* ConfigAssumption and every size: the table that newSizeClassTable       *)
(* builds is strictly increasing and the bisection of getSizeClass finds   *)
(* the right class.                                                        *)
(*                                                                         *)
(* DirtyRanges, for every page size and any number of ranges: coalesce     *)
(* loses no dirty byte and returns maximal runs of pages.                  *)
(*                                                                         *)
(* NameCache, for any number of readers, names and shards and whatever     *)
(* capacities are set: readers get their names, and the shards keep to     *)
(* their rules.                                                            *)
(*                                                                         *)
(* NumericIndex, for every hash function, set of names and way of lowering *)
(* them: a lookup can only go wrong under a parent where a name was met    *)
(* that shares a hash with another, or that is not lowered alike by all.   *)
(***************************************************************************)
EXTENDS AllocLookup, DirtyRanges, NameCache, NumericIndex, TLAPS

(* The lookup. *)

LookupType ==
  /\ boundaries \in Seq(Int)
  /\ size \in Nat /\ want \in Nat
  /\ lo \in Int /\ hi \in Int /\ found \in Int
  /\ pc \in {"small", "medium", "ready", "search", "return"}

\* What is appended next is larger than everything in the table.  The linear
\* steps overshoot SmallMax by less than an increment, which the first
\* logarithmic step makes up for.
Top ==
  /\ pc = "small" => /\ \A k \in Classes : Bound(k) < size
                     /\ size < SmallMax + SmallIncrement \/ boundaries = <<>>
  /\ pc = "medium" => \A k \in Classes : Bound(k) < NextSize(size) - 1

\* The class sought is at lo or above; and unless nothing was cut off above
\* hi, some class at hi or below holds the size.
Bracket ==
  pc = "search" =>
    /\ 0 <= lo /\ lo <= numClasses /\ -1 <= hi /\ hi < numClasses
    /\ \A k \in Classes : k < lo => Bound(k) < want
    /\ hi < numClasses - 1 => \E j \in Classes : j <= hi /\ want <= Bound(j)

LookupInv == LookupType /\ BoundariesIncrease /\ Top /\ Bracket /\ SearchRight
-----------------------------------------------------------------------------
\* A logarithmic step always makes progress.
LEMMA NextGrows ==
  ASSUME NEW s \in Nat
  PROVE  NextSize(s) \in Nat /\ NextSize(s) > s
<1>1. CeilTimes(s) \in Int
  BY ConfigAssumption DEF CeilTimes
<1>. QED
  BY <1>1 DEF NextSize

\* Appending a boundary larger than all others keeps the table increasing.
LEMMA AppendKeeps ==
  ASSUME LookupType, BoundariesIncrease, NEW b \in Int,
         \A k \in Classes : Bound(k) < b, boundaries' = Append(boundaries, b)
  PROVE  /\ boundaries' \in Seq(Int) /\ BoundariesIncrease'
         /\ \A k \in Classes' : Bound(k)' <= b
         /\ boundaries' # <<>>
<1>1. /\ boundaries' \in Seq(Int) /\ Len(boundaries') = Len(boundaries) + 1
      /\ Len(boundaries) \in Nat
      /\ \A k \in 1..Len(boundaries) : boundaries'[k] = boundaries[k]
      /\ boundaries'[Len(boundaries) + 1] = b
  BY DEF LookupType
<1>2. \A k \in 1..Len(boundaries) : boundaries[k] \in Int /\ boundaries[k] < b
  <2>1. \A k \in 1..Len(boundaries) : boundaries[k] \in Int
    BY DEF LookupType
  <2>2. ASSUME NEW k \in 1..Len(boundaries) PROVE boundaries[k] < b
    <3>1. k - 1 \in Classes /\ (k - 1) + 1 = k
      BY <1>1 DEF Classes, numClasses
    <3>. QED
      BY <3>1 DEF Bound
  <2>. QED
    BY <2>1, <2>2
<1>3. \A j, k \in 1..Len(boundaries) : j < k => boundaries[j] < boundaries[k]
  <2>1. ASSUME NEW j \in 1..Len(boundaries), NEW k \in 1..Len(boundaries), j < k
        PROVE  boundaries[j] < boundaries[k]
    <3>1. /\ j - 1 \in Classes /\ (j - 1) + 1 = j
          /\ k - 1 \in Classes /\ (k - 1) + 1 = k /\ j - 1 < k - 1
      BY <1>1, <2>1 DEF Classes, numClasses
    <3>. QED
      BY <3>1 DEF BoundariesIncrease, Bound
  <2>. QED
    BY <2>1
<1>4. BoundariesIncrease'
  <2>1. ASSUME NEW j \in Classes', NEW k \in Classes', j < k PROVE Bound(j)' < Bound(k)'
    <3>1. j + 1 \in 1..Len(boundaries) /\ k + 1 \in 1..(Len(boundaries) + 1) /\ j + 1 < k + 1
      BY <1>1, <2>1 DEF Classes, numClasses
    <3>2. boundaries'[j + 1] < boundaries'[k + 1]
      BY <1>1, <1>2, <1>3, <3>1
    <3>. QED
      BY <3>2 DEF Bound
  <2>. QED
    BY <2>1 DEF BoundariesIncrease
<1>5. ASSUME NEW k \in Classes' PROVE Bound(k)' <= b
  <2>1. k + 1 \in 1..(Len(boundaries) + 1)
    BY <1>1 DEF Classes, numClasses
  <2>2. boundaries'[k + 1] <= b
    BY <1>1, <1>2, <2>1
  <2>. QED
    BY <2>2 DEF Bound
<1>6. boundaries' # <<>>
  BY <1>1
<1>. QED
  BY <1>1, <1>4, <1>5, <1>6

\* The probe lies in the interval, and its boundaries are numbers.
LEMMA MidInside ==
  ASSUME LookupType, pc = "search", Bracket, lo <= hi
  PROVE  /\ Mid \in Classes /\ lo <= Mid /\ Mid <= hi /\ Mid \in Int
         /\ \A k \in Classes : k \in Int /\ Bound(k) \in Int
<1>1. Len(boundaries) \in Nat /\ lo \in Int /\ hi \in Int
  BY DEF LookupType
<1>2. Mid \in Int /\ lo <= Mid /\ Mid <= hi
  BY <1>1 DEF Mid
<1>3. Mid \in Classes
  BY <1>1, <1>2 DEF Bracket, Classes, numClasses
<1>4. ASSUME NEW k \in Classes PROVE k \in Int /\ Bound(k) \in Int
  <2>1. k \in Int /\ k + 1 \in 1..Len(boundaries)
    BY <1>1 DEF Classes, numClasses
  <2>. QED
    BY <2>1 DEF Bound, LookupType
<1>. QED
  BY <1>2, <1>3, <1>4

LEMMA ProbeStep ==
  ASSUME LookupInv, Probe
  PROVE  LookupInv'
<1>. USE DEF LookupInv
<1>1. /\ Mid \in Classes /\ lo <= Mid /\ Mid <= hi /\ Mid \in Int
      /\ \A k \in Classes : k \in Int /\ Bound(k) \in Int
  BY MidInside DEF Probe
<1>2. UNCHANGED <<boundaries, size, want>> /\ pc = "search" /\ lo <= hi
  BY DEF Probe
<1>3. Len(boundaries) \in Nat /\ want \in Nat /\ lo \in Int /\ hi \in Int
  BY DEF LookupType
<1>4. BoundariesIncrease' /\ Classes' = Classes /\ numClasses' = numClasses
      /\ \A k : Bound(k)' = Bound(k)
  BY <1>2 DEF BoundariesIncrease, Classes, numClasses, Bound
<1>5. CASE AtMid /\ found' = Mid /\ pc' = "return" /\ UNCHANGED <<lo, hi>>
  <2>1. \A k \in Classes : k < Mid => Bound(k) < want
    <3>1. ASSUME NEW k \in Classes, k < Mid PROVE Bound(k) < want
      <4>1. Mid - 1 \in Classes /\ Mid # 0 /\ (k = Mid - 1 \/ k < Mid - 1)
        BY <1>1, <1>3, <3>1 DEF Classes, numClasses
      <4>2. Bound(Mid - 1) < want
        BY <1>1, <1>3, <1>5, <4>1 DEF AtMid
      <4>3. k = Mid - 1 \/ Bound(k) < Bound(Mid - 1)
        BY <4>1 DEF BoundariesIncrease
      <4>. QED
        BY <1>1, <1>3, <4>1, <4>2, <4>3
    <3>. QED
      BY <3>1
  <2>2. want <= Bound(Mid) /\ Mid \in 0..numClasses
    BY <1>1, <1>3, <1>5 DEF AtMid, Classes, numClasses
  <2>3. SearchRight'
    BY <1>2, <1>4, <1>5, <2>1, <2>2 DEF SearchRight
  <2>. QED
    BY <1>1, <1>2, <1>4, <1>5, <2>3 DEF LookupType, Top, Bracket
<1>6. CASE want <= Bound(Mid) /\ ~AtMid /\ hi' = Mid - 1 /\ UNCHANGED <<lo, found, pc>>
  <2>1. Mid # 0 /\ want <= Bound(Mid - 1)
    <3>1. Mid # 0 /\ ~(want > Bound(Mid - 1))
      BY <1>6 DEF AtMid
    <3>2. Mid - 1 \in Classes
      BY <1>1, <1>3, <3>1 DEF Classes, numClasses
    <3>. QED
      BY <1>1, <1>3, <3>1, <3>2
  <2>2. Mid - 1 \in Classes /\ hi' \in Int /\ -1 <= hi' /\ hi' < numClasses
    BY <1>1, <1>3, <1>6, <2>1 DEF Classes, numClasses
  <2>3. \E j \in Classes : j <= hi' /\ want <= Bound(j)
    BY <1>1, <1>6, <2>1, <2>2
  <2>4. Bracket'
    BY <1>2, <1>4, <1>6, <2>2, <2>3 DEF Bracket
  <2>. QED
    BY <1>2, <1>4, <1>6, <2>2, <2>4 DEF LookupType, Top, SearchRight
<1>7. CASE want > Bound(Mid) /\ lo' = Mid + 1 /\ UNCHANGED <<hi, found, pc>>
  <2>1. ASSUME NEW k \in Classes, k < Mid + 1 PROVE Bound(k) < want
    <3>1. k = Mid \/ k < Mid
      BY <1>1, <2>1
    <3>2. k = Mid \/ Bound(k) < Bound(Mid)
      BY <1>1, <3>1 DEF BoundariesIncrease
    <3>. QED
      BY <1>1, <1>3, <1>7, <3>2
  <2>2. lo' \in Int /\ 0 <= lo' /\ lo' <= numClasses
    BY <1>1, <1>3, <1>7 DEF Classes, numClasses
  <2>3. Bracket'
    BY <1>2, <1>4, <1>7, <2>1, <2>2 DEF Bracket
  <2>. QED
    BY <1>2, <1>4, <1>7, <2>2, <2>3 DEF LookupType, Top, SearchRight
<1>. QED
  BY <1>5, <1>6, <1>7 DEF Probe

LEMMA NotFoundStep ==
  ASSUME LookupInv, NotFound
  PROVE  LookupInv'
<1>. USE DEF LookupInv
<1>1. UNCHANGED <<boundaries, size, want, lo, hi>> /\ pc = "search" /\ lo > hi
      /\ found' = numClasses /\ pc' = "return"
  BY DEF NotFound
<1>2. Len(boundaries) \in Nat /\ want \in Nat /\ lo \in Int /\ hi \in Int
      /\ \A k \in Classes : k \in Int /\ Bound(k) \in Int
  <2>1. ASSUME NEW k \in Classes PROVE k \in Int /\ Bound(k) \in Int
    <3>1. k \in Int /\ k + 1 \in 1..Len(boundaries)
      BY DEF Classes, numClasses, LookupType
    <3>. QED
      BY <3>1 DEF Bound, LookupType
  <2>. QED
    BY <2>1 DEF LookupType
<1>3. hi = numClasses - 1
  BY <1>1, <1>2 DEF Bracket, numClasses
<1>4. \A k \in Classes : k < numClasses => Bound(k) < want
  BY <1>1, <1>2, <1>3 DEF Bracket, Classes, numClasses
<1>5. SearchRight'
  BY <1>1, <1>2, <1>4 DEF SearchRight, Classes, numClasses, Bound
<1>. QED
  BY <1>1, <1>2, <1>5
  DEF LookupType, BoundariesIncrease, Top, Bracket, Classes, numClasses, Bound

\* Building the table.
LEMMA BuildStep ==
  ASSUME LookupInv, SmallClass \/ MediumClass
  PROVE  LookupInv'
<1>. USE ConfigAssumption DEF LookupInv
<1>1. CASE SmallClass
  <2>1. /\ boundaries' = Append(boundaries, size + SmallIncrement - 1)
        /\ size' = size + SmallIncrement /\ size < SmallMax /\ pc = "small"
        /\ UNCHANGED <<want, lo, hi, found, pc>>
    BY <1>1 DEF SmallClass
  <2>2. size \in Nat /\ \A k \in Classes : Bound(k) < size /\ Bound(k) \in Int
    <3>1. ASSUME NEW k \in Classes PROVE Bound(k) \in Int
      BY DEF Bound, Classes, numClasses, LookupType
    <3>. QED
      BY <2>1, <3>1 DEF LookupType, Top
  <2>3. \A k \in Classes : Bound(k) < size + SmallIncrement - 1
    BY <2>2
  <2>4. size + SmallIncrement - 1 \in Int
    BY <2>2
  <2>5. /\ boundaries' \in Seq(Int) /\ BoundariesIncrease'
        /\ \A k \in Classes' : Bound(k)' <= size + SmallIncrement - 1
    BY <2>1, <2>3, <2>4, AppendKeeps
  <2>6. ASSUME NEW k \in Classes' PROVE Bound(k)' < size'
    <3>1. Bound(k)' \in Int
      BY <2>5 DEF Bound, Classes, numClasses
    <3>. QED
      BY <2>1, <2>2, <2>5, <3>1
  <2>7. Top'
    BY <2>1, <2>2, <2>6 DEF Top
  <2>. QED
    BY <2>1, <2>2, <2>5, <2>7 DEF LookupType, Bracket, SearchRight
<1>2. CASE MediumClass
  <2>1. /\ boundaries' = Append(boundaries, NextSize(size) - 1)
        /\ size' = NextSize(size) /\ pc = "medium"
        /\ UNCHANGED <<want, lo, hi, found, pc>>
    BY <1>2 DEF MediumClass
  <2>2. /\ size \in Nat /\ NextSize(size) \in Nat
        /\ NextSize(NextSize(size)) \in Nat /\ NextSize(NextSize(size)) > NextSize(size)
    BY NextGrows DEF LookupType
  <2>3. \A k \in Classes : Bound(k) < NextSize(size) - 1
    BY <2>1 DEF Top
  <2>4. NextSize(size) - 1 \in Int
    BY <2>2
  <2>5. /\ boundaries' \in Seq(Int) /\ BoundariesIncrease'
        /\ \A k \in Classes' : Bound(k)' <= NextSize(size) - 1
    BY <2>1, <2>3, <2>4, AppendKeeps
  <2>6. ASSUME NEW k \in Classes' PROVE Bound(k)' < NextSize(size') - 1
    <3>1. Bound(k)' \in Int
      BY <2>5 DEF Bound, Classes, numClasses
    <3>. QED
      BY <2>1, <2>2, <2>5, <3>1
  <2>7. Top'
    BY <2>1, <2>6 DEF Top, NextSize, CeilTimes
  <2>. QED
    BY <2>1, <2>2, <2>5, <2>7 DEF LookupType, Bracket, SearchRight
<1>. QED
  BY <1>1, <1>2

\* Changing from the linear to the logarithmic steps, and to lookups.
LEMMA PhaseStep ==
  ASSUME LookupInv, SmallDone \/ MediumDone
  PROVE  LookupInv'
<1>. USE ConfigAssumption DEF LookupInv
<1>0. ASSUME NEW k \in Classes PROVE Bound(k) \in Int
  BY DEF Bound, Classes, numClasses, LookupType
<1>1. CASE SmallDone
  <2>1. UNCHANGED <<boundaries, want, lo, hi, found>> /\ size' = SmallMax
        /\ pc = "small" /\ pc' = "medium"
    BY <1>1 DEF SmallDone
  <2>2. ASSUME NEW k \in Classes PROVE Bound(k) < NextSize(SmallMax) - 1
    <3>1. boundaries # <<>>
      BY DEF Classes, numClasses
    <3>2. Bound(k) < size /\ size < SmallMax + SmallIncrement /\ size \in Nat
      BY <2>1, <3>1 DEF Top, LookupType
    <3>3. NextSize(SmallMax) \in Nat
      BY NextGrows
    <3>. QED
      BY <1>0, <3>2, <3>3
  <2>3. Top'
    BY <2>1, <2>2 DEF Top, Classes, numClasses, Bound, NextSize, CeilTimes
  <2>. QED
    BY <2>1, <2>3
    DEF LookupType, BoundariesIncrease, Bracket, SearchRight, Classes, numClasses, Bound
<1>2. CASE MediumDone
  BY <1>2 DEF MediumDone, LookupType, BoundariesIncrease, Top, Bracket, SearchRight,
              Classes, numClasses, Bound
<1>. QED
  BY <1>1, <1>2

\* A lookup begins or is over.
LEMMA CallStep ==
  ASSUME LookupInv, (\E s \in Sizes : Call(s)) \/ Return
  PROVE  LookupInv'
<1>. USE ConfigAssumption DEF LookupInv
<1>1. ASSUME NEW s \in Sizes, Call(s) PROVE LookupInv'
  <2>1. /\ want' = s /\ lo' = 0 /\ hi' = numClasses - 1 /\ pc' = "search"
        /\ UNCHANGED <<boundaries, size, found>>
    BY <1>1 DEF Call
  <2>2. numClasses \in Nat /\ numClasses' = numClasses
    BY <2>1 DEF numClasses, LookupType
  <2>3. Bracket'
    BY <2>1, <2>2 DEF Bracket, Classes
  <2>. QED
    BY <2>1, <2>2, <2>3
    DEF LookupType, BoundariesIncrease, Top, SearchRight, Classes, numClasses, Bound
<1>2. CASE Return
  BY <1>2 DEF Return, LookupType, BoundariesIncrease, Top, Bracket, SearchRight,
              Classes, numClasses, Bound
<1>. QED
  BY <1>1, <1>2

LEMMA LookupInvariant == Spec => []LookupInv
<1>1. Init => LookupInv
  BY ConfigAssumption
  DEF Init, LookupInv, LookupType, BoundariesIncrease, Top, Bracket, SearchRight,
      Classes, numClasses, Bound
<1>2. LookupInv /\ [Next]_vars => LookupInv'
  <2>. SUFFICES ASSUME LookupInv, [Next]_vars PROVE LookupInv'
    OBVIOUS
  <2>1. CASE UNCHANGED vars
    BY <2>1 DEF vars, LookupInv, LookupType, BoundariesIncrease, Top, Bracket, SearchRight,
                Classes, numClasses, Bound
  <2>. QED
    BY <2>1, BuildStep, PhaseStep, ProbeStep, NotFoundStep, CallStep DEF Next, Step
<1>. QED
  BY <1>1, <1>2, PTL DEF Spec

\* newSizeClassTable builds an increasing table from every configuration
\* whose first logarithmic step outgrows one linear increment.
THEOREM TableIncreases == Spec => []BoundariesIncrease
  BY LookupInvariant, PTL DEF LookupInv

\* getSizeClass returns the first class that holds the size, for every size.
THEOREM LookupCorrect == Spec => []SearchRight
  BY LookupInvariant, PTL DEF LookupInv

-----------------------------------------------------------------------------
(* The ranges. *)

\* A range as it is recorded, and one of whole pages.
Recorded == [Off : Nat, Len : Nat \ {0}]
Whole(r) == r \in Recorded /\ r.Off % pageSize = 0 /\ r.Len % pageSize = 0

\* The bytes of all ranges of a set.
AllBytes(S) == UNION {BytesOf(r) : r \in S}

\* The aligned copy has the ranges that were added, aligned and in order.
AlignedRight ==
  /\ aligned \in Seq(Recorded) /\ aligned # <<>>
  /\ \A k \in 1..Len(aligned) : Whole(aligned[k])
  /\ Sorted(aligned)
  /\ SeqRange(aligned) = {Align(r) : r \in SeqRange(ranges)}

\* What the loop knows of the ranges it has seen: those put away and the current
\* one cover them, with gaps between; the current one starts no later than the
\* last one seen.
Seen == {aligned[k] : k \in 1..(i - 1)}
LoopRight ==
  /\ i \in 2..(Len(aligned) + 1)
  /\ Whole(current)
  /\ AllBytes(SeqRange(merged)) \cup BytesOf(current) = AllBytes(Seen)
  /\ current.Off <= aligned[i - 1].Off
  /\ merged # <<>> => EndOf(merged[Len(merged)]) < current.Off

MergedRight ==
  /\ merged \in Seq(Recorded)
  /\ \A k \in 1..Len(merged) : Whole(merged[k])
  /\ \A k \in 1..(Len(merged) - 1) : EndOf(merged[k]) < merged[k + 1].Off

IInv ==
  /\ ranges \in Seq(Recorded)
  /\ stage \in {"idle", "merge", "done"}
  /\ stage = "merge" => AlignedRight /\ LoopRight /\ MergedRight
  /\ stage = "done" => AlignedRight /\ MergedRight /\ AllBytes(SeqRange(merged)) = AllBytes(SeqRange(aligned))
-----------------------------------------------------------------------------
\* Division with rest, by a page size that is not known.
LEMMA Quotient ==
  ASSUME NEW p \in Nat \ {0}, NEW x \in Int
  PROVE  x \div p \in Int /\ x % p \in 0..(p - 1) /\ x % p = x - p * (x \div p)
<1>1. x \div p \in Int /\ x % p \in 0..(p - 1)
  OBVIOUS
<1>2. x % p = x - p * (x \div p)
  OBVIOUS
<1> QED BY <1>1, <1>2

\* The page of a byte is the one whose bounds it lies between.
LEMMA PageBracket ==
  ASSUME NEW p \in Nat \ {0}, NEW x \in Int, NEW q \in Int
  PROVE  p * q <= x /\ x < p * q + p <=> x \div p = q
<1>1. x \div p \in Int /\ x % p \in 0..(p - 1) /\ x % p = x - p * (x \div p)
  BY Quotient
<1>2. ASSUME p * q <= x, x < p * q + p PROVE x \div p = q
  <2>1. x - p * q \in 0..(p - 1) /\ p * q + (x - p * q) = x
    BY <1>2
  <2>2. \A s \in 0..(p - 1) : (p * q + s) \div p = q
    OBVIOUS
  <2> QED BY <2>1, <2>2
<1>3. ASSUME x \div p = q PROVE p * q <= x /\ x < p * q + p
  BY <1>1, <1>3
<1> QED BY <1>2, <1>3

\* The multiples of a page size, and their sums and differences.
LEMMA Multiple ==
  ASSUME NEW p \in Nat \ {0}, NEW q \in Int
  PROVE  p * q \in Int /\ (p * q) \div p = q /\ (p * q) % p = 0
<1>1. p * q \in Int /\ (p * q) \div p = q
  BY PageBracket
<1> QED BY <1>1, Quotient

LEMMA Multiples ==
  ASSUME NEW p \in Nat \ {0}, NEW x \in Int, NEW y \in Int, x % p = 0, y % p = 0
  PROVE  (x + y) % p = 0 /\ (x - y) % p = 0
<1> DEFINE a == x \div p
           b == y \div p
<1>1. a \in Int /\ b \in Int /\ x = p * a /\ y = p * b
  BY Quotient
<1> HIDE DEF a, b
<1>2. (p * (a + b)) % p = 0 /\ (p * (a - b)) % p = 0
  BY <1>1, Multiple
<1>3. x + y = p * (a + b) /\ x - y = p * (a - b)
  BY <1>1
<1> QED BY <1>2, <1>3

\* The start of a page, and the end of one, as Align computes them.
LEMMA RoundDown ==
  ASSUME NEW p \in Nat \ {0}, NEW x \in Nat
  PROVE  /\ (x \div p) * p \in Nat /\ ((x \div p) * p) % p = 0
         /\ (x \div p) * p <= x /\ x < (x \div p) * p + p
<1> DEFINE q == x \div p
<1>1. q \in Int /\ x % p \in 0..(p - 1) /\ x % p = x - p * q
  BY Quotient
<1>2. q \in Nat
  OBVIOUS
<1> HIDE DEF q
<1>3. q * p = p * q /\ p * q \in Nat /\ (p * q) % p = 0
  BY <1>2, Multiple
<1> QED BY <1>1, <1>3 DEF q

LEMMA RoundUp ==
  ASSUME NEW p \in Nat \ {0}, NEW x \in Nat
  PROVE  LET e == IF x % p # 0 THEN (x \div p + 1) * p ELSE x
         IN e \in Nat /\ e % p = 0 /\ x <= e /\ (e # x => p * (x \div p) < x /\ e = p * (x \div p) + p)
<1> DEFINE q == x \div p
<1>1. q \in Int /\ x % p \in 0..(p - 1) /\ x % p = x - p * q
  BY Quotient
<1> HIDE DEF q
<1>2. CASE x % p = 0
  BY <1>2
<1>3. CASE x % p # 0
  <2>1. (q + 1) * p = p * (q + 1) /\ p * (q + 1) = p * q + p /\ p * (q + 1) \in Int
    BY <1>1
  <2>2. (p * (q + 1)) % p = 0
    BY <1>1, Multiple
  <2>3. p * q < x /\ x < p * q + p
    BY <1>1, <1>3
  <2> QED BY <1>3, <2>1, <2>2, <2>3 DEF q
<1> QED BY <1>2, <1>3

\* Align rounds to whole pages outwards.
LEMMA AlignWhole ==
  ASSUME NEW r \in Recorded
  PROVE  Whole(Align(r)) /\ Align(r).Off <= r.Off /\ EndOf(r) <= EndOf(Align(r))
<1> DEFINE p == pageSize
           start == (r.Off \div p) * p
           end == IF EndOf(r) % p # 0 THEN (EndOf(r) \div p + 1) * p ELSE EndOf(r)
<1>1. p \in Nat \ {0} /\ r.Off \in Nat /\ EndOf(r) \in Nat /\ r.Off < EndOf(r)
  BY RangesAssumption DEF Recorded, EndOf
<1>2. Align(r) = [Off |-> start, Len |-> end - start]
  BY DEF Align, NewRange
<1>3. start \in Nat /\ start % p = 0 /\ start <= r.Off
  BY <1>1, RoundDown
<1>4. end \in Nat /\ end % p = 0 /\ EndOf(r) <= end
  BY <1>1, RoundUp
<1> HIDE DEF start, end
<1> HIDE DEF p
<1>5. (end - start) % p = 0
  <2>1. end \in Int /\ start \in Int
    BY <1>3, <1>4
  <2> QED BY <1>1, <1>3, <1>4, <2>1, Multiples, Zenon
<1>6. end - start \in Nat \ {0}
  BY <1>1, <1>3, <1>4
<1> QED BY <1>1, <1>2, <1>3, <1>4, <1>5, <1>6 DEF Whole, Recorded, EndOf, p

\* ... and the pages of its bytes are the pages of the range's bytes.
LEMMA AlignPages ==
  ASSUME NEW r \in Recorded
  PROVE  /\ \A b \in BytesOf(Align(r)) : \E c \in BytesOf(r) : c \div pageSize = b \div pageSize
         /\ BytesOf(r) \subseteq BytesOf(Align(r))
<1> DEFINE p == pageSize
           o == r.Off
           e == EndOf(r)
           q == o \div p
           u == e \div p
           end == IF e % p # 0 THEN (u + 1) * p ELSE e
<1>1. p \in Nat \ {0} /\ o \in Nat /\ e \in Nat /\ o < e
  BY RangesAssumption DEF Recorded, EndOf
<1>2. Align(r) = [Off |-> q * p, Len |-> end - q * p]
  BY DEF Align, NewRange
<1>3. q * p \in Nat /\ q * p <= o /\ o < q * p + p
  BY <1>1, RoundDown
<1>4. end \in Nat /\ e <= end /\ (end # e => p * u < e /\ end = p * u + p)
  BY <1>1, RoundUp
<1>5. q \in Int /\ u \in Int
  BY <1>1, Quotient
<1> HIDE DEF p, o, e, q, u, end
<1> DEFINE start == q * p
           last == p * u
<1>6. start = p * q /\ start \in Int /\ last \in Int
  BY <1>1, <1>5
<1> HIDE DEF start, last
<1>7. BytesOf(Align(r)) = start..(end - 1) /\ BytesOf(r) = o..(e - 1)
  <2>1. EndOf(Align(r)) = end /\ Align(r).Off = start
    BY <1>2, <1>4, <1>6 DEF EndOf, start
  <2> QED BY <2>1 DEF BytesOf, o, e
<1>8. \A b \in start..(end - 1) : \E c \in o..(e - 1) : c \div p = b \div p
  <2>1. start <= o /\ o < start + p
    BY <1>3 DEF start
  <2>2. end \in Nat /\ (end # e => last < e /\ end = last + p)
    BY <1>4 DEF last
  <2>3. last = p * u
    BY DEF last
  <2> TAKE b \in start..(end - 1)
  <2>4. b \in Int
    BY <1>4, <1>6
  <2>5. CASE b < o
    <3>1. start <= b /\ b < start + p
      BY <1>1, <1>6, <2>1, <2>5
    <3>2. b \div p = q /\ o \div p = q
      BY <1>1, <1>5, <1>6, <2>1, <2>4, <3>1, PageBracket
    <3> QED BY <1>1, <3>2
  <2>6. CASE b >= e
    <3>1. last < e /\ end = last + p
      BY <1>1, <2>2, <2>4, <2>6
    <3>2. last <= b /\ b < last + p /\ last <= e - 1 /\ e - 1 < last + p /\ e - 1 \in Int
      BY <1>1, <1>6, <2>4, <2>6, <3>1
    <3>3. b \div p = u /\ (e - 1) \div p = u
      BY <1>1, <1>5, <2>3, <2>4, <3>2, PageBracket
    <3> QED BY <1>1, <3>3
  <2>7. CASE b \in o..(e - 1)
    BY <2>7
  <2> QED BY <1>1, <2>4, <2>5, <2>6, <2>7
<1>9. o..(e - 1) \subseteq start..(end - 1)
  BY <1>1, <1>3, <1>4, <1>6 DEF start
<1> QED BY <1>7, <1>8, <1>9 DEF p
-----------------------------------------------------------------------------
\* The bytes and the members of a sequence that gets longer by one range.
LEMMA OneMore ==
  /\ \A S, r : AllBytes(S \cup {r}) = AllBytes(S) \cup BytesOf(r)
  /\ \A s \in Seq(Recorded), r \in Recorded : SeqRange(Append(s, r)) = SeqRange(s) \cup {r}
<1>1. ASSUME NEW S, NEW r PROVE AllBytes(S \cup {r}) = AllBytes(S) \cup BytesOf(r)
  BY DEF AllBytes
<1>2. ASSUME NEW s \in Seq(Recorded), NEW r \in Recorded
      PROVE  SeqRange(Append(s, r)) = SeqRange(s) \cup {r}
  BY DEF SeqRange
<1> QED BY <1>1, <1>2

\* A run and one that starts inside it or right behind it.
LEMMA Joined ==
  ASSUME NEW a \in Int, NEW b \in Int, NEW c \in Int, NEW d \in Int, a <= c, c <= b, a < b, c < d
  PROVE  a..(Later(b, d) - 1) = (a..(b - 1)) \cup (c..(d - 1))
BY DEF Later

\* coalesce begins.
LEMMA StartRight ==
  ASSUME IInv, Start
  PROVE  IInv'
<1> DEFINE a == [k \in 1..Len(ranges) |-> Align(ranges[k])]
           n == Len(ranges)
<1>1. ranges \in Seq(Recorded) /\ ranges # <<>> /\ n \in Nat \ {0}
  BY DEF IInv, Start
<1>2. \A k \in 1..n : Whole(a[k]) /\ a[k] \in Recorded
  BY <1>1, AlignWhole DEF Whole
<1>3. Len(a) = n
  BY <1>1
<1>4. PICK p \in Orders(n) :
        /\ aligned' = [k \in 1..n |-> a[p[k]]]
        /\ Sorted(aligned') /\ current' = aligned'[1]
  BY <1>3 DEF Start, Arrangements
<1>5. p \in [1..n -> 1..n] /\ \A k \in 1..n : \E j \in 1..n : p[j] = k
  BY <1>4 DEF Orders
<1>6. /\ aligned' \in Seq(Recorded) /\ Len(aligned') = n /\ aligned' # <<>>
      /\ \A k \in 1..n : Whole(aligned'[k]) /\ aligned'[k] \in Recorded
  <2>1. \A k \in 1..n : p[k] \in 1..n /\ aligned'[k] = a[p[k]]
    BY <1>4, <1>5
  <2>2. \A k \in 1..n : Whole(aligned'[k]) /\ aligned'[k] \in Recorded
    BY <1>2, <2>1
  <2>3. aligned' \in [1..n -> Recorded]
    BY <1>4, <2>2
  <2> QED BY <1>1, <2>2, <2>3
<1>7. SeqRange(aligned') = {Align(r) : r \in SeqRange(ranges)}
  <2>1. SeqRange(aligned') = {a[p[k]] : k \in 1..n}
    BY <1>4, <1>6 DEF SeqRange
  <2>2. {a[p[k]] : k \in 1..n} = {a[j] : j \in 1..n}
    BY <1>5
  <2>3. {a[j] : j \in 1..n} = {Align(r) : r \in SeqRange(ranges)}
    BY DEF SeqRange
  <2> QED BY <2>1, <2>2, <2>3
<1>8. AlignedRight'
  BY <1>4, <1>6, <1>7 DEF AlignedRight, Start
<1>9. LoopRight' /\ MergedRight'
  <2>1. i' = 2 /\ merged' = <<>> /\ Seen' = {aligned'[1]}
    BY <1>6 DEF Start, Seen
  <2>2. AllBytes(SeqRange(<<>>)) = {} /\ AllBytes({aligned'[1]}) = BytesOf(aligned'[1])
    BY DEF AllBytes, SeqRange
  <2>3. Whole(aligned'[1]) /\ aligned'[1].Off \in Nat /\ current' = aligned'[1]
    <3>1. 1 \in 1..n
      BY <1>1
    <3>2. Whole(aligned'[1]) /\ aligned'[1] \in Recorded
      BY <1>6, <3>1
    <3> QED BY <1>4, <3>2 DEF Recorded
  <2>4. LoopRight'
    <3>1. i' \in 2..(Len(aligned') + 1)
      BY <1>1, <1>6, <2>1
    <3>2. AllBytes(SeqRange(merged')) \cup BytesOf(current') = AllBytes(Seen')
      BY <2>1, <2>2, <2>3
    <3>3. current'.Off <= aligned'[i' - 1].Off
      BY <2>1, <2>3
    <3> QED BY <2>1, <2>3, <3>1, <3>2, <3>3 DEF LoopRight
  <2>5. MergedRight'
    BY <2>1 DEF MergedRight
  <2> QED BY <2>4, <2>5
<1> QED BY <1>1, <1>8, <1>9 DEF IInv, Start

\* A round of the loop.
LEMMA MergeRight ==
  ASSUME IInv, Merge
  PROVE  IInv'
<1> DEFINE next == aligned[i]
<1>1. stage = "merge" /\ AlignedRight /\ LoopRight /\ MergedRight /\ pageSize \in Nat \ {0}
  BY RangesAssumption DEF IInv, Merge
<1>2. /\ Len(aligned) \in Nat /\ i \in 2..Len(aligned) /\ i - 1 \in 1..(Len(aligned) - 1)
      /\ Whole(next) /\ aligned[i - 1].Off <= next.Off /\ Whole(current) /\ Whole(aligned[i - 1])
  BY <1>1 DEF AlignedRight, LoopRight, Merge, Sorted
<1>3. current.Off <= next.Off
  <2>1. current.Off \in Nat /\ next.Off \in Nat /\ aligned[i - 1].Off \in Nat
    BY <1>2 DEF Whole, Recorded
  <2>2. current.Off <= aligned[i - 1].Off
    BY <1>1 DEF LoopRight
  <2> QED BY <1>2, <2>1, <2>2
<1>4. Seen' = Seen \cup {next} /\ i' = i + 1 /\ aligned' = aligned /\ ranges' = ranges /\ stage' = stage
  <2>1. i' = i + 1 /\ aligned' = aligned /\ ranges' = ranges /\ stage' = stage
    BY DEF Merge
  <2>2. 1..(i' - 1) = 1..(i - 1) \cup {i}
    BY <1>2, <2>1
  <2> QED BY <2>1, <2>2 DEF Seen
<1>5. AllBytes(Seen') = AllBytes(SeqRange(merged)) \cup BytesOf(current) \cup BytesOf(next)
  BY <1>1, <1>4, OneMore DEF LoopRight
<1>6. AlignedRight'
  BY <1>1, <1>4 DEF AlignedRight
<1>7. CASE Touches(next)
  <2>1. current' = Extend(next) /\ merged' = merged
    BY <1>7 DEF Merge
  <2>2. /\ current'.Off = current.Off
        /\ EndOf(current') = Later(EndOf(current), EndOf(next))
        /\ current' \in Recorded
    BY <1>2, <1>3, <2>1 DEF Extend, NewRange, Later, EndOf, Whole, Recorded
  <2>3. BytesOf(current') = BytesOf(current) \cup BytesOf(next)
    <3>1. /\ current.Off \in Int /\ next.Off \in Int /\ EndOf(current) \in Int /\ EndOf(next) \in Int
          /\ next.Off <= EndOf(current) /\ current.Off < EndOf(current) /\ next.Off < EndOf(next)
      BY <1>2, <1>7 DEF Touches, EndOf, Whole, Recorded
    <3> QED BY <1>3, <2>2, <3>1, Joined DEF BytesOf
  <2>4. current'.Len % pageSize = 0
    <3>1. ASSUME NEW x, Whole(x) PROVE EndOf(x) \in Int /\ x.Off \in Int /\ EndOf(x) % pageSize = 0
      <4>1. x.Off \in Int /\ x.Len \in Int /\ x.Off % pageSize = 0 /\ x.Len % pageSize = 0
        BY <3>1 DEF Whole, Recorded
      <4> QED BY <1>1, <4>1, Multiples DEF EndOf
    <3>2. EndOf(current') % pageSize = 0 /\ EndOf(current') \in Int
      BY <1>2, <2>2, <3>1 DEF Later
    <3>3. current'.Len = EndOf(current') - current'.Off
      BY <2>2 DEF Recorded, EndOf
    <3>4. current'.Off % pageSize = 0 /\ current'.Off \in Int
      BY <1>2, <2>2 DEF Whole, Recorded
    <3> QED BY <1>1, <3>2, <3>3, <3>4, Multiples
  <2>5. Whole(current')
    BY <1>2, <2>2, <2>4 DEF Whole
  <2>6. LoopRight'
    <3>1. i' \in 2..(Len(aligned') + 1) /\ i' - 1 = i
      BY <1>2, <1>4
    <3>2. AllBytes(SeqRange(merged')) \cup BytesOf(current') = AllBytes(Seen')
      BY <1>5, <2>1, <2>3
    <3>3. current'.Off <= aligned'[i' - 1].Off
      BY <1>3, <1>4, <2>2, <3>1
    <3>4. merged' # <<>> => EndOf(merged'[Len(merged')]) < current'.Off
      BY <1>1, <2>1, <2>2 DEF LoopRight
    <3> QED BY <2>5, <3>1, <3>2, <3>3, <3>4 DEF LoopRight
  <2> QED BY <1>1, <1>4, <1>6, <2>1, <2>6 DEF IInv, MergedRight
<1>8. CASE ~Touches(next)
  <2>1. current' = next /\ merged' = Append(merged, current)
    BY <1>8 DEF Merge
  <2>2. EndOf(current) < next.Off
    BY <1>2, <1>8 DEF Touches, EndOf, Whole, Recorded
  <2>3. /\ merged \in Seq(Recorded) /\ current \in Recorded
        /\ SeqRange(merged') = SeqRange(merged) \cup {current}
    BY <1>1, <1>2, <2>1, OneMore DEF MergedRight, Whole
  <2>4. MergedRight'
    BY <1>1, <1>2, <2>1, <2>3 DEF MergedRight, LoopRight
  <2>5. AllBytes(SeqRange(merged')) = AllBytes(SeqRange(merged)) \cup BytesOf(current)
    BY <2>3, OneMore
  <2>6. LoopRight'
    <3>1. i' \in 2..(Len(aligned') + 1) /\ i' - 1 = i
      BY <1>2, <1>4
    <3>2. AllBytes(SeqRange(merged')) \cup BytesOf(current') = AllBytes(Seen')
      BY <1>5, <2>1, <2>5
    <3>3. current'.Off <= aligned'[i' - 1].Off
      BY <1>2, <1>4, <2>1, <3>1 DEF Whole, Recorded
    <3>4. EndOf(merged'[Len(merged')]) < current'.Off
      BY <2>1, <2>2, <2>3
    <3> QED BY <1>2, <2>1, <3>1, <3>2, <3>3, <3>4 DEF LoopRight
  <2> QED BY <1>1, <1>4, <1>6, <2>4, <2>6 DEF IInv
<1> QED BY <1>7, <1>8

\* The current range is put away and the loop ends.
LEMMA FinishRight ==
  ASSUME IInv, Finish
  PROVE  IInv'
<1>1. AlignedRight /\ LoopRight /\ MergedRight /\ i = Len(aligned) + 1
  BY DEF IInv, Finish, LoopRight, AlignedRight
<1>2. /\ merged \in Seq(Recorded) /\ current \in Recorded
      /\ merged' = Append(merged, current)
      /\ SeqRange(merged') = SeqRange(merged) \cup {current}
  BY <1>1, OneMore DEF MergedRight, LoopRight, Whole, Finish
<1>3. MergedRight'
  BY <1>1, <1>2 DEF MergedRight, LoopRight
<1>4. Seen = SeqRange(aligned) /\ Len(aligned) \in Nat
  BY <1>1 DEF Seen, SeqRange, AlignedRight
<1>5. AllBytes(SeqRange(merged')) = AllBytes(SeqRange(aligned))
  <2>1. AllBytes(SeqRange(merged')) = AllBytes(SeqRange(merged)) \cup BytesOf(current)
    BY <1>2, OneMore
  <2> QED BY <1>1, <1>4, <2>1 DEF LoopRight
<1> QED BY <1>1, <1>3, <1>5 DEF IInv, AlignedRight, Finish

LEMMA Inductive ==
  ASSUME IInv, [RangesNext]_rangeVars
  PROVE  IInv'
<1>1. ASSUME NEW o \in Offs, NEW l \in Lens, Add(o, l) PROVE IInv'
  BY <1>1, RangesAssumption DEF Add, IInv, NewRange, Recorded
<1>2. CASE Start
  BY <1>2, StartRight
<1>3. CASE Merge
  BY <1>3, MergeRight
<1>4. CASE Finish
  BY <1>4, FinishRight
<1>5. CASE Clear
  BY <1>5 DEF Clear, IInv
<1>6. CASE UNCHANGED rangeVars
  BY <1>6 DEF rangeVars, IInv, AlignedRight, LoopRight, MergedRight, Seen
<1> QED BY <1>1, <1>2, <1>3, <1>4, <1>5, <1>6 DEF RangesNext

\* The pages of the bytes of the aligned ranges are those of the ranges added.
LEMMA SamePages ==
  ASSUME ranges \in Seq(Recorded), AlignedRight,
         AllBytes(SeqRange(merged)) = AllBytes(SeqRange(aligned))
  PROVE  Pages(SeqRange(merged)) = Pages(SeqRange(ranges))
<1>1. Pages(SeqRange(merged)) = {b \div pageSize : b \in AllBytes({Align(r) : r \in SeqRange(ranges)})}
  BY DEF Pages, AllBytes, AlignedRight
<1>2. \A r \in SeqRange(ranges) : r \in Recorded
  BY DEF SeqRange
<1>3. ASSUME NEW b \in AllBytes({Align(r) : r \in SeqRange(ranges)})
      PROVE  \E c \in AllBytes(SeqRange(ranges)) : c \div pageSize = b \div pageSize
  <2>1. PICK r \in SeqRange(ranges) : b \in BytesOf(Align(r))
    BY DEF AllBytes
  <2>2. PICK c \in BytesOf(r) : c \div pageSize = b \div pageSize
    BY <1>2, <2>1, AlignPages
  <2> QED BY <2>1, <2>2 DEF AllBytes
<1>4. AllBytes(SeqRange(ranges)) \subseteq AllBytes({Align(r) : r \in SeqRange(ranges)})
  BY <1>2, AlignPages DEF AllBytes
<1>5. Pages(SeqRange(ranges)) = {b \div pageSize : b \in AllBytes(SeqRange(ranges))}
  BY DEF Pages, AllBytes
<1> QED BY <1>1, <1>3, <1>4, <1>5
-----------------------------------------------------------------------------
\* Whatever ranges were added, what coalesce returns has the pages that they
\* touch and no other, in whole pages, in order and with gaps between.
THEOREM CoalesceRight == RangesSpec => []RangesRight
<1>1. RangesInit => IInv
  BY DEF RangesInit, IInv
<1>2. IInv /\ [RangesNext]_rangeVars => IInv'
  BY Inductive
<1>3. IInv => RangesRight
  <2> SUFFICES ASSUME IInv, stage = "done"
               PROVE  CoversExactly /\ MaximalRuns
    BY DEF RangesRight, CoversExactly, MaximalRuns
  <2>1. \A r \in SeqRange(merged) : Whole(r)
    BY DEF IInv, MergedRight, SeqRange
  <2>2. Pages(SeqRange(merged)) = Pages(SeqRange(ranges))
    BY SamePages DEF IInv
  <2> QED BY <2>1, <2>2 DEF IInv, MergedRight, CoversExactly, MaximalRuns, Whole
<1> QED BY <1>1, <1>2, <1>3, PTL DEF RangesSpec

-----------------------------------------------------------------------------
(* The cache. *)

Encodings == {"c", "u"}
Item == [key : RawNames, name : [raw : RawNames, enc : Encodings, fnv : BOOLEAN]]

\* The name of an entry is what its bytes stand for in an encoding in which they
\* were met.
Sourced(e, met) == \E enc \in Encodings : e.name = Decoded(e.key, enc) /\ <<e.key, enc>> \in met

\* The entries of shard s.
Good(q, s, met) ==
  /\ q \in Seq(Item)
  /\ \A j \in 1..Len(q) : ShardFor[q[j].key] = s /\ Sourced(q[j], met)
  /\ \A j, k \in 1..Len(q) : q[j].key = q[k].key => j = k

\* Where a reader can be with bytes it has met, and what it may have been given.
Working == {"lookup", "missed", "store", "error"}
ReaderRight(x, met) ==
  \/ x = Idle
  \/ \E raw \in RawNames, enc \in Encodings :
       /\ <<raw, enc>> \in met
       /\ \/ \E at \in Working : x = Reading(at, raw, enc)
          \/ \E other \in Encodings : x = Read(raw, enc, Decoded(raw, other)) /\ <<raw, other>> \in met

Typed ==
  /\ shard \in [Shards -> [cap : Nat, order : Seq(Item)]]
  /\ reader = [r \in Readers |-> reader[r]]
  /\ resize \in [cap : Nat, left : SUBSET Shards]
ShardsRight ==
  \A s \in Shards : Len(shard[s].order) <= Room(shard[s]) /\ Good(shard[s].order, s, seen)
ReadersRight == \A r \in Readers : ReaderRight(reader[r], seen)
CacheInv == Typed /\ ShardsRight /\ ReadersRight
-----------------------------------------------------------------------------
\* What RemoveAt leaves.
LEMMA Removed ==
  ASSUME NEW q \in Seq(Item), NEW k \in 1..Len(q)
  PROVE  /\ RemoveAt(q, k) \in Seq(Item) /\ Len(RemoveAt(q, k)) = Len(q) - 1
         /\ \A j \in 1..(Len(q) - 1) : RemoveAt(q, k)[j] = IF j < k THEN q[j] ELSE q[j + 1]
<1> DEFINE a == SubSeq(q, 1, k - 1)
           b == SubSeq(q, k + 1, Len(q))
<1>1. a \in Seq(Item) /\ Len(a) = k - 1 /\ \A j \in 1..(k - 1) : a[j] = q[j]
  OBVIOUS
<1>2. b \in Seq(Item) /\ Len(b) = Len(q) - k /\ \A j \in 1..(Len(q) - k) : b[j] = q[k + j]
  OBVIOUS
<1>3. RemoveAt(q, k) = a \o b
  BY DEF RemoveAt
<1> HIDE DEF a, b
<1>4. a \o b \in Seq(Item) /\ Len(a \o b) = Len(q) - 1
  <2>1. a \in Seq(Item) /\ b \in Seq(Item)
    BY <1>1, <1>2
  <2>2. a \o b \in Seq(Item)
    BY <2>1
  <2>3. Len(a \o b) = Len(a) + Len(b)
    BY <2>1
  <2>4. Len(q) \in Nat
    OBVIOUS
  <2> QED BY <1>1, <1>2, <2>2, <2>3, <2>4
<1>5. ASSUME NEW j \in 1..(Len(q) - 1) PROVE (a \o b)[j] = IF j < k THEN q[j] ELSE q[j + 1]
  <2>1. CASE j < k
    BY <1>1, <1>2, <2>1
  <2>2. CASE ~(j < k)
    <3>1. (a \o b)[j] = b[j - (k - 1)] /\ j - (k - 1) \in 1..(Len(q) - k)
      BY <1>1, <1>2, <2>2
    <3> QED BY <1>2, <2>2, <3>1
  <2> QED BY <2>1, <2>2
<1> QED BY <1>3, <1>4, <1>5

\* What PushFront makes.
LEMMA Pushed ==
  ASSUME NEW q \in Seq(Item), NEW e \in Item
  PROVE  /\ <<e>> \o q \in Seq(Item) /\ Len(<<e>> \o q) = Len(q) + 1 /\ (<<e>> \o q)[1] = e
         /\ \A j \in 2..(Len(q) + 1) : (<<e>> \o q)[j] = q[j - 1]
  OBVIOUS

\* An entry that is in no shard yet can be put in front.
LEMMA PushGood ==
  ASSUME NEW s, NEW met, NEW q, NEW e \in Item,
         Good(q, s, met), ShardFor[e.key] = s, Sourced(e, met), \A k \in 1..Len(q) : q[k].key # e.key
  PROVE  Good(<<e>> \o q, s, met)
<1> DEFINE n == <<e>> \o q
<1>1. q \in Seq(Item)
  BY DEF Good
<1>2. n \in Seq(Item) /\ Len(n) = Len(q) + 1 /\ n[1] = e /\ \A j \in 2..(Len(q) + 1) : n[j] = q[j - 1]
  BY <1>1, Pushed
<1> HIDE DEF n
<1>3. ASSUME NEW j \in 1..Len(n) PROVE ShardFor[n[j].key] = s /\ Sourced(n[j], met)
  <2>1. CASE j = 1
    BY <1>2, <2>1
  <2>2. CASE j # 1
    BY <1>1, <1>2, <2>2 DEF Good
  <2> QED BY <2>1, <2>2
<1>4. ASSUME NEW j \in 1..Len(n), NEW k \in 1..Len(n), n[j].key = n[k].key PROVE j = k
  BY <1>1, <1>2, <1>4 DEF Good
<1> QED BY <1>2, <1>3, <1>4 DEF Good, n

\* Without one of its entries a shard is in order, and has no entry of that name.
LEMMA RemoveGood ==
  ASSUME NEW s, NEW met, NEW q, Good(q, s, met), NEW k \in 1..Len(q)
  PROVE  /\ Good(RemoveAt(q, k), s, met)
         /\ \A j \in 1..Len(RemoveAt(q, k)) : RemoveAt(q, k)[j].key # q[k].key
<1> DEFINE n == RemoveAt(q, k)
<1>1. q \in Seq(Item)
  BY DEF Good
<1>2. n \in Seq(Item) /\ Len(n) = Len(q) - 1 /\ \A j \in 1..(Len(q) - 1) : n[j] = IF j < k THEN q[j] ELSE q[j + 1]
  BY <1>1, Removed
<1> HIDE DEF n
<1>3. ASSUME NEW j \in 1..Len(n) PROVE ShardFor[n[j].key] = s /\ Sourced(n[j], met) /\ n[j].key # q[k].key
  <2>1. PICK h \in 1..Len(q) : n[j] = q[h] /\ h # k
    <3>1. CASE j < k
      BY <1>1, <1>2, <3>1
    <3>2. CASE ~(j < k)
      <4>1. j + 1 \in 1..Len(q) /\ n[j] = q[j + 1] /\ j + 1 # k
        BY <1>1, <1>2, <3>2
      <4> QED BY <4>1
    <3> QED BY <3>1, <3>2
  <2> QED BY <2>1 DEF Good
<1>4. ASSUME NEW j \in 1..Len(n), NEW h \in 1..Len(n), n[j].key = n[h].key PROVE j = h
  <2> DEFINE at(m) == IF m < k THEN m ELSE m + 1
  <2>1. Len(q) \in Nat /\ j \in 1..(Len(q) - 1) /\ h \in 1..(Len(q) - 1)
    BY <1>1, <1>2
  <2>2. at(j) \in 1..Len(q) /\ at(h) \in 1..Len(q)
    BY <2>1
  <2>3. n[j] = q[at(j)] /\ n[h] = q[at(h)]
    BY <1>2, <2>1
  <2>4. at(j) = at(h)
    <3> HIDE DEF at
    <3> QED BY <1>4, <2>2, <2>3 DEF Good
  <2> QED BY <2>1, <2>4
<1> QED BY <1>2, <1>3, <1>4 DEF Good, n

\* The first entries of a shard are in order.
LEMMA PrefixGood ==
  ASSUME NEW s, NEW met, NEW q, Good(q, s, met), NEW m \in 0..Len(q)
  PROVE  Good(SubSeq(q, 1, m), s, met) /\ Len(SubSeq(q, 1, m)) = m
<1>1. q \in Seq(Item)
  BY DEF Good
<1>2. /\ SubSeq(q, 1, m) \in Seq(Item) /\ Len(SubSeq(q, 1, m)) = m
      /\ \A j \in 1..m : SubSeq(q, 1, m)[j] = q[j]
  BY <1>1
<1> QED BY <1>1, <1>2 DEF Good

\* Bytes met later take nothing back.
LEMMA MetGrows ==
  ASSUME NEW met, NEW more, met \subseteq more
  PROVE  /\ \A q, s : Good(q, s, met) => Good(q, s, more)
         /\ \A x : ReaderRight(x, met) => ReaderRight(x, more)
<1>1. \A e : Sourced(e, met) => Sourced(e, more)
  BY DEF Sourced
<1>2. \A q, s : Good(q, s, met) => Good(q, s, more)
  BY <1>1 DEF Good
<1>3. \A x : ReaderRight(x, met) => ReaderRight(x, more)
  BY DEF ReaderRight
<1> QED BY <1>2, <1>3

\* What lookup and store do to a shard.
LEMMA FoundRight ==
  ASSUME NEW q \in Seq(Item), NEW raw, Found(q, raw) # {}
  PROVE  At(q, raw) \in 1..Len(q) /\ q[At(q, raw)].key = raw
  BY DEF Found, At

LEMMA StoredGood ==
  ASSUME NEW s, NEW met, NEW c \in [cap : Nat, order : Seq(Item)], NEW raw \in RawNames, NEW enc \in Encodings,
         Len(c.order) <= Room(c), Good(c.order, s, met), ShardFor[raw] = s, <<raw, enc>> \in met
  PROVE  LET n == Stored(c, raw, Decoded(raw, enc))
         IN /\ n \in [cap : Nat, order : Seq(Item)] /\ n.cap = c.cap
            /\ Len(n.order) <= Room(n) /\ Good(n.order, s, met)
<1> DEFINE q == c.order
           e == Entry(raw, Decoded(raw, enc))
           rest == IF Found(q, raw) # {} THEN RemoveAt(q, At(q, raw))
                   ELSE IF Len(q) >= c.cap /\ q # <<>> THEN Front(q) ELSE q
           n == Stored(c, raw, Decoded(raw, enc))
<1>1. e \in Item /\ e.key = raw /\ Sourced(e, met)
  BY DEF Item, Entry, Decoded, Encodings, Sourced
<1>2. n = [c EXCEPT !.order = <<e>> \o rest]
  BY DEF Stored
<1>3. q \in Seq(Item) /\ c.cap \in Nat
  OBVIOUS
<1>4. Good(rest, s, met) /\ (\A k \in 1..Len(rest) : rest[k].key # raw) /\ Len(rest) + 1 <= Room(c)
  <2>1. CASE Found(q, raw) # {}
    <3>1. At(q, raw) \in 1..Len(q) /\ q[At(q, raw)].key = raw /\ rest = RemoveAt(q, At(q, raw))
      BY <1>3, <2>1, FoundRight
    <3>2. Good(q, s, met)
      OBVIOUS
    <3>3. Len(RemoveAt(q, At(q, raw))) = Len(q) - 1
      BY <1>3, <3>1, Removed
    <3> QED BY <1>3, <3>1, <3>2, <3>3, RemoveGood
  <2>2. CASE Found(q, raw) = {}
    <3>1. \A k \in 1..Len(q) : q[k].key # raw
      BY <1>3, <2>2 DEF Found
    <3>2. CASE Len(q) >= c.cap /\ q # <<>>
      <4>1. rest = SubSeq(q, 1, Len(q) - 1) /\ Len(q) - 1 \in 0..Len(q)
        BY <1>3, <2>2, <3>2 DEF Front
      <4> DEFINE m == Len(q) - 1
      <4>a. Good(q, s, met) /\ m \in 0..Len(q) /\ rest = SubSeq(q, 1, m)
        BY <4>1
      <4> HIDE DEF m, rest, q
      <4>b. Good(rest, s, met) /\ Len(rest) = m
        BY <4>a, PrefixGood
      <4>2. Good(rest, s, met) /\ Len(rest) = Len(q) - 1
        BY <4>b DEF m
      <4>3. \A k \in 1..Len(rest) : rest[k] = q[k]
        BY <1>3, <4>1, <4>2
      <4>4. \A k \in 1..Len(rest) : k \in 1..Len(q)
        BY <1>3, <4>2
      <4>5. Len(q) <= Room(c)
        BY DEF q
      <4>6. Len(rest) + 1 <= Room(c)
        BY <1>3, <4>2, <4>5
      <4> QED BY <3>1, <4>2, <4>3, <4>4, <4>6
    <3>3. CASE ~(Len(q) >= c.cap /\ q # <<>>)
      <4>1. rest = q
        BY <2>2, <3>3
      <4>2. Len(q) + 1 <= Room(c)
        BY <1>3, <3>3 DEF Room
      <4> QED BY <3>1, <4>1, <4>2
    <3> QED BY <3>2, <3>3
  <2> QED BY <2>1, <2>2
<1>5. rest \in Seq(Item)
  BY <1>4 DEF Good
<1> HIDE DEF rest, e
<1>6. Good(<<e>> \o rest, s, met)
  BY <1>1, <1>4, PushGood
<1>7. <<e>> \o rest \in Seq(Item) /\ Len(<<e>> \o rest) = Len(rest) + 1
  BY <1>1, <1>5, Pushed
<1> QED BY <1>2, <1>3, <1>4, <1>6, <1>7 DEF Room
-----------------------------------------------------------------------------
\* How many entries a shard gets is a number.
LEMMA PerShardNat ==
  ASSUME NEW n \in Nat
  PROVE  PerShard(n) \in Nat
  BY CacheAssumption DEF PerShard

LEMMA InitRight ==
  ASSUME CacheInit
  PROVE  CacheInv
<1>1. PerShard(Capacity) \in Nat
  BY PerShardNat, CacheAssumption
<1>2. Typed
  BY <1>1 DEF CacheInit, Typed, NoResize
<1>3. ShardsRight
  <2>1. \A s \in Shards : shard[s].order = <<>> /\ shard[s].cap \in Nat
    BY <1>1 DEF CacheInit
  <2>2. \A s : Good(<<>>, s, seen)
    BY DEF Good
  <2> QED BY <2>1, <2>2 DEF ShardsRight, Room
<1>4. ReadersRight
  BY DEF CacheInit, ReadersRight, ReaderRight
<1> QED BY <1>2, <1>3, <1>4 DEF CacheInv

\* One reader moves on and no shard changes.
LEMMA ReaderStep ==
  ASSUME CacheInv, NEW r \in Readers, NEW x, seen \subseteq seen', ReaderRight(x, seen'),
         reader' = [reader EXCEPT ![r] = x], shard' = shard, resize' = resize
  PROVE  CacheInv'
<1>1. Typed'
  BY DEF CacheInv, Typed
<1>2. ShardsRight'
  BY MetGrows DEF CacheInv, ShardsRight
<1>3. ReadersRight'
  <2>1. \A p \in Readers : reader'[p] = IF p = r THEN x ELSE reader[p]
    BY DEF CacheInv, Typed
  <2> QED BY <2>1, MetGrows DEF CacheInv, ReadersRight
<1> QED BY <1>1, <1>2, <1>3 DEF CacheInv

\* One shard changes, within its rules.
LEMMA ShardStep ==
  ASSUME CacheInv, NEW s \in Shards, NEW c \in [cap : Nat, order : Seq(Item)],
         Len(c.order) <= Room(c), Good(c.order, s, seen),
         shard' = [shard EXCEPT ![s] = c], seen' = seen
  PROVE  shard' \in [Shards -> [cap : Nat, order : Seq(Item)]] /\ ShardsRight'
<1>1. \A p \in Shards : shard'[p] = IF p = s THEN c ELSE shard[p]
  BY DEF CacheInv, Typed
<1>2. shard' \in [Shards -> [cap : Nat, order : Seq(Item)]]
  BY DEF CacheInv, Typed
<1>3. ShardsRight'
  BY <1>1 DEF CacheInv, ShardsRight, Room
<1> QED BY <1>2, <1>3

LEMMA LookupStep ==
  ASSUME CacheInv, NEW r \in Readers, NEW raw \in RawNames, NEW enc \in Encodings, Lookup(r, raw, enc)
  PROVE  CacheInv'
<1> DEFINE at == IF shard[ShardFor[raw]].cap = 0 THEN "missed" ELSE "lookup"
<1>1. reader' = [reader EXCEPT ![r] = Reading(at, raw, enc)] /\ shard' = shard /\ resize' = resize
  BY DEF Lookup
<1>2. seen \subseteq seen' /\ <<raw, enc>> \in seen' /\ at \in Working
  BY DEF Lookup, Working
<1>3. ReaderRight(Reading(at, raw, enc), seen')
  BY <1>2 DEF ReaderRight
<1> QED BY <1>1, <1>2, <1>3, ReaderStep

\* A reader that is at work has bytes that were met.
LEMMA AtWork ==
  ASSUME CacheInv, NEW r \in Readers, reader[r].at \in {"lookup", "missed", "store"}
  PROVE  /\ reader[r].raw \in RawNames /\ reader[r].enc \in Encodings
         /\ <<reader[r].raw, reader[r].enc>> \in seen
         /\ reader[r] = Reading(reader[r].at, reader[r].raw, reader[r].enc)
<1>1. ReaderRight(reader[r], seen)
  BY DEF CacheInv, ReadersRight
<1>2. reader[r] # Idle
  BY DEF Idle
<1>3. PICK raw \in RawNames, enc \in Encodings :
        /\ <<raw, enc>> \in seen
        /\ \/ \E at \in Working : reader[r] = Reading(at, raw, enc)
           \/ \E other \in Encodings : reader[r] = Read(raw, enc, Decoded(raw, other)) /\ <<raw, other>> \in seen
  BY <1>1, <1>2 DEF ReaderRight
<1>4. ~ \E other \in Encodings : reader[r] = Read(raw, enc, Decoded(raw, other))
  <2>1. \A other : Read(raw, enc, Decoded(raw, other)).at = "done"
    BY DEF Read
  <2> QED BY <2>1
<1>5. PICK at \in Working : reader[r] = Reading(at, raw, enc)
  BY <1>3, <1>4
<1> QED BY <1>3, <1>5 DEF Reading

LEMMA FindStep ==
  ASSUME CacheInv, NEW r \in Readers, Find(r)
  PROVE  CacheInv'
<1> DEFINE x == reader[r]
           s == ShardFor[x.raw]
           q == shard[s].order
           k == At(q, x.raw)
<1>1. x.at = "lookup" /\ seen' = seen /\ resize' = resize
  BY DEF Find
<1>2. x.raw \in RawNames /\ x.enc \in Encodings /\ <<x.raw, x.enc>> \in seen /\ x = Reading(x.at, x.raw, x.enc)
  BY <1>1, AtWork
<1>3. s \in Shards /\ shard[s] \in [cap : Nat, order : Seq(Item)] /\ Good(q, s, seen) /\ Len(q) <= Room(shard[s])
  BY <1>2, CacheAssumption DEF CacheInv, Typed, ShardsRight
<1>4. CASE Found(q, x.raw) # {}
  <2>1. /\ shard' = [shard EXCEPT ![s].order = <<q[k]>> \o RemoveAt(q, k)]
        /\ reader' = [reader EXCEPT ![r] = Read(x.raw, x.enc, q[k].name)]
    BY <1>4 DEF Find
  <2>2. k \in 1..Len(q) /\ q[k].key = x.raw /\ q \in Seq(Item)
    BY <1>3, <1>4, FoundRight
  <2>3. q[k] \in Item /\ ShardFor[q[k].key] = s /\ Sourced(q[k], seen)
    <3> HIDE DEF q, k, s
    <3> QED BY <1>3, <2>2 DEF Good
  <2> DEFINE n == <<q[k]>> \o RemoveAt(q, k)
             c == [shard[s] EXCEPT !.order = n]
  <2>4. Good(n, s, seen) /\ n \in Seq(Item) /\ Len(n) = Len(q)
    <3> HIDE DEF q, k, s
    <3>1. Good(RemoveAt(q, k), s, seen) /\ \A j \in 1..Len(RemoveAt(q, k)) : RemoveAt(q, k)[j].key # q[k].key
      BY <1>3, <2>2, RemoveGood
    <3>2. RemoveAt(q, k) \in Seq(Item) /\ Len(RemoveAt(q, k)) = Len(q) - 1 /\ Len(q) \in Nat
      BY <2>2, Removed
    <3>3. Good(n, s, seen)
      BY <2>3, <3>1, PushGood
    <3>4. n \in Seq(Item) /\ Len(n) = Len(RemoveAt(q, k)) + 1
      BY <2>3, <3>2, Pushed
    <3> QED BY <3>2, <3>3, <3>4
  <2>5. c \in [cap : Nat, order : Seq(Item)] /\ c.order = n /\ c.cap = shard[s].cap
    BY <1>3, <2>4
  <2>6. shard' = [shard EXCEPT ![s] = c]
    BY <1>3, <2>1 DEF CacheInv, Typed
  <2>7. shard' \in [Shards -> [cap : Nat, order : Seq(Item)]] /\ ShardsRight'
    <3> HIDE DEF c, n, s
    <3>1. Len(c.order) <= Room(c) /\ Good(c.order, s, seen)
      BY <1>3, <2>4, <2>5 DEF Room
    <3> QED BY <1>1, <1>3, <2>5, <2>6, <3>1, ShardStep
  <2>8. ReaderRight(Read(x.raw, x.enc, q[k].name), seen)
    BY <1>2, <2>2, <2>3 DEF ReaderRight, Sourced
  <2>9. ReadersRight'
    <3> HIDE DEF q, k, s
    <3>1. \A p \in Readers : reader'[p] = IF p = r THEN Read(x.raw, x.enc, q[k].name) ELSE reader[p]
      BY <2>1 DEF CacheInv, Typed
    <3> QED BY <1>1, <2>8, <3>1 DEF CacheInv, ReadersRight
  <2>10. reader' = [p \in Readers |-> reader'[p]]
    BY <2>1 DEF CacheInv, Typed
  <2> QED BY <1>1, <2>7, <2>9, <2>10 DEF CacheInv, Typed
<1>5. CASE Found(q, x.raw) = {}
  <2>1. reader' = [reader EXCEPT ![r].at = "missed"] /\ shard' = shard
    BY <1>5 DEF Find
  <2>2. reader' = [reader EXCEPT ![r] = Reading("missed", x.raw, x.enc)]
    <3>1. [x EXCEPT !.at = "missed"] = Reading("missed", x.raw, x.enc)
      BY <1>2 DEF Reading
    <3>2. reader' = [reader EXCEPT ![r] = [x EXCEPT !.at = "missed"]]
      BY <2>1
    <3> QED BY <3>1, <3>2
  <2>3. ReaderRight(Reading("missed", x.raw, x.enc), seen')
    BY <1>1, <1>2 DEF ReaderRight, Working
  <2> QED BY <1>1, <2>1, <2>2, <2>3, ReaderStep
<1> QED BY <1>4, <1>5

LEMMA DecodeStep ==
  ASSUME CacheInv, NEW r \in Readers, Decode(r)
  PROVE  CacheInv'
<1> DEFINE x == reader[r]
           y == IF x.enc = "u" /\ x.raw \in Odd THEN Reading("error", x.raw, x.enc)
                ELSE IF shard[ShardFor[x.raw]].cap = 0 THEN Read(x.raw, x.enc, Decoded(x.raw, x.enc))
                ELSE Reading("store", x.raw, x.enc)
<1>1. x.at = "missed" /\ reader' = [reader EXCEPT ![r] = y] /\ shard' = shard /\ resize' = resize /\ seen' = seen
  BY DEF Decode
<1>2. x.raw \in RawNames /\ x.enc \in Encodings /\ <<x.raw, x.enc>> \in seen
  BY <1>1, AtWork
<1>3. ReaderRight(y, seen')
  BY <1>1, <1>2 DEF ReaderRight, Working
<1> HIDE DEF y
<1> QED BY <1>1, <1>3, ReaderStep

LEMMA StoreStep ==
  ASSUME CacheInv, NEW r \in Readers, Store(r)
  PROVE  CacheInv'
<1> DEFINE x == reader[r]
           s == ShardFor[x.raw]
           c == Stored(shard[s], x.raw, Decoded(x.raw, x.enc))
           y == Read(x.raw, x.enc, Decoded(x.raw, x.enc))
<1>1. /\ x.at = "store" /\ seen' = seen /\ resize' = resize
      /\ shard' = [shard EXCEPT ![s] = Stored(@, x.raw, Decoded(x.raw, x.enc))]
      /\ reader' = [reader EXCEPT ![r] = y]
  BY DEF Store
<1>2. x.raw \in RawNames /\ x.enc \in Encodings /\ <<x.raw, x.enc>> \in seen
  BY <1>1, AtWork
<1>3. s \in Shards /\ shard[s] \in [cap : Nat, order : Seq(Item)] /\ Good(shard[s].order, s, seen) /\ Len(shard[s].order) <= Room(shard[s])
  BY <1>2, CacheAssumption DEF CacheInv, Typed, ShardsRight
<1>4. /\ c \in [cap : Nat, order : Seq(Item)] /\ Len(c.order) <= Room(c) /\ Good(c.order, s, seen)
      /\ shard' = [shard EXCEPT ![s] = c]
  BY <1>1, <1>2, <1>3, StoredGood
<1>5. ReaderRight(y, seen')
  BY <1>1, <1>2 DEF ReaderRight
<1> HIDE DEF c, s, y
<1>6. shard' \in [Shards -> [cap : Nat, order : Seq(Item)]] /\ ShardsRight'
  BY <1>1, <1>3, <1>4, ShardStep
<1>7. ReadersRight'
  <2>1. \A p \in Readers : reader'[p] = IF p = r THEN y ELSE reader[p]
    BY <1>1 DEF CacheInv, Typed
  <2> QED BY <1>1, <1>5, <2>1 DEF CacheInv, ReadersRight
<1>8. reader' = [p \in Readers |-> reader'[p]]
  BY <1>1 DEF CacheInv, Typed
<1> QED BY <1>1, <1>6, <1>7, <1>8 DEF CacheInv, Typed

LEMMA ResizeStep ==
  ASSUME CacheInv, NEW s \in Shards, ResizeShard(s)
  PROVE  CacheInv'
<1> DEFINE q == shard[s].order
           n == IF Len(q) > resize.cap THEN SubSeq(q, 1, resize.cap) ELSE q
           c == [cap |-> resize.cap, order |-> n]
<1>1. shard[s] \in [cap : Nat, order : Seq(Item)] /\ Good(q, s, seen) /\ resize.cap \in Nat /\ resize.left \in SUBSET Shards
  BY DEF CacheInv, Typed, ShardsRight
<1>2. /\ shard' = [shard EXCEPT ![s] = c] /\ resize' = [resize EXCEPT !.left = @ \ {s}]
      /\ reader' = reader /\ seen' = seen
  BY DEF ResizeShard
<1>3. Good(n, s, seen) /\ Len(n) <= resize.cap /\ n \in Seq(Item)
  <2> HIDE DEF q
  <2>1. q \in Seq(Item)
    BY <1>1 DEF Good
  <2>2. CASE Len(q) > resize.cap
    <3>1. resize.cap \in 0..Len(q)
      BY <1>1, <2>1, <2>2
    <3>2. Good(SubSeq(q, 1, resize.cap), s, seen) /\ Len(SubSeq(q, 1, resize.cap)) = resize.cap
      BY <1>1, <3>1, PrefixGood
    <3> QED BY <1>1, <2>2, <3>2 DEF Good
  <2>3. CASE ~(Len(q) > resize.cap)
    BY <1>1, <2>1, <2>3
  <2> QED BY <2>2, <2>3
<1> HIDE DEF n
<1>4. c \in [cap : Nat, order : Seq(Item)] /\ Len(c.order) <= Room(c) /\ Good(c.order, s, seen)
  BY <1>1, <1>3 DEF Room
<1> HIDE DEF c
<1>5. shard' \in [Shards -> [cap : Nat, order : Seq(Item)]] /\ ShardsRight'
  BY <1>2, <1>4, ShardStep
<1>6. resize' \in [cap : Nat, left : SUBSET Shards]
  BY <1>2 DEF CacheInv, Typed
<1> QED BY <1>2, <1>5, <1>6 DEF CacheInv, Typed, ReadersRight

LEMMA ResetStep ==
  ASSUME CacheInv, Reset
  PROVE  CacheInv'
<1>1. \A s \in Shards : shard'[s] = [shard[s] EXCEPT !.order = <<>>]
  BY DEF Reset
<1>2. \A s \in Shards : shard[s] \in [cap : Nat, order : Seq(Item)]
  BY DEF CacheInv, Typed
<1>3. ASSUME NEW s \in Shards
      PROVE  shard'[s] \in [cap : Nat, order : Seq(Item)] /\ shard'[s].order = <<>> /\ shard'[s].cap \in Nat
  <2>1. shard[s] \in [cap : Nat, order : Seq(Item)] /\ <<>> \in Seq(Item)
    BY <1>2
  <2> QED BY <1>1, <2>1
<1>4. shard' \in [Shards -> [cap : Nat, order : Seq(Item)]]
  BY <1>3 DEF Reset
<1>5. ShardsRight'
  <2>1. \A s : Good(<<>>, s, seen')
    BY DEF Good
  <2> QED BY <1>3, <2>1 DEF ShardsRight, Room
<1> QED BY <1>4, <1>5 DEF CacheInv, Typed, ReadersRight, Reset

LEMMA NextRight ==
  ASSUME CacheInv, [CacheNext]_cvars
  PROVE  CacheInv'
<1>1. CASE \E r \in Readers : Find(r)
  BY <1>1, FindStep
<1>2. CASE \E r \in Readers : Decode(r)
  BY <1>2, DecodeStep
<1>3. CASE \E r \in Readers : Store(r)
  BY <1>3, StoreStep
<1>4. CASE \E r \in Readers, raw \in RawNames, enc \in {"c", "u"} : Lookup(r, raw, enc)
  BY <1>4, LookupStep DEF Encodings
<1>5. ASSUME NEW n \in Capacities, SetCapacity(n) PROVE CacheInv'
  <2>1. PerShard(n) \in Nat
    BY PerShardNat, CacheAssumption
  <2> QED BY <1>5, <2>1 DEF SetCapacity, CacheInv, Typed, ShardsRight, ReadersRight
<1>6. CASE \E s \in Shards : ResizeShard(s)
  BY <1>6, ResizeStep
<1>7. CASE Reset
  BY <1>7, ResetStep
<1>8. CASE UNCHANGED cvars
  BY <1>8 DEF cvars, CacheInv, Typed, ShardsRight, ReadersRight
<1> QED BY <1>1, <1>2, <1>3, <1>4, <1>5, <1>6, <1>7, <1>8 DEF CacheNext

\* The invariant gives what the cache promises.
LEMMA RightFollows ==
  ASSUME CacheInv
  PROVE  CacheRight
<1>1. NamesRight
  <2> SUFFICES ASSUME NEW r \in Readers, reader[r].at = "done"
               PROVE  \/ reader[r].name = Decoded(reader[r].raw, reader[r].enc)
                      \/ {e \in {"c", "u"} : <<reader[r].raw, e>> \in seen} = {"c", "u"}
    BY DEF NamesRight
  <2>1. ReaderRight(reader[r], seen) /\ reader[r] # Idle
    BY DEF CacheInv, ReadersRight, Idle
  <2>2. PICK raw \in RawNames, enc \in Encodings :
          /\ <<raw, enc>> \in seen
          /\ \/ \E at \in Working : reader[r] = Reading(at, raw, enc)
             \/ \E other \in Encodings : reader[r] = Read(raw, enc, Decoded(raw, other)) /\ <<raw, other>> \in seen
    BY <2>1 DEF ReaderRight
  <2>3. ~ \E at \in Working : reader[r] = Reading(at, raw, enc)
    BY DEF Reading, Working
  <2>4. PICK other \in Encodings : reader[r] = Read(raw, enc, Decoded(raw, other)) /\ <<raw, other>> \in seen
    BY <2>2, <2>3
  <2>5. reader[r].raw = raw /\ reader[r].enc = enc /\ reader[r].name = Decoded(raw, other)
    BY <2>4 DEF Read
  <2>6. CASE other = enc
    BY <2>5, <2>6
  <2>7. CASE other # enc
    <3>1. <<raw, "c">> \in seen /\ <<raw, "u">> \in seen
      BY <2>2, <2>4, <2>7 DEF Encodings
    <3> QED BY <2>5, <3>1
  <2> QED BY <2>6, <2>7
<1>2. CacheBounded
  <2>1. ASSUME NEW s \in Shards
        PROVE  /\ shard[s].order \in Seq(Item) /\ Len(shard[s].order) <= Room(shard[s])
               /\ Good(shard[s].order, s, seen)
    BY DEF CacheInv, Typed, ShardsRight
  <2>2. ASSUME NEW s \in Shards PROVE DOMAIN shard[s].order = 1..Len(shard[s].order)
    BY <2>1
  <2> QED BY <2>1, <2>2 DEF CacheBounded, Good
<1> QED BY <1>1, <1>2 DEF CacheRight

\* Whatever readers decode, store and evict, and whoever resizes or resets the
\* cache between their steps: as long as bytes are met in one encoding, lookup
\* and store give each reader the name its bytes stand for; and a shard holds a
\* name once, in its own shard, within its capacity.
THEOREM CacheIsRight == CacheSpec => []CacheRight
<1>1. CacheInit => CacheInv
  BY InitRight
<1>2. CacheInv /\ [CacheNext]_cvars => CacheInv'
  BY NextRight
<1>3. CacheInv => CacheRight
  BY RightFollows
<1> QED BY <1>1, <1>2, <1>3, PTL DEF CacheSpec

-----------------------------------------------------------------------------
(* The index. *)

IndexInv == TypeOK /\ LookupRight
-----------------------------------------------------------------------------
\* Keys made of names are keys of the maps.
LEMMA KeysMade ==
  /\ \A n \in Name : ToLower[n] \in Text /\ LowerASCII[n] \in Text /\ LowerASCII[FileBytes[n]] \in Text
  /\ \A k \in Kind, p \in Parent, n \in Name : Abs!makeKey(k, p, n) \in Abs!Keys
  /\ \A k \in Kind, p \in Parent, s \in Text : makeNumericKey(k, p, s) \in NumericKeys
  BY NameAssumption DEF Abs!Keys, Abs!makeKey, NumericKeys

\* Adding, replacing and removing set one entry of each map: for a name that the
\* operation is not mistaken for, either both are its own or neither is.
LEMMA UpdateRight ==
  ASSUME IndexInv,
         NEW k \in Kind, NEW p \in Parent, NEW m \in Name, NEW v \in Offset \cup {None},
         NEW s \in Text, Hash[s] \in StoredBy(m),
         entries' = [entries EXCEPT ![makeNumericKey(k, p, s)] = v],
         bound' = [bound EXCEPT ![Abs!makeKey(k, p, m)] = v],
         touched' = touched \cup {<<k, p, m>>}
  PROVE  IndexInv'
<1>1. makeNumericKey(k, p, s) \in NumericKeys /\ Abs!makeKey(k, p, m) \in Abs!Keys
  BY KeysMade
<1>2. TypeOK'
  BY <1>1 DEF IndexInv, TypeOK
<1>3. ASSUME NEW k2 \in Kind, NEW p2 \in Parent, NEW n \in Name
      PROVE  \/ GetEntry(k2, p2, n)' = Abs!Get(k2, p2, n)'
             \/ \E m2 \in Name : <<k2, p2, m2>> \in touched' /\ Mistaken(m2, n)
  <2>1. makeNumericKey(k2, p2, LowerASCII[n]) \in DOMAIN entries /\ Abs!makeKey(k2, p2, n) \in DOMAIN bound
    BY KeysMade DEF IndexInv, TypeOK
  <2>2. \/ GetEntry(k2, p2, n) = Abs!Get(k2, p2, n)
        \/ \E m2 \in Name : <<k2, p2, m2>> \in touched' /\ Mistaken(m2, n)
    BY DEF IndexInv, LookupRight
  <2>3. CASE k2 = k /\ p2 = p /\ Mistaken(m, n)
    BY <2>3
  <2>4. CASE k2 = k /\ p2 = p /\ ~Mistaken(m, n)
    <3>1. (Hash[s] = Hash[LowerASCII[n]]) <=> (ToLower[m] = ToLower[n])
      BY <2>4 DEF Mistaken, SoughtBy
    <3>2. CASE ToLower[m] = ToLower[n]
      <4>1. makeNumericKey(k2, p2, LowerASCII[n]) = makeNumericKey(k, p, s)
            /\ Abs!makeKey(k2, p2, n) = Abs!makeKey(k, p, m)
        BY <2>4, <3>1, <3>2 DEF makeNumericKey, Abs!makeKey
      <4> QED BY <2>1, <4>1 DEF GetEntry, Abs!Get
    <3>3. CASE ToLower[m] # ToLower[n]
      <4>1. makeNumericKey(k2, p2, LowerASCII[n]) # makeNumericKey(k, p, s)
            /\ Abs!makeKey(k2, p2, n) # Abs!makeKey(k, p, m)
        BY <3>1, <3>3 DEF makeNumericKey, Abs!makeKey
      <4> QED BY <2>1, <2>2, <4>1 DEF GetEntry, Abs!Get
    <3> QED BY <3>2, <3>3
  <2>5. CASE ~(k2 = k /\ p2 = p)
    <3>1. makeNumericKey(k2, p2, LowerASCII[n]) # makeNumericKey(k, p, s)
          /\ Abs!makeKey(k2, p2, n) # Abs!makeKey(k, p, m)
      BY <2>5 DEF makeNumericKey, Abs!makeKey
    <3> QED BY <2>1, <2>2, <3>1 DEF GetEntry, Abs!Get
  <2> QED BY <2>3, <2>4, <2>5
<1> QED BY <1>2, <1>3 DEF IndexInv, LookupRight

\* Both maps are empty.
LEMMA EmptyRight ==
  ASSUME NEW k \in Kind, NEW p \in Parent, NEW n \in Name
  PROVE  [x \in NumericKeys |-> None][makeNumericKey(k, p, LowerASCII[n])]
         = [x \in Abs!Keys |-> None][Abs!makeKey(k, p, n)]
  BY KeysMade

LEMMA IndexStep ==
  ASSUME IndexInv, [NumericNext]_indexVars
  PROVE  IndexInv'
<1>1. ASSUME NEW k \in Kind, NEW p \in Parent, NEW n \in Name, NEW o \in Offset, AddEntry(k, p, n, o)
      PROVE  IndexInv'
  <2>1. ToLower[n] \in Text /\ Hash[ToLower[n]] \in StoredBy(n)
    BY KeysMade DEF StoredBy
  <2> QED BY <1>1, <2>1, UpdateRight DEF AddEntry, Abs!Add, Touch
<1>2. ASSUME NEW k \in Kind, NEW p \in Parent, NEW n \in Name, NEW o \in Offset, AddHash(k, p, n, o)
      PROVE  IndexInv'
  <2>1. LowerASCII[FileBytes[n]] \in Text /\ Hash[LowerASCII[FileBytes[n]]] \in StoredBy(n)
    BY KeysMade DEF StoredBy
  <2> QED BY <1>2, <2>1, UpdateRight DEF AddHash, Abs!Add, Touch
<1>3. ASSUME NEW k \in Kind, NEW p \in Parent, NEW n \in Name, RemoveEntry(k, p, n)
      PROVE  IndexInv'
  <2>1. LowerASCII[n] \in Text /\ Hash[LowerASCII[n]] \in StoredBy(n)
    BY KeysMade DEF StoredBy
  <2> QED BY <1>3, <2>1, UpdateRight DEF RemoveEntry, Abs!Remove, Touch
<1>4. CASE ResetEntries
  <2>1. TypeOK'
    BY <1>4 DEF ResetEntries, Abs!Reset, TypeOK
  <2>2. LookupRight'
    BY <1>4, EmptyRight DEF ResetEntries, Abs!Reset, LookupRight, GetEntry, Abs!Get
  <2> QED BY <2>1, <2>2 DEF IndexInv
<1>5. CASE UNCHANGED indexVars
  BY <1>5 DEF indexVars, IndexInv, TypeOK, LookupRight, GetEntry, Abs!Get
<1> QED BY <1>1, <1>2, <1>3, <1>4, <1>5 DEF NumericNext
-----------------------------------------------------------------------------
\* Whatever the hash function, the names and the ways to lower them: GetNK and
\* GetVK return the cell last added under the name, in any case, and nothing
\* once it was removed, unless an operation under the same parent was on a name
\* that can be mistaken for it, or it for another.
THEOREM LookupsRight == NumericSpec => []LookupRight
<1>1. NumericInit => IndexInv
  BY EmptyRight DEF NumericInit, Abs!IndexInit, IndexInv, TypeOK, LookupRight, GetEntry, Abs!Get
<1>2. IndexInv /\ [NumericNext]_indexVars => IndexInv'
  BY IndexStep
<1> QED BY <1>1, <1>2, PTL DEF NumericSpec, IndexInv
=============================================================================
