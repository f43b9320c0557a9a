----------------------------- MODULE AllocProofs -----------------------------
(***************************************************************************)
(* Proofs about the allocator (FastAlloc, AllocModes), for every page      *)
(* size, table of size classes, limit of the file and choice of requests:  *)
(* while every request has a size class and no batch asked for more than   *)
(* its region holds, it implements CellStore, its free lists and end index are   *)
(* what a scan of the file finds, a walk by cell headers meets every       *)
(* allocated cell, and verify.AllInvariants (HiveVerify) accepts the hive  *)
(* between any two calls.                                                  *)
(***************************************************************************)
EXTENDS HiveVerify, TLAPS, WellFoundedInduction

\* The offsets at which a cell header is, and where a cell lies in a bin.
Heads(W) == {o \in Offset : W[o] # 0 /\ W[o] # HbinSignature}
Within(W, o, b) == b.start + HbinHeader <= o /\ o + Abs(W[o]) <= b.end

\* Bins lie apart, each has room for a cell.
Bin == [start : Offset, end : Offset]
BinsRight(B, end) ==
  /\ B \subseteq Bin /\ end \in Offset
  /\ \A b \in B : PageSize <= b.start /\ b.start + HbinHeader < b.end /\ b.end <= end
  /\ \A b, d \in B : b = d \/ b.end <= d.start \/ d.end <= b.start

\* Cells lie in the bins, one after the other from the first one on: a cell is
\* the first of its bin or begins where another ends.  What follows the last
\* cell is a row of zeros, left by a process that died in a bump batch.
Laid(W, B) ==
  /\ W \in [Offset -> Int]
  /\ \A o \in Offset : W[o] = HbinSignature <=> \E b \in B : b.start = o
  /\ \A o \in Heads(W) : \E b \in B : Within(W, o, b)
  /\ \A o, p \in Heads(W) : o < p => o + Abs(W[o]) <= p
  /\ \A o \in Heads(W) : \/ \E b \in B : o = b.start + HbinHeader
                         \/ \E p \in Heads(W) : p + Abs(W[p]) = o

\* No two free cells touch.
Merged(W) == \A o, p \in Heads(W) : W[o] > 0 /\ W[p] > 0 => o + W[o] # p

LiveOf(W) == {Cell(o, -W[o]) : o \in {h \in Heads(W) : W[h] < 0}}
FreeOf(W) == {Cell(o, W[o]) : o \in {h \in Heads(W) : W[h] > 0}}

\* The ways headers are written: one header, a cell cut in two, two cells
\* joined, an HBIN appended, and the file cut off.
Put(W, V, o, v) == V = [W EXCEPT ![o] = v]
Split(W, V, o, n) == V = [W EXCEPT ![o] = -n, ![o + n] = W[o] - n]
Join(W, V, p, q) == V = [W EXCEPT ![p] = W[p] + W[q], ![q] = 0]
AppendAt(W, V, end, size) ==
  V = [W EXCEPT ![end] = HbinSignature, ![end + HbinHeader] = size - HbinHeader]
MoreBins(B, D, end, size) == D = B \cup {[start |-> end, end |-> end + size]}
Cut(W, V, end) == V = [o \in Offset |-> IF o < end THEN W[o] ELSE 0]
FewerBins(B, D, end) == D = {b \in B : b.start < end}

\* The end index has the ends of the free cells and nothing else.
IdxRight(E, F) ==
  /\ E \in [Offset -> Int]
  /\ \A e \in Offset : /\ \A c \in F : End(c) = e => E[e] = c.off
                       /\ (\A c \in F : End(c) # e) => E[e] = 0
\* The index without the entry of a cell.
Drop(E, c) == [E EXCEPT ![End(c)] = 0]
-----------------------------------------------------------------------------
(***************************************************************************)
(* Numbers.                                                                *)
(***************************************************************************)
LEMMA Smallest ==
  ASSUME NEW S, S \subseteq Nat, S # {}
  PROVE  \E m \in S : \A k \in S : m <= k
<1>1. IsWellFoundedOn(OpToRel(<, Nat), Nat)
  BY NatLessThanWellFounded
<1>2. PICK m \in S : \A k \in S : <<k, m>> \notin OpToRel(<, Nat)
  BY <1>1, WFMin
<1>3. \A k \in S : ~(k < m)
  BY <1>2 DEF OpToRel
<1> QED BY <1>3

LEMMA Constants ==
  /\ PageSize \in Nat /\ HbinHeader \in Nat /\ 0 < HbinHeader /\ HbinHeader < PageSize /\ MaxHive \in Nat
  /\ HbinSignature = MaxHive + 1 /\ Offset = 0..MaxHive
  BY AllocAssumption DEF HbinSignature, Offset

\* An HBIN has room for what it is made for.
LEMMA Aligned ==
  ASSUME NEW x \in Nat
  PROVE  AlignHBIN(x) \in Nat /\ x <= AlignHBIN(x) /\ (x = HbinHeader => x < AlignHBIN(x))
<1> DEFINE r == (-x) % PageSize
<1>1. PageSize \in Nat \ {0} /\ -x \in Int
  BY Constants
<1>2. r \in 0..(PageSize - 1) /\ r = (-x) - PageSize * ((-x) \div PageSize) /\ (-x) \div PageSize \in Int
  BY <1>1
<1>3. AlignHBIN(x) = x + r
  BY DEF AlignHBIN
<1>4. ASSUME x = HbinHeader PROVE r # 0
  <2> SUFFICES ASSUME r = 0 PROVE FALSE
    OBVIOUS
  <2> DEFINE q == (-x) \div PageSize
  <2>1. q \in Int /\ -x = PageSize * q
    <3> DEFINE m == PageSize * q
    <3>1. q \in Int /\ m \in Int /\ r = (-x) - m
      BY <1>1, <1>2
    <3> HIDE DEF r, q, m
    <3>2. -x = m
      BY <3>1
    <3> QED BY <3>1, <3>2 DEF m
  <2>2. 0 < x /\ x < PageSize
    BY <1>4, Constants
  <2> HIDE DEF q
  <2>3. CASE q >= 0
    <3>1. PageSize * q >= 0
      BY <1>1, <2>1, <2>3
    <3> QED BY <2>1, <2>2, <3>1
  <2>4. CASE q < 0
    <3>1. PageSize * q <= -PageSize
      <4>1. q + 1 <= 0
        BY <2>1, <2>4
      <4>2. PageSize * (q + 1) <= 0
        BY <1>1, <2>1, <4>1
      <4>3. PageSize * (q + 1) = PageSize * q + PageSize
        BY <1>1, <2>1
      <4>4. PageSize * q \in Int
        BY <1>1, <2>1
      <4> QED BY <1>1, <4>2, <4>3, <4>4
    <3> QED BY <1>1, <2>1, <2>2, <3>1
  <2> QED BY <2>1, <2>3, <2>4
<1> HIDE DEF r
<1> QED BY <1>1, <1>2, <1>3, <1>4

LEMMA GrowFits ==
  ASSUME NEW n \in Nat \ {0}
  PROVE  GrowSize(n) \in Nat /\ n + HbinHeader <= GrowSize(n)
<1> DEFINE g == GrowFactor * n
<1>1. g \in Nat /\ n <= g
  <2>1. GrowFactor \in Nat \ {0}
    BY AllocAssumption
  <2>2. GrowFactor - 1 \in Nat
    BY <2>1
  <2>3. (GrowFactor - 1) * n \in Nat
    BY <2>2
  <2>4. GrowFactor * n = (GrowFactor - 1) * n + n
    BY <2>1
  <2> QED BY <2>3, <2>4
<1>2. g + HbinHeader \in Nat
  BY <1>1, Constants
<1>3. GrowSize(n) = AlignHBIN(g + HbinHeader)
  BY DEF GrowSize
<1> HIDE DEF g
<1> QED BY <1>1, <1>2, <1>3, Aligned, Constants
-----------------------------------------------------------------------------
(***************************************************************************)
(* What follows from a layout.                                             *)
(***************************************************************************)
\* The numbers at and about a header.
LEMMA HeadFacts ==
  ASSUME NEW W, NEW B, NEW end, BinsRight(B, end), Laid(W, B), NEW o \in Heads(W)
  PROVE  /\ o \in Nat /\ o <= MaxHive /\ W[o] \in Int /\ W[o] # 0 /\ Abs(W[o]) \in Nat /\ Abs(W[o]) > 0
         /\ PageSize + HbinHeader <= o /\ o + Abs(W[o]) <= end
         /\ W[o] > 0 => Abs(W[o]) = W[o]
         /\ W[o] < 0 => Abs(W[o]) = -W[o]
<1>1. o \in Offset /\ W[o] \in Int /\ W[o] # 0
  BY DEF Heads, Laid
<1>2. PICK b \in B : Within(W, o, b)
  BY DEF Laid
<1>3. b.start \in Int /\ b.end \in Int /\ end \in Int /\ PageSize <= b.start /\ b.end <= end
  BY Constants DEF BinsRight, Bin
<1>4. Abs(W[o]) \in Nat /\ Abs(W[o]) > 0 /\ (W[o] > 0 => Abs(W[o]) = W[o]) /\ (W[o] < 0 => Abs(W[o]) = -W[o])
  BY <1>1 DEF Abs
<1> QED BY <1>1, <1>2, <1>3, <1>4, Constants DEF Within
\* The numbers of a bin; a place lies in one bin only.
LEMMA BinFacts ==
  ASSUME NEW B, NEW end, BinsRight(B, end), NEW b \in B
  PROVE  /\ b.start \in Nat /\ b.end \in Nat /\ end \in Nat /\ end <= MaxHive
         /\ PageSize <= b.start /\ b.start + HbinHeader < b.end /\ b.end <= end
  BY Constants DEF BinsRight, Bin

LEMMA OneBin ==
  ASSUME NEW B, NEW end, BinsRight(B, end), NEW b \in B, NEW d \in B, NEW x \in Int,
         b.start <= x, x < b.end, d.start <= x, x < d.end
  PROVE  b = d
<1>1. b.start \in Nat /\ b.end \in Nat /\ d.start \in Nat /\ d.end \in Nat
  BY BinFacts
<1> QED BY <1>1 DEF BinsRight

\* The bin of a cell, and the cell it follows if it is not the first.
LEMMA HeadBin ==
  ASSUME NEW W, NEW B, NEW end, BinsRight(B, end), Laid(W, B), NEW o \in Heads(W),
         NEW b \in B, b.start <= o, o < b.end
  PROVE  Within(W, o, b)
<1>1. PICK d \in B : Within(W, o, d)
  BY DEF Laid
<1>2. o \in Nat /\ Abs(W[o]) \in Nat /\ Abs(W[o]) > 0
  BY HeadFacts
<1>3. d.start \in Nat /\ d.end \in Nat /\ HbinHeader \in Nat
  BY BinFacts, Constants
<1>4. d.start <= o /\ o < d.end
  BY <1>1, <1>2, <1>3 DEF Within
<1>5. b = d
  BY <1>2, <1>4, OneBin
<1> QED BY <1>1, <1>5

LEMMA Predecessor ==
  ASSUME NEW W, NEW B, NEW end, BinsRight(B, end), Laid(W, B), NEW b \in B,
         NEW o \in Heads(W), Within(W, o, b), o # b.start + HbinHeader
  PROVE  \E p \in Heads(W) : p + Abs(W[p]) = o /\ Within(W, p, b)
<1>1. /\ o \in Nat /\ Abs(W[o]) \in Nat /\ Abs(W[o]) > 0
      /\ b.start \in Nat /\ b.end \in Nat /\ HbinHeader \in Nat /\ HbinHeader > 0
  BY HeadFacts, BinFacts, Constants
<1>2. ~ \E d \in B : o = d.start + HbinHeader
  <2> SUFFICES ASSUME NEW d \in B, o = d.start + HbinHeader PROVE FALSE
    OBVIOUS
  <2>1. d.start \in Nat /\ d.end \in Nat /\ d.start + HbinHeader < d.end
    BY BinFacts
  <2>2. b = d
    <3>1. b.start <= o /\ o < b.end /\ d.start <= o /\ o < d.end
      BY <1>1, <2>1 DEF Within
    <3> QED BY <1>1, <3>1, OneBin
  <2> QED BY <2>2
<1>3. PICK p \in Heads(W) : p + Abs(W[p]) = o
  BY <1>2 DEF Laid
<1>4. PICK d \in B : Within(W, p, d)
  BY DEF Laid
<1>5. /\ p \in Nat /\ Abs(W[p]) \in Nat /\ Abs(W[p]) > 0
      /\ d.start \in Nat /\ d.end \in Nat
  BY HeadFacts, BinFacts
<1>6. b.end <= d.start \/ d.end <= b.start \/ b = d
  BY DEF BinsRight
<1>7. b = d
  BY <1>1, <1>3, <1>4, <1>5, <1>6 DEF Within
<1> QED BY <1>3, <1>4, <1>7

\* Inside a cell the words are 0.
LEMMA InsideZero ==
  ASSUME NEW W, NEW B, NEW end, BinsRight(B, end), Laid(W, B), NEW o \in Heads(W),
         NEW x \in Int, o < x, x < o + Abs(W[o])
  PROVE  x \in Offset /\ x \notin Heads(W) /\ W[x] = 0
<1>1. o \in Nat /\ Abs(W[o]) \in Nat /\ o + Abs(W[o]) <= end /\ end \in Nat /\ end <= MaxHive
  <2>1. end \in Nat /\ end <= MaxHive
    BY Constants DEF BinsRight
  <2> QED BY <2>1, HeadFacts
<1>2. x \in Offset
  BY <1>1, Constants
<1>3. x \notin Heads(W)
  BY <1>1 DEF Laid
<1>4. W[x] # HbinSignature
  <2> SUFFICES ASSUME W[x] = HbinSignature PROVE FALSE
    OBVIOUS
  <2>1. PICK d \in B : d.start = x
    BY <1>2 DEF Laid
  <2>2. PICK b \in B : Within(W, o, b)
    BY DEF Laid
  <2>3. d.start \in Nat /\ d.end \in Nat /\ b.start \in Nat /\ b.end \in Nat /\ d.start < d.end /\ HbinHeader \in Nat
    <3>1. d.start \in Nat /\ d.end \in Nat /\ b.start \in Nat /\ b.end \in Nat /\ d.start + HbinHeader < d.end
      BY BinFacts
    <3> QED BY <3>1, Constants
  <2>4. b.start <= x /\ x < b.end /\ d.start <= x /\ x < d.end
    BY <1>1, <2>1, <2>2, <2>3 DEF Within
  <2>5. b = d
    BY <2>4, OneBin
  <2>6. b.start < x
    BY <1>1, <2>2, <2>3 DEF Within
  <2> QED BY <2>1, <2>3, <2>5, <2>6
<1> QED BY <1>2, <1>3, <1>4 DEF Heads
-----------------------------------------------------------------------------
(***************************************************************************)
(* What each way of writing headers does to a layout.                      *)
(***************************************************************************)
\* A header is written where no other cell is: one more cell, or the cell that
\* is there is marked otherwise or, as the last one of its bin, made smaller.
LEMMA PutHead ==
  ASSUME NEW W, NEW B, NEW end, BinsRight(B, end), Laid(W, B),
         NEW o \in Offset, NEW v \in Int, v # 0, W[o] # HbinSignature, NEW V, Put(W, V, o, v),
         NEW b \in B, b.start + HbinHeader <= o, o + Abs(v) <= b.end,
         \A p \in Heads(W) : (p < o => p + Abs(W[p]) <= o) /\ (o < p => o + Abs(v) <= p),
         o = b.start + HbinHeader \/ \E p \in Heads(W) : p + Abs(W[p]) = o,
         o \in Heads(W) => Abs(v) = Abs(W[o]) \/ o + Abs(W[o]) \notin Heads(W)
  PROVE  /\ Laid(V, B) /\ Heads(V) = Heads(W) \cup {o}
         /\ V[o] = v /\ \A p \in Offset : p # o => V[p] = W[p]
<1>1. W \in [Offset -> Int] /\ V \in [Offset -> Int] /\ V[o] = v /\ \A p \in Offset : p # o => V[p] = W[p]
  BY DEF Laid, Put
<1>2. /\ b.start \in Nat /\ b.end \in Nat /\ b.end <= MaxHive /\ Abs(v) \in Nat /\ Abs(v) > 0
      /\ v # HbinSignature /\ o \in Nat
  <2>1. b.start \in Nat /\ b.end \in Nat /\ end \in Nat /\ end <= MaxHive /\ b.end <= end
    BY BinFacts
  <2>2. Abs(v) \in Nat /\ Abs(v) > 0 /\ v <= Abs(v)
    BY DEF Abs
  <2> QED BY <2>1, <2>2, Constants
<1>3. Heads(V) = Heads(W) \cup {o}
  BY <1>1, <1>2 DEF Heads
<1>4. \A p \in Offset : V[p] = HbinSignature <=> \E d \in B : d.start = p
  BY <1>1, <1>2 DEF Laid
<1>5. \A p \in Heads(W) : p \in Offset /\ p \in Nat /\ Abs(W[p]) \in Nat /\ Abs(W[p]) > 0
  BY HeadFacts DEF Heads
<1>6. ASSUME NEW p \in Heads(V) PROVE \E d \in B : Within(V, p, d)
  <2>1. CASE p = o
    BY <1>1, <2>1 DEF Within
  <2>2. CASE p # o
    <3>1. p \in Heads(W) /\ V[p] = W[p]
      BY <1>1, <1>3, <1>5, <2>2
    <3> QED BY <3>1 DEF Laid, Within
  <2> QED BY <2>1, <2>2
<1>7. ASSUME NEW p \in Heads(V), NEW q \in Heads(V), p < q PROVE p + Abs(V[p]) <= q
  <2>1. CASE p # o /\ q # o
    BY <1>1, <1>3, <1>5, <1>7, <2>1 DEF Laid
  <2>2. CASE p = o
    <3>1. q \in Heads(W)
      <4>1. q # o
        BY <1>2, <1>7, <2>2
      <4> QED BY <1>3, <4>1
    <3> QED BY <1>1, <1>7, <2>2, <3>1
  <2>3. CASE p # o /\ q = o
    <3>1. p \in Heads(W) /\ V[p] = W[p]
      BY <1>1, <1>3, <1>5, <2>3
    <3> QED BY <1>7, <2>3, <3>1
  <2> QED BY <2>1, <2>2, <2>3
<1>8. ASSUME NEW p \in Heads(V)
      PROVE  (\E d \in B : p = d.start + HbinHeader) \/ \E q \in Heads(V) : q + Abs(V[q]) = p
  <2>1. (\E d \in B : p = d.start + HbinHeader) \/ \E q \in Heads(W) : q + Abs(W[q]) = p
    BY <1>3 DEF Laid
  <2>2. ASSUME NEW q \in Heads(W), q + Abs(W[q]) = p PROVE \E r \in Heads(V) : r + Abs(V[r]) = p
    <3>1. CASE q # o
      BY <1>1, <1>3, <1>5, <2>2, <3>1
    <3>2. CASE q = o
      <4>1. p # o
        BY <1>5, <2>2, <3>2
      <4>2. p \in Heads(W)
        BY <1>3, <4>1
      <4>3. Abs(v) = Abs(W[o])
        BY <2>2, <3>2, <4>2
      <4> QED BY <1>1, <1>3, <2>2, <3>2, <4>3
    <3> QED BY <3>1, <3>2
  <2> QED BY <2>1, <2>2
<1>9. Laid(V, B)
  BY <1>1, <1>4, <1>6, <1>7, <1>8 DEF Laid
<1> QED BY <1>1, <1>3, <1>9

\* A free cell is cut in two: the front is allocated.
LEMMA SplitHead ==
  ASSUME NEW W, NEW B, NEW end, BinsRight(B, end), Laid(W, B),
         NEW o \in Heads(W), NEW n \in Nat, 0 < n, n < W[o],
         NEW V, Split(W, V, o, n)
  PROVE  /\ Laid(V, B) /\ Heads(V) = Heads(W) \cup {o + n} /\ o + n \in Offset /\ o + n \notin Heads(W)
         /\ V[o] = -n /\ V[o + n] = W[o] - n /\ \A p \in Offset : p # o /\ p # o + n => V[p] = W[p]
<1> DEFINE m == o + n
<1>1. /\ o \in Nat /\ o \in Offset /\ W[o] \in Int /\ Abs(W[o]) = W[o] /\ o + W[o] <= end
      /\ end \in Nat /\ end <= MaxHive
  <2>1. end \in Nat /\ end <= MaxHive
    BY Constants DEF BinsRight
  <2>2. W[o] \in Int /\ o \in Offset
    BY DEF Heads, Laid
  <2>3. W[o] > 0
    BY <2>2
  <2> QED BY <2>1, <2>2, <2>3, HeadFacts
<1>2. m \in Int /\ o < m /\ m < o + Abs(W[o])
  BY <1>1
<1>3. m \in Offset /\ m \notin Heads(W) /\ W[m] = 0
  BY <1>2, InsideZero
<1>4. /\ W \in [Offset -> Int] /\ V \in [Offset -> Int] /\ V[o] = -n /\ V[m] = W[o] - n
      /\ \A p \in Offset : p # o /\ p # m => V[p] = W[p]
  BY <1>1, <1>2, <1>3 DEF Laid, Split
<1>5. /\ -n # 0 /\ -n # HbinSignature /\ W[o] - n # 0 /\ W[o] - n # HbinSignature
      /\ W[o] - n \in Nat /\ W[o] - n > 0
  BY <1>1, Constants
<1>6. Heads(V) = Heads(W) \cup {m}
  BY <1>1, <1>3, <1>4, <1>5 DEF Heads
<1>7. Abs(V[o]) = n /\ Abs(V[m]) = W[o] - n
  BY <1>1, <1>4 DEF Abs
<1> HIDE DEF m
<1>8. \A p \in Offset : V[p] = HbinSignature <=> \E d \in B : d.start = p
  <2>1. W[o] # HbinSignature /\ W[m] # HbinSignature
    BY <1>3, Constants DEF Heads
  <2>2. ASSUME NEW p \in Offset PROVE V[p] = HbinSignature <=> W[p] = HbinSignature
    BY <1>4, <1>5, <2>1
  <2> QED BY <2>2 DEF Laid
<1>9. \A p \in Heads(W) : p \in Offset /\ p \in Nat /\ Abs(W[p]) \in Nat /\ Abs(W[p]) > 0
  BY HeadFacts DEF Heads
<1>10. ASSUME NEW p \in Heads(V) PROVE \E d \in B : Within(V, p, d)
  <2>1. CASE p = o \/ p = m
    <3>1. PICK d \in B : Within(W, o, d)
      BY DEF Laid
    <3>2. d.start \in Nat /\ d.end \in Nat
      BY BinFacts
    <3>3. Within(V, o, d) /\ Within(V, m, d)
      BY <1>1, <1>2, <1>7, <3>1, <3>2, Constants DEF Within, m
    <3> QED BY <2>1, <3>3
  <2>2. CASE p # o /\ p # m
    <3>1. p \in Heads(W) /\ V[p] = W[p]
      BY <1>4, <1>6, <1>9, <2>2
    <3> QED BY <3>1 DEF Laid, Within
  <2> QED BY <2>1, <2>2
<1>11. ASSUME NEW p \in Heads(V), NEW q \in Heads(V), p < q PROVE p + Abs(V[p]) <= q
  <2>1. p \in Nat /\ q \in Nat /\ m \in Nat
    <3>1. m \in Nat
      BY <1>1 DEF m
    <3> QED BY <1>6, <1>9, <3>1
  <2>2. CASE p = o
    <3>1. q = m \/ (q \in Heads(W) /\ o + Abs(W[o]) <= q)
      BY <1>6, <1>11, <2>2 DEF Laid
    <3> QED BY <1>1, <1>2, <1>7, <2>1, <2>2, <3>1 DEF m
  <2>3. CASE p = m
    <3>1. q \in Heads(W) /\ o < q
      <4>1. q # m /\ o < q
        BY <1>1, <1>2, <1>11, <2>1, <2>3
      <4> QED BY <1>6, <4>1
    <3>2. o + Abs(W[o]) <= q
      BY <3>1 DEF Laid
    <3> QED BY <1>1, <1>7, <2>1, <2>3, <3>2 DEF m
  <2>4. CASE p # o /\ p # m
    <3>1. p \in Heads(W) /\ V[p] = W[p] /\ Abs(W[p]) \in Nat
      BY <1>4, <1>6, <1>9, <2>4
    <3>2. CASE q = m
      <4>1. p < o
        <5>1. o < p => o + Abs(W[o]) <= p
          BY <3>1 DEF Laid
        <5> QED BY <1>1, <1>2, <1>11, <2>1, <2>4, <3>2, <5>1
      <4>2. p + Abs(W[p]) <= o
        BY <3>1, <4>1 DEF Laid
      <4> QED BY <1>1, <1>2, <2>1, <3>1, <3>2, <4>2
    <3>3. CASE q # m
      BY <1>6, <1>11, <3>1, <3>3 DEF Laid
    <3> QED BY <3>2, <3>3
  <2> QED BY <2>2, <2>3, <2>4
<1>12. ASSUME NEW p \in Heads(V)
       PROVE  (\E d \in B : p = d.start + HbinHeader) \/ \E q \in Heads(V) : q + Abs(V[q]) = p
  <2>1. CASE p = m
    <3>1. o \in Heads(V) /\ o + Abs(V[o]) = p
      BY <1>6, <1>7, <2>1 DEF m
    <3> QED BY <3>1
  <2>2. CASE p # m
    <3>1. p \in Heads(W)
      BY <1>6, <2>2
    <3>2. CASE \E d \in B : p = d.start + HbinHeader
      BY <3>2
    <3>3. CASE \E q \in Heads(W) : q + Abs(W[q]) = p
      <4>1. PICK q \in Heads(W) : q + Abs(W[q]) = p
        BY <3>3
      <4>2. CASE q = o
        <5>1. m \in Heads(V) /\ m + Abs(V[m]) = p
          <6>1. m + (W[o] - n) = o + W[o]
            BY <1>1 DEF m
          <6>2. o + W[o] = p
            BY <1>1, <4>1, <4>2
          <6> QED BY <1>6, <1>7, <6>1, <6>2
        <5> QED BY <5>1
      <4>3. CASE q # o
        BY <1>3, <1>4, <1>6, <1>9, <4>1, <4>3
      <4> QED BY <4>2, <4>3
    <3> QED BY <3>1, <3>2, <3>3 DEF Laid
  <2> QED BY <2>1, <2>2
<1>13. Laid(V, B)
  BY <1>4, <1>8, <1>10, <1>11, <1>12 DEF Laid
<1> QED BY <1>3, <1>4, <1>6, <1>13 DEF m

\* Two free cells that touch become one.
LEMMA JoinHeads ==
  ASSUME NEW W, NEW B, NEW end, BinsRight(B, end), Laid(W, B),
         NEW p \in Heads(W), NEW q \in Heads(W), W[p] > 0, W[q] > 0, p + W[p] = q,
         NEW V, Join(W, V, p, q)
  PROVE  /\ Laid(V, B) /\ Heads(V) = Heads(W) \ {q} /\ p # q
         /\ V[p] = W[p] + W[q] /\ V[q] = 0 /\ \A x \in Offset : x # p /\ x # q => V[x] = W[x]
<1>1. /\ p \in Nat /\ q \in Nat /\ p \in Offset /\ q \in Offset /\ W[p] \in Int /\ W[q] \in Int
      /\ Abs(W[p]) = W[p] /\ Abs(W[q]) = W[q] /\ p # q
  <2>1. p \in Offset /\ q \in Offset
    BY DEF Heads
  <2>2. p \in Nat /\ q \in Nat /\ W[p] \in Int /\ W[q] \in Int /\ Abs(W[p]) = W[p] /\ Abs(W[q]) = W[q]
    BY HeadFacts
  <2> QED BY <2>1, <2>2
<1>2. /\ W \in [Offset -> Int] /\ V \in [Offset -> Int] /\ V[p] = W[p] + W[q] /\ V[q] = 0
      /\ \A x \in Offset : x # p /\ x # q => V[x] = W[x]
  BY <1>1 DEF Laid, Join
<1>3. PICK b \in B : Within(W, p, b)
  BY DEF Laid
<1>4. b.start \in Nat /\ b.end \in Nat /\ b.end <= MaxHive /\ HbinHeader \in Nat /\ HbinHeader > 0
  <2>1. b.start \in Nat /\ b.end \in Nat /\ end \in Nat /\ end <= MaxHive /\ b.end <= end
    BY BinFacts
  <2> QED BY <2>1, Constants
<1>5. Within(W, q, b)
  <2>1. PICK d \in B : Within(W, q, d)
    BY DEF Laid
  <2>2. d.start \in Nat /\ d.end \in Nat
    BY BinFacts
  <2>3. b = d \/ b.end <= d.start \/ d.end <= b.start
    BY DEF BinsRight
  <2>4. b = d
    BY <1>1, <1>3, <1>4, <2>1, <2>2, <2>3 DEF Within
  <2> QED BY <2>1, <2>4
<1>6. Abs(V[p]) = W[p] + W[q] /\ V[p] # 0 /\ V[p] # HbinSignature /\ p + Abs(V[p]) <= b.end
  <2>1. Abs(V[p]) = W[p] + W[q] /\ V[p] > 0
    BY <1>1, <1>2 DEF Abs
  <2>2. p + (W[p] + W[q]) <= b.end
    BY <1>1, <1>4, <1>5 DEF Within
  <2>3. W[p] + W[q] <= MaxHive /\ MaxHive \in Nat
    BY <1>1, <1>4, <2>2, Constants
  <2>4. W[p] + W[q] # HbinSignature
    BY <1>1, <2>3, Constants
  <2>5. p + Abs(V[p]) <= b.end
    BY <2>1, <2>2
  <2> QED BY <1>1, <1>2, <2>1, <2>4, <2>5
<1>7. Heads(V) = Heads(W) \ {q}
  BY <1>1, <1>2, <1>6 DEF Heads
<1>8. \A x \in Offset : V[x] = HbinSignature <=> \E d \in B : d.start = x
  <2>1. W[p] # HbinSignature /\ W[q] # HbinSignature /\ V[q] # HbinSignature
    BY <1>2, Constants DEF Heads
  <2>2. ASSUME NEW x \in Offset PROVE V[x] = HbinSignature <=> W[x] = HbinSignature
    BY <1>2, <1>6, <2>1
  <2> QED BY <2>2 DEF Laid
<1>9. \A x \in Heads(W) : x \in Offset /\ x \in Nat /\ Abs(W[x]) \in Nat /\ Abs(W[x]) > 0
  BY HeadFacts DEF Heads
<1>10. ASSUME NEW x \in Heads(V) PROVE \E d \in B : Within(V, x, d)
  <2>1. CASE x = p
    BY <1>3, <1>6, <2>1 DEF Within
  <2>2. CASE x # p
    <3>1. x \in Heads(W) /\ V[x] = W[x]
      BY <1>2, <1>7, <1>9, <2>2
    <3> QED BY <3>1 DEF Laid, Within
  <2> QED BY <2>1, <2>2
<1>11. ASSUME NEW x \in Heads(V), NEW y \in Heads(V), x < y PROVE x + Abs(V[x]) <= y
  <2>1. x \in Heads(W) /\ y \in Heads(W) /\ x \in Nat /\ y \in Nat /\ x # q /\ y # q
    BY <1>7, <1>9
  <2>2. CASE x = p
    <3>1. q < y
      <4>1. p + Abs(W[p]) <= y
        BY <1>11, <2>1, <2>2 DEF Laid
      <4> QED BY <1>1, <2>1, <4>1
    <3>2. q + Abs(W[q]) <= y
      BY <2>1, <3>1 DEF Laid
    <3> QED BY <1>1, <1>6, <2>1, <2>2, <3>2
  <2>3. CASE x # p
    <3>1. V[x] = W[x]
      BY <1>2, <1>9, <2>1, <2>3
    <3> QED BY <1>11, <2>1, <3>1 DEF Laid
  <2> QED BY <2>2, <2>3
<1>12. ASSUME NEW x \in Heads(V)
       PROVE  (\E d \in B : x = d.start + HbinHeader) \/ \E y \in Heads(V) : y + Abs(V[y]) = x
  <2>1. x \in Heads(W) /\ x # q
    BY <1>7
  <2>2. CASE \E d \in B : x = d.start + HbinHeader
    BY <2>2
  <2>3. CASE \E y \in Heads(W) : y + Abs(W[y]) = x
    <3>1. PICK y \in Heads(W) : y + Abs(W[y]) = x
      BY <2>3
    <3>2. y # p
      BY <1>1, <2>1, <3>1
    <3>3. CASE y = q
      <4>1. p \in Heads(V)
        BY <1>1, <1>7
      <4>2. p + (W[p] + W[q]) = x
        BY <1>1, <3>1, <3>3
      <4> QED BY <1>6, <4>1, <4>2
    <3>4. CASE y # q
      <4>1. y \in Heads(V) /\ V[y] = W[y]
        BY <1>2, <1>7, <1>9, <3>2, <3>4
      <4> QED BY <3>1, <4>1
    <3> QED BY <3>3, <3>4
  <2> QED BY <2>1, <2>2, <2>3 DEF Laid
<1>13. Laid(V, B)
  BY <1>2, <1>8, <1>10, <1>11, <1>12 DEF Laid
<1> QED BY <1>1, <1>2, <1>7, <1>13

\* The file grows by a bin with one free cell.
LEMMA AppendBin ==
  ASSUME NEW W, NEW B, NEW end, BinsRight(B, end), Laid(W, B), PageSize <= end,
         NEW size \in Nat, HbinHeader < size, end + size <= MaxHive,
         NEW V, AppendAt(W, V, end, size),
         NEW D, MoreBins(B, D, end, size)
  PROVE  /\ BinsRight(D, end + size) /\ Laid(V, D)
         /\ Heads(V) = Heads(W) \cup {end + HbinHeader} /\ end + HbinHeader \in Offset
         /\ end + HbinHeader \notin Heads(W)
         /\ V[end + HbinHeader] = size - HbinHeader
         /\ \A x \in Heads(W) : V[x] = W[x] /\ x < end
<1> DEFINE m == end + HbinHeader
           new == [start |-> end, end |-> end + size]
<1> D = B \cup {new}
  BY DEF MoreBins
<1>1. /\ end \in Nat /\ HbinHeader \in Nat /\ HbinHeader > 0 /\ MaxHive \in Nat /\ PageSize \in Nat
      /\ end \in Offset /\ m \in Offset /\ end + size \in Offset /\ m # end /\ m \in Nat
  <2>1. end \in Nat
    BY Constants DEF BinsRight
  <2> QED BY <2>1, Constants
<1>2. /\ W \in [Offset -> Int] /\ V \in [Offset -> Int] /\ V[end] = HbinSignature /\ V[m] = size - HbinHeader
      /\ \A x \in Offset : x # end /\ x # m => V[x] = W[x]
  BY <1>1, Constants DEF Laid, AppendAt
<1>3. \A x \in Heads(W) : x \in Offset /\ x \in Nat /\ x < end /\ Abs(W[x]) \in Nat /\ Abs(W[x]) > 0 /\ x + Abs(W[x]) <= end
  <2> TAKE x \in Heads(W)
  <2>1. x \in Nat /\ Abs(W[x]) \in Nat /\ Abs(W[x]) > 0 /\ x + Abs(W[x]) <= end
    BY HeadFacts
  <2> QED BY <1>1, <2>1 DEF Heads
<1>4. /\ size - HbinHeader \in Nat /\ size - HbinHeader > 0 /\ size - HbinHeader # HbinSignature
      /\ Abs(V[m]) = size - HbinHeader
  <2>1. size - HbinHeader \in Nat /\ size - HbinHeader > 0 /\ size - HbinHeader # HbinSignature
    BY <1>1, Constants
  <2> QED BY <1>2, <2>1 DEF Abs
<1>5. m \notin Heads(W) /\ end \notin Heads(W)
  <2>1. \A x \in Heads(W) : x # m /\ x # end
    BY <1>1, <1>3
  <2> QED BY <2>1
<1>6. Heads(V) = Heads(W) \cup {m}
  <2> HIDE DEF m
  <2>1. V[m] # 0 /\ V[m] # HbinSignature
    BY <1>2, <1>4
  <2>2. ASSUME NEW x \in Offset PROVE x \in Heads(V) <=> x \in Heads(W) \/ x = m
    <3>1. CASE x = m
      BY <2>1, <3>1 DEF Heads
    <3>2. CASE x = end
      BY <1>1, <1>2, <1>5, <3>2 DEF Heads
    <3>3. CASE x # m /\ x # end
      BY <1>2, <3>3 DEF Heads
    <3> QED BY <3>1, <3>2, <3>3
  <2>3. Heads(V) \subseteq Offset /\ Heads(W) \subseteq Offset
    BY DEF Heads
  <2> QED BY <1>1, <2>2, <2>3
<1>7. \A b \in B : /\ b \in Bin /\ b.start \in Nat /\ b.end \in Nat /\ PageSize <= b.start
                   /\ b.start + HbinHeader < b.end /\ b.end <= end
  BY BinFacts DEF BinsRight
<1>8. new \in Bin /\ new.start = end /\ new.end = end + size
  BY <1>1 DEF Bin
<1> HIDE DEF new
<1>9. BinsRight(D, end + size)
  <2>1. D \subseteq Bin
    BY <1>8 DEF BinsRight, new
  <2>2. ASSUME NEW b \in D PROVE PageSize <= b.start /\ b.start + HbinHeader < b.end /\ b.end <= end + size
    <3>1. CASE b \in B
      BY <1>1, <1>7, <3>1
    <3>2. CASE b = new
      BY <1>1, <1>8, <3>2
    <3> QED BY <3>1, <3>2 DEF new
  <2>3. ASSUME NEW b \in D, NEW d \in D PROVE b = d \/ b.end <= d.start \/ d.end <= b.start
    <3>1. CASE b \in B /\ d \in B
      BY <3>1 DEF BinsRight
    <3>2. CASE b \notin B \/ d \notin B
      BY <1>7, <1>8, <3>2 DEF new
    <3> QED BY <3>1, <3>2
  <2> QED BY <1>1, <2>1, <2>2, <2>3 DEF BinsRight
<1>10. \A x \in Offset : V[x] = HbinSignature <=> \E b \in D : b.start = x
  <2> SUFFICES ASSUME NEW x \in Offset PROVE V[x] = HbinSignature <=> \E b \in D : b.start = x
    OBVIOUS
  <2>1. CASE x = end
    BY <1>2, <1>8, <2>1 DEF new
  <2>2. CASE x = m
    <3>1. \A b \in D : b.start # m
      <4>1. \A b \in B : b.start # m
        BY <1>1, <1>7
      <4> QED BY <1>1, <1>8, <4>1 DEF new
    <3> QED BY <1>2, <1>4, <2>2, <3>1
  <2>3. CASE x # end /\ x # m
    <3>1. V[x] = W[x]
      BY <1>2, <2>3
    <3>2. (\E b \in B : b.start = x) <=> \E b \in D : b.start = x
      BY <1>8, <2>3 DEF new
    <3> QED BY <3>1, <3>2 DEF Laid
  <2> QED BY <2>1, <2>2, <2>3
<1>11. \A x \in Heads(W) : V[x] = W[x]
  BY <1>2, <1>3, <1>5
<1> HIDE DEF m
<1>12. ASSUME NEW x \in Heads(V) PROVE \E b \in D : Within(V, x, b)
  <2>1. CASE x = m
    <3>1. Within(V, m, new)
      BY <1>1, <1>4, <1>8 DEF Within, m
    <3> QED BY <2>1, <3>1 DEF new
  <2>2. CASE x # m
    <3>1. x \in Heads(W) /\ V[x] = W[x]
      BY <1>6, <1>11, <2>2
    <3> QED BY <3>1 DEF Laid, Within
  <2> QED BY <2>1, <2>2
<1>13. ASSUME NEW x \in Heads(V), NEW y \in Heads(V), x < y PROVE x + Abs(V[x]) <= y
  <2>1. CASE x = m
    <3>1. y \notin Heads(W)
      <4>1. \A z \in Heads(W) : z < m
        BY <1>1, <1>3 DEF m
      <4> QED BY <1>1, <1>3, <1>13, <2>1, <4>1
    <3>2. y # m
      BY <1>1, <1>13, <2>1
    <3> QED BY <1>6, <3>1, <3>2
  <2>2. CASE x # m /\ y = m
    <3>1. x \in Heads(W) /\ V[x] = W[x] /\ x + Abs(W[x]) <= end /\ x \in Nat /\ Abs(W[x]) \in Nat
      BY <1>3, <1>6, <1>11, <2>2
    <3> QED BY <1>1, <2>2, <3>1 DEF m
  <2>3. CASE x # m /\ y # m
    <3>1. x \in Heads(W) /\ y \in Heads(W) /\ V[x] = W[x]
      BY <1>6, <1>11, <2>3
    <3> QED BY <1>13, <3>1 DEF Laid
  <2> QED BY <2>1, <2>2, <2>3
<1>14. ASSUME NEW x \in Heads(V)
       PROVE  (\E b \in D : x = b.start + HbinHeader) \/ \E y \in Heads(V) : y + Abs(V[y]) = x
  <2>1. CASE x = m
    BY <1>8, <2>1 DEF new, m
  <2>2. CASE x # m
    <3>1. x \in Heads(W)
      BY <1>6, <2>2
    <3>2. (\E b \in B : x = b.start + HbinHeader) \/ \E y \in Heads(W) : y + Abs(W[y]) = x
      BY <3>1 DEF Laid
    <3> QED BY <1>6, <1>11, <3>2
  <2> QED BY <2>1, <2>2
<1>15. Laid(V, D)
  BY <1>2, <1>10, <1>12, <1>13, <1>14 DEF Laid
<1> QED BY <1>1, <1>2, <1>3, <1>5, <1>6, <1>9, <1>11, <1>15 DEF m

\* The file is cut at the end of a bin behind which no cell is allocated.
LEMMA CutBins ==
  ASSUME NEW W, NEW B, NEW end, BinsRight(B, end), Laid(W, B), NEW cut, \E b \in B : b.end = cut,
         NEW V, Cut(W, V, cut),
         NEW D, FewerBins(B, D, cut)
  PROVE  /\ BinsRight(D, cut) /\ Laid(V, D)
         /\ Heads(V) = {o \in Heads(W) : o < cut} /\ \A o \in Heads(V) : V[o] = W[o]
         /\ \A b \in D : b.end <= cut
         /\ \A b \in B \ D : cut <= b.start
<1> D = {b \in B : b.start < cut}
  BY DEF FewerBins
<1>1. PICK last \in B : last.end = cut
  OBVIOUS
<1>2. cut \in Nat /\ cut \in Offset /\ last.start \in Nat /\ last.start < cut
  <2>1. last.start \in Nat /\ last.end \in Nat /\ last.start + HbinHeader < last.end
    BY BinFacts
  <2>2. last.end \in Offset
    BY DEF BinsRight, Bin
  <2> QED BY <1>1, <2>1, <2>2, Constants
<1>3. \A b \in B : b.start \in Nat /\ b.end \in Nat
  BY BinFacts
<1>4. \A b \in D : b.end <= cut
  <2> TAKE b \in D
  <2>1. b = last \/ b.end <= last.start \/ last.end <= b.start
    BY DEF BinsRight
  <2> QED BY <1>1, <1>2, <1>3, <2>1
<1>5. BinsRight(D, cut)
  BY <1>2, <1>4 DEF BinsRight
<1>6. W \in [Offset -> Int] /\ V \in [Offset -> Int] /\ \A o \in Offset : V[o] = IF o < cut THEN W[o] ELSE 0
  <2>1. W \in [Offset -> Int]
    BY DEF Laid
  <2> QED BY <2>1 DEF Cut
<1>7. Heads(V) = {o \in Heads(W) : o < cut}
  BY <1>6 DEF Heads
<1>8. \A o \in Heads(V) : V[o] = W[o] /\ o \in Heads(W) /\ o < cut
  BY <1>6, <1>7 DEF Heads
<1>9. \A o \in Heads(W) : o \in Nat /\ Abs(W[o]) \in Nat /\ Abs(W[o]) > 0
  BY HeadFacts
<1>10. \A o \in Offset : V[o] = HbinSignature <=> \E b \in D : b.start = o
  <2>1. HbinSignature # 0
    BY Constants
  <2>2. \A o \in Offset : W[o] = HbinSignature <=> \E b \in B : b.start = o
    BY DEF Laid
  <2>3. \A o \in Offset : o \in Nat
    BY Constants
  <2> QED BY <1>2, <1>3, <1>6, <2>1, <2>2, <2>3
<1>11. ASSUME NEW o \in Heads(V) PROVE \E b \in D : Within(V, o, b)
  <2>1. o \in Heads(W) /\ V[o] = W[o] /\ o < cut
    BY <1>8
  <2>2. PICK b \in B : Within(W, o, b)
    BY <2>1 DEF Laid
  <2>3. b.start < cut
    BY <1>2, <1>3, <1>9, <2>1, <2>2, Constants DEF Within
  <2> QED BY <2>1, <2>2, <2>3 DEF Within
<1>12. ASSUME NEW o \in Heads(V), NEW p \in Heads(V), o < p PROVE o + Abs(V[o]) <= p
  BY <1>8, <1>12 DEF Laid
<1>13. ASSUME NEW o \in Heads(V)
       PROVE  (\E b \in D : o = b.start + HbinHeader) \/ \E p \in Heads(V) : p + Abs(V[p]) = o
  <2>1. o \in Heads(W) /\ o < cut
    BY <1>8
  <2>2. CASE \E b \in B : o = b.start + HbinHeader
    <3>1. PICK b \in B : o = b.start + HbinHeader
      BY <2>2
    <3>2. b.start < cut
      BY <1>2, <1>3, <2>1, <3>1, Constants
    <3> QED BY <3>1, <3>2
  <2>3. CASE \E p \in Heads(W) : p + Abs(W[p]) = o
    <3>1. PICK p \in Heads(W) : p + Abs(W[p]) = o
      BY <2>3
    <3>2. p < cut
      BY <1>2, <1>9, <2>1, <3>1
    <3>3. p \in Heads(V) /\ V[p] = W[p]
      BY <1>7, <1>8, <3>2
    <3> QED BY <3>1, <3>3
  <2> QED BY <2>1, <2>2, <2>3 DEF Laid
<1>14. Laid(V, D)
  BY <1>6, <1>10, <1>11, <1>12, <1>13 DEF Laid
<1>15. \A b \in B \ D : cut <= b.start
  BY <1>2, <1>3
<1> QED BY <1>4, <1>5, <1>7, <1>8, <1>14, <1>15

(***************************************************************************)
(* The scan.                                                               *)
(***************************************************************************)
\* Cells that lie behind a cell begin with the one that begins at its end.
LEMMA NextHead ==
  ASSUME NEW W, NEW B, NEW end, BinsRight(B, end), Laid(W, B), NEW b \in B,
         NEW o \in Heads(W), Within(W, o, b), NEW h \in Heads(W), Within(W, h, b), o < h
  PROVE  o + Abs(W[o]) \in Heads(W) /\ Within(W, o + Abs(W[o]), b)
<1> DEFINE S == {x \in Heads(W) : Within(W, x, b) /\ o < x}
<1>1. \A x \in Heads(W) : x \in Nat /\ Abs(W[x]) \in Nat /\ Abs(W[x]) > 0
  BY HeadFacts
<1>2. S \subseteq Nat /\ S # {}
  BY <1>1
<1>3. PICK m \in S : \A k \in S : m <= k
  BY <1>2, Smallest
<1>4. m # b.start + HbinHeader
  BY <1>1, BinFacts, Constants DEF Within
<1>5. PICK p \in Heads(W) : p + Abs(W[p]) = m /\ Within(W, p, b)
  BY <1>4, Predecessor
<1>6. ~(o < p)
  BY <1>1, <1>3, <1>5
<1>7. ~(p < o)
  <2> SUFFICES ASSUME p < o PROVE FALSE
    OBVIOUS
  <2>1. p + Abs(W[p]) <= o
    BY DEF Laid
  <2> QED BY <1>1, <1>5, <2>1
<1>8. p = o
  BY <1>1, <1>6, <1>7
<1> QED BY <1>5, <1>8

\* The first cell of a bin that has one begins after the bin's header.
LEMMA FirstHead ==
  ASSUME NEW W, NEW B, NEW end, BinsRight(B, end), Laid(W, B), NEW b \in B,
         NEW h \in Heads(W), Within(W, h, b)
  PROVE  b.start + HbinHeader \in Heads(W) /\ Within(W, b.start + HbinHeader, b)
<1> DEFINE S == {x \in Heads(W) : Within(W, x, b)}
<1>1. \A x \in Heads(W) : x \in Nat /\ Abs(W[x]) \in Nat /\ Abs(W[x]) > 0
  BY HeadFacts
<1>2. S \subseteq Nat /\ S # {}
  BY <1>1
<1>3. PICK m \in S : \A k \in S : m <= k
  BY <1>2, Smallest
<1>4. CASE m = b.start + HbinHeader
  BY <1>4
<1>5. CASE m # b.start + HbinHeader
  <2>1. PICK p \in Heads(W) : p + Abs(W[p]) = m /\ Within(W, p, b)
    BY <1>5, Predecessor
  <2> QED BY <1>1, <1>3, <2>1
<1> QED BY <1>4, <1>5

\* A walk by headers from the start of a bin, as Starts makes it, meets the cells
\* of the bin, all of them.  The function that it defines is the one that gives
\* at a cell the cells from there on: that one satisfies the equation, and where
\* another one differs there is a last place where it does.
LEMMA ScanRight ==
  ASSUME NEW B, NEW end, BinsRight(B, end), Laid(word, B), NEW b \in B
  PROVE  Starts(b) = {o \in Heads(word) : Within(word, o, b)}
<1> DEFINE S == b.start..b.end
           stop(o) == o >= b.end \/ word[o] = 0 \/ o + Abs(word[o]) > b.end
           eq(f) == f = [o \in S |-> IF stop(o) THEN {} ELSE {o} \cup f[o + Abs(word[o])]]
           C == {o \in Heads(word) : Within(word, o, b)}
           w == [o \in S |-> IF o \in C THEN {h \in C : o <= h} ELSE {}]
           from == CHOOSE f : eq(f)
<1>1. /\ b.start \in Nat /\ b.end \in Nat /\ b.end <= MaxHive /\ b.start + HbinHeader < b.end
      /\ HbinHeader \in Nat /\ HbinHeader > 0 /\ S \subseteq Offset
  <2>1. b.start \in Nat /\ b.end \in Nat /\ end \in Nat /\ end <= MaxHive /\ b.end <= end /\ b.start + HbinHeader < b.end
    BY BinFacts
  <2> QED BY <2>1, Constants
<1>2. \A o \in Offset : word[o] \in Int /\ Abs(word[o]) \in Nat /\ (word[o] # 0 => Abs(word[o]) > 0) /\ o \in Nat
  BY Constants DEF Laid, Abs
<1>3. \A o \in C : /\ o \in Heads(word) /\ Within(word, o, b) /\ o \in S /\ o \in Offset /\ ~stop(o) /\ o < b.end
                   /\ b.start + HbinHeader <= o /\ o + Abs(word[o]) \in S
  <2> TAKE o \in C
  <2>1. o \in Heads(word) /\ o \in Offset /\ Within(word, o, b) /\ word[o] # 0
    BY DEF Heads
  <2> QED BY <1>1, <1>2, <2>1 DEF Within
<1>4. ASSUME NEW o \in S, ~stop(o) PROVE o \in C
  <2>1. o \in Offset /\ word[o] # 0 /\ o < b.end /\ b.start <= o
    BY <1>1, <1>4
  <2>2. word[o] # HbinSignature
    <3> SUFFICES ASSUME word[o] = HbinSignature PROVE FALSE
      OBVIOUS
    <3>1. Abs(word[o]) = MaxHive + 1 /\ MaxHive \in Nat
      BY Constants DEF Abs
    <3> QED BY <1>1, <1>2, <1>4, <2>1, <3>1
  <2>3. o \in Heads(word)
    BY <2>1, <2>2 DEF Heads
  <2>4. Within(word, o, b)
    BY <2>1, <2>3, HeadBin
  <2> QED BY <2>3, <2>4
<1>5. eq(w)
  <2>1. ASSUME NEW o \in S PROVE w[o] = IF stop(o) THEN {} ELSE {o} \cup w[o + Abs(word[o])]
    <3>1. CASE stop(o)
      <4>1. o \notin C
        BY <1>3, <3>1
      <4> QED BY <3>1, <4>1
    <3>2. CASE ~stop(o)
      <4> DEFINE n == o + Abs(word[o])
      <4>1. o \in C /\ n \in S /\ o \in Nat /\ n \in Nat /\ o < n
        <5>1. o \in C
          BY <1>4, <3>2
        <5>2. o \in Heads(word) /\ o \in Offset /\ word[o] # 0
          BY <1>3, <5>1 DEF Heads
        <5> QED BY <1>2, <1>3, <5>1, <5>2
      <4>2. w[o] = {h \in C : o <= h}
        BY <4>1
      <4>3. \A h \in C : o <= h => h = o \/ n <= h
        <5> TAKE h \in C
        <5>1. h \in Heads(word) /\ o \in Heads(word) /\ h \in Nat
          BY <1>2, <1>3, <4>1
        <5>2. o < h => n <= h
          BY <5>1 DEF Laid
        <5> QED BY <4>1, <5>1, <5>2
      <4>4. \A h \in C : h \in Nat
        BY <1>2, <1>3
      <4>5. CASE n \in C
        <5>1. w[n] = {h \in C : n <= h}
          BY <4>1, <4>5
        <5> HIDE DEF n, C, w
        <5>2. {h \in C : o <= h} = {o} \cup {h \in C : n <= h}
          <6>1. ASSUME NEW h \in C PROVE o <= h <=> h = o \/ n <= h
            BY <4>1, <4>3, <4>4
          <6> QED BY <4>1, <6>1
        <5> QED BY <3>2, <4>2, <5>1, <5>2 DEF n
      <4>6. CASE n \notin C
        <5>1. w[n] = {}
          BY <4>1, <4>6
        <5>2. \A h \in C : ~(o < h)
          <6> SUFFICES ASSUME NEW h \in C, o < h PROVE FALSE
            OBVIOUS
          <6>1. o \in Heads(word) /\ Within(word, o, b) /\ h \in Heads(word) /\ Within(word, h, b)
            BY <4>1
          <6>2. n \in Heads(word) /\ Within(word, n, b)
            BY <6>1, NextHead
          <6> QED BY <4>6, <6>2
        <5> HIDE DEF n, C, w
        <5>3. {h \in C : o <= h} = {o}
          <6>1. ASSUME NEW h \in C PROVE o <= h <=> h = o
            BY <4>1, <4>4, <5>2
          <6> QED BY <4>1, <6>1
        <5> QED BY <3>2, <4>2, <5>1, <5>3 DEF n
      <4> QED BY <4>5, <4>6
    <3> QED BY <3>1, <3>2
  <2> QED BY <2>1
<1>6. ASSUME NEW f, eq(f) PROVE \A o \in S : f[o] = w[o]
  <2> SUFFICES ASSUME NEW x \in S, f[x] # w[x] PROVE FALSE
    OBVIOUS
  <2> DEFINE T == {b.end - o : o \in {y \in S : f[y] # w[y]}}
  <2>1. T \subseteq Nat /\ T # {}
    <3>1. b.end - x \in T
      OBVIOUS
    <3>2. ASSUME NEW y \in S PROVE b.end - y \in Nat
      BY <1>1
    <3> QED BY <3>1, <3>2
  <2>2. PICK m \in T : \A k \in T : m <= k
    BY <2>1, Smallest
  <2>3. PICK o \in S : m = b.end - o /\ f[o] # w[o]
    OBVIOUS
  <2>4. \A y \in S : o < y => f[y] = w[y]
    <3> SUFFICES ASSUME NEW y \in S, o < y, f[y] # w[y] PROVE FALSE
      OBVIOUS
    <3>1. b.end - y \in T
      OBVIOUS
    <3>2. m <= b.end - y
      BY <2>2, <3>1
    <3> QED BY <1>1, <2>3, <3>2
  <2>5. f[o] = IF stop(o) THEN {} ELSE {o} \cup f[o + Abs(word[o])]
    <3> HIDE DEF S, stop
    <3> QED BY <1>6
  <2>6. w[o] = IF stop(o) THEN {} ELSE {o} \cup w[o + Abs(word[o])]
    <3> HIDE DEF S, stop, w
    <3> QED BY <1>5
  <2>7. CASE stop(o)
    BY <2>3, <2>5, <2>6, <2>7
  <2>8. CASE ~stop(o)
    <3>1. o \in C
      BY <1>4, <2>8
    <3>2. o + Abs(word[o]) \in S /\ o < o + Abs(word[o])
      <4>1. o \in Offset /\ word[o] # 0 /\ o + Abs(word[o]) \in S
        BY <1>3, <3>1 DEF Heads
      <4> QED BY <1>2, <4>1
    <3>3. f[o + Abs(word[o])] = w[o + Abs(word[o])]
      BY <2>4, <3>2
    <3> QED BY <2>3, <2>5, <2>6, <2>8, <3>3
  <2> QED BY <2>7, <2>8
<1>7. eq(from)
  <2> HIDE DEF w, S, stop
  <2> QED BY <1>5
<1>8. Starts(b) = from[b.start + HbinHeader]
  BY DEF Starts
<1>9. b.start + HbinHeader \in S
  BY <1>1
<1>10. Starts(b) = w[b.start + HbinHeader]
  <2> HIDE DEF w, S, eq, from
  <2> QED BY <1>6, <1>7, <1>8, <1>9
<1>11. w[b.start + HbinHeader] = C
  <2>1. CASE C = {}
    BY <1>9, <2>1
  <2>2. CASE C # {}
    <3>1. b.start + HbinHeader \in C
      BY <2>2, FirstHead
    <3>2. \A h \in C : b.start + HbinHeader <= h
      BY <1>3
    <3> QED BY <1>9, <3>1, <3>2
  <2> QED BY <2>1, <2>2
<1> QED BY <1>10, <1>11
-----------------------------------------------------------------------------
(***************************************************************************)
(* Size classes, the search, and the end index.                            *)
(***************************************************************************)
\* getSizeClass gives the first class that holds the size, or one past the last.
LEMMA ClassOf ==
  ASSUME NEW s \in Offset
  PROVE  /\ SizeClassOf[s] \in Nat
         /\ SizeClassOf[s] > NumClasses => \A j \in 1..NumClasses : Boundaries[j] < s
<1> DEFINE first(k) == /\ k <= NumClasses => s <= Boundaries[k]
                       /\ \A j \in 1..NumClasses : j < k => Boundaries[j] < s
           T == {k \in 1..NumClasses : s <= Boundaries[k]}
<1>1. NumClasses \in Nat /\ \A k \in 1..NumClasses : Boundaries[k] \in Nat
  BY AllocAssumption DEF NumClasses
<1>2. s \in Nat
  BY Constants
<1>3. \E k \in 1..(NumClasses + 1) : first(k)
  <2>1. CASE T = {}
    <3>1. first(NumClasses + 1) /\ NumClasses + 1 \in 1..(NumClasses + 1)
      BY <1>1, <1>2, <2>1
    <3> QED BY <3>1
  <2>2. CASE T # {}
    <3>1. T \subseteq Nat
      BY <1>1
    <3>2. PICK m \in T : \A k \in T : m <= k
      BY <2>2, <3>1, Smallest
    <3>3. first(m) /\ m \in 1..(NumClasses + 1)
      BY <1>1, <1>2, <3>2
    <3> QED BY <3>3
  <2> QED BY <2>1, <2>2
<1>4. SizeClassOf[s] = CHOOSE k \in 1..(NumClasses + 1) : first(k)
  BY DEF SizeClassOf, Offset
<1> HIDE DEF first
<1>5. SizeClassOf[s] \in 1..(NumClasses + 1) /\ first(SizeClassOf[s])
  BY <1>3, <1>4
<1> QED BY <1>1, <1>5 DEF first

\* A request that has a class is not filled exactly from the large blocks.
LEMMA NotLarge ==
  ASSUME Classed, NEW n \in Needs, n \in Offset
  PROVE  ~Large(n)
<1>1. PICK k \in 1..NumClasses : n <= Boundaries[k]
  BY DEF Classed
<1>2. NumClasses \in Nat /\ Boundaries[k] \in Nat /\ n \in Nat
  BY AllocAssumption, Constants DEF NumClasses
<1>3. SizeClassOf[n] > NumClasses => Boundaries[k] < n
  BY ClassOf
<1> QED BY <1>1, <1>2, <1>3 DEF Large

\* The search returns a free cell that is large enough, if there is one.
LEMMA ChoiceFits ==
  ASSUME NEW F, NEW n, NEW c \in Choice(F, n)
  PROVE  c \in F /\ c.size >= n
  BY DEF Choice, HeapFits, HeapChoice, FirstClass, LargeChoice

LEMMA ChoiceFinds ==
  ASSUME NEW F, NEW n \in Nat, \A c \in F : c.size \in Offset, NEW c \in F, c.size >= n
  PROVE  Choice(F, n) # {}
<1>1. CASE HeapFits(F, n) = {}
  <2>1. c \in LargeChoice(F, n)
    BY <1>1 DEF HeapFits, LargeChoice
  <2> QED BY <1>1, <2>1 DEF Choice
<1>2. CASE HeapFits(F, n) # {}
  <2> DEFINE K == {SizeClassOf[d.size] : d \in HeapFits(F, n)}
             Z == {d.size : d \in FirstClass(F, n)}
  <2>1. \A d \in HeapFits(F, n) : d \in F /\ d.size \in Offset /\ d.size \in Nat /\ SizeClassOf[d.size] \in Nat
    BY ClassOf, Constants DEF HeapFits
  <2>2. K \subseteq Nat /\ K # {}
    BY <1>2, <2>1
  <2>3. PICK k \in K : \A j \in K : k <= j
    BY <2>2, Smallest
  <2>4. PICK d \in HeapFits(F, n) : k = SizeClassOf[d.size]
    OBVIOUS
  <2>5. d \in FirstClass(F, n)
    BY <2>3, <2>4 DEF FirstClass
  <2>6. Z \subseteq Nat /\ Z # {}
    BY <2>1, <2>5 DEF FirstClass
  <2>7. PICK z \in Z : \A y \in Z : z <= y
    BY <2>6, Smallest
  <2>8. PICK e \in FirstClass(F, n) : z = e.size
    OBVIOUS
  <2>9. e \in HeapChoice(F, n)
    BY <2>7, <2>8 DEF HeapChoice
  <2> QED BY <1>2, <2>9 DEF Choice
<1> QED BY <1>1, <1>2

\* What is on the lists and what is allocated.
LEMMA FreeFacts ==
  ASSUME NEW W, NEW B, NEW end, BinsRight(B, end), Laid(W, B), NEW c \in FreeOf(W)
  PROVE  /\ c.off \in Heads(W) /\ c.off \in Offset /\ c.off \in Nat /\ W[c.off] = c.size
         /\ c = Cell(c.off, c.size) /\ Abs(W[c.off]) = c.size
         /\ c.size \in Nat /\ c.size > 0 /\ c.size \in Offset /\ End(c) \in Offset /\ End(c) <= end
         /\ End(c) = c.off + c.size /\ PageSize + HbinHeader <= c.off /\ InBounds(c, end)
<1>1. PICK o \in Heads(W) : W[o] > 0 /\ c = Cell(o, W[o])
  BY DEF FreeOf
<1>2. c.off = o /\ c.size = W[o]
  BY <1>1 DEF Cell
<1>3. /\ o \in Nat /\ W[o] \in Int /\ Abs(W[o]) = W[o] /\ o + Abs(W[o]) <= end
      /\ PageSize + HbinHeader <= o /\ end \in Nat /\ end <= MaxHive /\ o \in Offset
  <2>1. end \in Nat /\ end <= MaxHive
    BY Constants DEF BinsRight
  <2>2. o \in Offset
    BY DEF Heads
  <2> QED BY <1>1, <2>1, <2>2, HeadFacts
<1>4. o + W[o] \in Offset /\ W[o] \in Offset /\ o + W[o] <= end
  BY <1>1, <1>3, Constants
<1> QED BY <1>1, <1>2, <1>3, <1>4 DEF End, InBounds

LEMMA FreeApart ==
  ASSUME NEW W, NEW B, NEW end, BinsRight(B, end), Laid(W, B), NEW c \in FreeOf(W), NEW d \in FreeOf(W),
         c.off = d.off \/ End(c) = End(d)
  PROVE  c = d
<1>1. /\ c.off \in Heads(W) /\ c.off \in Nat /\ W[c.off] = c.size /\ c = Cell(c.off, c.size)
      /\ Abs(W[c.off]) = c.size /\ c.size \in Nat /\ c.size > 0 /\ End(c) = c.off + c.size
  BY FreeFacts
<1>2. /\ d.off \in Heads(W) /\ d.off \in Nat /\ W[d.off] = d.size /\ d = Cell(d.off, d.size)
      /\ Abs(W[d.off]) = d.size /\ d.size \in Nat /\ d.size > 0 /\ End(d) = d.off + d.size
  BY FreeFacts
<1>3. (c.off < d.off => c.off + c.size <= d.off) /\ (d.off < c.off => d.off + d.size <= c.off)
  BY <1>1, <1>2 DEF Laid
<1>4. c.off = d.off
  BY <1>1, <1>2, <1>3
<1> QED BY <1>1, <1>2, <1>4

LEMMA LiveFacts ==
  ASSUME NEW W, NEW B, NEW end, BinsRight(B, end), Laid(W, B), NEW c \in LiveOf(W)
  PROVE  /\ c.off \in Heads(W) /\ W[c.off] = -c.size /\ Abs(W[c.off]) = c.size /\ c = Cell(c.off, c.size)
         /\ c.size \in Nat /\ c.size > 0 /\ c.off \in Nat /\ End(c) = c.off + c.size /\ c.off \in Offset
<1>1. PICK o \in Heads(W) : W[o] < 0 /\ c = Cell(o, -W[o])
  BY DEF LiveOf
<1>2. c.off = o /\ c.size = -W[o]
  BY <1>1 DEF Cell
<1>3. o \in Nat /\ W[o] \in Int /\ Abs(W[o]) = -W[o] /\ o \in Offset
  BY <1>1, HeadFacts DEF Heads
<1> QED BY <1>1, <1>2, <1>3 DEF End

\* A change of the headers at some offsets is a change of the cells there.
ChangedAt(W, V, K) ==
  /\ \A x : x \notin K => (x \in Heads(V) <=> x \in Heads(W))
  /\ \A x \in Heads(W) : x \notin K => V[x] = W[x]

LEMMA CellsChange ==
  ASSUME NEW W, NEW V, NEW K, ChangedAt(W, V, K)
  PROVE  /\ \A c : c \in FreeOf(V) <=> \/ c \in FreeOf(W) /\ c.off \notin K
                                       \/ \E x \in Heads(V) : x \in K /\ V[x] > 0 /\ c = Cell(x, V[x])
         /\ \A c : c \in LiveOf(V) <=> \/ c \in LiveOf(W) /\ c.off \notin K
                                       \/ \E x \in Heads(V) : x \in K /\ V[x] < 0 /\ c = Cell(x, -V[x])
<1>1. \A x, s : Cell(x, s).off = x
  BY DEF Cell
<1>2. \A x : x \notin K => (x \in Heads(V) <=> x \in Heads(W))
  BY DEF ChangedAt
<1>3. \A x \in Heads(V) : x \notin K => V[x] = W[x]
  BY DEF ChangedAt
<1>4. ASSUME NEW c
      PROVE  c \in FreeOf(V) <=> \/ c \in FreeOf(W) /\ c.off \notin K
                                 \/ \E x \in Heads(V) : x \in K /\ V[x] > 0 /\ c = Cell(x, V[x])
  BY <1>1, <1>2, <1>3 DEF FreeOf
<1>5. ASSUME NEW c
      PROVE  c \in LiveOf(V) <=> \/ c \in LiveOf(W) /\ c.off \notin K
                                 \/ \E x \in Heads(V) : x \in K /\ V[x] < 0 /\ c = Cell(x, -V[x])
  BY <1>1, <1>2, <1>3 DEF LiveOf
<1> QED BY <1>4, <1>5

\* IdxOf makes the index, and what is right is what it makes.
LEMMA IdxOfRight ==
  ASSUME NEW F, \A c \in F : c.off \in Int, \A c, d \in F : End(c) = End(d) => c = d
  PROVE  IdxRight(IdxOf(F), F) /\ \A E : IdxRight(E, F) => E = IdxOf(F)
<1>1. ASSUME NEW c \in F PROVE (CHOOSE d \in F : End(d) = End(c)) = c
  OBVIOUS
<1>2. \A e \in Offset : /\ \A c \in F : End(c) = e => IdxOf(F)[e] = c.off
                        /\ (\A c \in F : End(c) # e) => IdxOf(F)[e] = 0
  BY <1>1 DEF IdxOf
<1>3. IdxOf(F) \in [Offset -> Int]
  BY <1>1 DEF IdxOf
<1>4. ASSUME NEW E, IdxRight(E, F) PROVE E = IdxOf(F)
  <2>1. \A e \in Offset : E[e] = IdxOf(F)[e]
    BY <1>2, <1>4 DEF IdxRight
  <2>2. E \in [Offset -> Int]
    BY <1>4 DEF IdxRight
  <2> QED BY <1>3, <2>1, <2>2
<1> QED BY <1>2, <1>3, <1>4 DEF IdxRight

\* An entry of the index is removed with its cell, and added with it.
LEMMA IdxRemoved ==
  ASSUME NEW E, NEW F, IdxRight(E, F), \A c, d \in F : End(c) = End(d) => c = d,
         NEW c \in F, End(c) \in Offset
  PROVE  IdxRight(Drop(E, c), F \ {c})
  BY DEF IdxRight, Drop

LEMMA IdxAdded ==
  ASSUME NEW E, NEW F, IdxRight(E, F), NEW c, c.off \in Int, End(c) \in Offset, \A d \in F : End(d) # End(c)
  PROVE  IdxRight([E EXCEPT ![End(c)] = c.off], F \cup {c})
  BY DEF IdxRight
-----------------------------------------------------------------------------
(***************************************************************************)
(* The free and the allocated cells after each operation.                  *)
(***************************************************************************)
\* What the abstract cell store asks of cells and bins.
LEMMA LaidIsOK ==
  ASSUME NEW W, NEW B, NEW end, BinsRight(B, end), Laid(W, B)
  PROVE  Store!CellsOK(LiveOf(W), B)
<1>1. ASSUME NEW c \in LiveOf(W) PROVE c.size > 0 /\ \E b \in B : Store!Inside(c, b)
  <2>1. c.off \in Heads(W) /\ Abs(W[c.off]) = c.size /\ c.size \in Nat /\ c.size > 0 /\ c.off \in Nat
    BY LiveFacts
  <2>2. PICK b \in B : Within(W, c.off, b)
    BY <2>1 DEF Laid
  <2>3. b.start \in Nat /\ b.end \in Nat /\ HbinHeader \in Nat /\ HbinHeader > 0
    BY BinFacts, Constants
  <2>4. b.start < c.off /\ c.off + c.size <= b.end
    BY <2>1, <2>2, <2>3 DEF Within
  <2> QED BY <2>1, <2>4 DEF Store!Inside
<1>2. ASSUME NEW c \in LiveOf(W), NEW d \in LiveOf(W) PROVE c = d \/ Store!Disjoint(c, d)
  <2>1. /\ c.off \in Heads(W) /\ W[c.off] = -c.size /\ Abs(W[c.off]) = c.size /\ c = Cell(c.off, c.size)
        /\ c.off \in Nat /\ c.size \in Nat
    BY LiveFacts
  <2>2. /\ d.off \in Heads(W) /\ W[d.off] = -d.size /\ Abs(W[d.off]) = d.size /\ d = Cell(d.off, d.size)
        /\ d.off \in Nat /\ d.size \in Nat
    BY LiveFacts
  <2>3. (c.off < d.off => c.off + c.size <= d.off) /\ (d.off < c.off => d.off + d.size <= c.off)
    BY <2>1, <2>2 DEF Laid
  <2>4. CASE c.off = d.off
    <3>1. c.size = d.size
      BY <2>1, <2>2, <2>4
    <3> QED BY <2>1, <2>2, <2>4, <3>1
  <2>5. CASE c.off # d.off
    BY <2>1, <2>2, <2>3, <2>5 DEF Store!Disjoint
  <2> QED BY <2>4, <2>5
<1>3. \A b, d \in B : b = d \/ Store!BinsApart(b, d)
  BY DEF BinsRight, Store!BinsApart
<1> QED BY <1>1, <1>2, <1>3 DEF Store!CellsOK

\* The end of Alloc when a remainder is split off.
LEMMA PlaceSplit ==
  ASSUME NEW W, NEW B, NEW end, BinsRight(B, end), Laid(W, B), Merged(W),
         NEW c \in FreeOf(W), NEW n \in Nat, 0 < n, n < c.size,
         NEW V, Split(W, V, c.off, n),
         NEW tail, tail = Cell(c.off + n, c.size - n)
  PROVE  /\ Laid(V, B) /\ Merged(V)
         /\ FreeOf(V) = (FreeOf(W) \ {c}) \cup {tail} /\ InBounds(tail, end) /\ End(tail) = End(c)
         /\ LiveOf(V) = LiveOf(W) \cup {Cell(c.off, n)} /\ Cell(c.off, n) \notin LiveOf(W)
         /\ \A x \in Offset : V[x] # W[x] => x \in {c.off, c.off + n}
<1> DEFINE o == c.off
           m == c.off + n
<1>1. /\ o \in Heads(W) /\ o \in Offset /\ o \in Nat /\ W[o] = c.size /\ c = Cell(o, c.size) /\ Abs(W[o]) = c.size
      /\ c.size \in Nat /\ End(c) = o + c.size /\ PageSize + HbinHeader <= o /\ o + c.size <= end
  BY FreeFacts
<1>2. Split(W, V, o, n)
  OBVIOUS
<1>3. /\ Laid(V, B) /\ Heads(V) = Heads(W) \cup {m} /\ m \in Offset /\ m \notin Heads(W)
      /\ V[o] = -n /\ V[m] = W[o] - n /\ \A p \in Offset : p # o /\ p # m => V[p] = W[p]
  <2>1. n < W[o]
    BY <1>1
  <2>2. m = o + n
    OBVIOUS
  <2> HIDE DEF o, m
  <2>3. /\ Laid(V, B) /\ Heads(V) = Heads(W) \cup {o + n} /\ o + n \in Offset /\ o + n \notin Heads(W)
        /\ V[o] = -n /\ V[o + n] = W[o] - n /\ \A p \in Offset : p # o /\ p # o + n => V[p] = W[p]
    BY <1>1, <1>2, <2>1, SplitHead
  <2> QED BY <2>2, <2>3
<1>4. \A x \in Heads(W) : x \in Offset /\ x \in Nat /\ W[x] \in Int /\ Abs(W[x]) \in Nat
                          /\ (W[x] > 0 => Abs(W[x]) = W[x])
  BY HeadFacts DEF Heads
<1>5. tail.off = m /\ tail.size = c.size - n /\ End(tail) = End(c) /\ InBounds(tail, end) /\ V[m] = tail.size /\ V[m] > 0 /\ o # m
  BY <1>1, <1>3, Constants DEF Cell, End, InBounds
<1> HIDE DEF o, m
<1> DEFINE K == {o, m}
<1>b. ChangedAt(W, V, K)
  BY <1>3, <1>4 DEF ChangedAt
<1> HIDE DEF K
<1>6. /\ \A d : d \in FreeOf(V) <=> \/ d \in FreeOf(W) /\ d.off \notin K
                                    \/ \E x \in Heads(V) : x \in K /\ V[x] > 0 /\ d = Cell(x, V[x])
      /\ \A d : d \in LiveOf(V) <=> \/ d \in LiveOf(W) /\ d.off \notin K
                                    \/ \E x \in Heads(V) : x \in K /\ V[x] < 0 /\ d = Cell(x, -V[x])
  BY <1>b, CellsChange
<1>7. \A d \in FreeOf(W) : d.off # m /\ (d.off = o => d = c)
  <2> TAKE d \in FreeOf(W)
  <2>1. d.off \in Heads(W)
    BY FreeFacts
  <2>2. d.off = o => d = c
    BY FreeApart DEF o
  <2> QED BY <1>3, <2>1, <2>2
<1>8. \A d \in LiveOf(W) : d.off # m /\ d.off # o
  <2> TAKE d \in LiveOf(W)
  <2>1. d.off \in Heads(W) /\ W[d.off] = -d.size /\ d.size \in Nat /\ d.size > 0
    BY LiveFacts
  <2> QED BY <1>1, <1>3, <2>1
<1>a. o \in Heads(V) /\ m \in Heads(V) /\ V[m] > 0 /\ ~(V[o] > 0) /\ V[o] < 0 /\ ~(V[m] < 0) /\ -V[o] = n
  <2>1. o \in Heads(V) /\ m \in Heads(V)
    BY <1>1, <1>3
  <2>2. V[o] = -n /\ V[m] \in Nat /\ V[m] > 0
    BY <1>1, <1>3, <1>5
  <2> QED BY <2>1, <2>2
<1>9. FreeOf(V) = (FreeOf(W) \ {c}) \cup {tail}
  <2>1. Cell(m, V[m]) = tail
    BY <1>3, <1>5 DEF m
  <2>2. ASSUME NEW d PROVE d \in FreeOf(V) <=> d \in (FreeOf(W) \ {c}) \cup {tail}
    <3>1. d \in FreeOf(V) <=> (d \in FreeOf(W) /\ d.off \notin {o, m}) \/ d = tail
      BY <1>6, <1>a, <2>1 DEF K
    <3>2. d \in FreeOf(W) => (d.off \in {o, m} <=> d = c)
      BY <1>7 DEF o
    <3> QED BY <3>1, <3>2
  <2> QED BY <2>2
<1>10. LiveOf(V) = LiveOf(W) \cup {Cell(o, n)} /\ Cell(o, n) \notin LiveOf(W)
  <2>1. Cell(o, n).off = o /\ Cell(o, -V[o]) = Cell(o, n)
    BY <1>a DEF Cell
  <2>2. ASSUME NEW d PROVE d \in LiveOf(V) <=> d \in LiveOf(W) \cup {Cell(o, n)}
    <3>1. d \in LiveOf(V) <=> (d \in LiveOf(W) /\ d.off \notin {o, m}) \/ d = Cell(o, n)
      BY <1>6, <1>a, <2>1 DEF K
    <3> QED BY <1>8, <3>1
  <2> QED BY <1>8, <2>1, <2>2
<1>11. Merged(V)
  <2> SUFFICES ASSUME NEW x \in Heads(V), NEW y \in Heads(V), V[x] > 0, V[y] > 0, x + V[x] = y PROVE FALSE
    BY DEF Merged
  <2>1. x # o /\ y # o
    BY <1>3
  <2>2. \A z \in Heads(V) : z # m => z \in Heads(W) /\ (z # o => V[z] = W[z])
    BY <1>3, <1>4
  <2>3. m \in Nat /\ o < m /\ m = o + n /\ m + V[m] = o + W[o] /\ V[m] \in Nat
    BY <1>1, <1>3 DEF m, o
  <2>4. CASE x = m
    <3>1. y # m
      BY <1>5, <2>3, <2>4
    <3>2. y \in Heads(W) /\ V[y] = W[y]
      BY <2>1, <2>2, <3>1
    <3>3. W[o] > 0 /\ W[y] > 0 /\ o + W[o] = y
      BY <1>1, <2>3, <2>4, <3>2
    <3> QED BY <1>1, <3>2, <3>3 DEF Merged
  <2>5. CASE x # m /\ y = m
    <3>1. x \in Heads(W) /\ W[x] > 0 /\ x + Abs(W[x]) = m /\ x \in Nat
      BY <1>4, <2>1, <2>2, <2>5
    <3>2. (x < o => x + Abs(W[x]) <= o) /\ (o < x => o + Abs(W[o]) <= x)
      BY <1>1, <3>1 DEF Laid
    <3> QED BY <1>1, <1>4, <2>1, <2>3, <3>1, <3>2
  <2>6. CASE x # m /\ y # m
    <3>1. x \in Heads(W) /\ y \in Heads(W) /\ W[x] > 0 /\ W[y] > 0 /\ x + W[x] = y
      BY <2>1, <2>2, <2>6
    <3> QED BY <3>1 DEF Merged
  <2> QED BY <2>4, <2>5, <2>6
<1>12. \A x \in Offset : V[x] # W[x] => x \in {o, m}
  BY <1>3
<1> QED BY <1>3, <1>5, <1>9, <1>10, <1>11, <1>12 DEF o, m

\* A cell is marked otherwise: allocated as a whole, or freed.
LEMMA FlipHead ==
  ASSUME NEW W, NEW B, NEW end, BinsRight(B, end), Laid(W, B), NEW o \in Heads(W),
         NEW V, Put(W, V, o, -W[o])
  PROVE  /\ Laid(V, B) /\ Heads(V) = Heads(W) /\ V[o] = -W[o] /\ \A x \in Offset : x # o => V[x] = W[x]
         /\ W[o] > 0 => /\ FreeOf(V) = FreeOf(W) \ {Cell(o, W[o])}
                        /\ LiveOf(V) = LiveOf(W) \cup {Cell(o, W[o])} /\ Cell(o, W[o]) \notin LiveOf(W)
                        /\ Merged(W) => Merged(V)
         /\ W[o] < 0 => /\ FreeOf(V) = FreeOf(W) \cup {Cell(o, -W[o])}
                        /\ LiveOf(V) = LiveOf(W) \ {Cell(o, -W[o])}
<1> DEFINE v == -W[o]
<1>1. o \in Offset /\ o \in Nat /\ W[o] \in Int /\ W[o] # 0 /\ Abs(W[o]) \in Nat /\ W[o] # HbinSignature
  BY HeadFacts DEF Heads
<1>2. v \in Int /\ v # 0 /\ Abs(v) = Abs(W[o])
  BY <1>1 DEF Abs
<1>3. PICK b \in B : Within(W, o, b)
  BY DEF Laid
<1>4. b.start + HbinHeader <= o /\ o + Abs(v) <= b.end
  BY <1>2, <1>3 DEF Within
<1>5. \A p \in Heads(W) : (p < o => p + Abs(W[p]) <= o) /\ (o < p => o + Abs(v) <= p)
  BY <1>2 DEF Laid
<1>6. o = b.start + HbinHeader \/ \E p \in Heads(W) : p + Abs(W[p]) = o
  BY <1>3, Predecessor
<1>7. Put(W, V, o, v)
  OBVIOUS
<1> HIDE DEF v
<1>8. /\ Laid(V, B) /\ Heads(V) = Heads(W) \cup {o}
      /\ V[o] = v /\ \A p \in Offset : p # o => V[p] = W[p]
  BY <1>1, <1>2, <1>4, <1>5, <1>6, <1>7, PutHead
<1>9. Heads(V) = Heads(W)
  BY <1>8
<1> DEFINE K == {o}
<1>10. ChangedAt(W, V, K)
  BY <1>8, <1>9 DEF ChangedAt, Heads
<1> HIDE DEF K
<1>11. /\ \A d : d \in FreeOf(V) <=> \/ d \in FreeOf(W) /\ d.off \notin K
                                     \/ \E x \in Heads(V) : x \in K /\ V[x] > 0 /\ d = Cell(x, V[x])
       /\ \A d : d \in LiveOf(V) <=> \/ d \in LiveOf(W) /\ d.off \notin K
                                     \/ \E x \in Heads(V) : x \in K /\ V[x] < 0 /\ d = Cell(x, -V[x])
  BY <1>10, CellsChange
<1>12. \A x, s : Cell(x, s).off = x /\ Cell(x, s).size = s
  BY DEF Cell
<1>13. \A d \in FreeOf(W) : d.off = o => W[o] > 0 /\ d = Cell(o, W[o])
  BY FreeFacts
<1>14. \A d \in LiveOf(W) : d.off = o => W[o] < 0 /\ d = Cell(o, -W[o])
  <2> TAKE d \in LiveOf(W)
  <2>1. W[d.off] = -d.size /\ d = Cell(d.off, d.size) /\ d.size \in Nat /\ d.size > 0
    BY LiveFacts
  <2> QED BY <2>1
<1>15. ASSUME W[o] > 0
       PROVE  /\ FreeOf(V) = FreeOf(W) \ {Cell(o, W[o])}
              /\ LiveOf(V) = LiveOf(W) \cup {Cell(o, W[o])} /\ Cell(o, W[o]) \notin LiveOf(W)
              /\ Merged(W) => Merged(V)
  <2>1. ~(V[o] > 0) /\ V[o] < 0 /\ -V[o] = W[o]
    BY <1>1, <1>8, <1>15 DEF v
  <2>2. ASSUME NEW d PROVE d \in FreeOf(V) <=> d \in FreeOf(W) \ {Cell(o, W[o])}
    BY <1>11, <1>12, <1>13, <2>1 DEF K
  <2>3. ASSUME NEW d PROVE d \in LiveOf(V) <=> d \in LiveOf(W) \cup {Cell(o, W[o])}
    <3>1. d \in LiveOf(W) => d.off # o
      BY <1>1, <1>14, <1>15
    <3>2. d \in LiveOf(V) <=> d \in LiveOf(W) \/ d = Cell(o, -V[o])
      BY <1>9, <1>11, <2>1, <3>1 DEF K
    <3> QED BY <2>1, <3>2
  <2>4. Cell(o, W[o]) \notin LiveOf(W)
    BY <1>1, <1>12, <1>14, <1>15
  <2>5. Merged(W) => Merged(V)
    BY <1>8, <1>9, <2>1 DEF Merged, Heads
  <2>6. FreeOf(V) = FreeOf(W) \ {Cell(o, W[o])}
    BY <2>2
  <2>7. LiveOf(V) = LiveOf(W) \cup {Cell(o, W[o])}
    BY <2>3
  <2> QED BY <2>4, <2>5, <2>6, <2>7
<1>16. ASSUME W[o] < 0
       PROVE  FreeOf(V) = FreeOf(W) \cup {Cell(o, -W[o])} /\ LiveOf(V) = LiveOf(W) \ {Cell(o, -W[o])}
  <2>1. V[o] > 0 /\ ~(V[o] < 0) /\ V[o] = -W[o]
    BY <1>1, <1>8, <1>16 DEF v
  <2>2. ASSUME NEW d PROVE d \in LiveOf(V) <=> d \in LiveOf(W) \ {Cell(o, -W[o])}
    BY <1>11, <1>12, <1>14, <2>1 DEF K
  <2>3. ASSUME NEW d PROVE d \in FreeOf(V) <=> d \in FreeOf(W) \cup {Cell(o, -W[o])}
    <3>1. d \in FreeOf(W) => d.off # o
      BY <1>1, <1>13, <1>16
    <3>2. d \in FreeOf(V) <=> d \in FreeOf(W) \/ d = Cell(o, V[o])
      BY <1>9, <1>11, <2>1, <3>1 DEF K
    <3> QED BY <2>1, <3>2
  <2> QED BY <2>2, <2>3
<1> QED BY <1>8, <1>9, <1>15, <1>16 DEF v

\* Two free cells are joined.
LEMMA JoinCells ==
  ASSUME NEW W, NEW B, NEW end, BinsRight(B, end), Laid(W, B),
         NEW p \in Heads(W), NEW q \in Heads(W), W[p] > 0, W[q] > 0, p + W[p] = q,
         NEW V, Join(W, V, p, q)
  PROVE  /\ FreeOf(V) = (FreeOf(W) \ {Cell(p, W[p]), Cell(q, W[q])}) \cup {Cell(p, W[p] + W[q])}
         /\ LiveOf(V) = LiveOf(W)
<1>1. /\ Laid(V, B) /\ Heads(V) = Heads(W) \ {q} /\ p # q
      /\ V[p] = W[p] + W[q] /\ V[q] = 0 /\ \A x \in Offset : x # p /\ x # q => V[x] = W[x]
  BY JoinHeads
<1>2. W[p] \in Int /\ W[q] \in Int
  BY HeadFacts
<1>3. V[p] > 0 /\ ~(V[p] < 0)
  BY <1>1, <1>2
<1> DEFINE K == {p, q}
<1>4. ChangedAt(W, V, K)
  BY <1>1 DEF ChangedAt, Heads
<1> HIDE DEF K
<1>5. /\ \A d : d \in FreeOf(V) <=> \/ d \in FreeOf(W) /\ d.off \notin K
                                    \/ \E x \in Heads(V) : x \in K /\ V[x] > 0 /\ d = Cell(x, V[x])
      /\ \A d : d \in LiveOf(V) <=> \/ d \in LiveOf(W) /\ d.off \notin K
                                    \/ \E x \in Heads(V) : x \in K /\ V[x] < 0 /\ d = Cell(x, -V[x])
  BY <1>4, CellsChange
<1>6. \A x, s : Cell(x, s).off = x /\ Cell(x, s).size = s
  BY DEF Cell
<1>7. \A d \in FreeOf(W) : d = Cell(d.off, W[d.off])
  BY FreeFacts
<1>8. \A d \in LiveOf(W) : d.off # p /\ d.off # q
  <2> TAKE d \in LiveOf(W)
  <2>1. W[d.off] = -d.size /\ d.size \in Nat /\ d.size > 0
    BY LiveFacts
  <2> QED BY <1>2, <2>1
<1>9. ASSUME NEW d
      PROVE  d \in FreeOf(V) <=> d \in (FreeOf(W) \ {Cell(p, W[p]), Cell(q, W[q])}) \cup {Cell(p, W[p] + W[q])}
  <2>1. d \in FreeOf(V) <=> (d \in FreeOf(W) /\ d.off \notin {p, q}) \/ d = Cell(p, V[p])
    BY <1>1, <1>3, <1>5 DEF K
  <2>2. d \in FreeOf(W) => (d.off \in {p, q} <=> d \in {Cell(p, W[p]), Cell(q, W[q])})
    BY <1>6, <1>7
  <2> QED BY <1>1, <2>1, <2>2
<1>10. ASSUME NEW d PROVE d \in LiveOf(V) <=> d \in LiveOf(W)
  BY <1>1, <1>3, <1>5, <1>8 DEF K
<1> QED BY <1>9, <1>10

\* An HBIN is appended: its cell is free.
LEMMA AppendCells ==
  ASSUME NEW W, NEW B, NEW end, BinsRight(B, end), Laid(W, B), PageSize <= end, Merged(W),
         NEW size \in Nat, HbinHeader < size, end + size <= MaxHive,
         NEW V, AppendAt(W, V, end, size), NEW D, MoreBins(B, D, end, size),
         NEW new, new = Cell(end + HbinHeader, size - HbinHeader)
  PROVE  /\ BinsRight(D, end + size) /\ Laid(V, D) /\ Merged(V) /\ LiveOf(V) = LiveOf(W)
         /\ FreeOf(V) = FreeOf(W) \cup {new} /\ new \notin FreeOf(W)
         /\ InBounds(new, end + size) /\ new.off = end + HbinHeader /\ new.size = size - HbinHeader
         /\ End(new) = end + size /\ End(new) \in Offset /\ \A d \in FreeOf(W) : End(d) # End(new)
<1> DEFINE m == end + HbinHeader
           s == size - HbinHeader
<1>1. /\ BinsRight(D, end + size) /\ Laid(V, D) /\ Heads(V) = Heads(W) \cup {m} /\ m \in Offset
      /\ m \notin Heads(W) /\ V[m] = s /\ \A x \in Heads(W) : V[x] = W[x] /\ x < end
  BY AppendBin
<1>2. end \in Nat /\ end <= MaxHive /\ HbinHeader \in Nat /\ HbinHeader > 0 /\ PageSize \in Nat /\ MaxHive \in Nat
  BY Constants DEF BinsRight
<1>3. m \in Nat /\ s \in Nat /\ s > 0 /\ m + s = end + size /\ end < m /\ end + size \in Offset
  BY <1>2, Constants
<1>4. /\ new.off = m /\ new.size = s /\ End(new) = end + size /\ InBounds(new, end + size) /\ End(new) \in Offset
      /\ Cell(m, s) = new
  <2>1. new.off = m /\ new.size = s /\ Cell(m, s) = new
    BY DEF Cell
  <2>2. End(new) = end + size
    BY <1>3, <2>1 DEF End
  <2> QED BY <1>2, <1>3, <2>1, <2>2 DEF InBounds
<1> HIDE DEF m, s
<1> DEFINE K == {m}
<1>5. ChangedAt(W, V, K)
  BY <1>1 DEF ChangedAt
<1> HIDE DEF K
<1>6. /\ \A d : d \in FreeOf(V) <=> \/ d \in FreeOf(W) /\ d.off \notin K
                                    \/ \E x \in Heads(V) : x \in K /\ V[x] > 0 /\ d = Cell(x, V[x])
      /\ \A d : d \in LiveOf(V) <=> \/ d \in LiveOf(W) /\ d.off \notin K
                                    \/ \E x \in Heads(V) : x \in K /\ V[x] < 0 /\ d = Cell(x, -V[x])
  BY <1>5, CellsChange
<1>7. \A d \in FreeOf(W) : d.off # m /\ End(d) # end + size
  <2> TAKE d \in FreeOf(W)
  <2>1. d.off \in Heads(W) /\ End(d) \in Offset /\ End(d) <= end
    BY FreeFacts
  <2>2. End(d) \in Nat
    BY <2>1, Constants
  <2> QED BY <1>1, <1>2, <1>3, <2>1, <2>2
<1>8. \A d \in LiveOf(W) : d.off # m
  <2> TAKE d \in LiveOf(W)
  <2>1. d.off \in Heads(W)
    BY LiveFacts
  <2> QED BY <1>1, <2>1
<1>9. V[m] > 0 /\ ~(V[m] < 0) /\ m \in Heads(V)
  BY <1>1, <1>3
<1>10. ASSUME NEW d PROVE d \in FreeOf(V) <=> d \in FreeOf(W) \cup {new}
  <2>1. d \in FreeOf(V) <=> (d \in FreeOf(W) /\ d.off \notin {m}) \/ d = Cell(m, V[m])
    BY <1>6, <1>9 DEF K
  <2> QED BY <1>1, <1>4, <1>7, <2>1
<1>11. ASSUME NEW d PROVE d \in LiveOf(V) <=> d \in LiveOf(W)
  BY <1>6, <1>8, <1>9 DEF K
<1>12. new \notin FreeOf(W)
  BY <1>4, <1>7
<1>13. Merged(V)
  <2> SUFFICES ASSUME NEW x \in Heads(V), NEW y \in Heads(V), V[x] > 0, V[y] > 0, x + V[x] = y PROVE FALSE
    BY DEF Merged
  <2>1. \A z \in Heads(W) : /\ z \in Nat /\ W[z] \in Int /\ V[z] = W[z] /\ z < end
                            /\ (W[z] > 0 => z + W[z] <= end)
    BY <1>1, HeadFacts
  <2>2. CASE x = m
    <3>1. y = end + size
      BY <1>1, <1>3, <2>2
    <3>2. y # m
      BY <1>3, <3>1
    <3>3. y \in Heads(W)
      BY <1>1, <3>2
    <3> QED BY <1>2, <2>1, <3>1, <3>3
  <2>3. CASE x # m /\ y = m
    <3>1. x \in Heads(W)
      BY <1>1, <2>3
    <3> QED BY <1>2, <1>3, <2>1, <2>3, <3>1
  <2>4. CASE x # m /\ y # m
    <3>1. x \in Heads(W) /\ y \in Heads(W)
      BY <1>1, <2>4
    <3> QED BY <2>1, <3>1 DEF Merged
  <2> QED BY <2>2, <2>3, <2>4
<1>14. FreeOf(V) = FreeOf(W) \cup {new}
  BY <1>10
<1>15. LiveOf(V) = LiveOf(W)
  BY <1>11
<1> QED BY <1>1, <1>4, <1>7, <1>12, <1>13, <1>14, <1>15 DEF m, s

\* The file is cut off at the end of a bin behind the allocated cells.
LEMMA CutCells ==
  ASSUME NEW W, NEW B, NEW end, BinsRight(B, end), Laid(W, B), Merged(W), NEW cut, \E b \in B : b.end = cut,
         NEW V, Cut(W, V, cut), NEW D, FewerBins(B, D, cut),
         \A c \in LiveOf(W) : End(c) <= cut
  PROVE  /\ BinsRight(D, cut) /\ Laid(V, D) /\ Merged(V) /\ LiveOf(V) = LiveOf(W)
         /\ \A b \in D : b.end <= cut
         /\ \A b \in B \ D : cut <= b.start
<1>1. /\ BinsRight(D, cut) /\ Laid(V, D)
      /\ Heads(V) = {o \in Heads(W) : o < cut} /\ \A o \in Heads(V) : V[o] = W[o]
      /\ \A b \in D : b.end <= cut
      /\ \A b \in B \ D : cut <= b.start
  BY CutBins
<1>2. Merged(V)
  BY <1>1 DEF Merged
<1>3. ASSUME NEW d PROVE d \in LiveOf(V) <=> d \in LiveOf(W)
  <2>1. \A o \in Heads(V) : o \in Heads(W) /\ V[o] = W[o]
    BY <1>1
  <2>2. ASSUME d \in LiveOf(V) PROVE d \in LiveOf(W)
    BY <2>1, <2>2 DEF LiveOf
  <2>3. ASSUME d \in LiveOf(W) PROVE d \in LiveOf(V)
    <3>1. /\ d.off \in Heads(W) /\ W[d.off] = -d.size /\ d = Cell(d.off, d.size) /\ d.size \in Nat /\ d.size > 0
          /\ d.off \in Nat /\ End(d) = d.off + d.size
      BY <2>3, LiveFacts
    <3>2. cut \in Nat
      BY <1>1, Constants DEF BinsRight
    <3>3. d.off < cut
      BY <2>3, <3>1, <3>2
    <3>4. d.off \in Heads(V) /\ V[d.off] = W[d.off]
      BY <1>1, <3>1, <3>3
    <3>5. V[d.off] < 0 /\ d = Cell(d.off, -V[d.off])
      <4>1. -V[d.off] = d.size /\ V[d.off] < 0
        BY <3>1, <3>4
      <4> QED BY <3>1, <4>1
    <3> QED BY <3>4, <3>5 DEF LiveOf
  <2> QED BY <2>2, <2>3
<1>4. LiveOf(V) = LiveOf(W)
  BY <1>3
<1> QED BY <1>1, <1>2, <1>4

\* Looking a free cell up on its list finds it and nothing else.
LEMMA ListedRight ==
  ASSUME NEW W, NEW B, NEW end, BinsRight(B, end), Laid(W, B), NEW F, F \subseteq FreeOf(W), NEW c \in F, NEW E
  PROVE  RemoveCell(F, c) = F \ {c} /\ RemoveIdx(E, F, c) = Drop(E, c)
<1>1. ASSUME NEW d \in F, d.off = c.off PROVE d = c
  BY <1>1, FreeApart
<1>2. Listed(F, c) = {c}
  BY <1>1 DEF Listed
<1> QED BY <1>2 DEF RemoveCell, RemoveIdx, Drop

(***************************************************************************)
(* Free, in two stages.  Between them the freed cell is on no list yet and *)
(* a free cell may end where it begins.                                    *)
(***************************************************************************)
Both(c, d) == Cell(c.off, c.size + d.size)

Loose(X, F, c, E) ==
  /\ FreeOf(X) = F \cup {c} /\ c \notin F /\ IdxRight(E, F)
  /\ \A x, y \in Heads(X) : X[x] > 0 /\ X[y] > 0 /\ x + X[x] = y => y = c.off

\* The cell after the freed one is not free.
LEMMA FreedAlone ==
  ASSUME NEW W, NEW B, NEW end, BinsRight(B, end), Laid(W, B), Merged(W), NEW E, IdxRight(E, FreeOf(W)),
         NEW a \in LiveOf(W), ~(a.off + a.size \in Heads(W) /\ W[a.off + a.size] > 0),
         NEW X, Put(W, X, a.off, a.size)
  PROVE  Laid(X, B) /\ LiveOf(X) = LiveOf(W) \ {a} /\ Loose(X, FreeOf(W), a, E)
<1> DEFINE o == a.off
<1>1. o \in Heads(W) /\ W[o] = -a.size /\ a = Cell(o, a.size) /\ a.size \in Nat /\ a.size > 0 /\ o \in Nat /\ -W[o] = a.size /\ W[o] < 0
  <2>1. o \in Heads(W) /\ W[o] = -a.size /\ a = Cell(o, a.size) /\ a.size \in Nat /\ a.size > 0 /\ o \in Nat
    BY LiveFacts
  <2> QED BY <2>1
<1>2. Put(W, X, o, -W[o])
  BY <1>1
<1> HIDE DEF o
<1>3. /\ Laid(X, B) /\ Heads(X) = Heads(W) /\ X[o] = -W[o] /\ \A x \in Offset : x # o => X[x] = W[x]
      /\ FreeOf(X) = FreeOf(W) \cup {Cell(o, -W[o])} /\ LiveOf(X) = LiveOf(W) \ {Cell(o, -W[o])}
  BY <1>1, <1>2, FlipHead
<1>4. a \notin FreeOf(W)
  <2> SUFFICES ASSUME a \in FreeOf(W) PROVE FALSE
    OBVIOUS
  <2>1. W[o] = a.size
    BY FreeFacts DEF o
  <2> QED BY <1>1, <2>1
<1>5. ASSUME NEW x \in Heads(X), NEW y \in Heads(X), X[x] > 0, X[y] > 0, x + X[x] = y PROVE y = o
  <2> SUFFICES ASSUME y # o PROVE FALSE
    OBVIOUS
  <2>1. x \in Heads(W) /\ y \in Heads(W) /\ x \in Offset /\ y \in Offset
    BY <1>3 DEF Heads
  <2>2. X[y] = W[y]
    BY <1>3, <2>1
  <2>3. CASE x = o
    <3>1. y = o + a.size
      BY <1>1, <1>3, <1>5, <2>3
    <3> QED BY <1>5, <2>1, <2>2, <3>1 DEF o
  <2>4. CASE x # o
    <3>1. X[x] = W[x]
      BY <1>3, <2>1, <2>4
    <3> QED BY <1>5, <2>1, <2>2, <3>1 DEF Merged
  <2> QED BY <2>3, <2>4
<1>6. Cell(o, -W[o]) = a
  BY <1>1
<1>7. Loose(X, FreeOf(W), a, E)
  BY <1>3, <1>4, <1>5, <1>6 DEF Loose, o
<1> QED BY <1>3, <1>6, <1>7

\* It is, and is taken off its list.
LEMMA FreedJoined ==
  ASSUME NEW W, NEW B, NEW end, BinsRight(B, end), Laid(W, B), Merged(W), NEW E, IdxRight(E, FreeOf(W)),
         NEW a \in LiveOf(W), NEW succ \in FreeOf(W), succ.off = a.off + a.size,
         NEW U, Put(W, U, a.off, a.size), NEW X, Join(U, X, a.off, succ.off)
  PROVE  /\ Laid(X, B) /\ LiveOf(X) = LiveOf(W) \ {a}
         /\ Loose(X, FreeOf(W) \ {succ}, Both(a, succ), Drop(E, succ))
         /\ X[a.off] = Both(a, succ).size /\ X[succ.off] = 0
         /\ \A x \in Offset : x # a.off /\ x # succ.off => X[x] = W[x]
<1> DEFINE o == a.off
           next == succ.off
           mid == Both(a, succ)
<1>0. next \in Heads(W) /\ W[next] = succ.size /\ W[next] > 0 /\ succ = Cell(next, W[next]) /\ next = o + a.size
  <2>1. next \in Heads(W) /\ W[next] = succ.size /\ succ.size > 0 /\ succ = Cell(next, succ.size)
    BY FreeFacts
  <2> QED BY <2>1
<1>1. /\ o \in Heads(W) /\ W[o] = -a.size /\ a = Cell(o, a.size) /\ a.size \in Nat /\ a.size > 0 /\ o \in Nat
      /\ -W[o] = a.size /\ W[o] < 0
  <2>1. o \in Heads(W) /\ W[o] = -a.size /\ a = Cell(o, a.size) /\ a.size \in Nat /\ a.size > 0 /\ o \in Nat
    BY LiveFacts
  <2> QED BY <2>1
<1>2. next # o /\ next \in Offset /\ next \in Nat /\ W[next] \in Int
  <2>1. next \in Offset /\ next \in Nat /\ W[next] \in Int
    BY <1>0, HeadFacts DEF Heads
  <2> QED BY <1>0, <1>1, <2>1
<1>3. /\ Put(W, U, o, -W[o]) /\ Join(U, X, o, next) /\ next = o + a.size /\ mid = Cell(o, a.size + W[next])
      /\ succ = Cell(next, W[next]) /\ next \in Heads(W) /\ W[next] > 0
  BY <1>0, <1>1 DEF Both
<1> HIDE DEF o, next, mid
<1>4. /\ Laid(U, B) /\ Heads(U) = Heads(W) /\ U[o] = -W[o] /\ \A x \in Offset : x # o => U[x] = W[x]
      /\ FreeOf(U) = FreeOf(W) \cup {Cell(o, -W[o])} /\ LiveOf(U) = LiveOf(W) \ {Cell(o, -W[o])}
  BY <1>1, <1>3, FlipHead
<1>5. U[o] = a.size /\ U[next] = W[next] /\ U[o] > 0 /\ U[next] > 0 /\ o + U[o] = next /\ o \in Heads(U) /\ next \in Heads(U)
  BY <1>1, <1>2, <1>3, <1>4
<1>6. /\ Laid(X, B) /\ Heads(X) = Heads(U) \ {next} /\ o # next
      /\ X[o] = U[o] + U[next] /\ X[next] = 0 /\ \A x \in Offset : x # o /\ x # next => X[x] = U[x]
  BY <1>3, <1>4, <1>5, JoinHeads
<1>7. /\ FreeOf(X) = (FreeOf(U) \ {Cell(o, U[o]), Cell(next, U[next])}) \cup {Cell(o, U[o] + U[next])}
      /\ LiveOf(X) = LiveOf(U)
  BY <1>3, <1>4, <1>5, JoinCells
<1>8. Cell(o, U[o]) = a /\ Cell(o, -W[o]) = a /\ Cell(next, U[next]) = succ /\ Cell(o, U[o] + U[next]) = mid
  BY <1>1, <1>3, <1>5
<1>9. a \notin FreeOf(W)
  <2> SUFFICES ASSUME a \in FreeOf(W) PROVE FALSE
    OBVIOUS
  <2>1. W[o] = a.size
    BY FreeFacts DEF o
  <2> QED BY <1>1, <2>1
<1>10. FreeOf(X) = (FreeOf(W) \ {succ}) \cup {mid}
  BY <1>4, <1>7, <1>8, <1>9
<1>11. succ \in FreeOf(W)
  OBVIOUS
<1>12. mid.off = o /\ mid.size = a.size + W[next]
  BY <1>3 DEF Cell
<1>13. mid \notin FreeOf(W)
  <2> SUFFICES ASSUME mid \in FreeOf(W) PROVE FALSE
    OBVIOUS
  <2>1. W[o] = mid.size /\ mid.size \in Nat
    BY <1>12, FreeFacts
  <2> QED BY <1>1, <2>1
<1>14. IdxRight(Drop(E, succ), FreeOf(W) \ {succ})
  <2>1. End(succ) \in Offset
    BY <1>11, FreeFacts
  <2>2. \A c, d \in FreeOf(W) : End(c) = End(d) => c = d
    BY FreeApart
  <2> QED BY <1>11, <2>1, <2>2, IdxRemoved
<1>15. ASSUME NEW x \in Heads(X), NEW y \in Heads(X), X[x] > 0, X[y] > 0, x + X[x] = y PROVE y = o
  <2> SUFFICES ASSUME y # o PROVE FALSE
    OBVIOUS
  <2>1. x \in Heads(W) /\ y \in Heads(W) /\ x \in Offset /\ y \in Offset /\ x # next /\ y # next
    BY <1>4, <1>6 DEF Heads
  <2>2. X[y] = W[y] /\ W[y] > 0
    BY <1>4, <1>6, <1>15, <2>1
  <2>3. CASE x = o
    <3>1. y = next + W[next]
      BY <1>1, <1>2, <1>3, <1>5, <1>6, <1>15, <2>3
    <3> QED BY <1>3, <2>1, <2>2, <3>1 DEF Merged
  <2>4. CASE x # o
    <3>1. X[x] = W[x]
      BY <1>4, <1>6, <2>1, <2>4
    <3> QED BY <1>15, <2>1, <2>2, <3>1 DEF Merged
  <2> QED BY <2>3, <2>4
<1>16. Loose(X, FreeOf(W) \ {succ}, mid, Drop(E, succ))
  BY <1>10, <1>12, <1>13, <1>14, <1>15 DEF Loose
<1>17. LiveOf(X) = LiveOf(W) \ {a}
  BY <1>4, <1>7, <1>8
<1>18. X[o] = mid.size /\ X[next] = 0 /\ \A x \in Offset : x # o /\ x # next => X[x] = W[x]
  BY <1>4, <1>5, <1>6, <1>12
<1> QED BY <1>6, <1>11, <1>16, <1>17, <1>18 DEF o, next, mid

\* No free cell ends where it begins.
LEMMA LooseAlone ==
  ASSUME NEW X, NEW B, NEW end, BinsRight(B, end), Laid(X, B), NEW F, NEW c, NEW E, Loose(X, F, c, E),
         \A p \in F : End(p) # c.off
  PROVE  /\ Merged(X) /\ E[c.off] = 0
         /\ InsertCell(F, c, end) = FreeOf(X) /\ IdxRight(InsertIdx(E, c, end), FreeOf(X))
<1>1. FreeOf(X) = F \cup {c} /\ c \notin F /\ IdxRight(E, F)
  BY DEF Loose
<1>2. c \in FreeOf(X) /\ c.off \in Offset /\ c.off \in Int /\ End(c) \in Offset /\ InBounds(c, end)
  <2>1. c \in FreeOf(X)
    BY <1>1
  <2>2. c.off \in Nat
    BY <2>1, FreeFacts
  <2> QED BY <2>1, <2>2, FreeFacts
<1>3. \A d \in F : End(d) # End(c)
  <2> SUFFICES ASSUME NEW d \in F, End(d) = End(c) PROVE FALSE
    OBVIOUS
  <2>1. d = c
    BY <1>1, <1>2, FreeApart
  <2> QED BY <1>1, <2>1
<1>4. IdxRight([E EXCEPT ![End(c)] = c.off], F \cup {c})
  BY <1>1, <1>2, <1>3, IdxAdded
<1>5. E[c.off] = 0
  BY <1>1, <1>2 DEF IdxRight
<1>6. Merged(X)
  <2> SUFFICES ASSUME NEW x \in Heads(X), NEW y \in Heads(X), X[x] > 0, X[y] > 0, x + X[x] = y PROVE FALSE
    BY DEF Merged
  <2>1. y = c.off
    BY DEF Loose
  <2>2. Cell(x, X[x]) \in FreeOf(X) /\ Cell(x, X[x]).off = x /\ End(Cell(x, X[x])) = y
    BY DEF FreeOf, Cell, End
  <2>3. Cell(x, X[x]) # c
    <3>1. x \in Nat /\ X[x] \in Int
      BY HeadFacts
    <3> QED BY <2>1, <2>2, <3>1
  <2> QED BY <1>1, <2>1, <2>2, <2>3
<1> QED BY <1>1, <1>2, <1>4, <1>5, <1>6 DEF InsertCell, InsertIdx

\* One does, and the index names it.
LEMMA LooseFound ==
  ASSUME NEW X, NEW B, NEW end, BinsRight(B, end), Laid(X, B), NEW F, NEW c, NEW E, Loose(X, F, c, E),
         NEW p \in F, End(p) = c.off
  PROVE  E[c.off] = p.off /\ E[c.off] # 0
<1>1. FreeOf(X) = F \cup {c} /\ IdxRight(E, F) /\ p \in FreeOf(X) /\ c \in FreeOf(X)
  BY DEF Loose
<1>2. c.off \in Offset
  BY <1>1, FreeFacts
<1>3. p.off \in Nat /\ PageSize + HbinHeader <= p.off
  BY <1>1, FreeFacts
<1>4. E[c.off] = p.off
  BY <1>1, <1>2 DEF IdxRight
<1> QED BY <1>3, <1>4, Constants

\* It is taken off its list.
LEMMA LooseJoined ==
  ASSUME NEW X, NEW B, NEW end, BinsRight(B, end), Laid(X, B), NEW F, NEW c, NEW E, Loose(X, F, c, E),
         NEW p \in F, End(p) = c.off, NEW Y, Join(X, Y, p.off, c.off)
  PROVE  /\ Laid(Y, B) /\ Merged(Y) /\ \A d : d \in LiveOf(Y) <=> d \in LiveOf(X)
         /\ InsertCell(F \ {p}, Both(p, c), end) = FreeOf(Y)
         /\ IdxRight(InsertIdx(Drop(E, p), Both(p, c), end), FreeOf(Y))
<1> DEFINE o == c.off
           q == p.off
           new == Both(p, c)
<1>1. FreeOf(X) = F \cup {c} /\ c \notin F /\ IdxRight(E, F) /\ p \in FreeOf(X) /\ c \in FreeOf(X)
  BY DEF Loose
<1>2. /\ o \in Heads(X) /\ o \in Offset /\ o \in Nat /\ X[o] = c.size /\ c = Cell(o, c.size) /\ c.size \in Nat /\ c.size > 0
  BY <1>1, FreeFacts
<1>3. /\ q \in Heads(X) /\ q \in Offset /\ q \in Nat /\ X[q] = p.size /\ p = Cell(q, p.size) /\ p.size \in Nat /\ p.size > 0
      /\ End(p) = q + p.size /\ PageSize + HbinHeader <= q
  BY <1>1, FreeFacts
<1>4. Join(X, Y, q, o) /\ q + X[q] = o /\ new = Cell(q, p.size + c.size)
  BY <1>3 DEF Both
<1> HIDE DEF o, q, new
<1>6. /\ Laid(Y, B) /\ Heads(Y) = Heads(X) \ {o} /\ q # o
      /\ Y[q] = X[q] + X[o] /\ Y[o] = 0 /\ \A x \in Offset : x # q /\ x # o => Y[x] = X[x]
  BY <1>2, <1>3, <1>4, JoinHeads
<1>7. /\ FreeOf(Y) = (FreeOf(X) \ {Cell(q, X[q]), Cell(o, X[o])}) \cup {Cell(q, X[q] + X[o])}
      /\ LiveOf(Y) = LiveOf(X)
  BY <1>2, <1>3, <1>4, JoinCells
<1>8. FreeOf(Y) = (F \ {p}) \cup {new}
  <2>1. Cell(q, X[q]) = p /\ Cell(o, X[o]) = c /\ Cell(q, X[q] + X[o]) = new
    BY <1>2, <1>3, <1>4
  <2> QED BY <1>1, <1>7, <2>1
<1>9. new.off = q /\ new.size = p.size + c.size /\ new \in FreeOf(Y)
  BY <1>4, <1>8 DEF Cell
<1>10. /\ new.off \in Int /\ End(new) \in Offset /\ InBounds(new, end)
  <2>1. new.off \in Nat /\ End(new) \in Offset /\ InBounds(new, end)
    BY <1>6, <1>9, FreeFacts
  <2> QED BY <2>1
<1>11. new \notin F \ {p}
  <2> SUFFICES ASSUME new \in F \ {p} PROVE FALSE
    OBVIOUS
  <2>1. new = p
    BY <1>1, <1>9, FreeApart DEF q
  <2> QED BY <2>1
<1>12. \A d \in F \ {p} : End(d) # End(new)
  <2> SUFFICES ASSUME NEW d \in F \ {p}, End(d) = End(new) PROVE FALSE
    OBVIOUS
  <2>1. d \in FreeOf(Y)
    BY <1>8
  <2>2. d = new
    BY <1>6, <1>9, <2>1, FreeApart
  <2> QED BY <1>11, <2>2
<1>13. IdxRight(Drop(E, p), F \ {p})
  <2>1. End(p) \in Offset
    BY <1>1, FreeFacts
  <2>2. \A x, y \in F : End(x) = End(y) => x = y
    BY <1>1, FreeApart
  <2> QED BY <1>1, <2>1, <2>2, IdxRemoved
<1> DEFINE G == Drop(E, p)
           H == F \ {p}
<1>14. IdxRight(G, H)
  BY <1>13
<1> HIDE DEF G, H
<1>15. IdxRight([G EXCEPT ![End(new)] = new.off], H \cup {new})
  BY <1>10, <1>12, <1>14, IdxAdded DEF H
<1>16. InsertCell(H, new, end) = FreeOf(Y) /\ IdxRight(InsertIdx(G, new, end), FreeOf(Y))
  BY <1>8, <1>10, <1>15 DEF InsertCell, InsertIdx, H
<1>18. Merged(Y)
  <2> SUFFICES ASSUME NEW x \in Heads(Y), NEW y \in Heads(Y), Y[x] > 0, Y[y] > 0, x + Y[x] = y PROVE FALSE
    BY DEF Merged
  <2>1. x \in Heads(X) /\ y \in Heads(X) /\ x \in Offset /\ y \in Offset /\ x # o /\ y # o
    BY <1>6 DEF Heads
  <2>2. X[y] > 0
    BY <1>2, <1>3, <1>6, <2>1
  <2>3. CASE x = q
    <3>1. o + X[o] = y
      BY <1>2, <1>3, <1>4, <1>6, <2>3
    <3>2. X[o] > 0
      BY <1>2
    <3> QED BY <1>2, <2>1, <2>2, <3>1, <3>2 DEF Loose, o
  <2>4. CASE x # q
    <3>1. Y[x] = X[x]
      BY <1>6, <2>1, <2>4
    <3> QED BY <2>1, <2>2, <3>1 DEF Loose, o
  <2> QED BY <2>3, <2>4
<1> QED BY <1>6, <1>7, <1>16, <1>18 DEF o, q, G, H, new

-----------------------------------------------------------------------------
(***************************************************************************)
(* The end of Alloc.                                                       *)
(***************************************************************************)
\* The remainder ends where the cell did, so that its entry takes the place of
\* the cell's: the one that allocFromLarge leaves in the index is overwritten.
LEMMA IdxSplit ==
  ASSUME NEW E, NEW F, IdxRight(E, F), \A c, d \in F : End(c) = End(d) => c = d,
         NEW c \in F, End(c) \in Offset, NEW tail, tail.off \in Int, End(tail) = End(c)
  PROVE  IdxRight([TakeIdx(E, c) EXCEPT ![End(tail)] = tail.off], (F \ {c}) \cup {tail})
<1> DEFINE T == TakeIdx(E, c)
<1>1. T \in [Offset -> Int] /\ \A e \in Offset : e # End(c) => T[e] = E[e]
  BY DEF TakeIdx, IdxRight
<1> HIDE DEF T
<1> DEFINE G == [T EXCEPT ![End(tail)] = tail.off]
<1>2. G \in [Offset -> Int] /\ G[End(c)] = tail.off /\ \A e \in Offset : e # End(c) => G[e] = E[e]
  BY <1>1
<1> HIDE DEF G
<1>3. IdxRight(G, (F \ {c}) \cup {tail})
  BY <1>2 DEF IdxRight
<1> QED BY <1>3 DEF G, T

LEMMA Placed ==
  ASSUME Classed, NEW W, NEW B, NEW end, BinsRight(B, end), Laid(W, B), Merged(W),
         NEW F, F = FreeOf(W), NEW E, IdxRight(E, F), live = LiveOf(W),
         NEW n \in Needs, NEW c \in F, c.size >= n, Place(c, n, F, W, E, end)
  PROVE  /\ Laid(word', B) /\ Merged(word') /\ free' = FreeOf(word') /\ IdxRight(endIdx', free')
         /\ live' = LiveOf(word') /\ live' = live \cup {Cell(c.off, n)} /\ Cell(c.off, n) \notin live
         /\ \A x \in Offset : word'[x] # W[x] => x \in PlaceMarks(c, n)
<1> DEFINE tail == Cell(c.off + n, c.size - n)
           new == Cell(c.off, n)
<1>1. n \in Nat /\ n > 0
  BY AllocAssumption
<1>2. /\ c.off \in Heads(W) /\ c.off \in Nat /\ W[c.off] = c.size /\ c = Cell(c.off, c.size)
      /\ c.size \in Nat /\ c.size \in Offset /\ End(c) \in Offset
  BY FreeFacts
<1>3. \A d, e \in F : End(d) = End(e) => d = e
  BY FreeApart
<1>4. live' = live \cup {new}
  BY DEF Place
<1>5. CASE c.size > n
  <2>1. /\ word' = [W EXCEPT ![c.off] = -n, ![tail.off] = tail.size]
        /\ free' = InsertCell(F \ {c}, tail, end)
        /\ endIdx' = InsertIdx(TakeIdx(E, c), tail, end)
    BY <1>5 DEF Place
  <2>2. tail.off = c.off + n /\ tail.size = c.size - n /\ tail.off \in Int
    BY <1>1, <1>2 DEF Cell
  <2>3. Split(W, word', c.off, n)
    BY <1>2, <2>1, <2>2 DEF Split
  <2>4. tail = Cell(c.off + n, c.size - n)
    OBVIOUS
  <2>5. n < c.size
    BY <1>1, <1>2, <1>5
  <2> HIDE DEF tail, new
  <2>6. /\ Laid(word', B) /\ Merged(word')
        /\ FreeOf(word') = (FreeOf(W) \ {c}) \cup {tail} /\ InBounds(tail, end) /\ End(tail) = End(c)
        /\ LiveOf(word') = LiveOf(W) \cup {Cell(c.off, n)} /\ Cell(c.off, n) \notin LiveOf(W)
        /\ \A x \in Offset : word'[x] # W[x] => x \in {c.off, c.off + n}
    BY <1>1, <2>3, <2>4, <2>5, PlaceSplit
  <2>7. free' = FreeOf(word')
    BY <2>1, <2>6 DEF InsertCell
  <2>8. IdxRight([TakeIdx(E, c) EXCEPT ![End(tail)] = tail.off], (F \ {c}) \cup {tail})
    BY <1>2, <1>3, <2>2, <2>6, IdxSplit
  <2>9. IdxRight(endIdx', free')
    BY <2>1, <2>6, <2>7, <2>8 DEF InsertIdx
  <2>10. PlaceMarks(c, n) = {c.off, c.off + n}
    BY <1>5 DEF PlaceMarks
  <2> QED BY <1>4, <2>6, <2>7, <2>9, <2>10 DEF new
<1>6. CASE c.size = n
  <2>1. ~(c.size > n)
    BY <1>1, <1>6
  <2>2. word' = [W EXCEPT ![c.off] = -n] /\ free' = F \ {c} /\ endIdx' = TakeIdx(E, c)
    BY <2>1 DEF Place
  <2>3. Put(W, word', c.off, -W[c.off])
    BY <1>2, <1>6, <2>2 DEF Put
  <2>4. W[c.off] > 0 /\ Cell(c.off, W[c.off]) = c /\ new = c
    BY <1>1, <1>2, <1>6
  <2> HIDE DEF new, tail
  <2>5. /\ Laid(word', B) /\ Heads(word') = Heads(W) /\ \A x \in Offset : x # c.off => word'[x] = W[x]
        /\ FreeOf(word') = FreeOf(W) \ {Cell(c.off, W[c.off])}
        /\ LiveOf(word') = LiveOf(W) \cup {Cell(c.off, W[c.off])} /\ Cell(c.off, W[c.off]) \notin LiveOf(W)
        /\ Merged(word')
    BY <1>2, <2>3, <2>4, FlipHead
  <2>6. ~Large(c.size)
    BY <1>2, <1>6, NotLarge
  <2>7. IdxRight(Drop(E, c), F \ {c})
    BY <1>2, <1>3, IdxRemoved
  <2>8. IdxRight(endIdx', free')
    BY <2>2, <2>6, <2>7 DEF TakeIdx, Drop
  <2>9. PlaceMarks(c, n) = {c.off}
    BY <2>1 DEF PlaceMarks
  <2> QED BY <1>4, <2>2, <2>4, <2>5, <2>8, <2>9 DEF new
<1> QED BY <1>1, <1>2, <1>5, <1>6

-----------------------------------------------------------------------------
(***************************************************************************)
(* The inductive invariant.                                                *)
(***************************************************************************)
\* The file and the cells in it, in every state.
CellsSound ==
  /\ fileEnd \in Offset /\ PageSize <= fileEnd
  /\ BinsRight(FileBins, fileEnd) /\ Laid(word, FileBins) /\ Merged(word) /\ live = LiveOf(word)

\* The lists, while they are used.
ListsSound ==
  session = "clean" => bins = FileBins /\ free = FreeOf(word) /\ IdxRight(endIdx, free)

\* The region of a bump batch is the last bin.  Its cells end at the cursor and
\* behind it there is nothing, but for the free cell of an untouched region.
BumpSound ==
  /\ bump \in [active : BOOLEAN, startOff : Nat, capacity : Nat, cursor : Nat]
  /\ session \in {"clean", "bump", "spent", "cut"} /\ (bump.active <=> session = "bump")
  /\ session = "bump" =>
       /\ bins = FileBins /\ bump.cursor <= bump.capacity
       /\ \E b \in FileBins : /\ b.start + HbinHeader = bump.startOff
                              /\ b.end = bump.startOff + bump.capacity /\ b.end = fileEnd
       /\ bump.cursor = 0 => word[bump.startOff] = bump.capacity
       /\ bump.cursor > 0 => \E p \in Heads(word) : word[p] < 0 /\ p + Abs(word[p]) = bump.startOff + bump.cursor
       /\ \A h \in Heads(word) : bump.startOff + bump.cursor <= h => bump.cursor = 0 /\ h = bump.startOff

Inv == CellsSound /\ ListsSound /\ BumpSound /\ NeverStuck

\* What every step does: it keeps the invariant, is a step of the cell store or
\* leaves that alone, and marks the headers it writes.
StoreStep == Store!Next \/ UNCHANGED <<live, FileBins>>
MarksStep == \A o \in Offset : word'[o] # word[o] /\ word'[o] # 0 => o \in marked'
StepSound == Inv' /\ StoreStep /\ MarksStep

LEMMA SameBins ==
  ASSUME NEW B, NEW end, BinsRight(B, end)
  PROVE  {b \in B : b.start < end} = B
<1>1. ASSUME NEW b \in B PROVE b.start < end
  <2>1. b.start \in Nat /\ b.end \in Nat /\ end \in Nat /\ b.start + HbinHeader < b.end /\ b.end <= end
    BY BinFacts
  <2> QED BY <2>1, Constants
<1> QED BY <1>1

\* A step of an allocator that serves list requests.
LEMMA Serves ==
  ASSUME Inv, session = "clean", session' = session, bump' = bump,
         fileEnd' \in Offset, PageSize <= fileEnd', BinsRight(bins', fileEnd'),
         Laid(word', bins'), Merged(word'), live' = LiveOf(word'),
         free' = FreeOf(word'), IdxRight(endIdx', free'), res' \notin {"nospace", "badref"}
  PROVE  Inv' /\ FileBins' = bins'
<1>1. FileBins' = bins'
  <2>1. {b \in bins' : b.start < fileEnd'} = bins'
    BY SameBins
  <2> QED BY <2>1 DEF FileBins
<1>2. CellsSound'
  BY <1>1 DEF CellsSound
<1>3. ListsSound'
  BY <1>1 DEF ListsSound
<1>4. BumpSound'
  BY DEF Inv, BumpSound
<1>5. NeverStuck'
  BY DEF NeverStuck
<1> QED BY <1>1, <1>2, <1>3, <1>4, <1>5 DEF Inv

\* What it finds.
LEMMA Serving ==
  ASSUME Inv, session = "clean"
  PROVE  /\ fileEnd \in Offset /\ fileEnd \in Nat /\ PageSize <= fileEnd
         /\ bins = FileBins /\ BinsRight(bins, fileEnd) /\ Laid(word, bins) /\ Merged(word)
         /\ live = LiveOf(word) /\ free = FreeOf(word) /\ IdxRight(endIdx, free) /\ ~bump.active
  BY Constants DEF Inv, CellsSound, ListsSound, BumpSound

LEMMA AllocFastStep ==
  ASSUME Classed, Inv, session = "clean", NEW n \in Needs, AllocFast(n), UNCHANGED <<bump, session>>
  PROVE  StepSound
<1>1. /\ fileEnd \in Offset /\ fileEnd \in Nat /\ PageSize <= fileEnd
      /\ bins = FileBins /\ BinsRight(bins, fileEnd) /\ Laid(word, bins) /\ Merged(word)
      /\ live = LiveOf(word) /\ free = FreeOf(word) /\ IdxRight(endIdx, free)
  BY Serving
<1>2. PICK c \in Choice(free, n) :
        /\ IF End(c) > fileEnd
             THEN /\ res' = "badref"
                  /\ free' = free \ {c} /\ endIdx' = TakeIdx(endIdx, c)
                  /\ UNCHANGED <<word, live>>
                  /\ marked' = {}
             ELSE /\ res' = "ok"
                  /\ Place(c, n, free, word, endIdx, fileEnd)
                  /\ marked' = PlaceMarks(c, n)
        /\ UNCHANGED <<fileEnd, dataSize, bins>>
  BY DEF AllocFast
<1>3. c \in free /\ c.size >= n
  BY ChoiceFits
<1>4. ~(End(c) > fileEnd)
  <2>1. End(c) \in Offset /\ End(c) <= fileEnd
    BY <1>1, <1>3, FreeFacts
  <2> QED BY <1>1, <2>1, Constants
<1>5. res' = "ok" /\ Place(c, n, free, word, endIdx, fileEnd) /\ marked' = PlaceMarks(c, n)
      /\ UNCHANGED <<fileEnd, bins>>
  BY <1>2, <1>4
<1>6. /\ Laid(word', bins) /\ Merged(word') /\ free' = FreeOf(word') /\ IdxRight(endIdx', free')
      /\ live' = LiveOf(word') /\ live' = live \cup {Cell(c.off, n)} /\ Cell(c.off, n) \notin live
      /\ \A x \in Offset : word'[x] # word[x] => x \in PlaceMarks(c, n)
  BY <1>1, <1>3, <1>5, Placed
<1>7. Inv' /\ FileBins' = bins'
  BY <1>1, <1>5, <1>6, Serves
<1>8. Store!CellsOK(live', FileBins')
  BY <1>1, <1>5, <1>6, <1>7, LaidIsOK
<1>9. Store!Next
  <2>1. Cell(c.off, n).size = n
    BY DEF Cell
  <2>2. Store!Extend(FileBins)
    BY <1>1, <1>5, <1>7 DEF Store!Extend
  <2>3. Store!Alloc(n)
    BY <1>6, <1>8, <2>1, <2>2 DEF Store!Alloc
  <2> QED BY <2>3 DEF Store!Next
<1>10. MarksStep
  BY <1>5, <1>6 DEF MarksStep
<1> QED BY <1>7, <1>9, <1>10 DEF StepSound, StoreStep

LEMMA AllocFailsStep ==
  ASSUME Inv, session = "clean", NEW n \in Needs, AllocFails(n), UNCHANGED <<bump, session>>
  PROVE  StepSound
<1>1. UNCHANGED <<fileEnd, word, free, endIdx, bins, live>> /\ res' \in {"limit", "growfail"}
  BY DEF AllocFails, heap
<1>2. FileBins' = FileBins
  BY <1>1 DEF FileBins
<1>3. Inv'
  BY <1>1, <1>2 DEF Inv, CellsSound, ListsSound, BumpSound, NeverStuck
<1> QED BY <1>1, <1>2, <1>3 DEF StepSound, StoreStep, MarksStep

\* growByHBINSize.
LEMMA Grown ==
  ASSUME Inv, session = "clean", NEW size \in Nat, HbinHeader < size, fileEnd + size <= MaxHive,
         NEW V, V = NewHbinWords(size), NEW D, MoreBins(bins, D, fileEnd, size)
  PROVE  /\ fileEnd + size \in Offset /\ PageSize <= fileEnd + size
         /\ BinsRight(D, fileEnd + size) /\ Laid(V, D) /\ Merged(V) /\ LiveOf(V) = live
         /\ InsertCell(free, Master(size), fileEnd + size) = FreeOf(V)
         /\ IdxRight(InsertIdx(endIdx, Master(size), fileEnd + size), FreeOf(V))
         /\ Master(size) \in FreeOf(V) /\ Master(size).off = fileEnd + HbinHeader
         /\ Master(size).size = size - HbinHeader
         /\ \A x \in Offset : V[x] # word[x] => x \in NewHbinMarks(size)
         /\ V[fileEnd + HbinHeader] = size - HbinHeader
         /\ \A x \in Heads(V) : x < fileEnd \/ x = fileEnd + HbinHeader
<1> DEFINE new == Master(size)
<1>1. /\ fileEnd \in Offset /\ fileEnd \in Nat /\ PageSize <= fileEnd
      /\ bins = FileBins /\ BinsRight(bins, fileEnd) /\ Laid(word, bins) /\ Merged(word)
      /\ live = LiveOf(word) /\ free = FreeOf(word) /\ IdxRight(endIdx, free)
  BY Serving
<1>2. new = Cell(fileEnd + HbinHeader, size - HbinHeader)
  BY DEF Master
<1>3. AppendAt(word, V, fileEnd, size)
  BY DEF AppendAt, NewHbinWords, Master, Cell
<1> HIDE DEF new
<1>4. /\ BinsRight(D, fileEnd + size) /\ Laid(V, D) /\ Merged(V) /\ LiveOf(V) = LiveOf(word)
      /\ FreeOf(V) = FreeOf(word) \cup {new} /\ new \notin FreeOf(word)
      /\ InBounds(new, fileEnd + size) /\ new.off = fileEnd + HbinHeader /\ new.size = size - HbinHeader
      /\ End(new) = fileEnd + size /\ End(new) \in Offset /\ \A d \in FreeOf(word) : End(d) # End(new)
  BY <1>1, <1>2, <1>3, AppendCells
<1>5. new.off \in Int
  BY <1>1, <1>4, Constants
<1>6. IdxRight([endIdx EXCEPT ![End(new)] = new.off], free \cup {new})
  BY <1>1, <1>4, <1>5, IdxAdded
<1>7. InsertCell(free, new, fileEnd + size) = FreeOf(V) /\ IdxRight(InsertIdx(endIdx, new, fileEnd + size), FreeOf(V))
  BY <1>1, <1>4, <1>6 DEF InsertCell, InsertIdx
<1>8. fileEnd + size \in Offset /\ PageSize <= fileEnd + size
  BY <1>1, Constants
<1>9. ASSUME NEW x \in Offset, V[x] # word[x] PROVE x \in NewHbinMarks(size)
  <2>1. x = fileEnd \/ x = fileEnd + HbinHeader
    BY <1>1, <1>3, <1>9 DEF AppendAt, Laid
  <2>2. x \in fileEnd..(fileEnd + size - 1)
    BY <1>1, <2>1, Constants
  <2> QED BY <2>2 DEF NewHbinMarks
<1>10. /\ \A x \in Heads(V) : x < fileEnd \/ x = fileEnd + HbinHeader
       /\ V[fileEnd + HbinHeader] = size - HbinHeader
  <2>1. /\ Heads(V) = Heads(word) \cup {fileEnd + HbinHeader} /\ V[fileEnd + HbinHeader] = size - HbinHeader
        /\ \A x \in Heads(word) : V[x] = word[x] /\ x < fileEnd
    BY <1>1, <1>3, AppendBin
  <2> QED BY <2>1
<1> QED BY <1>1, <1>4, <1>7, <1>8, <1>9, <1>10 DEF new

\* To the cell store, growth is a bin behind all others.
LEMMA Extends ==
  ASSUME Inv, session = "clean", NEW size, MoreBins(bins, FileBins', fileEnd, size)
  PROVE  Store!Extend(FileBins)
<1>1. bins = FileBins /\ BinsRight(bins, fileEnd)
  BY Serving
<1> DEFINE b == [start |-> fileEnd, end |-> fileEnd + size]
<1>2. FileBins' = FileBins \cup {b}
  BY <1>1 DEF MoreBins
<1>3. b \in FileBins' /\ \A d \in FileBins : d.end <= b.start
  BY <1>1, <1>2 DEF BinsRight
<1> QED BY <1>2, <1>3 DEF Store!Extend

LEMMA AllocGrowStep ==
  ASSUME Classed, Inv, session = "clean", NEW n \in Needs, AllocGrow(n), UNCHANGED <<bump, session>>
  PROVE  StepSound
<1> DEFINE size == GrowSize(n)
           F == InsertCell(free, Master(size), fileEnd + size)
           W == NewHbinWords(size)
           E == InsertIdx(endIdx, Master(size), fileEnd + size)
           D == bins \cup {[start |-> fileEnd, end |-> fileEnd + size]}
<1>1. /\ fileEnd + size <= MaxHive /\ fileEnd' = fileEnd + size /\ bins' = D
      /\ IF Choice(F, n) = {}
           THEN /\ res' = "nospace"
                /\ free' = F /\ word' = W /\ endIdx' = E
                /\ live' = live
                /\ marked' = NewHbinMarks(size)
           ELSE \E c \in Choice(F, n) :
                  /\ res' = "ok"
                  /\ Place(c, n, F, W, E, fileEnd + size)
                  /\ marked' = NewHbinMarks(size) \cup PlaceMarks(c, n)
  BY DEF AllocGrow, AppendHBIN, GrowFile
<1>2. n \in Nat /\ n > 0 /\ size \in Nat /\ n + HbinHeader <= size /\ HbinHeader < size /\ HbinHeader \in Nat
  <2>1. n \in Nat \ {0}
    BY AllocAssumption
  <2>2. size \in Nat /\ n + HbinHeader <= size
    BY <2>1, GrowFits
  <2> HIDE DEF size
  <2> QED BY <2>1, <2>2, Constants
<1>3. MoreBins(bins, D, fileEnd, size)
  BY DEF MoreBins
<1>4. W = NewHbinWords(size)
  OBVIOUS
<1> HIDE DEF size, W, D
<1>5. /\ fileEnd + size \in Offset /\ PageSize <= fileEnd + size
      /\ BinsRight(D, fileEnd + size) /\ Laid(W, D) /\ Merged(W) /\ LiveOf(W) = live
      /\ F = FreeOf(W) /\ IdxRight(E, FreeOf(W))
      /\ Master(size) \in FreeOf(W) /\ Master(size).size = size - HbinHeader
      /\ \A x \in Offset : W[x] # word[x] => x \in NewHbinMarks(size)
  BY <1>1, <1>2, <1>3, <1>4, Grown
<1> HIDE DEF F, E
<1>6. Choice(F, n) # {}
  <2>1. \A c \in F : c.size \in Offset
    BY <1>5, FreeFacts
  <2>2. Master(size).size >= n
    BY <1>2, <1>5
  <2> QED BY <1>2, <1>5, <2>1, <2>2, ChoiceFinds
<1>7. PICK c \in Choice(F, n) : /\ res' = "ok"
                                /\ Place(c, n, F, W, E, fileEnd + size)
                                /\ marked' = NewHbinMarks(size) \cup PlaceMarks(c, n)
  BY <1>1, <1>6
<1>8. c \in F /\ c.size >= n
  BY ChoiceFits
<1>9. /\ Laid(word', D) /\ Merged(word') /\ free' = FreeOf(word') /\ IdxRight(endIdx', free')
      /\ live' = LiveOf(word') /\ live' = live \cup {Cell(c.off, n)} /\ Cell(c.off, n) \notin live
      /\ \A x \in Offset : word'[x] # W[x] => x \in PlaceMarks(c, n)
  BY <1>5, <1>7, <1>8, Placed
<1>10. Inv' /\ FileBins' = bins'
  BY <1>1, <1>5, <1>7, <1>9, Serves
<1>11. Store!CellsOK(live', FileBins')
  BY <1>1, <1>5, <1>9, <1>10, LaidIsOK
<1>12. Store!Next
  <2>1. Cell(c.off, n).size = n
    BY DEF Cell
  <2>2. Store!Extend(FileBins)
    BY <1>1, <1>3, <1>10, Extends
  <2>3. Store!Alloc(n)
    BY <1>9, <1>11, <2>1, <2>2 DEF Store!Alloc
  <2> QED BY <2>3 DEF Store!Next
<1>13. MarksStep
  <2> SUFFICES ASSUME NEW x \in Offset, word'[x] # word[x] PROVE x \in marked'
    BY DEF MarksStep
  <2>1. word'[x] # W[x] \/ W[x] # word[x]
    OBVIOUS
  <2> QED BY <1>5, <1>7, <1>9, <2>1
<1> QED BY <1>10, <1>12, <1>13 DEF StepSound, StoreStep

LEMMA GrowStep ==
  ASSUME Inv, session = "clean", GrowByPages(1), UNCHANGED <<bump, session>>
  PROVE  StepSound
<1> DEFINE size == 1 * PageSize
           D == bins \cup {[start |-> fileEnd, end |-> fileEnd + size]}
<1>1. size \in Nat /\ HbinHeader < size
  BY Constants
<1>2. CASE fileEnd + size > MaxHive
  <2>1. UNCHANGED <<fileEnd, word, free, endIdx, bins, live>> /\ res' = "limit"
    BY <1>2 DEF GrowByPages, heap
  <2>2. FileBins' = FileBins
    BY <2>1 DEF FileBins
  <2>3. Inv'
    BY <2>1, <2>2 DEF Inv, CellsSound, ListsSound, BumpSound, NeverStuck
  <2> QED BY <2>1, <2>2, <2>3 DEF StepSound, StoreStep, MarksStep
<1>3. CASE ~(fileEnd + size > MaxHive)
  <2>1. /\ res' = "ok" /\ fileEnd' = fileEnd + size /\ bins' = D
        /\ word' = NewHbinWords(size) /\ live' = live
        /\ free' = InsertCell(free, Master(size), fileEnd + size)
        /\ endIdx' = InsertIdx(endIdx, Master(size), fileEnd + size)
        /\ marked' = NewHbinMarks(size)
    BY <1>3 DEF GrowByPages, AppendHBIN, GrowFile
  <2>2. MoreBins(bins, D, fileEnd, size)
    BY DEF MoreBins
  <2>3. fileEnd + size <= MaxHive
    <3>1. fileEnd \in Nat
      BY Serving
    <3> QED BY <1>1, <1>3, <3>1, Constants
  <2> HIDE DEF size, D
  <2>4. /\ fileEnd + size \in Offset /\ PageSize <= fileEnd + size
        /\ BinsRight(D, fileEnd + size) /\ Laid(word', D) /\ Merged(word') /\ LiveOf(word') = live
        /\ free' = FreeOf(word') /\ IdxRight(endIdx', free')
        /\ \A x \in Offset : word'[x] # word[x] => x \in NewHbinMarks(size)
    BY <1>1, <2>1, <2>2, <2>3, Grown
  <2>5. Inv' /\ FileBins' = bins'
    BY <2>1, <2>4, Serves
  <2>6. Store!CellsOK(live', FileBins')
    BY <2>1, <2>4, <2>5, LaidIsOK
  <2>7. Store!Extend(FileBins)
    BY <2>1, <2>2, <2>5, Extends
  <2>8. Store!Next
    BY <2>1, <2>6, <2>7 DEF Store!Next, Store!Grow
  <2>9. MarksStep
    BY <2>1, <2>4 DEF MarksStep
  <2> QED BY <2>5, <2>8, <2>9 DEF StepSound, StoreStep
<1> QED BY <1>2, <1>3

\* MergesForward is right: it finds the free cell behind the freed one.
LEMMA Forward ==
  ASSUME Inv, session = "clean", NEW a \in live, NEW o, o = a.off, NEW next, next = o + a.size
  PROVE  /\ HbinOf(o) # {} /\ (MergesForward(o, next) <=> next \in Heads(word) /\ word[next] > 0)
<1>1. /\ fileEnd \in Offset /\ fileEnd \in Nat /\ BinsRight(bins, fileEnd) /\ Laid(word, bins) /\ live = LiveOf(word)
  BY Serving
<1>2. /\ o \in Heads(word) /\ Abs(word[o]) = a.size /\ a.size \in Nat /\ a.size > 0 /\ o \in Nat
  BY <1>1, LiveFacts
<1>3. PICK b \in bins : Within(word, o, b)
  BY <1>1, <1>2 DEF Laid
<1>4. b.start \in Nat /\ b.end \in Nat /\ b.end <= fileEnd /\ HbinHeader \in Nat /\ HbinHeader > 0
  BY <1>1, BinFacts, Constants
<1>5. b.start < o /\ o < next /\ next <= b.end /\ next \in Nat /\ o < b.end
  BY <1>2, <1>3, <1>4 DEF Within
<1>6. HbinOf(o) = {b}
  <2>1. b \in HbinOf(o)
    BY <1>2, <1>4, <1>5 DEF HbinOf
  <2>2. ASSUME NEW d \in HbinOf(o) PROVE d = b
    <3>1. d \in bins /\ d.start <= o /\ o < d.end
      BY DEF HbinOf
    <3>2. b.start <= o
      BY <1>2, <1>4, <1>5
    <3> QED BY <1>1, <1>2, <1>5, <3>1, <3>2, OneBin
  <2> QED BY <2>1, <2>2
<1>7. HbinEnd(o) = b.end
  BY <1>6 DEF HbinEnd
<1>8. ASSUME next < b.end, word[next] > 0 PROVE next \in Heads(word)
  <2>1. next \in Offset
    BY <1>1, <1>4, <1>5, Constants
  <2>2. word[next] # HbinSignature
    <3> SUFFICES ASSUME word[next] = HbinSignature PROVE FALSE
      OBVIOUS
    <3>1. PICK d \in bins : d.start = next
      BY <1>1, <2>1 DEF Laid
    <3>2. d.start \in Nat /\ d.end \in Nat /\ d.start + HbinHeader < d.end
      BY <1>1, BinFacts
    <3>3. b.start <= next /\ d.start <= next /\ next < d.end /\ next \in Int
      BY <1>2, <1>4, <1>5, <3>1, <3>2
    <3>4. b = d
      BY <1>1, <1>8, <3>3, OneBin
    <3> QED BY <1>2, <1>4, <1>5, <3>1, <3>4
  <2>3. word[next] # 0
    <3>1. word[next] \in Int
      BY <1>1, <2>1 DEF Laid
    <3> QED BY <1>8, <3>1
  <2> QED BY <2>1, <2>2, <2>3 DEF Heads
<1>9. ASSUME next \in Heads(word) PROVE next < b.end
  <2>1. PICK d \in bins : Within(word, next, d)
    BY <1>1, <1>9 DEF Laid
  <2>2. Abs(word[next]) \in Nat /\ Abs(word[next]) > 0
    BY <1>1, <1>9, HeadFacts
  <2>3. d.start \in Nat /\ d.end \in Nat
    BY <1>1, BinFacts
  <2>4. b = d \/ b.end <= d.start \/ d.end <= b.start
    BY <1>1 DEF BinsRight
  <2> QED BY <1>2, <1>4, <1>5, <2>1, <2>2, <2>3, <2>4 DEF Within
<1>10. MergesForward(o, next) <=> next < b.end /\ next < fileEnd /\ word[next] > 0
  BY <1>6, <1>7 DEF MergesForward
<1>11. next < b.end => next < fileEnd
  BY <1>1, <1>4, <1>5
<1> QED BY <1>6, <1>8, <1>9, <1>10, <1>11

LEMMA FreeStep ==
  ASSUME Inv, session = "clean", NEW a \in live, Free(a), UNCHANGED <<bump, session>>
  PROVE  StepSound
<1> DEFINE o == a.off
           sz == Abs(word[o])
           next == o + sz
           fwd == MergesForward(o, next)
           succ == Cell(next, word[next])
           F1 == IF fwd THEN RemoveCell(free, succ) ELSE free
           E1 == IF fwd THEN RemoveIdx(endIdx, free, succ) ELSE endIdx
           mid == IF fwd THEN Cell(o, sz + word[next]) ELSE Cell(o, sz)
           W1 == [word EXCEPT ![o] = mid.size]
           bwd == HbinOf(o) # {} /\ E1[o] # 0 /\ W1[E1[o]] > 0
           pred == Cell(E1[o], W1[E1[o]])
           F2 == IF bwd THEN RemoveCell(F1, pred) ELSE F1
           E2 == IF bwd THEN RemoveIdx(E1, F1, pred) ELSE E1
           new == IF bwd THEN Cell(pred.off, pred.size + mid.size) ELSE mid
           W2 == IF fwd THEN [W1 EXCEPT ![next] = 0] ELSE W1
           W3 == IF bwd THEN [W2 EXCEPT ![o] = 0] ELSE W2
<1>1. /\ word' = [W3 EXCEPT ![new.off] = new.size]
      /\ free' = InsertCell(F2, new, fileEnd)
      /\ endIdx' = InsertIdx(E2, new, fileEnd)
      /\ live' = live \ {a}
      /\ marked' = {o, new.off}
      /\ res' = "ok"
      /\ UNCHANGED <<fileEnd, dataSize, bins>>
  BY DEF Free
<1>2. /\ fileEnd \in Offset /\ fileEnd \in Nat /\ PageSize <= fileEnd
      /\ bins = FileBins /\ BinsRight(bins, fileEnd) /\ Laid(word, bins) /\ Merged(word)
      /\ live = LiveOf(word) /\ free = FreeOf(word) /\ IdxRight(endIdx, free)
  BY Serving
<1>3. /\ o \in Heads(word) /\ word[o] = -a.size /\ sz = a.size /\ a = Cell(o, a.size) /\ a.size \in Nat /\ a.size > 0
      /\ o \in Offset /\ o \in Nat /\ word \in [Offset -> Int]
  <2>1. /\ o \in Heads(word) /\ word[o] = -a.size /\ Abs(word[o]) = a.size /\ a = Cell(o, a.size)
        /\ a.size \in Nat /\ a.size > 0 /\ o \in Offset /\ o \in Nat
    BY <1>2, LiveFacts
  <2>2. word \in [Offset -> Int]
    BY <1>2 DEF Laid
  <2> QED BY <2>1, <2>2
<1>4. next = o + a.size
  BY <1>3
<1>5. HbinOf(o) # {} /\ (fwd <=> next \in Heads(word) /\ word[next] > 0)
  <2> HIDE DEF next
  <2> QED BY <1>4, Forward
\* After the first stage, for some headers X.
<1>6. \E X : /\ Laid(X, bins) /\ LiveOf(X) = live \ {a} /\ Loose(X, F1, mid, E1) /\ F1 \subseteq free
             /\ X \in [Offset -> Int]
             /\ mid.off = o /\ \A x \in Offset : X[x] = W2[x]
  <2>1. CASE ~fwd
    <3>1. F1 = free /\ E1 = endIdx /\ mid = a /\ W1 = [word EXCEPT ![o] = a.size] /\ W2 = W1
      BY <1>3, <2>1
    <3>2. Put(word, W1, a.off, a.size) /\ W1 \in [Offset -> Int]
      BY <1>3, <3>1 DEF Put
    <3>3. ~(a.off + a.size \in Heads(word) /\ word[a.off + a.size] > 0)
      BY <1>4, <1>5, <2>1
    <3> HIDE DEF F1, E1, mid, W1, W2, fwd, o, next
    <3>4. Laid(W1, bins) /\ LiveOf(W1) = LiveOf(word) \ {a} /\ Loose(W1, FreeOf(word), a, endIdx)
      BY <1>2, <3>2, <3>3, FreedAlone
    <3> QED BY <1>2, <3>1, <3>2, <3>4 DEF o
  <2>2. CASE fwd
    <3> DEFINE U == [word EXCEPT ![o] = a.size]
               X == [U EXCEPT ![o] = U[o] + U[next], ![next] = 0]
    <3>1. next \in Heads(word) /\ word[next] > 0 /\ next \in Offset /\ word[next] \in Int
      BY <1>3, <1>5, <2>2 DEF Heads
    <3>2. /\ F1 = RemoveCell(free, succ) /\ E1 = RemoveIdx(endIdx, free, succ) /\ mid = Cell(o, a.size + word[next])
          /\ W2 = [[word EXCEPT ![o] = mid.size] EXCEPT ![next] = 0] /\ succ = Cell(next, word[next])
      BY <1>3, <2>2
    <3>3. Put(word, U, a.off, a.size) /\ Join(U, X, a.off, next) /\ X \in [Offset -> Int]
      BY <1>3, <3>1 DEF Put, Join
    <3>4. mid.off = o /\ mid.size = a.size + word[next]
      BY <3>2 DEF Cell
    <3>5. next = a.off + a.size
      BY <1>4
    <3> HIDE DEF F1, E1, mid, W2, fwd, succ, U, X, next
    <3>6. /\ Laid(X, bins) /\ LiveOf(X) = LiveOf(word) \ {a} /\ succ \in FreeOf(word)
          /\ Loose(X, FreeOf(word) \ {succ}, mid, Drop(endIdx, succ))
          /\ X[a.off] = mid.size /\ X[next] = 0
          /\ \A x \in Offset : x # a.off /\ x # next => X[x] = word[x]
      <4>1. a \in LiveOf(word) /\ IdxRight(endIdx, FreeOf(word)) /\ succ \in FreeOf(word)
        BY <1>2, <3>1, <3>2 DEF FreeOf
      <4>2. mid = Both(a, succ) /\ succ.off = next
        BY <3>2 DEF Both, Cell
      <4>3. BinsRight(bins, fileEnd) /\ Laid(word, bins) /\ Merged(word)
        BY <1>2
      <4>4. Put(word, U, a.off, a.size) /\ Join(U, X, a.off, succ.off) /\ succ.off = a.off + a.size
        BY <3>3, <3>5, <4>2
      <4> HIDE DEF o
      <4>5. /\ Laid(X, bins) /\ LiveOf(X) = LiveOf(word) \ {a}
            /\ Loose(X, FreeOf(word) \ {succ}, Both(a, succ), Drop(endIdx, succ))
            /\ X[a.off] = Both(a, succ).size /\ X[succ.off] = 0
            /\ \A x \in Offset : x # a.off /\ x # succ.off => X[x] = word[x]
        BY <4>1, <4>3, <4>4, FreedJoined
      <4> QED BY <4>1, <4>2, <4>5
    <3>7. F1 = free \ {succ} /\ E1 = Drop(endIdx, succ)
      BY <1>2, <3>2, <3>6, ListedRight
    <3>8. next # o
      BY <1>3, <3>5
    <3>9. \A x \in Offset : X[x] = W2[x]
      BY <1>3, <3>1, <3>2, <3>6, <3>8
    <3> QED BY <1>2, <3>3, <3>4, <3>6, <3>7, <3>9
  <2> QED BY <2>1, <2>2
<1>7. PICK X : /\ Laid(X, bins) /\ LiveOf(X) = live \ {a} /\ Loose(X, F1, mid, E1) /\ F1 \subseteq free
               /\ X \in [Offset -> Int]
               /\ mid.off = o /\ \A x \in Offset : X[x] = W2[x]
  BY <1>6
<1>8. \A x \in Offset : word[x] > 0 /\ x # o /\ ~(fwd /\ x = next) => W1[x] = word[x] /\ X[x] = word[x]
  BY <1>3, <1>7
<1>9. mid \in FreeOf(X) /\ F1 \subseteq FreeOf(X) /\ X[o] = mid.size
  <2>1. FreeOf(X) = F1 \cup {mid}
    BY <1>7 DEF Loose
  <2>2. X[mid.off] = mid.size
    BY <1>2, <1>7, <2>1, FreeFacts
  <2> QED BY <1>7, <2>1, <2>2
<1>w. W1 \in [Offset -> Int] /\ W2 \in [Offset -> Int] /\ W3 \in [Offset -> Int]
  <2>1. \A x : \A G \in [Offset -> Int], v \in Int : [G EXCEPT ![x] = v] \in [Offset -> Int]
    OBVIOUS
  <2>2. mid.size \in Int
    BY <1>3, <1>7, <1>9
  <2>3. W1 \in [Offset -> Int]
    <3> HIDE DEF mid
    <3> QED BY <1>3, <2>1, <2>2
  <2>4. [W1 EXCEPT ![next] = 0] \in [Offset -> Int]
    <3> HIDE DEF W1, next
    <3> QED BY <2>1, <2>3
  <2>5. W2 \in [Offset -> Int]
    <3> HIDE DEF W1, fwd, next
    <3> QED BY <2>3, <2>4
  <2>6. [W2 EXCEPT ![o] = 0] \in [Offset -> Int]
    <3> HIDE DEF W2
    <3> QED BY <2>1, <2>5
  <2>7. W3 \in [Offset -> Int]
    <3> HIDE DEF W2, bwd
    <3> QED BY <2>5, <2>6
  <2> QED BY <2>3, <2>5, <2>7
\* After the second one, for some headers Y.
<1>10. \E Y : /\ Laid(Y, bins) /\ LiveOf(Y) = live \ {a} /\ Merged(Y) /\ Y \in [Offset -> Int]
              /\ free' = FreeOf(Y) /\ IdxRight(endIdx', FreeOf(Y)) /\ \A x \in Offset : Y[x] = word'[x]
  <2>1. CASE \A p \in F1 : End(p) # o
    <3>1. /\ Merged(X) /\ E1[mid.off] = 0
          /\ InsertCell(F1, mid, fileEnd) = FreeOf(X) /\ IdxRight(InsertIdx(E1, mid, fileEnd), FreeOf(X))
      <4> HIDE DEF F1, E1, mid
      <4> QED BY <1>2, <1>7, <2>1, LooseAlone
    <3>2. ~bwd
      BY <1>7, <3>1
    <3>3. /\ word' = [W2 EXCEPT ![mid.off] = mid.size]
          /\ free' = InsertCell(F1, mid, fileEnd) /\ endIdx' = InsertIdx(E1, mid, fileEnd)
      BY <1>1, <3>2
    <3>4. W2 \in [Offset -> Int]
      BY <1>w
    <3> HIDE DEF W2, F1, E1, mid, bwd, o
    <3>5. \A x \in Offset : X[x] = word'[x]
      BY <1>3, <1>7, <1>9, <3>3, <3>4
    <3> QED BY <1>7, <3>1, <3>3, <3>5
  <2>2. CASE \E p \in F1 : End(p) = o
    <3>1. PICK p \in F1 : End(p) = o
      BY <2>2
    <3> DEFINE Y == [X EXCEPT ![p.off] = X[p.off] + X[o], ![o] = 0]
               n == Cell(p.off, p.size + mid.size)
    <3>2. /\ p \in FreeOf(X) /\ p.off \in Offset /\ p.off \in Nat /\ X[p.off] = p.size /\ p = Cell(p.off, p.size)
          /\ p.size \in Nat /\ p.size > 0 /\ End(p) = p.off + p.size /\ p \in free /\ word[p.off] = p.size
      <4>1. p \in FreeOf(X) /\ p \in free
        BY <1>7, <1>9, <3>1
      <4>2. /\ p.off \in Offset /\ p.off \in Nat /\ X[p.off] = p.size /\ p = Cell(p.off, p.size)
            /\ p.size \in Nat /\ p.size > 0 /\ End(p) = p.off + p.size
        BY <1>2, <1>7, <4>1, FreeFacts
      <4>3. word[p.off] = p.size
        BY <1>2, <4>1, FreeFacts
      <4> QED BY <4>1, <4>2, <4>3
    <3>3. Join(X, Y, p.off, mid.off) /\ Y \in [Offset -> Int]
      <4>1. X[p.off] + X[o] \in Int
        BY <1>3, <1>7, <3>2
      <4> HIDE DEF o, mid
      <4>2. Y \in [Offset -> Int]
        <5> DEFINE y == X[p.off] + X[o]
        <5>1. y \in Int
          BY <4>1
        <5> HIDE DEF y
        <5>2. [X EXCEPT ![p.off] = y, ![o] = 0] \in [Offset -> Int]
          <6>1. X \in [Offset -> Int] /\ p.off \in Offset /\ o \in Offset
            BY <1>3, <1>7, <3>2
          <6> QED BY <5>1, <6>1
        <5> QED BY <5>2 DEF y
      <4>3. Y = [X EXCEPT ![p.off] = X[p.off] + X[mid.off], ![mid.off] = 0]
        BY <1>7
      <4> QED BY <4>2, <4>3 DEF Join
    <3>4. p.off # o
      BY <1>3, <3>1, <3>2
    <3>5. n = Cell(p.off, p.size + mid.size) /\ n.off = p.off /\ n.size = p.size + mid.size
      BY DEF Cell
    <3>6. End(p) = mid.off
      BY <1>7, <3>1
    <3>7. /\ Laid(Y, bins) /\ Merged(Y) /\ LiveOf(Y) = LiveOf(X) /\ E1[mid.off] = p.off /\ E1[mid.off] # 0
          /\ InsertCell(F1 \ {p}, n, fileEnd) = FreeOf(Y)
          /\ IdxRight(InsertIdx(Drop(E1, p), n, fileEnd), FreeOf(Y))
          /\ Y[p.off] = n.size /\ Y[mid.off] = 0
          /\ \A x \in Offset : x # p.off /\ x # mid.off => Y[x] = X[x]
      <4>1. BinsRight(bins, fileEnd) /\ Laid(X, bins) /\ Loose(X, F1, mid, E1) /\ p \in F1
        BY <1>2, <1>7
      <4>2. Join(X, Y, p.off, mid.off)
        BY <3>3
      <4>9. n = Both(p, mid)
        BY DEF Both
      <4> HIDE DEF Y, n, F1, E1, mid, o
      <4>3. /\ Laid(Y, bins)
            /\ Merged(Y)
            /\ LiveOf(Y) = LiveOf(X)
        <5>1. Laid(Y, bins)
          BY <3>6, <4>1, <4>2, LooseJoined
        <5>2. Merged(Y)
          BY <3>6, <4>1, <4>2, LooseJoined
        <5>3. LiveOf(Y) = LiveOf(X)
          <6>1. \A d : d \in LiveOf(Y) <=> d \in LiveOf(X)
            BY <3>6, <4>1, <4>2, LooseJoined
          <6> QED BY <6>1
        <5> QED BY <5>1, <5>2, <5>3
      <4>4. E1[mid.off] = p.off /\ E1[mid.off] # 0
        BY <3>6, <4>1, LooseFound
      <4>5. InsertCell(F1 \ {p}, Both(p, mid), fileEnd) = FreeOf(Y)
        BY <3>6, <4>1, <4>2, LooseJoined
      <4>6. IdxRight(InsertIdx(Drop(E1, p), Both(p, mid), fileEnd), FreeOf(Y))
        BY <3>6, <4>1, <4>2, LooseJoined
      <4>7. Y[p.off] = n.size
        BY <1>3, <1>7, <1>9, <3>2, <3>4, <3>5 DEF Y
      <4>8. Y[mid.off] = 0 /\ \A x \in Offset : x # p.off /\ x # mid.off => Y[x] = X[x]
        BY <1>3, <1>7, <3>2, <3>4 DEF Y
      <4> QED BY <4>3, <4>4, <4>5, <4>6, <4>7, <4>8, <4>9
    <3>8. W1[p.off] = p.size
      BY <1>3, <3>2, <3>4
    <3>9. E1[o] = p.off /\ E1[o] # 0
      BY <1>7, <3>7
    <3>10. bwd /\ pred = p
      <4>1. W1[E1[o]] = p.size
        BY <3>8, <3>9
      <4>2. W1[E1[o]] > 0
        BY <3>2, <4>1
      <4> QED BY <1>5, <3>2, <3>9, <4>1, <4>2
    <3> HIDE DEF Y, E1, F1, mid, W1, pred
    <3>11. F2 = RemoveCell(F1, p) /\ E2 = RemoveIdx(E1, F1, p) /\ new = n /\ W3 = [W2 EXCEPT ![o] = 0]
      BY <3>10
    <3>12. RemoveCell(F1, p) = F1 \ {p} /\ RemoveIdx(E1, F1, p) = Drop(E1, p)
      BY <1>2, <1>7, <1>9, <3>1, ListedRight
    <3> HIDE DEF W2, F2, E2, new, W3, n
    <3>13. free' = FreeOf(Y) /\ IdxRight(endIdx', FreeOf(Y))
      BY <1>1, <3>7, <3>11, <3>12
    <3>14. W2 \in [Offset -> Int]
      BY <1>w
    <3>15. word' = [[W2 EXCEPT ![o] = 0] EXCEPT ![p.off] = n.size]
      BY <1>1, <3>5, <3>11
    <3>16. \A x \in Offset : Y[x] = word'[x]
      BY <1>3, <1>7, <3>2, <3>4, <3>7, <3>14, <3>15
    <3> QED BY <1>7, <3>3, <3>7, <3>13, <3>16
  <2> QED BY <2>1, <2>2
<1>11. PICK Y : /\ Laid(Y, bins) /\ LiveOf(Y) = live \ {a} /\ Merged(Y) /\ Y \in [Offset -> Int]
                /\ free' = FreeOf(Y) /\ IdxRight(endIdx', FreeOf(Y)) /\ \A x \in Offset : Y[x] = word'[x]
  BY <1>10
<1>12. word' = Y
  <2> HIDE DEF W3, new
  <2>1. word' = [x \in Offset |-> word'[x]]
    BY <1>1, <1>w
  <2> QED BY <1>11, <2>1
<1>13. Inv' /\ FileBins' = bins'
  <2> HIDE DEF new, F2, E2, W3
  <2> QED BY <1>1, <1>2, <1>11, <1>12, Serves
<1>14. StoreStep
  <2>1. live' = live \ {a} /\ FileBins' = FileBins
    BY <1>1, <1>2, <1>13
  <2> QED BY <2>1 DEF StoreStep, Store!Next, Store!Free
<1>15. MarksStep
  <2> SUFFICES ASSUME NEW x \in Offset, word'[x] # word[x], word'[x] # 0, x # o, x # new.off PROVE FALSE
    BY <1>1 DEF MarksStep
  <2>1. word'[x] = W3[x]
    BY <1>1, <1>3
  <2>2. W3[x] = W2[x]
    BY <1>3
  <2>3. W2[x] = W1[x] \/ W2[x] = 0
    BY <1>3
  <2>4. W1[x] = word[x]
    BY <1>3
  <2> QED BY <2>1, <2>2, <2>3, <2>4
<1> QED BY <1>13, <1>14, <1>15 DEF StepSound

(***************************************************************************)
(* Bump mode.                                                              *)
(***************************************************************************)
LEMMA EnableStep ==
  ASSUME Inv, session = "clean", NEW t \in BumpTotals, EnableBumpMode(t)
  PROVE  StepSound
<1> DEFINE size == AlignHBIN(t + HbinHeader)
           D == bins \cup {[start |-> fileEnd, end |-> fileEnd + size]}
<1>1. size \in Nat /\ HbinHeader < size
  <2>1. t \in Nat /\ HbinHeader \in Nat
    BY ModesAssumption, Constants
  <2>2. t + HbinHeader \in Nat
    BY <2>1
  <2>3. size \in Nat /\ t + HbinHeader <= size /\ (t + HbinHeader = HbinHeader => t + HbinHeader < size)
    BY <2>2, Aligned
  <2> HIDE DEF size
  <2> QED BY <2>1, <2>3
<1>2. /\ res' = "ok" /\ fileEnd' = fileEnd + size /\ bins' = D
      /\ word' = NewHbinWords(size) /\ live' = live /\ session' = "bump"
      /\ bump' = [active |-> TRUE, startOff |-> Master(size).off, capacity |-> Master(size).size, cursor |-> 0]
      /\ marked' = NewHbinMarks(size) /\ fileEnd + size <= MaxHive
  BY DEF EnableBumpMode, AppendHBIN, GrowFile
<1>3. MoreBins(bins, D, fileEnd, size)
  BY DEF MoreBins
<1>4. fileEnd \in Nat /\ HbinHeader \in Nat
  BY Serving, Constants
<1>5. [start |-> fileEnd, end |-> fileEnd + size] \in D
  OBVIOUS
<1> HIDE DEF size, D
<1>6. /\ fileEnd + size \in Offset /\ PageSize <= fileEnd + size
      /\ BinsRight(D, fileEnd + size) /\ Laid(word', D) /\ Merged(word') /\ LiveOf(word') = live
      /\ Master(size).off = fileEnd + HbinHeader /\ Master(size).size = size - HbinHeader
      /\ \A x \in Offset : word'[x] # word[x] => x \in NewHbinMarks(size)
      /\ word'[fileEnd + HbinHeader] = size - HbinHeader
      /\ \A x \in Heads(word') : x < fileEnd \/ x = fileEnd + HbinHeader
  BY <1>1, <1>2, <1>3, Grown
<1>7. FileBins' = bins'
  <2>1. {b \in D : b.start < fileEnd + size} = D
    BY <1>6, SameBins
  <2> QED BY <1>2, <2>1 DEF FileBins
<1>8. CellsSound'
  BY <1>2, <1>6, <1>7 DEF CellsSound
<1>9. BumpSound'
  <2>1. /\ bump'.startOff = fileEnd + HbinHeader /\ bump'.capacity = size - HbinHeader /\ bump'.cursor = 0 /\ bump'.active = TRUE
    BY <1>2, <1>6
  <2>2. bump' \in [active : BOOLEAN, startOff : Nat, capacity : Nat, cursor : Nat]
    BY <1>1, <1>2, <1>4, <1>6
  <2>3. \A h \in Heads(word') : h \in Nat
    BY Constants DEF Heads
  <2>4. \A h \in Heads(word') : bump'.startOff + bump'.cursor <= h => h = bump'.startOff
    BY <1>4, <1>6, <2>1, <2>3
  <2>5. \E b \in FileBins' : /\ b.start + HbinHeader = bump'.startOff
                             /\ b.end = bump'.startOff + bump'.capacity /\ b.end = fileEnd'
    <3> DEFINE b == [start |-> fileEnd, end |-> fileEnd + size]
    <3>1. b \in FileBins'
      BY <1>2, <1>5, <1>7
    <3>2. b.start + HbinHeader = bump'.startOff /\ b.end = bump'.startOff + bump'.capacity /\ b.end = fileEnd'
      BY <1>1, <1>2, <1>4, <2>1
    <3> HIDE DEF b
    <3> QED BY <3>1, <3>2
  <2>6. bump'.cursor <= bump'.capacity
    BY <1>1, <1>4, <2>1
  <2>7. word'[bump'.startOff] = bump'.capacity
    BY <1>6, <2>1
  <2>8. ~(bump'.cursor > 0)
    BY <2>1
  <2> QED BY <1>2, <1>7, <2>1, <2>2, <2>4, <2>5, <2>6, <2>7, <2>8 DEF BumpSound
<1>10. ListsSound' /\ NeverStuck'
  BY <1>2 DEF ListsSound, NeverStuck
<1>11. Store!CellsOK(live', FileBins')
  BY <1>2, <1>6, <1>7, LaidIsOK
<1>12. Store!Extend(FileBins)
  BY <1>2, <1>3, <1>7, Extends
<1>13. Store!Next
  BY <1>2, <1>11, <1>12 DEF Store!Next, Store!Grow
<1>14. MarksStep
  BY <1>2, <1>6 DEF MarksStep
<1> QED BY <1>8, <1>9, <1>10, <1>13, <1>14 DEF StepSound, StoreStep, Inv

\* A header written at the cursor.
LEMMA AtCursor ==
  ASSUME Inv, session = "bump", NEW off, off = bump.startOff + bump.cursor,
         NEW v \in Int, v # 0, bump.cursor + Abs(v) <= bump.capacity, NEW V, Put(word, V, off, v)
  PROVE  /\ Laid(V, FileBins) /\ Heads(V) = Heads(word) \cup {off} /\ off \in Offset
         /\ V[off] = v /\ \A x \in Offset : x # off => V[x] = word[x]
         /\ off \in Heads(word) => bump.cursor = 0 /\ word[off] = bump.capacity
         /\ \A h \in Heads(word) : h <= off
         /\ \A p \in Heads(word) : p + Abs(word[p]) = off => word[p] < 0
<1>1. /\ BinsRight(FileBins, fileEnd) /\ Laid(word, FileBins)
      /\ bump.startOff \in Nat /\ bump.capacity \in Nat /\ bump.cursor \in Nat
      /\ bump.cursor = 0 => word[bump.startOff] = bump.capacity
      /\ bump.cursor > 0 => \E p \in Heads(word) : word[p] < 0 /\ p + Abs(word[p]) = bump.startOff + bump.cursor
      /\ \A h \in Heads(word) : bump.startOff + bump.cursor <= h => bump.cursor = 0 /\ h = bump.startOff
  BY DEF Inv, CellsSound, BumpSound
<1>2. PICK b \in FileBins : b.start + HbinHeader = bump.startOff /\ b.end = bump.startOff + bump.capacity /\ b.end = fileEnd
  BY DEF Inv, BumpSound
<1>3. Abs(v) \in Nat /\ Abs(v) > 0
  BY DEF Abs
<1>4. /\ b.start \in Nat /\ b.end \in Nat /\ fileEnd \in Nat /\ fileEnd <= MaxHive
      /\ HbinHeader \in Nat /\ HbinHeader > 0 /\ MaxHive \in Nat
  BY <1>1, BinFacts, Constants
<1>5. off \in Nat /\ off \in Offset /\ b.start < off /\ off < b.end /\ off + Abs(v) <= b.end /\ b.start + HbinHeader <= off
  <2>1. off \in Nat /\ b.start + HbinHeader <= off /\ b.start < off
    BY <1>1, <1>2, <1>4
  <2>2. off + Abs(v) <= b.end
    BY <1>1, <1>2, <1>3, <1>4
  <2>3. off < b.end
    BY <1>3, <1>4, <2>1, <2>2
  <2> QED BY <1>2, <1>4, <2>1, <2>2, <2>3, Constants
<1>6. word[off] # HbinSignature
  <2> SUFFICES ASSUME word[off] = HbinSignature PROVE FALSE
    OBVIOUS
  <2>1. PICK d \in FileBins : d.start = off
    BY <1>1, <1>5 DEF Laid
  <2>2. d.start \in Nat /\ d.end \in Nat /\ d.start + HbinHeader < d.end
    BY <1>1, BinFacts
  <2>3. b.start <= off /\ d.start <= off /\ off < d.end /\ off \in Int
    BY <1>4, <1>5, <2>1, <2>2
  <2>4. b = d
    BY <1>1, <1>5, <2>3, OneBin
  <2> QED BY <1>4, <1>5, <2>1, <2>4
<1>7. \A h \in Heads(word) : h \in Nat /\ h \in Offset /\ Abs(word[h]) \in Nat /\ Abs(word[h]) > 0 /\ h + Abs(word[h]) <= fileEnd
  BY <1>1, HeadFacts DEF Heads
<1>8. \A h \in Heads(word) : h <= off
  <2> TAKE h \in Heads(word)
  <2>1. off <= h => h = off
    BY <1>1, <1>7
  <2> QED BY <1>5, <1>7, <2>1
<1>9. off \in Heads(word) => bump.cursor = 0 /\ word[off] = bump.capacity
  BY <1>1, <1>5
<1>10. \A p \in Heads(word) : p < off => p + Abs(word[p]) <= off
  <2> SUFFICES ASSUME NEW p \in Heads(word), p < off PROVE p + Abs(word[p]) <= off
    OBVIOUS
  <2>1. CASE bump.cursor > 0
    <3>1. PICK q \in Heads(word) : q + Abs(word[q]) = off
      BY <1>1, <2>1
    <3>2. (p < q => p + Abs(word[p]) <= q) /\ (q < p => q + Abs(word[q]) <= p)
      BY <1>1 DEF Laid
    <3> QED BY <1>5, <1>7, <3>1, <3>2
  <2>2. CASE bump.cursor = 0
    <3>1. PICK d \in FileBins : Within(word, p, d)
      BY <1>1 DEF Laid
    <3>2. d.start \in Nat /\ d.end \in Nat
      BY <1>1, BinFacts
    <3>3. b = d \/ b.end <= d.start \/ d.end <= b.start
      BY <1>1 DEF BinsRight
    <3> QED BY <1>1, <1>2, <1>4, <1>5, <1>7, <2>2, <3>1, <3>2, <3>3 DEF Within
  <2> QED BY <1>1, <2>1, <2>2
<1>11. off = b.start + HbinHeader \/ \E p \in Heads(word) : p + Abs(word[p]) = off
  BY <1>1, <1>2
<1>12. off \in Heads(word) => off + Abs(word[off]) \notin Heads(word)
  BY <1>5, <1>7, <1>8
<1>13. \A p \in Heads(word) : (p < off => p + Abs(word[p]) <= off) /\ (off < p => off + Abs(v) <= p)
  BY <1>5, <1>7, <1>8, <1>10
<1>14. /\ Laid(V, FileBins) /\ Heads(V) = Heads(word) \cup {off}
       /\ V[off] = v /\ \A x \in Offset : x # off => V[x] = word[x]
  BY <1>1, <1>5, <1>6, <1>11, <1>12, <1>13, PutHead
<1>15. ASSUME NEW p \in Heads(word), p + Abs(word[p]) = off PROVE word[p] < 0
  <2>1. CASE bump.cursor > 0
    <3>1. PICK q \in Heads(word) : word[q] < 0 /\ q + Abs(word[q]) = off
      BY <1>1, <2>1
    <3>2. (p < q => p + Abs(word[p]) <= q) /\ (q < p => q + Abs(word[q]) <= p)
      BY <1>1 DEF Laid
    <3>3. p = q
      BY <1>5, <1>7, <1>15, <3>1, <3>2
    <3> QED BY <3>1, <3>3
  <2>2. CASE bump.cursor = 0
    <3>1. PICK d \in FileBins : Within(word, p, d)
      BY <1>1 DEF Laid
    <3>2. d.start \in Nat /\ d.end \in Nat
      BY <1>1, BinFacts
    <3>3. b = d \/ b.end <= d.start \/ d.end <= b.start
      BY <1>1 DEF BinsRight
    <3>4. p < off
      BY <1>5, <1>7, <1>15
    <3> QED BY <1>1, <1>2, <1>4, <1>5, <1>7, <1>15, <2>2, <3>1, <3>2, <3>3, <3>4 DEF Within
  <2> QED BY <1>1, <2>1, <2>2
<1> QED BY <1>5, <1>8, <1>9, <1>14, <1>15

LEMMA BumpAllocStep ==
  ASSUME Inv, NEW n \in Needs, BumpAlloc(n)
  PROVE  StepSound
<1> DEFINE off == bump.startOff + bump.cursor
<1>1. /\ bump.active /\ bump.cursor + n <= bump.capacity /\ word' = [word EXCEPT ![off] = -n]
      /\ live' = live \cup {Cell(off, n)} /\ bump' = [bump EXCEPT !.cursor = @ + n]
      /\ marked' = {off} /\ res' = "ok" /\ UNCHANGED <<fileEnd, dataSize, free, endIdx, bins, session>>
  BY DEF BumpAlloc, BumpFits
<1>2. session = "bump" /\ bins = FileBins /\ FileBins' = FileBins
  BY <1>1 DEF Inv, BumpSound, FileBins
<1>3. n \in Nat /\ n > 0 /\ -n \in Int /\ -n # 0 /\ Abs(-n) = n
  <2>1. n \in Nat /\ n > 0
    BY AllocAssumption
  <2> QED BY <2>1 DEF Abs
<1>4. /\ BinsRight(FileBins, fileEnd) /\ Laid(word, FileBins) /\ Merged(word) /\ live = LiveOf(word)
      /\ fileEnd \in Offset /\ PageSize <= fileEnd
      /\ bump.startOff \in Nat /\ bump.capacity \in Nat /\ bump.cursor \in Nat
      /\ bump \in [active : BOOLEAN, startOff : Nat, capacity : Nat, cursor : Nat]
  BY DEF Inv, CellsSound, BumpSound
<1>5. Put(word, word', off, -n)
  BY <1>1 DEF Put
<1>6. off \in Nat
  BY <1>4
<1>7. off = bump.startOff + bump.cursor
  OBVIOUS
<1> HIDE DEF off
<1>8. /\ Laid(word', FileBins) /\ Heads(word') = Heads(word) \cup {off} /\ off \in Offset
      /\ word'[off] = -n /\ \A x \in Offset : x # off => word'[x] = word[x]
      /\ off \in Heads(word) => bump.cursor = 0 /\ word[off] = bump.capacity
      /\ \A h \in Heads(word) : h <= off
      /\ \A p \in Heads(word) : p + Abs(word[p]) = off => word[p] < 0
  <2>1. bump.cursor + Abs(-n) <= bump.capacity
    BY <1>1, <1>3
  <2> QED BY <1>2, <1>3, <1>5, <1>7, <2>1, AtCursor
<1>9. word'[off] < 0 /\ ~(word'[off] > 0) /\ -word'[off] = n
  BY <1>3, <1>8
<1>10. \A x \in Heads(word) : x \in Offset /\ x \in Nat
  BY Constants DEF Heads
<1>11. Merged(word')
  <2> SUFFICES ASSUME NEW x \in Heads(word'), NEW y \in Heads(word'), word'[x] > 0, word'[y] > 0, x + word'[x] = y PROVE FALSE
    BY DEF Merged
  <2>1. x # off /\ y # off
    BY <1>9
  <2>2. x \in Heads(word) /\ y \in Heads(word)
    BY <1>8, <2>1
  <2>3. word'[x] = word[x] /\ word'[y] = word[y]
    BY <1>8, <1>10, <2>1, <2>2
  <2> QED BY <2>2, <2>3, <1>4 DEF Merged
<1> DEFINE K == {off}
<1>12. ChangedAt(word, word', K)
  BY <1>8, <1>10 DEF ChangedAt
<1> HIDE DEF K
<1>13. \A d : d \in LiveOf(word') <=> \/ d \in LiveOf(word) /\ d.off \notin K
                                      \/ \E x \in Heads(word') : x \in K /\ word'[x] < 0 /\ d = Cell(x, -word'[x])
  BY <1>12, CellsChange
<1>14. \A d \in LiveOf(word) : d.off # off
  <2> SUFFICES ASSUME NEW d \in LiveOf(word), d.off = off PROVE FALSE
    OBVIOUS
  <2>1. d.off \in Heads(word) /\ word[d.off] = -d.size /\ d.size \in Nat /\ d.size > 0
    BY <1>4, LiveFacts
  <2>2. word[off] = bump.capacity /\ word[off] = -d.size
    BY <1>8, <2>1
  <2> QED BY <1>4, <2>1, <2>2
<1>15. live' = LiveOf(word')
  <2>1. off \in Heads(word') /\ Cell(off, -word'[off]) = Cell(off, n)
    BY <1>8, <1>9
  <2>2. ASSUME NEW d PROVE d \in LiveOf(word') <=> d \in live \cup {Cell(off, n)}
    <3>1. d \in LiveOf(word') <=> (d \in LiveOf(word) /\ d.off \notin {off}) \/ d = Cell(off, n)
      BY <1>9, <1>13, <2>1 DEF K
    <3> QED BY <1>4, <1>14, <3>1
  <2> QED BY <1>1, <2>2
<1>16. CellsSound'
  BY <1>1, <1>2, <1>4, <1>8, <1>11, <1>15 DEF CellsSound
<1>17. BumpSound'
  <2>1. /\ bump'.startOff = bump.startOff /\ bump'.capacity = bump.capacity /\ bump'.cursor = bump.cursor + n
        /\ bump'.active = bump.active /\ bump' \in [active : BOOLEAN, startOff : Nat, capacity : Nat, cursor : Nat]
    <3>1. bump.cursor + n \in Nat /\ bump' = [bump EXCEPT !.cursor = bump.cursor + n]
      BY <1>1, <1>3, <1>4
    <3> DEFINE x == bump.cursor + n
    <3> HIDE DEF x
    <3>2. x \in Nat /\ bump' = [bump EXCEPT !.cursor = x]
      BY <3>1 DEF x
    <3>3. bump'.startOff = bump.startOff /\ bump'.capacity = bump.capacity /\ bump'.cursor = x /\ bump'.active = bump.active
      BY <1>4, <3>2
    <3>4. bump' \in [active : BOOLEAN, startOff : Nat, capacity : Nat, cursor : Nat]
      BY <1>4, <3>2
    <3> QED BY <3>3, <3>4 DEF x
  <2>2. off + n = bump'.startOff + bump'.cursor
    BY <1>3, <1>4, <1>7, <2>1
  <2>3. \E p \in Heads(word') : word'[p] < 0 /\ p + Abs(word'[p]) = bump'.startOff + bump'.cursor
    <3>1. off \in Heads(word') /\ Abs(word'[off]) = n
      BY <1>3, <1>8
    <3> QED BY <1>9, <2>2, <3>1
  <2>4. \A h \in Heads(word') : ~(bump'.startOff + bump'.cursor <= h)
    <3> SUFFICES ASSUME NEW h \in Heads(word'), off + n <= h PROVE FALSE
      BY <2>2
    <3>1. h = off \/ (h \in Heads(word) /\ h \in Nat /\ h <= off)
      BY <1>8, <1>10
    <3> QED BY <1>3, <1>6, <3>1
  <2>5. bump'.cursor > 0 /\ ~(bump'.cursor = 0) /\ bump'.cursor <= bump'.capacity
    BY <1>1, <1>3, <1>4, <2>1
  <2>6. \E b \in FileBins : b.start + HbinHeader = bump.startOff /\ b.end = bump.startOff + bump.capacity /\ b.end = fileEnd
    BY <1>2 DEF Inv, BumpSound
  <2> QED BY <1>1, <1>2, <2>1, <2>3, <2>4, <2>5, <2>6 DEF BumpSound
<1>18. ListsSound' /\ NeverStuck'
  BY <1>1, <1>2 DEF ListsSound, NeverStuck
<1>19. Store!CellsOK(live', FileBins')
  BY <1>2, <1>4, <1>8, <1>15, LaidIsOK
<1>20. Store!Next
  <2>1. Cell(off, n).size = n /\ Cell(off, n).off = off
    BY DEF Cell
  <2>2. Cell(off, n) \notin live
    BY <1>4, <1>14, <2>1
  <2>3. Store!Extend(FileBins)
    BY <1>2 DEF Store!Extend
  <2>4. Store!Alloc(n)
    BY <1>1, <1>19, <2>1, <2>2, <2>3 DEF Store!Alloc
  <2> QED BY <2>4 DEF Store!Next
<1>21. MarksStep
  BY <1>1, <1>8 DEF MarksStep
<1> QED BY <1>16, <1>17, <1>18, <1>20, <1>21 DEF StepSound, StoreStep, Inv

LEMMA FinalizeStep ==
  ASSUME Inv, FinalizeBumpMode
  PROVE  StepSound
<1> DEFINE off == bump.startOff + bump.cursor
           v == bump.capacity - bump.cursor
<1>1. /\ bump.active /\ bump' = NoBump /\ session' = "spent" /\ res' = "ok" /\ UNCHANGED <<fileEnd, dataSize, bins, live>>
      /\ v > 0 => word' = [word EXCEPT ![off] = v] /\ marked' = {off}
      /\ ~(v > 0) => word' = word
  BY DEF FinalizeBumpMode, Cell
<1>2. session = "bump" /\ bins = FileBins /\ FileBins' = FileBins
  BY <1>1 DEF Inv, BumpSound, FileBins
<1>3. /\ BinsRight(FileBins, fileEnd) /\ Laid(word, FileBins) /\ Merged(word) /\ live = LiveOf(word)
      /\ fileEnd \in Offset /\ PageSize <= fileEnd
      /\ bump.startOff \in Nat /\ bump.capacity \in Nat /\ bump.cursor \in Nat /\ bump.cursor <= bump.capacity
  BY <1>2 DEF Inv, CellsSound, BumpSound
<1>4. off \in Nat /\ v \in Int /\ off = bump.startOff + bump.cursor
  BY <1>3
<1>5. v > 0 => v # 0 /\ Abs(v) = v /\ bump.cursor + Abs(v) <= bump.capacity
  BY <1>3 DEF Abs
<1> HIDE DEF off, v
<1>6. ASSUME v > 0 PROVE Laid(word', FileBins) /\ Merged(word') /\ LiveOf(word') = live /\ MarksStep
  <2>1. Put(word, word', off, v)
    BY <1>1, <1>6 DEF Put
  <2>2. /\ Laid(word', FileBins) /\ Heads(word') = Heads(word) \cup {off} /\ off \in Offset
        /\ word'[off] = v /\ \A x \in Offset : x # off => word'[x] = word[x]
        /\ off \in Heads(word) => bump.cursor = 0 /\ word[off] = bump.capacity
        /\ \A h \in Heads(word) : h <= off
        /\ \A p \in Heads(word) : p + Abs(word[p]) = off => word[p] < 0
    BY <1>2, <1>4, <1>5, <1>6, <2>1, AtCursor
  <2>3. \A x \in Heads(word) : x \in Offset /\ x \in Nat /\ word[x] \in Int /\ (word[x] > 0 => Abs(word[x]) = word[x])
    BY <1>3, HeadFacts DEF Heads
  <2>4. Merged(word')
    <3> SUFFICES ASSUME NEW x \in Heads(word'), NEW y \in Heads(word'), word'[x] > 0, word'[y] > 0, x + word'[x] = y PROVE FALSE
      BY DEF Merged
    <3>1. \A z \in Heads(word') : z # off => z \in Heads(word)
      BY <2>2
    <3>2. \A z \in Heads(word') : z # off => word'[z] = word[z]
      BY <2>2, <2>3, <3>1
    <3>3. CASE x = off
      <4>1. y = off + v /\ y # off
        BY <1>4, <1>6, <2>2, <3>3
      <4>2. y \in Heads(word) /\ y <= off
        BY <2>2, <3>1, <4>1
      <4> QED BY <1>4, <1>6, <4>1, <4>2
    <3>4. CASE x # off /\ y = off
      <4>1. x \in Heads(word) /\ word[x] > 0 /\ x + word[x] = off
        BY <3>1, <3>2, <3>4
      <4>2. word[x] < 0
        BY <2>2, <2>3, <4>1
      <4> QED BY <2>3, <4>1, <4>2
    <3>5. CASE x # off /\ y # off
      <4>1. x \in Heads(word) /\ y \in Heads(word) /\ word[x] > 0 /\ word[y] > 0 /\ x + word[x] = y
        BY <3>1, <3>2, <3>5
      <4> QED BY <1>3, <4>1 DEF Merged
    <3> QED BY <3>3, <3>4, <3>5
  <2> DEFINE K == {off}
  <2>5. ChangedAt(word, word', K)
    BY <2>2, <2>3 DEF ChangedAt
  <2> HIDE DEF K
  <2>6. \A d : d \in LiveOf(word') <=> \/ d \in LiveOf(word) /\ d.off \notin K
                                       \/ \E x \in Heads(word') : x \in K /\ word'[x] < 0 /\ d = Cell(x, -word'[x])
    BY <2>5, CellsChange
  <2>7. ~(word'[off] < 0)
    BY <1>4, <1>6, <2>2
  <2>8. \A d \in LiveOf(word) : d.off # off
    <3> SUFFICES ASSUME NEW d \in LiveOf(word), d.off = off PROVE FALSE
      OBVIOUS
    <3>1. d.off \in Heads(word) /\ word[d.off] = -d.size /\ d.size \in Nat /\ d.size > 0
      BY <1>3, LiveFacts
    <3>2. word[off] = bump.capacity /\ word[off] = -d.size
      BY <2>2, <3>1
    <3> QED BY <1>3, <3>1, <3>2
  <2>9. LiveOf(word') = live
    <3>1. ASSUME NEW d PROVE d \in LiveOf(word') <=> d \in LiveOf(word)
      BY <2>6, <2>7, <2>8 DEF K
    <3> QED BY <1>3, <3>1
  <2>10. MarksStep
    BY <1>1, <1>6, <2>2 DEF MarksStep
  <2> QED BY <2>2, <2>4, <2>9, <2>10
<1>7. ASSUME ~(v > 0) PROVE Laid(word', FileBins) /\ Merged(word') /\ LiveOf(word') = live /\ MarksStep
  BY <1>1, <1>3, <1>7 DEF MarksStep
<1>8. Laid(word', FileBins) /\ Merged(word') /\ LiveOf(word') = live /\ MarksStep
  BY <1>6, <1>7
<1>9. CellsSound'
  BY <1>1, <1>2, <1>3, <1>8 DEF CellsSound
<1>10. BumpSound'
  BY <1>1 DEF BumpSound, NoBump
<1>11. ListsSound' /\ NeverStuck'
  BY <1>1 DEF ListsSound, NeverStuck
<1> QED BY <1>1, <1>2, <1>8, <1>9, <1>10, <1>11 DEF StepSound, StoreStep, Inv

(***************************************************************************)
(* TruncatePages and NewFast.                                              *)
(***************************************************************************)
LEMMA TruncateStep ==
  ASSUME Inv, NEW k \in TruncateCounts, TruncatePages(k)
  PROVE  StepSound
<1> DEFINE cut == PageSize + (dataSize - k * PageSize)
<1>1. /\ session = "clean" /\ \A c \in live : End(c) <= cut
      /\ \E b \in bins : b.end = cut
      /\ fileEnd' = cut /\ word' = [o \in Offset |-> IF o < cut THEN word[o] ELSE 0]
      /\ session' = "cut" /\ res' = "ok" /\ UNCHANGED <<bins, live, bump>>
  BY DEF TruncatePages, CutIsEmpty, CutFile
<1> HIDE DEF cut
<1>2. /\ bins = FileBins /\ BinsRight(bins, fileEnd) /\ Laid(word, bins) /\ Merged(word) /\ live = LiveOf(word) /\ ~bump.active
  BY <1>1, Serving
<1>3. Cut(word, word', cut) /\ FewerBins(bins, FileBins', cut)
  BY <1>1 DEF Cut, FewerBins, FileBins
<1>4. /\ BinsRight(FileBins', cut) /\ Laid(word', FileBins') /\ Merged(word') /\ LiveOf(word') = LiveOf(word)
      /\ \A b \in FileBins' : b.end <= cut
      /\ \A b \in bins \ FileBins' : cut <= b.start
  BY <1>1, <1>2, <1>3, CutCells
<1>5. cut \in Offset /\ PageSize <= cut
  <2>1. PICK b \in bins : b.end = cut
    BY <1>1
  <2>2. b.start \in Nat /\ b.end \in Nat /\ PageSize <= b.start /\ b.start + HbinHeader < b.end
    BY <1>2, BinFacts
  <2>3. cut \in Offset
    BY <1>4 DEF BinsRight
  <2> QED BY <2>1, <2>2, <2>3, Constants
<1>6. CellsSound'
  BY <1>1, <1>2, <1>4, <1>5 DEF CellsSound
<1>7. BumpSound'
  BY <1>1, <1>2 DEF Inv, BumpSound
<1>8. ListsSound' /\ NeverStuck'
  BY <1>1 DEF ListsSound, NeverStuck
<1>9. Store!CellsOK(live', FileBins')
  BY <1>1, <1>2, <1>4, LaidIsOK
<1>10. \A b \in FileBins', d \in FileBins \ FileBins' : b.end <= d.start
  <2> TAKE b \in FileBins', d \in FileBins \ FileBins'
  <2>1. b.end \in Nat /\ d.start \in Nat /\ cut \in Nat
    <3>1. b.end \in Nat /\ cut \in Nat
      BY <1>4, BinFacts
    <3>2. d.start \in Nat
      BY <1>2, BinFacts
    <3> QED BY <3>1, <3>2
  <2>2. b.end <= cut /\ cut <= d.start
    BY <1>2, <1>4
  <2> QED BY <2>1, <2>2
<1>11. FileBins' \subseteq FileBins
  BY <1>2, <1>3 DEF FewerBins
<1>12. Store!Next
  BY <1>1, <1>9, <1>10, <1>11 DEF Store!Next, Store!Shrink
<1>13. MarksStep
  BY <1>1 DEF MarksStep
<1> QED BY <1>6, <1>7, <1>8, <1>12, <1>13 DEF StepSound, StoreStep, Inv

\* What a scan of the file finds.
LEMMA Scanned ==
  ASSUME Inv
  PROVE  ScannedStarts = Heads(word) /\ ScannedFree = FreeOf(word) /\ IdxRight(IdxOf(FreeOf(word)), FreeOf(word))
<1>1. BinsRight(FileBins, fileEnd) /\ Laid(word, FileBins)
  BY DEF Inv, CellsSound
<1>2. \A b \in FileBins : Starts(b) = {o \in Heads(word) : Within(word, o, b)}
  BY <1>1, ScanRight
<1>3. ASSUME NEW o PROVE o \in ScannedStarts <=> o \in Heads(word)
  <2>1. o \in ScannedStarts <=> \E b \in FileBins : o \in Starts(b)
    BY DEF ScannedStarts
  <2>2. o \in Heads(word) => \E b \in FileBins : Within(word, o, b)
    BY <1>1 DEF Laid
  <2> QED BY <1>2, <2>1, <2>2
<1>4. ScannedStarts = Heads(word)
  BY <1>3
<1>5. ScannedFree = FreeOf(word)
  BY <1>4 DEF ScannedFree, FreeOf
<1>6. \A c \in FreeOf(word) : c.off \in Int
  <2> TAKE c \in FreeOf(word)
  <2>1. c.off \in Nat
    BY <1>1, FreeFacts
  <2> QED BY <2>1
<1>7. \A c, d \in FreeOf(word) : End(c) = End(d) => c = d
  BY <1>1, FreeApart
<1> QED BY <1>4, <1>5, <1>6, <1>7, IdxOfRight

LEMMA NewFastStep ==
  ASSUME Inv, NewFast
  PROVE  StepSound
<1>1. /\ free' = ScannedFree /\ endIdx' = IdxOf(free') /\ bins' = FileBins /\ bump' = NoBump
      /\ session' = "clean" /\ res' = "ok" /\ UNCHANGED <<fileEnd, word, live>>
  BY DEF NewFast
<1>2. CellsSound
  BY DEF Inv
<1>3. FileBins' = FileBins
  <2>1. {b \in FileBins : b.start < fileEnd} = FileBins
    BY <1>2, SameBins DEF CellsSound
  <2>2. FileBins' = {b \in bins' : b.start < fileEnd'}
    BY DEF FileBins
  <2> HIDE DEF FileBins
  <2> QED BY <1>1, <2>1, <2>2
<1>4. CellsSound'
  BY <1>1, <1>2, <1>3 DEF CellsSound
<1>5. ListsSound'
  <2>1. free' = FreeOf(word') /\ IdxRight(endIdx', free')
    BY <1>1, Scanned
  <2> QED BY <1>1, <1>3, <2>1 DEF ListsSound
<1>6. BumpSound'
  BY <1>1 DEF BumpSound, NoBump
<1>7. NeverStuck'
  BY <1>1 DEF NeverStuck
<1> QED BY <1>1, <1>3, <1>4, <1>5, <1>6, <1>7 DEF StepSound, StoreStep, MarksStep, Inv

\* The hive an allocator is first given: an HBIN with one cell and a free one.
LEMMA InitSound ==
  ASSUME ModeInit
  PROVE  Inv /\ Store!Init
<1> DEFINE P == InitPages * PageSize
           r == PageSize + HbinHeader
           f == r + RootSize
           v == P - HbinHeader - RootSize
           end == PageSize + P
           B == {[start |-> PageSize, end |-> end]}
<1>1. /\ InitPages \in Nat /\ PageSize \in Nat /\ HbinHeader \in Nat /\ HbinHeader > 0 /\ HbinHeader < PageSize
      /\ RootSize \in Nat /\ RootSize > 0 /\ MaxHive \in Nat /\ PageSize + P <= MaxHive /\ HbinHeader + RootSize < P
  BY AllocAssumption
<1>2. P \in Nat
  BY <1>1
<1>3. /\ fileEnd = end /\ free = {Cell(f, v)} /\ live = {Cell(r, RootSize)} /\ bins = B
      /\ endIdx = [o \in Offset |-> IF o = end THEN f ELSE 0]
      /\ word = [o \in Offset |-> CASE o = PageSize -> HbinSignature
                                    [] o = r -> -RootSize
                                    [] o = f -> v
                                    [] OTHER -> 0]
      /\ bump = NoBump /\ session = "clean" /\ res = "none"
  BY DEF ModeInit, Init, InitFree, RootCell, Cell, End
<1> HIDE DEF P
<1>4. /\ PageSize \in Offset /\ r \in Offset /\ f \in Offset /\ v \in Nat /\ v > 0 /\ end \in Offset
      /\ PageSize < r /\ r < f /\ f < end /\ v < HbinSignature /\ HbinSignature # 0 /\ -RootSize # HbinSignature
      /\ f + v = end /\ HbinSignature \in Int
  BY <1>1, <1>2 DEF Offset, HbinSignature
<1>5. /\ word \in [Offset -> Int] /\ word[PageSize] = HbinSignature /\ word[r] = -RootSize /\ word[f] = v
      /\ \A o \in Offset : o \notin {PageSize, r, f} => word[o] = 0
  <2>1. word \in [Offset -> Int]
    BY <1>1, <1>3, <1>4
  <2>2. PageSize # r /\ PageSize # f /\ r # f
    BY <1>1, <1>2
  <2> HIDE DEF r, f, v, end
  <2> QED BY <1>3, <1>4, <2>1, <2>2
<1> HIDE DEF r, f, v, end
<1>6. Heads(word) = {r, f}
  <2>1. word[r] # 0 /\ word[r] # HbinSignature /\ word[f] # 0 /\ word[f] # HbinSignature
    <3>1. HbinSignature \in Int /\ v \in Int /\ v # 0 /\ v # HbinSignature /\ -RootSize # 0
      BY <1>1, <1>4
    <3> QED BY <1>4, <1>5, <3>1
  <2>2. ASSUME NEW o \in Heads(word) PROVE o \in {r, f}
    BY <1>5 DEF Heads
  <2>3. r \in Heads(word) /\ f \in Heads(word)
    BY <1>4, <2>1 DEF Heads
  <2> QED BY <2>2, <2>3
<1>7. Abs(word[r]) = RootSize /\ Abs(word[f]) = v /\ r + RootSize = f
  BY <1>1, <1>4, <1>5 DEF Abs, f
<1>8. BinsRight(B, end)
  <2>1. r = PageSize + HbinHeader
    BY DEF r
  <2>2. B \subseteq Bin
    BY <1>4 DEF Bin
  <2>3. \A b \in B : PageSize <= b.start /\ b.start + HbinHeader < b.end /\ b.end <= end
    BY <1>1, <1>4, <2>1 DEF Offset
  <2> QED BY <1>4, <2>2, <2>3 DEF BinsRight
<1>9. Laid(word, B)
  <2>1. \A o \in Offset : word[o] = HbinSignature <=> o = PageSize
    BY <1>1, <1>4, <1>5
  <2>2. \A o \in Heads(word) : \E b \in B : Within(word, o, b)
    <3>1. r = PageSize + HbinHeader /\ r \in Int /\ f \in Int /\ end \in Int /\ v \in Int
      BY <1>1, <1>4 DEF r, Offset
    <3>2. PageSize + HbinHeader <= r /\ r + RootSize <= end /\ PageSize + HbinHeader <= f /\ f + v <= end
      BY <1>1, <1>4, <1>7, <3>1
    <3> QED BY <1>6, <1>7, <3>2 DEF Within
  <2>3. \A o, p \in Heads(word) : o < p => o + Abs(word[o]) <= p
    <3>1. r \in Int /\ f \in Int
      BY <1>4 DEF Offset
    <3> QED BY <1>4, <1>6, <1>7, <3>1
  <2>4. \A o \in Heads(word) : (\E b \in B : o = b.start + HbinHeader) \/ \E p \in Heads(word) : p + Abs(word[p]) = o
    BY <1>6, <1>7 DEF r
  <2> QED BY <1>5, <2>1, <2>2, <2>3, <2>4 DEF Laid
<1>10. Merged(word)
  <2>1. ~(word[r] > 0) /\ f + word[f] # f
    BY <1>1, <1>4, <1>5 DEF Offset
  <2> QED BY <1>6, <2>1 DEF Merged
<1>11. live = LiveOf(word)
  <2>1. word[r] < 0 /\ ~(word[f] < 0) /\ -word[r] = RootSize
    BY <1>1, <1>4, <1>5
  <2>2. {h \in Heads(word) : word[h] < 0} = {r}
    BY <1>6, <2>1
  <2> QED BY <1>3, <2>1, <2>2 DEF LiveOf
<1>12. free = FreeOf(word)
  <2>1. ~(word[r] > 0) /\ word[f] > 0
    BY <1>1, <1>4, <1>5
  <2>2. {h \in Heads(word) : word[h] > 0} = {f}
    BY <1>6, <2>1
  <2> QED BY <1>3, <1>5, <2>2 DEF FreeOf
<1>13. IdxRight(endIdx, free)
  <2>1. Cell(f, v).off = f /\ End(Cell(f, v)) = end /\ f \in Int
    BY <1>4 DEF Cell, End, Offset
  <2> QED BY <1>3, <1>4, <2>1 DEF IdxRight
<1>14. FileBins = B
  <2>1. {b \in B : b.start < end} = B
    BY <1>8, SameBins
  <2> QED BY <1>3, <2>1 DEF FileBins
<1> HIDE DEF B
<1>15. CellsSound
  <2>1. PageSize <= end
    BY <1>1, <1>4 DEF Offset
  <2> QED BY <1>3, <1>4, <1>8, <1>9, <1>10, <1>11, <1>14, <2>1 DEF CellsSound
<1>16. ListsSound
  BY <1>3, <1>12, <1>13, <1>14 DEF ListsSound
<1>17. BumpSound /\ NeverStuck
  BY <1>3 DEF BumpSound, NoBump, NeverStuck
<1>18. Store!Init
  <2>1. Store!CellsOK(LiveOf(word), B)
    BY <1>8, <1>9, LaidIsOK
  <2> QED BY <1>11, <1>14, <2>1 DEF Store!Init
<1> QED BY <1>15, <1>16, <1>17, <1>18 DEF Inv

LEMMA Steps ==
  ASSUME Classed, Inv, ModeStep
  PROVE  StepSound
<1>1. ASSUME NEW n \in Needs, BumpAlloc(n) PROVE StepSound
  BY <1>1, BumpAllocStep
<1>2. ASSUME NEW n \in Needs, ListAlloc(n) PROVE StepSound
  <2>1. session = "clean" /\ UNCHANGED <<bump, session>> /\ Alloc(n)
    BY <1>2 DEF ListAlloc, ListsUsable
  <2>2. CASE AllocFast(n)
    BY <2>1, <2>2, AllocFastStep
  <2>3. CASE AllocGrow(n)
    BY <2>1, <2>3, AllocGrowStep
  <2>4. CASE AllocFails(n)
    BY <2>1, <2>4, AllocFailsStep
  <2> QED BY <2>1, <2>2, <2>3, <2>4 DEF Alloc
<1>3. ASSUME NEW a \in live, ModeFree(a) PROVE StepSound
  <2>1. session = "clean" /\ UNCHANGED <<bump, session>> /\ Free(a)
    BY <1>3 DEF ModeFree, ListsUsable
  <2> QED BY <2>1, FreeStep
<1>4. ASSUME NEW t \in BumpTotals, EnableBumpMode(t) PROVE StepSound
  <2>1. session = "clean"
    BY <1>4 DEF EnableBumpMode, ListsUsable
  <2> QED BY <1>4, <2>1, EnableStep
<1>5. ASSUME FinalizeBumpMode PROVE StepSound
  BY <1>5, FinalizeStep
<1>6. ASSUME NEW k \in TruncateCounts, TruncatePages(k) PROVE StepSound
  BY <1>6, TruncateStep
<1>7. ASSUME ModeGrow(1) PROVE StepSound
  <2>1. session = "clean" /\ UNCHANGED <<bump, session>> /\ GrowByPages(1)
    BY <1>7 DEF ModeGrow, ListsUsable
  <2> QED BY <2>1, GrowStep
<1>8. ASSUME NewFast PROVE StepSound
  BY <1>8, NewFastStep
<1> QED BY <1>1, <1>2, <1>3, <1>4, <1>5, <1>6, <1>7, <1>8 DEF ModeStep

LEMMA Stutters ==
  ASSUME Inv, UNCHANGED allvars
  PROVE  StepSound /\ UNCHANGED vars
<1>1. UNCHANGED <<fileEnd, word, free, endIdx, bins, live, marked, res, bump, session>> /\ UNCHANGED vars
  BY DEF allvars, vars
<1>2. FileBins' = FileBins
  BY <1>1 DEF FileBins
<1>3. Inv'
  BY <1>1, <1>2 DEF Inv, CellsSound, ListsSound, BumpSound, NeverStuck
<1> QED BY <1>1, <1>2, <1>3 DEF StepSound, StoreStep, MarksStep

\* A step, once a batch overran its region, or from a sound state.
LEMMA NextStep ==
  ASSUME Classed, [ModeNext]_allvars
  PROVE  /\ overran => overran'
         /\ Inv => overran' \/ StepSound
<1>1. CASE ModeStep /\ UNCHANGED overran
  BY <1>1, Steps
<1>2. CASE \E n \in Needs : Overrun(n)
  BY <1>2 DEF Overrun
<1>3. CASE UNCHANGED allvars
  <2>1. UNCHANGED overran
    BY <1>3 DEF allvars
  <2> QED BY <1>3, <2>1, Stutters
<1> QED BY <1>1, <1>2, <1>3 DEF ModeNext
-----------------------------------------------------------------------------
(***************************************************************************)
(* The theorems.                                                           *)
(***************************************************************************)
\* The invariant holds in every state that no overrun came before.
THEOREM AllocSound ==
  ASSUME Classed
  PROVE  ModeSpec => [](overran \/ Inv)
<1>1. ModeInit => Inv
  BY InitSound
<1>2. (overran \/ Inv) /\ [ModeNext]_allvars => (overran \/ Inv)'
  BY NextStep DEF StepSound
<1> QED BY <1>1, <1>2, PTL DEF ModeSpec

\* While an allocator serves list requests, its free lists are what a scan of
\* the file would find, its end index has an entry for the end of each free
\* cell and no other, no two free cells of a bin touch, and the search after
\* Grow is never without a cell (FreeListsRight).
THEOREM ListsAreRight ==
  ASSUME Classed
  PROVE  ModeSpec => []FreeListsRight
<1>1. overran \/ Inv => FreeListsRight
  <2> SUFFICES ASSUME Inv PROVE FreeListsRight
    BY DEF FreeListsRight
  <2>1. ListsAreScan
    BY Scanned DEF Inv, ListsSound, ListsAreScan
  <2>2. IdxLeadsRight
    <3> SUFFICES ASSUME session = "clean" PROVE endIdx = IdxOf(free)
      BY DEF IdxLeadsRight
    <3>1. BinsRight(bins, fileEnd) /\ Laid(word, bins) /\ free = FreeOf(word) /\ IdxRight(endIdx, free)
      BY Serving
    <3>2. \A c \in free : c.off \in Int
      <4> TAKE c \in free
      <4>1. c.off \in Nat
        BY <3>1, FreeFacts
      <4> QED BY <4>1
    <3>3. \A c, d \in free : End(c) = End(d) => c = d
      BY <3>1, FreeApart
    <3> QED BY <3>1, <3>2, <3>3, IdxOfRight
  <2>3. Coalesced
    <3> SUFFICES ASSUME session = "clean", NEW c \in free, NEW d \in free PROVE End(c) # d.off
      BY DEF Coalesced
    <3>1. BinsRight(bins, fileEnd) /\ Laid(word, bins) /\ free = FreeOf(word) /\ Merged(word)
      BY Serving
    <3>2. c.off \in Heads(word) /\ word[c.off] = c.size /\ c.size > 0 /\ End(c) = c.off + c.size
      BY <3>1, FreeFacts
    <3>3. d.off \in Heads(word) /\ word[d.off] = d.size /\ d.size > 0
      BY <3>1, FreeFacts
    <3> QED BY <3>1, <3>2, <3>3 DEF Merged
  <2> QED BY <2>1, <2>2, <2>3 DEF FreeListsRight, Inv
<1> QED BY <1>1, AllocSound, PTL

\* The walk over an HBIN by cell headers meets every allocated cell, also in a
\* hive that a process left inside a bump batch, as long as no batch asked for
\* more than its region had left (WalkMeetsLive).
THEOREM WalkIsComplete ==
  ASSUME Classed
  PROVE  ModeSpec => []WalkMeetsLive
<1>1. overran \/ Inv => WalkMeetsLive
  <2> SUFFICES ASSUME Inv, NEW c \in live PROVE word[c.off] = -c.size /\ c.off \in ScannedStarts
    BY DEF WalkMeetsLive
  <2>1. BinsRight(FileBins, fileEnd) /\ Laid(word, FileBins) /\ live = LiveOf(word)
    BY DEF Inv, CellsSound
  <2>2. c.off \in Heads(word) /\ word[c.off] = -c.size
    BY <2>1, LiveFacts
  <2> QED BY <2>2, Scanned
<1> QED BY <1>1, AllocSound, PTL

\* Every step of the allocator, list request, bump batch, truncation or
\* reopening, is a step of the abstract cell store or leaves it alone: cells
\* never overlap, never leave their bin and go only when they are freed, until
\* a batch asks for more than its region has left (Implements).
THEOREM AllocImplements ==
  ASSUME Classed
  PROVE  ModeSpec => Implements
<1>1. ModeInit => Store!Init
  BY InitSound
<1>2. (overran \/ Inv) /\ [ModeNext]_allvars => [overran' \/ Store!Next]_<<live, FileBins>>
  BY NextStep DEF StepSound, StoreStep
<1> QED BY <1>1, <1>2, AllocSound, PTL DEF ModeSpec, Implements

\* Every call hands the offset of each header it writes to the dirty tracker.
THEOREM WritesAreMarked ==
  ASSUME Classed
  PROVE  ModeSpec => WritesMarked
<1>1. (overran \/ Inv) /\ [ModeNext]_allvars =>
        [overran' \/ \A o \in Offset : word'[o] # word[o] /\ word'[o] # 0 => o \in marked']_vars
  BY NextStep DEF StepSound, MarksStep
<1> QED BY <1>1, AllocSound, PTL DEF ModeSpec, WritesMarked

-----------------------------------------------------------------------------
(***************************************************************************)
(* Structural verification: to the invariant this adds how the bins follow *)
(* each other.                                                             *)
(***************************************************************************)

\* A whole number of pages.
Whole(x) == \E q \in Int : x = q * PageSize

\* Bins of whole pages follow each other from the first one to the file's end.
Chained(B, end) ==
  /\ Whole(end) /\ \E b \in B : b.start = PageSize
  /\ \A b \in B : /\ Whole(b.start) /\ Whole(b.end)
                  /\ b.end = end \/ \E d \in B : d.start = b.end

\* The last cell of a finished bump batch reaches to the end of the file.
FileSound ==
  /\ dataSize = fileEnd - PageSize /\ Chained(FileBins, fileEnd)
  /\ session = "spent" => bins = FileBins /\ \E p \in Heads(word) : p + Abs(word[p]) = fileEnd
-----------------------------------------------------------------------------
(***************************************************************************)
(* Numbers.                                                                *)
(***************************************************************************)
LEMMA WholeMod ==
  ASSUME NEW x \in Int, Whole(x)
  PROVE  x % PageSize = 0
<1>1. PICK q \in Int : x = q * PageSize
  BY DEF Whole
<1> DEFINE k == x \div PageSize
           d == q - k
<1>2. PageSize \in Nat \ {0}
  BY Constants
<1>3. k \in Int /\ x % PageSize = x - PageSize * k /\ x % PageSize \in 0..(PageSize - 1)
  BY <1>2
<1> HIDE DEF k
<1>4. d \in Int /\ x - PageSize * k = PageSize * d
  BY <1>1, <1>2, <1>3
<1> HIDE DEF d
<1>5. CASE d = 0
  BY <1>2, <1>3, <1>4, <1>5
<1>6. CASE d > 0
  <2>1. PageSize * d >= PageSize
    <3>1. d - 1 \in Nat
      BY <1>4, <1>6
    <3>2. PageSize * (d - 1) \in Nat
      BY <1>2, <3>1
    <3>3. PageSize * d = PageSize * (d - 1) + PageSize
      BY <1>2, <1>4
    <3> QED BY <1>2, <3>2, <3>3
  <2> QED BY <1>2, <1>3, <1>4, <2>1
<1>7. CASE d < 0
  <2>1. PageSize * d < 0
    <3>1. -d - 1 \in Nat
      BY <1>4, <1>7
    <3>2. PageSize * (-d - 1) \in Nat
      BY <1>2, <3>1
    <3>3. PageSize * d = -(PageSize * (-d - 1)) - PageSize
      BY <1>2, <1>4
    <3> QED BY <1>2, <3>2, <3>3
  <2> QED BY <1>2, <1>3, <1>4, <2>1
<1> QED BY <1>4, <1>5, <1>6, <1>7

LEMMA WholeSum ==
  ASSUME NEW x, Whole(x), NEW y, Whole(y)
  PROVE  Whole(x + y) /\ Whole(x - y)
<1>1. PICK p \in Int : x = p * PageSize
  BY DEF Whole
<1>2. PICK q \in Int : y = q * PageSize
  BY DEF Whole
<1>3. x + y = (p + q) * PageSize /\ x - y = (p - q) * PageSize /\ p + q \in Int /\ p - q \in Int
  BY <1>1, <1>2, Constants
<1> QED BY <1>3 DEF Whole

LEMMA WholePages ==
  ASSUME NEW k \in Int
  PROVE  Whole(k * PageSize)
  BY DEF Whole

LEMMA WholePage == Whole(PageSize) /\ Whole(1 * PageSize) /\ 1 * PageSize \in Nat
<1>1. PageSize \in Nat /\ 1 * PageSize = PageSize /\ 1 \in Int
  BY Constants
<1> QED BY <1>1 DEF Whole

LEMMA WholeAligned ==
  ASSUME NEW x \in Int
  PROVE  Whole(AlignHBIN(x))
<1> DEFINE q == (-x) \div PageSize
<1>1. PageSize \in Nat \ {0} /\ -x \in Int
  BY Constants
<1>2. q \in Int /\ (-x) % PageSize = (-x) - PageSize * q
  BY <1>1
<1> HIDE DEF q
<1>3. AlignHBIN(x) = (-q) * PageSize
  BY <1>1, <1>2 DEF AlignHBIN
<1> QED BY <1>2, <1>3 DEF Whole
-----------------------------------------------------------------------------
(***************************************************************************)
(* The walks of verify.go.                                                 *)
(***************************************************************************)
\* validateHBINCells is content: the walk that starts after a bin's header meets
\* cells that end in the bin, or a 0.
LEMMA CellsAccepted ==
  ASSUME NEW B, NEW end, BinsRight(B, end), Laid(word, B), NEW b \in B
  PROVE  ValidateHBINCells(b.start, b.end)
<1> DEFINE S == b.start..b.end
           stop(o) == o >= b.end \/ word[o] = 0
           next(o) == o + Abs(word[o])
           eq(f) == f = [o \in S |-> IF stop(o) THEN TRUE ELSE next(o) <= b.end /\ f[next(o)]]
           w == [o \in S |-> o # b.start]
           from == CHOOSE f : eq(f)
<1>1. /\ b.start \in Nat /\ b.end \in Nat /\ b.end <= MaxHive /\ b.start + HbinHeader < b.end
      /\ HbinHeader \in Nat /\ HbinHeader > 0 /\ S \subseteq Offset
  <2>1. b.start \in Nat /\ b.end \in Nat /\ end \in Nat /\ end <= MaxHive /\ b.end <= end /\ b.start + HbinHeader < b.end
    BY BinFacts
  <2> QED BY <2>1, Constants
<1>2. \A o \in Offset : word[o] \in Int /\ Abs(word[o]) \in Nat /\ (word[o] # 0 => Abs(word[o]) > 0) /\ o \in Nat
  BY Constants DEF Laid, Abs
<1>3. ASSUME NEW o \in S, ~stop(o)
      PROVE  /\ o = b.start => next(o) > b.end
             /\ o # b.start => next(o) <= b.end /\ next(o) \in S /\ next(o) # b.start
             /\ o < next(o) /\ next(o) \in Nat
  <2>1. o \in Offset /\ word[o] # 0 /\ o < b.end /\ b.start <= o /\ o \in Nat /\ Abs(word[o]) \in Nat /\ Abs(word[o]) > 0
    BY <1>1, <1>2, <1>3
  <2>2. CASE o = b.start
    <3>1. word[o] = HbinSignature
      BY <2>1, <2>2 DEF Laid
    <3>2. Abs(word[o]) = MaxHive + 1 /\ MaxHive \in Nat
      BY <3>1, Constants DEF Abs
    <3> QED BY <1>1, <2>1, <2>2, <3>2
  <2>3. CASE o # b.start
    <3>1. word[o] # HbinSignature
      <4> SUFFICES ASSUME word[o] = HbinSignature PROVE FALSE
        OBVIOUS
      <4>1. PICK d \in B : d.start = o
        BY <2>1 DEF Laid
      <4>2. d.start \in Nat /\ d.end \in Nat /\ d.start + HbinHeader < d.end
        BY BinFacts
      <4>3. d.start <= o /\ o < d.end /\ o \in Int
        BY <1>1, <2>1, <4>1, <4>2
      <4>4. b = d
        BY <2>1, <4>3, OneBin
      <4> QED BY <2>3, <4>1, <4>4
    <3>2. o \in Heads(word)
      BY <2>1, <3>1 DEF Heads
    <3>3. Within(word, o, b)
      BY <2>1, <3>2, HeadBin
    <3> QED BY <1>1, <2>1, <2>3, <3>3 DEF Within
  <2> QED BY <2>2, <2>3
<1>4. eq(w)
  <2>1. ASSUME NEW o \in S PROVE w[o] = IF stop(o) THEN TRUE ELSE next(o) <= b.end /\ w[next(o)]
    <3>1. CASE stop(o)
      <4>1. o # b.start
        <5> SUFFICES ASSUME o = b.start PROVE FALSE
          OBVIOUS
        <5>1. word[o] = HbinSignature /\ HbinSignature # 0
          BY <1>1, Constants DEF Laid
        <5> QED BY <1>1, <3>1, <5>1
      <4> QED BY <3>1, <4>1
    <3>2. CASE ~stop(o) /\ o = b.start
      <4>1. next(o) > b.end /\ next(o) \in Nat
        BY <1>3, <3>2
      <4>2. ~(next(o) <= b.end)
        BY <1>1, <4>1
      <4> HIDE DEF next, stop, S
      <4> QED BY <3>2, <4>2
    <3>3. CASE ~stop(o) /\ o # b.start
      <4>1. next(o) <= b.end /\ next(o) \in S /\ next(o) # b.start
        BY <1>3, <3>3
      <4> HIDE DEF next, stop, S
      <4> QED BY <3>3, <4>1
    <3> QED BY <3>1, <3>2, <3>3
  <2> HIDE DEF next, stop, S
  <2> QED BY <2>1
<1>5. ASSUME NEW f, eq(f) PROVE \A o \in S : o # b.start => f[o]
  <2> SUFFICES ASSUME NEW x \in S, x # b.start, ~f[x] PROVE FALSE
    OBVIOUS
  <2> DEFINE T == {b.end - o : o \in {y \in S : y # b.start /\ ~f[y]}}
  <2>1. T \subseteq Nat /\ T # {}
    <3>1. b.end - x \in T
      OBVIOUS
    <3>2. ASSUME NEW y \in S PROVE b.end - y \in Nat
      BY <1>1
    <3> QED BY <3>1, <3>2
  <2>2. PICK m \in T : \A k \in T : m <= k
    BY <2>1, Smallest
  <2>3. PICK o \in S : m = b.end - o /\ o # b.start /\ ~f[o]
    OBVIOUS
  <2>4. \A y \in S : o < y => f[y]
    <3> SUFFICES ASSUME NEW y \in S, o < y, ~f[y] PROVE FALSE
      OBVIOUS
    <3>1. y # b.start
      BY <1>1
    <3>2. b.end - y \in T
      BY <3>1
    <3>3. m <= b.end - y
      BY <2>2, <3>2
    <3> QED BY <1>1, <2>3, <3>3
  <2>5. f[o] = IF stop(o) THEN TRUE ELSE next(o) <= b.end /\ f[next(o)]
    <3> HIDE DEF S, stop, next
    <3> QED BY <1>5
  <2>6. ~stop(o)
    <3> HIDE DEF stop, next
    <3> QED BY <2>3, <2>5
  <2>7. next(o) <= b.end /\ next(o) \in S /\ o < next(o)
    BY <1>3, <2>3, <2>6
  <2>8. f[next(o)]
    <3> HIDE DEF next, S
    <3> QED BY <2>4, <2>7
  <2> HIDE DEF stop, next, S
  <2> QED BY <2>3, <2>5, <2>6, <2>7, <2>8
<1>6. eq(from)
  <2> HIDE DEF w, S, stop, next
  <2> QED BY <1>4
<1>7. ValidateHBINCells(b.start, b.end) = from[b.start + HbinHeader]
  BY DEF ValidateHBINCells
<1>8. b.start + HbinHeader \in S /\ b.start + HbinHeader # b.start
  BY <1>1
<1> HIDE DEF S, eq, from
<1> QED BY <1>5, <1>6, <1>7, <1>8

\* The walk over the bins meets one bin after the other.
LEMMA BinsAccepted ==
  ASSUME BinsRight(FileBins, fileEnd), Laid(word, FileBins), Chained(FileBins, fileEnd)
  PROVE  HBINStructure
<1> DEFINE S == PageSize..(fileEnd + PageSize)
           past(pos) == pos + HbinHeader > fileEnd
           here(pos) == word[pos] = HbinSignature /\ \E b \in bins : b.start = pos
           size(pos) == HbinSizeAt(pos)
           fits(pos) == size(pos) > 0 /\ size(pos) % PageSize = 0 /\ pos + size(pos) <= fileEnd
                        /\ ValidateHBINCells(pos, pos + size(pos))
           eq(f) == f = [pos \in S |-> IF past(pos) THEN TRUE
                                       ELSE here(pos) /\ fits(pos) /\ f[pos + size(pos)]]
           w == [pos \in S |-> past(pos) \/ \E b \in FileBins : b.start = pos]
           step(f, pos) == IF pos + HbinHeader > fileEnd THEN TRUE
                           ELSE /\ word[pos] = HbinSignature
                                /\ \E b \in bins : b.start = pos
                                /\ LET z == HbinSizeAt(pos)
                                   IN /\ z > 0 /\ z % PageSize = 0 /\ pos + z <= fileEnd
                                      /\ ValidateHBINCells(pos, pos + z)
                                      /\ f[pos + z]
           from == CHOOSE f : f = [pos \in S |-> step(f, pos)]
<1>1. /\ fileEnd \in Nat /\ fileEnd <= MaxHive /\ PageSize \in Nat /\ HbinHeader \in Nat /\ HbinHeader > 0
      /\ HbinHeader < PageSize
  BY Constants DEF BinsRight
<1>2. ASSUME NEW b \in FileBins
      PROVE  /\ b.start \in S /\ ~past(b.start) /\ here(b.start) /\ fits(b.start) /\ b.start + size(b.start) = b.end
             /\ b.end \in S /\ b.start < b.end
             /\ past(b.end) \/ \E d \in FileBins : d.start = b.end
  <2>1. b.start \in Nat /\ b.end \in Nat /\ PageSize <= b.start /\ b.start + HbinHeader < b.end /\ b.end <= fileEnd
    BY BinFacts
  <2>2. b.start \in S /\ b.end \in S /\ b.start < b.end /\ ~past(b.start)
    BY <1>1, <2>1
  <2>3. b \in bins /\ b.start \in Offset
    BY <1>1, <2>1, Constants DEF FileBins
  <2>4. word[b.start] = HbinSignature
    BY <2>3 DEF Laid
  <2>5. ASSUME NEW d \in bins, d.start = b.start PROVE d = b
    <3>1. d.start < fileEnd
      BY <1>1, <2>1, <2>5
    <3>2. d \in FileBins
      BY <3>1 DEF FileBins
    <3>3. d.start \in Nat /\ d.end \in Nat /\ d.start + HbinHeader < d.end
      BY <3>2, BinFacts
    <3>4. b.start <= b.start /\ b.start < b.end /\ d.start <= b.start /\ b.start < d.end /\ b.start \in Int
      BY <1>1, <2>1, <2>5, <3>3
    <3> QED BY <3>2, <3>4, OneBin
  <2>6. size(b.start) = b.end - b.start
    <3>1. (CHOOSE d \in bins : d.start = b.start) = b
      BY <2>3, <2>5
    <3> QED BY <3>1 DEF HbinSizeAt
  <2> HIDE DEF size
  <2>7. b.start + size(b.start) = b.end /\ size(b.start) > 0 /\ size(b.start) \in Int
    BY <1>1, <2>1, <2>6
  <2>8. size(b.start) % PageSize = 0
    <3>1. Whole(b.end - b.start)
      BY WholeSum DEF Chained
    <3> QED BY <2>6, <2>7, <3>1, WholeMod
  <2>9. ValidateHBINCells(b.start, b.end)
    BY CellsAccepted
  <2>10. past(b.end) \/ \E d \in FileBins : d.start = b.end
    <3>1. b.end = fileEnd => past(b.end)
      BY <1>1
    <3> QED BY <3>1 DEF Chained
  <2> QED BY <2>1, <2>2, <2>3, <2>4, <2>7, <2>8, <2>9, <2>10
<1>3. ASSUME NEW pos \in S, ~past(pos), here(pos) PROVE \E b \in FileBins : b.start = pos
  <2>1. PICK b \in bins : b.start = pos
    BY <1>3
  <2>2. pos < fileEnd
    BY <1>1, <1>3
  <2> QED BY <2>1, <2>2 DEF FileBins
<1>4. eq(w)
  <2>1. ASSUME NEW pos \in S
        PROVE  w[pos] = IF past(pos) THEN TRUE ELSE here(pos) /\ fits(pos) /\ w[pos + size(pos)]
    <3>1. CASE past(pos)
      <4> HIDE DEF past, here, fits, size, S
      <4> QED BY <3>1
    <3>2. CASE ~past(pos) /\ \E b \in FileBins : b.start = pos
      <4>1. PICK b \in FileBins : b.start = pos
        BY <3>2
      <4>2. here(pos) /\ fits(pos) /\ pos + size(pos) = b.end /\ b.end \in S
            /\ (past(b.end) \/ \E d \in FileBins : d.start = b.end)
        BY <1>2, <4>1
      <4> HIDE DEF past, here, fits, size, S
      <4> QED BY <3>2, <4>2
    <3>3. CASE ~past(pos) /\ ~ \E b \in FileBins : b.start = pos
      <4>1. ~here(pos)
        BY <1>3, <3>3
      <4> HIDE DEF past, here, fits, size, S
      <4> QED BY <3>3, <4>1
    <3> QED BY <3>1, <3>2, <3>3
  <2> HIDE DEF past, here, fits, size, S
  <2> QED BY <2>1
<1>5. ASSUME NEW f, eq(f) PROVE \A b \in FileBins : f[b.start]
  <2> SUFFICES ASSUME NEW x \in FileBins, ~f[x.start] PROVE FALSE
    OBVIOUS
  <2> DEFINE T == {fileEnd - b.start : b \in {y \in FileBins : ~f[y.start]}}
  <2>0. \A y \in FileBins : y.start \in Nat /\ y.end \in Nat /\ y.start <= fileEnd
    <3> TAKE y \in FileBins
    <3>1. y.start \in Nat /\ y.end \in Nat /\ y.start + HbinHeader < y.end /\ y.end <= fileEnd
      BY BinFacts
    <3> QED BY <1>1, <3>1
  <2>1. T \subseteq Nat /\ T # {}
    <3>1. fileEnd - x.start \in T
      OBVIOUS
    <3>2. ASSUME NEW y \in FileBins PROVE fileEnd - y.start \in Nat
      BY <1>1, <2>0
    <3> QED BY <3>1, <3>2
  <2>2. PICK m \in T : \A k \in T : m <= k
    BY <2>1, Smallest
  <2>3. PICK b \in FileBins : m = fileEnd - b.start /\ ~f[b.start]
    OBVIOUS
  <2>4. \A y \in FileBins : b.start < y.start => f[y.start]
    <3> SUFFICES ASSUME NEW y \in FileBins, b.start < y.start, ~f[y.start] PROVE FALSE
      OBVIOUS
    <3>1. fileEnd - y.start \in T
      OBVIOUS
    <3>2. m <= fileEnd - y.start
      BY <2>2, <3>1
    <3> QED BY <1>1, <2>0, <2>3, <3>2
  <2>5. /\ b.start \in S /\ ~past(b.start) /\ here(b.start) /\ fits(b.start) /\ b.start + size(b.start) = b.end
        /\ b.end \in S /\ b.start < b.end
        /\ past(b.end) \/ \E d \in FileBins : d.start = b.end
    BY <1>2
  <2> HIDE DEF S, past, here, fits, size, T
  <2>6. f[b.end] => f[b.start]
    <3>1. f[b.start] = IF past(b.start) THEN TRUE
                       ELSE here(b.start) /\ fits(b.start) /\ f[b.start + size(b.start)]
      BY <1>5, <2>5
    <3>2. f[b.start] = (here(b.start) /\ fits(b.start) /\ f[b.end])
      BY <2>5, <3>1
    <3> QED BY <2>5, <3>2
  <2>7. CASE past(b.end)
    <3>1. f[b.end]
      BY <1>5, <2>5, <2>7
    <3> QED BY <2>3, <2>6, <3>1
  <2>8. CASE \E d \in FileBins : d.start = b.end
    <3>1. PICK d \in FileBins : d.start = b.end
      BY <2>8
    <3>2. f[d.start]
      BY <2>4, <2>5, <3>1
    <3> QED BY <2>3, <2>6, <3>1, <3>2
  <2> QED BY <2>5, <2>7, <2>8
<1>6. eq(from)
  <2>1. ASSUME NEW f PROVE eq(f) <=> f = [pos \in S |-> step(f, pos)]
    <3>1. ASSUME NEW pos
          PROVE  step(f, pos) = (IF past(pos) THEN TRUE ELSE here(pos) /\ fits(pos) /\ f[pos + size(pos)])
      OBVIOUS
    <3> HIDE DEF S, step, past, here, fits, size
    <3> QED BY <3>1
  <2> HIDE DEF w, S, eq, step
  <2> QED BY <1>4, <2>1
<1>7. HBINStructure = (fileEnd >= PageSize + HbinHeader /\ from[PageSize])
  BY DEF HBINStructure
<1>8. PICK b \in FileBins : b.start = PageSize
  BY DEF Chained
<1>9. fileEnd >= PageSize + HbinHeader
  <2>1. b.start \in Nat /\ b.end \in Nat /\ b.start + HbinHeader < b.end /\ b.end <= fileEnd
    BY BinFacts
  <2> QED BY <1>1, <1>8, <2>1
<1> HIDE DEF eq, from
<1> QED BY <1>5, <1>6, <1>7, <1>8, <1>9
-----------------------------------------------------------------------------
(***************************************************************************)
(* The bins after each operation.                                          *)
(***************************************************************************)
\* growByHBINSize puts the new bin behind the last one.
LEMMA ChainGrows ==
  ASSUME NEW B, NEW end, BinsRight(B, end), Chained(B, end), NEW size \in Nat, Whole(size),
         NEW D, MoreBins(B, D, end, size)
  PROVE  Chained(D, end + size)
<1> DEFINE n == [start |-> end, end |-> end + size]
<1>1. D = B \cup {n} /\ n.start = end /\ n.end = end + size
  BY DEF MoreBins
<1>2. Whole(end) /\ Whole(end + size)
  BY WholeSum DEF Chained
<1> HIDE DEF n
<1>3. \A b \in D : /\ Whole(b.start) /\ Whole(b.end)
                   /\ b.end = end + size \/ \E d \in D : d.start = b.end
  <2> TAKE b \in D
  <2>1. CASE b = n
    BY <1>1, <1>2, <2>1
  <2>2. CASE b \in B
    <3>1. Whole(b.start) /\ Whole(b.end) /\ (b.end = end \/ \E d \in B : d.start = b.end)
      BY <2>2 DEF Chained
    <3> QED BY <1>1, <3>1
  <2> QED BY <1>1, <2>1, <2>2
<1> QED BY <1>1, <1>2, <1>3 DEF Chained

\* TruncatePages takes whole bins off the end.
LEMMA ChainCut ==
  ASSUME NEW B, NEW end, BinsRight(B, end), Chained(B, end), NEW cut, \E b \in B : b.end = cut,
         NEW D, FewerBins(B, D, cut), \A b \in D : b.end <= cut
  PROVE  Chained(D, cut)
<1>1. PICK l \in B : l.end = cut
  OBVIOUS
<1>2. l.start \in Nat /\ l.end \in Nat /\ end \in Nat /\ PageSize <= l.start /\ l.start + HbinHeader < l.end /\ l.end <= end
  BY BinFacts
<1>3. cut \in Nat /\ cut <= end /\ PageSize < cut /\ Whole(cut)
  <2>1. Whole(cut)
    BY <1>1 DEF Chained
  <2> QED BY <1>1, <1>2, <2>1, Constants
<1>4. D = {b \in B : b.start < cut}
  BY DEF FewerBins
<1>5. PICK f \in B : f.start = PageSize
  BY DEF Chained
<1>6. f \in D
  BY <1>3, <1>4, <1>5
<1>7. \A b \in D : /\ Whole(b.start) /\ Whole(b.end)
                   /\ b.end = cut \/ \E d \in D : d.start = b.end
  <2> TAKE b \in D
  <2>1. b \in B
    BY <1>4
  <2>2. b.end \in Nat /\ b.end <= cut
    BY <2>1, BinFacts
  <2>3. Whole(b.start) /\ Whole(b.end) /\ (b.end = end \/ \E d \in B : d.start = b.end)
    BY <2>1 DEF Chained
  <2>4. CASE b.end = end
    BY <1>2, <1>3, <2>2, <2>3, <2>4
  <2>5. CASE \E d \in B : d.start = b.end
    <3>1. PICK d \in B : d.start = b.end
      BY <2>5
    <3>2. b.end = cut \/ b.end < cut
      BY <1>3, <2>2
    <3> QED BY <1>4, <2>3, <3>1, <3>2
  <2> QED BY <2>3, <2>4, <2>5
<1> QED BY <1>3, <1>5, <1>6, <1>7 DEF Chained

\* A step of an allocator in use that leaves file and bins alone.
LEMMA FileStays ==
  ASSUME FileSound, UNCHANGED <<fileEnd, dataSize, bins>>, session' # "spent"
  PROVE  FileSound'
<1>1. FileBins' = FileBins
  BY DEF FileBins
<1> QED BY <1>1 DEF FileSound

\* A step that appends a bin.
LEMMA FileGrows ==
  ASSUME Inv, Inv', FileSound, session = "clean", session' \in {"clean", "bump"},
         NEW size \in Nat, Whole(size), AppendHBIN(size)
  PROVE  FileSound'
<1>1. /\ fileEnd' = fileEnd + size /\ dataSize' = dataSize + size
      /\ bins' = bins \cup {[start |-> fileEnd, end |-> fileEnd + size]}
  BY DEF AppendHBIN, GrowFile
<1>2. bins = FileBins /\ BinsRight(bins, fileEnd) /\ fileEnd \in Nat
  BY Serving
<1>3. FileBins' = bins'
  BY DEF Inv, ListsSound, BumpSound
<1>4. MoreBins(bins, bins', fileEnd, size)
  BY <1>1 DEF MoreBins
<1>5. Chained(bins, fileEnd)
  BY <1>2 DEF FileSound
<1>6. Chained(bins', fileEnd + size)
  BY <1>2, <1>4, <1>5, ChainGrows
<1>7. dataSize' = fileEnd' - PageSize
  BY <1>1, <1>2, Constants DEF FileSound
<1> QED BY <1>1, <1>3, <1>6, <1>7 DEF FileSound

\* FinalizeBumpMode covers the rest of its region with a free cell.
LEMMA FinalizeTiles ==
  ASSUME Inv, Inv', FileSound, FinalizeBumpMode
  PROVE  FileSound'
<1> DEFINE off == bump.startOff + bump.cursor
           v == bump.capacity - bump.cursor
<1>1. /\ bump.active /\ session' = "spent" /\ UNCHANGED <<fileEnd, dataSize, bins>>
      /\ v > 0 => word' = [word EXCEPT ![off] = v]
      /\ ~(v > 0) => word' = word
  BY DEF FinalizeBumpMode, Cell
<1>2. /\ bump.startOff \in Nat /\ bump.capacity \in Nat /\ bump.cursor \in Nat /\ bins = FileBins
      /\ bump.cursor <= bump.capacity
      /\ \E b \in FileBins : /\ b.start + HbinHeader = bump.startOff
                             /\ b.end = bump.startOff + bump.capacity /\ b.end = fileEnd
      /\ bump.cursor > 0 => \E p \in Heads(word) : word[p] < 0 /\ p + Abs(word[p]) = bump.startOff + bump.cursor
  BY <1>1 DEF Inv, BumpSound
<1>3. BinsRight(FileBins, fileEnd) /\ Laid(word, FileBins) /\ fileEnd \in Nat /\ fileEnd <= MaxHive
  BY Constants DEF Inv, CellsSound
<1>4. FileBins' = FileBins
  BY <1>1 DEF FileBins
<1>5. PICK b \in FileBins : /\ b.start + HbinHeader = bump.startOff
                            /\ b.end = bump.startOff + bump.capacity /\ b.end = fileEnd
  BY <1>2
<1>6. b.start \in Nat /\ b.start + HbinHeader < b.end
  BY <1>3, BinFacts
<1>7. \E p \in Heads(word') : p + Abs(word'[p]) = fileEnd
  <2>1. CASE v > 0
    <3>1. off \in Offset /\ v \in Nat /\ off + v = fileEnd /\ v <= MaxHive
      BY <1>2, <1>3, <1>5, <2>1, Constants
    <3>2. word'[off] = v
      BY <1>1, <1>3, <2>1, <3>1 DEF Laid
    <3> HIDE DEF off, v
    <3>3. v # 0 /\ v # HbinSignature /\ Abs(v) = v
      BY <2>1, <3>1, Constants DEF Abs
    <3>4. off \in Heads(word')
      BY <3>1, <3>2, <3>3 DEF Heads
    <3> QED BY <3>1, <3>2, <3>3, <3>4
  <2>2. CASE ~(v > 0)
    <3>1. bump.cursor = bump.capacity /\ bump.capacity > 0
      BY <1>2, <1>5, <1>6, <2>2
    <3> QED BY <1>1, <1>2, <1>5, <2>2, <3>1
  <2> QED BY <2>1, <2>2
<1> QED BY <1>1, <1>2, <1>4, <1>7 DEF FileSound

LEMMA TruncateFile ==
  ASSUME Inv, FileSound, NEW k \in TruncateCounts, TruncatePages(k)
  PROVE  FileSound'
<1> DEFINE p == k * PageSize
           cut == PageSize + (dataSize - p)
<1>1. /\ session = "clean" /\ \E b \in bins : b.end = cut
      /\ fileEnd' = cut /\ dataSize' = dataSize - p /\ session' = "cut" /\ UNCHANGED bins
      /\ \A c \in live : End(c) <= cut
      /\ word' = [o \in Offset |-> IF o < cut THEN word[o] ELSE 0]
  BY DEF TruncatePages, CutIsEmpty, CutFile
<1>2. /\ bins = FileBins /\ BinsRight(bins, fileEnd) /\ Laid(word, bins) /\ Merged(word) /\ live = LiveOf(word)
      /\ fileEnd \in Nat
  BY <1>1, Serving
<1>3. k \in Nat /\ PageSize \in Nat /\ dataSize \in Int
  BY <1>2, ModesAssumption, Constants DEF FileSound
<1>4. p \in Nat
  BY <1>3
<1> HIDE DEF p
<1>5. dataSize' = fileEnd' - PageSize
  BY <1>1, <1>3, <1>4
<1> HIDE DEF cut
<1>6. Cut(word, word', cut) /\ FewerBins(bins, FileBins', cut)
  BY <1>1 DEF Cut, FewerBins, FileBins
<1>7. \A b \in FileBins' : b.end <= cut
  BY <1>1, <1>2, <1>6, CutCells
<1>8. Chained(bins, fileEnd)
  BY <1>2 DEF FileSound
<1>9. Chained(FileBins', cut)
  BY <1>1, <1>2, <1>6, <1>7, <1>8, ChainCut
<1> QED BY <1>1, <1>5, <1>9 DEF FileSound

\* Every step keeps file, data size and bins in agreement.
LEMMA FileStep ==
  ASSUME Classed, Inv, Inv', FileSound, ModeStep
  PROVE  FileSound'
<1>1. ASSUME NEW n \in Needs, BumpAlloc(n) PROVE FileSound'
  <2>1. UNCHANGED <<fileEnd, dataSize, bins, session>> /\ session = "bump"
    BY <1>1 DEF BumpAlloc, BumpFits, Inv, BumpSound
  <2> QED BY <2>1, FileStays
<1>2. ASSUME NEW n \in Needs, ListAlloc(n) PROVE FileSound'
  <2>1. session = "clean" /\ session' = session /\ Alloc(n)
    BY <1>2 DEF ListAlloc, ListsUsable
  <2>2. CASE AllocFast(n) \/ AllocFails(n)
    <3>1. UNCHANGED <<fileEnd, dataSize, bins>>
      BY <2>2 DEF AllocFast, AllocFails
    <3> QED BY <2>1, <3>1, FileStays
  <2>3. CASE AllocGrow(n)
    <3>1. AppendHBIN(GrowSize(n))
      BY <2>3 DEF AllocGrow
    <3>2. n \in Nat \ {0} /\ GrowFactor \in Nat /\ HbinHeader \in Nat
      BY AllocAssumption
    <3>3. GrowFactor * n + HbinHeader \in Int
      BY <3>2
    <3>4. GrowSize(n) \in Nat /\ Whole(GrowSize(n))
      <4>1. Whole(AlignHBIN(GrowFactor * n + HbinHeader))
        BY <3>3, WholeAligned
      <4> QED BY <3>2, <4>1, GrowFits DEF GrowSize
    <3> QED BY <2>1, <3>1, <3>4, FileGrows
  <2> QED BY <2>1, <2>2, <2>3 DEF Alloc
<1>3. ASSUME NEW a \in live, ModeFree(a) PROVE FileSound'
  <2>1. session = "clean" /\ UNCHANGED <<session, fileEnd, dataSize, bins>>
    BY <1>3 DEF ModeFree, ListsUsable, Free
  <2> QED BY <2>1, FileStays
<1>4. ASSUME NEW t \in BumpTotals, EnableBumpMode(t) PROVE FileSound'
  <2>1. session = "clean" /\ session' = "bump" /\ AppendHBIN(AlignHBIN(t + HbinHeader))
    BY <1>4 DEF EnableBumpMode, ListsUsable
  <2>2. t + HbinHeader \in Nat
    BY ModesAssumption, Constants
  <2>3. AlignHBIN(t + HbinHeader) \in Nat /\ Whole(AlignHBIN(t + HbinHeader))
    BY <2>2, Aligned, WholeAligned
  <2> QED BY <2>1, <2>3, FileGrows
<1>5. ASSUME FinalizeBumpMode PROVE FileSound'
  BY <1>5, FinalizeTiles
<1>6. ASSUME NEW k \in TruncateCounts, TruncatePages(k) PROVE FileSound'
  BY <1>6, TruncateFile
<1>7. ASSUME ModeGrow(1) PROVE FileSound'
  <2>1. session = "clean" /\ session' = session /\ GrowByPages(1)
    BY <1>7 DEF ModeGrow, ListsUsable
  <2>2. CASE fileEnd + 1 * PageSize > MaxHive
    <3>1. UNCHANGED <<fileEnd, dataSize, bins>>
      BY <2>1, <2>2 DEF GrowByPages
    <3> QED BY <2>1, <3>1, FileStays
  <2>3. CASE ~(fileEnd + 1 * PageSize > MaxHive)
    <3>1. AppendHBIN(1 * PageSize)
      BY <2>1, <2>3 DEF GrowByPages
    <3>2. 1 * PageSize \in Nat /\ Whole(1 * PageSize)
      BY WholePage
    <3> QED BY <2>1, <3>1, <3>2, FileGrows
  <2> QED BY <2>2, <2>3
<1>8. ASSUME NewFast PROVE FileSound'
  <2>1. bins' = FileBins /\ UNCHANGED <<fileEnd, dataSize>> /\ session' = "clean"
    BY <1>8 DEF NewFast
  <2>2. FileBins' = FileBins
    <3>1. FileBins' = {b \in bins' : b.start < fileEnd'}
      BY DEF FileBins
    <3> QED BY <2>1, <3>1 DEF FileBins
  <2> HIDE DEF FileBins
  <2> QED BY <2>1, <2>2 DEF FileSound
<1> QED BY <1>1, <1>2, <1>3, <1>4, <1>5, <1>6, <1>7, <1>8 DEF ModeStep

LEMMA InitFile ==
  ASSUME ModeInit
  PROVE  FileSound
<1> DEFINE P == InitPages * PageSize
           b == [start |-> PageSize, end |-> PageSize + P]
<1>1. /\ fileEnd = PageSize + P /\ dataSize = P /\ bins = {b} /\ session = "clean"
  BY DEF ModeInit, Init
<1>2. InitPages \in Nat /\ PageSize \in Nat /\ P \in Nat
  BY AllocAssumption
<1>3. Whole(P)
  BY <1>2, WholePages
<1> HIDE DEF P
<1>4. Whole(PageSize)
  BY WholePage
<1>5. Whole(PageSize) /\ Whole(PageSize + P)
  BY <1>3, <1>4, WholeSum
<1>6. FileBins = {b}
  <2>1. bins = FileBins
    BY <1>1, InitSound, Serving
  <2> QED BY <1>1, <2>1
<1>7. Chained(FileBins, fileEnd)
  BY <1>1, <1>5, <1>6 DEF Chained
<1>8. dataSize = fileEnd - PageSize
  BY <1>1, <1>2
<1> QED BY <1>1, <1>7, <1>8 DEF FileSound

\* What the invariant says of the checks of verify.go.
LEMMA Accepted ==
  ASSUME Inv, FileSound
  PROVE  VerifyAccepts
<1>1. BinsRight(FileBins, fileEnd) /\ Laid(word, FileBins) /\ fileEnd \in Nat /\ PageSize <= fileEnd
  BY Constants DEF Inv, CellsSound
<1>2. HBINStructure
  BY <1>1, BinsAccepted DEF FileSound
<1>3. REGFHeader
  <2>1. Whole(PageSize)
    BY WholePage
  <2>2. Whole(fileEnd - PageSize)
    BY <2>1, WholeSum DEF FileSound, Chained
  <2>3. dataSize \in Int /\ Whole(dataSize)
    BY <1>1, <2>2, Constants DEF FileSound
  <2>4. dataSize % PageSize = 0
    BY <2>3, WholeMod
  <2> QED BY <1>1, <2>4, Constants DEF REGFHeader
<1>4. FileSize
  BY <1>1, Constants DEF FileSize, FileSound
<1>5. ASSUME session = "spent", NEW b \in bins, b.end = fileEnd
      PROVE  \E o \in Starts(b) : o + Abs(word[o]) = b.end
  <2>1. b \in FileBins
    BY <1>5 DEF FileSound
  <2>2. PICK p \in Heads(word) : p + Abs(word[p]) = fileEnd
    BY <1>5 DEF FileSound
  <2>3. PICK d \in FileBins : Within(word, p, d)
    BY <1>1 DEF Laid
  <2>4. /\ b.start \in Nat /\ b.end \in Nat /\ b.start + HbinHeader < b.end
        /\ d.start \in Nat /\ d.end \in Nat /\ d.end <= fileEnd /\ d.start + HbinHeader < d.end
    BY <1>1, <2>1, BinFacts
  <2>5. d.end = fileEnd
    BY <1>1, <2>2, <2>3, <2>4 DEF Within
  <2>6. b = d
    <3>1. b = d \/ b.end <= d.start \/ d.end <= b.start
      BY <1>1, <2>1 DEF BinsRight
    <3> QED BY <1>5, <2>4, <2>5, <3>1, Constants
  <2>7. Starts(b) = {o \in Heads(word) : Within(word, o, b)}
    BY <1>1, <2>1, ScanRight
  <2> QED BY <1>5, <2>2, <2>3, <2>6, <2>7
<1> QED BY <1>2, <1>3, <1>4, <1>5 DEF VerifyAccepts, AllInvariants

\* Between any two calls, and when a process dies between them, the hive passes
\* verify.AllInvariants, and the HBIN of a finished bump batch is tiled by its
\* cells (VerifyAccepts).
THEOREM VerifyIsContent ==
  ASSUME Classed
  PROVE  ModeSpec => []VerifyAccepts
<1>1. ModeInit => Inv /\ FileSound
  BY InitSound, InitFile
<1>2. (overran \/ (Inv /\ FileSound)) /\ [ModeNext]_allvars => (overran \/ (Inv /\ FileSound))'
  <2> SUFFICES ASSUME overran \/ (Inv /\ FileSound), [ModeNext]_allvars, ~overran'
               PROVE  Inv' /\ FileSound'
    OBVIOUS
  <2>0. Inv /\ FileSound /\ StepSound
    BY NextStep
  <2>1. CASE ModeStep
    <3>1. Inv'
      BY <2>0 DEF StepSound
    <3> QED BY <2>0, <2>1, <3>1, FileStep
  <2>2. CASE \E n \in Needs : Overrun(n)
    BY <2>2 DEF Overrun
  <2>3. CASE UNCHANGED allvars
    <3>1. Inv' /\ UNCHANGED vars /\ UNCHANGED session
      BY <2>0, <2>3, Stutters DEF StepSound, allvars
    <3>2. UNCHANGED <<fileEnd, dataSize, bins, word>> /\ FileBins' = FileBins
      BY <3>1 DEF vars, FileBins
    <3> QED BY <2>0, <3>1, <3>2 DEF FileSound
  <2> QED BY <2>1, <2>2, <2>3 DEF ModeNext
<1>3. overran \/ (Inv /\ FileSound) => VerifyAccepts
  BY Accepted DEF VerifyAccepts
<1> QED BY <1>1, <1>2, <1>3, PTL DEF ModeSpec
=============================================================================
