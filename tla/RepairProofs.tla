---------------------------- MODULE RepairProofs ----------------------------
(***************************************************************************)
(* Proofs about Repair, for any keys and values, any configurations of the *)
(* engine and any number of diagnostics and calls: a batch that fails is   *)
(* undone, the hive file is whole whatever stops the program, and what was *)
(* repaired is not reported again.                                         *)
(***************************************************************************)
EXTENDS Repair, NaturalsInduction, SequenceTheorems, WellFoundedInduction, TLAPS

\* A field holds a number; NotU32 is what no field holds.
Word == Int \ {NotU32}
Image == [Loc -> Word]
IsFile(f) == f[1] = "file" /\ f = File(f[2]) /\ f[2] \in Image

Names == {"hive", Backup}
NoTemp == [state |-> "none", data |-> None]
Item == [Offset : Loc, OldData : Word, NewData : Word, Applied : BOOLEAN]

\* What a call under configuration s may be given for hive D.
OwnDiagnostics == {Diagnostic(DataLength(v), "VK", "truncate", 1, 1, TRUE) : v \in Value}
Known(s, D) == Diagnose(D) \cup Recorded \cup (IF s.foreign THEN OwnDiagnostics ELSE {})

Stages == {"idle", "repair", "rollback", "refused", "backup", "write", "done", "failed", "restore"}
Running == {"repair", "rollback", "refused", "backup", "write"}

Typed ==
  /\ setup \in Setups /\ pc \in Stages
  /\ data \in Image /\ orig \in Image
  /\ input \in Seq(Known(setup, orig)) /\ todo \in Seq(Known(setup, orig))
  /\ log \in Seq(Item) /\ status \in Seq({"applied", "failed"})
  /\ pc \in {"idle", "restore"} => input = <<>> /\ todo = <<>>

\* What the names stand for, and the temporary file.
Shapes ==
  /\ DOMAIN vis = Names /\ DOMAIN dur = Names
  /\ IsFile(vis["hive"]) \/ (vis["hive"] = Halved /\ pc \notin Running)
  /\ IsFile(dur["hive"]) \/ dur["hive"] = Halved
  /\ IsFile(vis[Backup]) \/ (vis[Backup] = None /\ pc # "restore")
  /\ IsFile(dur[Backup]) \/ dur[Backup] = None
  /\ tmp = NoTemp \/ (Writing /\ tmp = [state |-> tmp.state, data |-> tmp.data]
                              /\ tmp.state \in {"written", "synced", "renamed"} /\ IsFile(tmp.data))

\* The hive is the old one, or the repaired one beside a backup of the old.
Standing == vis["hive"] = File(orig) \/ (vis["hive"] = File(data) /\ vis[Backup] = File(orig))
Settled == vis["hive"] = dur["hive"] /\ vis[Backup] = dur[Backup]
\* A restore was begun: the backup is whole.
Cut ==
  /\ vis["hive"] = Halved /\ vis[Backup] = File(orig) /\ dur[Backup] = File(orig)
  /\ dur["hive"] \in {File(orig), File(data), Halved}
\* The stages of a call, when the directory can be synced.
Ordered ==
  Synced =>
    /\ pc \in {"repair", "rollback", "refused"} => Settled /\ vis["hive"] = File(orig)
    /\ pc = "backup" =>
         /\ vis["hive"] = File(orig) /\ dur["hive"] = File(orig)
         /\ IF tmp.state = "renamed" THEN vis[Backup] = File(orig) ELSE vis[Backup] = dur[Backup]
         /\ tmp # NoTemp => tmp.data = File(orig)
    /\ pc = "write" =>
         /\ vis[Backup] = File(orig) /\ dur[Backup] = File(orig) /\ dur["hive"] = File(orig)
         /\ IF tmp.state = "renamed" THEN vis["hive"] = File(data) ELSE vis["hive"] = File(orig)
    /\ pc = "done" => Settled /\ Standing
    /\ pc \in {"idle", "failed"} => (Settled /\ Standing) \/ Cut
    /\ pc = "restore" => Cut

\* The repaired hive is what is put in place.
Placed ==
  /\ pc = "write" /\ tmp # NoTemp => tmp.data = File(data)
  /\ pc = "write" /\ tmp.state = "renamed" => vis["hive"] = File(data)
  /\ pc = "done" => vis["hive"] = File(data) \/ status = <<>>

\* The diagnostics up to the n-th were applied and are still in the buffer.
Kept == filterDiagnostics(setup, input)
InForce(n) ==
  /\ n <= Len(Kept)
  /\ \A k \in 1..n : status[k] = "applied" /\ Admitted(Kept[k]) /\ data[Kept[k].Offset] = Written(Kept[k])
\* What a dry run foresees, or a truncation.
Foreseen ==
  \/ \E i \in 1..Len(Kept) : ~Admitted(Kept[i])
  \/ \E i \in 1..Len(input) : input[i].Type = "truncate"
Applying ==
  /\ pc = "repair" => /\ Len(status) + Len(todo) = Len(Kept)
                      /\ \A i \in 1..Len(todo) : todo[i] = Kept[Len(status) + i]
  /\ pc \in {"repair", "backup", "write", "done"} => InForce(Len(status))
  /\ pc \in {"rollback", "refused"} => Foreseen

\* The field l, which held O[l], held v after the first n entries of the log L.
Held(O, L, n, l, v) ==
  \/ v = O[l] /\ \A j \in 1..n : L[j].Offset # l
  \/ \E j \in 1..n : L[j].Offset = l /\ L[j].NewData = v /\ \A i \in (j + 1)..n : L[i].Offset # l
\* Undoing the entries of the log, the newest first, leads from D to O.
Undoable(O, L, D) ==
  /\ \A k \in 1..Len(L) : L[k].Applied /\ Held(O, L, k - 1, L[k].Offset, L[k].OldData)
  /\ \A l \in Loc : Held(O, L, Len(L), l, D[l])
Logged ==
  /\ pc \in {"repair", "rollback"} => Undoable(orig, log, data)
  /\ pc = "refused" => data = orig

IInv == Typed /\ Shapes /\ Ordered /\ Placed /\ Applying
-----------------------------------------------------------------------------
(***************************************************************************)
(* The filter.  Its recursive definition is that of a function: one that   *)
(* satisfies it for the first n diagnostics can be extended to the next.   *)
(***************************************************************************)
LEMMA Smallest ==
  ASSUME NEW S, S \subseteq Nat, S # {}
  PROVE  \E m \in S : \A k \in S : m <= k
<1>1. IsWellFoundedOn(OpToRel(<, Nat), Nat)
  BY NatLessThanWellFounded
<1>2. PICK m \in S : \A k \in S : <<k, m>> \notin OpToRel(<, Nat)
  BY <1>1, WFMin
<1>3. \A k \in S : ~(k < m)
  BY <1>2 DEF OpToRel
<1>4. \A k \in S : m <= k
  <2> SUFFICES ASSUME NEW k \in S PROVE m <= k
    OBVIOUS
  <2>1. k \in Nat /\ m \in Nat /\ ~(k < m)
    BY <1>3
  <2> QED BY <2>1
<1> QED BY <1>4

\* g gives what is left of the first n diagnostics, for every n up to m.
Filters(s, ds, m, g) ==
  g = [n \in 0..m |-> IF n = 0 THEN <<>>
                      ELSE IF Wanted(s, ds[n]) THEN Append(g[n - 1], ds[n]) ELSE g[n - 1]]

LEMMA FilterExtends ==
  ASSUME NEW s, NEW ds, NEW m \in Nat, NEW g, Filters(s, ds, m, g)
  PROVE  \E h : Filters(s, ds, m + 1, h)
<1> DEFINE h == [n \in 0..(m + 1) |-> IF n = m + 1
                                        THEN IF Wanted(s, ds[n]) THEN Append(g[m], ds[n]) ELSE g[m]
                                        ELSE g[n]]
           r(n) == IF n = 0 THEN <<>>
                   ELSE IF Wanted(s, ds[n]) THEN Append(h[n - 1], ds[n]) ELSE h[n - 1]
<1>1. ASSUME NEW n \in 0..(m + 1) PROVE h[n] = r(n)
  <2>1. CASE n = m + 1
    <3>1. n - 1 \in 0..(m + 1) /\ n - 1 # m + 1 /\ n # 0 /\ n - 1 = m
      BY <2>1
    <3>2. h[n - 1] = g[m]
      BY <3>1
    <3> QED BY <2>1, <3>1, <3>2
  <2>2. CASE n = 0
    <3>1. h[n] = g[n] /\ n \in 0..m
      BY <2>2
    <3>2. g[n] = <<>>
      BY <2>2, <3>1 DEF Filters
    <3> QED BY <2>2, <3>1, <3>2
  <2>3. CASE n # 0 /\ n # m + 1
    <3>1. h[n] = g[n] /\ h[n - 1] = g[n - 1] /\ n \in 0..m
      BY <2>3
    <3>2. g[n] = IF Wanted(s, ds[n]) THEN Append(g[n - 1], ds[n]) ELSE g[n - 1]
      BY <2>3, <3>1 DEF Filters
    <3> QED BY <2>3, <3>1, <3>2
  <2> QED BY <2>1, <2>2, <2>3
<1>2. h = [n \in 0..(m + 1) |-> h[n]]
  OBVIOUS
<1> HIDE DEF h
<1>3. h = [n \in 0..(m + 1) |-> r(n)]
  BY <1>1, <1>2
<1> QED BY <1>3 DEF Filters

LEMMA FilterIsFunction ==
  ASSUME NEW s, NEW ds, NEW m \in Nat
  PROVE  \E g : Filters(s, ds, m, g)
<1> DEFINE S == {n \in Nat : ~ \E g : Filters(s, ds, n, g)}
<1> SUFFICES ASSUME S # {} PROVE FALSE
  OBVIOUS
<1>1. PICK n \in S : \A k \in S : n <= k
  BY Smallest
<1>2. CASE n = 0
  <2>1. Filters(s, ds, 0, [k \in 0..0 |-> <<>>])
    BY DEF Filters
  <2> QED BY <1>2, <2>1
<1>3. CASE n # 0
  <2>1. n - 1 \in Nat /\ n - 1 \notin S
    BY <1>1, <1>3
  <2>2. PICK g : Filters(s, ds, n - 1, g)
    BY <2>1
  <2>3. \E h : Filters(s, ds, (n - 1) + 1, h)
    BY <2>1, <2>2, FilterExtends
  <2>4. (n - 1) + 1 = n
    OBVIOUS
  <2> QED BY <1>1, <2>3, <2>4
<1> QED BY <1>2, <1>3

\* The filter gives back diagnostics that it was given.
LEMMA FilterKeeps ==
  ASSUME NEW s, NEW S, NEW ds \in Seq(S)
  PROVE  filterDiagnostics(s, ds) \in Seq(S)
<1> DEFINE f == CHOOSE g : Filters(s, ds, Len(ds), g)
           B == {n \in 0..Len(ds) : f[n] \notin Seq(S)}
<1>1. Len(ds) \in Nat
  OBVIOUS
<1>2. Filters(s, ds, Len(ds), f)
  BY <1>1, FilterIsFunction
<1>3. filterDiagnostics(s, ds) = f[Len(ds)]
  BY DEF filterDiagnostics, Filters
<1> HIDE DEF f
<1>4. B = {}
  <2> SUFFICES ASSUME B # {} PROVE FALSE
    OBVIOUS
  <2>0. B \subseteq Nat
    BY <1>1
  <2>1. PICK n \in B : \A k \in B : n <= k
    BY <2>0, Smallest
  <2>2. n \in 0..Len(ds) /\ f[n] \notin Seq(S)
    BY <2>1
  <2>3. f[n] = IF n = 0 THEN <<>>
               ELSE IF Wanted(s, ds[n]) THEN Append(f[n - 1], ds[n]) ELSE f[n - 1]
    BY <1>2, <2>2 DEF Filters
  <2>4. n # 0
    BY <2>2, <2>3
  <2>5. n - 1 \in 0..Len(ds) /\ n - 1 \notin B
    BY <2>1, <2>2, <2>4, <1>1
  <2>6. f[n - 1] \in Seq(S) /\ ds[n] \in S
    BY <2>2, <2>4, <2>5
  <2>7. Append(f[n - 1], ds[n]) \in Seq(S)
    BY <2>6
  <2> QED BY <2>2, <2>3, <2>4, <2>6, <2>7
<1> QED BY <1>1, <1>3, <1>4
-----------------------------------------------------------------------------
(***************************************************************************)
(* Diagnostics, by what they are about.                                    *)
(***************************************************************************)
Header(D) == Diagnostic(Primary, "REGF", "default", D[Primary], 1, FALSE)
Bin == Diagnostic(BinOffset, "HBIN", "replace", 0, 1, TRUE)
Count(c, k) == Diagnostic(NKField(c, k), "NK", "replace", 0, 1, TRUE)
List(l, k) == Diagnostic(NKField(l, k), "NK", "default", InvalidOffset, 1, TRUE)
LongValue(v) == Diagnostic(DataCell(v), "VK", "truncate", NotU32, 1, TRUE)
BadBin == Diagnostic(BinStart, "HBIN", "replace", NotU32, 3, FALSE)
OwnCut(v) == Diagnostic(DataLength(v), "VK", "truncate", 1, 1, TRUE)

LEMMA Reported ==
  ASSUME NEW D, NEW d
  PROVE  /\ d \in Diagnose(D) =>
              \/ d = Header(D)
              \/ d = Bin /\ D[BinOffset] # 0
              \/ \E k \in Key : \E c \in {"subkeycount", "valuecount"} : d = Count(c, k) /\ D[NKField(c, k)] > 0
              \/ \E k \in Key : \E l \in {"subkeylist", "valuelist"} : d = List(l, k) /\ D[NKField(l, k)] # InvalidOffset
         /\ d \in Recorded => (\E v \in Value : d = LongValue(v)) \/ d = BadBin
<1>1. ASSUME NEW k \in Key, d \in validateNK(D, k)
      PROVE  \/ \E c \in {"subkeycount", "valuecount"} : d = Count(c, k) /\ D[NKField(c, k)] > 0
             \/ \E l \in {"subkeylist", "valuelist"} : d = List(l, k) /\ D[NKField(l, k)] # InvalidOffset
  BY <1>1, Zenon DEF validateNK, Count, List
<1>2. d \in validateREGF(D) => d = Header(D)
  BY DEF validateREGF, Header
<1>3. d \in validateHBINs(D) => d = Bin /\ D[BinOffset] # 0
  BY DEF validateHBINs, Bin
<1>4. d \in Recorded => (\E v \in Value : d = LongValue(v)) \/ d = BadBin
  BY DEF Recorded, LongValue, BadBin
<1>5. ASSUME d \in Diagnose(D)
      PROVE  d \in validateREGF(D) \/ d \in validateHBINs(D) \/ \E k \in Key : d \in validateNK(D, k)
  BY <1>5 DEF Diagnose
<1> QED BY <1>1, <1>2, <1>3, <1>4, <1>5

\* What a call may be given, case by case.
Shape(s, D, d) ==
  \/ d = Header(D)
  \/ d = Bin
  \/ \E k \in Key : \E c \in {"subkeycount", "valuecount"} : d = Count(c, k)
  \/ \E k \in Key : \E l \in {"subkeylist", "valuelist"} : d = List(l, k)
  \/ \E v \in Value : d = LongValue(v)
  \/ d = BadBin
  \/ s.foreign /\ \E v \in Value : d = OwnCut(v)

LEMMA KnownShape ==
  ASSUME NEW s, NEW D, NEW d \in Known(s, D)
  PROVE  Shape(s, D, d)
<1>1. d \in Diagnose(D) \/ d \in Recorded \/ (s.foreign /\ \E v \in Value : d = OwnCut(v))
  BY DEF Known, OwnDiagnostics, OwnCut
<1> QED BY <1>1, Reported DEF Shape

LEMMA Locations ==
  /\ Primary \in Loc /\ BinOffset \in Loc /\ BinStart \in Loc
  /\ \A k \in Key : \A f \in {"subkeycount", "subkeylist", "valuecount", "valuelist"} : NKField(f, k) \in Loc
  /\ \A v \in Value : DataCell(v) \in Loc /\ DataLength(v) \in Loc
  BY DEF Loc

\* What a repair of each kind does.
LEMMA Header1 ==
  ASSUME NEW D \in Image
  PROVE  LET d == Header(D) IN
         /\ d.Offset = Primary /\ d.Type = "default" /\ ~d.AutoApply /\ Verify(d) /\ Written(d) = D[Primary] /\ ~ApplyFails(d)
<1>1. D[Primary] \in Int /\ D[Primary] # NotU32
  BY Locations DEF Image, Word
<1> QED BY <1>1 DEF Header, Diagnostic, Verify, Written, ApplyFails
LEMMA Bin1 ==
  /\ Bin.Offset = BinOffset /\ Bin.Type = "replace" /\ Verify(Bin) /\ Written(Bin) = 0 /\ ~ApplyFails(Bin)
  BY DEF Bin, Diagnostic, Verify, Written, ApplyFails, NotU32
LEMMA Count1 ==
  ASSUME NEW c, NEW k
  PROVE  LET d == Count(c, k) IN
         /\ d.Offset = NKField(c, k) /\ d.Type = "replace" /\ Verify(d) /\ Written(d) = 0 /\ ~ApplyFails(d)
  BY DEF Count, Diagnostic, Verify, Written, ApplyFails, NotU32
LEMMA List1 ==
  ASSUME NEW l, NEW k
  PROVE  LET d == List(l, k) IN
         /\ d.Offset = NKField(l, k) /\ d.Type = "default" /\ Verify(d) /\ Written(d) = InvalidOffset /\ ~ApplyFails(d)
  BY DEF List, Diagnostic, Verify, Written, ApplyFails, NotU32, InvalidOffset
LEMMA LongValue1 ==
  ASSUME NEW v
  PROVE  LET d == LongValue(v) IN d.Offset = DataCell(v) /\ d.Type = "truncate" /\ ApplyFails(d)
  BY DEF LongValue, Diagnostic, Written, ApplyFails
LEMMA BadBin1 ==
  BadBin.Offset = BinStart /\ BadBin.Type = "replace" /\ ~Admitted(BadBin)
  BY DEF BadBin, Diagnostic, Admitted, Validate
LEMMA OwnCut1 ==
  ASSUME NEW v
  PROVE  LET d == OwnCut(v) IN d.Offset = DataLength(v) /\ d.Type = "truncate" /\ Written(d) = 1 /\ ~Verify(d)
  BY DEF OwnCut, Diagnostic, Written, Verify, ValidateStructureIntegrity, DataLength
-----------------------------------------------------------------------------
\* A repair that is carried out writes a number into a field of the hive, and its
\* verification fails only for a caller's own truncation.
LEMMA AppliedFacts ==
  ASSUME NEW s, NEW D \in Image, NEW d \in Known(s, D)
  PROVE  /\ d.Offset \in Loc
         /\ Admitted(d) /\ ~ApplyFails(d) => Written(d) \in Word /\ (Verify(d) \/ s.foreign)
         /\ Admitted(d) /\ (ApplyFails(d) \/ ~Verify(d)) => d.Type = "truncate"
<1>0. Shape(s, D, d)
  BY KnownShape
<1>1. CASE d = Header(D)
  <2>1. D[Primary] \in Word
    BY Locations DEF Image
  <2> QED BY <1>1, <2>1, Header1, Locations
<1>2. CASE d = Bin
  BY <1>2, Bin1, Locations DEF Word, NotU32
<1>3. ASSUME NEW k \in Key, NEW c \in {"subkeycount", "valuecount"}, d = Count(c, k)
      PROVE  d.Offset \in Loc /\ Verify(d) /\ ~ApplyFails(d) /\ Written(d) \in Word
  <2>1. NKField(c, k) \in Loc
    BY Locations
  <2> QED BY <1>3, <2>1, Count1 DEF Word, NotU32
<1>4. ASSUME NEW k \in Key, NEW l \in {"subkeylist", "valuelist"}, d = List(l, k)
      PROVE  d.Offset \in Loc /\ Verify(d) /\ ~ApplyFails(d) /\ Written(d) \in Word
  <2>1. NKField(l, k) \in Loc
    BY Locations
  <2> QED BY <1>4, <2>1, List1 DEF Word, NotU32, InvalidOffset
<1>5. ASSUME NEW v \in Value, d = LongValue(v)
      PROVE  d.Offset \in Loc /\ ApplyFails(d) /\ d.Type = "truncate"
  BY <1>5, LongValue1, Locations
<1>6. CASE d = BadBin
  BY <1>6, BadBin1, Locations
<1>7. ASSUME NEW v \in Value, d = OwnCut(v)
      PROVE  d.Offset \in Loc /\ d.Type = "truncate" /\ Written(d) \in Word
  BY <1>7, OwnCut1, Locations DEF Word, NotU32
<1> QED BY <1>0, <1>1, <1>2, <1>3, <1>4, <1>5, <1>6, <1>7 DEF Shape

\* Two repairs of one field write the same.
LEMMA SameField ==
  ASSUME NEW s, NEW D, NEW d \in Known(s, D), NEW e \in Known(s, D), d.Offset = e.Offset
  PROVE  d = e
<1> DEFINE Tag(x) == x.Offset[1]
<1>1. ASSUME NEW x, Shape(s, D, x)
      PROVE  \/ Tag(x) = "primary" /\ x = Header(D)
             \/ Tag(x) = "hbin" /\ x = Bin
             \/ \E k \in Key : \E c \in {"subkeycount", "valuecount"} : x = Count(c, k) /\ Tag(x) = c /\ x.Offset[2] = k
             \/ \E k \in Key : \E l \in {"subkeylist", "valuelist"} : x = List(l, k) /\ Tag(x) = l /\ x.Offset[2] = k
             \/ \E v \in Value : x = LongValue(v) /\ Tag(x) = "datacell" /\ x.Offset[2] = v
             \/ Tag(x) = "hbinstart" /\ x = BadBin
             \/ \E v \in Value : x = OwnCut(v) /\ Tag(x) = "datalength" /\ x.Offset[2] = v
  <2>1. Tag(Header(D)) = "primary" /\ Tag(Bin) = "hbin" /\ Tag(BadBin) = "hbinstart"
    BY DEF Header, Bin, BadBin, Diagnostic, Primary, BinOffset, BinStart
  <2>2. ASSUME NEW c, NEW k
        PROVE  /\ Tag(Count(c, k)) = c /\ Count(c, k).Offset[2] = k
               /\ Tag(List(c, k)) = c /\ List(c, k).Offset[2] = k
    BY DEF Count, List, Diagnostic, NKField
  <2>3. ASSUME NEW v
        PROVE  /\ Tag(LongValue(v)) = "datacell" /\ LongValue(v).Offset[2] = v
               /\ Tag(OwnCut(v)) = "datalength" /\ OwnCut(v).Offset[2] = v
    BY DEF LongValue, OwnCut, Diagnostic, DataCell, DataLength
  <2> HIDE DEF Tag
  <2> QED BY <1>1, <2>1, <2>2, <2>3 DEF Shape
<1>2. Shape(s, D, d) /\ Shape(s, D, e)
  BY KnownShape
<1>3. Tag(d) = Tag(e) /\ d.Offset[2] = e.Offset[2]
  OBVIOUS
<1> HIDE DEF Tag
<1> QED BY <1>1, <1>2, <1>3

\* A defect that is repaired automatically is not reported once its field holds
\* what was written, and what the reader records in passing no scan reports.
LEMMA Cures ==
  ASSUME NEW s, NEW D, NEW d \in Known(s, D), d.AutoApply, NEW E, E[d.Offset] = Written(d)
  PROVE  d \notin Diagnose(E)
<1> SUFFICES ASSUME d \in Diagnose(E) PROVE FALSE
  OBVIOUS
<1>1. CASE d = Header(E)
  BY <1>1 DEF Header, Diagnostic
<1>2. CASE d = Bin /\ E[BinOffset] # 0
  BY <1>2, Bin1
<1>3. ASSUME NEW k \in Key, NEW c \in {"subkeycount", "valuecount"}, d = Count(c, k), E[NKField(c, k)] > 0
      PROVE  FALSE
  BY <1>3, Count1
<1>4. ASSUME NEW k \in Key, NEW l \in {"subkeylist", "valuelist"}, d = List(l, k), E[NKField(l, k)] # InvalidOffset
      PROVE  FALSE
  BY <1>4, List1
<1> QED BY <1>1, <1>2, <1>3, <1>4, Reported
-----------------------------------------------------------------------------
(***************************************************************************)
(* The log.                                                                *)
(***************************************************************************)
\* What was held depends on the entries before only.
LEMMA HeldSame ==
  ASSUME NEW O, NEW L, NEW M, NEW n \in Nat, NEW l, NEW v, \A j \in 1..n : L[j] = M[j], Held(O, L, n, l, v)
  PROVE  Held(O, M, n, l, v)
<1>1. CASE v = O[l] /\ \A j \in 1..n : L[j].Offset # l
  BY <1>1 DEF Held
<1>2. ASSUME NEW j \in 1..n, L[j].Offset = l, L[j].NewData = v, \A i \in (j + 1)..n : L[i].Offset # l
      PROVE  Held(O, M, n, l, v)
  <2>1. M[j] = L[j] /\ \A i \in (j + 1)..n : M[i] = L[i]
    OBVIOUS
  <2> QED BY <1>2, <2>1 DEF Held
<1> QED BY <1>1, <1>2 DEF Held

LEMMA Pushed ==
  ASSUME NEW O, NEW L \in Seq(Item), NEW D \in Image, Undoable(O, L, D),
         NEW e \in Item, e.Applied, e.OldData = D[e.Offset]
  PROVE  Undoable(O, Append(L, e), [D EXCEPT ![e.Offset] = e.NewData])
<1> DEFINE M == Append(L, e)
           n == Len(L)
           E == [D EXCEPT ![e.Offset] = e.NewData]
<1>1. n \in Nat /\ Len(M) = n + 1 /\ M[n + 1] = e /\ \A j \in 1..n : L[j] = M[j]
  OBVIOUS
<1>2. e.Offset \in Loc /\ \A l \in Loc : E[l] = IF l = e.Offset THEN e.NewData ELSE D[l]
  BY DEF Item, Image
<1> HIDE DEF M, E, n
<1>3. ASSUME NEW k \in 1..n PROVE M[k].Applied /\ Held(O, M, k - 1, M[k].Offset, M[k].OldData)
  <2>1. M[k] = L[k] /\ L[k].Applied /\ Held(O, L, k - 1, L[k].Offset, L[k].OldData)
    BY <1>1 DEF Undoable, n
  <2>2. k - 1 \in Nat /\ \A j \in 1..(k - 1) : L[j] = M[j]
    BY <1>1
  <2>3. Held(O, M, k - 1, L[k].Offset, L[k].OldData)
    BY <2>1, <2>2, HeldSame
  <2> QED BY <2>1, <2>3
<1>4. \A l \in Loc : Held(O, M, n, l, D[l])
  <2> SUFFICES ASSUME NEW l \in Loc PROVE Held(O, M, n, l, D[l])
    OBVIOUS
  <2>1. Held(O, L, n, l, D[l])
    BY DEF Undoable, n
  <2> QED BY <1>1, <2>1, HeldSame
<1>5. M[n + 1].Applied /\ Held(O, M, (n + 1) - 1, M[n + 1].Offset, M[n + 1].OldData)
  <2>1. (n + 1) - 1 = n
    BY <1>1
  <2> QED BY <1>1, <1>2, <1>4, <2>1
<1>6. ASSUME NEW l \in Loc PROVE Held(O, M, n + 1, l, E[l])
  <2>1. CASE l = e.Offset
    <3>1. n + 1 \in 1..(n + 1) /\ \A i \in ((n + 1) + 1)..(n + 1) : FALSE
      BY <1>1
    <3> QED BY <1>1, <1>2, <2>1, <3>1 DEF Held
  <2>2. CASE l # e.Offset
    <3>1. Held(O, M, n, l, E[l])
      BY <1>2, <1>4, <2>2
    <3>2. M[n + 1].Offset # l
      BY <1>1, <2>2
    <3>3. \A j \in 1..(n + 1) : j \in 1..n \/ j = n + 1
      BY <1>1
    <3>4. \A j \in 1..n : j \in 1..(n + 1) /\ \A i \in (j + 1)..(n + 1) : i \in (j + 1)..n \/ i = n + 1
      BY <1>1
    <3> QED BY <3>1, <3>2, <3>3, <3>4 DEF Held
  <2> QED BY <2>1, <2>2
<1>7. \A k \in 1..(n + 1) : k \in 1..n \/ k = n + 1
  BY <1>1
<1> QED BY <1>1, <1>3, <1>5, <1>6, <1>7 DEF Undoable, M, E

LEMMA Popped ==
  ASSUME NEW O, NEW L \in Seq(Item), L # <<>>, NEW D \in Image, Undoable(O, L, D)
  PROVE  /\ Last(L).Applied /\ Front(L) \in Seq(Item) /\ Last(L) \in Item
         /\ Undoable(O, Front(L), [D EXCEPT ![Last(L).Offset] = Last(L).OldData])
<1> DEFINE M == Front(L)
           e == Last(L)
           m == Len(L) - 1
           E == [D EXCEPT ![e.Offset] = e.OldData]
<1>1. /\ Len(L) \in Nat /\ m \in Nat /\ Len(L) = m + 1 /\ e = L[m + 1] /\ e \in Item
      /\ M \in Seq(Item) /\ Len(M) = m /\ \A j \in 1..m : L[j] = M[j]
  <2>1. Len(L) \in Nat /\ Len(L) # 0
    OBVIOUS
  <2>2. m \in Nat /\ Len(L) = m + 1 /\ m + 1 \in 1..Len(L)
    BY <2>1
  <2>3. e = L[m + 1]
    BY <2>2 DEF Last
  <2>4. L[m + 1] \in Item
    BY <2>2
  <2>5. M = SubSeq(L, 1, m)
    BY <2>2 DEF Front
  <2>6. \A j \in 1..m : L[j] \in Item
    BY <2>2
  <2> HIDE DEF m, M
  <2>7. M \in Seq(Item) /\ Len(M) = m /\ \A j \in 1..m : M[j] = L[j]
    BY <2>2, <2>5, <2>6, SubSeqProperties
  <2> QED BY <2>1, <2>2, <2>3, <2>4, <2>7
<1>2. e.Offset \in Loc /\ \A l \in Loc : E[l] = IF l = e.Offset THEN e.OldData ELSE D[l]
  BY <1>1 DEF Item, Image
<1> HIDE DEF M, E, e, m
<1>3. ASSUME NEW k \in 1..m PROVE M[k].Applied /\ Held(O, M, k - 1, M[k].Offset, M[k].OldData)
  <2>1. M[k] = L[k] /\ L[k].Applied /\ Held(O, L, k - 1, L[k].Offset, L[k].OldData)
    BY <1>1 DEF Undoable
  <2>2. k - 1 \in Nat /\ \A j \in 1..(k - 1) : L[j] = M[j]
    BY <1>1
  <2>3. Held(O, M, k - 1, L[k].Offset, L[k].OldData)
    BY <2>1, <2>2, HeldSame
  <2> QED BY <2>1, <2>3
<1>4. e.Applied /\ Held(O, L, m, e.Offset, e.OldData)
  <2>1. m + 1 \in 1..Len(L) /\ (m + 1) - 1 = m
    BY <1>1
  <2>2. L[m + 1].Applied /\ Held(O, L, (m + 1) - 1, L[m + 1].Offset, L[m + 1].OldData)
    BY <2>1 DEF Undoable
  <2> QED BY <1>1, <2>1, <2>2
<1>5. ASSUME NEW l \in Loc PROVE Held(O, M, m, l, E[l])
  <2>1. CASE l = e.Offset
    BY <1>1, <1>2, <1>4, <2>1, HeldSame
  <2>2. CASE l # e.Offset
    <3>1. Held(O, L, m + 1, l, D[l])
      BY <1>1 DEF Undoable
    <3>2. L[m + 1].Offset # l
      BY <1>1, <2>2
    <3>3. \A j \in 1..(m + 1) : j \in 1..m \/ j = m + 1
      BY <1>1
    <3>4. \A j \in 1..m : j \in 1..(m + 1) /\ \A i \in (j + 1)..m : i \in (j + 1)..(m + 1)
      BY <1>1
    <3>5. Held(O, L, m, l, D[l])
      BY <3>1, <3>2, <3>3, <3>4 DEF Held
    <3> QED BY <1>1, <1>2, <2>2, <3>5, HeldSame
  <2> QED BY <2>1, <2>2
<1>6. Undoable(O, M, E)
  BY <1>1, <1>3, <1>5 DEF Undoable
<1> QED BY <1>1, <1>4, <1>6 DEF M, E, e

LEMMA Undone ==
  ASSUME NEW O \in Image, NEW D \in Image
  PROVE  Undoable(O, <<>>, D) <=> D = O
<1>1. \A j \in 1..0 : FALSE
  OBVIOUS
<1>2. Len(<<>>) = 0
  OBVIOUS
<1>3. \A l : Held(O, <<>>, 0, l, D[l]) <=> D[l] = O[l]
  BY <1>1 DEF Held
<1>4. (\A l \in Loc : D[l] = O[l]) <=> D = O
  BY DEF Image
<1> QED BY <1>1, <1>2, <1>3, <1>4 DEF Undoable
-----------------------------------------------------------------------------
(***************************************************************************)
(* Types.                                                                  *)
(***************************************************************************)
LEMMA FileFacts ==
  /\ \A f : IsFile(f) => f # None /\ f # Halved /\ f # Torn /\ f[2] \in Image /\ f = File(f[2])
  /\ \A X : File(X)[2] = X /\ File(X) # None /\ File(X) # Halved
  /\ \A X \in Image : IsFile(File(X))
  /\ None # Halved
  BY DEF IsFile, File, None, Halved, Torn

LEMMA WithinFacts ==
  ASSUME NEW f, NEW x
  PROVE  /\ IsFile(f) => Within(f, x) = f[2] /\ f = File(Within(f, x)) /\ Within(f, x) \in Image
         /\ Within(Halved, x) = x /\ Within(None, x) = x
  BY FileFacts DEF Within

\* A hive as Init has it.
FieldOf(s, b, c, r, l) ==
  CASE l[1] = "primary" -> 2
    [] l[1] = "secondary" -> s
    [] l[1] = "hbin" -> b
    [] l[1] \in {"subkeycount", "valuecount"} -> c[l[2]]
    [] l[1] \in {"subkeylist", "valuelist"} -> r[l[2]]
    [] OTHER -> 7
LEMMA DamagedImage == Damaged \subseteq Image
<1> SUFFICES ASSUME NEW D \in Damaged PROVE D \in Image
  OBVIOUS
<1>0. PICK s \in {1, 2}, b \in {0, 1}, c \in [Key -> {0, 1}], r \in [Key -> {InvalidOffset, 5}] :
        D = [l \in Loc |-> FieldOf(s, b, c, r, l)]
  BY DEF Damaged, FieldOf
<1> DEFINE at(l) == FieldOf(s, b, c, r, l)
<1> USE DEF FieldOf
<1>1. ASSUME NEW l \in Loc PROVE at(l) \in Word
  <2>1. l[1] \in {"subkeycount", "valuecount", "subkeylist", "valuelist"} => l[2] \in Key
    BY DEF Loc, Primary, Secondary, BinOffset, BinStart, NKField, DataLength, DataCell
  <2>2. \A k \in Key : c[k] \in {0, 1} /\ r[k] \in {InvalidOffset, 5}
    OBVIOUS
  <2>3. {0, 1, 2, 5, 7, InvalidOffset} \subseteq Word
    BY DEF Word, NotU32, InvalidOffset
  <2>4. CASE l[1] \in {"subkeycount", "valuecount"}
    BY <2>1, <2>2, <2>3, <2>4
  <2>5. CASE l[1] \in {"subkeylist", "valuelist"}
    BY <2>1, <2>2, <2>3, <2>5
  <2>6. CASE l[1] = "primary"
    BY <2>3, <2>6
  <2>7. CASE l[1] = "secondary"
    BY <2>3, <2>7
  <2>8. CASE l[1] = "hbin"
    BY <2>3, <2>8
  <2>9. CASE l[1] \notin {"subkeycount", "valuecount", "subkeylist", "valuelist", "primary", "secondary", "hbin"}
    BY <2>3, <2>9
  <2> QED BY <2>4, <2>5, <2>6, <2>7, <2>8, <2>9
<1> HIDE DEF FieldOf
<1> QED BY <1>0, <1>1 DEF Image

\* The diagnostics of a call are known for the hive it reads.
LEMMA InputsKnown ==
  ASSUME NEW ds \in Inputs
  PROVE  ds \in Seq(Known(setup, vis["hive"][2]))
<1> DEFINE S == Diagnose(vis["hive"][2]) \cup Recorded \cup Own
<1>1. PICK n \in 1..MaxDiags : ds \in [1..n -> S]
  BY DEF Inputs
<1>2. S = Known(setup, vis["hive"][2])
  BY DEF Known, Own, OwnDiagnostics
<1>3. n \in Nat
  OBVIOUS
<1>4. ds \in Seq(S)
  BY <1>1, <1>3
<1> QED BY <1>2, <1>4

LEMMA TypedStep ==
  ASSUME Typed, Shapes, [Next]_vars
  PROVE  Typed'
<1> USE DEF Typed
<1>1. ASSUME NEW ds \in Inputs, vis["hive"] # Halved, ApplyRepairs(ds) PROVE Typed'
  <2>1. IsFile(vis["hive"]) /\ vis["hive"][2] \in Image
    BY <1>1, FileFacts DEF Shapes
  <2>2. ds \in Seq(Known(setup, vis["hive"][2]))
    BY InputsKnown
  <2>3. filterDiagnostics(setup, ds) \in Seq(Known(setup, vis["hive"][2]))
    BY <2>2, FilterKeeps
  <2> QED BY <1>1, <2>1, <2>2, <2>3 DEF ApplyRepairs, ExecuteRepairs, Stages
<1>2. CASE RepairRefused
  BY <1>2 DEF RepairRefused, Stages
<1>3. CASE RepairApplied
  <2> DEFINE d == Head(todo)
             e == LogEntry(d)
  <2>1. d \in Known(setup, orig) /\ Tail(todo) \in Seq(Known(setup, orig))
    BY <1>3 DEF RepairApplied
  <2>2. d.Offset \in Loc /\ Written(d) \in Word
    BY <1>3, <2>1, AppliedFacts DEF RepairApplied
  <2>3. e \in Item
    BY <2>2 DEF LogEntry, Item, Image, Verify, ValidateStructureIntegrity
  <2>4. data' \in Image
    BY <1>3, <2>2 DEF RepairApplied, Image
  <2>5. log' \in Seq(Item)
    BY <1>3, <2>3 DEF RepairApplied
  <2> QED BY <1>3, <2>1, <2>4, <2>5 DEF RepairApplied, Stages
<1>4. CASE Rollback
  <2>1. Last(log) \in Item /\ Front(log) \in Seq(Item)
    <3>1. Len(log) \in Nat /\ Len(log) # 0
      BY <1>4 DEF Rollback
    <3>2. Len(log) \in 1..Len(log) /\ Len(log) - 1 \in Int /\ \A i \in 1..(Len(log) - 1) : log[i] \in Item
      BY <3>1
    <3>3. SubSeq(log, 1, Len(log) - 1) \in Seq(Item)
      BY <3>2, SubSeqProperties
    <3> QED BY <3>2, <3>3 DEF Last, Front
  <2>2. data' \in Image
    BY <1>4, <2>1 DEF Rollback, Image, Item
  <2> QED BY <1>4, <2>1, <2>2 DEF Rollback
<1>5. CASE RolledBack
  BY <1>5 DEF RolledBack, engine, Stages
<1>6. CASE Executed
  BY <1>6 DEF Executed, engine, Stages
<1>7. CASE WriteTemp \/ SyncTemp \/ Rename
  BY <1>7 DEF WriteTemp, SyncTemp, Rename, engine, Stages
<1>8. CASE SyncDir \/ SyncDirFails \/ WriteFails
  BY <1>8 DEF SyncDir, SyncDirFails, WriteFails, engine, Stages
<1>9. CASE Crash
  BY <1>9 DEF Crash, Stages
<1>10. CASE RestoreFromBackup
  <2>1. IsFile(vis[Backup])
    BY <1>10 DEF Shapes, RestoreFromBackup
  <2>2. orig' \in Image
    BY <1>10, <2>1, WithinFacts DEF RestoreFromBackup
  <2>3. data' \in Image
    BY <1>10, WithinFacts DEF RestoreFromBackup, Shapes
  <2> QED BY <1>10, <2>2, <2>3 DEF RestoreFromBackup, Stages
<1>11. CASE Restored \/ RestoreFails
  BY <1>11 DEF Restored, RestoreFails, engine, Stages
<1>12. CASE Return
  BY <1>12 DEF Return, Stages
<1>13. CASE UNCHANGED vars
  BY <1>13 DEF vars
<1> QED BY <1>1, <1>2, <1>3, <1>4, <1>5, <1>6, <1>7, <1>8, <1>9, <1>10, <1>11, <1>12, <1>13 DEF Next
-----------------------------------------------------------------------------
(***************************************************************************)
(* The files.                                                              *)
(***************************************************************************)
\* A rename, or a truncation, gives a name another content.
LEMMA Renamed ==
  ASSUME NEW f, DOMAIN f = Names, NEW x
  PROVE  /\ LET g == [f EXCEPT !["hive"] = x] IN DOMAIN g = Names /\ g["hive"] = x /\ g[Backup] = f[Backup]
         /\ LET g == [f EXCEPT ![Backup] = x] IN DOMAIN g = Names /\ g["hive"] = f["hive"] /\ g[Backup] = x
  BY DEF Names, Backup

\* What a crash leaves of a name is what was on disk or what processes saw.
LEMMA CrashLeaves ==
  ASSUME Typed, Shapes, Crash
  PROVE  /\ DOMAIN vis' = Names /\ DOMAIN dur' = Names
         /\ vis'["hive"] = dur'["hive"] /\ vis'[Backup] = dur'[Backup]
         /\ dur'["hive"] = dur["hive"] \/ dur'["hive"] = vis["hive"]
         /\ dur'[Backup] = dur[Backup] \/ dur'[Backup] = vis[Backup]
         /\ tmp' = NoTemp /\ pc' = "idle" /\ setup' = setup /\ data' = data /\ orig' = orig
         /\ input' = <<>> /\ todo' = <<>> /\ status' = <<>>
<1>1. tmp.state # "unsynced"
  BY DEF Shapes, NoTemp
<1>2. PICK S \in SUBSET DOMAIN vis :
        dur' = [n \in DOMAIN dur |-> IF n \notin S \/ vis[n] = dur[n] THEN dur[n]
                                     ELSE IF tmp.state = "unsynced" /\ n = Target THEN Torn ELSE vis[n]]
  BY DEF Crash
<1>3. DOMAIN dur = Names /\ "hive" \in Names /\ Backup \in Names
  BY DEF Shapes, Names
<1>4. vis' = dur'
  BY DEF Crash
<1>5. DOMAIN dur' = Names /\ dur'["hive"] \in {dur["hive"], vis["hive"]} /\ dur'[Backup] \in {dur[Backup], vis[Backup]}
  BY <1>1, <1>2, <1>3
<1> QED BY <1>4, <1>5 DEF Crash, NoTemp

LEMMA ShapesStep ==
  ASSUME Typed, Shapes, [Next]_vars
  PROVE  Shapes'
<1> USE DEF Shapes
<1>0. \A X \in Image : IsFile(File(X))
  BY FileFacts
<1>1. ASSUME NEW ds \in Inputs, vis["hive"] # Halved, ApplyRepairs(ds) PROVE Shapes'
  <2>1. IsFile(vis["hive"])
    BY <1>1
  <2> QED BY <1>1, <2>1 DEF ApplyRepairs, files, Writing
<1>2. CASE RepairRefused
  BY <1>2 DEF RepairRefused, files, Running, Writing
<1>3. CASE RepairApplied
  BY <1>3 DEF RepairApplied, files, Running, Writing
<1>4. CASE Rollback \/ RolledBack
  BY <1>4 DEF Rollback, RolledBack, files, Running, Writing
<1>5. CASE Executed
  BY <1>5 DEF Executed, files, Running, Writing
<1>6. CASE WriteTemp
  <2>1. IsFile(Content)
    <3>1. IsFile(vis["hive"])
      BY <1>6 DEF WriteTemp, Writing, Running
    <3>2. IsFile(File(data))
      BY <1>0 DEF Typed
    <3> QED BY <3>1, <3>2 DEF Content
  <2>2. tmp' = [state |-> "written", data |-> Content]
    BY <1>6 DEF WriteTemp
  <2>3. tmp' = [state |-> tmp'.state, data |-> tmp'.data] /\ tmp'.state = "written" /\ IsFile(tmp'.data)
    BY <2>1, <2>2
  <2>4. Writing' /\ UNCHANGED <<vis, dur, pc>>
    BY <1>6 DEF WriteTemp, Writing
  <2> QED BY <2>3, <2>4
<1>7. CASE SyncTemp
  <2>1. tmp # NoTemp
    BY <1>7 DEF SyncTemp, NoTemp
  <2>2. tmp' = [state |-> "synced", data |-> tmp.data]
    BY <1>7, <2>1 DEF SyncTemp
  <2>3. tmp' = [state |-> tmp'.state, data |-> tmp'.data] /\ tmp'.state = "synced" /\ IsFile(tmp'.data)
    BY <2>1, <2>2
  <2>4. Writing' /\ UNCHANGED <<vis, dur, pc>>
    BY <1>7 DEF SyncTemp, Writing
  <2> QED BY <2>3, <2>4
<1>8. CASE Rename
  <2>1. tmp # NoTemp /\ IsFile(tmp.data)
    BY <1>8 DEF Rename, NoTemp
  <2>2. tmp' = [state |-> "renamed", data |-> tmp.data]
    BY <1>8, <2>1 DEF Rename
  <2>3. tmp' = [state |-> tmp'.state, data |-> tmp'.data] /\ tmp'.state = "renamed" /\ IsFile(tmp'.data)
    BY <2>1, <2>2
  <2>4. Writing' /\ UNCHANGED <<dur, pc>> /\ pc \in Running
    BY <1>8 DEF Rename, Writing, Running
  <2>5. DOMAIN vis' = Names /\ IsFile(vis'["hive"]) /\ (IsFile(vis'[Backup]) \/ vis'[Backup] = None)
    <3>1. CASE pc = "backup"
      <4>1. vis' = [vis EXCEPT ![Backup] = tmp.data]
        BY <1>8, <3>1 DEF Rename, Target
      <4>2. DOMAIN vis' = Names /\ vis'["hive"] = vis["hive"] /\ vis'[Backup] = tmp.data
        BY <4>1, Renamed
      <4> QED BY <2>1, <2>4, <4>2
    <3>2. CASE pc # "backup"
      <4>1. vis' = [vis EXCEPT !["hive"] = tmp.data]
        BY <1>8, <3>2 DEF Rename, Target
      <4>2. DOMAIN vis' = Names /\ vis'["hive"] = tmp.data /\ vis'[Backup] = vis[Backup]
        BY <4>1, Renamed
      <4> QED BY <2>1, <2>4, <4>2
    <3> QED BY <3>1, <3>2
  <2> QED BY <2>3, <2>4, <2>5 DEF Running
<1>9. CASE SyncDir \/ SyncDirFails \/ WriteFails
  <2>1. tmp' = NoTemp /\ pc \in Running /\ pc' \in {"write", "done", "failed"} /\ vis' = vis /\ dur' \in {vis, dur}
    BY <1>9 DEF SyncDir, SyncDirFails, WriteFails, Writing, Running, NoTemp
  <2> QED BY <2>1
<1>10. CASE Crash
  BY <1>10, CrashLeaves DEF Running
<1>11. CASE RestoreFromBackup
  <2>1. IsFile(vis[Backup]) /\ tmp = NoTemp
    BY <1>11 DEF RestoreFromBackup, Writing
  <2>2. DOMAIN vis' = Names /\ vis'["hive"] = Halved /\ vis'[Backup] = vis[Backup]
    BY <1>11, Renamed DEF RestoreFromBackup
  <2> QED BY <1>11, <2>1, <2>2 DEF RestoreFromBackup, Running
<1>12. CASE Restored
  <2>1. IsFile(vis[Backup]) /\ tmp = NoTemp
    BY <1>12 DEF Restored, Writing
  <2>2. DOMAIN vis' = Names /\ vis'["hive"] = vis[Backup] /\ vis'[Backup] = vis[Backup]
    BY <1>12, Renamed DEF Restored
  <2>3. DOMAIN dur' = Names /\ dur'["hive"] = vis[Backup] /\ dur'[Backup] = dur[Backup]
    BY <1>12, Renamed DEF Restored
  <2> QED BY <1>12, <2>1, <2>2, <2>3 DEF Restored, Running
<1>13. CASE RestoreFails
  BY <1>13 DEF RestoreFails, files, Running, Writing
<1>14. CASE Return
  BY <1>14 DEF Return, files, Running, Writing
<1>15. CASE UNCHANGED vars
  BY <1>15 DEF vars, Writing
<1> QED BY <1>1, <1>2, <1>3, <1>4, <1>5, <1>6, <1>7, <1>8, <1>9, <1>10, <1>11, <1>12, <1>13, <1>14, <1>15 DEF Next
\* Commit of the repaired file: the backup is on disk before the hive is replaced.
LEMMA OrderedStep ==
  ASSUME Typed, Shapes, Placed, Ordered, [Next]_vars
  PROVE  Ordered'
<1> SUFFICES ASSUME Synced' PROVE Ordered'
  BY DEF Ordered
<1>0. setup' = setup /\ Synced
  BY DEF Next, ApplyRepairs, RepairRefused, RepairApplied, Rollback, RolledBack, Executed, WriteTemp, SyncTemp,
         Rename, SyncDir, SyncDirFails, WriteFails, Crash, RestoreFromBackup, Restored, RestoreFails, Return, vars, Synced
<1> USE <1>0 DEF Ordered
<1>1. ASSUME NEW ds \in Inputs, vis["hive"] # Halved, ApplyRepairs(ds) PROVE Ordered'
  <2>1. Settled /\ Standing
    BY <1>1 DEF ApplyRepairs, Cut
  <2>2. vis["hive"] = File(vis["hive"][2])
    BY <1>1, FileFacts DEF Shapes
  <2> QED BY <1>1, <2>1, <2>2 DEF ApplyRepairs, files, Settled
<1>2. CASE RepairRefused
  BY <1>2 DEF RepairRefused, files, Settled
<1>3. CASE RepairApplied
  BY <1>3 DEF RepairApplied, files, Settled
<1>4. CASE Rollback \/ RolledBack
  BY <1>4 DEF Rollback, RolledBack, files, Settled
<1>5. CASE Executed
  <2>1. tmp = NoTemp
    BY <1>5 DEF Executed, Shapes, Writing
  <2> QED BY <1>5, <2>1 DEF Executed, files, engine, Settled, Standing, NoTemp
<1>6. CASE WriteTemp
  <2>1. tmp' = [state |-> "written", data |-> Content] /\ tmp.state = "none"
    BY <1>6 DEF WriteTemp
  <2>2. UNCHANGED <<vis, dur, pc, data, orig>> /\ pc \in {"backup", "write"}
    BY <1>6 DEF WriteTemp, Writing, engine
  <2>3. pc = "backup" => Content = File(orig)
    BY DEF Content
  <2> QED BY <2>1, <2>2, <2>3
<1>7. CASE SyncTemp
  <2>1. tmp # NoTemp /\ tmp' = [state |-> "synced", data |-> tmp.data] /\ tmp.state = "written"
    BY <1>7 DEF SyncTemp, NoTemp, Shapes
  <2>2. UNCHANGED <<vis, dur, pc, data, orig>> /\ pc \in {"backup", "write"}
    BY <1>7 DEF SyncTemp, Writing, engine
  <2> QED BY <2>1, <2>2
<1>8. CASE Rename
  <2>1. tmp # NoTemp /\ tmp' = [state |-> "renamed", data |-> tmp.data] /\ tmp.state = "synced"
    BY <1>8 DEF Rename, NoTemp, Shapes
  <2>2. UNCHANGED <<dur, pc, data, orig>>
    BY <1>8 DEF Rename, engine
  <2>3. CASE pc = "backup"
    <3>1. vis' = [vis EXCEPT ![Backup] = tmp.data] /\ tmp.data = File(orig)
      BY <1>8, <2>1, <2>3 DEF Rename, Target
    <3>2. vis'["hive"] = vis["hive"] /\ vis'[Backup] = tmp.data
      BY <3>1, Renamed DEF Shapes
    <3> QED BY <2>1, <2>2, <2>3, <3>1, <3>2
  <2>4. CASE pc = "write"
    <3>1. vis' = [vis EXCEPT !["hive"] = tmp.data] /\ tmp.data = File(data)
      BY <1>8, <2>1, <2>4 DEF Rename, Target, Placed
    <3>2. vis'["hive"] = tmp.data /\ vis'[Backup] = vis[Backup]
      BY <3>1, Renamed DEF Shapes
    <3> QED BY <2>1, <2>2, <2>4, <3>1, <3>2
  <2> QED BY <1>8, <2>3, <2>4 DEF Rename, Writing
<1>9. CASE SyncDir
  <2>1. tmp.state = "renamed" /\ pc \in {"backup", "write"}
    BY <1>9 DEF SyncDir, Shapes, NoTemp, Writing
  <2>2. dur' = vis /\ vis' = vis /\ tmp' = NoTemp /\ NoTemp.state = "none" /\ UNCHANGED <<data, orig>>
    BY <1>9 DEF SyncDir, NoTemp, engine
  <2>3. CASE pc = "backup"
    <3>1. pc' = "write"
      BY <1>9, <2>3 DEF SyncDir
    <3> QED BY <2>1, <2>2, <2>3, <3>1
  <2>4. CASE pc = "write"
    <3>1. pc' = "done"
      BY <1>9, <2>4 DEF SyncDir
    <3> QED BY <2>1, <2>2, <2>4, <3>1 DEF Settled, Standing
  <2> QED BY <2>1, <2>3, <2>4
<1>10. CASE SyncDirFails
  BY <1>10 DEF SyncDirFails, Synced
<1>11. CASE WriteFails
  <2>1. pc \in {"backup", "write"} /\ tmp.state # "renamed" /\ pc' = "failed" /\ UNCHANGED <<vis, dur, data, orig>>
    BY <1>11 DEF WriteFails, Writing, engine
  <2>2. Settled /\ Standing
    BY <2>1 DEF Settled, Standing
  <2> QED BY <2>1, <2>2 DEF Settled, Standing
<1>12. CASE Crash
  <2>1. pc \in {"backup", "write", "restore"}
    BY <1>12 DEF Crash, Writing
  <2>2. pc' = "idle" /\ Settled' /\ data' = data /\ orig' = orig
    BY <1>12, CrashLeaves DEF Settled
  <2>3. CASE pc = "backup"
    <3>1. vis'["hive"] = File(orig)
      BY <1>12, <2>3, CrashLeaves
    <3> QED BY <2>2, <3>1 DEF Standing
  <2>4. CASE pc = "write"
    <3>1. vis'[Backup] = File(orig) /\ vis'["hive"] \in {File(orig), File(data)}
      BY <1>12, <2>4, CrashLeaves
    <3> QED BY <2>2, <3>1 DEF Standing
  <2>5. CASE pc = "restore"
    <3>1. vis'[Backup] = File(orig) /\ dur'[Backup] = File(orig) /\ dur'["hive"] = vis'["hive"]
          /\ vis'["hive"] \in {File(orig), File(data), Halved}
      BY <1>12, <2>5, CrashLeaves DEF Cut
    <3> QED BY <2>2, <3>1 DEF Standing, Cut
  <2> QED BY <2>1, <2>3, <2>4, <2>5
<1>13. CASE RestoreFromBackup
  <2>1. IsFile(vis[Backup]) /\ pc = "idle"
    BY <1>13 DEF RestoreFromBackup, Shapes
  <2>2. vis'["hive"] = Halved /\ vis'[Backup] = vis[Backup] /\ dur' = dur
    BY <1>13, Renamed DEF RestoreFromBackup, Shapes
  <2>3. orig' = Within(vis[Backup], orig) /\ data' = Within(vis["hive"], data) /\ pc' = "restore"
    BY <1>13 DEF RestoreFromBackup
  <2>4. vis[Backup] = File(orig')
    BY <2>1, <2>3, WithinFacts
  <2>5. CASE Settled /\ Standing
    <3>1. IsFile(vis["hive"])
      BY <2>5, FileFacts DEF Standing, Typed
    <3>2. vis["hive"] = File(data')
      BY <2>3, <3>1, WithinFacts
    <3> QED BY <2>2, <2>3, <2>4, <2>5, <3>2 DEF Cut, Settled
  <2>6. CASE Cut
    <3>1. data' = data
      BY <2>3, <2>6, WithinFacts DEF Cut
    <3>2. File(orig') = File(orig)
      BY <2>4, <2>6 DEF Cut
    <3> QED BY <2>2, <2>3, <2>6, <3>1, <3>2 DEF Cut
  <2> QED BY <2>1, <2>5, <2>6
<1>14. CASE Restored
  <2>1. vis'["hive"] = vis[Backup] /\ vis'[Backup] = vis[Backup]
    BY <1>14, Renamed DEF Restored, Shapes
  <2>2. dur'["hive"] = vis[Backup] /\ dur'[Backup] = dur[Backup]
    BY <1>14, Renamed DEF Restored, Shapes
  <2>3. Cut /\ pc' = "idle" /\ UNCHANGED <<data, orig>>
    BY <1>14 DEF Restored, engine
  <2> QED BY <2>1, <2>2, <2>3 DEF Cut, Settled, Standing
<1>15. CASE RestoreFails
  BY <1>15 DEF RestoreFails, files, engine, Cut
<1>16. CASE Return
  BY <1>16 DEF Return, files, Settled, Standing, Cut
<1>17. CASE UNCHANGED vars
  BY <1>17 DEF vars, Settled, Standing, Cut
<1> QED BY <1>1, <1>2, <1>3, <1>4, <1>5, <1>6, <1>7, <1>8, <1>9, <1>10, <1>11, <1>12, <1>13, <1>14, <1>15, <1>16, <1>17 DEF Next

LEMMA PlacedStep ==
  ASSUME Typed, Shapes, Placed, [Next]_vars
  PROVE  Placed'
<1> USE DEF Placed
<1>1. ASSUME NEW ds \in Inputs, ApplyRepairs(ds) PROVE Placed'
  BY <1>1 DEF ApplyRepairs
<1>2. CASE RepairRefused \/ RepairApplied \/ Rollback \/ RolledBack
  BY <1>2 DEF RepairRefused, RepairApplied, Rollback, RolledBack
<1>3. CASE Executed
  BY <1>3 DEF Executed, engine
<1>4. CASE WriteTemp
  <2>1. tmp' = [state |-> "written", data |-> Content] /\ UNCHANGED <<vis, data, status, pc>> /\ Writing
    BY <1>4 DEF WriteTemp, engine
  <2>2. pc = "write" => Content = File(data)
    BY DEF Content
  <2> QED BY <2>1, <2>2 DEF Writing
<1>5. CASE SyncTemp
  <2>1. tmp # NoTemp /\ tmp' = [state |-> "synced", data |-> tmp.data] /\ UNCHANGED <<vis, data, status, pc>> /\ Writing
    BY <1>5 DEF SyncTemp, NoTemp, Shapes, engine
  <2> QED BY <2>1 DEF Writing
<1>6. CASE Rename
  <2>1. tmp # NoTemp /\ tmp' = [state |-> "renamed", data |-> tmp.data] /\ UNCHANGED <<data, status, pc>> /\ Writing
    BY <1>6 DEF Rename, NoTemp, Shapes, engine
  <2>2. CASE pc = "write"
    <3>1. vis' = [vis EXCEPT !["hive"] = tmp.data]
      BY <1>6, <2>2 DEF Rename, Target
    <3>2. vis'["hive"] = tmp.data
      BY <3>1, Renamed DEF Shapes
    <3> QED BY <2>1, <2>2, <3>2
  <2> QED BY <2>1, <2>2 DEF Writing
<1>7. CASE SyncDir \/ SyncDirFails
  <2>1. tmp.state = "renamed" /\ tmp' = NoTemp /\ NoTemp.state = "none" /\ UNCHANGED <<vis, data, status>>
    BY <1>7 DEF SyncDir, SyncDirFails, NoTemp, Shapes, engine
  <2>2. (pc = "backup" /\ pc' = "write") \/ (pc = "write" /\ pc' = "done")
    BY <1>7 DEF SyncDir, SyncDirFails, Writing
  <2> QED BY <2>1, <2>2
<1>8. CASE WriteFails
  BY <1>8 DEF WriteFails
<1>9. CASE Crash \/ RestoreFromBackup \/ Restored \/ RestoreFails \/ Return
  BY <1>9 DEF Crash, RestoreFromBackup, Restored, RestoreFails, Return
<1>10. CASE UNCHANGED vars
  BY <1>10 DEF vars
<1> QED BY <1>1, <1>2, <1>3, <1>4, <1>5, <1>6, <1>7, <1>8, <1>9, <1>10 DEF Next
-----------------------------------------------------------------------------
(***************************************************************************)
(* The engine.                                                             *)
(***************************************************************************)
LEMMA KeptFacts ==
  ASSUME Typed
  PROVE  /\ Kept \in Seq(Known(setup, orig))
         /\ \A k \in 1..Len(Kept) : Kept[k] \in Known(setup, orig) /\ \E i \in 1..Len(input) : input[i] = Kept[k]
<1>1. Kept \in Seq(Known(setup, orig))
  BY FilterKeeps DEF Typed, Kept
<1> DEFINE S == {input[i] : i \in 1..Len(input)}
<1>2. input \in Seq(S)
  <2>1. input = [i \in 1..Len(input) |-> input[i]] /\ Len(input) \in Nat
    BY DEF Typed
  <2> QED BY <2>1
<1>3. Kept \in Seq(S)
  BY <1>2, FilterKeeps DEF Kept
<1>4. \A k \in 1..Len(Kept) : Kept[k] \in S
  BY <1>3
<1>5. \A k \in 1..Len(Kept) : Kept[k] \in Known(setup, orig)
  BY <1>1
<1> QED BY <1>1, <1>4, <1>5

\* The diagnostic that is processed next.
LEMMA NextOne ==
  ASSUME Typed, Applying, pc = "repair", todo # <<>>
  PROVE  LET n == Len(status) + 1 IN
         n \in 1..Len(Kept) /\ Kept[n] = Head(todo) /\ Head(todo) \in Known(setup, orig)
<1>1. Len(status) \in Nat /\ Len(todo) \in Nat /\ Len(todo) # 0 /\ 1 \in 1..Len(todo)
  BY DEF Typed
<1>2. Len(status) + Len(todo) = Len(Kept) /\ todo[1] = Kept[Len(status) + 1]
  BY <1>1 DEF Applying
<1>3. Head(todo) = todo[1] /\ todo[1] \in Known(setup, orig)
  BY <1>1 DEF Typed
<1> QED BY <1>1, <1>2, <1>3

LEMMA ApplyingStep ==
  ASSUME Typed, Applying, [Next]_vars
  PROVE  Applying'
<1> USE DEF Applying
<1>1. ASSUME NEW ds \in Inputs, ApplyRepairs(ds) PROVE Applying'
  <2>1. Kept' = todo' /\ pc' = "repair" /\ Len(status') = 0
    BY <1>1 DEF ApplyRepairs, ExecuteRepairs, Kept
  <2>2. todo' \in Seq(Known(setup, vis["hive"][2]))
    BY <1>1, InputsKnown, FilterKeeps DEF ApplyRepairs, ExecuteRepairs
  <2>3. Len(todo') \in Nat
    BY <2>2
  <2>4. Len(status') + Len(todo') = Len(Kept') /\ \A i \in 1..Len(todo') : todo'[i] = Kept'[Len(status') + i]
    BY <2>1, <2>3
  <2>5. InForce(Len(status))'
    BY <2>1, <2>3 DEF InForce
  <2> QED BY <2>1, <2>4, <2>5
<1>2. CASE RepairRefused
  <2> DEFINE n == Len(status) + 1
             d == Head(todo)
  <2>1. n \in 1..Len(Kept) /\ Kept[n] = d /\ d \in Known(setup, orig)
    BY <1>2, NextOne DEF RepairRefused
  <2>2. Kept' = Kept /\ input' = input /\ pc' = "rollback"
    BY <1>2 DEF RepairRefused, Kept
  <2> HIDE DEF n
  <2>3. CASE ~Admitted(d)
    <3>1. Foreseen'
      BY <2>1, <2>2, <2>3 DEF Foreseen
    <3> QED BY <2>2, <3>1
  <2>4. CASE Admitted(d) /\ ApplyFails(d)
    <3>1. d.Type = "truncate"
      BY <2>1, <2>4, AppliedFacts DEF Typed
    <3>2. \E i \in 1..Len(input) : input[i] = d
      BY <2>1, KeptFacts
    <3>3. Foreseen'
      BY <2>2, <3>1, <3>2 DEF Foreseen
    <3> QED BY <2>2, <3>3
  <2> QED BY <1>2, <2>3, <2>4 DEF RepairRefused
<1>3. CASE RepairApplied
  <2> DEFINE n == Len(status)
             d == Head(todo)
  <2>1. n + 1 \in 1..Len(Kept) /\ Kept[n + 1] = d /\ d \in Known(setup, orig)
    BY <1>3, NextOne DEF RepairApplied
  <2>2. Kept' = Kept /\ input' = input /\ n \in Nat
    BY <1>3 DEF RepairApplied, Kept, Typed
  <2>3. CASE ~Verify(d)
    <3>1. d.Type = "truncate"
      BY <1>3, <2>1, <2>3, AppliedFacts DEF RepairApplied, Typed
    <3>2. \E i \in 1..Len(input) : input[i] = d
      BY <2>1, KeptFacts
    <3>3. Foreseen' /\ pc' = "rollback"
      BY <1>3, <2>2, <2>3, <3>1, <3>2 DEF RepairApplied, Foreseen
    <3> QED BY <3>3
  <2>4. CASE Verify(d)
    <3>1. /\ pc' = "repair" /\ status' = Append(status, "applied") /\ todo' = Tail(todo)
          /\ data' = [data EXCEPT ![d.Offset] = Written(d)] /\ Admitted(d) /\ todo # <<>> /\ pc = "repair"
      BY <1>3, <2>4 DEF RepairApplied
    <3>2. Len(status') = n + 1 /\ status'[n + 1] = "applied" /\ \A k \in 1..n : status'[k] = status[k]
      BY <3>1 DEF Typed
    <3>3. /\ Len(todo) \in Nat /\ Len(todo') = Len(todo) - 1
          /\ \A i \in 1..Len(todo') : todo'[i] = todo[i + 1] /\ i + 1 \in 1..Len(todo)
      BY <3>1 DEF Typed
    <3>4. Len(status') + Len(todo') = Len(Kept')
      BY <2>2, <3>1, <3>2, <3>3
    <3>5. ASSUME NEW i \in 1..Len(todo') PROVE todo'[i] = Kept'[Len(status') + i]
      <4>1. todo'[i] = Kept[n + (i + 1)] /\ i \in Int
        BY <3>1, <3>3
      <4>2. n + (i + 1) = (n + 1) + i
        BY <2>2, <4>1
      <4> QED BY <2>2, <3>2, <4>1, <4>2
    <3>6. d.Offset \in Loc /\ data'[d.Offset] = Written(d)
      BY <2>1, <3>1, AppliedFacts DEF Typed, Image
    <3>7. ASSUME NEW k \in 1..(n + 1)
          PROVE  status'[k] = "applied" /\ Admitted(Kept[k]) /\ data'[Kept[k].Offset] = Written(Kept[k])
      <4>1. CASE k = n + 1
        BY <2>1, <3>1, <3>2, <3>6, <4>1
      <4>2. CASE k # n + 1
        <5>1. k \in 1..n /\ k \in 1..Len(Kept)
          BY <2>1, <2>2, <4>2
        <5>2. status[k] = "applied" /\ Admitted(Kept[k]) /\ data[Kept[k].Offset] = Written(Kept[k])
          BY <3>1, <5>1 DEF InForce
        <5>3. Kept[k] \in Known(setup, orig)
          BY <5>1, KeptFacts
        <5>4. CASE Kept[k].Offset = d.Offset
          <6>1. Kept[k] = d
            BY <2>1, <5>3, <5>4, SameField
          <6> QED BY <3>1, <3>2, <3>6, <5>1, <5>2, <6>1
        <5>5. CASE Kept[k].Offset # d.Offset
          <6>1. Kept[k].Offset \in Loc
            BY <5>3, AppliedFacts DEF Typed
          <6>2. data'[Kept[k].Offset] = data[Kept[k].Offset]
            BY <3>1, <5>5, <6>1 DEF Typed, Image
          <6> QED BY <3>2, <5>1, <5>2, <6>2
        <5> QED BY <5>4, <5>5
      <4> QED BY <4>1, <4>2
    <3>8. InForce(Len(status))'
      <4>1. n + 1 <= Len(Kept)
        BY <2>1
      <4> QED BY <2>2, <3>2, <3>7, <4>1 DEF InForce
    <3> QED BY <3>1, <3>4, <3>5, <3>8
  <2> QED BY <2>3, <2>4
<1>4. CASE Rollback \/ RolledBack
  <2>1. Kept' = Kept /\ input' = input /\ pc = "rollback" /\ pc' \in {"rollback", "refused"}
    BY <1>4 DEF Rollback, RolledBack, engine, Kept
  <2> QED BY <2>1 DEF Foreseen
<1>5. CASE Executed \/ WriteTemp \/ SyncTemp \/ Rename \/ SyncDir \/ SyncDirFails \/ WriteFails
  <2>1. /\ Kept' = Kept /\ data' = data /\ status' = status
        /\ pc \in {"repair", "backup", "write"} /\ pc' \in {"backup", "write", "done", "failed"}
    BY <1>5 DEF Executed, WriteTemp, SyncTemp, Rename, SyncDir, SyncDirFails, WriteFails, Writing, engine, Kept
  <2>2. InForce(Len(status))'
    BY <2>1 DEF InForce
  <2> QED BY <2>1, <2>2
<1>6. CASE Crash \/ RestoreFromBackup \/ Restored \/ RestoreFails \/ Return
  BY <1>6 DEF Crash, RestoreFromBackup, Restored, RestoreFails, Return
<1>7. CASE UNCHANGED vars
  <2>1. Kept' = Kept /\ UNCHANGED <<input, data, status, todo, pc>>
    BY <1>7 DEF vars, Kept
  <2> QED BY <2>1 DEF InForce, Foreseen
<1> QED BY <1>1, <1>2, <1>3, <1>4, <1>5, <1>6, <1>7 DEF Next

\* Diagnostics come from the scan and from the reader: no caller adds its own.
NoForeign == \A s \in Setups : ~s.foreign

LEMMA LoggedStep ==
  ASSUME NoForeign, Typed, Shapes, Logged, [Next]_vars
  PROVE  Logged'
<1> USE DEF Logged
<1>1. ASSUME NEW ds \in Inputs, vis["hive"] # Halved, ApplyRepairs(ds) PROVE Logged'
  <2>1. pc' = "repair" /\ log' = <<>> /\ data' = vis["hive"][2] /\ orig' = vis["hive"][2] /\ vis["hive"][2] \in Image
    BY <1>1, FileFacts DEF ApplyRepairs, ExecuteRepairs, Shapes
  <2>2. Undoable(orig', <<>>, data')
    BY <2>1, Undone
  <2> QED BY <2>1, <2>2
<1>2. CASE RepairRefused
  BY <1>2 DEF RepairRefused
<1>3. CASE RepairApplied
  <2> DEFINE d == Head(todo)
             e == LogEntry(d)
  <2>1. d \in Known(setup, orig) /\ ~setup.foreign
    BY <1>3 DEF RepairApplied, Typed, NoForeign
  <2>2. d.Offset \in Loc /\ Written(d) \in Word /\ Verify(d)
    BY <1>3, <2>1, AppliedFacts DEF RepairApplied, Typed
  <2>3. /\ e \in Item /\ e.Applied /\ e.Offset = d.Offset /\ e.NewData = Written(d) /\ e.OldData = data[e.Offset]
    BY <2>2 DEF LogEntry, Item, Image, Verify, ValidateStructureIntegrity, Typed
  <2>4. /\ log' = Append(log, e) /\ data' = [data EXCEPT ![e.Offset] = e.NewData]
        /\ orig' = orig /\ pc' = "repair" /\ pc = "repair"
    BY <1>3, <2>2, <2>3 DEF RepairApplied
  <2> HIDE DEF e
  <2>5. log \in Seq(Item) /\ data \in Image /\ Undoable(orig, log, data)
    BY <2>4 DEF Typed
  <2>6. Undoable(orig, Append(log, e), [data EXCEPT ![e.Offset] = e.NewData])
    BY <2>3, <2>5, Pushed
  <2> QED BY <2>4, <2>6
<1>4. CASE Rollback
  <2> DEFINE e == Last(log)
  <2>1. log \in Seq(Item) /\ data \in Image /\ Undoable(orig, log, data) /\ log # <<>>
    BY <1>4 DEF Rollback, Typed
  <2>2. e.Applied /\ Undoable(orig, Front(log), [data EXCEPT ![e.Offset] = e.OldData])
    BY <2>1, Popped
  <2>3. log' = Front(log) /\ data' = [data EXCEPT ![e.Offset] = e.OldData] /\ orig' = orig /\ pc' = "rollback"
    BY <1>4, <2>2 DEF Rollback
  <2> QED BY <2>2, <2>3
<1>5. CASE RolledBack
  <2>1. data = orig
    BY <1>5, Undone DEF RolledBack, Typed
  <2> QED BY <1>5, <2>1 DEF RolledBack, engine
<1>6. CASE Executed \/ WriteTemp \/ SyncTemp \/ Rename \/ SyncDir \/ SyncDirFails \/ WriteFails
  BY <1>6 DEF Executed, WriteTemp, SyncTemp, Rename, SyncDir, SyncDirFails, WriteFails, Writing
<1>7. CASE Crash \/ RestoreFromBackup \/ Restored \/ RestoreFails \/ Return
  BY <1>7 DEF Crash, RestoreFromBackup, Restored, RestoreFails, Return
<1>8. CASE UNCHANGED vars
  BY <1>8 DEF vars
<1> QED BY <1>1, <1>2, <1>3, <1>4, <1>5, <1>6, <1>7, <1>8 DEF Next
-----------------------------------------------------------------------------
(***************************************************************************)
(* The theorems.                                                           *)
(***************************************************************************)
LEMMA InitSound == Init => IInv /\ Logged
<1> SUFFICES ASSUME Init PROVE IInv /\ Logged
  OBVIOUS
<1>1. PICK D \in Damaged :
        /\ vis = [n \in {"hive", Backup} |-> IF n = "hive" THEN File(D) ELSE None] /\ dur = vis
        /\ tmp = NoTemp /\ data = D /\ orig = D /\ pc = "idle"
        /\ input = <<>> /\ todo = <<>> /\ log = <<>> /\ status = <<>>
  BY DEF Init, NoTemp
<1>2. D \in Image /\ IsFile(File(D))
  BY DamagedImage, FileFacts
<1>3. Typed
  BY <1>1, <1>2 DEF Init, Typed, Stages
<1>4. DOMAIN vis = Names /\ vis["hive"] = File(D) /\ vis[Backup] = None
  BY <1>1 DEF Names, Backup
<1>5. Shapes
  BY <1>1, <1>2, <1>4 DEF Shapes
<1>6. Ordered
  BY <1>1, <1>4 DEF Ordered, Settled, Standing
<1>7. Placed /\ Applying /\ Logged
  BY <1>1 DEF Placed, Applying, Logged
<1> QED BY <1>3, <1>5, <1>6, <1>7 DEF IInv

\* The invariant of a call: types, what each file name stands for, the order of
\* backup and replacement, and the diagnostics whose repairs are in force.
THEOREM RepairSound == Spec => []IInv
<1>1. IInv /\ [Next]_vars => IInv'
  BY TypedStep, ShapesStep, OrderedStep, PlacedStep, ApplyingStep DEF IInv
<1> QED BY <1>1, InitSound, PTL DEF Spec

\* "Either all repairs succeed or the hive is restored to its original state",
\* for any number of repairs of the same or of different fields.
THEOREM BatchIsUndone ==
  ASSUME NoForeign
  PROVE  Spec => []AllOrNothing
<1>1. IInv /\ Logged /\ [Next]_vars => Logged'
  BY LoggedStep DEF IInv
<1>2. Logged => AllOrNothing
  BY DEF Logged, AllOrNothing
<1> QED BY <1>1, <1>2, InitSound, RepairSound, PTL DEF Spec

\* The hive is whole, and a backup is there before it is replaced (FileSafe), at
\* every moment of any number of calls of ApplyRepairs and RestoreFromBackup,
\* and after every crash.
THEOREM FileIsSafe == Spec => []FileSafe
<1>1. IInv => FileSafe
  <2> SUFFICES ASSUME IInv, Synced PROVE FileSafe
    BY DEF FileSafe, HiveWhole, BackupFirst
  <2>1. Typed /\ Shapes /\ Ordered
    BY DEF IInv
  <2>2. CASE pc \in {"repair", "rollback", "refused"}
    BY <2>1, <2>2, FileFacts DEF Ordered, Settled, FileSafe, HiveWhole, BackupFirst
  <2>3. CASE pc = "backup"
    BY <2>1, <2>3, FileFacts DEF Ordered, FileSafe, HiveWhole, BackupFirst
  <2>4. CASE pc = "write"
    BY <2>1, <2>4, FileFacts DEF Ordered, FileSafe, HiveWhole, BackupFirst
  <2>5. CASE Settled /\ Standing
    BY <2>1, <2>5, FileFacts DEF Settled, Standing, FileSafe, HiveWhole, BackupFirst
  <2>6. CASE Cut
    BY <2>1, <2>6, FileFacts DEF Cut, FileSafe, HiveWhole, BackupFirst
  <2> QED BY <2>1, <2>2, <2>3, <2>4, <2>5, <2>6 DEF Typed, Stages, Ordered
<1> QED BY <1>1, RepairSound, PTL

\* After a successful call the scan reports none of the defects that were
\* repaired automatically, and a dry run says what the repair does, but for
\* truncations (Cured).
THEOREM RepairCures == Spec => []Cured
<1>1. IInv => StaysCured
  <2> SUFFICES ASSUME IInv, pc = "done", NEW k \in 1..Len(status), status[k] = "applied", Kept[k].AutoApply
               PROVE  Kept[k] \notin Diagnose(vis["hive"][2])
    BY DEF StaysCured, Kept
  <2>1. Len(status) \in Nat /\ status # <<>>
    BY DEF IInv, Typed
  <2>2. vis["hive"] = File(data)
    BY <2>1 DEF IInv, Placed
  <2>3. Len(status) <= Len(Kept) /\ data[Kept[k].Offset] = Written(Kept[k])
    BY DEF IInv, Applying, InForce
  <2>4. Kept \in Seq(Known(setup, orig))
    BY KeptFacts DEF IInv
  <2>5. Kept[k] \in Known(setup, orig)
    BY <2>1, <2>3, <2>4
  <2> QED BY <2>2, <2>3, <2>5, Cures, FileFacts
<1>2. IInv => DryRunHonest
  <2> SUFFICES ASSUME IInv PROVE DryRunHonest
    OBVIOUS
  <2> DEFINE said == SimulateRepairs(input)
  <2>1. Kept \in Seq(Known(setup, orig)) /\ input \in Seq(Known(setup, orig)) /\ status \in Seq({"applied", "failed"})
    BY KeptFacts DEF IInv, Typed
  <2>2. said = [i \in DOMAIN Kept |-> IF Admitted(Kept[i]) THEN "applied" ELSE "failed"]
    BY DEF SimulateRepairs, Kept
  <2>3. /\ DOMAIN Kept = 1..Len(Kept) /\ DOMAIN input = 1..Len(input) /\ DOMAIN status = 1..Len(status)
        /\ Len(Kept) \in Nat /\ Len(status) \in Nat /\ DOMAIN said = 1..Len(Kept)
    BY <2>1, <2>2
  <2>4. \A i \in 1..Len(Kept) : said[i] = IF Admitted(Kept[i]) THEN "applied" ELSE "failed"
    BY <2>2, <2>3
  <2> HIDE DEF said
  <2>5. ASSUME pc = "done", NEW i \in DOMAIN status PROVE said[i] = status[i]
    <3>1. i \in 1..Len(status) /\ Len(status) <= Len(Kept) /\ status[i] = "applied" /\ Admitted(Kept[i])
      BY <2>3, <2>5 DEF IInv, Applying, InForce
    <3>2. i \in 1..Len(Kept)
      BY <2>3, <3>1
    <3> QED BY <2>4, <3>1, <3>2
  <2>6. ASSUME pc = "refused"
        PROVE  (\E i \in DOMAIN said : said[i] = "failed") \/ (\E i \in DOMAIN input : input[i].Type = "truncate")
    <3>1. Foreseen
      BY <2>6 DEF IInv, Applying
    <3> QED BY <2>3, <2>4, <3>1 DEF Foreseen
  <2> QED BY <2>5, <2>6 DEF DryRunHonest, said
<1>3. IInv => Cured
  BY <1>1, <1>2 DEF Cured
<1> QED BY <1>3, RepairSound, PTL
=============================================================================
