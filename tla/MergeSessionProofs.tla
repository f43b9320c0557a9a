-------------------------- MODULE MergeSessionProofs --------------------------
(***************************************************************************)
(* Proofs about MergeSession, for any paths, hives, plans and number of    *)
(* plans: wherever a plan is cut off the hive can be opened again and has  *)
(* lost nothing (SessionCutOffSafe), and HasKeys tells the truth           *)
(* (SessionHasKeysRight).                                                  *)
(*                                                                         *)
(* The parts: the folds of the model as functions that exist; the          *)
(* invariant SInv; what the editors do to a hive (Edited, Moved); closures *)
(* over lists; flushes and deletions; paths and what leads to them; how a  *)
(* session opens; and the steps of the session, one lemma each.            *)
(***************************************************************************)
EXTENDS MergeSession, FiniteSetTheorems, NaturalsInduction, SequenceTheorems, WellFoundedInduction, TLAPS

\* A set of numbers has a smallest one: how facts about every number of steps are proved.
LEMMA Smallest ==
  ASSUME NEW S, S \subseteq Nat, S # {}
  PROVE  \E m \in S : \A k \in S : m <= k
<1>1. IsWellFoundedOn(OpToRel(<, Nat), Nat)
  BY NatLessThanWellFounded
<1>2. PICK m \in S : \A k \in S : <<k, m>> \notin OpToRel(<, Nat)
  BY <1>1, WFMin
<1>3. \A k \in S : ~(k < m)
  BY <1>2 DEF OpToRel
<1>4. \A k \in S : m <= k
  <2> SUFFICES ASSUME NEW k \in S PROVE m <= k
    OBVIOUS
  <2>1. k \in Nat /\ m \in Nat /\ ~(k < m)
    BY <1>3
  <2> QED BY <2>1
<1> QED BY <1>4

\* The levels of a closure.
Levels(K, r, m, g) ==
  g = [k \in 0..m |-> IF k = 0 THEN {r} ELSE g[k - 1] \cup UNION {K[c] : c \in g[k - 1]}]

LEMMA LevelsExist ==
  ASSUME NEW K, NEW r, NEW m \in Nat
  PROVE  \E g : Levels(K, r, m, g)
<1> DEFINE next(v, k) == v \cup UNION {K[c] : c \in v}
           S == {n \in Nat : ~ \E g : Levels(K, r, n, g)}
<1> SUFFICES ASSUME S # {} PROVE FALSE
  OBVIOUS
<1>1. PICK n \in S : \A k \in S : n <= k
  BY Smallest
<1>2. n # 0
  <2>1. Levels(K, r, 0, [k \in 0..0 |-> {r}])
    BY DEF Levels
  <2> QED BY <1>1, <2>1
<1>3. n - 1 \in Nat /\ n - 1 \notin S
  BY <1>1, <1>2
<1>4. PICK g : Levels(K, r, n - 1, g)
  BY <1>3
<1>5. g = [k \in 0..(n - 1) |-> IF k = 0 THEN {r} ELSE next(g[k - 1], k)]
  BY <1>4 DEF Levels
<1> DEFINE f == [k \in 0..n |-> IF k = n THEN next(g[n - 1], n) ELSE g[k]]
           w(k) == IF k = 0 THEN {r} ELSE next(f[k - 1], k)
<1> HIDE DEF next
<1>6. ASSUME NEW k \in 0..n PROVE f[k] = w(k)
  <2>1. CASE k = n
    <3>1. n - 1 \in 0..n /\ n - 1 # n /\ k # 0
      BY <2>1, <1>1, <1>2
    <3>2. f[n - 1] = g[n - 1] /\ f[k] = next(g[n - 1], n)
      BY <3>1, <2>1
    <3> QED BY <2>1, <3>1, <3>2
  <2>2. CASE k # n
    <3>1. f[k] = g[k] /\ k \in 0..(n - 1)
      BY <2>2, <1>1
    <3>2. k # 0 => f[k - 1] = g[k - 1]
      BY <2>2, <1>1
    <3>3. g[k] = IF k = 0 THEN {r} ELSE next(g[k - 1], k)
      BY <3>1, <1>5
    <3> QED BY <3>1, <3>2, <3>3
  <2> QED BY <2>1, <2>2
<1>7. f = [k \in 0..n |-> f[k]]
  OBVIOUS
<1> HIDE DEF f
<1>8. f = [k \in 0..n |-> w(k)]
  BY <1>6, <1>7
<1>9. Levels(K, r, n, f)
  BY <1>8 DEF Levels, next
<1> QED BY <1>1, <1>9

LEMMA LevelsOf ==
  ASSUME NEW K, NEW r
  PROVE  \E g : Levels(K, r, MaxDepth, g) /\ Closure(K, r) = g[MaxDepth]
<1> DEFINE f == CHOOSE g : Levels(K, r, MaxDepth, g)
<1>1. MaxDepth \in Nat
  BY SessionAssumption
<1>2. Levels(K, r, MaxDepth, f)
  BY <1>1, LevelsExist
<1>3. Closure(K, r) = f[MaxDepth]
  BY DEF Closure, Levels
<1> QED BY <1>2, <1>3

\* The way from a key up to the root.
Climbs(H, r, m, g) ==
  g = [k \in 0..m |->
         IF k = 0 THEN <<<<>>, r>> ELSE IF g[k - 1][2] = Root THEN g[k - 1]
         ELSE <<<<H.node[g[k - 1][2]].name>> \o g[k - 1][1], H.node[g[k - 1][2]].parent>>]

LEMMA ClimbsExist ==
  ASSUME NEW H, NEW r, NEW m \in Nat
  PROVE  \E g : Climbs(H, r, m, g)
<1> DEFINE next(v, k) == IF v[2] = Root THEN v ELSE <<<<H.node[v[2]].name>> \o v[1], H.node[v[2]].parent>>
           S == {n \in Nat : ~ \E g : Climbs(H, r, n, g)}
<1> SUFFICES ASSUME S # {} PROVE FALSE
  OBVIOUS
<1>1. PICK n \in S : \A k \in S : n <= k
  BY Smallest
<1>2. n # 0
  <2>1. Climbs(H, r, 0, [k \in 0..0 |-> <<<<>>, r>>])
    BY DEF Climbs
  <2> QED BY <1>1, <2>1
<1>3. n - 1 \in Nat /\ n - 1 \notin S
  BY <1>1, <1>2
<1>4. PICK g : Climbs(H, r, n - 1, g)
  BY <1>3
<1>5. g = [k \in 0..(n - 1) |-> IF k = 0 THEN <<<<>>, r>> ELSE next(g[k - 1], k)]
  BY <1>4 DEF Climbs
<1> DEFINE f == [k \in 0..n |-> IF k = n THEN next(g[n - 1], n) ELSE g[k]]
           w(k) == IF k = 0 THEN <<<<>>, r>> ELSE next(f[k - 1], k)
<1> HIDE DEF next
<1>6. ASSUME NEW k \in 0..n PROVE f[k] = w(k)
  <2>1. CASE k = n
    <3>1. n - 1 \in 0..n /\ n - 1 # n /\ k # 0
      BY <2>1, <1>1, <1>2
    <3>2. f[n - 1] = g[n - 1] /\ f[k] = next(g[n - 1], n)
      BY <3>1, <2>1
    <3> QED BY <2>1, <3>1, <3>2
  <2>2. CASE k # n
    <3>1. f[k] = g[k] /\ k \in 0..(n - 1)
      BY <2>2, <1>1
    <3>2. k # 0 => f[k - 1] = g[k - 1]
      BY <2>2, <1>1
    <3>3. g[k] = IF k = 0 THEN <<<<>>, r>> ELSE next(g[k - 1], k)
      BY <3>1, <1>5
    <3> QED BY <3>1, <3>2, <3>3
  <2> QED BY <2>1, <2>2
<1>7. f = [k \in 0..n |-> f[k]]
  OBVIOUS
<1> HIDE DEF f
<1>8. f = [k \in 0..n |-> w(k)]
  BY <1>6, <1>7
<1>9. Climbs(H, r, n, f)
  BY <1>8 DEF Climbs, next
<1> QED BY <1>1, <1>9

LEMMA ClimbsOf ==
  ASSUME NEW H, NEW r
  PROVE  \E g : Climbs(H, r, MaxDepth, g) /\ PathOf(H, r) = g[MaxDepth][1]
<1> DEFINE f == CHOOSE g : Climbs(H, r, MaxDepth, g)
<1>1. MaxDepth \in Nat
  BY SessionAssumption
<1>2. Climbs(H, r, MaxDepth, f)
  BY <1>1, ClimbsExist
<1>3. PathOf(H, r) = f[MaxDepth][1]
  BY DEF PathOf, Climbs
<1> QED BY <1>2, <1>3

\* The way down a path, by the index.
Finds(H, path, m, g) ==
  g = [k \in 0..m |-> IF k = 0 THEN {Root} ELSE UNION {GetNK(H, p, path[k]) : p \in g[k - 1]}]

LEMMA FindsExist ==
  ASSUME NEW H, NEW path, NEW m \in Nat
  PROVE  \E g : Finds(H, path, m, g)
<1> DEFINE next(v, k) == UNION {GetNK(H, p, path[k]) : p \in v}
           S == {n \in Nat : ~ \E g : Finds(H, path, n, g)}
<1> SUFFICES ASSUME S # {} PROVE FALSE
  OBVIOUS
<1>1. PICK n \in S : \A k \in S : n <= k
  BY Smallest
<1>2. n # 0
  <2>1. Finds(H, path, 0, [k \in 0..0 |-> {Root}])
    BY DEF Finds
  <2> QED BY <1>1, <2>1
<1>3. n - 1 \in Nat /\ n - 1 \notin S
  BY <1>1, <1>2
<1>4. PICK g : Finds(H, path, n - 1, g)
  BY <1>3
<1>5. g = [k \in 0..(n - 1) |-> IF k = 0 THEN {Root} ELSE next(g[k - 1], k)]
  BY <1>4 DEF Finds
<1> DEFINE f == [k \in 0..n |-> IF k = n THEN next(g[n - 1], n) ELSE g[k]]
           w(k) == IF k = 0 THEN {Root} ELSE next(f[k - 1], k)
<1> HIDE DEF next
<1>6. ASSUME NEW k \in 0..n PROVE f[k] = w(k)
  <2>1. CASE k = n
    <3>1. n - 1 \in 0..n /\ n - 1 # n /\ k # 0
      BY <2>1, <1>1, <1>2
    <3>2. f[n - 1] = g[n - 1] /\ f[k] = next(g[n - 1], n)
      BY <3>1, <2>1
    <3> QED BY <2>1, <3>1, <3>2
  <2>2. CASE k # n
    <3>1. f[k] = g[k] /\ k \in 0..(n - 1)
      BY <2>2, <1>1
    <3>2. k # 0 => f[k - 1] = g[k - 1]
      BY <2>2, <1>1
    <3>3. g[k] = IF k = 0 THEN {Root} ELSE next(g[k - 1], k)
      BY <3>1, <1>5
    <3> QED BY <3>1, <3>2, <3>3
  <2> QED BY <2>1, <2>2
<1>7. f = [k \in 0..n |-> f[k]]
  OBVIOUS
<1> HIDE DEF f
<1>8. f = [k \in 0..n |-> w(k)]
  BY <1>6, <1>7
<1>9. Finds(H, path, n, f)
  BY <1>8 DEF Finds, next
<1> QED BY <1>1, <1>9

LEMMA FindsOf ==
  ASSUME NEW H, NEW path \in Seq(Nat)
  PROVE  \E g : Finds(H, path, Len(path), g) /\ WalkPath(H, path) = g[Len(path)]
<1> DEFINE f == CHOOSE g : Finds(H, path, Len(path), g)
<1>1. Len(path) \in Nat
  OBVIOUS
<1>2. Finds(H, path, Len(path), f)
  BY <1>1, FindsExist
<1>3. WalkPath(H, path) = f[Len(path)]
  BY DEF WalkPath, Finds
<1> QED BY <1>2, <1>3

\* The way down a path, by the lists.
Lists(H, path, m, g) ==
  g = [k \in 0..m |-> IF k = 0 THEN {Root} ELSE UNION {{c \in H.node[p].kids : H.node[c].name = path[k]} : p \in g[k - 1]}]

LEMMA ListsExist ==
  ASSUME NEW H, NEW path, NEW m \in Nat
  PROVE  \E g : Lists(H, path, m, g)
<1> DEFINE next(v, k) == UNION {{c \in H.node[p].kids : H.node[c].name = path[k]} : p \in v}
           S == {n \in Nat : ~ \E g : Lists(H, path, n, g)}
<1> SUFFICES ASSUME S # {} PROVE FALSE
  OBVIOUS
<1>1. PICK n \in S : \A k \in S : n <= k
  BY Smallest
<1>2. n # 0
  <2>1. Lists(H, path, 0, [k \in 0..0 |-> {Root}])
    BY DEF Lists
  <2> QED BY <1>1, <2>1
<1>3. n - 1 \in Nat /\ n - 1 \notin S
  BY <1>1, <1>2
<1>4. PICK g : Lists(H, path, n - 1, g)
  BY <1>3
<1>5. g = [k \in 0..(n - 1) |-> IF k = 0 THEN {Root} ELSE next(g[k - 1], k)]
  BY <1>4 DEF Lists
<1> DEFINE f == [k \in 0..n |-> IF k = n THEN next(g[n - 1], n) ELSE g[k]]
           w(k) == IF k = 0 THEN {Root} ELSE next(f[k - 1], k)
<1> HIDE DEF next
<1>6. ASSUME NEW k \in 0..n PROVE f[k] = w(k)
  <2>1. CASE k = n
    <3>1. n - 1 \in 0..n /\ n - 1 # n /\ k # 0
      BY <2>1, <1>1, <1>2
    <3>2. f[n - 1] = g[n - 1] /\ f[k] = next(g[n - 1], n)
      BY <3>1, <2>1
    <3> QED BY <2>1, <3>1, <3>2
  <2>2. CASE k # n
    <3>1. f[k] = g[k] /\ k \in 0..(n - 1)
      BY <2>2, <1>1
    <3>2. k # 0 => f[k - 1] = g[k - 1]
      BY <2>2, <1>1
    <3>3. g[k] = IF k = 0 THEN {Root} ELSE next(g[k - 1], k)
      BY <3>1, <1>5
    <3> QED BY <3>1, <3>2, <3>3
  <2> QED BY <2>1, <2>2
<1>7. f = [k \in 0..n |-> f[k]]
  OBVIOUS
<1> HIDE DEF f
<1>8. f = [k \in 0..n |-> w(k)]
  BY <1>6, <1>7
<1>9. Lists(H, path, n, f)
  BY <1>8 DEF Lists, next
<1> QED BY <1>1, <1>9

LEMMA ListsOf ==
  ASSUME NEW H, NEW path \in Seq(Nat)
  PROVE  \E g : Lists(H, path, Len(path), g) /\ WalkLists(H, path) = g[Len(path)]
<1> DEFINE f == CHOOSE g : Lists(H, path, Len(path), g)
<1>1. Len(path) \in Nat
  OBVIOUS
<1>2. Lists(H, path, Len(path), f)
  BY <1>1, ListsExist
<1>3. WalkLists(H, path) = f[Len(path)]
  BY DEF WalkLists, Lists
<1> QED BY <1>2, <1>3

\* The segments of EnsureKeyPath.
Ensures(H, path, m, g) ==
  g = [k \in 0..m |-> IF k = 0 THEN [hive |-> H, ref |-> Root] ELSE EnsureSegment(g[k - 1], path[k])]

LEMMA EnsuresExist ==
  ASSUME NEW H, NEW path, NEW m \in Nat
  PROVE  \E g : Ensures(H, path, m, g)
<1> DEFINE next(v, k) == EnsureSegment(v, path[k])
           S == {n \in Nat : ~ \E g : Ensures(H, path, n, g)}
<1> SUFFICES ASSUME S # {} PROVE FALSE
  OBVIOUS
<1>1. PICK n \in S : \A k \in S : n <= k
  BY Smallest
<1>2. n # 0
  <2>1. Ensures(H, path, 0, [k \in 0..0 |-> [hive |-> H, ref |-> Root]])
    BY DEF Ensures
  <2> QED BY <1>1, <2>1
<1>3. n - 1 \in Nat /\ n - 1 \notin S
  BY <1>1, <1>2
<1>4. PICK g : Ensures(H, path, n - 1, g)
  BY <1>3
<1>5. g = [k \in 0..(n - 1) |-> IF k = 0 THEN [hive |-> H, ref |-> Root] ELSE next(g[k - 1], k)]
  BY <1>4 DEF Ensures
<1> DEFINE f == [k \in 0..n |-> IF k = n THEN next(g[n - 1], n) ELSE g[k]]
           w(k) == IF k = 0 THEN [hive |-> H, ref |-> Root] ELSE next(f[k - 1], k)
<1> HIDE DEF next
<1>6. ASSUME NEW k \in 0..n PROVE f[k] = w(k)
  <2>1. CASE k = n
    <3>1. n - 1 \in 0..n /\ n - 1 # n /\ k # 0
      BY <2>1, <1>1, <1>2
    <3>2. f[n - 1] = g[n - 1] /\ f[k] = next(g[n - 1], n)
      BY <3>1, <2>1
    <3> QED BY <2>1, <3>1, <3>2
  <2>2. CASE k # n
    <3>1. f[k] = g[k] /\ k \in 0..(n - 1)
      BY <2>2, <1>1
    <3>2. k # 0 => f[k - 1] = g[k - 1]
      BY <2>2, <1>1
    <3>3. g[k] = IF k = 0 THEN [hive |-> H, ref |-> Root] ELSE next(g[k - 1], k)
      BY <3>1, <1>5
    <3> QED BY <3>1, <3>2, <3>3
  <2> QED BY <2>1, <2>2
<1>7. f = [k \in 0..n |-> f[k]]
  OBVIOUS
<1> HIDE DEF f
<1>8. f = [k \in 0..n |-> w(k)]
  BY <1>6, <1>7
<1>9. Ensures(H, path, n, f)
  BY <1>8 DEF Ensures, next
<1> QED BY <1>1, <1>9

LEMMA EnsuresOf ==
  ASSUME NEW H, NEW path \in Seq(Nat)
  PROVE  \E g : Ensures(H, path, Len(path), g) /\ EnsureKeyPath(H, path) = g[Len(path)]
<1> DEFINE f == CHOOSE g : Ensures(H, path, Len(path), g)
<1>1. Len(path) \in Nat
  OBVIOUS
<1>2. Ensures(H, path, Len(path), f)
  BY <1>1, EnsuresExist
<1>3. EnsureKeyPath(H, path) = f[Len(path)]
  BY DEF EnsureKeyPath, Ensures
<1> QED BY <1>2, <1>3

\* The operations at a key, one after the other.
Does(H, r, path, m, g) ==
  g = [k \in 0..m |-> IF k = 0 THEN H ELSE OpAt(g[k - 1], r, path, k)]

LEMMA DoesExist ==
  ASSUME NEW H, NEW r, NEW path, NEW m \in Nat
  PROVE  \E g : Does(H, r, path, m, g)
<1> DEFINE next(v, k) == OpAt(v, r, path, k)
           S == {n \in Nat : ~ \E g : Does(H, r, path, n, g)}
<1> SUFFICES ASSUME S # {} PROVE FALSE
  OBVIOUS
<1>1. PICK n \in S : \A k \in S : n <= k
  BY Smallest
<1>2. n # 0
  <2>1. Does(H, r, path, 0, [k \in 0..0 |-> H])
    BY DEF Does
  <2> QED BY <1>1, <2>1
<1>3. n - 1 \in Nat /\ n - 1 \notin S
  BY <1>1, <1>2
<1>4. PICK g : Does(H, r, path, n - 1, g)
  BY <1>3
<1>5. g = [k \in 0..(n - 1) |-> IF k = 0 THEN H ELSE next(g[k - 1], k)]
  BY <1>4 DEF Does
<1> DEFINE f == [k \in 0..n |-> IF k = n THEN next(g[n - 1], n) ELSE g[k]]
           w(k) == IF k = 0 THEN H ELSE next(f[k - 1], k)
<1> HIDE DEF next
<1>6. ASSUME NEW k \in 0..n PROVE f[k] = w(k)
  <2>1. CASE k = n
    <3>1. n - 1 \in 0..n /\ n - 1 # n /\ k # 0
      BY <2>1, <1>1, <1>2
    <3>2. f[n - 1] = g[n - 1] /\ f[k] = next(g[n - 1], n)
      BY <3>1, <2>1
    <3> QED BY <2>1, <3>1, <3>2
  <2>2. CASE k # n
    <3>1. f[k] = g[k] /\ k \in 0..(n - 1)
      BY <2>2, <1>1
    <3>2. k # 0 => f[k - 1] = g[k - 1]
      BY <2>2, <1>1
    <3>3. g[k] = IF k = 0 THEN H ELSE next(g[k - 1], k)
      BY <3>1, <1>5
    <3> QED BY <3>1, <3>2, <3>3
  <2> QED BY <2>1, <2>2
<1>7. f = [k \in 0..n |-> f[k]]
  OBVIOUS
<1> HIDE DEF f
<1>8. f = [k \in 0..n |-> w(k)]
  BY <1>6, <1>7
<1>9. Does(H, r, path, n, f)
  BY <1>8 DEF Does, next
<1> QED BY <1>1, <1>9

LEMMA DoesOf ==
  ASSUME NEW H, NEW r, NEW path, NEW n \in Nat
  PROVE  \E g : Does(H, r, path, n, g) /\ OpsUpTo(H, r, path, n) = g[n]
<1> DEFINE f == CHOOSE g : Does(H, r, path, n, g)
<1>1. Does(H, r, path, n, f)
  BY DoesExist
<1>2. OpsUpTo(H, r, path, n) = f[n]
  BY DEF OpsUpTo, Does
<1> QED BY <1>1, <1>2

\* The values of a new key, one after the other.
SetsAt(H, r, path, m, g) ==
  g = [k \in 0..m |-> IF k = 0 THEN H ELSE SetAt(g[k - 1], r, path, k)]

LEMMA SetsAtExist ==
  ASSUME NEW H, NEW r, NEW path, NEW m \in Nat
  PROVE  \E g : SetsAt(H, r, path, m, g)
<1> DEFINE next(v, k) == SetAt(v, r, path, k)
           S == {n \in Nat : ~ \E g : SetsAt(H, r, path, n, g)}
<1> SUFFICES ASSUME S # {} PROVE FALSE
  OBVIOUS
<1>1. PICK n \in S : \A k \in S : n <= k
  BY Smallest
<1>2. n # 0
  <2>1. SetsAt(H, r, path, 0, [k \in 0..0 |-> H])
    BY DEF SetsAt
  <2> QED BY <1>1, <2>1
<1>3. n - 1 \in Nat /\ n - 1 \notin S
  BY <1>1, <1>2
<1>4. PICK g : SetsAt(H, r, path, n - 1, g)
  BY <1>3
<1>5. g = [k \in 0..(n - 1) |-> IF k = 0 THEN H ELSE next(g[k - 1], k)]
  BY <1>4 DEF SetsAt
<1> DEFINE f == [k \in 0..n |-> IF k = n THEN next(g[n - 1], n) ELSE g[k]]
           w(k) == IF k = 0 THEN H ELSE next(f[k - 1], k)
<1> HIDE DEF next
<1>6. ASSUME NEW k \in 0..n PROVE f[k] = w(k)
  <2>1. CASE k = n
    <3>1. n - 1 \in 0..n /\ n - 1 # n /\ k # 0
      BY <2>1, <1>1, <1>2
    <3>2. f[n - 1] = g[n - 1] /\ f[k] = next(g[n - 1], n)
      BY <3>1, <2>1
    <3> QED BY <2>1, <3>1, <3>2
  <2>2. CASE k # n
    <3>1. f[k] = g[k] /\ k \in 0..(n - 1)
      BY <2>2, <1>1
    <3>2. k # 0 => f[k - 1] = g[k - 1]
      BY <2>2, <1>1
    <3>3. g[k] = IF k = 0 THEN H ELSE next(g[k - 1], k)
      BY <3>1, <1>5
    <3> QED BY <3>1, <3>2, <3>3
  <2> QED BY <2>1, <2>2
<1>7. f = [k \in 0..n |-> f[k]]
  OBVIOUS
<1> HIDE DEF f
<1>8. f = [k \in 0..n |-> w(k)]
  BY <1>6, <1>7
<1>9. SetsAt(H, r, path, n, f)
  BY <1>8 DEF SetsAt, next
<1> QED BY <1>1, <1>9

LEMMA SetsAtOf ==
  ASSUME NEW H, NEW r, NEW path, Len(plan) \in Nat
  PROVE  \E g : SetsAt(H, r, path, Len(plan), g) /\ SetAll(H, r, path) = g[Len(plan)]
<1> DEFINE f == CHOOSE g : SetsAt(H, r, path, Len(plan), g)
<1>1. Len(plan) \in Nat
  OBVIOUS
<1>2. SetsAt(H, r, path, Len(plan), f)
  BY <1>1, SetsAtExist
<1>3. SetAll(H, r, path) = f[Len(plan)]
  BY DEF SetAll, SetsAt
<1> QED BY <1>2, <1>3

-----------------------------------------------------------------------------
(***************************************************************************)
(* What holds of every hive that a session leaves or works on.             *)
(***************************************************************************)
Keys(H) == DOMAIN H.node
Live(H, r) == H.node[r].live = TRUE

HiveFields == {"node", "nk", "vk", "pend", "next", "ok", "frees"}
KeyFields == {"parent", "name", "kids", "vals", "live", "listed"}
Shaped(H) ==
  /\ DOMAIN H = HiveFields /\ H.next \in Nat /\ H.frees \in BOOLEAN /\ H.ok \in BOOLEAN
  /\ Root \in Keys(H) /\ Keys(H) \subseteq 0..(H.next - 1)
  /\ \A r \in Keys(H) :
       /\ DOMAIN H.node[r] = KeyFields
       /\ H.node[r].live \in BOOLEAN /\ H.node[r].listed \in BOOLEAN /\ H.node[r].name \in Nat
       /\ H.node[r].kids \subseteq Keys(H) \ {Root}
  /\ H.nk \subseteq [parent : Keys(H), name : Nat, ref : Keys(H) \ {Root}]
  /\ DOMAIN H.pend \subseteq Keys(H)
  /\ \A p \in DOMAIN H.pend : H.pend[p] \in [add : SUBSET (Keys(H) \ {Root}), del : SUBSET Keys(H)]

\* Every key has its parent one level above it.
Depths(H, d) ==
  /\ d \in [Keys(H) -> Nat] /\ d[Root] = 0
  /\ \A r \in Keys(H) : d[r] <= MaxDepth
  /\ \A r \in Keys(H) \ {Root} : H.node[r].parent \in Keys(H) /\ d[r] = d[H.node[r].parent] + 1
Layered(H) == \E d : Depths(H, d)

\* Lists, pending children and the index have keys under their parents.
Owned(H) ==
  /\ \A p \in Keys(H) : \A c \in H.node[p].kids \cup PendingOf(H, p).add : H.node[c].parent = p
  /\ \A e \in H.nk : H.node[e.ref].parent = e.parent /\ H.node[e.ref].name = e.name

\* The list of an allocated key is there, and names only allocated keys and keys
\* whose removal is pending.
Alive(H) ==
  /\ Live(H, Root)
  /\ \A p \in Keys(H) : Live(H, p) =>
       /\ H.node[p].listed = TRUE
       /\ \A c \in H.node[p].kids : Live(H, c) \/ c \in PendingOf(H, p).del
       /\ \A c \in PendingOf(H, p).add : Live(H, c)

Sound(H) == Shaped(H) /\ Layered(H) /\ Owned(H) /\ Alive(H)

\* No list names a freed key, and no pending list is a freed key's.
Whole(H) ==
  /\ \A p \in Keys(H) : Live(H, p) => \A c \in H.node[p].kids : Live(H, c)
  /\ \A p \in DOMAIN H.pend : Live(H, p)
NoDels(H) == \A p \in DOMAIN H.pend : H.pend[p].del = {}

\* The list a key has once its pending children are written.
Virtual(H, p) == (H.node[p].kids \cup PendingOf(H, p).add) \ PendingOf(H, p).del

\* What the index names below an allocated key is in its list, and allocated.
Indexed(H) ==
  \A e \in H.nk : Live(H, e.parent) => Live(H, e.ref) /\ e.ref \in Virtual(H, e.parent)

\* The index leads from an allocated key to allocated keys only.
Leads(H) == \A e \in H.nk : Live(H, e.parent) => Live(H, e.ref)

\* The index names everything in the lists of the keys it names.
Known(H) == {Root} \cup {e.ref : e \in H.nk}
Full(H) ==
  \A p \in Known(H) : Live(H, p) =>
    \A c \in Virtual(H, p) : [parent |-> p, name |-> H.node[c].name, ref |-> c] \in H.nk

\* The paths a reader finds.
Found(H) == {w.path : w \in Shown(H)}

\* A key the walk has to visit, with its path.
Visits(H) == {w \in [ref : Keys(H), path : Seq(Nat)] : w.path # <<>> => w.ref # Root}

Busy == {"apply", "walk", "create"}
OpSet == [do : {"ensure", "set", "delvalue", "delkey"}, path : Paths]
Control ==
  /\ pc \in Busy \cup {"done", "failed", "cancelled", "nospace", "closed"}
  /\ session \in {"none", "single", "partial", "full"}
  /\ pc \in {"walk", "create"} => session = "single"
  /\ pc = "apply" => session \in {"partial", "full"}
  /\ pc = "closed" <=> session = "none"
  /\ plan \in Seq(OpSet) /\ i \in Nat \ {0}
  /\ spoilt = "hive" => pc \in {"failed", "cancelled", "nospace", "closed"} /\ h.frees = TRUE
  /\ pc \in {"failed", "cancelled", "nospace"} => spoilt # "no"

\* Where a plan that frees keys is not under way, nothing freed is in a list.
HiveKept ==
  /\ Sound(h)
  /\ (pc \in Busy /\ Deletes(plan) /\ h.frees = TRUE) \/ Whole(h)
  /\ pc \notin Busy \cup {"done"} => ~(Deletes(plan) /\ h.frees = TRUE)
  /\ pc = "done" => DOMAIN h.pend = {}
  /\ ~Deletes(plan) => NoDels(h)
  /\ ~Deletes(plan) /\ plan # NoPlan => {w.path : w \in base} \subseteq Found(h)
  /\ session = "single" => h.frees = TRUE
  /\ pc = "walk" => todo \in Seq(Visits(h))
IndexKept ==
  session \in {"partial", "full"} =>
    Leads(h) /\ (spoilt = "no" => Indexed(h) /\ (session = "full" => Full(h)))

SInv == Control /\ (spoilt # "hive" => HiveKept /\ IndexKept)
-----------------------------------------------------------------------------
(***************************************************************************)
(* What the editors do to a hive.  Moved is what every operation does, and *)
(* Edited what one does that deletes no key.                               *)
(***************************************************************************)
Grows(H, G) ==
  /\ Keys(H) \subseteq Keys(G)
  /\ \A r \in Keys(H) :
       /\ G.node[r].parent = H.node[r].parent /\ G.node[r].name = H.node[r].name
       /\ G.node[r].live = H.node[r].live /\ G.node[r].listed = H.node[r].listed
       /\ H.node[r].kids \subseteq G.node[r].kids
Safe(H, G) ==
  /\ Sound(G) /\ G.frees = H.frees /\ Keys(H) \subseteq Keys(G)
  /\ H.frees = FALSE /\ Whole(H) => Whole(G)
Moved(H, G) ==
  /\ Safe(H, G)
  /\ Leads(H) => Leads(G)
  /\ Indexed(H) => Indexed(G)
  /\ Indexed(H) /\ Full(H) => Full(G)
Gentle(H, G) ==
  /\ Grows(H, G)
  /\ Whole(H) => Whole(G)
  /\ NoDels(H) => NoDels(G)
Edited(H, G) == Moved(H, G) /\ Gentle(H, G)

\* Two operations, one after the other.
LEMMA SafeTwice ==
  ASSUME NEW H, NEW G, NEW F, Safe(H, G), Safe(G, F)
  PROVE  Safe(H, F)
BY DEF Safe

LEMMA MovedTwice ==
  ASSUME NEW H, NEW G, NEW F, Moved(H, G), Moved(G, F)
  PROVE  Moved(H, F)
BY SafeTwice DEF Moved

LEMMA GrowsTwice ==
  ASSUME NEW H, NEW G, NEW F, Grows(H, G), Grows(G, F)
  PROVE  Grows(H, F)
<1>1. Keys(H) \subseteq Keys(F)
  BY DEF Grows
<1>2. ASSUME NEW r \in Keys(H)
      PROVE  /\ F.node[r].parent = H.node[r].parent /\ F.node[r].name = H.node[r].name
             /\ F.node[r].live = H.node[r].live /\ F.node[r].listed = H.node[r].listed
             /\ H.node[r].kids \subseteq F.node[r].kids
  <2>1. r \in Keys(G)
    BY DEF Grows
  <2> QED BY <2>1 DEF Grows
<1> QED BY <1>1, <1>2 DEF Grows

LEMMA GentleTwice ==
  ASSUME NEW H, NEW G, NEW F, Gentle(H, G), Gentle(G, F)
  PROVE  Gentle(H, F)
BY GrowsTwice DEF Gentle

LEMMA EditedTwice ==
  ASSUME NEW H, NEW G, NEW F, Edited(H, G), Edited(G, F)
  PROVE  Edited(H, F)
BY MovedTwice, GentleTwice DEF Edited

\* What is pending below a key is a record of two sets of keys.
LEMMA PendingShape ==
  ASSUME NEW H, Shaped(H), NEW p
  PROVE  /\ PendingOf(H, p).add \subseteq Keys(H) \ {Root}
         /\ PendingOf(H, p).del \subseteq Keys(H)
         /\ p \notin DOMAIN H.pend => PendingOf(H, p).add = {} /\ PendingOf(H, p).del = {}
         /\ PendingOf(H, p) = [add |-> PendingOf(H, p).add, del |-> PendingOf(H, p).del]
<1>1. CASE p \in DOMAIN H.pend
  <2>1. H.pend[p] \in [add : SUBSET (Keys(H) \ {Root}), del : SUBSET Keys(H)]
    BY <1>1 DEF Shaped
  <2> QED BY <1>1, <2>1 DEF PendingOf
<1>2. CASE p \notin DOMAIN H.pend
  BY <1>2 DEF PendingOf, NothingPending
<1> QED BY <1>1, <1>2

\* Values, what is known of them, and errors are all that differ.
Alike(H, G) ==
  /\ DOMAIN G = HiveFields /\ G.next \in Nat /\ H.next <= G.next /\ G.ok \in BOOLEAN
  /\ G.nk = H.nk /\ G.pend = H.pend /\ G.frees = H.frees /\ Keys(G) = Keys(H)
  /\ \A r \in Keys(H) :
       /\ DOMAIN G.node[r] = KeyFields
       /\ G.node[r].parent = H.node[r].parent /\ G.node[r].name = H.node[r].name
       /\ G.node[r].live = H.node[r].live /\ G.node[r].listed = H.node[r].listed
       /\ G.node[r].kids = H.node[r].kids

\* No invariant is about values, so an operation on them keeps all of it.
LEMMA AlikeEdited ==
  ASSUME NEW H, Sound(H), NEW G, Alike(H, G)
  PROVE  Edited(H, G)
<1>0. Shaped(H) /\ Keys(G) = Keys(H) /\ G.nk = H.nk /\ G.pend = H.pend
  BY DEF Sound, Alike
<1>1. \A r \in Keys(H) : Live(G, r) <=> Live(H, r)
  BY DEF Alike, Live
<1>2. \A p : PendingOf(G, p) = PendingOf(H, p)
  BY <1>0 DEF PendingOf
<1>3. \A p \in Keys(H) : /\ PendingOf(H, p).add \subseteq Keys(H) /\ PendingOf(H, p).del \subseteq Keys(H)
                         /\ H.node[p].kids \subseteq Keys(H) /\ G.node[p].kids = H.node[p].kids
  BY <1>0, PendingShape DEF Shaped, Alike
<1>4. \A e \in H.nk : e.parent \in Keys(H) /\ e.ref \in Keys(H)
  BY <1>0 DEF Shaped
<1>5. Shaped(G)
  <2>1. Keys(G) \subseteq 0..(G.next - 1)
    <3>1. H.next \in Nat /\ G.next \in Nat /\ H.next <= G.next /\ Keys(H) \subseteq 0..(H.next - 1)
      BY DEF Sound, Shaped, Alike
    <3> QED BY <3>1, <1>0
  <2> QED BY <2>1, <1>0 DEF Shaped, Alike
<1>6. Layered(G)
  <2>1. PICK d : Depths(H, d)
    BY DEF Sound, Layered
  <2>2. Depths(G, d)
    BY <2>1, <1>0 DEF Depths, Alike
  <2> QED BY <2>2 DEF Layered
<1>7. Owned(G)
  <2>1. Owned(H)
    BY DEF Sound
  <2>2. \A p \in Keys(G) : \A c \in G.node[p].kids \cup PendingOf(G, p).add : G.node[c].parent = p
    <3> SUFFICES ASSUME NEW p \in Keys(H), NEW c \in H.node[p].kids \cup PendingOf(H, p).add
                 PROVE  G.node[c].parent = p
      BY <1>0, <1>2, <1>3
    <3>1. c \in Keys(H) /\ H.node[c].parent = p
      BY <2>1, <1>3 DEF Owned
    <3> QED BY <3>1 DEF Alike
  <2>3. \A e \in G.nk : G.node[e.ref].parent = e.parent /\ G.node[e.ref].name = e.name
    BY <2>1, <1>0, <1>4 DEF Owned, Alike
  <2> QED BY <2>2, <2>3 DEF Owned
<1>8. Alive(G)
  <2>1. Alive(H) /\ Root \in Keys(H)
    BY DEF Sound, Shaped
  <2>2. ASSUME NEW p \in Keys(G), Live(G, p)
        PROVE  /\ G.node[p].listed = TRUE
               /\ \A c \in G.node[p].kids : Live(G, c) \/ c \in PendingOf(G, p).del
               /\ \A c \in PendingOf(G, p).add : Live(G, c)
    <3>1. p \in Keys(H) /\ Live(H, p) /\ G.node[p].listed = H.node[p].listed
      BY <2>2, <1>0, <1>1 DEF Alike
    <3> QED BY <3>1, <2>1, <1>1, <1>2, <1>3 DEF Alive
  <2> QED BY <2>1, <2>2, <1>1 DEF Alive
<1>9. Sound(G)
  BY <1>5, <1>6, <1>7, <1>8 DEF Sound
<1>10. Whole(H) => Whole(G)
  <2>1. DOMAIN H.pend \subseteq Keys(H)
    BY <1>0 DEF Shaped
  <2> QED BY <2>1, <1>0, <1>1, <1>3 DEF Whole
<1>11. \A p \in Keys(H) : Virtual(G, p) = Virtual(H, p) /\ Virtual(H, p) \subseteq Keys(H)
  BY <1>2, <1>3 DEF Virtual
<1>12. Indexed(H) => Indexed(G)
  BY <1>0, <1>1, <1>4, <1>11 DEF Indexed
<1>13. Full(H) => Full(G)
  <2>1. Known(G) = Known(H) /\ Known(H) \subseteq Keys(H)
    BY <1>0, <1>4 DEF Known, Shaped
  <2>2. \A c \in Keys(H) : G.node[c].name = H.node[c].name
    BY DEF Alike
  <2> QED BY <2>1, <2>2, <1>0, <1>1, <1>11 DEF Full
<1>14. NoDels(H) => NoDels(G)
  BY <1>0 DEF NoDels
<1>15. Grows(H, G)
  BY <1>0 DEF Grows, Alike
<1>16. G.frees = H.frees
  BY DEF Alike
<1>17. Leads(H) => Leads(G)
  BY <1>0, <1>1, <1>4 DEF Leads
<1> QED BY <1>9, <1>10, <1>12, <1>13, <1>14, <1>15, <1>16, <1>17, <1>0 DEF Edited, Moved, Safe, Gentle

LEMMA FailedEdited ==
  ASSUME NEW H, Sound(H)
  PROVE  Edited(H, Failed(H))
<1>1. Alike(H, Failed(H))
  BY DEF Alike, Failed, Sound, Shaped, HiveFields, Keys
<1> QED BY <1>1, AlikeEdited

LEMMA PassedOverEdited ==
  ASSUME NEW H, Sound(H)
  PROVE  Edited(H, PassedOver(H))
<1>1. Alike(H, PassedOver(H))
  BY DEF Alike, PassedOver, Sound, Shaped, HiveFields, Keys
<1> QED BY <1>1, AlikeEdited

LEMMA SameEdited ==
  ASSUME NEW H, Sound(H)
  PROVE  Edited(H, H)
<1>1. Alike(H, H)
  BY DEF Alike, Sound, Shaped, HiveFields, Keys
<1> QED BY <1>1, AlikeEdited

\* A key's values are replaced.
LEMMA ValsEdited ==
  ASSUME NEW H, Sound(H), NEW r \in Keys(H), NEW vals, NEW vk, NEW n \in Nat, H.next <= n
  PROVE  Edited(H, [H EXCEPT !.node[r].vals = vals, !.vk = vk, !.next = n])
<1> DEFINE G == [H EXCEPT !.node[r].vals = vals, !.vk = vk, !.next = n]
<1>0. DOMAIN H = HiveFields /\ H.next \in Nat /\ H.ok \in BOOLEAN
      /\ \A q \in Keys(H) : DOMAIN H.node[q] = KeyFields
  BY DEF Sound, Shaped
<1>1. /\ DOMAIN G = HiveFields /\ G.next = n /\ G.ok = H.ok /\ G.nk = H.nk /\ G.pend = H.pend
      /\ G.frees = H.frees /\ G.node = [H.node EXCEPT ![r] = [H.node[r] EXCEPT !.vals = vals]]
  BY <1>0 DEF HiveFields
<1> HIDE DEF G
<1>2. Keys(G) = Keys(H)
  BY <1>1 DEF Keys
<1>3. ASSUME NEW q \in Keys(H)
      PROVE  /\ DOMAIN G.node[q] = KeyFields
             /\ G.node[q].parent = H.node[q].parent /\ G.node[q].name = H.node[q].name
             /\ G.node[q].live = H.node[q].live /\ G.node[q].listed = H.node[q].listed
             /\ G.node[q].kids = H.node[q].kids
  <2>1. CASE q = r
    <3>1. G.node[q] = [H.node[r] EXCEPT !.vals = vals]
      BY <2>1, <1>1 DEF Keys
    <3> QED BY <3>1, <2>1, <1>0 DEF KeyFields
  <2>2. CASE q # r
    <3>1. G.node[q] = H.node[q]
      BY <2>2, <1>1 DEF Keys
    <3> QED BY <3>1, <1>0
  <2> QED BY <2>1, <2>2
<1>4. Alike(H, G)
  BY <1>0, <1>1, <1>2, <1>3 DEF Alike
<1> QED BY <1>4, AlikeEdited DEF G

\* valueEditor.UpsertValue and DeleteValue.
LEMMA UpsertEdited ==
  ASSUME NEW H, Sound(H), NEW r \in Keys(H), NEW data
  PROVE  Edited(H, UpsertValue(H, r, data))
<1> DEFINE vals == H.node[r].vals
           old == GetVK(H, r)
           new == [vk |-> 100 + H.next, data |-> data]
           same == \E k \in 1..Len(vals) : vals[k].vk \in old /\ vals[k].data = data
           put == IF old = {} THEN Append(vals, new)
                  ELSE [k \in 1..Len(vals) |-> IF vals[k].vk \in old THEN new ELSE vals[k]]
           nvk == PutVK(H, r, {new.vk})
           n == H.next + 1
<1>1. UpsertValue(H, r, data) =
        IF ~H.node[r].live THEN Failed(H)
        ELSE IF same THEN H
        ELSE [H EXCEPT !.node[r].vals = put, !.vk = nvk, !.next = n]
  <2>1. DOMAIN H = HiveFields
    BY DEF Sound, Shaped
  <2> QED BY <2>1 DEF UpsertValue, HiveFields
<1>2. n \in Nat /\ H.next <= n
  BY DEF Sound, Shaped
<1> HIDE DEF vals, old, new, same, put, nvk, n
<1>3. Edited(H, [H EXCEPT !.node[r].vals = put, !.vk = nvk, !.next = n])
  BY <1>2, ValsEdited
<1> QED BY <1>1, <1>3, FailedEdited, SameEdited

LEMMA DeleteValueEdited ==
  ASSUME NEW H, Sound(H), NEW r \in Keys(H)
  PROVE  Edited(H, DeleteValue(H, r))
<1> DEFINE old == GetVK(H, r)
           left == SelectSeq(H.node[r].vals, LAMBDA v : v.vk \notin old)
           nvk == PutVK(H, r, {})
           n == H.next
<1>1. DeleteValue(H, r) = IF old = {} THEN H ELSE [H EXCEPT !.node[r].vals = left, !.vk = nvk]
  BY DEF DeleteValue
<1>2. n \in Nat /\ H.next <= n
  BY DEF Sound, Shaped
<1> HIDE DEF old, left, nvk
<1>3. [H EXCEPT !.node[r].vals = left, !.vk = nvk] = [H EXCEPT !.node[r].vals = left, !.vk = nvk, !.next = n]
  <2>1. DOMAIN H = HiveFields
    BY DEF Sound, Shaped
  <2> QED BY <2>1 DEF HiveFields
<1>4. Edited(H, [H EXCEPT !.node[r].vals = left, !.vk = nvk, !.next = n])
  BY <1>2, ValsEdited
<1> QED BY <1>1, <1>3, <1>4, SameEdited

\* Every SetValue of a path, one after the other.
LEMMA SetAllEdited ==
  ASSUME NEW H, Sound(H), NEW r \in Keys(H), NEW path, Len(plan) \in Nat
  PROVE  Edited(H, SetAll(H, r, path))
<1>1. PICK g : SetsAt(H, r, path, Len(plan), g) /\ SetAll(H, r, path) = g[Len(plan)]
  BY SetsAtOf
<1> DEFINE B == {k \in 0..Len(plan) : ~Edited(H, g[k])}
<1>2. B = {}
  <2> SUFFICES ASSUME B # {} PROVE FALSE
    OBVIOUS
  <2>0. B \subseteq Nat
    OBVIOUS
  <2>1. PICK k \in B : \A l \in B : k <= l
    BY <2>0, Smallest
  <2>2. g[k] = IF k = 0 THEN H ELSE SetAt(g[k - 1], r, path, k)
    BY <1>1, <2>1 DEF SetsAt
  <2>3. k # 0
    BY <2>1, <2>2, SameEdited
  <2>4. Edited(H, g[k - 1])
    BY <2>1, <2>3
  <2>5. Sound(g[k - 1]) /\ r \in Keys(g[k - 1])
    BY <2>4 DEF Edited, Moved, Safe
  <2>6. Edited(g[k - 1], SetAt(g[k - 1], r, path, k))
    BY <2>5, UpsertEdited, SameEdited DEF SetAt
  <2> QED BY <2>1, <2>2, <2>3, <2>4, <2>6, EditedTwice
<1> QED BY <1>1, <1>2

\* A new key below p.
LEMMA CreateEdited ==
  ASSUME NEW H, Sound(H), NEW p \in Keys(H), NEW s \in Nat, GetNK(H, p, s) = {},
         NEW d, Depths(H, d), d[p] < MaxDepth
  PROVE  /\ Edited(H, CreateKey(H, p, s))
         /\ Live(H, p) => \E f : /\ Depths(CreateKey(H, p, s), f) /\ f[H.next] = d[p] + 1
                                 /\ H.next \in Keys(CreateKey(H, p, s))
         /\ ~Live(H, p) => CreateKey(H, p, s) = Failed(H)
<1> DEFINE r == H.next
           add == PendingOf(H, p).add
           del == PendingOf(H, p).del
           dd == [add |-> add \cup {r}, del |-> del]
           node == [q \in Keys(H) \cup {r} |-> IF q = r THEN Key(p, s) ELSE H.node[q]]
           G == [H EXCEPT !.node = node, !.nk = AddNK(H, p, s, r), !.pend = Pend(H, p, dd), !.next = r + 1]
<1>0. Shaped(H) /\ r \in Nat /\ r \notin Keys(H) /\ r # Root
  <2>1. Shaped(H) /\ r \in Nat /\ Root \in Keys(H) /\ Keys(H) \subseteq 0..(r - 1)
    BY DEF Sound, Shaped
  <2> QED BY <2>1
<1>1. CreateKey(H, p, s) = IF ~H.node[p].live THEN Failed(H) ELSE G
  <2>1. PendingOf(H, p) = [add |-> add, del |-> del]
    BY <1>0, PendingShape
  <2>2. [PendingOf(H, p) EXCEPT !.add = @ \cup {r}] = dd
    BY <2>1
  <2>3. DOMAIN H = HiveFields
    BY <1>0 DEF Shaped
  <2> QED BY <2>2, <2>3 DEF CreateKey, HiveFields, Keys
<1>2. /\ add \subseteq Keys(H) \ {Root} /\ del \subseteq Keys(H)
  BY <1>0, PendingShape
<1>3. DOMAIN H = HiveFields
  BY <1>0 DEF Shaped
<1>4. /\ DOMAIN G = HiveFields /\ G.node = node /\ G.nk = AddNK(H, p, s, r) /\ G.pend = Pend(H, p, dd)
      /\ G.next = r + 1 /\ G.ok = H.ok /\ G.frees = H.frees
  BY <1>3 DEF HiveFields
<1> HIDE DEF G
<1>5. /\ Keys(G) = Keys(H) \cup {r} /\ G.node[r] = Key(p, s)
      /\ \A q \in Keys(H) : G.node[q] = H.node[q]
  BY <1>4, <1>0 DEF Keys
<1>6. /\ Live(G, r) /\ \A q \in Keys(H) : Live(G, q) <=> Live(H, q)
  BY <1>5 DEF Live, Key
<1>7. /\ DOMAIN G.pend = DOMAIN H.pend \cup {p} /\ G.pend[p] = dd
      /\ \A q \in DOMAIN H.pend : q # p => G.pend[q] = H.pend[q]
  BY <1>4 DEF Pend
<1>8. /\ PendingOf(G, p) = dd /\ \A q : q # p => PendingOf(G, q) = PendingOf(H, q)
  BY <1>7 DEF PendingOf
<1>9. PendingOf(H, r).add = {} /\ PendingOf(H, r).del = {}
  <2>1. r \notin DOMAIN H.pend
    BY <1>0 DEF Shaped
  <2> QED BY <2>1, <1>0, PendingShape
<1> DEFINE e0 == [parent |-> p, name |-> s, ref |-> r]
<1>10. G.nk = H.nk \cup {e0}
  <2>1. \A e \in H.nk : e.parent # p \/ e.name # s
    BY DEF GetNK
  <2> QED BY <2>1, <1>4 DEF AddNK
<1>11. \A e \in H.nk : e.parent \in Keys(H) /\ e.ref \in Keys(H)
  BY <1>0 DEF Shaped
<1>12. \A q \in Keys(H) : /\ PendingOf(H, q).add \subseteq Keys(H) /\ PendingOf(H, q).del \subseteq Keys(H)
                          /\ H.node[q].kids \subseteq Keys(H)
  BY <1>0, PendingShape DEF Shaped
<1>13. Shaped(G)
  <2>1. G.next \in Nat /\ G.frees \in BOOLEAN /\ G.ok \in BOOLEAN
    BY <1>0, <1>4 DEF Shaped
  <2>2. Root \in Keys(G) /\ Keys(G) \subseteq 0..(G.next - 1)
    <3>1. Root \in Keys(H) /\ Keys(H) \subseteq 0..(r - 1)
      BY <1>0 DEF Shaped
    <3> QED BY <3>1, <1>0, <1>4, <1>5
  <2>3. ASSUME NEW q \in Keys(G)
        PROVE  /\ DOMAIN G.node[q] = KeyFields
               /\ G.node[q].live \in BOOLEAN /\ G.node[q].listed \in BOOLEAN /\ G.node[q].name \in Nat
               /\ G.node[q].kids \subseteq Keys(G) \ {Root}
    <3>1. CASE q = r
      BY <3>1, <1>5 DEF Key, KeyFields
    <3>2. CASE q # r
      <4>1. q \in Keys(H) /\ G.node[q] = H.node[q]
        BY <3>2, <1>5
      <4> QED BY <4>1, <1>0, <1>5 DEF Shaped
    <3> QED BY <3>1, <3>2
  <2>4. G.nk \subseteq [parent : Keys(G), name : Nat, ref : Keys(G) \ {Root}]
    <3>1. e0 \in [parent : Keys(G), name : Nat, ref : Keys(G) \ {Root}]
      BY <1>0, <1>5
    <3>2. H.nk \subseteq [parent : Keys(H), name : Nat, ref : Keys(H) \ {Root}]
      BY <1>0 DEF Shaped
    <3>3. [parent : Keys(H), name : Nat, ref : Keys(H) \ {Root}] \subseteq [parent : Keys(G), name : Nat, ref : Keys(G) \ {Root}]
      BY <1>5
    <3> QED BY <3>1, <3>2, <3>3, <1>10
  <2>5. DOMAIN G.pend \subseteq Keys(G)
    BY <1>0, <1>5, <1>7 DEF Shaped
  <2>6. ASSUME NEW q \in DOMAIN G.pend
        PROVE  G.pend[q] \in [add : SUBSET (Keys(G) \ {Root}), del : SUBSET Keys(G)]
    <3>1. CASE q = p
      BY <3>1, <1>0, <1>2, <1>5, <1>7
    <3>2. CASE q # p
      <4>1. q \in DOMAIN H.pend /\ G.pend[q] = H.pend[q]
        BY <3>2, <1>7
      <4>2. H.pend[q] \in [add : SUBSET (Keys(H) \ {Root}), del : SUBSET Keys(H)]
        BY <4>1, <1>0 DEF Shaped
      <4> QED BY <4>1, <4>2, <1>5
    <3> QED BY <3>1, <3>2
  <2> QED BY <1>4, <2>1, <2>2, <2>3, <2>4, <2>5, <2>6 DEF Shaped
<1> DEFINE f == [q \in Keys(H) \cup {r} |-> IF q = r THEN d[p] + 1 ELSE d[q]]
<1>14. Depths(G, f) /\ f[r] = d[p] + 1
  <2>1. d \in [Keys(H) -> Nat] /\ d[Root] = 0 /\ Root \in Keys(H)
    BY <1>0 DEF Depths, Shaped
  <2>2. f \in [Keys(G) -> Nat] /\ f[Root] = 0 /\ f[r] = d[p] + 1
    BY <2>1, <1>0, <1>5
  <2>3. ASSUME NEW q \in Keys(G) PROVE f[q] <= MaxDepth
    <3>1. CASE q = r
      <4>1. d[p] \in Nat /\ MaxDepth \in Nat /\ d[p] < MaxDepth
        BY <2>1, SessionAssumption
      <4> QED BY <4>1, <3>1, <2>2
    <3>2. CASE q # r
      BY <3>2, <1>5 DEF Depths
    <3> QED BY <3>1, <3>2
  <2>4. ASSUME NEW q \in Keys(G) \ {Root}
        PROVE  G.node[q].parent \in Keys(G) /\ f[q] = f[G.node[q].parent] + 1
    <3>1. CASE q = r
      <4>1. G.node[q].parent = p /\ p # r
        BY <3>1, <1>0, <1>5 DEF Key
      <4> QED BY <4>1, <3>1, <1>5, <2>2
    <3>2. CASE q # r
      <4>1. q \in Keys(H) \ {Root} /\ G.node[q] = H.node[q]
        BY <3>2, <1>5
      <4>2. H.node[q].parent \in Keys(H) /\ d[q] = d[H.node[q].parent] + 1
        BY <4>1 DEF Depths
      <4>3. H.node[q].parent # r
        BY <4>2, <1>0
      <4> QED BY <4>1, <4>2, <4>3, <3>2, <1>5
    <3> QED BY <3>1, <3>2
  <2> QED BY <2>2, <2>3, <2>4 DEF Depths
<1>15. Owned(G)
  <2>1. Owned(H)
    BY DEF Sound
  <2>2. ASSUME NEW q \in Keys(G), NEW c \in G.node[q].kids \cup PendingOf(G, q).add
        PROVE  G.node[c].parent = q
    <3>1. CASE q = r
      <4>1. G.node[q].kids = {} /\ PendingOf(G, q).add = {}
        BY <3>1, <1>0, <1>5, <1>8, <1>9 DEF Key
      <4> QED BY <4>1
    <3>2. CASE q # r /\ c = r
      <4>1. q \in Keys(H) /\ c \notin G.node[q].kids
        BY <3>2, <1>0, <1>5, <1>12
      <4>2. q = p
        BY <4>1, <3>2, <1>0, <1>8, <1>12
      <4> QED BY <4>2, <3>2, <1>5 DEF Key
    <3>3. CASE q # r /\ c # r
      <4>1. q \in Keys(H) /\ G.node[q].kids = H.node[q].kids
        BY <3>3, <1>5
      <4>2. c \in H.node[q].kids \cup PendingOf(H, q).add
        BY <4>1, <3>3, <1>8
      <4>3. H.node[c].parent = q /\ c \in Keys(H)
        BY <4>1, <4>2, <2>1, <1>12 DEF Owned
      <4> QED BY <4>3, <1>5
    <3> QED BY <3>1, <3>2, <3>3
  <2>3. ASSUME NEW e \in G.nk PROVE G.node[e.ref].parent = e.parent /\ G.node[e.ref].name = e.name
    <3>1. CASE e = e0
      BY <3>1, <1>5 DEF Key
    <3>2. CASE e \in H.nk
      BY <3>2, <2>1, <1>5, <1>11 DEF Owned
    <3> QED BY <3>1, <3>2, <1>10
  <2> QED BY <2>2, <2>3 DEF Owned
<1>16. Alive(G)
  <2>1. Alive(H) /\ Root \in Keys(H)
    BY <1>0 DEF Sound, Shaped
  <2>2. ASSUME NEW q \in Keys(G), Live(G, q)
        PROVE  /\ G.node[q].listed = TRUE
               /\ \A c \in G.node[q].kids : Live(G, c) \/ c \in PendingOf(G, q).del
               /\ \A c \in PendingOf(G, q).add : Live(G, c)
    <3>1. CASE q = r
      <4>1. G.node[q].kids = {} /\ PendingOf(G, q).add = {} /\ G.node[q].listed = TRUE
        BY <3>1, <1>0, <1>5, <1>8, <1>9 DEF Key
      <4> QED BY <4>1
    <3>2. CASE q # r
      <4>1. q \in Keys(H) /\ Live(H, q) /\ G.node[q] = H.node[q]
        BY <3>2, <2>2, <1>5, <1>6
      <4>2. PendingOf(G, q).del = PendingOf(H, q).del /\ PendingOf(G, q).add \subseteq PendingOf(H, q).add \cup {r}
        BY <1>8
      <4> QED BY <4>1, <4>2, <2>1, <1>6, <1>12 DEF Alive
    <3> QED BY <3>1, <3>2
  <2> QED BY <2>1, <2>2, <1>6 DEF Alive
<1>17. Sound(G)
  BY <1>13, <1>14, <1>15, <1>16 DEF Sound, Layered
<1>18. ASSUME Whole(H), Live(H, p) PROVE Whole(G)
  <2>1. ASSUME NEW q \in Keys(G), Live(G, q), NEW c \in G.node[q].kids PROVE Live(G, c)
    <3>1. CASE q = r
      BY <3>1, <1>5, <2>1 DEF Key
    <3>2. CASE q # r
      <4>1. q \in Keys(H) /\ Live(H, q) /\ c \in H.node[q].kids
        BY <3>2, <2>1, <1>5, <1>6
      <4>2. Live(H, c) /\ c \in Keys(H)
        BY <4>1, <1>18, <1>12 DEF Whole
      <4> QED BY <4>2, <1>6
    <3> QED BY <3>1, <3>2
  <2>2. ASSUME NEW q \in DOMAIN G.pend PROVE Live(G, q)
    <3>1. q \in Keys(H) /\ Live(H, q)
      BY <1>18, <1>7, <1>0 DEF Whole, Shaped
    <3> QED BY <3>1, <1>6
  <2> QED BY <2>1, <2>2 DEF Whole
<1>19. \A q \in Keys(H) : q # p => Virtual(G, q) = Virtual(H, q)
  BY <1>5, <1>8 DEF Virtual
<1>20. Virtual(G, p) = Virtual(H, p) \cup {r}
  <2>1. r \notin del
    BY <1>0, <1>2
  <2> QED BY <2>1, <1>5, <1>8 DEF Virtual
<1>21. Virtual(G, r) = {}
  BY <1>0, <1>5, <1>8, <1>9 DEF Virtual, Key
<1>22. \A q \in Keys(H) : Virtual(H, q) \subseteq Keys(H)
  BY <1>12 DEF Virtual
<1>23. Indexed(H) => Indexed(G)
  <2> SUFFICES ASSUME Indexed(H), NEW e \in G.nk, Live(G, e.parent)
               PROVE  Live(G, e.ref) /\ e.ref \in Virtual(G, e.parent)
    BY DEF Indexed
  <2>1. CASE e = e0
    BY <2>1, <1>6, <1>20
  <2>2. CASE e \in H.nk
    <3>1. e.parent \in Keys(H) /\ e.ref \in Keys(H)
      BY <2>2, <1>11
    <3>2. Live(H, e.ref) /\ e.ref \in Virtual(H, e.parent)
      BY <2>2, <3>1, <1>6 DEF Indexed
    <3> QED BY <3>1, <3>2, <1>6, <1>19, <1>20
  <2> QED BY <2>1, <2>2, <1>10
<1>24. Full(H) => Full(G)
  <2> SUFFICES ASSUME Full(H), NEW q \in Known(G), Live(G, q), NEW c \in Virtual(G, q)
               PROVE  [parent |-> q, name |-> G.node[c].name, ref |-> c] \in G.nk
    BY DEF Full
  <2>1. q \in Known(H) \cup {r}
    BY <1>10 DEF Known
  <2>2. q # r
    BY <1>21
  <2>3. q \in Known(H) /\ q \in Keys(H)
    BY <2>1, <2>2, <1>0, <1>11 DEF Known, Shaped
  <2>4. CASE c = r
    <3>1. q = p
      BY <2>3, <2>4, <1>0, <1>19, <1>22
    <3> QED BY <3>1, <2>4, <1>5, <1>10 DEF Key
  <2>5. CASE c # r
    <3>1. c \in Virtual(H, q) /\ Live(H, q)
      BY <2>3, <2>5, <1>6, <1>19, <1>20
    <3>2. [parent |-> q, name |-> H.node[c].name, ref |-> c] \in H.nk /\ c \in Keys(H)
      BY <3>1, <2>3, <1>22 DEF Full
    <3> QED BY <3>2, <1>5, <1>10
  <2> QED BY <2>4, <2>5
<1>25. NoDels(H) => NoDels(G)
  <2> SUFFICES ASSUME NoDels(H), NEW q \in DOMAIN G.pend PROVE G.pend[q].del = {}
    BY DEF NoDels
  <2>1. del = {}
    BY <1>0, PendingShape DEF NoDels, PendingOf
  <2> QED BY <2>1, <1>7 DEF NoDels
<1>26. Grows(H, G)
  BY <1>5 DEF Grows
<1>29. Leads(H) => Leads(G)
  <2> SUFFICES ASSUME Leads(H), NEW e \in G.nk, Live(G, e.parent)
               PROVE  Live(G, e.ref)
    BY DEF Leads
  <2>1. CASE e = e0
    BY <2>1, <1>6
  <2>2. CASE e \in H.nk
    BY <2>2, <1>6, <1>11 DEF Leads
  <2> QED BY <2>1, <2>2, <1>10
<1>27. CASE Live(H, p)
  <2>1. CreateKey(H, p, s) = G
    BY <1>1, <1>27 DEF Live
  <2>2. Edited(H, G)
    BY <1>4, <1>5, <1>17, <1>18, <1>23, <1>24, <1>25, <1>26, <1>27, <1>29 DEF Edited, Moved, Safe, Gentle
  <2>3. r \in Keys(G)
    BY <1>5
  <2> QED BY <2>1, <2>2, <2>3, <1>14, <1>27
<1>28. CASE ~Live(H, p)
  <2>1. CreateKey(H, p, s) = Failed(H)
    <3>1. H.node[p].live \in BOOLEAN
      BY <1>0 DEF Shaped
    <3> QED BY <3>1, <1>1, <1>28 DEF Live
  <2> QED BY <2>1, <1>28, FailedEdited
<1> QED BY <1>27, <1>28

\* EnsureKeyPath after k segments.
Reaches(H, x, k) ==
  /\ Edited(H, x.hive)
  /\ x.hive.ok = TRUE => /\ x.ref \in Keys(x.hive)
                         /\ \E d : Depths(x.hive, d) /\ d[x.ref] = k

\* One segment of EnsureKeyPath, then all of them.
LEMMA SegmentReaches ==
  ASSUME NEW H, NEW x, NEW k \in Nat, k < MaxDepth, NEW s \in Nat, Reaches(H, x, k)
  PROVE  Reaches(H, EnsureSegment(x, s), k + 1)
<1> DEFINE I == x.hive
           p == x.ref
<1>0. Edited(H, I) /\ Sound(I) /\ Shaped(I) /\ I.ok \in BOOLEAN
  BY DEF Reaches, Edited, Moved, Safe, Sound, Shaped
<1>1. CASE I.ok = FALSE
  BY <1>0, <1>1 DEF EnsureSegment, Reaches
<1>2. CASE I.ok = TRUE
  <2>1. p \in Keys(I)
    BY <1>2 DEF Reaches
  <2>2. PICK d : Depths(I, d) /\ d[p] = k
    BY <1>2 DEF Reaches
  <2>3. CASE GetNK(I, p, s) # {}
    <3> DEFINE r == CHOOSE q \in GetNK(I, p, s) : TRUE
    <3>1. r \in GetNK(I, p, s)
      BY <2>3
    <3>2. EnsureSegment(x, s) = [hive |-> I, ref |-> r]
      BY <1>2, <2>3 DEF EnsureSegment
    <3> HIDE DEF r
    <3>3. PICK e \in I.nk : e.parent = p /\ e.ref = r
      BY <3>1 DEF GetNK
    <3>4. r \in Keys(I) \ {Root}
      BY <3>3, <1>0 DEF Shaped
    <3>5. I.node[r].parent = p
      BY <3>3, <1>0 DEF Sound, Owned
    <3>6. d[r] = k + 1
      BY <3>4, <3>5, <2>2 DEF Depths
    <3> QED BY <3>2, <3>4, <3>6, <2>2, <1>0 DEF Reaches
  <2>4. CASE GetNK(I, p, s) = {}
    <3> DEFINE G == CreateKey(I, p, s)
    <3>1. EnsureSegment(x, s) = [hive |-> G, ref |-> I.next]
      BY <1>2, <2>4 DEF EnsureSegment
    <3>2. /\ Edited(I, G)
          /\ Live(I, p) => \E f : Depths(G, f) /\ f[I.next] = d[p] + 1 /\ I.next \in Keys(G)
          /\ ~Live(I, p) => G = Failed(I)
      BY <1>0, <2>1, <2>2, <2>4, CreateEdited
    <3>3. Edited(H, G)
      BY <1>0, <3>2, EditedTwice
    <3>4. ~Live(I, p) => G.ok = FALSE
      <4>1. DOMAIN I = HiveFields
        BY <1>0 DEF Shaped
      <4> QED BY <4>1, <3>2 DEF Failed, HiveFields
    <3> HIDE DEF G
    <3> QED BY <3>1, <3>2, <3>3, <3>4, <2>2 DEF Reaches
  <2> QED BY <2>3, <2>4
<1> QED BY <1>0, <1>1, <1>2

LEMMA EnsureReaches ==
  ASSUME NEW H, Sound(H), NEW path \in Seq(Nat), Len(path) <= MaxDepth
  PROVE  Reaches(H, EnsureKeyPath(H, path), Len(path))
<1>1. PICK g : Ensures(H, path, Len(path), g) /\ EnsureKeyPath(H, path) = g[Len(path)]
  BY EnsuresOf
<1> DEFINE B == {k \in 0..Len(path) : ~Reaches(H, g[k], k)}
<1>2. B = {}
  <2> SUFFICES ASSUME B # {} PROVE FALSE
    OBVIOUS
  <2>0. B \subseteq Nat
    OBVIOUS
  <2>1. PICK k \in B : \A l \in B : k <= l
    BY <2>0, Smallest
  <2>2. g[k] = IF k = 0 THEN [hive |-> H, ref |-> Root] ELSE EnsureSegment(g[k - 1], path[k])
    BY <1>1, <2>1 DEF Ensures
  <2>3. k # 0
    <3>1. PICK d : Depths(H, d)
      BY DEF Sound, Layered
    <3>2. d[Root] = 0 /\ Root \in Keys(H)
      BY <3>1 DEF Depths, Sound, Shaped
    <3>3. Reaches(H, [hive |-> H, ref |-> Root], 0)
      BY <3>1, <3>2, SameEdited DEF Reaches
    <3> QED BY <2>1, <2>2, <3>3
  <2>4. Reaches(H, g[k - 1], k - 1)
    BY <2>1, <2>3
  <2>5. k - 1 \in Nat /\ k - 1 < MaxDepth /\ path[k] \in Nat /\ k \in Nat
    <3>1. MaxDepth \in Nat /\ Len(path) \in Nat /\ k \in 1..Len(path)
      BY <2>1, <2>3, SessionAssumption
    <3> QED BY <3>1
  <2>6. Reaches(H, EnsureSegment(g[k - 1], path[k]), (k - 1) + 1)
    BY <2>4, <2>5, SegmentReaches
  <2> QED BY <2>1, <2>2, <2>3, <2>5, <2>6
<1> QED BY <1>1, <1>2

LEMMA EnsureEdited ==
  ASSUME NEW H, Sound(H), NEW path \in Seq(Nat), Len(path) <= MaxDepth
  PROVE  /\ Edited(H, EnsureKeyPath(H, path).hive) /\ Sound(EnsureKeyPath(H, path).hive)
         /\ EnsureKeyPath(H, path).hive.ok = TRUE => EnsureKeyPath(H, path).ref \in Keys(EnsureKeyPath(H, path).hive)
BY EnsureReaches DEF Reaches, Edited, Moved, Safe

\* The strategy's SetValue and DeleteValue, which create the path.
LEMMA SetValueEdited ==
  ASSUME NEW H, Sound(H), NEW path \in Seq(Nat), Len(path) <= MaxDepth, NEW data
  PROVE  Edited(H, SetValue(H, path, data)) /\ Edited(H, ClearValue(H, path))
<1> DEFINE e == EnsureKeyPath(H, path)
<1>1. Edited(H, e.hive) /\ Sound(e.hive) /\ (e.hive.ok = TRUE => e.ref \in Keys(e.hive))
  BY EnsureEdited
<1>2. e.hive.ok \in BOOLEAN
  BY <1>1 DEF Sound, Shaped
<1>3. /\ SetValue(H, path, data) = IF e.hive.ok THEN UpsertValue(e.hive, e.ref, data) ELSE e.hive
      /\ ClearValue(H, path) = IF e.hive.ok THEN DeleteValue(e.hive, e.ref) ELSE e.hive
  BY DEF SetValue, ClearValue
<1> HIDE DEF e
<1>4. CASE e.hive.ok = TRUE
  <2>1. Edited(e.hive, UpsertValue(e.hive, e.ref, data)) /\ Edited(e.hive, DeleteValue(e.hive, e.ref))
    BY <1>1, <1>4, UpsertEdited, DeleteValueEdited
  <2> QED BY <1>1, <1>3, <1>4, <2>1, EditedTwice
<1>5. CASE e.hive.ok = FALSE
  BY <1>1, <1>3, <1>5
<1> QED BY <1>2, <1>4, <1>5
-----------------------------------------------------------------------------
(***************************************************************************)
(* What a closure is: r, and what is named from within it.                 *)
(***************************************************************************)
LEMMA LevelsGrow ==
  ASSUME NEW K, NEW r, NEW m \in Nat, NEW g, Levels(K, r, m, g)
  PROVE  \A k \in 0..m : \A j \in 0..k : g[j] \subseteq g[k]
<1> DEFINE B == {k \in 0..m : ~ \A j \in 0..k : g[j] \subseteq g[k]}
<1> SUFFICES ASSUME B # {} PROVE FALSE
  OBVIOUS
<1>0. B \subseteq Nat
  OBVIOUS
<1>1. PICK k \in B : \A l \in B : k <= l
  BY <1>0, Smallest
<1>2. PICK j \in 0..k : ~(g[j] \subseteq g[k])
  BY <1>1
<1>3. j \in 0..(k - 1) /\ k - 1 \in 0..m /\ k # 0
  <2>1. j # k /\ j \in Nat /\ k \in Nat /\ j <= k /\ k <= m
    BY <1>1, <1>2
  <2> QED BY <2>1
<1>4. g[j] \subseteq g[k - 1]
  BY <1>1, <1>3
<1>5. g[k - 1] \subseteq g[k]
  <2>1. g[k] = g[k - 1] \cup UNION {K[c] : c \in g[k - 1]}
    BY <1>1, <1>3 DEF Levels
  <2> QED BY <2>1
<1> QED BY <1>2, <1>4, <1>5

\* A closure is the least set that is closed.
LEMMA ClosureLeast ==
  ASSUME NEW K, NEW r, NEW T, r \in T, \A c \in T : K[c] \subseteq T
  PROVE  Closure(K, r) \subseteq T
<1>1. PICK g : Levels(K, r, MaxDepth, g) /\ Closure(K, r) = g[MaxDepth]
  BY LevelsOf
<1>2. MaxDepth \in Nat
  BY SessionAssumption
<1> DEFINE B == {k \in 0..MaxDepth : ~(g[k] \subseteq T)}
<1>3. B = {}
  <2> SUFFICES ASSUME B # {} PROVE FALSE
    OBVIOUS
  <2>0. B \subseteq Nat
    OBVIOUS
  <2>1. PICK k \in B : \A l \in B : k <= l
    BY <2>0, Smallest
  <2>2. g[k] = IF k = 0 THEN {r} ELSE g[k - 1] \cup UNION {K[c] : c \in g[k - 1]}
    BY <1>1, <2>1 DEF Levels
  <2>3. k # 0
    BY <2>1, <2>2
  <2>4. g[k - 1] \subseteq T
    <3>1. k - 1 \in 0..MaxDepth /\ ~(k <= k - 1)
      BY <2>1, <2>3, <1>2
    <3> QED BY <3>1, <2>1
  <2> QED BY <2>1, <2>2, <2>3, <2>4
<1> QED BY <1>1, <1>2, <1>3

\* What is in a closure is its root or is named from within it.
LEMMA ClosureFrom ==
  ASSUME NEW K, NEW r
  PROVE  /\ r \in Closure(K, r)
         /\ \A c \in Closure(K, r) : c # r => \E p \in Closure(K, r) : c \in K[p]
<1>1. PICK g : Levels(K, r, MaxDepth, g) /\ Closure(K, r) = g[MaxDepth]
  BY LevelsOf
<1>2. MaxDepth \in Nat
  BY SessionAssumption
<1>3. \A k \in 0..MaxDepth : g[k] \subseteq Closure(K, r)
  <2>1. \A k \in 0..MaxDepth : k \in 0..MaxDepth /\ MaxDepth \in 0..MaxDepth
    BY <1>2
  <2> QED BY <2>1, <1>1, <1>2, LevelsGrow
<1>4. r \in Closure(K, r)
  <2>1. g[0] = {r} /\ 0 \in 0..MaxDepth
    BY <1>1, <1>2 DEF Levels
  <2> QED BY <2>1, <1>3
<1>5. ASSUME NEW c \in Closure(K, r), c # r
      PROVE  \E p \in Closure(K, r) : c \in K[p]
  <2> DEFINE B == {k \in 0..MaxDepth : c \in g[k]}
  <2>0. B \subseteq Nat /\ MaxDepth \in B
    BY <1>1, <1>2
  <2>1. PICK k \in B : \A l \in B : k <= l
    BY <2>0, Smallest
  <2>2. g[k] = IF k = 0 THEN {r} ELSE g[k - 1] \cup UNION {K[q] : q \in g[k - 1]}
    BY <1>1, <2>1 DEF Levels
  <2>3. k # 0
    BY <2>1, <2>2, <1>5
  <2>4. c \notin g[k - 1] /\ k - 1 \in 0..MaxDepth
    <3>1. k - 1 \in 0..MaxDepth /\ ~(k <= k - 1)
      BY <2>1, <2>3, <1>2
    <3> QED BY <3>1, <2>1
  <2>5. PICK p \in g[k - 1] : c \in K[p]
    BY <2>1, <2>2, <2>3, <2>4
  <2> QED BY <2>4, <2>5, <1>3
<1> QED BY <1>4, <1>5

\* MaxDepth levels are enough where every step leads one level down.
LEMMA ClosureClosed ==
  ASSUME NEW K, NEW D, NEW r \in D, NEW d \in [D -> Nat], \A p \in D : d[p] <= MaxDepth,
         \A p \in D : \A c \in K[p] : c \in D /\ d[c] = d[p] + 1
  PROVE  \A p \in Closure(K, r) : K[p] \subseteq Closure(K, r)
<1>1. PICK g : Levels(K, r, MaxDepth, g) /\ Closure(K, r) = g[MaxDepth]
  BY LevelsOf
<1>2. MaxDepth \in Nat /\ d[r] \in Nat
  BY SessionAssumption
<1> DEFINE Fits(k, c) == c \in D /\ \E j \in 0..k : d[c] = d[r] + j /\ c \in g[j]
           B == {k \in 0..MaxDepth : ~ \A c \in g[k] : Fits(k, c)}
<1>3. B = {}
  <2> SUFFICES ASSUME B # {} PROVE FALSE
    OBVIOUS
  <2>0. B \subseteq Nat
    OBVIOUS
  <2>1. PICK k \in B : \A l \in B : k <= l
    BY <2>0, Smallest
  <2>2. g[k] = IF k = 0 THEN {r} ELSE g[k - 1] \cup UNION {K[c] : c \in g[k - 1]}
    BY <1>1, <2>1 DEF Levels
  <2>3. k # 0
    <3>1. Fits(0, r) /\ g[0] = {r}
      <4>1. g[0] = {r}
        BY <1>1, <1>2 DEF Levels
      <4>2. 0 \in 0..0 /\ d[r] = d[r] + 0
        BY <1>2
      <4> QED BY <4>1, <4>2
    <3> QED BY <3>1, <2>1
  <2>4. k - 1 \in 0..MaxDepth /\ k \in Nat /\ k - 1 \notin B
    <3>1. k - 1 \in 0..MaxDepth /\ k \in Nat /\ ~(k <= k - 1)
      BY <2>1, <2>3, <1>2
    <3> QED BY <3>1, <2>1
  <2>5. \A c \in g[k - 1] : Fits(k - 1, c)
    BY <2>4
  <2>6. \A c : Fits(k - 1, c) => Fits(k, c)
    <3>1. 0..(k - 1) \subseteq 0..k
      BY <2>4
    <3> QED BY <3>1
  <2>7. ASSUME NEW c \in g[k] PROVE Fits(k, c)
    <3>1. CASE c \in g[k - 1]
      BY <3>1, <2>5, <2>6
    <3>2. CASE c \notin g[k - 1]
      <4>1. PICK p \in g[k - 1] : c \in K[p]
        BY <3>2, <2>2, <2>3
      <4>2. PICK j \in 0..(k - 1) : d[p] = d[r] + j /\ p \in g[j] /\ p \in D
        BY <4>1, <2>5
      <4>3. c \in D /\ d[c] = d[p] + 1
        BY <4>1, <4>2
      <4>4. j + 1 \in 0..k /\ j + 1 \in 0..MaxDepth /\ j + 1 # 0 /\ (j + 1) - 1 = j /\ d[c] = d[r] + (j + 1)
        <5>1. j \in Nat /\ j <= k - 1 /\ k - 1 <= MaxDepth /\ k \in Nat
          BY <4>2, <2>4
        <5> QED BY <5>1, <4>2, <4>3, <1>2
      <4>5. g[j + 1] = g[j] \cup UNION {K[q] : q \in g[j]}
        BY <4>4, <1>1 DEF Levels
      <4> QED BY <4>1, <4>2, <4>3, <4>4, <4>5
    <3> QED BY <3>1, <3>2
  <2> QED BY <2>1, <2>7
<1>4. ASSUME NEW p \in Closure(K, r), NEW c \in K[p]
      PROVE  c \in Closure(K, r)
  <2>1. PICK j \in 0..MaxDepth : d[p] = d[r] + j /\ p \in g[j] /\ p \in D
    <3>1. MaxDepth \in 0..MaxDepth /\ p \in g[MaxDepth]
      BY <1>1, <1>2
    <3>2. Fits(MaxDepth, p)
      BY <3>1, <1>3
    <3> QED BY <3>2
  <2>2. c \in D /\ d[c] = d[p] + 1 /\ d[c] <= MaxDepth
    BY <2>1
  <2>3. j + 1 \in 0..MaxDepth /\ j + 1 # 0 /\ (j + 1) - 1 = j
    <3>1. j \in Nat /\ d[r] + j + 1 <= MaxDepth
      BY <2>1, <2>2, <1>2
    <3> QED BY <3>1, <1>2
  <2>4. g[j + 1] = g[j] \cup UNION {K[q] : q \in g[j]}
    BY <2>3, <1>1 DEF Levels
  <2>5. c \in g[j + 1]
    BY <2>1, <2>4
  <2>6. g[j + 1] \subseteq g[MaxDepth]
    <3>1. MaxDepth \in 0..MaxDepth
      BY <1>2
    <3> QED BY <3>1, <2>3, <1>1, <1>2, LevelsGrow
  <2> QED BY <2>5, <2>6, <1>1
<1> QED BY <1>4

\* A closure over children of a Sound hive.
LEMMA BelowFacts ==
  ASSUME NEW H, Sound(H), NEW K, NEW r \in Keys(H),
         \A p \in Keys(H) : K[p] \subseteq H.node[p].kids
  PROVE  /\ Closure(K, r) \subseteq Keys(H) /\ r \in Closure(K, r)
         /\ \A p \in Closure(K, r) : K[p] \subseteq Closure(K, r)
         /\ \A c \in Closure(K, r) : c # r =>
              /\ c # Root /\ H.node[c].parent \in Closure(K, r) /\ c \in K[H.node[c].parent]
<1>1. PICK d : Depths(H, d)
  BY DEF Sound, Layered
<1>2. \A p \in Keys(H) : \A c \in H.node[p].kids : c \in Keys(H) \ {Root} /\ H.node[c].parent = p
  BY DEF Sound, Shaped, Owned
<1>3. \A p \in Keys(H) : \A c \in K[p] : c \in Keys(H) \ {Root} /\ H.node[c].parent = p
  BY <1>2
<1>4. d \in [Keys(H) -> Nat] /\ \A p \in Keys(H) : d[p] <= MaxDepth
  BY <1>1 DEF Depths
<1>5. \A p \in Keys(H) : \A c \in K[p] : c \in Keys(H) /\ d[c] = d[p] + 1
  BY <1>1, <1>3 DEF Depths
<1>6. Closure(K, r) \subseteq Keys(H)
  BY <1>5, ClosureLeast
<1>7. r \in Closure(K, r) /\ \A c \in Closure(K, r) : c # r => \E p \in Closure(K, r) : c \in K[p]
  BY ClosureFrom
<1>8. \A p \in Closure(K, r) : K[p] \subseteq Closure(K, r)
  BY <1>4, <1>5, ClosureClosed
<1> QED BY <1>3, <1>6, <1>7, <1>8

\* What deleteSubkeys goes through.
LEMMA SubtreeFacts ==
  ASSUME NEW H, Sound(H), NEW r \in Keys(H)
  PROVE  /\ Subtree(H, r) \subseteq Keys(H) /\ r \in Subtree(H, r)
         /\ \A p \in Subtree(H, r) : LiveKids(H, p) \subseteq Subtree(H, r)
         /\ \A c \in Subtree(H, r) : c # r =>
              /\ c # Root /\ H.node[c].parent \in Subtree(H, r) /\ c \in LiveKids(H, H.node[c].parent)
<1> DEFINE K == [c \in Keys(H) |-> LiveKids(H, c)]
<1>1. \A p \in Keys(H) : K[p] = LiveKids(H, p) /\ K[p] \subseteq H.node[p].kids
  BY DEF LiveKids
<1>2. Subtree(H, r) = Closure(K, r)
  BY DEF Subtree, Keys
<1> HIDE DEF K
<1>3. /\ Closure(K, r) \subseteq Keys(H) /\ r \in Closure(K, r)
      /\ \A p \in Closure(K, r) : K[p] \subseteq Closure(K, r)
      /\ \A c \in Closure(K, r) : c # r =>
           /\ c # Root /\ H.node[c].parent \in Closure(K, r) /\ c \in K[H.node[c].parent]
  BY <1>1, BelowFacts
<1> QED BY <1>1, <1>2, <1>3

\* What IndexBuilder goes through.
LEMMA ReachableFacts ==
  ASSUME NEW H, Sound(H), Whole(H)
  PROVE  /\ Reachable(H) \subseteq Keys(H) /\ Root \in Reachable(H)
         /\ \A p \in Reachable(H) : H.node[p].kids \subseteq Reachable(H)
         /\ \A c \in Reachable(H) : Live(H, c)
         /\ \A c \in Reachable(H) : c # Root => c \in H.node[H.node[c].parent].kids
<1> DEFINE K == [c \in Keys(H) |-> IF H.node[c].live THEN H.node[c].kids ELSE {}]
           L == {c \in Keys(H) : Live(H, c)}
<1>0. Root \in Keys(H) /\ Live(H, Root) /\ \A p \in Keys(H) : H.node[p].live \in BOOLEAN /\ H.node[p].kids \subseteq Keys(H)
  BY DEF Sound, Shaped, Alive
<1>1. \A p \in Keys(H) : K[p] \subseteq H.node[p].kids /\ (Live(H, p) => K[p] = H.node[p].kids)
  BY <1>0 DEF Live
<1>2. Reachable(H) = Closure(K, Root)
  BY DEF Reachable, Keys
<1> HIDE DEF K
<1>3. /\ Closure(K, Root) \subseteq Keys(H) /\ Root \in Closure(K, Root)
      /\ \A p \in Closure(K, Root) : K[p] \subseteq Closure(K, Root)
      /\ \A c \in Closure(K, Root) : c # Root =>
           /\ c # Root /\ H.node[c].parent \in Closure(K, Root) /\ c \in K[H.node[c].parent]
  BY <1>0, <1>1, BelowFacts
<1>4. Closure(K, Root) \subseteq L
  <2>1. Root \in L
    BY <1>0
  <2>2. \A c \in L : K[c] \subseteq L
    BY <1>0, <1>1 DEF Whole
  <2> HIDE DEF L
  <2> QED BY <2>1, <2>2, ClosureLeast
<1> QED BY <1>1, <1>2, <1>3, <1>4

\* A whole hive can be indexed.
LEMMA WholeBuilds ==
  ASSUME NEW H, Sound(H), Whole(H)
  PROVE  Builds(H)
BY ReachableFacts DEF Builds, Sound, Alive, Live
-----------------------------------------------------------------------------
(***************************************************************************)
(* Writing the lists of the allocated keys S, nothing pending for them     *)
(* any more.                                                               *)
(***************************************************************************)
Writes(H, G, S) ==
  /\ DOMAIN G = HiveFields /\ G.next = H.next /\ G.ok = H.ok /\ G.frees = H.frees /\ G.nk = H.nk
  /\ Keys(G) = Keys(H) /\ S \subseteq Keys(H) /\ \A p \in S : Live(H, p)
  /\ \A r \in Keys(H) :
       /\ DOMAIN G.node[r] = KeyFields
       /\ G.node[r].parent = H.node[r].parent /\ G.node[r].name = H.node[r].name
       /\ G.node[r].live = H.node[r].live /\ G.node[r].listed = H.node[r].listed
       /\ G.node[r].kids = IF r \in S THEN Virtual(H, r) ELSE H.node[r].kids
  /\ DOMAIN G.pend = DOMAIN H.pend \ S /\ \A q \in DOMAIN G.pend : G.pend[q] = H.pend[q]

\* Written lists name what was listed or pending, without what was removed.
LEMMA WrittenMoved ==
  ASSUME NEW H, Sound(H), NEW G, NEW S, Writes(H, G, S)
  PROVE  /\ Moved(H, G)
         /\ Whole(H) \/ DOMAIN H.pend \subseteq S => Whole(G)
         /\ NoDels(H) => Edited(H, G)
<1>0. /\ Shaped(H) /\ Owned(H) /\ Alive(H) /\ Keys(G) = Keys(H) /\ G.nk = H.nk /\ S \subseteq Keys(H)
      /\ Root \in Keys(H) /\ DOMAIN H.pend \subseteq Keys(H)
  BY DEF Sound, Shaped, Writes
<1>1. \A r \in Keys(H) : Live(G, r) <=> Live(H, r)
  BY DEF Writes, Live
<1>2. \A p : PendingOf(G, p) = IF p \in S THEN NothingPending ELSE PendingOf(H, p)
  BY DEF Writes, PendingOf
<1>3. \A p \in Keys(H) : /\ PendingOf(H, p).add \subseteq Keys(H) \ {Root} /\ PendingOf(H, p).del \subseteq Keys(H)
                         /\ H.node[p].kids \subseteq Keys(H) \ {Root}
  BY <1>0, PendingShape DEF Shaped
<1>4. \A p \in Keys(H) : Virtual(H, p) \subseteq Keys(H) \ {Root} /\ Virtual(H, p) \subseteq H.node[p].kids \cup PendingOf(H, p).add
  BY <1>3 DEF Virtual
<1>5. \A e \in H.nk : e.parent \in Keys(H) /\ e.ref \in Keys(H)
  BY <1>0 DEF Shaped
<1>6. \A p \in Keys(H) : G.node[p].kids = IF p \in S THEN Virtual(H, p) ELSE H.node[p].kids
  BY DEF Writes
<1>7. Shaped(G)
  <2>1. \A r \in Keys(G) : G.node[r].kids \subseteq Keys(G) \ {Root}
    BY <1>0, <1>3, <1>4, <1>6
  <2>2. \A r \in Keys(G) : /\ DOMAIN G.node[r] = KeyFields
                           /\ G.node[r].live \in BOOLEAN /\ G.node[r].listed \in BOOLEAN /\ G.node[r].name \in Nat
    BY <1>0 DEF Shaped, Writes
  <2>3. \A p \in DOMAIN G.pend : G.pend[p] \in [add : SUBSET (Keys(G) \ {Root}), del : SUBSET Keys(G)]
    BY <1>0 DEF Shaped, Writes
  <2>4. /\ DOMAIN G = HiveFields /\ G.next \in Nat /\ G.frees \in BOOLEAN /\ G.ok \in BOOLEAN
        /\ Root \in Keys(G) /\ Keys(G) \subseteq 0..(G.next - 1)
        /\ G.nk \subseteq [parent : Keys(G), name : Nat, ref : Keys(G) \ {Root}]
    BY <1>0 DEF Shaped, Writes
  <2>5. DOMAIN G.pend \subseteq Keys(G)
    BY <1>0 DEF Writes
  <2> QED BY <2>1, <2>2, <2>3, <2>4, <2>5 DEF Shaped
<1>8. Layered(G)
  <2>1. PICK d : Depths(H, d)
    BY DEF Sound, Layered
  <2>2. Depths(G, d)
    BY <2>1, <1>0 DEF Depths, Writes
  <2> QED BY <2>2 DEF Layered
<1>9. Owned(G)
  <2>1. ASSUME NEW p \in Keys(G), NEW c \in G.node[p].kids \cup PendingOf(G, p).add
        PROVE  G.node[c].parent = p
    <3>1. p \in Keys(H)
      BY <1>0
    <3>2. c \in H.node[p].kids \cup PendingOf(H, p).add
      BY <3>1, <1>2, <1>4, <1>6 DEF NothingPending
    <3>3. c \in Keys(H) /\ H.node[c].parent = p
      BY <3>1, <3>2, <1>0, <1>3 DEF Owned
    <3> QED BY <3>3 DEF Writes
  <2>2. \A e \in G.nk : G.node[e.ref].parent = e.parent /\ G.node[e.ref].name = e.name
    BY <1>0, <1>5 DEF Owned, Writes
  <2> QED BY <2>1, <2>2 DEF Owned
<1>10. ASSUME NEW p \in S, NEW c \in G.node[p].kids PROVE c \in Keys(H) /\ Live(H, c)
  <2>1. p \in Keys(H) /\ Live(H, p) /\ c \in Virtual(H, p)
    BY <1>0, <1>6, <1>10 DEF Writes
  <2>2. /\ \A b \in H.node[p].kids : Live(H, b) \/ b \in PendingOf(H, p).del
        /\ \A b \in PendingOf(H, p).add : Live(H, b)
    BY <2>1, <1>0 DEF Alive
  <2> QED BY <2>1, <2>2, <1>4 DEF Virtual
<1>11. Alive(G)
  <2>1. Live(G, Root)
    BY <1>0, <1>1 DEF Alive
  <2>2. ASSUME NEW p \in Keys(G), Live(G, p)
        PROVE  /\ G.node[p].listed = TRUE
               /\ \A c \in G.node[p].kids : Live(G, c) \/ c \in PendingOf(G, p).del
               /\ \A c \in PendingOf(G, p).add : Live(G, c)
    <3>1. p \in Keys(H) /\ Live(H, p) /\ G.node[p].listed = H.node[p].listed
      BY <2>2, <1>0, <1>1 DEF Writes
    <3>2. CASE p \in S
      <4>1. \A c \in G.node[p].kids : Live(G, c)
        BY <3>2, <1>1, <1>10
      <4>2. PendingOf(G, p).add = {}
        BY <3>2, <1>2 DEF NothingPending
      <4> QED BY <4>1, <4>2, <3>1, <1>0 DEF Alive
    <3>3. CASE p \notin S
      <4>1. PendingOf(G, p) = PendingOf(H, p) /\ G.node[p].kids = H.node[p].kids
        BY <3>1, <3>3, <1>2, <1>6
      <4> QED BY <4>1, <3>1, <1>0, <1>1, <1>3 DEF Alive
    <3> QED BY <3>2, <3>3
  <2> QED BY <2>1, <2>2 DEF Alive
<1>12. Sound(G)
  BY <1>7, <1>8, <1>9, <1>11 DEF Sound
<1>13. ASSUME Whole(H) \/ DOMAIN H.pend \subseteq S PROVE Whole(G)
  <2>1. ASSUME NEW p \in Keys(G), Live(G, p), NEW c \in G.node[p].kids PROVE Live(G, c)
    <3>1. p \in Keys(H) /\ Live(H, p)
      BY <2>1, <1>0, <1>1
    <3>2. CASE p \in S
      BY <3>2, <2>1, <1>1, <1>10
    <3>3. CASE p \notin S
      <4>1. c \in H.node[p].kids /\ c \in Keys(H)
        BY <3>1, <3>3, <2>1, <1>3, <1>6
      <4>2. CASE Whole(H)
        BY <4>1, <4>2, <3>1, <1>1 DEF Whole
      <4>3. CASE DOMAIN H.pend \subseteq S
        <5>1. PendingOf(H, p).del = {}
          BY <4>3, <3>3, <1>0, PendingShape
        <5> QED BY <5>1, <4>1, <3>1, <1>0, <1>1 DEF Alive
      <4> QED BY <4>2, <4>3, <1>13
    <3> QED BY <3>2, <3>3
  <2>2. ASSUME NEW p \in DOMAIN G.pend PROVE Live(G, p)
    <3>1. p \in DOMAIN H.pend /\ p \notin S /\ p \in Keys(H)
      BY <1>0 DEF Writes
    <3>2. Whole(H)
      BY <3>1, <1>13
    <3> QED BY <3>1, <3>2, <1>1 DEF Whole
  <2> QED BY <2>1, <2>2 DEF Whole
<1>14. \A p \in Keys(H) : Virtual(G, p) = Virtual(H, p)
  <2> SUFFICES ASSUME NEW p \in Keys(H) PROVE Virtual(G, p) = Virtual(H, p)
    OBVIOUS
  <2>1. CASE p \in S
    <3>1. G.node[p].kids = Virtual(H, p)
      BY <2>1, <1>6
    <3>2. PendingOf(G, p).add = {} /\ PendingOf(G, p).del = {}
      BY <2>1, <1>2 DEF NothingPending
    <3>3. Virtual(G, p) = (G.node[p].kids \cup {}) \ {}
      BY <3>2 DEF Virtual
    <3> QED BY <3>1, <3>3
  <2>2. CASE p \notin S
    BY <2>2, <1>2, <1>6 DEF Virtual
  <2> QED BY <2>1, <2>2
<1>15. Indexed(H) => Indexed(G)
  BY <1>0, <1>1, <1>5, <1>14 DEF Indexed
<1>16. Full(H) => Full(G)
  <2>1. Known(G) = Known(H) /\ Known(H) \subseteq Keys(H)
    BY <1>0, <1>5 DEF Known
  <2>2. \A c \in Keys(H) : G.node[c].name = H.node[c].name
    BY DEF Writes
  <2> QED BY <2>1, <2>2, <1>0, <1>1, <1>4, <1>14 DEF Full
<1>17. Leads(H) => Leads(G)
  BY <1>0, <1>1, <1>5 DEF Leads
<1>18. Moved(H, G)
  <2>1. G.frees = H.frees
    BY DEF Writes
  <2> QED BY <2>1, <1>0, <1>12, <1>13, <1>15, <1>16, <1>17 DEF Moved, Safe
<1>19. ASSUME NoDels(H) PROVE Edited(H, G)
  <2>1. \A p : PendingOf(H, p).del = {}
    BY <1>0, <1>19, PendingShape DEF NoDels, PendingOf
  <2>2. \A r \in Keys(H) : H.node[r].kids \subseteq G.node[r].kids
    BY <2>1, <1>6 DEF Virtual
  <2>3. Grows(H, G)
    BY <2>2, <1>0 DEF Grows, Writes
  <2>4. NoDels(G)
    BY <1>19 DEF NoDels, Writes
  <2> QED BY <2>3, <2>4, <1>13, <1>18 DEF Edited, Gentle
<1> QED BY <1>13, <1>18, <1>19

LEMMA FlushWrites ==
  ASSUME NEW H, Sound(H), NEW p, PendingOf(H, p) # NothingPending, Live(H, p)
  PROVE  Writes(H, FlushParent(H, p), {p}) /\ p \in Keys(H)
<1>0. DOMAIN H = HiveFields /\ Shaped(H) /\ \A q \in Keys(H) : DOMAIN H.node[q] = KeyFields
  BY DEF Sound, Shaped
<1>1. p \in DOMAIN H.pend /\ p \in Keys(H)
  <2>1. p \in DOMAIN H.pend
    BY DEF PendingOf
  <2> QED BY <2>1, <1>0 DEF Shaped
<1> DEFINE kids == Virtual(H, p)
           pend == Unpend(H, p)
           G == [H EXCEPT !.node[p].kids = kids, !.node[p].listed = TRUE, !.pend = pend]
<1>2. FlushParent(H, p) = G
  <2>1. H.node[p].live
    BY DEF Live
  <2> QED BY <2>1 DEF FlushParent, Virtual
<1>3. DOMAIN pend = DOMAIN H.pend \ {p} /\ \A q \in DOMAIN pend : pend[q] = H.pend[q]
  BY DEF Unpend
<1> HIDE DEF kids, pend
<1>4. /\ DOMAIN G = HiveFields /\ G.next = H.next /\ G.ok = H.ok /\ G.frees = H.frees /\ G.nk = H.nk /\ G.pend = pend
      /\ G.node = [[H.node EXCEPT ![p].kids = kids] EXCEPT ![p].listed = TRUE]
  BY <1>0 DEF HiveFields
<1> HIDE DEF G
<1>5. Keys(G) = Keys(H)
  BY <1>4 DEF Keys
<1>6. H.node[p].listed = TRUE
  BY <1>1 DEF Sound, Alive
<1>7. ASSUME NEW r \in Keys(H)
      PROVE  /\ DOMAIN G.node[r] = KeyFields
             /\ G.node[r].parent = H.node[r].parent /\ G.node[r].name = H.node[r].name
             /\ G.node[r].live = H.node[r].live /\ G.node[r].listed = H.node[r].listed
             /\ G.node[r].kids = IF r \in {p} THEN kids ELSE H.node[r].kids
  <2>1. CASE r = p
    <3>1. G.node[r] = [[H.node[p] EXCEPT !.kids = kids] EXCEPT !.listed = TRUE]
      BY <2>1, <1>4 DEF Keys
    <3> QED BY <3>1, <2>1, <1>0, <1>6 DEF KeyFields
  <2>2. CASE r # p
    <3>1. G.node[r] = H.node[r]
      BY <2>2, <1>4 DEF Keys
    <3> QED BY <3>1, <2>2, <1>0
  <2> QED BY <2>1, <2>2
<1>8. \A r \in {p} : Live(H, r) /\ Virtual(H, r) = kids
  BY DEF kids
<1>9. \A r \in Keys(H) : G.node[r].kids = IF r \in {p} THEN Virtual(H, r) ELSE H.node[r].kids
  BY <1>7, <1>8
<1> QED BY <1>1, <1>2, <1>3, <1>4, <1>5, <1>7, <1>8, <1>9 DEF Writes

\* flushDeferredParent: an error, nothing, or the list is written.
LEMMA FlushCases ==
  ASSUME NEW H, Sound(H), NEW p
  PROVE  \/ FlushParent(H, p) = H /\ PendingOf(H, p) = NothingPending
         \/ FlushParent(H, p) = Failed(H)
         \/ Writes(H, FlushParent(H, p), {p})
<1>1. CASE PendingOf(H, p) = NothingPending
  BY <1>1 DEF FlushParent
<1>2. CASE PendingOf(H, p) # NothingPending /\ Live(H, p)
  BY <1>2, FlushWrites
<1>3. CASE PendingOf(H, p) # NothingPending /\ ~Live(H, p)
  <2>1. p \in Keys(H)
    BY <1>3 DEF PendingOf, Sound, Shaped
  <2>2. H.node[p].live = FALSE
    BY <2>1, <1>3 DEF Sound, Shaped, Live
  <2> QED BY <1>3, <2>2 DEF FlushParent
<1> QED BY <1>1, <1>2, <1>3

LEMMA FlushMoved ==
  ASSUME NEW H, Sound(H), NEW p, NEW F, F = FlushParent(H, p)
  PROVE  /\ Moved(H, F) /\ Sound(F) /\ Keys(F) = Keys(H) /\ F.nk = H.nk
         /\ \A r \in Keys(H) : F.node[r].parent = H.node[r].parent /\ (Live(F, r) <=> Live(H, r))
         /\ F.ok = TRUE => PendingOf(F, p) = NothingPending
         /\ \A q : PendingOf(H, q) = NothingPending => PendingOf(F, q) = NothingPending
         /\ H.ok = FALSE => F.ok = FALSE
<1>0. DOMAIN H = HiveFields
  BY DEF Sound, Shaped
<1>1. CASE F = H /\ PendingOf(H, p) = NothingPending
  BY <1>1, SameEdited DEF Edited, Moved, Safe
<1>2. CASE F = Failed(H)
  <2>1. /\ Edited(H, F) /\ F.node = H.node /\ F.nk = H.nk /\ F.pend = H.pend /\ F.ok = FALSE
    BY <1>0, <1>2, FailedEdited DEF Failed, HiveFields
  <2> QED BY <2>1 DEF Edited, Moved, Safe, Keys, Live, PendingOf
<1>3. CASE Writes(H, F, {p})
  <2>1. Moved(H, F) /\ Sound(F)
    BY <1>3, WrittenMoved DEF Moved, Safe
  <2>2. PendingOf(F, p) = NothingPending /\ \A q : q # p => PendingOf(F, q) = PendingOf(H, q)
    BY <1>3 DEF Writes, PendingOf
  <2> QED BY <2>1, <2>2, <1>3 DEF Writes, Live
<1> QED BY <1>1, <1>2, <1>3, FlushCases

LEMMA FlushClears ==
  ASSUME NEW H, Sound(H), NEW p, NEW F, F = FlushParent(H, p), F.ok = TRUE
  PROVE  PendingOf(F, p) = NothingPending
BY FlushMoved
-----------------------------------------------------------------------------
(***************************************************************************)
(* DeleteKey, once the lists of the key and of its parent are written.     *)
(***************************************************************************)
Removed(F, r) ==
  LET p == F.node[r].parent
      gone == Subtree(F, r)
  IN [F EXCEPT !.node = [q \in DOMAIN @ |-> IF q \in gone THEN Freed(F, q) ELSE @[q]],
               !.nk = {e \in @ : e.ref \notin gone},
               !.vk = {e \in @ : e.key \notin gone},
               !.pend = Pend(F, p, [NothingPending EXCEPT !.del = {r}])]

\* A deletion takes a whole subtree, so nothing that stays names what is gone but the
\* list of the parent, where the removal is pending.
LEMMA RemovedMoved ==
  ASSUME NEW F, Sound(F), NEW r \in Keys(F), r # Root, Live(F, r),
         PendingOf(F, F.node[r].parent) = NothingPending,
         F.frees = FALSE => Live(F, F.node[r].parent)
  PROVE  Moved(F, Removed(F, r))
<1> DEFINE p == F.node[r].parent
           gone == Subtree(F, r)
           node == [q \in Keys(F) |-> IF q \in gone THEN Freed(F, q) ELSE F.node[q]]
           nk == {e \in F.nk : e.ref \notin gone}
           vk == {e \in F.vk : e.key \notin gone}
           dd == [add |-> {}, del |-> {r}]
           pend == Pend(F, p, dd)
           G == [F EXCEPT !.node = node, !.nk = nk, !.vk = vk, !.pend = pend]
<1>0. /\ Shaped(F) /\ Owned(F) /\ Alive(F) /\ DOMAIN F = HiveFields /\ F.frees \in BOOLEAN
      /\ Root \in Keys(F) /\ Layered(F)
  BY DEF Sound, Shaped
<1>1. Removed(F, r) = G
  <2>1. [NothingPending EXCEPT !.del = {r}] = dd
    BY DEF NothingPending
  <2> QED BY <2>1, <1>0 DEF Removed, HiveFields, Keys
<1>2. /\ gone \subseteq Keys(F) /\ r \in gone /\ Root \notin gone
      /\ \A c \in gone : c # r => F.node[c].parent \in gone
  BY SubtreeFacts
<1>3. DOMAIN pend = DOMAIN F.pend \cup {p} /\ pend[p] = dd
      /\ \A q \in DOMAIN F.pend : q # p => pend[q] = F.pend[q]
  BY DEF Pend
<1>4. p \in Keys(F)
  BY <1>0 DEF Layered, Depths
<1> HIDE DEF pend, gone
<1>5. /\ DOMAIN G = HiveFields /\ G.node = node /\ G.nk = nk /\ G.pend = pend
      /\ G.next = F.next /\ G.ok = F.ok /\ G.frees = F.frees
  BY <1>0 DEF HiveFields
<1> HIDE DEF G
<1>6. Keys(G) = Keys(F)
  BY <1>5 DEF Keys
<1>7. ASSUME NEW q \in Keys(F)
      PROVE  /\ DOMAIN G.node[q] = KeyFields
             /\ G.node[q].parent = F.node[q].parent /\ G.node[q].name = F.node[q].name
             /\ G.node[q].listed = F.node[q].listed /\ G.node[q].kids = F.node[q].kids
             /\ G.node[q].live \in BOOLEAN
             /\ Live(G, q) <=> Live(F, q) /\ ~(F.frees = TRUE /\ q \in gone)
  <2>0. DOMAIN F.node[q] = KeyFields /\ F.node[q].live \in BOOLEAN
    BY <1>0 DEF Shaped
  <2>1. CASE q \in gone /\ F.frees = TRUE
    <3>1. G.node[q] = [F.node[q] EXCEPT !.live = FALSE, !.vals = <<>>]
      BY <2>1, <1>5 DEF Freed
    <3> QED BY <2>0, <2>1, <3>1 DEF KeyFields, Live
  <2>2. CASE ~(q \in gone /\ F.frees = TRUE)
    <3>1. G.node[q] = F.node[q]
      BY <2>2, <1>0, <1>5 DEF Freed
    <3> QED BY <2>0, <2>2, <3>1 DEF Live
  <2> QED BY <2>1, <2>2
<1>8. /\ PendingOf(G, p) = dd /\ \A q : q # p => PendingOf(G, q) = PendingOf(F, q)
  BY <1>3, <1>5 DEF PendingOf
<1>26. PendingOf(G, p).add = {} /\ PendingOf(G, p).del = {r}
  BY <1>8
<1>9. PendingOf(F, p).add = {} /\ PendingOf(F, p).del = {}
  BY DEF NothingPending
<1>10. \A q \in Keys(F) : /\ PendingOf(F, q).add \subseteq Keys(F) /\ PendingOf(F, q).del \subseteq Keys(F)
                          /\ F.node[q].kids \subseteq Keys(F)
  BY <1>0, PendingShape DEF Shaped
<1>11. \A e \in F.nk : e.parent \in Keys(F) /\ e.ref \in Keys(F)
  BY <1>0 DEF Shaped
<1>12. \A q \in Keys(F) : \A c \in F.node[q].kids \cup PendingOf(F, q).add : F.node[c].parent = q
  BY <1>0 DEF Owned
<1>13. Shaped(G)
  <2>1. \A q \in DOMAIN G.pend : G.pend[q] \in [add : SUBSET (Keys(G) \ {Root}), del : SUBSET Keys(G)]
    <3> SUFFICES ASSUME NEW q \in DOMAIN pend
                 PROVE  pend[q] \in [add : SUBSET (Keys(F) \ {Root}), del : SUBSET Keys(F)]
      BY <1>5, <1>6
    <3>1. CASE q = p
      BY <3>1, <1>3
    <3>2. CASE q # p
      BY <3>2, <1>0, <1>3 DEF Shaped
    <3> QED BY <3>1, <3>2
  <2>2. DOMAIN G.pend \subseteq Keys(G)
    BY <1>0, <1>3, <1>4, <1>5, <1>6 DEF Shaped
  <2>3. \A q \in Keys(G) : /\ DOMAIN G.node[q] = KeyFields
                           /\ G.node[q].live \in BOOLEAN /\ G.node[q].listed \in BOOLEAN /\ G.node[q].name \in Nat
                           /\ G.node[q].kids \subseteq Keys(G) \ {Root}
    BY <1>0, <1>6, <1>7 DEF Shaped
  <2>4. G.nk \subseteq [parent : Keys(G), name : Nat, ref : Keys(G) \ {Root}]
    BY <1>0, <1>5, <1>6 DEF Shaped
  <2>5. /\ G.next \in Nat /\ G.frees \in BOOLEAN /\ G.ok \in BOOLEAN
        /\ Root \in Keys(G) /\ Keys(G) \subseteq 0..(G.next - 1)
    BY <1>0, <1>5, <1>6 DEF Shaped
  <2> QED BY <2>1, <2>2, <2>3, <2>4, <2>5, <1>5 DEF Shaped
<1>14. Layered(G)
  <2>1. PICK d : Depths(F, d)
    BY <1>0 DEF Layered
  <2>2. Depths(G, d)
    BY <2>1, <1>0, <1>6, <1>7 DEF Depths
  <2> QED BY <2>2 DEF Layered
<1>15. Owned(G)
  <2>1. ASSUME NEW q \in Keys(G), NEW c \in G.node[q].kids \cup PendingOf(G, q).add
        PROVE  G.node[c].parent = q
    <3>1. q \in Keys(F)
      BY <1>6
    <3>2. c \in F.node[q].kids \cup PendingOf(F, q).add
      <4>1. G.node[q].kids = F.node[q].kids
        BY <3>1, <1>7
      <4>2. PendingOf(G, q).add \subseteq PendingOf(F, q).add
        BY <1>8, <1>26
      <4> QED BY <4>1, <4>2
    <3>3. c \in Keys(F) /\ F.node[c].parent = q
      BY <3>1, <3>2, <1>10, <1>12
    <3> QED BY <3>3, <1>7
  <2>2. \A e \in G.nk : G.node[e.ref].parent = e.parent /\ G.node[e.ref].name = e.name
    BY <1>0, <1>5, <1>7, <1>11 DEF Owned
  <2> QED BY <2>1, <2>2 DEF Owned
<1>16. ASSUME NEW q \in Keys(F), NEW c \in F.node[q].kids \cup PendingOf(F, q).add, c \in gone
       PROVE  q \in gone \/ (q = p /\ c = r)
  BY <1>2, <1>12, <1>16
<1>17. Alive(G)
  <2>1. Live(G, Root)
    BY <1>0, <1>2, <1>7 DEF Alive
  <2>2. ASSUME NEW q \in Keys(G), Live(G, q)
        PROVE  /\ G.node[q].listed = TRUE
               /\ \A c \in G.node[q].kids : Live(G, c) \/ c \in PendingOf(G, q).del
               /\ \A c \in PendingOf(G, q).add : Live(G, c)
    <3>1. q \in Keys(F) /\ Live(F, q) /\ ~(F.frees = TRUE /\ q \in gone)
      BY <2>2, <1>6, <1>7
    <3>2. G.node[q].listed = TRUE
      BY <3>1, <1>0, <1>7 DEF Alive
    <3>3. ASSUME NEW c \in G.node[q].kids PROVE Live(G, c) \/ c \in PendingOf(G, q).del
      <4>1. c \in F.node[q].kids /\ c \in Keys(F)
        BY <3>1, <3>3, <1>7, <1>10
      <4>2. Live(F, c) \/ c \in PendingOf(F, q).del
        BY <4>1, <3>1, <1>0 DEF Alive
      <4>3. CASE ~Live(F, c)
        <5>1. q # p
          BY <4>2, <4>3, <1>9
        <5> QED BY <5>1, <4>2, <4>3, <1>8
      <4>4. CASE Live(F, c) /\ ~(F.frees = TRUE /\ c \in gone)
        BY <4>1, <4>4, <1>7
      <4>5. CASE F.frees = TRUE /\ c \in gone
        <5>1. q = p /\ c = r
          BY <4>1, <4>5, <3>1, <1>16
        <5> QED BY <5>1, <1>8
      <4> QED BY <4>3, <4>4, <4>5
    <3>4. ASSUME NEW c \in PendingOf(G, q).add PROVE Live(G, c)
      <4>1. q # p /\ c \in PendingOf(F, q).add /\ c \in Keys(F)
        BY <3>1, <3>4, <1>8, <1>10
      <4>2. Live(F, c)
        BY <4>1, <3>1, <1>0 DEF Alive
      <4>3. ~(F.frees = TRUE /\ c \in gone)
        BY <4>1, <3>1, <1>16
      <4> QED BY <4>1, <4>2, <4>3, <1>7
    <3> QED BY <3>2, <3>3, <3>4
  <2> QED BY <2>1, <2>2 DEF Alive
<1>18. Sound(G)
  BY <1>13, <1>14, <1>15, <1>17 DEF Sound
<1>19. ASSUME F.frees = FALSE, Whole(F) PROVE Whole(G)
  <2>1. \A q \in Keys(F) : Live(G, q) <=> Live(F, q)
    BY <1>7, <1>19
  <2>2. \A q \in Keys(G) : Live(G, q) => \A c \in G.node[q].kids : Live(G, c)
    BY <2>1, <1>6, <1>7, <1>10, <1>19 DEF Whole
  <2>3. ASSUME NEW q \in DOMAIN G.pend PROVE Live(G, q)
    <3>1. q \in Keys(F) /\ Live(F, q)
      BY <1>0, <1>3, <1>4, <1>5, <1>19 DEF Whole, Shaped
    <3> QED BY <3>1, <2>1
  <2> QED BY <2>2, <2>3 DEF Whole
<1>20. \A q \in Keys(F) : q # p => Virtual(G, q) = Virtual(F, q)
  BY <1>7, <1>8 DEF Virtual
<1>21. Virtual(G, p) = Virtual(F, p) \ {r}
  <2>1. Virtual(F, p) = F.node[p].kids
    <3>1. Virtual(F, p) = (F.node[p].kids \cup {}) \ {}
      BY <1>9 DEF Virtual
    <3> QED BY <3>1
  <2>2. Virtual(G, p) = (F.node[p].kids \cup {}) \ {r}
    <3>1. G.node[p].kids = F.node[p].kids
      BY <1>4, <1>7
    <3> QED BY <3>1, <1>26 DEF Virtual
  <2> QED BY <2>1, <2>2
<1>22. Leads(F) => Leads(G)
  <2> SUFFICES ASSUME Leads(F), NEW e \in nk, Live(G, e.parent)
               PROVE  Live(G, e.ref)
    BY <1>5 DEF Leads
  <2>1. e.parent \in Keys(F) /\ e.ref \in Keys(F) /\ Live(F, e.ref)
    BY <1>7, <1>11 DEF Leads
  <2> QED BY <2>1, <1>7
<1>23. Indexed(F) => Indexed(G)
  <2> SUFFICES ASSUME Indexed(F), NEW e \in nk, Live(G, e.parent)
               PROVE  Live(G, e.ref) /\ e.ref \in Virtual(G, e.parent)
    BY <1>5 DEF Indexed
  <2>1. e.parent \in Keys(F) /\ e.ref \in Keys(F) /\ Live(F, e.ref) /\ e.ref \in Virtual(F, e.parent)
    BY <1>7, <1>11 DEF Indexed
  <2>2. e.ref # r
    BY <1>2
  <2> QED BY <2>1, <2>2, <1>7, <1>20, <1>21
<1>24. Full(F) => Full(G)
  <2> SUFFICES ASSUME Full(F), NEW q \in Known(G), Live(G, q), NEW c \in Virtual(G, q)
               PROVE  [parent |-> q, name |-> G.node[c].name, ref |-> c] \in G.nk
    BY DEF Full
  <2>1. q \in Known(F) /\ q \in Keys(F) /\ q \notin gone
    BY <1>0, <1>2, <1>5, <1>11 DEF Known
  <2>2. Live(F, q) /\ c \in Virtual(F, q)
    BY <2>1, <1>7, <1>20, <1>21
  <2>3. c \in F.node[q].kids \cup PendingOf(F, q).add /\ c \in Keys(F)
    BY <2>1, <2>2, <1>10 DEF Virtual
  <2>4. c \notin gone
    <3>1. SUFFICES ASSUME c \in gone PROVE FALSE
      OBVIOUS
    <3>2. q = p /\ c = r
      BY <2>1, <2>3, <3>1, <1>16
    <3> QED BY <3>2, <1>21
  <2>5. [parent |-> q, name |-> F.node[c].name, ref |-> c] \in F.nk
    BY <2>1, <2>2 DEF Full
  <2> QED BY <2>3, <2>4, <2>5, <1>5, <1>7
<1>25. Moved(F, G)
  BY <1>5, <1>6, <1>18, <1>19, <1>22, <1>23, <1>24 DEF Moved, Safe
<1> QED BY <1>1, <1>25

\* keyEditor.DeleteKey, with everything it calls.
LEMMA DeleteMoved ==
  ASSUME NEW H, Sound(H), NEW r \in Keys(H), H.frees = FALSE => Live(H, H.node[r].parent)
  PROVE  Moved(H, DeleteKeyAt(H, r))
<1> DEFINE p == H.node[r].parent
           E == FlushParent(H, r)
           F == FlushParent(E, p)
<1>1. /\ Moved(H, E) /\ Sound(E) /\ Keys(E) = Keys(H)
      /\ \A q \in Keys(H) : E.node[q].parent = H.node[q].parent /\ (Live(E, q) <=> Live(H, q))
  BY FlushMoved
<1>2. /\ Moved(E, F) /\ Sound(F) /\ Keys(F) = Keys(E)
      /\ \A q \in Keys(E) : F.node[q].parent = E.node[q].parent /\ (Live(F, q) <=> Live(E, q))
      /\ F.ok = TRUE => PendingOf(F, p) = NothingPending
  <2>1. F = FlushParent(E, p)
    OBVIOUS
  <2>2. Sound(E)
    BY <1>1
  <2> HIDE DEF E, F, p
  <2>3. Moved(E, F) /\ Sound(F) /\ Keys(F) = Keys(E)
    BY <2>1, <2>2, FlushMoved
  <2>4. \A q \in Keys(E) : F.node[q].parent = E.node[q].parent /\ (Live(F, q) <=> Live(E, q))
    BY <2>1, <2>2, FlushMoved
  <2>5. ASSUME F.ok = TRUE PROVE PendingOf(F, p) = NothingPending
    BY <2>1, <2>2, <2>5, FlushClears
  <2> QED BY <2>3, <2>4, <2>5
<1>3. Moved(H, F)
  BY <1>1, <1>2, MovedTwice
<1>4. DeleteKeyAt(H, r) = IF r = Root \/ ~H.node[r].live \/ ~F.ok THEN Failed(F) ELSE Removed(F, r)
  <2>1. F.node[r].parent = p
    BY <1>1, <1>2
  <2> QED BY <2>1 DEF DeleteKeyAt, Removed
<1>5. F.ok \in BOOLEAN /\ H.node[r].live \in BOOLEAN /\ F.frees = H.frees
  BY <1>2, <1>3 DEF Sound, Shaped, Moved, Safe
<1> HIDE DEF E, F
<1>6. CASE r = Root \/ ~H.node[r].live \/ ~F.ok
  <2>1. Moved(F, Failed(F))
    BY <1>2, FailedEdited DEF Edited
  <2> QED BY <2>1, <1>3, <1>4, <1>6, MovedTwice
<1>7. CASE ~(r = Root \/ ~H.node[r].live \/ ~F.ok)
  <2>1. r # Root /\ Live(H, r) /\ F.ok = TRUE
    BY <1>5, <1>7 DEF Live
  <2>2. r \in Keys(F) /\ Live(F, r) /\ F.node[r].parent = p
    BY <2>1, <1>1, <1>2
  <2>3. PendingOf(F, F.node[r].parent) = NothingPending
    BY <2>1, <2>2, <1>2
  <2>4. F.frees = FALSE => Live(F, F.node[r].parent)
    <3>1. p \in Keys(H)
      BY <2>1 DEF Sound, Layered, Depths
    <3> QED BY <3>1, <2>2, <1>1, <1>2, <1>5
  <2>5. Moved(F, Removed(F, r))
    BY <2>1, <2>2, <2>3, <2>4, <1>2, RemovedMoved
  <2> QED BY <2>5, <1>3, <1>4, <1>7, MovedTwice
<1> QED BY <1>6, <1>7

\* FlushDeferredSubkeys, when the parents S are written and no other loses its list.
LEMMA FlushedWrites ==
  ASSUME NEW H, Sound(H), NEW S \in SUBSET DOMAIN H.pend, \A p \in S : Live(H, p),
         \A p \in Keys(H) \ S : ~Lost(H, p)
  PROVE  Writes(H, Flushed(H, S), S)
<1> DEFINE node == [p \in Keys(H) |->
                      IF p \in S THEN FlushParent(H, p).node[p]
                      ELSE IF Lost(H, p) THEN [H.node[p] EXCEPT !.listed = FALSE] ELSE H.node[p]]
           pend == [p \in DOMAIN H.pend \ S |-> H.pend[p]]
           G == [H EXCEPT !.node = node, !.pend = pend]
<1>0. DOMAIN H = HiveFields /\ Shaped(H) /\ S \subseteq Keys(H) /\ \A q \in Keys(H) : DOMAIN H.node[q] = KeyFields
  BY DEF Sound, Shaped
<1>1. Flushed(H, S) = G
  BY <1>0 DEF Flushed, Keys, HiveFields
<1>2. ASSUME NEW r \in Keys(H)
      PROVE  /\ DOMAIN node[r] = KeyFields
             /\ node[r].parent = H.node[r].parent /\ node[r].name = H.node[r].name
             /\ node[r].live = H.node[r].live /\ node[r].listed = H.node[r].listed
             /\ node[r].kids = IF r \in S THEN Virtual(H, r) ELSE H.node[r].kids
  <2>1. CASE r \in S /\ PendingOf(H, r) # NothingPending
    <3>1. Writes(H, FlushParent(H, r), {r})
      BY <2>1, FlushWrites
    <3>2. node[r] = FlushParent(H, r).node[r]
      BY <2>1
    <3> HIDE DEF node
    <3> QED BY <3>1, <3>2, <2>1 DEF Writes
  <2>2. CASE r \in S /\ PendingOf(H, r) = NothingPending
    <3>1. node[r] = H.node[r]
      BY <2>2 DEF FlushParent
    <3>2. Virtual(H, r) = H.node[r].kids
      <4>1. Virtual(H, r) = (H.node[r].kids \cup {}) \ {}
        BY <2>2 DEF Virtual, NothingPending
      <4> QED BY <4>1
    <3> HIDE DEF node
    <3> QED BY <3>1, <3>2, <1>0
  <2>3. CASE r \notin S
    <3>1. ~Lost(H, r)
      BY <2>3
    <3>2. node[r] = H.node[r]
      BY <3>1, <2>3
    <3> HIDE DEF node
    <3> QED BY <3>2, <2>3, <1>0
  <2> QED BY <2>1, <2>2, <2>3
<1>3. DOMAIN node = Keys(H) /\ DOMAIN pend = DOMAIN H.pend \ S /\ \A q \in DOMAIN pend : pend[q] = H.pend[q]
  OBVIOUS
<1> HIDE DEF node, pend
<1>4. /\ DOMAIN G = HiveFields /\ G.next = H.next /\ G.ok = H.ok /\ G.frees = H.frees /\ G.nk = H.nk
      /\ G.node = node /\ G.pend = pend
  BY <1>0 DEF HiveFields
<1> HIDE DEF G
<1>5. Keys(G) = Keys(H)
  BY <1>3, <1>4 DEF Keys
<1>6. Writes(H, G, S)
  BY <1>0, <1>2, <1>3, <1>4, <1>5 DEF Writes
<1> QED BY <1>1, <1>6

\* All of them.
LEMMA FlushedMoved ==
  ASSUME NEW H, Sound(H), \A p \in DOMAIN H.pend : Live(H, p)
  PROVE  LET G == Flushed(H, DOMAIN H.pend)
         IN Moved(H, G) /\ Whole(G) /\ (NoDels(H) => Edited(H, G)) /\ DOMAIN G.pend = {}
<1> DEFINE S == DOMAIN H.pend
           G == Flushed(H, S)
<1>0. Shaped(H)
  BY DEF Sound
<1>1. \A p \in Keys(H) \ S : ~Lost(H, p)
  BY <1>0, PendingShape DEF Lost
<1>2. S \in SUBSET DOMAIN H.pend
  OBVIOUS
<1>3. Writes(H, G, S)
  BY <1>1, <1>2, FlushedWrites
<1> HIDE DEF G
<1>4. Moved(H, G) /\ Whole(G) /\ (NoDels(H) => Edited(H, G))
  BY <1>3, WrittenMoved
<1>5. DOMAIN G.pend = {}
  BY <1>3 DEF Writes
<1> QED BY <1>4, <1>5 DEF G
-----------------------------------------------------------------------------
(***************************************************************************)
(* The operations of a plan.                                               *)
(***************************************************************************)
\* The paths of a plan are no longer than MaxDepth.
LEMMA PathsBounded ==
  ASSUME NEW p \in Paths
  PROVE  p \in Seq(Nat) /\ Len(p) <= MaxDepth
<1>1. PICK k \in DOMAIN PathOrder : p = PathOrder[k]
  BY DEF Paths, Range
<1>2. PathOrder \in Seq(Seq(Nat)) /\ Len(PathOrder[k]) <= MaxDepth
  BY SessionAssumption
<1>3. PathOrder[k] \in Seq(Nat)
  BY <1>2
<1> QED BY <1>1, <1>2, <1>3

\* The index leads to keys; from the root, to allocated ones.
LEMMA WalkPathLeads ==
  ASSUME NEW H, Sound(H), NEW path \in Seq(Nat), NEW r \in WalkPath(H, path)
  PROVE  /\ r \in Keys(H)
         /\ Leads(H) /\ path # <<>> => Live(H, H.node[r].parent)
<1>0. /\ Root \in Keys(H) /\ Live(H, Root)
      /\ \A e \in H.nk : /\ e.parent \in Keys(H) /\ e.ref \in Keys(H)
                         /\ H.node[e.ref].parent = e.parent
  BY DEF Sound, Shaped, Owned, Alive
<1>1. PICK g : Finds(H, path, Len(path), g) /\ WalkPath(H, path) = g[Len(path)]
  BY FindsOf
<1> DEFINE Good(k) == \A q \in g[k] : /\ q \in Keys(H)
                                      /\ Leads(H) => Live(H, q) /\ (k # 0 => Live(H, H.node[q].parent))
           B == {k \in 0..Len(path) : ~Good(k)}
<1>2. B = {}
  <2> SUFFICES ASSUME B # {} PROVE FALSE
    OBVIOUS
  <2>0. B \subseteq Nat
    OBVIOUS
  <2>1. PICK k \in B : \A l \in B : k <= l
    BY <2>0, Smallest
  <2>2. g[k] = IF k = 0 THEN {Root} ELSE UNION {GetNK(H, p, path[k]) : p \in g[k - 1]}
    BY <1>1, <2>1 DEF Finds
  <2>3. k # 0
    BY <2>1, <2>2, <1>0
  <2>4. Good(k - 1)
    <3>1. k - 1 \in 0..Len(path) /\ ~(k <= k - 1)
      BY <2>1, <2>3
    <3> QED BY <3>1, <2>1
  <2>5. ASSUME NEW q \in g[k]
        PROVE  /\ q \in Keys(H)
               /\ Leads(H) => Live(H, q) /\ Live(H, H.node[q].parent)
    <3>1. PICK p \in g[k - 1] : q \in GetNK(H, p, path[k])
      BY <2>2, <2>3, <2>5
    <3>2. PICK e \in H.nk : e.parent = p /\ e.ref = q
      BY <3>1 DEF GetNK
    <3>3. q \in Keys(H) /\ H.node[q].parent = p
      BY <3>2, <1>0
    <3>4. Leads(H) => Live(H, p)
      BY <3>1, <2>4
    <3> QED BY <3>2, <3>3, <3>4 DEF Leads
  <2>6. Good(k)
    BY <2>5
  <2> QED BY <2>1, <2>6
<1>3. Good(Len(path)) /\ (path # <<>> => Len(path) # 0)
  <2>1. Len(path) \in 0..Len(path) /\ (path # <<>> => Len(path) # 0)
    OBVIOUS
  <2> QED BY <2>1, <1>2
<1> QED BY <1>1, <1>3

\* The strategy's DeleteKey.
LEMMA DeleteKeyMoved ==
  ASSUME NEW H, Sound(H), NEW path \in Seq(Nat), H.frees = FALSE => Leads(H)
  PROVE  Moved(H, DeleteKey(H, path))
<1> DEFINE at == WalkPath(H, path)
           r == CHOOSE q \in at : TRUE
<1>1. DeleteKey(H, path) = IF path = <<>> THEN Failed(H) ELSE IF at = {} THEN H ELSE DeleteKeyAt(H, r)
  BY DEF DeleteKey
<1>2. at # {} => r \in at
  OBVIOUS
<1> HIDE DEF at, r
<1>3. CASE path # <<>> /\ at # {}
  <2>1. r \in Keys(H) /\ (Leads(H) => Live(H, H.node[r].parent))
    <3>1. r \in WalkPath(H, path)
      BY <1>2, <1>3 DEF at
    <3> QED BY <3>1, <1>3, WalkPathLeads
  <2>2. Moved(H, DeleteKeyAt(H, r))
    BY <2>1, DeleteMoved
  <2> QED BY <2>2, <1>1, <1>3
<1> QED BY <1>1, <1>3, FailedEdited, SameEdited DEF Edited

\* One operation of a plan through the index.
LEMMA ApplyOpMoved ==
  ASSUME NEW H, Sound(H), NEW op \in OpSet, H.frees = FALSE => Leads(H), NEW data
  PROVE  /\ Moved(H, ApplyOp(H, op, data))
         /\ op.do # "delkey" => Edited(H, ApplyOp(H, op, data))
<1>1. op.path \in Seq(Nat) /\ Len(op.path) <= MaxDepth /\ op.do \in {"ensure", "set", "delvalue", "delkey"}
  BY PathsBounded DEF OpSet
<1>2. CASE op.do = "ensure"
  <2>1. ApplyOp(H, op, data) = EnsureKeyPath(H, op.path).hive
    BY <1>2 DEF ApplyOp
  <2> QED BY <2>1, <1>1, EnsureEdited DEF Edited
<1>3. CASE op.do = "set"
  <2>1. ApplyOp(H, op, data) = SetValue(H, op.path, data)
    BY <1>3 DEF ApplyOp
  <2> QED BY <2>1, <1>1, SetValueEdited DEF Edited
<1>4. CASE op.do = "delvalue"
  <2>1. ApplyOp(H, op, data) = ClearValue(H, op.path)
    BY <1>4 DEF ApplyOp
  <2> QED BY <2>1, <1>1, SetValueEdited DEF Edited
<1>5. CASE op.do = "delkey"
  <2>1. ApplyOp(H, op, data) = DeleteKey(H, op.path)
    BY <1>5 DEF ApplyOp
  <2> QED BY <2>1, <1>1, <1>5, DeleteKeyMoved
<1> QED BY <1>1, <1>2, <1>3, <1>4, <1>5

\* One operation of a plan where the walk stands.
LEMMA OpAtMoved ==
  ASSUME NEW H, Sound(H), NEW r \in Keys(H), H.frees = TRUE, NEW path, NEW k
  PROVE  /\ Moved(H, OpAt(H, r, path, k))
         /\ ~Deletes(plan) => Edited(H, OpAt(H, r, path, k))
<1>0. Edited(H, H) /\ Moved(H, H)
  BY SameEdited DEF Edited
<1>1. Edited(H, ValueOp(H, r, k)) /\ Moved(H, ValueOp(H, r, k))
  BY UpsertEdited, DeleteValueEdited DEF ValueOp, Edited
<1>2. Moved(H, DeleteKeyAt(H, r))
  BY DeleteMoved
<1>3. ~Deletes(plan) /\ k \in At(path) => plan[k].do # "delkey"
  BY DEF Deletes, At
<1> QED BY <1>0, <1>1, <1>2, <1>3 DEF OpAt

\* All operations at a key that the walk meets.
LEMMA OpsUpToMoved ==
  ASSUME NEW H, Sound(H), NEW r \in Keys(H), H.frees = TRUE, NEW path, NEW n \in Nat
  PROVE  /\ Moved(H, OpsUpTo(H, r, path, n))
         /\ ~Deletes(plan) => Edited(H, OpsUpTo(H, r, path, n))
<1>1. PICK g : Does(H, r, path, n, g) /\ OpsUpTo(H, r, path, n) = g[n]
  BY DoesOf
<1> DEFINE Good(k) == Moved(H, g[k]) /\ (~Deletes(plan) => Edited(H, g[k]))
           B == {k \in 0..n : ~Good(k)}
<1>2. B = {}
  <2> SUFFICES ASSUME B # {} PROVE FALSE
    OBVIOUS
  <2>0. B \subseteq Nat
    OBVIOUS
  <2>1. PICK k \in B : \A l \in B : k <= l
    BY <2>0, Smallest
  <2>2. g[k] = IF k = 0 THEN H ELSE OpAt(g[k - 1], r, path, k)
    BY <1>1, <2>1 DEF Does
  <2>3. k # 0
    BY <2>1, <2>2, SameEdited DEF Edited
  <2>4. Good(k - 1)
    <3>1. k - 1 \in 0..n /\ ~(k <= k - 1)
      BY <2>1, <2>3
    <3> QED BY <3>1, <2>1
  <2>5. Sound(g[k - 1]) /\ r \in Keys(g[k - 1]) /\ g[k - 1].frees = TRUE
    BY <2>4 DEF Moved, Safe
  <2>6. /\ Moved(g[k - 1], OpAt(g[k - 1], r, path, k))
        /\ ~Deletes(plan) => Edited(g[k - 1], OpAt(g[k - 1], r, path, k))
    BY <2>5, OpAtMoved
  <2>7. Good(k)
    BY <2>2, <2>3, <2>4, <2>6, MovedTwice, EditedTwice
  <2> QED BY <2>1, <2>7
<1>3. n \in 0..n
  OBVIOUS
<1> QED BY <1>1, <1>2, <1>3

LEMMA OpsAtMoved ==
  ASSUME NEW H, Sound(H), NEW r \in Keys(H), H.frees = TRUE, NEW path, Len(plan) \in Nat
  PROVE  /\ Moved(H, OpsAt(H, r, path))
         /\ ~Deletes(plan) => Edited(H, OpsAt(H, r, path))
<1> DEFINE n == Len(plan)
<1>1. OpsAt(H, r, path) = OpsUpTo(H, r, path, n) /\ n \in Nat
  BY DEF OpsAt
<1> HIDE DEF n
<1> QED BY <1>1, OpsUpToMoved
-----------------------------------------------------------------------------
(***************************************************************************)
(* Paths of keys, and the keys a path leads to.                            *)
(***************************************************************************)
LEMMA RootPath ==
  ASSUME NEW H
  PROVE  PathOf(H, Root) = <<>>
<1>1. PICK g : Climbs(H, Root, MaxDepth, g) /\ PathOf(H, Root) = g[MaxDepth][1]
  BY ClimbsOf
<1>2. MaxDepth \in Nat
  BY SessionAssumption
<1> DEFINE B == {k \in 0..MaxDepth : g[k] # <<<<>>, Root>>}
<1>3. B = {}
  <2> SUFFICES ASSUME B # {} PROVE FALSE
    OBVIOUS
  <2>0. B \subseteq Nat
    OBVIOUS
  <2>1. PICK k \in B : \A l \in B : k <= l
    BY <2>0, Smallest
  <2>2. g[k] = IF k = 0 THEN <<<<>>, Root>>
               ELSE IF g[k - 1][2] = Root THEN g[k - 1]
               ELSE <<<<H.node[g[k - 1][2]].name>> \o g[k - 1][1], H.node[g[k - 1][2]].parent>>
    BY <1>1, <2>1 DEF Climbs
  <2>3. k # 0
    BY <2>1, <2>2
  <2>4. g[k - 1] = <<<<>>, Root>>
    <3>1. k - 1 \in 0..MaxDepth /\ ~(k <= k - 1)
      BY <2>1, <2>3, <1>2
    <3> QED BY <3>1, <2>1
  <2> QED BY <2>1, <2>2, <2>3, <2>4
<1>4. g[MaxDepth] = <<<<>>, Root>>
  BY <1>2, <1>3
<1> QED BY <1>1, <1>4

\* A climb comes one level nearer to the root with each step.
LEMMA ClimbFacts ==
  ASSUME NEW H, Shaped(H), NEW d, Depths(H, d), NEW r \in Keys(H), NEW g, Climbs(H, r, MaxDepth, g)
  PROVE  \A k \in 0..MaxDepth :
           /\ g[k][1] \in Seq(Nat) /\ g[k][2] \in Keys(H)
           /\ d[g[k][2]] = IF k <= d[r] THEN d[r] - k ELSE 0
<1>0. /\ MaxDepth \in Nat /\ d \in [Keys(H) -> Nat] /\ d[Root] = 0
      /\ \A q \in Keys(H) \ {Root} : H.node[q].parent \in Keys(H) /\ d[q] = d[H.node[q].parent] + 1 /\ H.node[q].name \in Nat
  BY SessionAssumption DEF Depths, Shaped
<1> DEFINE Good(k) == /\ g[k][1] \in Seq(Nat) /\ g[k][2] \in Keys(H)
                      /\ d[g[k][2]] = IF k <= d[r] THEN d[r] - k ELSE 0
           B == {k \in 0..MaxDepth : ~Good(k)}
<1> SUFFICES ASSUME B # {} PROVE FALSE
  OBVIOUS
<1>1. B \subseteq Nat
  OBVIOUS
<1>2. PICK k \in B : \A l \in B : k <= l
  BY <1>1, Smallest
<1>3. g[k] = IF k = 0 THEN <<<<>>, r>>
             ELSE IF g[k - 1][2] = Root THEN g[k - 1]
             ELSE <<<<H.node[g[k - 1][2]].name>> \o g[k - 1][1], H.node[g[k - 1][2]].parent>>
  BY <1>2 DEF Climbs
<1>4. k # 0
  <2> SUFFICES ASSUME k = 0 PROVE FALSE
    OBVIOUS
  <2>1. d[r] \in Nat
    BY <1>0
  <2>2. g[0] = <<<<>>, r>>
    BY <1>3
  <2>3. g[0][1] = <<>> /\ g[0][2] = r
    BY <2>2
  <2>4. d[r] = IF 0 <= d[r] THEN d[r] - 0 ELSE 0
    BY <2>1
  <2>5. <<>> \in Seq(Nat)
    OBVIOUS
  <2>6. Good(0)
    BY <2>3, <2>4, <2>5
  <2> QED BY <2>6, <1>2
<1>5. k - 1 \in Nat /\ k \in Nat /\ Good(k - 1)
  <2>1. k - 1 \in 0..MaxDepth /\ ~(k <= k - 1) /\ k - 1 \in Nat /\ k \in Nat
    BY <1>0, <1>2, <1>4
  <2> QED BY <2>1, <1>2
<1> DEFINE q == g[k - 1][2]
           s == g[k - 1][1]
<1>6. q \in Keys(H) /\ s \in Seq(Nat) /\ d[q] = (IF k - 1 <= d[r] THEN d[r] - (k - 1) ELSE 0) /\ d[r] \in Nat /\ d[q] \in Nat
  BY <1>0, <1>5
<1>7. CASE q = Root
  <2>1. g[k] = g[k - 1]
    BY <1>3, <1>4, <1>7
  <2>2. d[q] = IF k <= d[r] THEN d[r] - k ELSE 0
    BY <1>0, <1>5, <1>6, <1>7
  <2> QED BY <2>1, <2>2, <1>2, <1>6
<1>8. CASE q # Root
  <2>1. g[k] = <<<<H.node[q].name>> \o s, H.node[q].parent>>
    BY <1>3, <1>4, <1>8
  <2>2. H.node[q].name \in Nat /\ H.node[q].parent \in Keys(H) /\ d[q] = d[H.node[q].parent] + 1
    BY <1>0, <1>6, <1>8
  <2>3. d[H.node[q].parent] = IF k <= d[r] THEN d[r] - k ELSE 0
    <3>1. d[H.node[q].parent] \in Nat
      BY <2>2, <1>0
    <3> DEFINE x == d[H.node[q].parent]
               y == d[q]
               z == d[r]
    <3>2. x \in Nat /\ y = x + 1 /\ y = (IF k - 1 <= z THEN z - (k - 1) ELSE 0) /\ z \in Nat /\ k \in Nat
      BY <3>1, <2>2, <1>5, <1>6
    <3> HIDE DEF x, y, z
    <3>3. x = IF k <= z THEN z - k ELSE 0
      BY <3>2
    <3> QED BY <3>3 DEF x, z
  <2>4. <<H.node[q].name>> \o s \in Seq(Nat)
    BY <2>2, <1>6
  <2> HIDE DEF q, s
  <2>5. g[k][1] = <<H.node[q].name>> \o s /\ g[k][2] = H.node[q].parent
    BY <2>1
  <2> QED BY <2>2, <2>3, <2>4, <2>5, <1>2
<1> QED BY <1>7, <1>8

\* The path of a key is its parent's with its name.
LEMMA PathStep ==
  ASSUME NEW H, Shaped(H), NEW d, Depths(H, d), NEW r \in Keys(H), r # Root
  PROVE  /\ PathOf(H, r) = Append(PathOf(H, H.node[r].parent), H.node[r].name)
         /\ PathOf(H, H.node[r].parent) \in Seq(Nat)
<1> DEFINE p == H.node[r].parent
           n == H.node[r].name
<1>0. /\ MaxDepth \in Nat /\ p \in Keys(H) /\ n \in Nat /\ d[p] \in Nat /\ d[r] = d[p] + 1 /\ d[r] <= MaxDepth
      /\ d \in [Keys(H) -> Nat] /\ \A q \in Keys(H) : d[q] = 0 => q = Root
  <2>1. \A q \in Keys(H) : q # Root => d[q] = d[H.node[q].parent] + 1 /\ d[H.node[q].parent] \in Nat
    BY DEF Depths
  <2>2. \A q \in Keys(H) : d[q] = 0 => q = Root
    <3> SUFFICES ASSUME NEW q \in Keys(H), q # Root PROVE d[q] # 0
      OBVIOUS
    <3> QED BY <2>1
  <2>3. p \in Keys(H) /\ n \in Nat /\ d \in [Keys(H) -> Nat] /\ d[r] = d[p] + 1 /\ d[r] <= MaxDepth
    BY DEF Depths, Shaped
  <2>4. MaxDepth \in Nat
    BY SessionAssumption
  <2> QED BY <2>2, <2>3, <2>4
<1>1. PICK g : Climbs(H, r, MaxDepth, g) /\ PathOf(H, r) = g[MaxDepth][1]
  BY ClimbsOf
<1>2. PICK f : Climbs(H, p, MaxDepth, f) /\ PathOf(H, p) = f[MaxDepth][1]
  BY ClimbsOf
<1>3. \A k \in 0..MaxDepth : /\ f[k][1] \in Seq(Nat) /\ f[k][2] \in Keys(H)
                             /\ d[f[k][2]] = IF k <= d[p] THEN d[p] - k ELSE 0
  BY <1>0, <1>2, ClimbFacts
<1> HIDE DEF p, n
<1> DEFINE Good(k) == g[k + 1] = <<Append(f[k][1], n), f[k][2]>>
           B == {k \in 0..(MaxDepth - 1) : ~Good(k)}
<1>4. B = {}
  <2> SUFFICES ASSUME B # {} PROVE FALSE
    OBVIOUS
  <2>0. B \subseteq Nat
    OBVIOUS
  <2>1. PICK k \in B : \A l \in B : k <= l
    BY <2>0, Smallest
  <2>2. k \in Nat /\ k \in 0..MaxDepth /\ k + 1 \in 0..MaxDepth /\ k + 1 # 0 /\ (k + 1) - 1 = k
    BY <2>1, <1>0
  <2>3. g[k + 1] = IF g[k][2] = Root THEN g[k]
                   ELSE <<<<H.node[g[k][2]].name>> \o g[k][1], H.node[g[k][2]].parent>>
    BY <2>2, <1>1 DEF Climbs
  <2>4. f[k] = IF k = 0 THEN <<<<>>, p>>
               ELSE IF f[k - 1][2] = Root THEN f[k - 1]
               ELSE <<<<H.node[f[k - 1][2]].name>> \o f[k - 1][1], H.node[f[k - 1][2]].parent>>
    BY <2>2, <1>2 DEF Climbs
  <2>5. CASE k = 0
    <3>0. 0 \in 0..MaxDepth
      BY <1>0
    <3>1. g[0] = <<<<>>, r>>
      BY <3>0, <1>1 DEF Climbs
    <3>2. g[1] = <<<<n>> \o <<>>, p>>
      BY <3>1, <2>3, <2>5 DEF n, p
    <3>3. f[0] = <<<<>>, p>>
      BY <2>4, <2>5
    <3>4. <<n>> \o <<>> = Append(<<>>, n)
      BY <1>0
    <3>5. Good(0)
      BY <3>2, <3>3, <3>4
    <3> QED BY <3>5, <2>1, <2>5
  <2>6. CASE k # 0
    <3>1. k - 1 \in 0..(MaxDepth - 1) /\ ~(k <= k - 1) /\ (k - 1) + 1 = k /\ k - 1 \in 0..MaxDepth
      BY <2>1, <2>2, <2>6, <1>0
    <3>2. g[k] = <<Append(f[k - 1][1], n), f[k - 1][2]>>
      <4>1. Good(k - 1)
        BY <3>1, <2>1
      <4> QED BY <4>1, <3>1
    <3> DEFINE q == f[k - 1][2]
               s == f[k - 1][1]
    <3>3. g[k][1] = Append(s, n) /\ g[k][2] = q /\ s \in Seq(Nat) /\ q \in Keys(H)
      BY <3>1, <3>2, <1>3
    <3>4. CASE q = Root
      <4>1. f[k] = f[k - 1] /\ g[k + 1] = g[k]
        BY <3>3, <3>4, <2>3, <2>4, <2>6
      <4> QED BY <4>1, <3>2, <2>1
    <3>5. CASE q # Root
      <4> DEFINE m == H.node[q].name
      <4>1. m \in Nat
        BY <3>3 DEF Shaped
      <4>2. f[k] = <<<<m>> \o s, H.node[q].parent>> /\ g[k + 1] = <<<<m>> \o Append(s, n), H.node[q].parent>>
        BY <3>3, <3>5, <2>3, <2>4, <2>6
      <4>3. <<m>> \o Append(s, n) = Append(<<m>> \o s, n)
        <5> HIDE DEF m, s
        <5>1. <<m>> \in Seq(Nat) /\ <<n>> \in Seq(Nat) /\ s \in Seq(Nat)
          BY <4>1, <3>3, <1>0
        <5>2. (<<m>> \o s) \o <<n>> = <<m>> \o (s \o <<n>>) /\ <<m>> \o s \in Seq(Nat)
          BY <5>1, ConcatAssociative
        <5>3. Append(s, n) = s \o <<n>> /\ Append(<<m>> \o s, n) = (<<m>> \o s) \o <<n>>
          BY <5>1, <5>2, <1>0, AppendIsConcat
        <5> QED BY <5>2, <5>3
      <4>4. f[k][1] = <<m>> \o s /\ f[k][2] = H.node[q].parent
        <5> HIDE DEF m, s, q
        <5> QED BY <4>2
      <4>5. Good(k)
        <5> HIDE DEF m, s, q
        <5> QED BY <4>2, <4>3, <4>4
      <4> QED BY <4>5, <2>1
    <3> QED BY <3>4, <3>5
  <2> QED BY <2>5, <2>6
<1>5. MaxDepth - 1 \in 0..(MaxDepth - 1) /\ (MaxDepth - 1) + 1 = MaxDepth /\ MaxDepth # 0
      /\ MaxDepth - 1 \in 0..MaxDepth /\ MaxDepth \in 0..MaxDepth /\ MaxDepth - 1 >= d[p]
  BY <1>0
<1>6. g[MaxDepth] = <<Append(f[MaxDepth - 1][1], n), f[MaxDepth - 1][2]>>
  <2>1. Good(MaxDepth - 1)
    BY <1>4, <1>5
  <2> QED BY <2>1, <1>5
<1>7. f[MaxDepth - 1][2] = Root
  <2>1. d[f[MaxDepth - 1][2]] = 0 /\ f[MaxDepth - 1][2] \in Keys(H)
    BY <1>0, <1>3, <1>5
  <2> QED BY <2>1, <1>0
<1>8. f[MaxDepth] = f[MaxDepth - 1]
  BY <1>2, <1>5, <1>7 DEF Climbs
<1>9. PathOf(H, p) \in Seq(Nat)
  BY <1>2, <1>3, <1>5
<1>10. PathOf(H, r) = Append(PathOf(H, p), n)
  BY <1>1, <1>2, <1>6, <1>8
<1> QED BY <1>9, <1>10 DEF p, n

\* A path is a path and a name.
LEMMA SplitLast ==
  ASSUME NEW q \in Seq(Nat), q # <<>>
  PROVE  \E f \in Seq(Nat), s \in Nat : q = Append(f, s) /\ Len(f) + 1 = Len(q)
<1> DEFINE n == Len(q) - 1
           f == SubSeq(q, 1, n)
<1>1. n \in Nat /\ Len(q) = n + 1 /\ q[Len(q)] \in Nat
  OBVIOUS
<1>2. f \in Seq(Nat) /\ Len(f) = n
  BY <1>1
<1>3. q = Append(f, q[Len(q)])
  BY <1>1
<1> QED BY <1>1, <1>2, <1>3

\* WalkPath goes one segment at a time.
LEMMA WalkPathStep ==
  ASSUME NEW H, NEW q \in Seq(Nat), NEW s \in Nat
  PROVE  WalkPath(H, Append(q, s)) = UNION {GetNK(H, p, s) : p \in WalkPath(H, q)}
<1> DEFINE t == Append(q, s)
<1>0. t \in Seq(Nat) /\ Len(t) = Len(q) + 1 /\ Len(q) \in Nat /\ t[Len(q) + 1] = s /\ \A k \in 1..Len(q) : t[k] = q[k]
  OBVIOUS
<1> HIDE DEF t
<1>1. PICK g : Finds(H, t, Len(t), g) /\ WalkPath(H, t) = g[Len(t)]
  BY <1>0, FindsOf
<1>2. PICK f : Finds(H, q, Len(q), f) /\ WalkPath(H, q) = f[Len(q)]
  BY FindsOf
<1> DEFINE B == {k \in 0..Len(q) : g[k] # f[k]}
<1>3. B = {}
  <2> SUFFICES ASSUME B # {} PROVE FALSE
    OBVIOUS
  <2>0. B \subseteq Nat
    OBVIOUS
  <2>1. PICK k \in B : \A l \in B : k <= l
    BY <2>0, Smallest
  <2>2. k \in 0..Len(t) /\ k \in 0..Len(q) /\ k \in Nat
    BY <2>1, <1>0
  <2> DEFINE N(p, x) == GetNK(H, p, x)
  <2>3. g[k] = IF k = 0 THEN {Root} ELSE UNION {N(p, t[k]) : p \in g[k - 1]}
    BY <2>2, <1>1 DEF Finds
  <2>4. f[k] = IF k = 0 THEN {Root} ELSE UNION {N(p, q[k]) : p \in f[k - 1]}
    BY <2>2, <1>2 DEF Finds
  <2> HIDE DEF N
  <2>5. k # 0
    BY <2>1, <2>3, <2>4
  <2>6. g[k - 1] = f[k - 1] /\ t[k] = q[k]
    <3>1. k - 1 \in 0..Len(q) /\ ~(k <= k - 1) /\ k \in 1..Len(q)
      BY <2>2, <2>5, <1>0
    <3> QED BY <3>1, <2>1, <1>0
  <2> QED BY <2>1, <2>3, <2>4, <2>5, <2>6
<1>4. g[Len(q)] = f[Len(q)]
  BY <1>0, <1>3
<1>5. Len(t) \in 0..Len(t) /\ Len(t) # 0 /\ Len(t) - 1 = Len(q)
  BY <1>0
<1>6. g[Len(t)] = UNION {GetNK(H, p, t[Len(t)]) : p \in g[Len(q)]}
  BY <1>1, <1>5 DEF Finds
<1>7. t[Len(t)] = s
  BY <1>0
<1> QED BY <1>1, <1>2, <1>4, <1>6, <1>7 DEF t

LEMMA WalkPathEmpty ==
  ASSUME NEW H
  PROVE  WalkPath(H, <<>>) = {Root}
<1>1. <<>> \in Seq(Nat) /\ Len(<<>>) = 0 /\ 0 \in 0..0
  OBVIOUS
<1>2. PICK g : Finds(H, <<>>, 0, g) /\ WalkPath(H, <<>>) = g[0]
  BY <1>1, FindsOf
<1>3. g[0] = {Root}
  BY <1>1, <1>2 DEF Finds
<1> QED BY <1>2, <1>3

LEMMA WalkPathEnds ==
  ASSUME NEW H, NEW q \in Seq(Nat), NEW s \in Nat, NEW c
  PROVE  c \in WalkPath(H, Append(q, s)) <=> \E p \in WalkPath(H, q) : c \in GetNK(H, p, s)
<1>1. WalkPath(H, Append(q, s)) = UNION {GetNK(H, p, s) : p \in WalkPath(H, q)}
  BY WalkPathStep
<1> QED BY <1>1

\* So does the walk over the lists.
LEMMA WalkListsStep ==
  ASSUME NEW H, NEW q \in Seq(Nat), NEW s \in Nat
  PROVE  WalkLists(H, Append(q, s)) = UNION {{c \in H.node[p].kids : H.node[c].name = s} : p \in WalkLists(H, q)}
<1> DEFINE t == Append(q, s)
<1>0. t \in Seq(Nat) /\ Len(t) = Len(q) + 1 /\ Len(q) \in Nat /\ t[Len(q) + 1] = s /\ \A k \in 1..Len(q) : t[k] = q[k]
  OBVIOUS
<1> HIDE DEF t
<1>1. PICK g : Lists(H, t, Len(t), g) /\ WalkLists(H, t) = g[Len(t)]
  BY <1>0, ListsOf
<1>2. PICK f : Lists(H, q, Len(q), f) /\ WalkLists(H, q) = f[Len(q)]
  BY ListsOf
<1> DEFINE B == {k \in 0..Len(q) : g[k] # f[k]}
<1>3. B = {}
  <2> SUFFICES ASSUME B # {} PROVE FALSE
    OBVIOUS
  <2>0. B \subseteq Nat
    OBVIOUS
  <2>1. PICK k \in B : \A l \in B : k <= l
    BY <2>0, Smallest
  <2>2. k \in 0..Len(t) /\ k \in 0..Len(q) /\ k \in Nat
    BY <2>1, <1>0
  <2> DEFINE N(p, x) == {c \in H.node[p].kids : H.node[c].name = x}
  <2>3. g[k] = IF k = 0 THEN {Root} ELSE UNION {N(p, t[k]) : p \in g[k - 1]}
    BY <2>2, <1>1 DEF Lists
  <2>4. f[k] = IF k = 0 THEN {Root} ELSE UNION {N(p, q[k]) : p \in f[k - 1]}
    BY <2>2, <1>2 DEF Lists
  <2> HIDE DEF N
  <2>5. k # 0
    BY <2>1, <2>3, <2>4
  <2>6. g[k - 1] = f[k - 1] /\ t[k] = q[k]
    <3>1. k - 1 \in 0..Len(q) /\ ~(k <= k - 1) /\ k \in 1..Len(q)
      BY <2>2, <2>5, <1>0
    <3> QED BY <3>1, <2>1, <1>0
  <2> QED BY <2>1, <2>3, <2>4, <2>5, <2>6
<1>4. g[Len(q)] = f[Len(q)]
  BY <1>0, <1>3
<1>5. Len(t) \in 0..Len(t) /\ Len(t) # 0 /\ Len(t) - 1 = Len(q)
  BY <1>0
<1>6. g[Len(t)] = UNION {{c \in H.node[p].kids : H.node[c].name = t[Len(t)]} : p \in g[Len(q)]}
  BY <1>1, <1>5 DEF Lists
<1>7. t[Len(t)] = s
  BY <1>0
<1> QED BY <1>1, <1>2, <1>4, <1>6, <1>7 DEF t

LEMMA WalkListsEmpty ==
  ASSUME NEW H
  PROVE  WalkLists(H, <<>>) = {Root}
<1>1. <<>> \in Seq(Nat) /\ Len(<<>>) = 0 /\ 0 \in 0..0
  OBVIOUS
<1>2. PICK g : Lists(H, <<>>, 0, g) /\ WalkLists(H, <<>>) = g[0]
  BY <1>1, ListsOf
<1>3. g[0] = {Root}
  BY <1>1, <1>2 DEF Lists
<1> QED BY <1>2, <1>3

LEMMA WalkListsEnds ==
  ASSUME NEW H, NEW q \in Seq(Nat), NEW s \in Nat, NEW c
  PROVE  c \in WalkLists(H, Append(q, s)) <=> \E p \in WalkLists(H, q) : c \in {e \in H.node[p].kids : H.node[e].name = s}
<1>1. WalkLists(H, Append(q, s)) = UNION {{e \in H.node[p].kids : H.node[e].name = s} : p \in WalkLists(H, q)}
  BY WalkListsStep
<1> QED BY <1>1

\* What a reader finds.
LEMMA FoundIs ==
  ASSUME NEW H
  PROVE  Found(H) = {PathOf(H, r) : r \in Tree(H)}
<1> DEFINE rec(r) == [path |-> PathOf(H, r), vals |-> [k \in DOMAIN H.node[r].vals |-> H.node[r].vals[k].data]]
<1>1. Shown(H) = {rec(r) : r \in Tree(H)}
  BY DEF Shown
<1>2. \A r : rec(r).path = PathOf(H, r)
  OBVIOUS
<1> HIDE DEF rec
<1> QED BY <1>1, <1>2 DEF Found

\* The keys of the tree are allocated, each in the list of its parent.
LEMMA TreeFacts ==
  ASSUME NEW H, Sound(H)
  PROVE  /\ Tree(H) \subseteq Keys(H) /\ Root \in Tree(H)
         /\ \A p \in Tree(H) : Live(H, p) /\ LiveKids(H, p) \subseteq Tree(H)
         /\ \A c \in Tree(H) : c # Root => H.node[c].parent \in Tree(H) /\ c \in LiveKids(H, H.node[c].parent)
         /\ \A p \in Tree(H) : LiveKids(H, p) = {c \in H.node[p].kids : Live(H, c)}
<1>0. /\ Root \in Keys(H) /\ Live(H, Root)
      /\ \A p \in Keys(H) : /\ H.node[p].live \in BOOLEAN /\ H.node[p].kids \subseteq Keys(H)
                            /\ Live(H, p) => H.node[p].listed = TRUE
  BY DEF Sound, Shaped, Alive
<1>1. /\ Tree(H) \subseteq Keys(H) /\ Root \in Tree(H)
      /\ \A p \in Tree(H) : LiveKids(H, p) \subseteq Tree(H)
      /\ \A c \in Tree(H) : c # Root => H.node[c].parent \in Tree(H) /\ c \in LiveKids(H, H.node[c].parent)
  BY <1>0, SubtreeFacts DEF Tree
<1>2. \A p \in Keys(H) : LiveKids(H, p) \subseteq {c \in H.node[p].kids : Live(H, c)}
  BY <1>0 DEF LiveKids, Live
<1>3. \A p \in Tree(H) : Live(H, p)
  BY <1>0, <1>1, <1>2
<1>4. \A p \in Tree(H) : LiveKids(H, p) = {c \in H.node[p].kids : Live(H, c)}
  BY <1>0, <1>1, <1>3 DEF LiveKids, Live
<1> QED BY <1>1, <1>3, <1>4

\* A hive that only grows loses no path.
LEMMA GrowsFound ==
  ASSUME NEW H, Sound(H), NEW G, Sound(G), Grows(H, G)
  PROVE  Found(H) \subseteq Found(G)
<1>1. PICK d : Depths(H, d)
  BY DEF Sound, Layered
<1>2. PICK f : Depths(G, f)
  BY DEF Sound, Layered
<1>0. Shaped(H) /\ Shaped(G) /\ Keys(H) \subseteq Keys(G) /\ d \in [Keys(H) -> Nat]
  BY <1>1 DEF Sound, Grows, Depths
<1> DEFINE B == {k \in Nat : \E r \in Keys(H) : d[r] = k /\ PathOf(G, r) # PathOf(H, r)}
<1>3. B = {}
  <2> SUFFICES ASSUME B # {} PROVE FALSE
    OBVIOUS
  <2>0. B \subseteq Nat
    OBVIOUS
  <2>1. PICK k \in B : \A l \in B : k <= l
    BY <2>0, Smallest
  <2>2. PICK r \in Keys(H) : d[r] = k /\ PathOf(G, r) # PathOf(H, r)
    BY <2>1
  <2>3. r # Root
    BY <2>2, RootPath
  <2> DEFINE p == H.node[r].parent
  <2>4. p \in Keys(H) /\ d[r] = d[p] + 1 /\ d[p] \in Nat
    BY <2>3, <1>0, <1>1 DEF Depths
  <2>5. PathOf(G, p) = PathOf(H, p)
    <3>1. d[p] \notin B
      <4>1. ~(k <= d[p])
        BY <2>2, <2>4
      <4> QED BY <4>1, <2>1
    <3> QED BY <3>1, <2>4
  <2>6. G.node[r].parent = p /\ G.node[r].name = H.node[r].name /\ r \in Keys(G)
    BY <1>0 DEF Grows
  <2>7. PathOf(H, r) = Append(PathOf(H, p), H.node[r].name)
    BY <2>3, <1>0, <1>1, PathStep
  <2>8. PathOf(G, r) = Append(PathOf(G, p), H.node[r].name)
    BY <2>3, <2>6, <1>0, <1>2, PathStep
  <2> QED BY <2>2, <2>5, <2>7, <2>8
<1>4. \A r \in Keys(H) : PathOf(G, r) = PathOf(H, r)
  BY <1>0, <1>3
<1>5. Tree(H) \subseteq Tree(G)
  <2> DEFINE K == [c \in Keys(H) |-> LiveKids(H, c)]
             T == Tree(G) \cap Keys(H)
  <2>1. Root \in T
    BY <1>0, TreeFacts DEF Shaped
  <2>2. ASSUME NEW c \in T PROVE K[c] \subseteq T
    <3>1. c \in Keys(H) /\ c \in Tree(G) /\ c \in Keys(G)
      BY <1>0
    <3>2. K[c] = LiveKids(H, c)
      BY <3>1
    <3>3. LiveKids(H, c) \subseteq Keys(H)
      BY <3>1, <1>0 DEF LiveKids, Shaped
    <3>4. LiveKids(H, c) \subseteq LiveKids(G, c)
      <4> SUFFICES ASSUME NEW b \in LiveKids(H, c) PROVE b \in LiveKids(G, c)
        OBVIOUS
      <4>1. b \in H.node[c].kids /\ H.node[b].live /\ b \in Keys(H) /\ H.node[c].listed
        BY <3>3 DEF LiveKids
      <4>2. b \in G.node[c].kids /\ G.node[b].live /\ G.node[c].listed
        BY <4>1, <3>1 DEF Grows
      <4> QED BY <4>2 DEF LiveKids
    <3>5. LiveKids(G, c) \subseteq Tree(G)
      BY <3>1, TreeFacts
    <3> QED BY <3>2, <3>3, <3>4, <3>5
  <2>3. Tree(H) = Closure(K, Root)
    BY DEF Tree, Subtree, Keys
  <2> HIDE DEF K, T
  <2>4. Closure(K, Root) \subseteq T
    BY <2>1, <2>2, ClosureLeast
  <2> QED BY <2>3, <2>4 DEF T
<1>6. Tree(H) \subseteq Keys(H)
  BY TreeFacts
<1> QED BY <1>4, <1>5, <1>6, FoundIs

\* What the index leads to is in the tree, once nothing is pending; and so is
\* what the lists lead to.
LEMMA WalkPathFound ==
  ASSUME NEW H, Sound(H), Indexed(H), DOMAIN H.pend = {}, NEW path \in Seq(Nat), NEW r \in WalkPath(H, path)
  PROVE  path \in Found(H)
<1>1. PICK d : Depths(H, d)
  BY DEF Sound, Layered
<1> DEFINE Good(q) == \A c \in WalkPath(H, q) : c \in Tree(H) /\ PathOf(H, c) = q
           B == {n \in Nat : \E q \in Seq(Nat) : Len(q) = n /\ ~Good(q)}
<1>2. B = {}
  <2> SUFFICES ASSUME B # {} PROVE FALSE
    OBVIOUS
  <2>0. B \subseteq Nat
    OBVIOUS
  <2>1. PICK n \in B : \A l \in B : n <= l
    BY <2>0, Smallest
  <2>2. PICK q \in Seq(Nat) : Len(q) = n /\ ~Good(q)
    BY <2>1
  <2>3. PICK c \in WalkPath(H, q) : ~(c \in Tree(H) /\ PathOf(H, c) = q)
    BY <2>2
  <2>4. q # <<>>
    BY <2>3, WalkPathEmpty, RootPath, TreeFacts
  <2>5. PICK f \in Seq(Nat), s \in Nat : q = Append(f, s) /\ Len(f) + 1 = Len(q)
    BY <2>4, SplitLast
  <2>6. Good(f)
    <3>1. Len(f) \in Nat /\ ~(n <= Len(f))
      BY <2>2, <2>5
    <3> QED BY <3>1, <2>1
  <2>7. PICK p \in WalkPath(H, f) : c \in GetNK(H, p, s)
    BY <2>3, <2>5, WalkPathEnds
  <2>8. p \in Tree(H) /\ PathOf(H, p) = f
    BY <2>6, <2>7
  <2>9. PICK e \in H.nk : e.parent = p /\ e.name = s /\ e.ref = c
    BY <2>7 DEF GetNK
  <2>10. /\ c \in Keys(H) /\ c # Root
         /\ H.node[c].parent = p /\ H.node[c].name = s
    BY <2>9 DEF Sound, Shaped, Owned
  <2>11. p \in Keys(H) /\ Live(H, p)
    BY <2>8, TreeFacts
  <2>12. Live(H, c) /\ c \in Virtual(H, p)
    BY <2>9, <2>11 DEF Indexed
  <2>13. c \in H.node[p].kids
    <3>1. PendingOf(H, p).add = {}
      BY PendingShape DEF Sound
    <3> QED BY <3>1, <2>12 DEF Virtual
  <2>14. c \in Tree(H)
    BY <2>8, <2>12, <2>13, TreeFacts
  <2>15. PathOf(H, c) = Append(PathOf(H, p), s)
    BY <2>10, <1>1, PathStep DEF Sound
  <2> QED BY <2>3, <2>5, <2>8, <2>14, <2>15
<1>3. Good(path)
  <2>1. Len(path) \in Nat
    OBVIOUS
  <2> QED BY <2>1, <1>2
<1> QED BY <1>3, FoundIs

LEMMA WalkListsFound ==
  ASSUME NEW H, Sound(H), Whole(H), NEW path \in Seq(Nat), NEW r \in WalkLists(H, path)
  PROVE  path \in Found(H)
<1>1. PICK d : Depths(H, d)
  BY DEF Sound, Layered
<1> DEFINE Good(q) == \A c \in WalkLists(H, q) : c \in Tree(H) /\ PathOf(H, c) = q
           B == {n \in Nat : \E q \in Seq(Nat) : Len(q) = n /\ ~Good(q)}
<1>2. B = {}
  <2> SUFFICES ASSUME B # {} PROVE FALSE
    OBVIOUS
  <2>0. B \subseteq Nat
    OBVIOUS
  <2>1. PICK n \in B : \A l \in B : n <= l
    BY <2>0, Smallest
  <2>2. PICK q \in Seq(Nat) : Len(q) = n /\ ~Good(q)
    BY <2>1
  <2>3. PICK c \in WalkLists(H, q) : ~(c \in Tree(H) /\ PathOf(H, c) = q)
    BY <2>2
  <2>4. q # <<>>
    BY <2>3, WalkListsEmpty, RootPath, TreeFacts
  <2>5. PICK f \in Seq(Nat), s \in Nat : q = Append(f, s) /\ Len(f) + 1 = Len(q)
    BY <2>4, SplitLast
  <2>6. Good(f)
    <3>1. Len(f) \in Nat /\ ~(n <= Len(f))
      BY <2>2, <2>5
    <3> QED BY <3>1, <2>1
  <2>7. PICK p \in WalkLists(H, f) : c \in H.node[p].kids /\ H.node[c].name = s
    <3>1. c \in WalkLists(H, Append(f, s))
      BY <2>3, <2>5
    <3>2. \E p \in WalkLists(H, f) : c \in {b \in H.node[p].kids : H.node[b].name = s}
      BY <3>1, WalkListsEnds
    <3> QED BY <3>2
  <2>8. p \in Tree(H) /\ PathOf(H, p) = f
    BY <2>6, <2>7
  <2>9. p \in Keys(H) /\ Live(H, p)
    BY <2>8, TreeFacts
  <2>10. c \in Keys(H) /\ c # Root /\ H.node[c].parent = p
    BY <2>7, <2>9 DEF Sound, Shaped, Owned
  <2>11. Live(H, c)
    BY <2>7, <2>9 DEF Whole
  <2>12. c \in Tree(H)
    BY <2>7, <2>8, <2>11, TreeFacts
  <2>13. PathOf(H, c) = Append(PathOf(H, p), s)
    BY <2>7, <2>10, <1>1, PathStep DEF Sound
  <2> QED BY <2>3, <2>5, <2>8, <2>12, <2>13
<1>3. Good(path)
  <2>1. Len(path) \in Nat
    OBVIOUS
  <2> QED BY <2>1, <1>2
<1> QED BY <1>3, FoundIs

\* Every path of the tree is walked.
LEMMA FoundWalked ==
  ASSUME NEW H, Sound(H), NEW path \in Found(H)
  PROVE  /\ WalkLists(H, path) # {}
         /\ Full(H) /\ DOMAIN H.pend = {} => WalkPath(H, path) # {}
<1>1. PICK d : Depths(H, d)
  BY DEF Sound, Layered
<1>0. Shaped(H) /\ d \in [Keys(H) -> Nat]
  BY <1>1 DEF Sound, Depths
<1>2. PICK r \in Tree(H) : path = PathOf(H, r)
  BY FoundIs
<1> DEFINE Good(c) == /\ c \in WalkLists(H, PathOf(H, c))
                      /\ Full(H) /\ DOMAIN H.pend = {} => c \in WalkPath(H, PathOf(H, c)) /\ c \in Known(H)
           B == {k \in Nat : \E c \in Tree(H) : d[c] = k /\ ~Good(c)}
<1>3. B = {}
  <2> SUFFICES ASSUME B # {} PROVE FALSE
    OBVIOUS
  <2>0. B \subseteq Nat
    OBVIOUS
  <2>1. PICK k \in B : \A l \in B : k <= l
    BY <2>0, Smallest
  <2>2. PICK c \in Tree(H) : d[c] = k /\ ~Good(c)
    BY <2>1
  <2>3. c # Root
    BY <2>2, RootPath, WalkListsEmpty, WalkPathEmpty DEF Known
  <2> DEFINE p == H.node[c].parent
             s == H.node[c].name
  <2>4. p \in Tree(H) /\ c \in LiveKids(H, p) /\ p \in Keys(H) /\ c \in Keys(H) /\ Live(H, p)
    BY <2>2, <2>3, TreeFacts
  <2>5. d[c] = d[p] + 1 /\ d[p] \in Nat /\ s \in Nat
    BY <2>3, <2>4, <1>0, <1>1 DEF Depths, Shaped
  <2>6. Good(p)
    <3>1. ~(k <= d[p])
      BY <2>2, <2>5
    <3>2. d[p] \notin B
      BY <3>1, <2>1
    <3> QED BY <3>2, <2>4, <2>5
  <2>7. PathOf(H, c) = Append(PathOf(H, p), s) /\ PathOf(H, p) \in Seq(Nat)
    BY <2>3, <2>4, <1>0, <1>1, PathStep
  <2>8. c \in H.node[p].kids
    BY <2>4 DEF LiveKids
  <2>9. c \in WalkLists(H, PathOf(H, c))
    <3>1. c \in {b \in H.node[p].kids : H.node[b].name = s}
      BY <2>8
    <3>2. p \in WalkLists(H, PathOf(H, p))
      BY <2>6
    <3> DEFINE q == PathOf(H, p)
    <3> HIDE DEF q, p, s
    <3>3. c \in WalkLists(H, Append(q, s))
      BY <3>1, <3>2, <2>5, <2>7, WalkListsEnds DEF q
    <3> QED BY <3>3, <2>7 DEF q
  <2>10. ASSUME Full(H), DOMAIN H.pend = {}
         PROVE  c \in WalkPath(H, PathOf(H, c)) /\ c \in Known(H)
    <3>1. PendingOf(H, p).del = {}
      BY <2>10, <1>0, PendingShape
    <3>2. c \in Virtual(H, p)
      BY <3>1, <2>8 DEF Virtual
    <3>3. [parent |-> p, name |-> s, ref |-> c] \in H.nk
      BY <3>2, <2>4, <2>6, <2>10 DEF Full
    <3>4. c \in GetNK(H, p, s) /\ c \in Known(H)
      <4>1. PICK e \in H.nk : e.parent = p /\ e.name = s /\ e.ref = c
        BY <3>3
      <4> QED BY <4>1 DEF GetNK, Known
    <3>5. p \in WalkPath(H, PathOf(H, p))
      BY <2>6, <2>10
    <3> DEFINE q == PathOf(H, p)
    <3> HIDE DEF q, p, s
    <3>6. c \in WalkPath(H, Append(q, s))
      BY <3>4, <3>5, <2>5, <2>7, WalkPathEnds DEF q
    <3> QED BY <3>4, <3>6, <2>7 DEF q
  <2> QED BY <2>2, <2>9, <2>10
<1>4. Good(r)
  <2>1. d[r] \in Nat
    BY <1>0, TreeFacts
  <2> QED BY <2>1, <1>3
<1> QED BY <1>2, <1>4
-----------------------------------------------------------------------------
(***************************************************************************)
(* Opening a session: the keys stay, nothing is pending, the index may be  *)
(* another one.                                                            *)
(***************************************************************************)
Reopens(H, G) ==
  /\ DOMAIN G = HiveFields /\ G.node = H.node /\ G.next = H.next /\ G.ok = TRUE /\ G.frees \in BOOLEAN
  /\ DOMAIN G.pend = {}
  /\ G.nk \subseteq [parent : Keys(H), name : Nat, ref : Keys(H) \ {Root}]
  /\ \A e \in G.nk : H.node[e.ref].parent = e.parent /\ H.node[e.ref].name = e.name

\* What opening a session keeps.
LEMMA ReopensKept ==
  ASSUME NEW H, Sound(H), Whole(H), NEW G, Reopens(H, G)
  PROVE  /\ Sound(G) /\ Whole(G) /\ NoDels(G) /\ Grows(H, G) /\ Keys(G) = Keys(H)
         /\ \A r : Live(G, r) <=> Live(H, r)
         /\ \A p : Virtual(G, p) = H.node[p].kids
<1>0. /\ Shaped(H) /\ Owned(H) /\ Alive(H) /\ Layered(H) /\ DOMAIN G.pend = {} /\ G.node = H.node
  BY DEF Sound, Reopens
<1>1. Keys(G) = Keys(H)
  BY <1>0 DEF Keys
<1>2. \A r : Live(G, r) <=> Live(H, r)
  BY <1>0 DEF Live
<1>3. \A p : PendingOf(G, p).add = {} /\ PendingOf(G, p).del = {}
  BY <1>0 DEF PendingOf, NothingPending
<1>4. \A p : Virtual(G, p) = H.node[p].kids
  <2> SUFFICES ASSUME NEW p PROVE Virtual(G, p) = H.node[p].kids
    OBVIOUS
  <2>1. Virtual(G, p) = (H.node[p].kids \cup {}) \ {}
    BY <1>0, <1>3 DEF Virtual
  <2> QED BY <2>1
<1>5. Shaped(G)
  BY <1>0, <1>1 DEF Shaped, Reopens
<1>6. Layered(G)
  BY <1>0, <1>1 DEF Layered, Depths
<1>7. Owned(G)
  BY <1>0, <1>1, <1>3 DEF Owned, Reopens
<1>8. Alive(G)
  BY <1>0, <1>1, <1>2, <1>3 DEF Alive, Whole
<1>9. Whole(G)
  BY <1>0, <1>1, <1>2 DEF Whole
<1>10. NoDels(G) /\ Grows(H, G)
  BY <1>0, <1>1 DEF NoDels, Grows
<1> QED BY <1>1, <1>2, <1>4, <1>5, <1>6, <1>7, <1>8, <1>9, <1>10 DEF Sound

\* The session's own index stays.
LEMMA KeepsIndex ==
  ASSUME NEW H, Sound(H), Whole(H), NEW G, Reopens(H, G), G.nk = H.nk
  PROVE  /\ Leads(H) => Leads(G)
         /\ Indexed(H) /\ DOMAIN H.pend = {} => Indexed(G)
         /\ Full(H) /\ DOMAIN H.pend = {} => Full(G)
<1>1. /\ \A r : Live(G, r) <=> Live(H, r)
      /\ \A p : Virtual(G, p) = H.node[p].kids
      /\ G.node = H.node
  BY ReopensKept DEF Reopens
<1>2. ASSUME DOMAIN H.pend = {}
      PROVE  \A p : Virtual(H, p) = Virtual(G, p)
  <2> SUFFICES ASSUME NEW p PROVE Virtual(H, p) = H.node[p].kids
    BY <1>1
  <2>1. PendingOf(H, p).add = {} /\ PendingOf(H, p).del = {}
    BY <1>2, PendingShape DEF Sound
  <2>2. Virtual(H, p) = (H.node[p].kids \cup {}) \ {}
    BY <2>1 DEF Virtual
  <2> QED BY <2>2
<1>3. Leads(H) => Leads(G)
  BY <1>1 DEF Leads
<1>4. Indexed(H) /\ DOMAIN H.pend = {} => Indexed(G)
  BY <1>1, <1>2 DEF Indexed
<1>5. Full(H) /\ DOMAIN H.pend = {} => Full(G)
  BY <1>1, <1>2 DEF Full, Known
<1> QED BY <1>3, <1>4, <1>5

\* An index of the keys R, each in its parent's list.
EntryOf(H, r) == [parent |-> H.node[r].parent, name |-> H.node[r].name, ref |-> r]
LEMMA IndexesKeys ==
  ASSUME NEW H, Sound(H), Whole(H), NEW R, R \subseteq Keys(H),
         \A r \in R : Live(H, r) /\ (r # Root => r \in H.node[H.node[r].parent].kids),
         NEW G, DOMAIN G = HiveFields, G.node = H.node, G.next = H.next, G.ok = TRUE, G.frees \in BOOLEAN,
         DOMAIN G.pend = {}, G.nk = {EntryOf(H, r) : r \in R \ {Root}}
  PROVE  /\ Reopens(H, G) /\ Leads(G) /\ Indexed(G)
         /\ Root \in R /\ (\A p \in R : H.node[p].kids \subseteq R) => Full(G)
<1>1. \A r \in Keys(H) \ {Root} : H.node[r].parent \in Keys(H) /\ H.node[r].name \in Nat
  BY DEF Sound, Shaped, Layered, Depths
<1>2. ASSUME NEW e \in G.nk
      PROVE  /\ e.ref \in R /\ e.ref # Root /\ e.parent = H.node[e.ref].parent /\ e.name = H.node[e.ref].name
             /\ e \in [parent : Keys(H), name : Nat, ref : Keys(H) \ {Root}]
  <2>1. PICK r \in R \ {Root} : e = EntryOf(H, r)
    BY <1>2
  <2> QED BY <2>1, <1>1 DEF EntryOf
<1>3. Reopens(H, G)
  BY <1>2 DEF Reopens
<1>4. /\ \A r : Live(G, r) <=> Live(H, r)
      /\ \A p : Virtual(G, p) = H.node[p].kids
  BY <1>3, ReopensKept
<1>5. Leads(G)
  BY <1>2, <1>4 DEF Leads
<1>6. Indexed(G)
  BY <1>2, <1>4 DEF Indexed
<1>7. ASSUME Root \in R, \A p \in R : H.node[p].kids \subseteq R
      PROVE  Full(G)
  <2> SUFFICES ASSUME NEW p \in Known(G), NEW c \in Virtual(G, p)
               PROVE  [parent |-> p, name |-> G.node[c].name, ref |-> c] \in G.nk
    BY DEF Full
  <2>1. p \in R
    BY <1>2, <1>7 DEF Known
  <2>2. c \in R /\ p \in Keys(H) /\ c \in H.node[p].kids
    BY <2>1, <1>4, <1>7
  <2>3. c # Root /\ H.node[c].parent = p
    BY <2>2 DEF Sound, Shaped, Owned
  <2>4. EntryOf(H, c) \in G.nk
    BY <2>2, <2>3
  <2> QED BY <2>3, <2>4 DEF EntryOf
<1> QED BY <1>3, <1>5, <1>6, <1>7

\* NewSessionForPlan: the hive a plan starts on.
StartsOn(mode, q, frees) ==
  LET H == [Opened(mode, q) EXCEPT !.frees = frees]
  IN IF mode = "single" THEN FreshIndex(H) ELSE [H EXCEPT !.pend = <<>>, !.ok = TRUE]

\* The index that NewSessionForPlan builds.
LEMMA StartsIndexed ==
  ASSUME Sound(h), Whole(h), NEW mode \in {"single", "partial", "full"}, NEW q, NEW frees \in BOOLEAN,
         NEW G, G = StartsOn(mode, q, frees)
  PROVE  /\ Reopens(h, G) /\ G.frees = frees /\ Leads(G) /\ Indexed(G)
         /\ mode = "full" => Full(G)
<1>0. DOMAIN h = HiveFields /\ DOMAIN <<>> = {}
  BY DEF Sound, Shaped
<1>1. CASE mode = "single"
  <2>1. /\ DOMAIN G = HiveFields /\ G.node = h.node /\ G.next = h.next /\ G.ok = TRUE /\ G.frees = frees
        /\ G.pend = <<>> /\ G.nk = {[parent |-> h.node[r].parent, name |-> h.node[r].name, ref |-> r] : r \in {} \ {Root}}
    BY <1>0, <1>1 DEF StartsOn, Opened, SinglePass, FreshIndex, IndexOf, HiveFields
  <2>2. G.nk = {EntryOf(h, r) : r \in {} \ {Root}}
    BY <2>1 DEF EntryOf
  <2> QED BY <2>1, <2>2, <1>0, <1>1, IndexesKeys
<1>2. CASE mode = "full"
  <2> DEFINE R == Reachable(h)
             V == {[key |-> r, vk |-> Last(h.node[r].vals).vk] : r \in {x \in R : h.node[x].vals # <<>>}}
             N == {[parent |-> h.node[r].parent, name |-> h.node[r].name, ref |-> r] : r \in R \ {Root}}
  <2>1. G = [[[h EXCEPT !.nk = N, !.vk = V, !.pend = <<>>, !.ok = TRUE] EXCEPT !.frees = frees]
               EXCEPT !.pend = <<>>, !.ok = TRUE]
    BY <1>2 DEF StartsOn, Opened, FullIndex, IndexOf
  <2>2. N = {EntryOf(h, r) : r \in R \ {Root}}
    BY DEF EntryOf
  <2>3. /\ R \subseteq Keys(h) /\ Root \in R /\ \A p \in R : h.node[p].kids \subseteq R
        /\ \A r \in R : Live(h, r) /\ (r # Root => r \in h.node[h.node[r].parent].kids)
    BY ReachableFacts
  <2> HIDE DEF R, V, N
  <2>4. /\ DOMAIN G = HiveFields /\ G.node = h.node /\ G.next = h.next /\ G.ok = TRUE /\ G.frees = frees
        /\ G.pend = <<>> /\ G.nk = N
    BY <2>1, <1>0 DEF HiveFields
  <2> QED BY <2>2, <2>3, <2>4, <1>0, IndexesKeys
<1>3. CASE mode = "partial"
  <2> DEFINE R == OnPaths(h, PlanPaths(q) \ {<<>>})
             V == {[key |-> r, vk |-> Last(h.node[r].vals).vk] : r \in {x \in R \ {Root} : h.node[x].vals # <<>>}}
             N == {[parent |-> h.node[r].parent, name |-> h.node[r].name, ref |-> r] : r \in R \ {Root}}
  <2>1. G = [[[h EXCEPT !.nk = N, !.vk = V, !.pend = <<>>, !.ok = TRUE] EXCEPT !.frees = frees]
               EXCEPT !.pend = <<>>, !.ok = TRUE]
    BY <1>3 DEF StartsOn, Opened, PartialIndex, IndexOf
  <2>2. N = {EntryOf(h, r) : r \in R \ {Root}}
    BY DEF EntryOf
  <2>3. /\ R \subseteq Keys(h)
        /\ \A r \in R : Live(h, r) /\ (r # Root => r \in h.node[h.node[r].parent].kids)
    <3>1. R \subseteq Tree(h)
      BY DEF OnPaths
    <3> HIDE DEF R
    <3> QED BY <3>1, TreeFacts
  <2> HIDE DEF R, V, N
  <2>4. /\ DOMAIN G = HiveFields /\ G.node = h.node /\ G.next = h.next /\ G.ok = TRUE /\ G.frees = frees
        /\ G.pend = <<>> /\ G.nk = N
    BY <2>1, <1>0 DEF HiveFields
  <2> QED BY <2>2, <2>3, <2>4, <1>0, <1>3, IndexesKeys
<1> QED BY <1>1, <1>2, <1>3

\* ApplyWithTx again.
LEMMA ContinuesOn ==
  ASSUME Sound(h), Whole(h), NEW mode,
         NEW G, G = IF mode = "single" THEN FreshIndex(h) ELSE [h EXCEPT !.pend = <<>>, !.ok = TRUE]
  PROVE  /\ Reopens(h, G) /\ G.frees = h.frees
         /\ mode # "single" => G.nk = h.nk
<1>0. DOMAIN h = HiveFields /\ DOMAIN <<>> = {} /\ h.frees \in BOOLEAN
  BY DEF Sound, Shaped
<1>1. CASE mode = "single"
  <2>1. /\ DOMAIN G = HiveFields /\ G.node = h.node /\ G.next = h.next /\ G.ok = TRUE /\ G.frees = h.frees
        /\ G.pend = <<>> /\ G.nk = {[parent |-> h.node[r].parent, name |-> h.node[r].name, ref |-> r] : r \in {} \ {Root}}
    BY <1>0, <1>1 DEF FreshIndex, IndexOf, HiveFields
  <2>2. G.nk = {EntryOf(h, r) : r \in {} \ {Root}}
    BY <2>1 DEF EntryOf
  <2> QED BY <2>1, <2>2, <1>0, <1>1, IndexesKeys
<1>2. CASE mode # "single"
  <2>1. /\ DOMAIN G = HiveFields /\ G.node = h.node /\ G.next = h.next /\ G.ok = TRUE /\ G.frees = h.frees
        /\ G.pend = <<>> /\ G.nk = h.nk
    BY <1>0, <1>2 DEF HiveFields
  <2>2. /\ h.nk \subseteq [parent : Keys(h), name : Nat, ref : Keys(h) \ {Root}]
        /\ \A e \in h.nk : h.node[e.ref].parent = e.parent /\ h.node[e.ref].name = e.name
    BY DEF Sound, Shaped, Owned
  <2> QED BY <2>1, <2>2, <1>0 DEF Reopens
<1> QED BY <1>1, <1>2

\* The hives to begin with.
LEMMA NewHiveSound ==
  ASSUME NEW f \in Hives
  PROVE  Sound(NewHive(f)) /\ Whole(NewHive(f)) /\ NoDels(NewHive(f)) /\ DOMAIN NewHive(f).pend = {}
<1> DEFINE ref(p) == IF p = <<>> THEN Root ELSE CHOOSE k \in DOMAIN PathOrder : PathOrder[k] = p
           path(r) == IF r = Root THEN <<>> ELSE PathOrder[r]
           refs == {ref(p) : p \in DOMAIN f}
           up(r) == IF r = Root THEN Root ELSE ref(Front(path(r)))
           below(r) == {c \in refs \ {Root} : Front(path(c)) = path(r)}
           key(r) == [Key(up(r), IF r = Root THEN 0 ELSE Last(path(r)))
                        EXCEPT !.kids = below(r),
                               !.vals = IF f[path(r)] THEN <<[vk |-> 100 + r, data |-> 0]>> ELSE <<>>]
           H == NewHive(f)
<1>0. /\ PathOrder \in Seq(Seq(Nat)) /\ MaxDepth \in Nat
      /\ \A k \in DOMAIN PathOrder : Len(PathOrder[k]) <= MaxDepth
      /\ \A j, k \in DOMAIN PathOrder : PathOrder[j] = PathOrder[k] => j = k
      /\ DOMAIN f \subseteq Paths /\ <<>> \in DOMAIN f
      /\ \A q \in DOMAIN f : q # <<>> => Front(q) \in DOMAIN f
  BY SessionAssumption
<1>1. DOMAIN PathOrder = 1..Len(PathOrder) /\ Len(PathOrder) \in Nat /\ Root \notin DOMAIN PathOrder
      /\ \A k \in DOMAIN PathOrder : PathOrder[k] \in Seq(Nat) /\ k \in Nat
  BY <1>0 DEF Root
<1>2. ASSUME NEW p \in DOMAIN f, p # <<>>
      PROVE  ref(p) \in DOMAIN PathOrder /\ PathOrder[ref(p)] = p
  <2>1. \E k \in DOMAIN PathOrder : PathOrder[k] = p
    BY <1>0 DEF Paths, Range
  <2> QED BY <2>1, <1>2
<1>3. ref(<<>>) = Root
  OBVIOUS
<1>4. \A p \in DOMAIN f : path(ref(p)) = p
  BY <1>1, <1>2, <1>3
<1>5. ASSUME NEW r \in refs
      PROVE  /\ path(r) \in DOMAIN f /\ ref(path(r)) = r /\ path(r) \in Seq(Nat) /\ Len(path(r)) <= MaxDepth
             /\ r # Root => r \in DOMAIN PathOrder /\ path(r) # <<>>
  <2>1. PICK p \in DOMAIN f : r = ref(p)
    BY <1>5
  <2>2. CASE p = <<>>
    <3>1. r = Root /\ path(r) = <<>>
      BY <2>1, <2>2, <1>3
    <3>2. <<>> \in Seq(Nat) /\ Len(<<>>) <= MaxDepth
      BY <1>0
    <3> QED BY <3>1, <3>2, <1>0, <1>3
  <2>3. CASE p # <<>>
    <3>1. r \in DOMAIN PathOrder /\ PathOrder[r] = p /\ r # Root
      BY <2>1, <2>3, <1>1, <1>2
    <3>2. path(r) = p
      BY <3>1
    <3> QED BY <3>1, <3>2, <2>1, <2>3, <1>0, <1>1
  <2> QED BY <2>2, <2>3
<1>6. Root \in refs /\ path(Root) = <<>>
  BY <1>0, <1>3
<1>7. ASSUME NEW r \in refs, r # Root
      PROVE  /\ up(r) \in refs /\ path(up(r)) = Front(path(r)) /\ Last(path(r)) \in Nat
             /\ Len(path(r)) = Len(path(up(r))) + 1
  <2> DEFINE q == path(r)
  <2>1. q \in Seq(Nat) /\ q # <<>> /\ q \in DOMAIN f
    BY <1>5, <1>7
  <2>2. Front(q) \in DOMAIN f
    BY <2>1, <1>0
  <2>3. up(r) = ref(Front(q))
    BY <1>7
  <2> HIDE DEF q
  <2>4. Len(q) = Len(Front(q)) + 1 /\ Last(q) \in Nat
    <3>1. Len(q) \in Nat /\ Len(q) # 0
      BY <2>1
    <3>2. Front(q) = SubSeq(q, 1, Len(q) - 1) /\ Last(q) = q[Len(q)]
      BY DEF Front, Last
    <3>3. Len(SubSeq(q, 1, Len(q) - 1)) = Len(q) - 1
      <4> DEFINE n == Len(q) - 1
      <4>1. n \in Nat /\ Len(q) = n + 1
        BY <3>1
      <4>2. Len(SubSeq(q, 1, n)) = n
        BY <4>1, <2>1, SubSeqProperties
      <4> QED BY <4>2
    <3>4. q[Len(q)] \in Nat
      BY <3>1, <2>1
    <3> QED BY <3>1, <3>2, <3>3, <3>4
  <2>5. path(ref(Front(q))) = Front(q) /\ ref(Front(q)) \in refs
    BY <2>2, <1>4
  <2> HIDE DEF ref, path, refs, up
  <2> QED BY <2>3, <2>4, <2>5 DEF q
<1>8. /\ H.node = [r \in refs |-> key(r)] /\ H.nk = {} /\ H.vk = {} /\ H.pend = <<>> /\ H.next = Len(PathOrder) + 1
      /\ H.ok = TRUE /\ H.frees = TRUE /\ DOMAIN H = HiveFields
  BY DEF NewHive, HiveFields
<1>9. DOMAIN <<>> = {}
  OBVIOUS
<1>10. \A r \in refs : H.node[r] = key(r)
  BY <1>8
<1>11. Keys(H) = refs
  BY <1>8 DEF Keys
<1>12. \A r : /\ DOMAIN key(r) = KeyFields /\ key(r).kids = below(r) /\ key(r).live = TRUE /\ key(r).listed = TRUE
              /\ key(r).parent = up(r) /\ key(r).name = IF r = Root THEN 0 ELSE Last(path(r))
  BY DEF Key, KeyFields
<1> HIDE DEF H, key, ref, refs, path
<1>13. \A p : PendingOf(H, p).add = {} /\ PendingOf(H, p).del = {}
  BY <1>8, <1>9 DEF PendingOf, NothingPending
<1>14. ASSUME NEW p \in refs, NEW c \in below(p)
       PROVE  c \in refs \ {Root} /\ up(c) = p
  <2>1. c \in refs \ {Root} /\ Front(path(c)) = path(p)
    OBVIOUS
  <2>2. up(c) = ref(Front(path(c)))
    BY <2>1
  <2> QED BY <2>1, <2>2, <1>5
<1>15. refs \subseteq 0..(H.next - 1)
  <2> SUFFICES ASSUME NEW r \in refs PROVE r \in 0..(H.next - 1)
    OBVIOUS
  <2>1. r = Root \/ r \in 1..Len(PathOrder)
    BY <1>1, <1>5
  <2>2. H.next - 1 = Len(PathOrder) /\ Len(PathOrder) \in Nat
    BY <1>1, <1>8
  <2> QED BY <2>1, <2>2 DEF Root
<1>16. Shaped(H)
  <2>1. \A r \in Keys(H) :
          /\ DOMAIN H.node[r] = KeyFields
          /\ H.node[r].live \in BOOLEAN /\ H.node[r].listed \in BOOLEAN /\ H.node[r].name \in Nat
    <3> SUFFICES ASSUME NEW r \in refs
                 PROVE  /\ DOMAIN H.node[r] = KeyFields
                        /\ H.node[r].live \in BOOLEAN /\ H.node[r].listed \in BOOLEAN /\ H.node[r].name \in Nat
      BY <1>11
    <3>1. H.node[r] = key(r)
      BY <1>10
    <3>2. key(r).name = IF r = Root THEN 0 ELSE Last(path(r))
      BY <1>12
    <3>3. r # Root => Last(path(r)) \in Nat
      BY <1>7
    <3>4. key(r).name \in Nat
      BY <3>2, <3>3
    <3> QED BY <3>1, <3>4, <1>12
  <2>2. \A r \in Keys(H) : H.node[r].kids \subseteq Keys(H) \ {Root}
    BY <1>10, <1>11, <1>12, <1>14
  <2>3. H.next \in Nat
    BY <1>1, <1>8
  <2> QED BY <2>1, <2>2, <2>3, <1>6, <1>8, <1>9, <1>11, <1>15 DEF Shaped
<1> DEFINE d == [r \in refs |-> Len(path(r))]
<1>17. Depths(H, d)
  <2>1. d \in [Keys(H) -> Nat]
    BY <1>5, <1>11
  <2>2. d[Root] = 0
    BY <1>6
  <2>3. \A r \in Keys(H) : d[r] <= MaxDepth
    BY <1>5, <1>11
  <2>4. \A r \in Keys(H) \ {Root} : H.node[r].parent \in Keys(H) /\ d[r] = d[H.node[r].parent] + 1
    BY <1>7, <1>10, <1>11, <1>12
  <2> QED BY <2>1, <2>2, <2>3, <2>4 DEF Depths
<1>18. Owned(H)
  <2>1. ASSUME NEW p \in Keys(H), NEW c \in H.node[p].kids \cup PendingOf(H, p).add
        PROVE  H.node[c].parent = p
    <3>1. p \in refs /\ c \in below(p)
      BY <1>10, <1>11, <1>12, <1>13
    <3>2. c \in refs /\ up(c) = p
      BY <3>1, <1>14
    <3> QED BY <3>2, <1>10, <1>12
  <2> QED BY <2>1, <1>8 DEF Owned
<1>19. \A r \in refs : Live(H, r)
  BY <1>10, <1>12 DEF Live
<1>20. \A r \in refs : H.node[r].kids \subseteq refs /\ H.node[r].listed = TRUE
  BY <1>10, <1>12, <1>14
<1>21. Alive(H)
  BY <1>6, <1>11, <1>13, <1>19, <1>20 DEF Alive
<1>22. Whole(H) /\ NoDels(H)
  BY <1>8, <1>9, <1>11, <1>19, <1>20 DEF Whole, NoDels
<1> QED BY <1>8, <1>9, <1>16, <1>17, <1>18, <1>21, <1>22 DEF Sound, Layered, H
-----------------------------------------------------------------------------
(***************************************************************************)
(* The steps of the session.                                               *)
(***************************************************************************)
\* What a hive is like once a step of the plan is done on it.
After(H) ==
  /\ Sound(H)
  /\ (Deletes(plan) /\ H.frees = TRUE) \/ Whole(H)
  /\ ~Deletes(plan) => NoDels(H)
  /\ ~Deletes(plan) /\ plan # NoPlan => {w.path : w \in base} \subseteq Found(H)
  /\ session = "single" => H.frees = TRUE

\* Such a hive, of a step that is Safe and, without deletions, Gentle.
LEMMA HiveAfter ==
  ASSUME HiveKept, NEW H, Safe(h, H), ~Deletes(plan) => Gentle(h, H)
  PROVE  After(H)
<1>1. Sound(H) /\ H.frees = h.frees /\ h.frees \in BOOLEAN /\ Sound(h)
  BY DEF Safe, HiveKept, Sound, Shaped
<1>2. (Deletes(plan) /\ H.frees = TRUE) \/ Whole(H)
  <2>1. CASE Deletes(plan) /\ h.frees = TRUE
    BY <1>1, <2>1
  <2>2. CASE ~Deletes(plan)
    BY <2>2 DEF HiveKept, Gentle
  <2>3. CASE h.frees = FALSE
    <3>1. Whole(h)
      BY <2>3 DEF HiveKept
    <3> QED BY <2>3, <3>1 DEF Safe
  <2> QED BY <1>1, <2>1, <2>2, <2>3
<1>3. ~Deletes(plan) => NoDels(H)
  BY DEF HiveKept, Gentle
<1>4. ~Deletes(plan) /\ plan # NoPlan => {w.path : w \in base} \subseteq Found(H)
  <2> SUFFICES ASSUME ~Deletes(plan), plan # NoPlan PROVE {w.path : w \in base} \subseteq Found(H)
    OBVIOUS
  <2>1. {w.path : w \in base} \subseteq Found(h)
    BY DEF HiveKept
  <2>2. Found(h) \subseteq Found(H)
    BY <1>1, GrowsFound DEF Gentle
  <2> QED BY <2>1, <2>2
<1>5. session = "single" => H.frees = TRUE
  BY <1>1 DEF HiveKept
<1> QED BY <1>1, <1>2, <1>3, <1>4, <1>5 DEF After

\* A step within a plan, or one that ends it without success.
LEMMA WithinPlan ==
  ASSUME SInv, spoilt # "hive", pc \in Busy, UNCHANGED <<session, plan, base>>, i' \in Nat \ {0},
         After(h'), h'.frees = h.frees,
         session \in {"partial", "full"} => Leads(h'),
         session \in {"partial", "full"} /\ spoilt = "no" => Indexed(h') /\ (session = "full" => Full(h')),
         \/ /\ spoilt' = spoilt /\ pc' \in Busy
            /\ pc' \in {"walk", "create"} => session = "single"
            /\ pc' = "apply" => session # "single"
            /\ pc' = "walk" => todo' \in Seq(Visits(h'))
         \/ Rollback("failed") \/ Rollback("cancelled") \/ Rollback("nospace")
  PROVE  SInv'
<1>0. Control /\ session # "none" /\ h.frees \in BOOLEAN /\ HiveKept
  BY DEF SInv, Control, HiveKept, Sound, Shaped, Busy
<1>1. CASE /\ spoilt' = spoilt /\ pc' \in Busy
           /\ pc' \in {"walk", "create"} => session = "single"
           /\ pc' = "apply" => session # "single"
           /\ pc' = "walk" => todo' \in Seq(Visits(h'))
  <2>1. Control'
    BY <1>0, <1>1 DEF Control, Busy
  <2>2. HiveKept'
    BY <1>1 DEF HiveKept, After, Busy
  <2>3. IndexKept'
    BY <1>1 DEF IndexKept
  <2> QED BY <2>1, <2>2, <2>3 DEF SInv
<1>2. CASE Rollback("failed") \/ Rollback("cancelled") \/ Rollback("nospace")
  <2>1. /\ pc' \in {"failed", "cancelled", "nospace"} /\ spoilt' # "no"
        /\ spoilt' # "hive" => ~(Deletes(plan) /\ h.frees = TRUE)
        /\ spoilt' = "hive" => h.frees = TRUE
    BY <1>0, <1>2 DEF Rollback, LeftBehind
  <2>2. Control'
    BY <1>0, <2>1 DEF Control, Busy
  <2>3. spoilt' # "hive" => HiveKept'
    BY <2>1 DEF HiveKept, After, Busy
  <2>4. IndexKept'
    BY <2>1 DEF IndexKept
  <2> QED BY <2>2, <2>3, <2>4 DEF SInv
<1> QED BY <1>1, <1>2

\* ApplyStep: one operation through the index.
LEMMA ApplyStepKept ==
  ASSUME SInv, ApplyStep
  PROVE  SInv'
<1> DEFINE H == ApplyOp(h, plan[i], i)
<1>0. /\ Control /\ pc = "apply" /\ spoilt # "hive" /\ HiveKept /\ IndexKept /\ session \in {"partial", "full"}
      /\ plan \in Seq(OpSet) /\ i \in Nat \ {0} /\ i <= Len(plan) /\ pc \in Busy
  BY DEF SInv, Control, ApplyStep, Busy
<1>1. plan[i] \in OpSet /\ i \in DOMAIN plan /\ i + 1 \in Nat \ {0}
  BY <1>0
<1>2. Leads(h) /\ Sound(h)
  BY <1>0 DEF IndexKept, HiveKept
<1>3. Moved(h, H) /\ (plan[i].do # "delkey" => Edited(h, H))
  BY <1>1, <1>2, ApplyOpMoved
<1>4. ~Deletes(plan) => plan[i].do # "delkey"
  BY <1>1 DEF Deletes
<1>5. /\ h' = H /\ UNCHANGED <<session, plan, base>>
      /\ \/ spoilt' = spoilt /\ pc' = pc /\ i' = i + 1
         \/ Rollback("failed") /\ i' = i
  <2> HIDE DEF H
  <2>1. Advance(H, pc' = pc /\ i' = i + 1 /\ UNCHANGED <<todo, deleted>>)
    BY DEF ApplyStep, H
  <2> QED BY <2>1 DEF Advance, ApplyStep
<1> HIDE DEF H
<1>6. Safe(h, H) /\ (~Deletes(plan) => Gentle(h, H))
  BY <1>3, <1>4 DEF Moved, Edited
<1>7. After(H)
  BY <1>0, <1>6, HiveAfter
<1>8. H.frees = h.frees /\ Leads(H)
  BY <1>2, <1>3 DEF Moved, Safe
<1>9. spoilt = "no" => Indexed(H) /\ (session = "full" => Full(H))
  BY <1>0, <1>3 DEF IndexKept, Moved
<1>10. i' \in Nat \ {0}
  BY <1>0, <1>1, <1>5
<1> QED BY <1>0, <1>5, <1>7, <1>8, <1>9, <1>10, WithinPlan

\* Cancel: the hive stays as the last operation left it.
LEMMA CancelKept ==
  ASSUME SInv, Cancel
  PROVE  SInv'
<1>0. pc \in Busy /\ Control /\ spoilt # "hive" /\ HiveKept /\ IndexKept
  BY DEF SInv, Control, Cancel, Busy
<1>1. /\ UNCHANGED <<session, plan, base>> /\ h' = h /\ i' = i /\ Rollback("cancelled")
  BY DEF Cancel
<1>2. After(h)
  BY <1>0, SameEdited, HiveAfter DEF Edited, Moved, HiveKept
<1>3. i' \in Nat \ {0} /\ h'.frees = h.frees /\ After(h')
  BY <1>0, <1>1, <1>2 DEF Control
<1>4. /\ session \in {"partial", "full"} => Leads(h')
      /\ session \in {"partial", "full"} /\ spoilt = "no" => Indexed(h') /\ (session = "full" => Full(h'))
  BY <1>0, <1>1 DEF IndexKept
<1> QED BY <1>0, <1>1, <1>3, <1>4, WithinPlan

\* CreateMissingKeysAndApply: phase 2 of the single pass only creates.
LEMMA CreateKept ==
  ASSUME SInv, CreateMissingKeysAndApply
  PROVE  SInv'
<1> DEFINE path == PathOrder[i]
           e == EnsureKeyPath(h, path)
           needed == (\E k \in At(path) : Creates(plan[k])) /\ NotUnderDeleted(path)
           H == IF needed THEN IF e.hive.ok THEN SetAll(e.hive, e.ref, path) ELSE PassedOver(e.hive) ELSE h
<1>0. /\ Control /\ pc = "create" /\ spoilt # "hive" /\ HiveKept /\ session = "single" /\ Sound(h)
      /\ plan \in Seq(OpSet) /\ i \in Nat \ {0} /\ i <= Len(PathOrder) /\ pc \in Busy
  BY DEF SInv, Control, CreateMissingKeysAndApply, Busy, HiveKept
<1>1. path \in Seq(Nat) /\ Len(path) <= MaxDepth
  <2>1. PathOrder \in Seq(Seq(Nat))
    BY SessionAssumption
  <2>2. i \in DOMAIN PathOrder
    BY <2>1, <1>0
  <2> QED BY <2>2, PathsBounded DEF Paths, Range
<1>2. /\ h' = H /\ UNCHANGED <<session, plan, base>>
      /\ \/ spoilt' = spoilt /\ pc' = pc /\ i' = i + 1
         \/ Rollback("failed") /\ i' = i
  <2> HIDE DEF H
  <2>1. Advance(H, i' = i + 1 /\ UNCHANGED <<pc, todo, deleted>>)
    BY DEF CreateMissingKeysAndApply, H
  <2> QED BY <2>1 DEF Advance, CreateMissingKeysAndApply
<1>3. Edited(h, H)
  <2>1. Edited(h, e.hive) /\ Sound(e.hive) /\ (e.hive.ok = TRUE => e.ref \in Keys(e.hive))
    BY <1>0, <1>1, EnsureEdited
  <2>2. e.hive.ok \in BOOLEAN /\ Len(plan) \in Nat
    BY <2>1, <1>0 DEF Sound, Shaped
  <2> HIDE DEF e, path, needed
  <2>3. CASE needed /\ e.hive.ok = TRUE
    <3>1. Edited(e.hive, SetAll(e.hive, e.ref, path))
      BY <2>1, <2>2, <2>3, SetAllEdited
    <3> QED BY <2>1, <2>3, <3>1, EditedTwice
  <2>4. CASE needed /\ e.hive.ok = FALSE
    <3>1. Edited(e.hive, PassedOver(e.hive))
      BY <2>1, PassedOverEdited
    <3> QED BY <2>1, <2>4, <3>1, EditedTwice
  <2>5. CASE ~needed
    BY <2>5, <1>0, SameEdited
  <2> QED BY <2>2, <2>3, <2>4, <2>5
<1> HIDE DEF H
<1>4. After(H)
  BY <1>0, <1>3, HiveAfter DEF Edited, Moved
<1>5. H.frees = h.frees /\ i' \in Nat \ {0}
  BY <1>0, <1>2, <1>3 DEF Edited, Moved, Safe
<1> QED BY <1>0, <1>2, <1>4, <1>5, WithinPlan

LEMMA WalkDoneKept ==
  ASSUME SInv, WalkDone
  PROVE  SInv'
<1>0. /\ Control /\ pc = "walk" /\ pc' = "create" /\ spoilt # "hive" /\ HiveKept /\ session = "single" /\ Sound(h)
      /\ UNCHANGED <<h, session, plan, i, base, spoilt>> /\ pc \in Busy
  BY DEF SInv, Control, WalkDone, Busy, HiveKept
<1>1. After(h)
  BY <1>0, SameEdited, HiveAfter DEF Edited, Moved
<1>2. i' \in Nat \ {0} /\ h'.frees = h.frees /\ After(h') /\ pc' \in Busy
  BY <1>0, <1>1 DEF Control, Busy
<1> QED BY <1>0, <1>2, WithinPlan

\* Another index, everything else as it is.
LEMMA ReindexSafe ==
  ASSUME NEW H, Sound(H), NEW nk,
         nk \subseteq [parent : Keys(H), name : Nat, ref : Keys(H) \ {Root}],
         \A e \in nk : H.node[e.ref].parent = e.parent /\ H.node[e.ref].name = e.name,
         NEW G, G = [H EXCEPT !.nk = nk]
  PROVE  Safe(H, G) /\ Gentle(H, G)
<1>0. /\ DOMAIN H = HiveFields /\ Shaped(H) /\ Layered(H) /\ Owned(H) /\ Alive(H)
  BY DEF Sound, Shaped
<1>1. /\ DOMAIN G = HiveFields /\ G.node = H.node /\ G.nk = nk /\ G.pend = H.pend /\ G.next = H.next
      /\ G.ok = H.ok /\ G.frees = H.frees
  BY <1>0 DEF HiveFields
<1>2. Keys(G) = Keys(H) /\ \A r : Live(G, r) <=> Live(H, r)
  BY <1>1 DEF Keys, Live
<1>3. \A p : PendingOf(G, p) = PendingOf(H, p)
  BY <1>1 DEF PendingOf
<1>4. Shaped(G)
  BY <1>0, <1>1, <1>2 DEF Shaped
<1>5. Layered(G)
  BY <1>0, <1>1, <1>2 DEF Layered, Depths
<1>6. Owned(G)
  BY <1>0, <1>1, <1>2, <1>3 DEF Owned
<1>7. Alive(G)
  BY <1>0, <1>1, <1>2, <1>3 DEF Alive
<1>8. /\ Whole(H) => Whole(G)
      /\ NoDels(H) => NoDels(G)
  BY <1>1, <1>2 DEF Whole, NoDels
<1>9. Grows(H, G)
  BY <1>1, <1>2 DEF Grows
<1> QED BY <1>1, <1>2, <1>4, <1>5, <1>6, <1>7, <1>8, <1>9 DEF Safe, Gentle, Sound

\* SetToSeq gives a sequence of the elements.
LEMMA SetToSeqIs ==
  ASSUME NEW S, IsFiniteSet(S)
  PROVE  SetToSeq(S) \in Seq(S)
<1>1. PICK n \in Nat : ExistsBijection(1..n, S)
  BY FS_NatBijection
<1>2. Cardinality(S) = n
  BY <1>1, FS_CountingElements
<1>3. PICK f : f \in Bijection(1..n, S)
  BY <1>1 DEF ExistsBijection
<1>4. f \in [1..Cardinality(S) -> S] /\ IsInjective(f)
  BY <1>2, <1>3 DEF Bijection, Injection, Surjection, IsInjective
<1>5. SetToSeq(S) \in [1..Cardinality(S) -> S]
  BY <1>4 DEF SetToSeq
<1>6. SetToSeq(S) \in [1..n -> S]
  BY <1>2, <1>5
<1> QED BY <1>6

\* The children the walk goes on to.
LEMMA MoreVisits ==
  ASSUME NEW H, Sound(H), NEW r \in Keys(H), NEW path \in Seq(Nat), NEW kids, kids \subseteq LiveKids(H, r)
  PROVE  SetToSeq({[ref |-> c, path |-> Append(path, H.node[c].name)] : c \in kids}) \in Seq(Visits(H))
<1> DEFINE v(c) == [ref |-> c, path |-> Append(path, H.node[c].name)]
           S == {v(c) : c \in kids}
<1>1. kids \subseteq Keys(H) \ {Root}
  BY DEF LiveKids, Sound, Shaped
<1>2. ASSUME NEW c \in kids PROVE v(c) \in Visits(H)
  <2>1. H.node[c].name \in Nat
    BY <1>1 DEF Sound, Shaped
  <2>2. Append(path, H.node[c].name) \in Seq(Nat)
    BY <2>1
  <2> QED BY <2>2, <1>1 DEF Visits
<1>3. IsFiniteSet(kids)
  <2>1. Keys(H) \subseteq 0..(H.next - 1) /\ H.next - 1 \in Int
    BY DEF Sound, Shaped
  <2>2. IsFiniteSet(0..(H.next - 1))
    <3> DEFINE n == H.next - 1
    <3>1. 0 \in Int /\ n \in Int
      BY <2>1
    <3> HIDE DEF n
    <3>2. IsFiniteSet(0..n)
      BY <3>1, FS_Interval
    <3> QED BY <3>2 DEF n
  <2> QED BY <2>1, <2>2, <1>1, FS_Subset
<1>4. IsFiniteSet(S)
  <2> DEFINE f == [c \in kids |-> v(c)]
  <2>1. f \in Surjection(kids, S)
    BY DEF Surjection
  <2> HIDE DEF f, S
  <2> QED BY <2>1, <1>3, FS_Surjection
<1>5. S \subseteq Visits(H)
  BY <1>2
<1> HIDE DEF S
<1>6. SetToSeq(S) \in Seq(S)
  BY <1>4, SetToSeqIs
<1>7. SetToSeq(S) \in Seq(Visits(H))
  BY <1>5, <1>6
<1> QED BY <1>7 DEF S

\* The walk comes to a key: it and its values are indexed.
LEMMA VisitedSafe ==
  ASSUME Sound(h), h.frees = TRUE, NEW v \in Visits(h)
  PROVE  Safe(h, Visited(v)) /\ Gentle(h, Visited(v))
<1> DEFINE node == h.node[v.ref]
           H1 == IF v.path = <<>> THEN h ELSE [h EXCEPT !.nk = AddNK(h, node.parent, node.name, v.ref)]
           H2 == [H1 EXCEPT !.vk = IF node.vals = <<>> THEN @ ELSE PutVK(H1, v.ref, {Last(node.vals).vk})]
<1>0. Sound(h) /\ h.frees = TRUE
  OBVIOUS
<1>3. Safe(h, H1) /\ Gentle(h, H1)
  <2>1. CASE v.path = <<>>
    BY <2>1, <1>0, SameEdited DEF Edited, Moved
  <2>2. CASE v.path # <<>>
    <3> DEFINE nk == AddNK(h, node.parent, node.name, v.ref)
               e0 == [parent |-> node.parent, name |-> node.name, ref |-> v.ref]
    <3>1. v.ref \in Keys(h) \ {Root}
      BY <2>2 DEF Visits
    <3>2. node.parent \in Keys(h) /\ node.name \in Nat
      BY <3>1, <1>0 DEF Sound, Shaped, Layered, Depths
    <3>3. /\ h.nk \subseteq [parent : Keys(h), name : Nat, ref : Keys(h) \ {Root}]
          /\ \A e \in h.nk : h.node[e.ref].parent = e.parent /\ h.node[e.ref].name = e.name
      BY <1>0 DEF Sound, Shaped, Owned
    <3>4. nk \subseteq h.nk \cup {e0}
      BY DEF AddNK
    <3>5. e0 \in [parent : Keys(h), name : Nat, ref : Keys(h) \ {Root}]
      BY <3>1, <3>2
    <3>6. h.node[e0.ref].parent = e0.parent /\ h.node[e0.ref].name = e0.name
      OBVIOUS
    <3>7. H1 = [h EXCEPT !.nk = nk]
      BY <2>2
    <3> HIDE DEF nk, H1, e0
    <3>8. /\ nk \subseteq [parent : Keys(h), name : Nat, ref : Keys(h) \ {Root}]
          /\ \A e \in nk : h.node[e.ref].parent = e.parent /\ h.node[e.ref].name = e.name
      BY <3>3, <3>4, <3>5, <3>6
    <3> QED BY <3>7, <3>8, <1>0, ReindexSafe
  <2> QED BY <2>1, <2>2
<1>4. Sound(H1) /\ H1.frees = TRUE /\ Keys(h) \subseteq Keys(H1)
  BY <1>0, <1>3 DEF Safe
<1>5. Edited(H1, H2)
  <2> DEFINE vk == IF node.vals = <<>> THEN H1.vk ELSE PutVK(H1, v.ref, {Last(node.vals).vk})
  <2>1. H2 = [H1 EXCEPT !.vk = vk]
    BY <1>4 DEF Sound, Shaped, HiveFields
  <2> HIDE DEF H1, H2, vk
  <2>2. /\ DOMAIN H1 = HiveFields /\ H1.next \in Nat /\ H1.ok \in BOOLEAN
        /\ \A r \in Keys(H1) : DOMAIN H1.node[r] = KeyFields
    BY <1>4 DEF Sound, Shaped
  <2>3. /\ DOMAIN H2 = HiveFields /\ H2.node = H1.node /\ H2.nk = H1.nk /\ H2.pend = H1.pend /\ H2.next = H1.next
        /\ H2.ok = H1.ok /\ H2.frees = H1.frees
    BY <2>1, <2>2 DEF HiveFields
  <2>4. Alike(H1, H2)
    BY <2>2, <2>3 DEF Alike, Keys
  <2> QED BY <2>4, <1>4, AlikeEdited
<1>6. Safe(h, H2) /\ Gentle(h, H2)
  <2> HIDE DEF H1, H2
  <2> QED BY <1>3, <1>5, SafeTwice, GentleTwice DEF Edited, Moved
<1> QED BY <1>6 DEF Visited

\* WalkAndApply: the key is indexed, its operations are done, its children come next.
LEMMA WalkKept ==
  ASSUME SInv, WalkAndApply
  PROVE  SInv'
<1> DEFINE v == Head(todo)
           H2 == Visited(v)
           H == OpsAt(H2, v.ref, v.path)
           dies == \E k \in At(v.path) : plan[k].do = "delkey"
           kids == {c \in LiveKids(H, v.ref) :
                      \E op \in Range(plan) : IsPrefix(Append(v.path, H.node[c].name), op.path)}
           more == SetToSeq({[ref |-> c, path |-> Append(v.path, H.node[c].name)] : c \in kids})
<1>0. /\ Control /\ pc = "walk" /\ spoilt # "hive" /\ HiveKept /\ session = "single" /\ Sound(h) /\ h.frees = TRUE
      /\ plan \in Seq(OpSet) /\ i \in Nat \ {0} /\ todo \in Seq(Visits(h)) /\ todo # <<>> /\ pc \in Busy
  BY DEF SInv, Control, WalkAndApply, Busy, HiveKept
<1>1. v \in Visits(h) /\ Tail(todo) \in Seq(Visits(h))
  BY <1>0
<1>2. /\ h' = H /\ UNCHANGED <<session, plan, base, i>>
      /\ \/ /\ spoilt' = spoilt /\ pc' = pc
            /\ todo' = IF dies THEN Tail(todo) ELSE more \o Tail(todo)
         \/ Rollback("failed")
  <2>1. Advance(H, /\ deleted' = IF dies THEN deleted \cup {v.path} ELSE deleted
                   /\ todo' = IF dies THEN Tail(todo) ELSE more \o Tail(todo)
                   /\ UNCHANGED <<pc, i>>)
        /\ UNCHANGED <<session, plan, plans, base>>
    BY DEF WalkAndApply
  <2> HIDE DEF H, dies, more, v
  <2> QED BY <2>1 DEF Advance
<1>6. Safe(h, H2) /\ Gentle(h, H2)
  BY <1>0, <1>1, VisitedSafe
<1>7. Sound(H2) /\ H2.frees = TRUE /\ v.ref \in Keys(H2) /\ Len(plan) \in Nat
  <2>1. v.ref \in Keys(h)
    BY <1>1 DEF Visits
  <2> HIDE DEF H2, v
  <2> QED BY <2>1, <1>0, <1>6 DEF Safe
<1>8. Moved(H2, H) /\ (~Deletes(plan) => Edited(H2, H))
  <2> HIDE DEF H2, v
  <2> QED BY <1>7, OpsAtMoved
<1> HIDE DEF H, H2
<1>9. Safe(h, H) /\ (~Deletes(plan) => Gentle(h, H))
  BY <1>6, <1>8, SafeTwice, GentleTwice DEF Edited, Moved
<1>10. After(H) /\ H.frees = h.frees /\ Sound(H) /\ Keys(h) \subseteq Keys(H)
  BY <1>0, <1>9, HiveAfter DEF Safe
<1>11. Visits(h) \subseteq Visits(H)
  BY <1>10 DEF Visits
<1>12. Tail(todo) \in Seq(Visits(H))
  BY <1>1, <1>11
<1>13. more \in Seq(Visits(H))
  <2>1. v.ref \in Keys(H) /\ v.path \in Seq(Nat)
    BY <1>1, <1>10 DEF Visits
  <2>2. kids \subseteq LiveKids(H, v.ref)
    OBVIOUS
  <2> HIDE DEF kids, v
  <2> QED BY <2>1, <2>2, <1>10, MoreVisits
<1> HIDE DEF more, dies
<1>14. spoilt' = spoilt /\ todo' = (IF dies THEN Tail(todo) ELSE more \o Tail(todo)) => todo' \in Seq(Visits(H))
  <2>1. more \o Tail(todo) \in Seq(Visits(H))
    BY <1>12, <1>13
  <2> QED BY <2>1, <1>12
<1>15. i' \in Nat \ {0}
  BY <1>0, <1>2
<1> QED BY <1>0, <1>2, <1>10, <1>14, <1>15, WithinPlan

\* FlushAndCommit: the flush writes every list, or the plan fails and spoils the hive.
LEMMA FlushAndCommitKept ==
  ASSUME SInv, FlushAndCommit
  PROVE  SInv'
<1>0. /\ Control /\ spoilt # "hive" /\ HiveKept /\ IndexKept /\ Sound(h) /\ pc \in Busy /\ h.frees \in BOOLEAN
      /\ UNCHANGED <<session, plan, todo, i, base>>
  BY DEF SInv, Control, FlushAndCommit, Applied, Busy, HiveKept, Sound, Shaped
<1> DEFINE live == {p \in DOMAIN h.pend : h.node[p].live}
<1>1. \A p \in DOMAIN h.pend : Live(h, p) <=> p \in live
  BY <1>0 DEF Live, Sound, Shaped
<1>2. PICK f \in FlushDeferredSubkeys : CommitFlushed(f.hive, f.whole)
  BY DEF FlushAndCommit
<1>3. CASE live = DOMAIN h.pend
  <2> DEFINE G == Flushed(h, DOMAIN h.pend)
  <2>1. f = [hive |-> G, whole |-> TRUE]
    BY <1>2, <1>3 DEF FlushDeferredSubkeys
  <2> HIDE DEF G
  <2>2. h' = G /\ pc' = "done" /\ spoilt' = spoilt
    BY <1>2, <2>1 DEF CommitFlushed
  <2>3. Moved(h, G) /\ Whole(G) /\ (NoDels(h) => Edited(h, G)) /\ DOMAIN G.pend = {}
    BY <1>0, <1>1, <1>3, FlushedMoved DEF G
  <2>4. Safe(h, G) /\ (~Deletes(plan) => Gentle(h, G))
    BY <2>3, <1>0 DEF Moved, Edited, HiveKept
  <2>5. After(G)
    BY <2>4, <1>0, HiveAfter
  <2>6. Control'
    BY <1>0, <2>2 DEF Control, Busy
  <2>7. HiveKept'
    BY <1>0, <2>2, <2>3, <2>5 DEF HiveKept, After, Busy
  <2>8. IndexKept'
    BY <1>0, <2>2, <2>3 DEF IndexKept, Moved
  <2> QED BY <2>6, <2>7, <2>8 DEF SInv
<1>4. CASE live # DOMAIN h.pend
  <2>1. PICK S \in SUBSET live : f = [hive |-> Flushed(h, S), whole |-> FALSE]
    BY <1>2, <1>4 DEF FlushDeferredSubkeys
  <2>2. Rollback("failed")
    BY <1>2, <2>1 DEF CommitFlushed
  <2>3. ~Whole(h)
    BY <1>1, <1>4 DEF Whole
  <2>4. Deletes(plan) /\ h.frees = TRUE
    BY <2>3, <1>0 DEF HiveKept
  <2>5. spoilt' = "hive" /\ pc' = "failed" /\ h'.frees = TRUE
    <3>1. h' = Flushed(h, S) /\ DOMAIN h = HiveFields
      BY <1>0, <1>2, <2>1 DEF CommitFlushed, Sound, Shaped
    <3>2. h'.frees = TRUE
      BY <3>1, <2>4 DEF Flushed, HiveFields
    <3> QED BY <3>2, <2>2, <2>4 DEF Rollback, LeftBehind
  <2>6. Control'
    BY <1>0, <2>5 DEF Control, Busy
  <2> QED BY <2>5, <2>6 DEF SInv
<1> QED BY <1>3, <1>4

\* FlushFails: either a list is lost, or only the written lists differ.
LEMMA FlushFailsKept ==
  ASSUME SInv, FlushFails
  PROVE  SInv'
<1>0. /\ Control /\ spoilt # "hive" /\ HiveKept /\ IndexKept /\ Sound(h) /\ pc \in Busy /\ h.frees \in BOOLEAN
      /\ UNCHANGED <<session, plan, base>> /\ i' = i /\ pc' = "nospace"
  BY DEF SInv, Control, FlushFails, Applied, Busy, HiveKept, Sound, Shaped
<1>1. PICK p \in DOMAIN h.pend, S \in SUBSET {q \in DOMAIN h.pend : h.node[q].live} :
         h.node[p].live /\ p \notin S /\ h' = Unwritten(Flushed(h, S), p)
  BY DEF FlushFails
<1> DEFINE F == Flushed(h, S)
<1>2. /\ S \in SUBSET DOMAIN h.pend /\ DOMAIN h.pend \subseteq Keys(h) /\ p \in Keys(h) /\ Live(h, p)
      /\ \A q \in S : Live(h, q)
  BY <1>0, <1>1 DEF Sound, Shaped, Live
<1>3. F.frees = h.frees /\ DOMAIN h = HiveFields /\ Keys(h) = DOMAIN h.node
  BY <1>0 DEF Flushed, Sound, Shaped, HiveFields, Keys
<1>4. /\ DOMAIN F = HiveFields /\ DOMAIN F.node = Keys(h)
      /\ \A q \in Keys(h) \ S : F.node[q] = IF Lost(h, q) THEN [h.node[q] EXCEPT !.listed = FALSE] ELSE h.node[q]
  BY <1>3 DEF Flushed, Keys, HiveFields
<1>5. F.node[p].kids = h.node[p].kids
  BY <1>1, <1>2, <1>4, <1>0 DEF Sound, Shaped, KeyFields
<1>6. CASE \E q \in Keys(h) : h'.node[q].listed # h.node[q].listed
  <2>1. spoilt' = "hive"
    BY <1>6, <1>3 DEF FlushFails
  <2>2. h.frees = TRUE
    <3> SUFFICES ASSUME h.frees = FALSE PROVE FALSE
      BY <1>0
    <3>1. h' = F
      BY <1>1, <1>3 DEF Unwritten
    <3>2. \A q \in Keys(h) \ S : ~Lost(h, q)
      BY DEF Lost
    <3>3. Writes(h, F, S)
      BY <1>0, <1>2, <3>2, FlushedWrites
    <3> HIDE DEF F
    <3> QED BY <1>6, <3>1, <3>3 DEF Writes
  <2>3. h'.frees = TRUE
    <3> HIDE DEF F
    <3> QED BY <1>1, <1>3, <1>4, <2>2 DEF Unwritten, HiveFields, F
  <2>4. Control'
    BY <1>0, <2>1, <2>3 DEF Control, Busy
  <2> QED BY <2>1, <2>4 DEF SInv
<1>8. CASE Deletes(plan) /\ h.frees = TRUE
  <2>1. spoilt' = "hive"
    BY <1>8 DEF FlushFails, LeftBehind
  <2>2. h'.frees = TRUE
    <3> HIDE DEF F
    <3> QED BY <1>1, <1>3, <1>4, <1>8 DEF Unwritten, HiveFields, F
  <2>3. Control'
    BY <1>0, <2>1, <2>2 DEF Control, Busy
  <2> QED BY <2>1, <2>3 DEF SInv
<1>7. CASE (\A q \in Keys(h) : h'.node[q].listed = h.node[q].listed) /\ ~(Deletes(plan) /\ h.frees = TRUE)
  <2>1. Rollback("nospace")
    BY <1>7, <1>3 DEF FlushFails, Rollback
  <2>2. h' = F
    <3> HIDE DEF F
    <3>1. CASE F.frees /\ F.node[p].kids # {}
      <4>1. h' = [F EXCEPT !.node[p].listed = FALSE]
        BY <1>1, <3>1 DEF Unwritten, F
      <4>2. DOMAIN F.node[p] = KeyFields
        <5>1. DOMAIN h.node[p] = KeyFields
          BY <1>0, <1>2 DEF Sound, Shaped
        <5>2. F.node[p] = (IF Lost(h, p) THEN [h.node[p] EXCEPT !.listed = FALSE] ELSE h.node[p])
          BY <1>1, <1>2, <1>4
        <5> QED BY <5>1, <5>2
      <4>3. h'.node[p].listed = FALSE
        BY <4>1, <4>2, <1>2, <1>4 DEF HiveFields, KeyFields
      <4>4. h.node[p].listed = TRUE
        BY <1>0, <1>2 DEF Sound, Alive
      <4> QED BY <4>3, <4>4, <1>2, <1>7
    <3>2. CASE ~(F.frees /\ F.node[p].kids # {})
      BY <3>2, <1>1 DEF Unwritten, F
    <3> QED BY <3>1, <3>2
  <2>3. \A q \in Keys(h) \ S : ~Lost(h, q)
    <3> SUFFICES ASSUME NEW q \in Keys(h) \ S, Lost(h, q) PROVE FALSE
      OBVIOUS
    <3>1. DOMAIN h.node[q] = KeyFields
      BY <1>0 DEF Sound, Shaped
    <3>2. F.node[q] = [h.node[q] EXCEPT !.listed = FALSE]
      BY <1>4
    <3> HIDE DEF F
    <3>3. h.node[q].listed = FALSE
      BY <3>1, <3>2, <2>2, <1>7 DEF KeyFields
    <3>4. q \in DOMAIN h.pend /\ ~Live(h, q)
      <4>1. q \in DOMAIN h.pend
        BY <1>0, PendingShape DEF Lost, Sound
      <4>2. ~Live(h, q)
        BY <3>3, <1>0 DEF Sound, Alive
      <4> QED BY <4>1, <4>2
    <3>5. Deletes(plan) /\ h.frees = TRUE
      BY <3>4, <1>0 DEF HiveKept, Whole
    <3> QED BY <3>5, <1>7
  <2> HIDE DEF F
  <2>4. Writes(h, F, S)
    BY <1>0, <1>2, <2>3, FlushedWrites DEF F
  <2>5. Moved(h, F) /\ (NoDels(h) => Edited(h, F))
    BY <1>0, <2>4, WrittenMoved
  <2>6. Safe(h, F) /\ (~Deletes(plan) => Gentle(h, F))
    BY <2>5, <1>0 DEF Moved, Edited, HiveKept
  <2>7. After(F)
    BY <2>6, <1>0, HiveAfter
  <2>8. /\ F.frees = h.frees /\ i' \in Nat \ {0}
        /\ session \in {"partial", "full"} => Leads(F)
        /\ session \in {"partial", "full"} /\ spoilt = "no" => Indexed(F) /\ (session = "full" => Full(F))
    BY <2>5, <1>0 DEF Moved, Safe, IndexKept, Control
  <2> QED BY <1>0, <2>1, <2>2, <2>7, <2>8, WithinPlan
<1> QED BY <1>6, <1>7, <1>8

\* DeleteFails: such a plan deletes keys, so only what an allocator that frees
\* nothing leaves behind is said to be sound.
LEMMA DeleteFailsKept ==
  ASSUME SInv, DeleteFails
  PROVE  SInv'
<1>0. /\ Control /\ spoilt # "hive" /\ HiveKept /\ IndexKept /\ Sound(h) /\ pc \in Busy /\ h.frees \in BOOLEAN
      /\ UNCHANGED <<session, plan, base>> /\ i' = i /\ Rollback("nospace")
  BY DEF SInv, Control, DeleteFails, Busy, HiveKept, Sound, Shaped
<1>1. Deletes(plan)
  <2>1. CASE pc = "apply"
    <3>1. i \in DOMAIN plan /\ plan[i].do = "delkey"
      BY <2>1, <1>0 DEF DeleteFails, Control
    <3> QED BY <3>1 DEF Deletes
  <2>2. CASE pc # "apply"
    BY <2>2 DEF DeleteFails, Deletes, At
  <2> QED BY <2>1, <2>2
<1>2. CASE h.frees = TRUE
  <2>1. spoilt' = "hive" /\ pc' = "nospace"
    BY <1>0, <1>1, <1>2 DEF Rollback, LeftBehind
  <2>2. h'.frees = TRUE
    <3>1. ASSUME NEW H, Sound(H), H.frees = TRUE, NEW r, h' \in DeleteUnflushed(H, r)
          PROVE  h'.frees = TRUE
      <4> DEFINE F == FlushParent(H, r)
                 p == H.node[r].parent
      <4>1. F.frees = TRUE /\ DOMAIN F = HiveFields /\ DOMAIN H = HiveFields
        BY <3>1, FlushMoved DEF Moved, Safe, Sound, Shaped
      <4> HIDE DEF F, p
      <4>2. h' = Unwritten(H, r) \/ h' = Unwritten(F, p)
        BY <3>1 DEF DeleteUnflushed, F, p
      <4> QED BY <3>1, <4>1, <4>2 DEF Unwritten, HiveFields
    <3>2. CASE pc = "apply"
      BY <3>1, <3>2, <1>0, <1>2 DEF DeleteFails
    <3>3. CASE pc = "walk"
      <4> DEFINE v == Head(todo)
      <4>1. todo # <<>> /\ v \in Visits(h)
        BY <3>3, <1>0 DEF DeleteFails, HiveKept
      <4>2. PICK k \in At(v.path) : h' \in DeleteUnflushed(OpsUpTo(Visited(v), v.ref, v.path, k - 1), v.ref)
        BY <3>3 DEF DeleteFails
      <4>3. k - 1 \in Nat
        BY <4>2, <1>0 DEF At, Control
      <4> HIDE DEF v
      <4> DEFINE G == Visited(v)
                 n == k - 1
                 H == OpsUpTo(G, v.ref, v.path, n)
      <4>4. Safe(h, G) /\ v.ref \in Keys(h)
        BY <4>1, <1>0, <1>2, VisitedSafe DEF Visits
      <4> HIDE DEF G, n
      <4>5. Sound(G) /\ G.frees = TRUE /\ v.ref \in Keys(G)
        BY <4>4, <1>2 DEF Safe
      <4>6. Moved(G, H)
        BY <4>5, <4>3, OpsUpToMoved DEF n
      <4> HIDE DEF H
      <4>7. Sound(H) /\ H.frees = TRUE
        BY <4>5, <4>6 DEF Moved, Safe
      <4> QED BY <3>1, <4>2, <4>7 DEF H, n, G
    <3> QED BY <3>2, <3>3 DEF DeleteFails
  <2>3. Control'
    BY <1>0, <2>1, <2>2 DEF Control, Busy
  <2> QED BY <2>1, <2>3 DEF SInv
<1>3. CASE h.frees = FALSE
  <2>1. pc = "apply"
    BY <1>0, <1>3 DEF DeleteFails, HiveKept, Control
  <2>2. PICK r \in WalkPath(h, plan[i].path) : h' \in DeleteUnflushed(h, r)
    BY <2>1 DEF DeleteFails
  <2>3. Moved(h, h')
    <3> DEFINE F == FlushParent(h, r)
               p == h.node[r].parent
    <3>1. Moved(h, F) /\ F.frees = FALSE /\ Moved(h, h)
      BY <1>0, <1>3, FlushMoved, SameEdited DEF Moved, Safe, Edited
    <3> HIDE DEF F, p
    <3>2. h' = Unwritten(h, r) \/ h' = Unwritten(F, p)
      BY <2>2 DEF DeleteUnflushed, F, p
    <3> QED BY <3>1, <3>2, <1>3 DEF Unwritten
  <2>4. Safe(h, h') /\ After(h')
    BY <1>0, <1>1, <2>3, HiveAfter DEF Moved
  <2>5. /\ h'.frees = h.frees /\ i' \in Nat \ {0} /\ Leads(h')
        /\ spoilt = "no" => Indexed(h') /\ (session = "full" => Full(h'))
    BY <1>0, <2>1, <2>3 DEF Moved, Safe, IndexKept, Control
  <2> QED BY <1>0, <2>4, <2>5, WithinPlan
<1> QED BY <1>0, <1>2, <1>3

\* Plans are sequences of operations.
LEMMA PlansAre ==
  ASSUME NEW n \in Nat, NEW q \in Plans(n)
  PROVE  q \in Seq(OpSet) /\ q # NoPlan
<1> DEFINE O == {Op(d, p) : d \in {"ensure", "set", "delvalue", "delkey"}, p \in Paths}
<1>1. O \subseteq OpSet
  BY DEF Op, OpSet
<1> HIDE DEF O
<1>2. PICK k \in 1..n : q \in [1..k -> O]
  BY DEF Plans, O
<1>3. q \in [1..k -> OpSet] /\ k \in Nat /\ k # 0
  BY <1>1, <1>2
<1>4. q \in Seq(OpSet) /\ Len(q) = k
  BY <1>3
<1> QED BY <1>3, <1>4 DEF NoPlan

\* A plan begins on a hive that lost nothing.
LEMMA BeginKept ==
  ASSUME SInv, spoilt # "hive", pc \notin Busy, NEW q \in Seq(OpSet),
         NEW mode \in {"single", "partial", "full"}, NEW fresh, NEW G, Begin(q, mode, G, fresh),
         Reopens(h, h'), mode = "single" => h'.frees = TRUE,
         mode # "single" => Leads(h'),
         mode # "single" /\ spoilt' = "no" => Indexed(h') /\ (mode = "full" => Full(h')),
         base' = Shown(h) \/ (base' = base /\ q = plan)
  PROVE  SInv'
<1>0. Control /\ HiveKept /\ Sound(h) /\ Whole(h)
  BY DEF SInv, HiveKept, Busy
<1>1. /\ Sound(h') /\ Whole(h') /\ NoDels(h') /\ Grows(h, h') /\ Keys(h') = Keys(h)
  BY <1>0, ReopensKept
<1>2. /\ plan' = q /\ pc' = (IF mode = "single" THEN "walk" ELSE "apply") /\ session' = mode
      /\ todo' = <<[ref |-> Root, path |-> <<>>]>> /\ i' = 1 /\ spoilt' = IF Covered(q, mode, fresh) THEN spoilt ELSE "twins"
  BY DEF Begin
<1>3. spoilt' # "hive"
  BY <1>2
<1>4. Control'
  BY <1>2, <1>3 DEF Control, Busy
<1>5. ~Deletes(q) /\ q # NoPlan => {w.path : w \in base'} \subseteq Found(h')
  <2> SUFFICES ASSUME ~Deletes(q), q # NoPlan PROVE {w.path : w \in base'} \subseteq Found(h')
    OBVIOUS
  <2>1. {w.path : w \in base'} \subseteq Found(h)
    <3>1. CASE base' = Shown(h)
      BY <3>1 DEF Found
    <3>2. CASE base' = base /\ q = plan
      BY <3>2, <1>0 DEF HiveKept
    <3> QED BY <3>1, <3>2
  <2>2. Found(h) \subseteq Found(h')
    BY <1>0, <1>1, GrowsFound
  <2> QED BY <2>1, <2>2
<1>6. todo' \in Seq(Visits(h'))
  <2>1. [ref |-> Root, path |-> <<>>] \in Visits(h')
    <3>1. Root \in Keys(h') /\ <<>> \in Seq(Nat)
      BY <1>1 DEF Sound, Shaped
    <3> QED BY <3>1 DEF Visits
  <2> QED BY <2>1, <1>2
<1>7. HiveKept'
  BY <1>1, <1>2, <1>5, <1>6 DEF HiveKept, Busy
<1>8. IndexKept'
  BY <1>2 DEF IndexKept
<1> QED BY <1>4, <1>7, <1>8 DEF SInv

\* NewSessionForPlan: a first try, or a retry of a plan that was cut off.
LEMMA NewSessionKept ==
  ASSUME SInv, NEW m \in Modes, NEW frees \in BOOLEAN, NEW q \in Seq(OpSet), NewSessionForPlan(m, frees, q)
  PROVE  SInv'
<1> DEFINE mode == ModeFor(m, Len(q))
           G == [Opened(mode, q) EXCEPT !.frees = frees]
<1>0. /\ pc = "closed" /\ spoilt # "hive" /\ pc \notin Busy /\ Sound(h) /\ Whole(h)
  BY DEF NewSessionForPlan, SInv, HiveKept, Busy
<1>1. mode \in {"single", "partial", "full"}
  BY DEF ModeFor, Modes
<1>2. /\ Begin(q, mode, G, TRUE) /\ (mode = "single" => frees = TRUE)
      /\ base' = Shown(h) \/ (base' = base /\ q = plan)
  BY DEF NewSessionForPlan
<1>3. h' = StartsOn(mode, q, frees)
  BY <1>2 DEF Begin, StartsOn
<1> HIDE DEF mode, G
<1>4. /\ Reopens(h, h') /\ h'.frees = frees /\ Leads(h') /\ Indexed(h')
      /\ mode = "full" => Full(h')
  BY <1>0, <1>1, <1>3, StartsIndexed
<1> QED BY <1>0, <1>1, <1>2, <1>4, BeginKept

\* ApplyNext: what an earlier plan left pending is forgotten.
LEMMA ApplyNextKept ==
  ASSUME SInv, NEW q \in Seq(OpSet), ApplyNext(q)
  PROVE  SInv'
<1>0. /\ pc \in {"done", "failed", "cancelled", "nospace"} /\ spoilt # "hive" /\ pc \notin Busy /\ Sound(h) /\ Whole(h)
      /\ HiveKept /\ IndexKept /\ Control
  BY DEF ApplyNext, SInv, HiveKept, Busy
<1>1. session \in {"single", "partial", "full"}
  BY <1>0 DEF Control
<1>2. Begin(q, session, h, FALSE) /\ base' = Shown(h)
  BY DEF ApplyNext
<1>3. h' = IF session = "single" THEN FreshIndex(h) ELSE [h EXCEPT !.pend = <<>>, !.ok = TRUE]
  BY <1>2 DEF Begin
<1>4. Reopens(h, h') /\ h'.frees = h.frees /\ (session # "single" => h'.nk = h.nk)
  BY <1>0, <1>3, ContinuesOn
<1>5. session = "single" => h'.frees = TRUE
  BY <1>0, <1>4 DEF HiveKept
<1>6. spoilt' = "no" => spoilt = "no" /\ DOMAIN h.pend = {}
  <2>1. spoilt' = "no" => spoilt = "no"
    BY <1>2 DEF Begin
  <2>2. spoilt = "no" => pc = "done"
    BY <1>0 DEF Control
  <2> QED BY <2>1, <2>2, <1>0 DEF HiveKept
<1>7. session # "single" => Leads(h')
  BY <1>0, <1>1, <1>4, KeepsIndex DEF IndexKept
<1>8. session # "single" /\ spoilt' = "no" => Indexed(h') /\ (session = "full" => Full(h'))
  BY <1>0, <1>1, <1>4, <1>6, KeepsIndex DEF IndexKept
<1> QED BY <1>0, <1>1, <1>2, <1>4, <1>5, <1>7, <1>8, BeginKept

\* Close.
LEMMA CloseKept ==
  ASSUME SInv, Close
  PROVE  SInv'
<1>0. /\ pc \in {"done", "failed", "cancelled", "nospace"} /\ pc' = "closed" /\ session' = "none" /\ UNCHANGED <<h, i, base>>
      /\ spoilt' = (IF spoilt = "session" THEN "no" ELSE spoilt)
      /\ plan' = (IF pc = "done" THEN NoPlan ELSE plan) /\ Control
  BY DEF Close, SInv
<1>1. NoPlan \in Seq(OpSet) /\ ~Deletes(NoPlan)
  BY DEF NoPlan, Deletes
<1>2. Control'
  BY <1>0, <1>1 DEF Control, Busy
<1>3. spoilt' # "hive" => HiveKept'
  <2> SUFFICES ASSUME spoilt' # "hive" PROVE HiveKept'
    OBVIOUS
  <2>1. HiveKept
    BY <1>0 DEF SInv
  <2>2. CASE pc = "done"
    <3>1. plan' = NoPlan /\ DOMAIN h.pend = {} /\ NoDels(h)
      BY <2>1, <2>2, <1>0 DEF HiveKept, NoDels
    <3> QED BY <3>1, <2>1, <2>2, <1>0, <1>1 DEF HiveKept, Busy
  <2>3. CASE pc # "done"
    <3>1. plan' = plan
      BY <2>3, <1>0
    <3> QED BY <3>1, <2>1, <2>3, <1>0 DEF HiveKept, Busy
  <2> QED BY <2>2, <2>3
<1>4. IndexKept'
  BY <1>0 DEF IndexKept
<1> QED BY <1>2, <1>3, <1>4 DEF SInv

\* Nothing that SInv is about changes.
LEMMA SameKept ==
  ASSUME SInv, UNCHANGED <<h, session, plan, pc, todo, i, base, spoilt>>
  PROVE  SInv'
BY DEF SInv, Control, HiveKept, IndexKept

\* SInv holds at first, is kept by every step and gives both properties.
LEMMA InitKept ==
  ASSUME Init
  PROVE  SInv
<1>1. PICK f \in Hives : h = NewHive(f)
  BY DEF Init
<1>2. Sound(h) /\ Whole(h) /\ NoDels(h)
  BY <1>1, NewHiveSound
<1>3. plan = <<>> /\ NoPlan = <<>> /\ <<>> \in Seq(OpSet) /\ ~Deletes(<<>>)
  BY DEF Init, NoPlan, Deletes
<1>4. /\ session = "none" /\ pc = "closed" /\ i = 1 /\ spoilt = "no"
  BY DEF Init
<1>5. Control
  BY <1>3, <1>4 DEF Control, Busy
<1>6. HiveKept
  BY <1>2, <1>3, <1>4 DEF HiveKept, Busy
<1>7. IndexKept
  BY <1>4 DEF IndexKept
<1> QED BY <1>5, <1>6, <1>7 DEF SInv

LEMMA StepKept ==
  ASSUME SInv, [Next]_vars
  PROVE  SInv'
<1>1. ASSUME NEW m \in Modes, BuildFails(m) PROVE SInv'
  BY <1>1, SameKept DEF BuildFails
<1>2. ASSUME NEW m \in Modes, NEW frees \in BOOLEAN,
             NEW q \in IF plan = NoPlan THEN Plans(IF plans = 0 THEN MaxOps ELSE MaxNext) ELSE {plan},
             NewSessionForPlan(m, frees, q)
      PROVE  SInv'
  <2>1. q \in Seq(OpSet)
    <3>1. CASE plan = NoPlan
      <4>1. MaxOps \in Nat /\ MaxNext \in Nat
        BY SessionAssumption
      <4> DEFINE n == IF plans = 0 THEN MaxOps ELSE MaxNext
      <4>2. n \in Nat /\ q \in Plans(n)
        BY <4>1, <3>1, <1>2
      <4> HIDE DEF n
      <4> QED BY <4>2, PlansAre
    <3>2. CASE plan # NoPlan
      BY <3>2, <1>2 DEF SInv, Control
    <3> QED BY <3>1, <3>2
  <2> QED BY <2>1, <1>2, NewSessionKept
<1>3. ASSUME NEW q \in Plans(MaxNext), ApplyNext(q) PROVE SInv'
  <2>1. q \in Seq(OpSet)
    BY SessionAssumption, PlansAre
  <2> QED BY <2>1, <1>3, ApplyNextKept
<1>4. ASSUME UNCHANGED vars PROVE SInv'
  BY <1>4, SameKept DEF vars
<1> QED BY <1>1, <1>2, <1>3, <1>4, ApplyStepKept, FlushAndCommitKept, FlushFailsKept, DeleteFailsKept, CancelKept, WalkKept, WalkDoneKept,
           CreateKept, CloseKept DEF Next

LEMMA CutOffSafeHolds ==
  ASSUME SInv
  PROVE  CutOffSafe
<1> SUFFICES ASSUME spoilt # "hive" \/ ~h.frees, plan # NoPlan
             PROVE  /\ (Deletes(plan) /\ h.frees) \/ Builds(h)
                    /\ Deletes(plan) \/ {w.path : w \in base} \subseteq {w.path : w \in Shown(h)}
  BY DEF CutOffSafe
<1>1. HiveKept /\ Sound(h)
  BY DEF SInv, HiveKept, Control
<1>2. (Deletes(plan) /\ h.frees) \/ Builds(h)
  BY <1>1, WholeBuilds DEF HiveKept
<1>3. Deletes(plan) \/ {w.path : w \in base} \subseteq {w.path : w \in Shown(h)}
  BY <1>1 DEF HiveKept, Found
<1> QED BY <1>2, <1>3

LEMMA HasKeysRightHolds ==
  ASSUME SInv
  PROVE  HasKeysRight
<1> SUFFICES ASSUME pc = "done", spoilt = "no", NEW p \in Paths
             PROVE  /\ HasKey(p) => p \in Found(h)
                    /\ session # "partial" => (p \in Found(h) => HasKey(p))
  BY DEF HasKeysRight, Found
<1>1. HiveKept /\ IndexKept /\ Sound(h) /\ Whole(h) /\ DOMAIN h.pend = {} /\ session \in {"single", "partial", "full"}
  BY DEF SInv, HiveKept, Control, Busy
<1>2. p \in Seq(Nat)
  BY PathsBounded
<1>3. CASE session = "single"
  <2>1. HasKey(p) <=> WalkLists(h, p) # {}
    BY <1>3 DEF HasKey
  <2> QED BY <2>1, <1>1, <1>2, WalkListsFound, FoundWalked
<1>4. CASE session # "single"
  <2>1. HasKey(p) <=> WalkPath(h, p) # {}
    BY <1>4 DEF HasKey
  <2>2. Indexed(h) /\ (session = "full" => Full(h))
    BY <1>1, <1>4 DEF IndexKept
  <2> QED BY <2>1, <2>2, <1>1, <1>2, <1>4, WalkPathFound, FoundWalked
<1> QED BY <1>3, <1>4

\* For any paths, hives, plans and retries: wherever a plan is cut off, by an
\* error of an operation, by a list that finds no room, by cancellation or
\* between two operations, the hive can be opened and indexed again unless the
\* plan frees keys, and no key is lost unless it deletes keys; except that a
\* flush may lose the old list it has freed when it cannot write the new one
\* (ApplyWithTx and Rollback of session.go, FlushDeferredSubkeys of nkedit.go).
THEOREM SessionCutOffSafe == Spec => []CutOffSafe
<1>1. Init => SInv
  BY InitKept
<1>2. SInv /\ [Next]_vars => SInv'
  BY StepKept
<1>3. SInv => CutOffSafe
  BY CutOffSafeHolds
<1> QED BY <1>1, <1>2, <1>3, PTL DEF Spec

\* For any paths, hives and plans: after a committed plan HasKeys answers what
\* the lists say, whether a full index, a partial one or a walk answers (HasKeys
\* and walkPathExists of session.go).
THEOREM SessionHasKeysRight == Spec => []HasKeysRight
<1>1. Init => SInv
  BY InitKept
<1>2. SInv /\ [Next]_vars => SInv'
  BY StepKept
<1>3. SInv => HasKeysRight
  BY HasKeysRightHolds
<1> QED BY <1>1, <1>2, <1>3, PTL DEF Spec
=============================================================================
