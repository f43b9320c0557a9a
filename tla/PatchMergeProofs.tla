-------------------------- MODULE PatchMergeProofs --------------------------
(***************************************************************************)
(* Proofs about PatchMerge, for any hive, any plans and any number of      *)
(* cells: wherever the merge stops, every key that can be reached is       *)
(* sound, and until the queue is applied the tree is the old one.          *)
(***************************************************************************)
EXTENDS PatchMerge, FiniteSetTheorems, NaturalsInduction, SequenceTheorems, WellFoundedInduction, TLAPS

Node == [del : BOOLEAN, vals : Seq([name : Nat, val : STRING \cup {Deleted}]), ref : Nat, sk : Nat,
         subs : Nat, nsubs : Nat, list : Nat, nvals : Nat]
Keys == {r \in Cells : cells[r].kind = "nk"}

\* Keys are sound in every state, and cells have their shapes.
CellsSound ==
  /\ DOMAIN cells = Cells /\ HiveRoot \in Keys
  /\ \A r \in Keys : cells[r] \in NkCell /\ KeySound(cells, r)
  /\ \A r \in Cells : cells[r].kind = "sk" => DOMAIN cells[r] = {"kind", "count"}

\* Before the queue is applied: the old cells are as they were, new cells are below top,
\* and new keys have no lists yet.
OldKept ==
  /\ top \in Nat /\ top > Len(Hive)
  /\ \A r \in DOMAIN Hive : cells[r] = Hive[r]
  /\ \A r \in Cells : r >= top => cells[r] = Unset
  /\ \A r \in Keys : r \notin DOMAIN Hive =>
       cells[r].subs = Invalid /\ cells[r].list = Invalid /\ cells[r].nvals = 0

\* Nodes of the trie and the keys they stand for.
Matched ==
  /\ trie \in [Named -> Node]
  /\ \A p \in Named : Exists(p) =>
       /\ trie[p].ref \in Keys /\ trie[p].sk = cells[trie[p].ref].sk
       /\ p # <<>> => cells[trie[p].ref].name = Last(p)
  /\ \A p, q \in Named : Exists(p) /\ trie[p].ref = trie[q].ref => p = q
  /\ Kids(<<>>) # {} => Exists(<<>>)

\* The queue, by what its updates are about.
Changes(f) == {u \in queue : u.field = f}
Pending(r, f) == \E u \in Changes(f) : u.ref = r
ToFree == {u.ref : u \in Changes("free")}
Category == [nsubs |-> 0, subs |-> 0, nvals |-> 0, list |-> 0, count |-> 1, free |-> 2]
QueueShaped ==
  \A u \in queue :
    /\ u.field \in DOMAIN Category /\ u.cat = Category[u.field]
    /\ u.field \in {"nsubs", "subs", "nvals", "list"} => u.ref \in Keys /\ u.val \in Nat
    /\ u.field = "count" => u.ref \in Cells /\ cells[u.ref].kind = "sk"
    /\ u.field = "free" => /\ u = Update(2, u.ref, "free", 0) /\ u.ref \in DOMAIN Hive
                           /\ cells[u.ref].kind \in {"subkeys", "values", "vk", "data"}

\* The lists that keys will refer to are sound, and nothing in them is freed.
QueueSound ==
  /\ \A u \in Changes("subs") : SubsSound(cells, u.val) /\ u.val \notin DOMAIN Hive
  /\ \A u \in Changes("list") : ListSound(cells, u.val) /\ ToFree \cap ValueCells(cells, u.val) = {}

\* A cell to be freed is one that a key refers to only until its pending update.
FreedLast ==
  \A x \in ToFree : \A r \in Keys :
    /\ x = cells[r].subs => Pending(r, "subs")
    /\ x \in ValueCells(cells, cells[r].list) => Pending(r, "list")

\* An old value in a new list is one of the same key.
OwnValues ==
  \A u \in Changes("list") : \A r \in OldKeys :
    ValueCells(OldHive, Hive[r].list) \cap ValueCells(cells, u.val) # {} => u.ref = r

\* A node whose values, or whose list, are still to be processed.
ValuesFresh(q) ==
  IF Exists(q)
  THEN /\ trie[q].list = cells[trie[q].ref].list /\ trie[q].nvals = cells[trie[q].ref].nvals
       /\ ~Pending(trie[q].ref, "list")
  ELSE trie[q].list = Invalid /\ trie[q].nvals = 0
SubsFresh(q) ==
  IF Exists(q) THEN trie[q].subs = cells[trie[q].ref].subs ELSE trie[q].subs = Invalid

\* The work that an entry of todo stands for.
Under(p, q) == Len(p) <= Len(q) /\ \A i \in 1..Len(p) : p[i] = q[i]
Covers(e, k, q) == (e.do \in {"node", "child"} /\ Under(e.p, q)) \/ (e.do = k /\ e.p = q)
EntryShaped(e) ==
  /\ e.do = "node" /\ Kids(e.p) # {} => Exists(e.p)
  /\ e.do = "child" => e.p # <<>> /\ Front(e.p) \in Named /\ Exists(Front(e.p))
  /\ e.do = "list" => Exists(e.p)
Entry == [do : {"node", "child", "values", "list"}, p : Named]
TodoShaped == todo \in Seq(Entry) /\ \A i \in 1..Len(todo) : EntryShaped(todo[i])
\* No work is done twice, and what is left finds the hive as Annotate read it.
Once(N, t) ==
  \A i, j \in 1..Len(t) : \A k \in {"values", "list"} : \A q \in N :
    Covers(t[i], k, q) /\ Covers(t[j], k, q) => i = j
TodoOnce == Once(Named, todo)
TodoFresh ==
  \A i \in 1..Len(todo) : \A q \in Named :
    /\ Covers(todo[i], "values", q) => ValuesFresh(q)
    /\ Covers(todo[i], "list", q) => SubsFresh(q)

Early == {"build", "annotate", "estimate"}
IInv ==
  /\ phase \in Early \cup {"execute", "overrun", "apply", "failed", "done"} /\ ops \in Seq(Op)
  /\ CellsSound
  /\ phase \notin {"apply", "done"} => OldKept
  /\ phase \in Early => todo = <<>> /\ queue = {} /\ gained = <<>>
  /\ phase = "annotate" => trie = [p \in Named |-> NewNode(p)]
  /\ phase \in {"estimate", "execute"} => Matched
  /\ phase = "estimate" => \A q \in Named : ValuesFresh(q) /\ SubsFresh(q)
  /\ phase = "execute" => /\ TodoShaped /\ TodoOnce /\ TodoFresh /\ OwnValues
                          /\ \A s \in DOMAIN gained : s \in Cells /\ cells[s].kind = "sk"
  /\ phase \in {"execute", "apply", "done"} => QueueShaped /\ QueueSound /\ FreedLast
-----------------------------------------------------------------------------
(***************************************************************************)
(* Numbers, finite sets and the sequence that puts a set in order.         *)
(***************************************************************************)
LEMMA Smallest ==
  ASSUME NEW S, S \subseteq Nat, S # {}
  PROVE  \E m \in S : \A k \in S : m <= k
<1>1. IsWellFoundedOn(OpToRel(<, Nat), Nat)
  BY NatLessThanWellFounded
<1>2. PICK m \in S : \A k \in S : <<k, m>> \notin OpToRel(<, Nat)
  BY <1>1, WFMin
<1>3. \A k \in S : ~(k < m)
  BY <1>2 DEF OpToRel
<1>4. \A k \in S : m <= k
  <2> SUFFICES ASSUME NEW k \in S PROVE m <= k
    OBVIOUS
  <2>1. k \in Nat /\ m \in Nat /\ ~(k < m)
    BY <1>3
  <2> QED BY <2>1
<1> QED BY <1>4

\* What a function makes of a finite set is finite.
LEMMA FiniteImage ==
  ASSUME NEW S, IsFiniteSet(S), NEW f
  PROVE  IsFiniteSet({f[x] : x \in S})
<1> DEFINE T == {f[x] : x \in S}
           g == [x \in S |-> f[x]]
<1>1. g \in Surjection(S, T)
  BY DEF Surjection
<1> QED BY <1>1, FS_Surjection

\* The members of S that f puts before x.
LEMMA RankOf ==
  ASSUME NEW S, IsFiniteSet(S), NEW f \in [S -> Nat], NEW x \in S
  PROVE  /\ Cardinality({y \in S : f[y] < f[x]}) \in 0..(Cardinality(S) - 1)
         /\ \A z \in S : f[x] < f[z] =>
              Cardinality({y \in S : f[y] < f[x]}) < Cardinality({y \in S : f[y] < f[z]})
<1> DEFINE B(w) == {y \in S : f[y] < f[w]}
<1>1. ASSUME NEW w \in S PROVE IsFiniteSet(B(w)) /\ Cardinality(B(w)) \in Nat
  <2>1. B(w) \in SUBSET S
    OBVIOUS
  <2>2. IsFiniteSet(B(w))
    BY <2>1, FS_Subset
  <2> QED BY <2>2, FS_CardinalityType
<1>2. x \notin B(x) /\ B(x) \in SUBSET S
  OBVIOUS
<1>3. Cardinality(S) \in Nat
  BY FS_CardinalityType
<1>4. Cardinality(B(x)) <= Cardinality(S) /\ Cardinality(S) # Cardinality(B(x))
  BY <1>2, FS_Subset
<1>5. Cardinality(B(x)) \in 0..(Cardinality(S) - 1)
  <2> DEFINE c == Cardinality(B(x))
  <2>1. c \in Nat /\ c <= Cardinality(S) /\ c # Cardinality(S)
    BY <1>1, <1>4
  <2> HIDE DEF c
  <2>2. c \in 0..(Cardinality(S) - 1)
    BY <2>1, <1>3
  <2> QED BY <2>2 DEF c
<1>6. ASSUME NEW z \in S, f[x] < f[z] PROVE Cardinality(B(x)) < Cardinality(B(z))
  <2>1. ASSUME NEW y \in B(x) PROVE y \in B(z)
    <3>1. f[y] \in Nat /\ f[x] \in Nat /\ f[z] \in Nat /\ f[y] < f[x]
      BY <2>1
    <3>2. f[y] < f[z]
      BY <3>1, <1>6
    <3> QED BY <2>1, <3>2
  <2>2. B(x) \in SUBSET B(z) /\ x \in B(z)
    BY <2>1, <1>6
  <2>3. B(x) # B(z)
    BY <2>2, <1>2
  <2>4. IsFiniteSet(B(z))
    BY <1>1
  <2> DEFINE X == B(x)  Z == B(z)
  <2> HIDE DEF B
  <2>5. Cardinality(X) <= Cardinality(Z) /\ Cardinality(Z) # Cardinality(X)
    BY <2>2, <2>3, <2>4, FS_Subset
  <2>6. Cardinality(X) \in Nat /\ Cardinality(Z) \in Nat
    BY <1>1
  <2> QED BY <2>5, <2>6
<1> QED BY <1>5, <1>6

\* InOrder lists members of S, none twice.
LEMMA InOrderOf ==
  ASSUME NEW S, IsFiniteSet(S), NEW f \in [S -> Nat], \A x, y \in S : f[x] = f[y] => x = y
  PROVE  /\ Cardinality(S) \in Nat
         /\ InOrder(S, f) \in [1..Cardinality(S) -> S]
         /\ \A i, j \in 1..Cardinality(S) : InOrder(S, f)[i] = InOrder(S, f)[j] => i = j
<1> DEFINE n == Cardinality(S)
           rank(x) == Cardinality({y \in S : f[y] < f[x]})
           r == [x \in S |-> rank(x)]
<1>1. n \in Nat
  BY FS_CardinalityType
<1>2. ASSUME NEW x \in S PROVE rank(x) \in 0..(n - 1) /\ \A z \in S : f[x] < f[z] => rank(x) < rank(z)
  BY RankOf
<1> HIDE DEF rank
<1>3. ASSUME NEW x \in S, NEW z \in S, x # z PROVE rank(x) # rank(z)
  <2>1. f[x] \in Nat /\ f[z] \in Nat /\ f[x] # f[z]
    BY <1>3
  <2>2. f[x] < f[z] \/ f[z] < f[x]
    BY <2>1
  <2>3. rank(x) \in Int /\ rank(z) \in Int
    BY <1>2, <1>1
  <2>4. rank(x) < rank(z) \/ rank(z) < rank(x)
    BY <2>2, <1>2
  <2> QED BY <2>3, <2>4
<1>4. r \in Injection(S, 0..(n - 1))
  <2>1. r \in [S -> 0..(n - 1)]
    BY <1>2
  <2>2. \A x, z \in S : r[x] = r[z] => x = z
    BY <1>3
  <2> QED BY <2>1, <2>2 DEF Injection, IsInjective
<1>5. IsFiniteSet(0..(n - 1)) /\ Cardinality(0..(n - 1)) = n
  <2>1. n - 1 \in Int /\ 0 \in Int
    BY <1>1
  <2>2. /\ IsFiniteSet(0..(n - 1))
        /\ Cardinality(0..(n - 1)) = IF 0 > n - 1 THEN 0 ELSE (n - 1) - 0 + 1
    BY <2>1, FS_Interval
  <2> HIDE DEF n
  <2> QED BY <2>2, <1>1
<1>6. r \in Surjection(S, 0..(n - 1))
  BY <1>4, <1>5, FS_Injection
<1>7. ASSUME NEW i \in 1..n PROVE InOrder(S, f)[i] \in S /\ rank(InOrder(S, f)[i]) = i - 1
  <2>1. i - 1 \in 0..(n - 1)
    BY <1>1
  <2>2. \E x \in S : rank(x) = i - 1
    BY <1>6, <2>1 DEF Surjection
  <2>3. InOrder(S, f)[i] = CHOOSE x \in S : rank(x) = i - 1
    BY DEF InOrder, rank
  <2> QED BY <2>2, <2>3
<1>8. ASSUME NEW i \in 1..n, NEW j \in 1..n, InOrder(S, f)[i] = InOrder(S, f)[j] PROVE i = j
  <2>1. i - 1 = j - 1
    BY <1>7, <1>8
  <2> QED BY <2>1, <1>1
<1>9. InOrder(S, f) \in [1..n -> S]
  <2> DEFINE at(i) == CHOOSE x \in S : rank(x) = i - 1
  <2>1. InOrder(S, f) = [i \in 1..n |-> at(i)]
    BY DEF InOrder, rank
  <2>2. ASSUME NEW i \in 1..n PROVE at(i) \in S
    BY <1>7, <2>1
  <2> HIDE DEF at
  <2> QED BY <2>1, <2>2
<1> QED BY <1>1, <1>8, <1>9
-----------------------------------------------------------------------------
(***************************************************************************)
(* Finding a key: what the walk down a path gives, step by step.           *)
(***************************************************************************)
Walks(C, p, n, g) ==
  g = [k \in 0..n |-> IF k = 0 THEN HiveRoot
                      ELSE IF g[k - 1] = Invalid THEN Invalid ELSE ChildOf(C, g[k - 1], p[k])]

LEMMA WalkExtends ==
  ASSUME NEW C, NEW p, NEW m \in Nat, NEW g, Walks(C, p, m, g)
  PROVE  \E h : Walks(C, p, m + 1, h)
<1> DEFINE next(r, k) == IF r = Invalid THEN Invalid ELSE ChildOf(C, r, p[k])
           h == [n \in 0..(m + 1) |-> IF n = m + 1 THEN next(g[m], n) ELSE g[n]]
           w(n) == IF n = 0 THEN HiveRoot ELSE next(h[n - 1], n)
<1>0. ASSUME NEW n \in 0..m PROVE g[n] = IF n = 0 THEN HiveRoot ELSE next(g[n - 1], n)
  BY DEF Walks
<1> HIDE DEF next
<1>1. ASSUME NEW n \in 0..(m + 1) PROVE h[n] = w(n)
  <2>1. CASE n = m + 1
    <3>1. n - 1 \in 0..(m + 1) /\ n - 1 # m + 1 /\ n # 0 /\ n - 1 = m
      BY <2>1
    <3>2. h[n - 1] = g[m]
      BY <3>1
    <3> QED BY <2>1, <3>1, <3>2
  <2>2. CASE n = 0
    <3>1. h[n] = g[n] /\ n \in 0..m
      BY <2>2
    <3>2. g[n] = HiveRoot
      BY <2>2, <3>1, <1>0
    <3> QED BY <2>2, <3>1, <3>2
  <2>3. CASE n # 0 /\ n # m + 1
    <3>1. h[n] = g[n] /\ h[n - 1] = g[n - 1] /\ n \in 0..m
      BY <2>3
    <3>2. g[n] = next(g[n - 1], n)
      BY <2>3, <3>1, <1>0
    <3> QED BY <2>3, <3>1, <3>2
  <2> QED BY <2>1, <2>2, <2>3
<1>2. h = [n \in 0..(m + 1) |-> h[n]]
  OBVIOUS
<1> HIDE DEF h
<1>3. h = [n \in 0..(m + 1) |-> w(n)]
  BY <1>1, <1>2
<1>4. Walks(C, p, m + 1, h)
  BY <1>3 DEF Walks, next
<1> QED BY <1>4

LEMMA WalkExists ==
  ASSUME NEW C, NEW p, NEW m \in Nat
  PROVE  \E g : Walks(C, p, m, g)
<1> DEFINE S == {n \in Nat : ~ \E g : Walks(C, p, n, g)}
<1> SUFFICES ASSUME S # {} PROVE FALSE
  OBVIOUS
<1>1. PICK n \in S : \A k \in S : n <= k
  BY Smallest
<1>2. CASE n = 0
  <2>1. Walks(C, p, 0, [k \in 0..0 |-> HiveRoot])
    BY DEF Walks
  <2> QED BY <1>2, <2>1
<1>3. CASE n # 0
  <2>1. n - 1 \in Nat /\ n - 1 \notin S
    BY <1>1, <1>3
  <2>2. PICK g : Walks(C, p, n - 1, g)
    BY <2>1
  <2>3. \E h : Walks(C, p, (n - 1) + 1, h)
    BY <2>1, <2>2, WalkExtends
  <2>4. (n - 1) + 1 = n
    OBVIOUS
  <2> QED BY <1>1, <2>3, <2>4
<1> QED BY <1>2, <1>3

LEMMA KeyAtWalks ==
  ASSUME NEW C, NEW p \in Seq(Nat)
  PROVE  \E g : Walks(C, p, Len(p), g) /\ KeyAt(C, p) = g[Len(p)]
<1> DEFINE f == CHOOSE g : Walks(C, p, Len(p), g)
<1>1. Len(p) \in Nat
  OBVIOUS
<1>2. Walks(C, p, Len(p), f)
  BY <1>1, WalkExists
<1>3. KeyAt(C, p) = f[Len(p)]
  BY DEF KeyAt, Walks
<1> QED BY <1>2, <1>3

\* Two walks agree as far as their paths do.
SameUpTo(p, q, m) == \A k \in 1..m : p[k] = q[k]
LEMMA WalksAgree ==
  ASSUME NEW C, NEW p, NEW q, NEW n \in Nat, NEW m \in Nat, m <= n, NEW g, NEW h,
         Walks(C, p, n, g), Walks(C, q, m, h), SameUpTo(p, q, m)
  PROVE  \A k \in 0..m : g[k] = h[k]
<1> DEFINE B == {k \in 0..m : g[k] # h[k]}
<1> SUFFICES ASSUME B # {} PROVE FALSE
  OBVIOUS
<1>0. B \subseteq Nat
  OBVIOUS
<1>1. PICK k \in B : \A l \in B : k <= l
  BY <1>0, Smallest
<1>2. k \in 0..m /\ k \in 0..n /\ g[k] # h[k]
  BY <1>1
<1>3. g[k] = IF k = 0 THEN HiveRoot ELSE IF g[k - 1] = Invalid THEN Invalid ELSE ChildOf(C, g[k - 1], p[k])
  BY <1>2 DEF Walks
<1>4. h[k] = IF k = 0 THEN HiveRoot ELSE IF h[k - 1] = Invalid THEN Invalid ELSE ChildOf(C, h[k - 1], q[k])
  BY <1>2 DEF Walks
<1>5. k # 0
  BY <1>2, <1>3, <1>4
<1>6. k - 1 \in 0..m /\ k - 1 \notin B /\ k \in 1..m
  BY <1>1, <1>2, <1>5
<1>7. g[k - 1] = h[k - 1] /\ p[k] = q[k]
  BY <1>6 DEF SameUpTo
<1> QED BY <1>2, <1>3, <1>4, <1>5, <1>7

\* A path without its last name.
LEMMA FrontOf ==
  ASSUME NEW p \in Seq(Nat), p # <<>>
  PROVE  /\ Front(p) \in Seq(Nat) /\ Len(p) \in Nat /\ Len(p) >= 1 /\ Len(Front(p)) = Len(p) - 1
         /\ \A i \in 1..(Len(p) - 1) : Front(p)[i] = p[i]
         /\ Last(p) \in Nat
<1>1. Len(p) \in Nat /\ Len(p) >= 1
  BY EmptySeq
<1>2. Front(p) = [i \in 1..(Len(p) - 1) |-> p[i]]
  BY <1>1 DEF Front
<1>3. \A i \in 1..(Len(p) - 1) : p[i] \in Nat
  BY <1>1
<1>4. Len(p) - 1 \in Nat
  BY <1>1
<1>5. Front(p) \in Seq(Nat) /\ Len(Front(p)) = Len(p) - 1
  BY <1>2, <1>3, <1>4
<1>6. Last(p) \in Nat
  BY <1>1 DEF Last
<1> QED BY <1>1, <1>2, <1>5, <1>6

\* Paths with the same front and the same last name are the same.
LEMMA SamePath ==
  ASSUME NEW p \in Seq(Nat), NEW q \in Seq(Nat), p # <<>>, q # <<>>,
         Front(p) = Front(q), Last(p) = Last(q)
  PROVE  p = q
<1>1. Len(p) = Len(q) /\ Len(p) \in Nat /\ Len(p) >= 1 /\ Len(q) \in Nat
  <2>1. Len(p) - 1 = Len(q) - 1 /\ Len(p) \in Nat /\ Len(q) \in Nat /\ Len(p) >= 1
    BY FrontOf
  <2> QED BY <2>1
<1>2. ASSUME NEW i \in 1..Len(p) PROVE p[i] = q[i]
  <2>1. CASE i = Len(p)
    BY <2>1, <1>1 DEF Last
  <2>2. CASE i # Len(p)
    <3>1. i \in 1..(Len(p) - 1) /\ i \in 1..(Len(q) - 1)
      BY <2>2, <1>1
    <3>2. Front(p)[i] = p[i] /\ Front(q)[i] = q[i]
      BY <3>1, FrontOf
    <3> QED BY <3>2
  <2> QED BY <2>1, <2>2
<1> QED BY <1>1, <1>2, SeqEqual

LEMMA KeyAtStep ==
  ASSUME NEW C, NEW p \in Seq(Nat)
  PROVE  /\ p = <<>> => KeyAt(C, p) = HiveRoot
         /\ p # <<>> => KeyAt(C, p) = IF KeyAt(C, Front(p)) = Invalid THEN Invalid
                                      ELSE ChildOf(C, KeyAt(C, Front(p)), Last(p))
<1>1. PICK g : Walks(C, p, Len(p), g) /\ KeyAt(C, p) = g[Len(p)]
  BY KeyAtWalks
<1>2. ASSUME p = <<>> PROVE KeyAt(C, p) = HiveRoot
  <2>1. Len(p) = 0
    BY <1>2
  <2>2. g[0] = HiveRoot
    BY <1>1, <2>1 DEF Walks
  <2> QED BY <1>1, <2>1, <2>2
<1>3. ASSUME p # <<>>
      PROVE  KeyAt(C, p) = IF KeyAt(C, Front(p)) = Invalid THEN Invalid
                           ELSE ChildOf(C, KeyAt(C, Front(p)), Last(p))
  <2> DEFINE q == Front(p)  n == Len(p)
  <2>1. /\ q \in Seq(Nat) /\ n \in Nat /\ n >= 1 /\ Len(q) = n - 1
        /\ \A i \in 1..(n - 1) : q[i] = p[i]
    BY <1>3, FrontOf
  <2>2. PICK h : Walks(C, q, Len(q), h) /\ KeyAt(C, q) = h[Len(q)]
    BY <2>1, KeyAtWalks
  <2> HIDE DEF q
  <2>3. \A k \in 0..(n - 1) : g[k] = h[k]
    <3> DEFINE m == n - 1
    <3>1. m \in Nat /\ m <= n /\ n \in Nat
      BY <2>1
    <3>2. Walks(C, p, n, g) /\ Walks(C, q, m, h)
      BY <1>1, <2>1, <2>2
    <3>3. SameUpTo(p, q, m)
      BY <2>1 DEF SameUpTo
    <3> HIDE DEF n, m
    <3>4. \A k \in 0..m : g[k] = h[k]
      BY <3>1, <3>2, <3>3, WalksAgree
    <3> QED BY <3>4 DEF m
  <2>4. g[n] = IF g[n - 1] = Invalid THEN Invalid ELSE ChildOf(C, g[n - 1], p[n])
    <3>1. n \in 0..n /\ n # 0
      BY <2>1
    <3> QED BY <3>1, <1>1 DEF Walks
  <2>5. g[n - 1] = KeyAt(C, q)
    <3>1. n - 1 \in 0..(n - 1)
      BY <2>1
    <3> QED BY <3>1, <2>1, <2>2, <2>3
  <2> QED BY <1>1, <2>4, <2>5 DEF q, Last
<1> QED BY <1>2, <1>3
-----------------------------------------------------------------------------
(***************************************************************************)
(* The old hive, and hives with more cells.                                *)
(***************************************************************************)
LEMMA HiveCells ==
  /\ Len(Hive) \in Nat /\ DOMAIN Hive = 1..Len(Hive) /\ DOMAIN Hive \subseteq Cells
  /\ Cells \subseteq Nat /\ Invalid \notin Cells /\ Invalid \notin DOMAIN Hive
  /\ DOMAIN OldHive = Cells /\ \A r \in DOMAIN Hive : OldHive[r] = Hive[r]
  /\ \A r \in Cells : OldHive[r].kind # "free" => r \in DOMAIN Hive
<1>1. Len(Hive) \in Nat /\ DOMAIN Hive = 1..Len(Hive) /\ MaxCell \in Nat /\ Len(Hive) <= MaxCell
  BY HiveAssumption
<1>2. DOMAIN Hive \subseteq Cells
  BY <1>1 DEF Cells
<1>3. Cells \subseteq Nat /\ Invalid \notin Cells
  BY <1>1 DEF Cells, Invalid
<1>4. DOMAIN OldHive = Cells /\ \A r \in DOMAIN Hive : OldHive[r] = Hive[r]
  BY <1>2 DEF OldHive
<1>5. ASSUME NEW r \in Cells, OldHive[r].kind # "free" PROVE r \in DOMAIN Hive
  BY <1>5 DEF OldHive, Unset
<1> QED BY <1>1, <1>2, <1>3, <1>4, <1>5

LEMMA OldKey ==
  ASSUME NEW r \in OldKeys
  PROVE  /\ r \in DOMAIN Hive /\ r \in Cells /\ OldHive[r] = Hive[r] /\ Hive[r] \in NkCell
         /\ KeySound(OldHive, r)
         /\ Hive[r].nvals = (IF Hive[r].list = Invalid THEN 0 ELSE Len(Hive[Hive[r].list].refs))
BY HiveAssumption, HiveCells DEF OldKeys

LEMMA OldKeyIn ==
  ASSUME NEW r \in Cells, OldHive[r].kind = "nk"
  PROVE  r \in OldKeys
BY HiveCells DEF OldKeys

Sound(C) ==
  /\ HiveRoot \in Cells /\ C[HiveRoot].kind = "nk"
  /\ \A r \in Cells : C[r].kind = "nk" => KeySound(C, r)

LEMMA OldSound == Sound(OldHive)
<1>1. HiveRoot \in OldKeys
  BY HiveAssumption
<1>2. HiveRoot \in Cells /\ OldHive[HiveRoot].kind = "nk"
  BY <1>1, OldKey DEF OldKeys
<1>3. ASSUME NEW r \in Cells, OldHive[r].kind = "nk" PROVE KeySound(OldHive, r)
  BY <1>3, OldKeyIn, OldKey
<1> QED BY <1>2, <1>3 DEF Sound

\* The entries of a sound list.
LEMMA SubsEntries ==
  ASSUME NEW C, NEW l, SubsSound(C, l), l # Invalid
  PROVE  /\ l \in Cells /\ Entries(C, l) = C[l].refs /\ C[l].refs \in Seq(Cells)
         /\ Range(C[l].refs) \subseteq Cells /\ \A e \in Range(C[l].refs) : C[e].kind = "nk"
         /\ C[l].kind = "subkeys"
<1>1. l \in Cells /\ C[l].kind = "subkeys" /\ C[l].refs \in Seq(Cells) /\ \A e \in Range(C[l].refs) : C[e].kind = "nk"
  BY DEF SubsSound
<1>2. C[l] # Unset
  BY <1>1 DEF Unset
<1>3. Range(C[l].refs) \subseteq Cells
  BY <1>1 DEF Range
<1> QED BY <1>1, <1>2, <1>3 DEF Entries

LEMMA ListEntries ==
  ASSUME NEW C, NEW l, ListSound(C, l), l # Invalid
  PROVE  /\ l \in Cells /\ Entries(C, l) = C[l].refs /\ C[l].refs \in Seq(Cells)
         /\ Range(C[l].refs) \subseteq Cells /\ \A v \in Range(C[l].refs) : VkSound(C, v)
         /\ C[l].kind = "values"
<1>1. l \in Cells /\ C[l].kind = "values" /\ C[l].refs \in Seq(Cells) /\ \A v \in Range(C[l].refs) : VkSound(C, v)
  BY DEF ListSound
<1>2. C[l] # Unset
  BY <1>1 DEF Unset
<1>3. Range(C[l].refs) \subseteq Cells
  BY <1>1 DEF Range
<1> QED BY <1>1, <1>2, <1>3 DEF Entries

LEMMA ChildFound ==
  ASSUME NEW C, NEW r, NEW n, KeySound(C, r), ChildOf(C, r, n) # Invalid
  PROVE  /\ C[r].subs # Invalid /\ ChildOf(C, r, n) \in Range(C[C[r].subs].refs)
         /\ C[ChildOf(C, r, n)].name = n
<1> DEFINE es == Entries(C, C[r].subs)
           hit == {i \in DOMAIN es : C[es[i]].name = n}
           i == CHOOSE j \in hit : TRUE
<1>1. ChildOf(C, r, n) = IF hit = {} THEN Invalid ELSE es[i]
  BY DEF ChildOf
<1>2. hit # {} /\ i \in hit
  BY <1>1
<1>3. i \in DOMAIN es /\ C[es[i]].name = n /\ ChildOf(C, r, n) = es[i]
  BY <1>1, <1>2
<1>4. C[r].subs # Invalid
  <2> SUFFICES ASSUME C[r].subs = Invalid PROVE FALSE
    OBVIOUS
  <2>1. es = <<>>
    BY DEF Entries
  <2>2. DOMAIN es = {}
    BY <2>1
  <2> HIDE DEF es
  <2> QED BY <1>3, <2>2
<1>5. es = C[C[r].subs].refs
  BY <1>4, SubsEntries DEF KeySound
<1> QED BY <1>3, <1>4, <1>5 DEF Range

LEMMA KeyAtKey ==
  ASSUME NEW C, Sound(C), NEW p \in Seq(Nat), KeyAt(C, p) # Invalid
  PROVE  KeyAt(C, p) \in Cells /\ C[KeyAt(C, p)].kind = "nk" /\ KeySound(C, KeyAt(C, p))
<1> DEFINE Good(q) == KeyAt(C, q) # Invalid => KeyAt(C, q) \in Cells /\ C[KeyAt(C, q)].kind = "nk"
           B == {n \in Nat : \E q \in Seq(Nat) : Len(q) = n /\ ~Good(q)}
<1>1. B = {}
  <2> SUFFICES ASSUME B # {} PROVE FALSE
    OBVIOUS
  <2>1. PICK n \in B : \A k \in B : n <= k
    BY Smallest
  <2>2. PICK q \in Seq(Nat) : Len(q) = n /\ ~Good(q)
    BY <2>1
  <2>3. q # <<>>
    BY <2>2, KeyAtStep DEF Sound
  <2>4. /\ Front(q) \in Seq(Nat) /\ Len(q) \in Nat /\ Len(Front(q)) = Len(q) - 1 /\ Len(q) >= 1
    BY <2>3, FrontOf
  <2>5. Good(Front(q))
    <3>1. Len(Front(q)) \in Nat /\ ~(n <= Len(Front(q)))
      BY <2>2, <2>4
    <3>2. Len(Front(q)) \notin B
      BY <3>1, <2>1
    <3> QED BY <3>1, <3>2, <2>4
  <2> DEFINE r == KeyAt(C, Front(q))
  <2>6. KeyAt(C, q) = IF r = Invalid THEN Invalid ELSE ChildOf(C, r, Last(q))
    BY <2>3, KeyAtStep
  <2>7. r # Invalid /\ r \in Cells /\ C[r].kind = "nk" /\ KeyAt(C, q) = ChildOf(C, r, Last(q)) /\ KeyAt(C, q) # Invalid
    BY <2>2, <2>5, <2>6
  <2> HIDE DEF r
  <2>8. KeySound(C, r)
    BY <2>7 DEF Sound
  <2>9. C[r].subs # Invalid /\ KeyAt(C, q) \in Range(C[C[r].subs].refs)
    BY <2>7, <2>8, ChildFound
  <2>10. SubsSound(C, C[r].subs)
    BY <2>8 DEF KeySound
  <2>11. KeyAt(C, q) \in Cells /\ C[KeyAt(C, q)].kind = "nk"
    BY <2>9, <2>10, SubsEntries
  <2> QED BY <2>2, <2>11
<1>2. Len(p) \in Nat
  OBVIOUS
<1>3. Good(p)
  BY <1>1, <1>2
<1> QED BY <1>3 DEF Sound

\* A key is in the list of the key above it, under its last name.
LEMMA KeyAtParent ==
  ASSUME NEW C, Sound(C), NEW p \in Seq(Nat), p # <<>>, KeyAt(C, p) # Invalid
  PROVE  /\ KeyAt(C, Front(p)) # Invalid
         /\ C[KeyAt(C, Front(p))].subs # Invalid
         /\ KeyAt(C, p) \in Range(C[C[KeyAt(C, Front(p))].subs].refs)
         /\ C[KeyAt(C, p)].name = Last(p)
<1> DEFINE r == KeyAt(C, Front(p))
<1>0. Front(p) \in Seq(Nat)
  BY FrontOf
<1>1. KeyAt(C, p) = IF r = Invalid THEN Invalid ELSE ChildOf(C, r, Last(p))
  BY KeyAtStep
<1>2. r # Invalid /\ KeyAt(C, p) = ChildOf(C, r, Last(p))
  BY <1>1
<1>3. KeySound(C, r)
  BY <1>0, <1>2, KeyAtKey
<1> HIDE DEF r
<1>4. /\ C[r].subs # Invalid /\ ChildOf(C, r, Last(p)) \in Range(C[C[r].subs].refs)
      /\ C[ChildOf(C, r, Last(p))].name = Last(p)
  BY <1>2, <1>3, ChildFound
<1> QED BY <1>2, <1>4 DEF r

\* No two paths lead to the same key.
LEMMA KeyAtOnce ==
  ASSUME NEW p \in Seq(Nat), NEW q \in Seq(Nat),
         KeyAt(OldHive, p) # Invalid, KeyAt(OldHive, p) = KeyAt(OldHive, q)
  PROVE  p = q
<1> DEFINE K(x) == KeyAt(OldHive, x)
           B == {n \in Nat : \E x \in Seq(Nat) : Len(x) = n /\ K(x) # Invalid
                               /\ \E y \in Seq(Nat) : K(x) = K(y) /\ x # y}
<1>0. Sound(OldHive)
  BY OldSound
<1>a. ASSUME NEW x \in Seq(Nat), K(x) # Invalid, x # <<>>
      PROVE  K(x) # HiveRoot /\ OldHive[K(x)].parent = K(Front(x)) /\ OldHive[K(x)].name = Last(x) /\ K(Front(x)) # Invalid
  <2> DEFINE r == K(Front(x))
  <2>1. r # Invalid /\ OldHive[r].subs # Invalid /\ K(x) \in Range(OldHive[OldHive[r].subs].refs) /\ OldHive[K(x)].name = Last(x)
    BY <1>a, <1>0, KeyAtParent
  <2>2. Front(x) \in Seq(Nat)
    BY <1>a, FrontOf
  <2>3. r \in Cells /\ OldHive[r].kind = "nk" /\ KeySound(OldHive, r)
    BY <2>1, <2>2, <1>0, KeyAtKey
  <2>4. K(x) \in Cells /\ OldHive[K(x)].kind = "nk"
    BY <1>a, <1>0, KeyAtKey
  <2>5. r \in OldKeys /\ K(x) \in OldKeys
    BY <2>3, <2>4, OldKeyIn
  <2> DEFINE e == K(x)
  <2> HIDE DEF r, K
  <2>6. OldHive[r] = Hive[r] /\ OldHive[e] = Hive[e]
    BY <2>5, OldKey
  <2>7. SubsSound(OldHive, OldHive[r].subs)
    BY <2>3 DEF KeySound
  <2>8. Hive[r].subs \in Cells /\ OldHive[Hive[r].subs].kind = "subkeys"
    BY <2>1, <2>6, <2>7, SubsEntries
  <2>9. OldHive[Hive[r].subs] = Hive[Hive[r].subs]
    BY <2>8, HiveCells
  <2>10. Hive[r].subs # Invalid /\ e \in Range(Hive[Hive[r].subs].refs)
    BY <2>1, <2>6, <2>9
  <2>11. e # HiveRoot /\ Hive[e].parent = r
    BY <2>5, <2>10, HiveAssumption
  <2> QED BY <2>1, <2>6, <2>11 DEF r
<1> HIDE DEF K
<1>1. B = {}
  <2> SUFFICES ASSUME B # {} PROVE FALSE
    OBVIOUS
  <2>1. PICK n \in B : \A k \in B : n <= k
    BY Smallest
  <2>2. PICK x \in Seq(Nat), y \in Seq(Nat) : Len(x) = n /\ K(x) # Invalid /\ K(x) = K(y) /\ x # y
    BY <2>1
  <2>3. K(<<>>) = HiveRoot
    <3>1. <<>> \in Seq(Nat)
      OBVIOUS
    <3> QED BY <3>1, KeyAtStep DEF K
  <2>4. x # <<>> /\ y # <<>>
    BY <2>2, <2>3, <1>a
  <2>5. K(Front(x)) = K(Front(y)) /\ Last(x) = Last(y) /\ K(Front(x)) # Invalid
    BY <2>2, <2>4, <1>a
  <2>6. Front(x) \in Seq(Nat) /\ Front(y) \in Seq(Nat) /\ Len(Front(x)) \in Nat /\ ~(n <= Len(Front(x)))
    <3>1. /\ Front(x) \in Seq(Nat) /\ Front(y) \in Seq(Nat)
          /\ Len(x) \in Nat /\ Len(x) >= 1 /\ Len(Front(x)) = Len(x) - 1
      BY <2>4, FrontOf
    <3> QED BY <3>1, <2>2
  <2>7. Len(Front(x)) \notin B
    BY <2>6, <2>1
  <2>8. Front(x) = Front(y)
    BY <2>5, <2>6, <2>7
  <2> QED BY <2>2, <2>4, <2>5, <2>8, SamePath
<1>2. Len(p) \in Nat /\ Len(p) \notin B
  BY <1>1
<1>3. K(p) # Invalid /\ K(p) = K(q)
  BY DEF K
<1> QED BY <1>2, <1>3

\* Cells that agree with the hive on its own cells hold the same tree.
LEMMA SameChild ==
  ASSUME NEW C, \A r \in DOMAIN Hive : C[r] = Hive[r], NEW r \in OldKeys, NEW n
  PROVE  ChildOf(C, r, n) = ChildOf(OldHive, r, n)
<1> DEFINE l == Hive[r].subs
           es == Entries(C, l)
<1>1. C[r] = Hive[r] /\ OldHive[r] = Hive[r] /\ SubsSound(OldHive, l)
  BY OldKey DEF KeySound
<1>2. Entries(OldHive, l) = es /\ \A i \in DOMAIN es : C[es[i]] = OldHive[es[i]]
  <2>1. CASE l = Invalid
    <3>1. es = <<>> /\ Entries(OldHive, l) = <<>>
      BY <2>1 DEF Entries
    <3>2. DOMAIN es = {}
      BY <3>1
    <3> HIDE DEF es
    <3> QED BY <3>1, <3>2
  <2>2. CASE l # Invalid
    <3> HIDE DEF l
    <3>1. /\ l \in Cells /\ Entries(OldHive, l) = OldHive[l].refs /\ OldHive[l].refs \in Seq(Cells)
          /\ OldHive[l].kind = "subkeys"
          /\ Range(OldHive[l].refs) \subseteq Cells /\ \A e \in Range(OldHive[l].refs) : OldHive[e].kind = "nk"
      BY <1>1, <2>2, SubsEntries
    <3>2. C[l] = OldHive[l]
      BY <3>1, HiveCells
    <3>3. es = OldHive[l].refs
      BY <3>1, <3>2, <2>2 DEF Entries, Unset
    <3>4. ASSUME NEW i \in DOMAIN es PROVE C[es[i]] = OldHive[es[i]]
      <4>1. es[i] \in Range(OldHive[l].refs)
        BY <3>3, <3>4 DEF Range
      <4>2. es[i] \in Cells /\ OldHive[es[i]].kind = "nk"
        BY <4>1, <3>1
      <4>3. es[i] \in DOMAIN Hive
        BY <4>2, HiveCells
      <4> QED BY <4>3, HiveCells
    <3> QED BY <3>1, <3>3, <3>4
  <2> QED BY <2>1, <2>2
<1> HIDE DEF l, es
<1>3. {i \in DOMAIN es : C[es[i]].name = n} = {i \in DOMAIN es : OldHive[es[i]].name = n}
  BY <1>2
<1>4. C[r].subs = l /\ OldHive[r].subs = l
  BY <1>1 DEF l
<1>5. Entries(C, l) = es
  BY DEF es
<1> DEFINE hit == {i \in DOMAIN es : C[es[i]].name = n}
<1>6. ChildOf(C, r, n) = IF hit = {} THEN Invalid ELSE es[CHOOSE i \in hit : TRUE]
  BY <1>4, <1>5 DEF ChildOf
<1> DEFINE old == {i \in DOMAIN es : OldHive[es[i]].name = n}
<1>7. ChildOf(OldHive, r, n) = IF old = {} THEN Invalid ELSE es[CHOOSE i \in old : TRUE]
  BY <1>2, <1>4 DEF ChildOf
<1>8. hit = old
  BY <1>3
<1> HIDE DEF hit, old
<1> QED BY <1>6, <1>7, <1>8

LEMMA SameKey ==
  ASSUME NEW C, \A r \in DOMAIN Hive : C[r] = Hive[r], NEW p \in Seq(Nat)
  PROVE  KeyAt(C, p) = KeyAt(OldHive, p)
<1> DEFINE B == {n \in Nat : \E q \in Seq(Nat) : Len(q) = n /\ KeyAt(C, q) # KeyAt(OldHive, q)}
<1>1. B = {}
  <2> SUFFICES ASSUME B # {} PROVE FALSE
    OBVIOUS
  <2>1. PICK n \in B : \A k \in B : n <= k
    BY Smallest
  <2>2. PICK q \in Seq(Nat) : Len(q) = n /\ KeyAt(C, q) # KeyAt(OldHive, q)
    BY <2>1
  <2>3. q # <<>>
    BY <2>2, KeyAtStep
  <2>4. Front(q) \in Seq(Nat) /\ Len(Front(q)) \in Nat /\ ~(n <= Len(Front(q)))
    <3>1. Front(q) \in Seq(Nat) /\ Len(q) \in Nat /\ Len(q) >= 1 /\ Len(Front(q)) = Len(q) - 1
      BY <2>3, FrontOf
    <3> QED BY <3>1, <2>2
  <2> DEFINE r == KeyAt(OldHive, Front(q))
  <2>5. Len(Front(q)) \notin B
    BY <2>4, <2>1
  <2>6. KeyAt(C, Front(q)) = r
    BY <2>4, <2>5
  <2>7. KeyAt(C, q) = IF KeyAt(C, Front(q)) = Invalid THEN Invalid ELSE ChildOf(C, KeyAt(C, Front(q)), Last(q))
    BY <2>3, KeyAtStep
  <2>8. KeyAt(OldHive, q) = IF r = Invalid THEN Invalid ELSE ChildOf(OldHive, r, Last(q))
    BY <2>3, KeyAtStep
  <2>9. r # Invalid => r \in OldKeys
    BY <2>4, OldSound, KeyAtKey, OldKeyIn
  <2> HIDE DEF r
  <2>10. r # Invalid => ChildOf(C, r, Last(q)) = ChildOf(OldHive, r, Last(q))
    BY <2>9, SameChild
  <2> QED BY <2>2, <2>6, <2>7, <2>8, <2>10
<1>2. Len(p) \in Nat
  OBVIOUS
<1> QED BY <1>1, <1>2

LEMMA SameValues ==
  ASSUME NEW C, \A r \in DOMAIN Hive : C[r] = Hive[r], NEW r \in OldKeys
  PROVE  ValuesAt(C, r) = ValuesAt(OldHive, r)
<1> DEFINE l == Hive[r].list
           n == Hive[r].nvals
           vs == SubSeq(Entries(C, l), 1, n)
<1>1. C[r] = Hive[r] /\ OldHive[r] = Hive[r] /\ ListSound(OldHive, l)
  BY OldKey DEF KeySound
<1>2. vs = SubSeq(Entries(OldHive, l), 1, n) /\ \A i \in DOMAIN vs : C[vs[i]] = OldHive[vs[i]]
  <2>1. CASE l = Invalid
    <3>1. Entries(C, l) = <<>> /\ Entries(OldHive, l) = <<>> /\ n = 0
      BY <2>1, OldKey DEF Entries
    <3>2. vs = <<>> /\ DOMAIN vs = {}
      BY <3>1
    <3>3. SubSeq(Entries(OldHive, l), 1, n) = <<>>
      BY <3>1
    <3> HIDE DEF vs
    <3> QED BY <3>2, <3>3
  <2>2. CASE l # Invalid
    <3>0. n = Len(Hive[l].refs)
      BY <2>2, OldKey
    <3> HIDE DEF l, n
    <3>1. /\ l \in Cells /\ Entries(OldHive, l) = OldHive[l].refs /\ OldHive[l].refs \in Seq(Cells)
          /\ OldHive[l].kind = "values"
          /\ Range(OldHive[l].refs) \subseteq Cells /\ \A e \in Range(OldHive[l].refs) : VkSound(OldHive, e)
      BY <1>1, <2>2, ListEntries
    <3>2. l \in DOMAIN Hive /\ C[l] = OldHive[l] /\ Hive[l] = OldHive[l]
      BY <3>1, HiveCells
    <3>3. Entries(C, l) = OldHive[l].refs
      BY <3>1, <3>2, <2>2 DEF Entries, Unset
    <3> DEFINE s == OldHive[l].refs
    <3>4. s \in Seq(Cells) /\ n = Len(s)
      BY <3>0, <3>1, <3>2
    <3>5. SubSeq(s, 1, Len(s)) = s
      <4> HIDE DEF s
      <4> QED BY <3>4
    <3>6. vs = s
      BY <3>3, <3>4, <3>5
    <3>7. ASSUME NEW i \in DOMAIN vs PROVE C[vs[i]] = OldHive[vs[i]]
      <4>1. vs[i] \in Range(s)
        BY <3>6, <3>7 DEF Range
      <4>2. vs[i] \in Cells /\ OldHive[vs[i]].kind = "vk"
        BY <4>1, <3>1 DEF VkSound
      <4> HIDE DEF vs
      <4>3. vs[i] \in DOMAIN Hive
        BY <4>2, HiveCells
      <4> QED BY <4>3, HiveCells
    <3> QED BY <3>1, <3>3, <3>7
  <2> QED BY <2>1, <2>2
<1>3. ValuesAt(C, r) = [i \in DOMAIN vs |-> <<C[vs[i]].name, C[vs[i]].val>>]
  BY <1>1 DEF ValuesAt
<1>4. ValuesAt(OldHive, r) = [i \in DOMAIN vs |-> <<OldHive[vs[i]].name, OldHive[vs[i]].val>>]
  <2>1. ValuesAt(OldHive, r) = LET ws == SubSeq(Entries(OldHive, l), 1, n)
                               IN [i \in DOMAIN ws |-> <<OldHive[ws[i]].name, OldHive[ws[i]].val>>]
    BY <1>1 DEF ValuesAt
  <2> HIDE DEF vs
  <2> QED BY <2>1, <1>2
<1> HIDE DEF vs
<1> QED BY <1>2, <1>3, <1>4

LEMMA SameTree ==
  ASSUME NEW C, \A r \in DOMAIN Hive : C[r] = Hive[r]
  PROVE  TreeOf(C) = OldTree
<1>1. ASSUME NEW p \in PatchPaths PROVE KeyAt(C, p) = KeyAt(OldHive, p)
  BY PlansAssumption, SameKey
<1>2. ASSUME NEW p \in PatchPaths, KeyAt(OldHive, p) # Invalid
      PROVE  ValuesAt(C, KeyAt(C, p)) = ValuesAt(OldHive, KeyAt(OldHive, p))
  <2>1. p \in Seq(Nat)
    BY PlansAssumption
  <2>2. KeyAt(OldHive, p) \in OldKeys
    BY <1>2, <2>1, OldSound, KeyAtKey, OldKeyIn
  <2> QED BY <1>1, <2>2, SameValues
<1>3. {q \in PatchPaths : KeyAt(C, q) # Invalid} = {q \in PatchPaths : KeyAt(OldHive, q) # Invalid}
  BY <1>1
<1> QED BY <1>2, <1>3 DEF TreeOf, OldTree

\* Cells that are allocated stay as they are when others are.
Grown(C, D) == \A r \in Cells : C[r].kind # "free" => D[r] = C[r]

LEMMA GrownList ==
  ASSUME NEW C, NEW D, Grown(C, D), NEW l, ListSound(C, l)
  PROVE  ListSound(D, l) /\ ValueCells(D, l) = ValueCells(C, l)
<1>1. CASE l = Invalid
  BY <1>1 DEF ListSound, ValueCells
<1>2. CASE l # Invalid
  <2>1. /\ l \in Cells /\ C[l].refs \in Seq(Cells) /\ C[l].kind = "values"
        /\ Range(C[l].refs) \subseteq Cells /\ \A v \in Range(C[l].refs) : VkSound(C, v)
    BY <1>2, ListEntries
  <2>2. D[l] = C[l]
    BY <2>1 DEF Grown
  <2>3. ASSUME NEW v \in Range(C[l].refs) PROVE VkSound(D, v) /\ D[v] = C[v]
    <3>1. v \in Cells /\ VkSound(C, v)
      BY <2>1
    <3>2. D[v] = C[v]
      BY <3>1 DEF VkSound, Grown
    <3>3. C[v].data # Invalid => D[C[v].data] = C[C[v].data]
      BY <3>1 DEF VkSound, Grown
    <3> QED BY <3>1, <3>2, <3>3 DEF VkSound
  <2>4. ListSound(D, l)
    BY <2>1, <2>2, <2>3 DEF ListSound
  <2>5. {D[v].data : v \in Range(D[l].refs)} = {C[v].data : v \in Range(C[l].refs)}
    BY <2>2, <2>3
  <2> QED BY <2>2, <2>4, <2>5 DEF ValueCells
<1> QED BY <1>1, <1>2

LEMMA GrownSubs ==
  ASSUME NEW C, NEW D, Grown(C, D), NEW l, SubsSound(C, l)
  PROVE  SubsSound(D, l)
<1>1. CASE l = Invalid
  BY <1>1 DEF SubsSound
<1>2. CASE l # Invalid
  <2>1. /\ l \in Cells /\ C[l].refs \in Seq(Cells) /\ C[l].kind = "subkeys"
        /\ Range(C[l].refs) \subseteq Cells /\ \A e \in Range(C[l].refs) : C[e].kind = "nk"
    BY <1>2, SubsEntries
  <2>2. D[l] = C[l]
    BY <2>1 DEF Grown
  <2>3. ASSUME NEW e \in Range(C[l].refs) PROVE D[e].kind = "nk"
    <3>1. e \in Cells /\ C[e].kind = "nk"
      BY <2>1
    <3> QED BY <3>1 DEF Grown
  <2> QED BY <2>1, <2>2, <2>3 DEF SubsSound
<1> QED BY <1>1, <1>2

LEMMA GrownKey ==
  ASSUME NEW C, NEW D, Grown(C, D), NEW r, KeySound(C, r)
  PROVE  D[r] = C[r] /\ KeySound(D, r)
<1>1. /\ r \in Cells /\ C[r].kind = "nk" /\ C[r].sk \in Cells /\ C[C[r].sk].kind = "sk"
      /\ SubsSound(C, C[r].subs) /\ ListSound(C, C[r].list)
  BY DEF KeySound
<1>2. D[r] = C[r] /\ D[C[r].sk] = C[C[r].sk]
  BY <1>1 DEF Grown
<1>3. SubsSound(D, C[r].subs) /\ ListSound(D, C[r].list)
  BY <1>1, GrownSubs, GrownList
<1> QED BY <1>1, <1>2, <1>3 DEF KeySound
-----------------------------------------------------------------------------
(***************************************************************************)
(* The start, and the phases that change no cell.                          *)
(***************************************************************************)
LEMMA SafeFromInv ==
  ASSUME IInv
  PROVE  PatchSafe
<1>1. CellsSound /\ (phase \notin {"apply", "done"} => OldKept)
  BY DEF IInv
<1>2. Sound(cells)
  BY <1>1 DEF CellsSound, Sound, Keys
<1>3. CrashSafe
  BY <1>2, KeyAtKey, PlansAssumption DEF CrashSafe
<1>4. FailsWhole
  <2> SUFFICES ASSUME phase \in {"build", "annotate", "estimate", "execute", "overrun", "failed"} PROVE TreeOf(cells) = OldTree
    BY DEF FailsWhole
  <2>1. \A r \in DOMAIN Hive : cells[r] = Hive[r]
    BY <1>1 DEF OldKept
  <2> QED BY <2>1, SameTree
<1> QED BY <1>3, <1>4 DEF PatchSafe

LEMMA InitStep ==
  ASSUME PatchInit
  PROVE  IInv
<1>1. phase = "build" /\ cells = OldHive /\ top = Len(Hive) + 1 /\ todo = <<>> /\ queue = {} /\ gained = <<>>
  BY DEF PatchInit
<1>2. ops \in Seq(Op)
  BY PlansAssumption DEF PatchInit
<1>3. CellsSound
  <2>1. DOMAIN cells = Cells /\ HiveRoot \in Keys
    BY <1>1, HiveCells, OldSound DEF Sound, Keys
  <2>2. ASSUME NEW r \in Keys PROVE cells[r] \in NkCell /\ KeySound(cells, r)
    <3>1. r \in OldKeys
      BY <2>2, <1>1, OldKeyIn DEF Keys
    <3> QED BY <3>1, <1>1, OldKey
  <2>3. ASSUME NEW r \in Cells, cells[r].kind = "sk" PROVE DOMAIN cells[r] = {"kind", "count"}
    <3>1. r \in DOMAIN Hive /\ OldHive[r] = Hive[r]
      BY <2>3, <1>1, HiveCells
    <3> QED BY <3>1, <2>3, <1>1, HiveAssumption
  <2> QED BY <2>1, <2>2, <2>3 DEF CellsSound
<1>4. OldKept
  <2>1. top \in Nat /\ top > Len(Hive)
    BY <1>1, HiveCells
  <2>2. \A r \in DOMAIN Hive : cells[r] = Hive[r]
    BY <1>1, HiveCells
  <2>3. ASSUME NEW r \in Cells, r >= top PROVE cells[r] = Unset
    <3>1. r \notin 1..Len(Hive)
      BY <2>3, <1>1, HiveCells
    <3>2. r \notin DOMAIN Hive
      BY <3>1, HiveCells
    <3> QED BY <3>2, <1>1 DEF OldHive
  <2>4. ASSUME NEW r \in Keys PROVE r \in DOMAIN Hive
    BY <2>4, <1>1, HiveCells DEF Keys
  <2> QED BY <2>1, <2>2, <2>3, <2>4 DEF OldKept
<1> QED BY <1>1, <1>2, <1>3, <1>4 DEF IInv, Early

\* The trie of a plan: paths and nodes.
LEMMA NamedPaths ==
  ASSUME ops \in Seq(Op)
  PROVE  Named \subseteq Seq(Nat) /\ IsFiniteSet(Named) /\ <<>> \in Named
<1> DEFINE F(i) == {SubSeq(ops[i].path, 1, k) : k \in 0..Len(ops[i].path)}
           G == {F(i) : i \in DOMAIN ops}
<1>1. ASSUME NEW i \in DOMAIN ops PROVE F(i) \subseteq Seq(Nat) /\ IsFiniteSet(F(i))
  <2>0. ops[i] \in Op
    OBVIOUS
  <2>1. ops[i].path \in Seq(Nat) /\ Len(ops[i].path) \in Nat
    BY <2>0 DEF Op
  <2> DEFINE s == ops[i].path  n == Len(s)
             f == [k \in 0..n |-> SubSeq(s, 1, k)]
  <2>2. IsFiniteSet(0..n)
    <3>1. n \in Int /\ 0 \in Int
      BY <2>1
    <3> HIDE DEF n
    <3> QED BY <3>1, FS_Interval
  <2>3. F(i) = {f[k] : k \in 0..n}
    OBVIOUS
  <2>4. IsFiniteSet(F(i))
    <3> HIDE DEF f, F
    <3> QED BY <2>2, <2>3, FiniteImage
  <2>5. ASSUME NEW k \in 0..n PROVE SubSeq(s, 1, k) \in Seq(Nat)
    <3> HIDE DEF s
    <3>1. s \in Seq(Nat) /\ k \in 0..Len(s)
      BY <2>1 DEF s
    <3>2. \A j \in 1..k : s[j] \in Nat
      BY <3>1
    <3> QED BY <3>1, <3>2, SubSeqProperties
  <2> QED BY <2>4, <2>5
<1>2. IsFiniteSet(G)
  <2> DEFINE f == [i \in DOMAIN ops |-> F(i)]
  <2>1. IsFiniteSet(DOMAIN ops)
    <3>1. DOMAIN ops = 1..Len(ops) /\ Len(ops) \in Int /\ 1 \in Int
      OBVIOUS
    <3> QED BY <3>1, FS_Interval
  <2>2. G = {f[i] : i \in DOMAIN ops}
    OBVIOUS
  <2> HIDE DEF f, G
  <2> QED BY <2>1, <2>2, FiniteImage
<1>3. IsFiniteSet(UNION G)
  <2>1. \A T \in G : IsFiniteSet(T)
    BY <1>1
  <2> HIDE DEF G
  <2> QED BY <1>2, <2>1, FS_UNION
<1>4. IsFiniteSet({<<>>} \cup UNION G)
  <2>1. IsFiniteSet((UNION G) \cup {<<>>})
    BY <1>3, FS_AddElement
  <2>2. (UNION G) \cup {<<>>} = {<<>>} \cup UNION G
    OBVIOUS
  <2> QED BY <2>1, <2>2
<1>5. Named = {<<>>} \cup UNION G
  BY DEF Named
<1>6. UNION G \subseteq Seq(Nat)
  BY <1>1
<1>7. <<>> \in Seq(Nat)
  OBVIOUS
<1> QED BY <1>4, <1>5, <1>6, <1>7

LEMMA NewNodeIn ==
  ASSUME ops \in Seq(Op), NEW p
  PROVE  /\ NewNode(p) \in Node /\ NewNode(p).ref = Invalid /\ NewNode(p).list = Invalid
         /\ NewNode(p).nvals = 0 /\ NewNode(p).subs = Invalid
<1> DEFINE S == OpsAt(p, {"set", "unset"})
           n == Cardinality(S)
           f == [i \in S |-> i]
           q == InOrder(S, f)
           W == [name : Nat, val : STRING \cup {Deleted}]
<1>1. IsFiniteSet(DOMAIN ops) /\ DOMAIN ops \subseteq Nat
  <2>1. DOMAIN ops = 1..Len(ops) /\ Len(ops) \in Int /\ 1 \in Int
    OBVIOUS
  <2> QED BY <2>1, FS_Interval
<1>2. S \in SUBSET (DOMAIN ops)
  BY DEF OpsAt
<1>3. IsFiniteSet(S) /\ S \subseteq Nat
  BY <1>1, <1>2, FS_Subset
<1>4. n \in Nat /\ q \in [1..n -> S]
  <2>1. f \in [S -> Nat]
    BY <1>3
  <2>2. \A x, y \in S : f[x] = f[y] => x = y
    OBVIOUS
  <2> HIDE DEF f, S
  <2> QED BY <1>3, <2>1, <2>2, InOrderOf
<1> DEFINE w(k) == [name |-> ops[q[k]].name, val |-> IF ops[q[k]].is = "set" THEN ops[q[k]].val ELSE Deleted]
<1>5. ASSUME NEW k \in 1..n PROVE w(k) \in W
  <2> DEFINE i == q[k]
  <2>1. i \in DOMAIN ops
    BY <1>2, <1>4
  <2> HIDE DEF q
  <2>2. ops[i] \in Op
    BY <2>1
  <2>3. ops[i].name \in Nat /\ ops[i].val \in STRING
    BY <2>2 DEF Op
  <2> DEFINE a == ops[i].name  b == IF ops[i].is = "set" THEN ops[i].val ELSE Deleted
  <2>4. a \in Nat /\ b \in STRING \cup {Deleted}
    BY <2>3
  <2>5. w(k) = [name |-> a, val |-> b]
    OBVIOUS
  <2> HIDE DEF a, b, w
  <2> QED BY <2>4, <2>5
<1>6. ValueOps(p) = [k \in 1..n |-> w(k)]
  BY DEF ValueOps
<1> HIDE DEF w, n
<1>7. ValueOps(p) \in Seq(W)
  BY <1>4, <1>5, <1>6
<1>8. (OpsAt(p, {"delete"}) # {}) \in BOOLEAN
  OBVIOUS
<1> QED BY <1>7, <1>8 DEF NewNode, Node, Invalid

LEMMA BuildStep ==
  ASSUME IInv, Build
  PROVE  IInv'
<1>1. phase = "build" /\ phase' = "annotate" /\ UNCHANGED <<ops, cells, top, todo, queue, gained>>
  BY DEF Build
<1>2. CellsSound'
  BY <1>1 DEF IInv, CellsSound, Keys
<1>3. OldKept'
  BY <1>1 DEF IInv, OldKept, Keys
<1>4. trie' = [p \in Named' |-> NewNode(p)']
  BY <1>1 DEF Build, Named, NewNode, ValueOps, OpsAt
<1>5. ops' \in Seq(Op) /\ todo' = <<>> /\ queue' = {} /\ gained' = <<>>
  BY <1>1 DEF IInv, Early
<1> QED BY <1>1, <1>2, <1>3, <1>4, <1>5 DEF IInv, Early

LEMMA CancelStep ==
  ASSUME IInv, CancelMerge
  PROVE  IInv'
<1>1. phase \in Early /\ phase' = "failed" /\ UNCHANGED <<ops, cells, top, todo, queue, gained>>
  BY DEF CancelMerge, Early
<1>2. CellsSound'
  BY <1>1 DEF IInv, CellsSound, Keys
<1>3. OldKept'
  BY <1>1 DEF IInv, OldKept, Keys, Early
<1> QED BY <1>1, <1>2, <1>3 DEF IInv, Early

LEMMA AllocFailsStep ==
  ASSUME IInv, AllocFails
  PROVE  IInv'
<1>1. phase = "execute" /\ phase' = "failed" /\ UNCHANGED <<ops, cells, top>>
  BY DEF AllocFails
<1>2. CellsSound'
  BY <1>1 DEF IInv, CellsSound, Keys
<1>3. OldKept'
  BY <1>1 DEF IInv, OldKept, Keys
<1> QED BY <1>1, <1>2, <1>3 DEF IInv, Early

LEMMA OverrunStep ==
  ASSUME IInv, Overrun
  PROVE  IInv'
<1>1. phase = "execute" /\ phase' = "overrun" /\ UNCHANGED <<ops, cells, top>>
  BY DEF Overrun
<1>2. CellsSound'
  BY <1>1 DEF IInv, CellsSound, Keys
<1>3. OldKept'
  BY <1>1 DEF IInv, OldKept, Keys
<1> QED BY <1>1, <1>2, <1>3 DEF IInv, Early

LEMMA FinalizeStep ==
  ASSUME IInv, FinalizeHeader
  PROVE  IInv'
<1>1. phase = "apply" /\ phase' = "done" /\ UNCHANGED <<ops, cells, queue>> /\ queue = {}
  BY DEF FinalizeHeader
<1>2. CellsSound'
  BY <1>1 DEF IInv, CellsSound, Keys
<1>3. QueueShaped' /\ QueueSound' /\ FreedLast'
  BY <1>1 DEF QueueShaped, QueueSound, FreedLast, ToFree, Changes
<1> QED BY <1>1, <1>2, <1>3 DEF IInv, Early

\* What leaves the trie and the cells alone leaves them matched.
LEMMA MatchedKept ==
  ASSUME Matched, UNCHANGED <<ops, trie, cells>>
  PROVE  /\ Named' = Named /\ Matched' /\ Keys' = Keys
         /\ \A p : (Exists(p)' <=> Exists(p)) /\ Kids(p)' = Kids(p)
<1>1. Named' = Named
  BY DEF Named
<1>2. Keys' = Keys
  BY DEF Keys
<1>3. ASSUME NEW p PROVE (Exists(p)' <=> Exists(p)) /\ Kids(p)' = Kids(p)
  BY DEF Exists, Kids
<1>4. (trie \in [Named -> Node])'
  BY <1>1 DEF Matched
<1>5. ASSUME NEW p \in Named, Exists(p)
      PROVE  (/\ trie[p].ref \in Keys /\ trie[p].sk = cells[trie[p].ref].sk
              /\ p # <<>> => cells[trie[p].ref].name = Last(p))'
  BY <1>2, <1>5 DEF Matched
<1>6. ASSUME NEW p \in Named, NEW q \in Named, Exists(p), trie'[p].ref = trie'[q].ref
      PROVE  p = q
  BY <1>6 DEF Matched
<1>7. (Kids(<<>>) # {} => Exists(<<>>))'
  BY <1>3 DEF Matched
<1> QED BY <1>1, <1>2, <1>3, <1>4, <1>5, <1>6, <1>7 DEF Matched

LEMMA EstimateStep ==
  ASSUME IInv, Estimate
  PROVE  IInv'
<1>1. /\ phase = "estimate" /\ phase' = "execute" /\ UNCHANGED <<ops, trie, cells, top, queue, gained>>
      /\ todo' = <<[do |-> "node", p |-> <<>>]>> /\ queue = {} /\ gained = <<>>
  BY DEF Estimate, IInv, Early
<1>2. CellsSound'
  BY <1>1 DEF IInv, CellsSound, Keys
<1>3. OldKept'
  BY <1>1 DEF IInv, OldKept, Keys
<1>4. QueueShaped' /\ QueueSound' /\ FreedLast' /\ OwnValues'
  BY <1>1 DEF QueueShaped, QueueSound, FreedLast, OwnValues, ToFree, Changes
<1>5. Matched /\ \A q \in Named : ValuesFresh(q) /\ SubsFresh(q)
  BY <1>1 DEF IInv
<1>6. Named' = Named /\ Matched'
  BY <1>1, <1>5, MatchedKept
<1>7. \A q \in Named : ValuesFresh(q)' /\ SubsFresh(q)'
  BY <1>1, <1>5 DEF ValuesFresh, SubsFresh, Exists, Pending, Changes
<1>8. Len(todo') = 1 /\ todo'[1] = [do |-> "node", p |-> <<>>]
  BY <1>1
<1>9. TodoShaped'
  <2>1. <<>> \in Named
    BY NamedPaths DEF IInv
  <2>2. todo' \in Seq(Entry')
    BY <1>1, <1>6, <2>1 DEF Entry
  <2>3. Kids(<<>>)' # {} => Exists(<<>>)'
    BY <1>6 DEF Matched
  <2>4. \A i \in 1..Len(todo') : todo'[i] = [do |-> "node", p |-> <<>>]
    BY <1>8
  <2> QED BY <2>2, <2>3, <2>4 DEF TodoShaped, EntryShaped
<1>10. TodoOnce'
  <2>1. \A i, j \in 1..Len(todo') : i = j
    BY <1>8
  <2> QED BY <2>1 DEF TodoOnce, Once
<1>11. TodoFresh'
  BY <1>6, <1>7 DEF TodoFresh
<1>12. \A s \in DOMAIN gained' : FALSE
  BY <1>1
<1>13. ops' \in Seq(Op)
  BY <1>1 DEF IInv
<1> QED BY <1>1, <1>2, <1>3, <1>4, <1>6, <1>9, <1>10, <1>11, <1>12, <1>13 DEF IInv, Early

LEMMA AnnotateStep ==
  ASSUME IInv, Annotate
  PROVE  IInv'
<1>1. /\ phase = "annotate" /\ phase' = "estimate" /\ UNCHANGED <<ops, cells, top, todo, queue, gained>>
      /\ trie = [p \in Named |-> NewNode(p)] /\ todo = <<>> /\ queue = {} /\ gained = <<>>
  BY DEF Annotate, IInv, Early
<1>2. CellsSound' /\ CellsSound
  BY <1>1 DEF IInv, CellsSound, Keys
<1>3. OldKept' /\ OldKept
  BY <1>1 DEF IInv, OldKept, Keys
<1>4. ops \in Seq(Op) /\ Named' = Named /\ Keys' = Keys /\ Named \subseteq Seq(Nat) /\ <<>> \in Named
  BY <1>1, NamedPaths DEF IInv, Named, Keys
<1> DEFINE K(p) == KeyAt(cells, p)
           N(p) == [trie[p] EXCEPT !.ref = K(p), !.sk = cells[K(p)].sk,
                                   !.subs = cells[K(p)].subs, !.nsubs = cells[K(p)].nsubs,
                                   !.list = cells[K(p)].list, !.nvals = cells[K(p)].nvals]
<1>5. \/ trie' = trie
      \/ trie' = [p \in DOMAIN trie |-> IF K(p) = Invalid THEN trie[p] ELSE N(p)]
  BY DEF Annotate
<1>6. Kids(<<>>) = {} \/ trie' = [p \in DOMAIN trie |-> IF K(p) = Invalid THEN trie[p] ELSE N(p)]
  BY DEF Annotate
<1>7. Sound(cells) /\ \A r \in DOMAIN Hive : cells[r] = Hive[r]
  BY <1>2, <1>3 DEF CellsSound, Sound, Keys, OldKept
<1>8. ASSUME NEW p \in Named, K(p) # Invalid
      PROVE  /\ K(p) \in Keys /\ K(p) = KeyAt(OldHive, p) /\ cells[K(p)] \in NkCell
             /\ p # <<>> => cells[K(p)].name = Last(p)
  <2>1. p \in Seq(Nat)
    BY <1>4
  <2>2. K(p) \in Cells /\ cells[K(p)].kind = "nk"
    BY <1>7, <1>8, <2>1, KeyAtKey
  <2>3. K(p) = KeyAt(OldHive, p)
    BY <1>7, <2>1, SameKey
  <2>4. p # <<>> => cells[K(p)].name = Last(p)
    BY <1>7, <1>8, <2>1, KeyAtParent
  <2> QED BY <2>2, <2>3, <2>4, <1>2 DEF Keys, CellsSound
<1>9. ASSUME NEW p \in Named
      PROVE  /\ trie[p] \in Node /\ trie[p].ref = Invalid /\ trie[p].list = Invalid
             /\ trie[p].nvals = 0 /\ trie[p].subs = Invalid
  <2>1. trie[p] = NewNode(p)
    BY <1>1
  <2> QED BY <2>1, <1>4, NewNodeIn
<1> HIDE DEF K
<1>10. ASSUME NEW p \in Named, K(p) # Invalid
       PROVE  /\ N(p) \in Node /\ N(p).ref = K(p) /\ N(p).sk = cells[K(p)].sk /\ N(p).subs = cells[K(p)].subs
              /\ N(p).list = cells[K(p)].list /\ N(p).nvals = cells[K(p)].nvals
  <2> DEFINE c == cells[K(p)]  t == trie[p]
  <2>1. c \in NkCell /\ t \in Node /\ K(p) \in Nat
    BY <1>8, <1>9, <1>10, HiveCells DEF Keys
  <2>2. /\ c.sk \in Nat /\ c.subs \in Nat /\ c.nsubs \in Nat /\ c.list \in Nat /\ c.nvals \in Nat
    BY <2>1 DEF NkCell
  <2> HIDE DEF c
  <2>3. N(p) = [t EXCEPT !.ref = K(p), !.sk = c.sk, !.subs = c.subs, !.nsubs = c.nsubs, !.list = c.list, !.nvals = c.nvals]
    BY DEF c
  <2> HIDE DEF t, N
  <2> DEFINE m == [del |-> t.del, vals |-> t.vals, ref |-> K(p), sk |-> c.sk, subs |-> c.subs,
                   nsubs |-> c.nsubs, list |-> c.list, nvals |-> c.nvals]
  <2>4. N(p) = m
    BY <2>1, <2>3 DEF Node
  <2>5. m \in Node
    BY <2>1, <2>2 DEF Node
  <2>6. N(p) \in Node /\ N(p).ref = K(p) /\ N(p).sk = c.sk /\ N(p).subs = c.subs /\ N(p).list = c.list /\ N(p).nvals = c.nvals
    BY <2>4, <2>5
  <2> QED BY <2>6 DEF c
<1> HIDE DEF N
<1>11. ASSUME NEW p \in Named
       PROVE  /\ trie'[p] \in Node
              /\ trie'[p].ref = Invalid => trie'[p].list = Invalid /\ trie'[p].nvals = 0 /\ trie'[p].subs = Invalid
              /\ trie'[p].ref # Invalid => /\ K(p) # Invalid /\ trie'[p].ref = K(p) /\ trie'[p].sk = cells[K(p)].sk
                                           /\ trie'[p].list = cells[K(p)].list /\ trie'[p].nvals = cells[K(p)].nvals
                                           /\ trie'[p].subs = cells[K(p)].subs
  <2>1. trie'[p] = trie[p] \/ (K(p) # Invalid /\ trie'[p] = N(p))
    BY <1>1, <1>5
  <2> QED BY <2>1, <1>9, <1>10
<1>12. Matched'
  <2>1. trie' \in [Named -> Node]
    <3>1. trie' = [p \in Named |-> trie'[p]]
      BY <1>1, <1>5
    <3> QED BY <3>1, <1>11
  <2>2. ASSUME NEW p \in Named, trie'[p].ref # Invalid
        PROVE  /\ trie'[p].ref \in Keys /\ trie'[p].sk = cells[trie'[p].ref].sk
               /\ p # <<>> => cells[trie'[p].ref].name = Last(p)
    BY <2>2, <1>8, <1>11
  <2>3. ASSUME NEW p \in Named, NEW q \in Named, trie'[p].ref # Invalid, trie'[p].ref = trie'[q].ref PROVE p = q
    <3>1. K(p) = K(q) /\ K(p) # Invalid
      BY <2>3, <1>11
    <3>2. KeyAt(OldHive, p) = KeyAt(OldHive, q) /\ KeyAt(OldHive, p) # Invalid
      BY <3>1, <1>8
    <3>3. p \in Seq(Nat) /\ q \in Seq(Nat)
      BY <1>4
    <3> QED BY <3>2, <3>3, KeyAtOnce
  <2>4. Kids(<<>>)' # {} => trie'[<<>>].ref # Invalid
    <3> SUFFICES ASSUME Kids(<<>>)' # {} PROVE trie'[<<>>].ref # Invalid
      OBVIOUS
    <3>1. DOMAIN trie' = DOMAIN trie /\ DOMAIN trie = Named
      BY <1>1, <1>5
    <3>2. Kids(<<>>) # {}
      BY <3>1 DEF Kids
    <3>3. K(<<>>) = HiveRoot /\ HiveRoot # Invalid
      BY <1>2, <1>4, KeyAtStep, HiveCells DEF K, CellsSound, Keys
    <3>4. trie'[<<>>] = N(<<>>)
      BY <1>4, <1>6, <3>1, <3>2, <3>3
    <3> QED BY <3>3, <3>4, <1>4, <1>10
  <2> QED BY <1>1, <1>4, <2>1, <2>2, <2>3, <2>4 DEF Matched, Exists
<1>13. ASSUME NEW p \in Named PROVE ValuesFresh(p)' /\ SubsFresh(p)'
  <2>1. \A f : ~Pending(trie[p].ref, f)'
    BY <1>1 DEF Pending, Changes
  <2>2. CASE trie'[p].ref = Invalid
    BY <2>2, <1>11 DEF ValuesFresh, SubsFresh, Exists
  <2>3. CASE trie'[p].ref # Invalid
    BY <2>1, <2>3, <1>1, <1>11 DEF ValuesFresh, SubsFresh, Exists
  <2> QED BY <2>2, <2>3
<1> QED BY <1>1, <1>2, <1>3, <1>4, <1>12, <1>13 DEF IInv, Early
-----------------------------------------------------------------------------
(***************************************************************************)
(* Applying the queue.                                                     *)
(***************************************************************************)
LEMMA FlushStep ==
  ASSUME IInv, FlushSKRefcounts
  PROVE  IInv'
<1> DEFINE Q == {Update(1, s, "count", cells[s].count + gained[s]) : s \in DOMAIN gained}
<1>1. /\ phase = "execute" /\ phase' = "apply" /\ UNCHANGED <<ops, cells>> /\ queue' = queue \cup Q
  BY DEF FlushSKRefcounts
<1>2. CellsSound'
  BY <1>1 DEF IInv, CellsSound, Keys
<1>3. QueueShaped /\ QueueSound /\ FreedLast /\ Keys' = Keys
  BY <1>1 DEF IInv, Keys
<1>4. ASSUME NEW u \in Q PROVE u.field = "count" /\ u.cat = 1 /\ u.ref \in Cells /\ cells[u.ref].kind = "sk"
  <2>1. PICK s \in DOMAIN gained : u = Update(1, s, "count", cells[s].count + gained[s])
    OBVIOUS
  <2>2. s \in Cells /\ cells[s].kind = "sk"
    BY <1>1 DEF IInv
  <2> QED BY <2>1, <2>2 DEF Update
<1> HIDE DEF Q
<1>5. QueueShaped'
  BY <1>1, <1>3, <1>4 DEF QueueShaped, Category
<1>6. Changes("subs")' = Changes("subs") /\ Changes("list")' = Changes("list") /\ Changes("free")' = Changes("free")
  BY <1>1, <1>4 DEF Changes
<1>7. ToFree' = ToFree
  BY <1>6 DEF ToFree
<1>8. QueueSound'
  BY <1>1, <1>3, <1>6, <1>7 DEF QueueSound
<1>9. FreedLast'
  BY <1>1, <1>3, <1>6, <1>7 DEF FreedLast, Pending
<1> QED BY <1>1, <1>2, <1>5, <1>8, <1>9 DEF IInv, Early

\* Lists do not depend on the fields of keys and security cells.
Rekeyed(C, D) ==
  \A x \in Cells : D[x].kind = C[x].kind /\ (C[x].kind \notin {"nk", "sk"} => D[x] = C[x])

LEMMA RekeyedLists ==
  ASSUME NEW C, NEW D, Rekeyed(C, D), NEW l
  PROVE  /\ ListSound(C, l) => ListSound(D, l) /\ ValueCells(D, l) = ValueCells(C, l)
         /\ SubsSound(C, l) => SubsSound(D, l)
<1>1. CASE l = Invalid
  BY <1>1 DEF ListSound, SubsSound, ValueCells
<1>2. ASSUME l # Invalid, ListSound(C, l) PROVE ListSound(D, l) /\ ValueCells(D, l) = ValueCells(C, l)
  <2>1. /\ l \in Cells /\ C[l].refs \in Seq(Cells) /\ C[l].kind = "values"
        /\ Range(C[l].refs) \subseteq Cells /\ \A v \in Range(C[l].refs) : VkSound(C, v)
    BY <1>2, ListEntries
  <2>2. D[l] = C[l]
    BY <2>1 DEF Rekeyed
  <2>3. ASSUME NEW v \in Range(C[l].refs) PROVE VkSound(D, v) /\ D[v] = C[v]
    <3>1. v \in Cells /\ VkSound(C, v)
      BY <2>1
    <3>2. D[v] = C[v]
      BY <3>1 DEF VkSound, Rekeyed
    <3>3. C[v].data # Invalid => D[C[v].data] = C[C[v].data]
      BY <3>1 DEF VkSound, Rekeyed
    <3> QED BY <3>1, <3>2, <3>3 DEF VkSound
  <2>4. ListSound(D, l)
    BY <2>1, <2>2, <2>3 DEF ListSound
  <2>5. {D[v].data : v \in Range(D[l].refs)} = {C[v].data : v \in Range(C[l].refs)}
    BY <2>2, <2>3
  <2> QED BY <2>2, <2>4, <2>5 DEF ValueCells
<1>3. ASSUME l # Invalid, SubsSound(C, l) PROVE SubsSound(D, l)
  <2>1. /\ l \in Cells /\ C[l].refs \in Seq(Cells) /\ C[l].kind = "subkeys"
        /\ Range(C[l].refs) \subseteq Cells /\ \A e \in Range(C[l].refs) : C[e].kind = "nk"
    BY <1>3, SubsEntries
  <2>2. D[l] = C[l]
    BY <2>1 DEF Rekeyed
  <2>3. ASSUME NEW e \in Range(C[l].refs) PROVE D[e].kind = "nk"
    <3>1. e \in Cells /\ C[e].kind = "nk"
      BY <2>1
    <3> QED BY <3>1 DEF Rekeyed
  <2> QED BY <2>1, <2>2, <2>3 DEF SubsSound
<1> QED BY <1>1, <1>2, <1>3

\* Freeing a cell that a list does not have.
LEMMA FreedLists ==
  ASSUME NEW C, NEW D, NEW x, x \notin {Invalid}, \A y \in Cells : y # x => D[y] = C[y], NEW l
  PROVE  /\ ListSound(C, l) /\ x \notin ValueCells(C, l) => ListSound(D, l) /\ ValueCells(D, l) = ValueCells(C, l)
         /\ SubsSound(C, l) /\ x # l /\ C[x].kind # "nk" => SubsSound(D, l)
<1>1. CASE l = Invalid
  BY <1>1 DEF ListSound, SubsSound, ValueCells
<1>2. ASSUME l # Invalid, ListSound(C, l), x \notin ValueCells(C, l)
      PROVE  ListSound(D, l) /\ ValueCells(D, l) = ValueCells(C, l)
  <2>1. /\ l \in Cells /\ C[l].refs \in Seq(Cells) /\ C[l].kind = "values"
        /\ Range(C[l].refs) \subseteq Cells /\ \A v \in Range(C[l].refs) : VkSound(C, v)
    BY <1>2, ListEntries
  <2>0. x # l /\ \A v \in Range(C[l].refs) : x # v /\ x # C[v].data
    BY <1>2 DEF ValueCells
  <2>2. D[l] = C[l]
    BY <2>0, <2>1
  <2>3. ASSUME NEW v \in Range(C[l].refs) PROVE VkSound(D, v) /\ D[v] = C[v]
    <3>1. v \in Cells /\ VkSound(C, v)
      BY <2>1
    <3>2. D[v] = C[v]
      BY <3>1, <2>0
    <3>3. C[v].data # Invalid => D[C[v].data] = C[C[v].data]
      BY <3>1, <2>0 DEF VkSound
    <3> QED BY <3>1, <3>2, <3>3 DEF VkSound
  <2>4. ListSound(D, l)
    BY <2>1, <2>2, <2>3 DEF ListSound
  <2>5. {D[v].data : v \in Range(D[l].refs)} = {C[v].data : v \in Range(C[l].refs)}
    BY <2>2, <2>3
  <2> QED BY <2>2, <2>4, <2>5 DEF ValueCells
<1>3. ASSUME l # Invalid, SubsSound(C, l), x # l, C[x].kind # "nk" PROVE SubsSound(D, l)
  <2>1. /\ l \in Cells /\ C[l].refs \in Seq(Cells) /\ C[l].kind = "subkeys"
        /\ Range(C[l].refs) \subseteq Cells /\ \A e \in Range(C[l].refs) : C[e].kind = "nk"
    BY <1>3, SubsEntries
  <2>2. D[l] = C[l]
    BY <2>1, <1>3
  <2>3. ASSUME NEW e \in Range(C[l].refs) PROVE D[e].kind = "nk"
    <3>1. e \in Cells /\ C[e].kind = "nk" /\ e # x
      BY <2>1, <1>3
    <3> QED BY <3>1
  <2> QED BY <2>1, <2>2, <2>3 DEF SubsSound
<1> QED BY <1>1, <1>2, <1>3

LEMMA ApplyKey ==
  ASSUME CellsSound, QueueShaped, QueueSound, FreedLast,
         NEW u \in queue, u.field \in {"nsubs", "subs", "nvals", "list"},
         cells' = [cells EXCEPT ![u.ref][u.field] = u.val], queue' = queue \ {u}
  PROVE  CellsSound' /\ QueueShaped' /\ QueueSound' /\ FreedLast'
<1> DEFINE r == u.ref  f == u.field  D == cells'
<1>1. r \in Keys /\ r \in Cells /\ cells[r].kind = "nk" /\ cells[r] \in NkCell /\ u.val \in Nat /\ KeySound(cells, r)
  BY DEF QueueShaped, Keys, CellsSound
<1>2. /\ DOMAIN D = Cells /\ \A x \in Cells : x # r => D[x] = cells[x]
      /\ D[r] = [cells[r] EXCEPT ![f] = u.val]
  BY <1>1 DEF CellsSound
<1>3. /\ D[r] \in NkCell /\ D[r].kind = "nk" /\ D[r].sk = cells[r].sk
      /\ D[r].subs = IF f = "subs" THEN u.val ELSE cells[r].subs
      /\ D[r].list = IF f = "list" THEN u.val ELSE cells[r].list
  <2> DEFINE c == cells[r]
  <2> HIDE DEF c, D, f
  <2>0. c \in NkCell /\ D[r] = [c EXCEPT ![f] = u.val] /\ u.val \in Nat /\ f \in {"nsubs", "subs", "nvals", "list"}
    BY <1>1, <1>2 DEF c, f
  <2>1. /\ D[r] \in NkCell /\ D[r].kind = "nk" /\ D[r].sk = c.sk
        /\ D[r].subs = IF f = "subs" THEN u.val ELSE c.subs
        /\ D[r].list = IF f = "list" THEN u.val ELSE c.list
    <3>1. CASE f = "nsubs"
      BY <2>0, <3>1 DEF NkCell
    <3>2. CASE f = "subs"
      BY <2>0, <3>2 DEF NkCell
    <3>3. CASE f = "nvals"
      BY <2>0, <3>3 DEF NkCell
    <3>4. CASE f = "list"
      BY <2>0, <3>4 DEF NkCell
    <3> QED BY <2>0, <3>1, <3>2, <3>3, <3>4
  <2> QED BY <2>1 DEF c
<1>4. Rekeyed(cells, D) /\ Keys' = Keys
  BY <1>1, <1>2, <1>3 DEF Rekeyed, Keys
<1> HIDE DEF D
<1>5. ASSUME NEW l, ListSound(cells, l) PROVE ListSound(D, l) /\ ValueCells(D, l) = ValueCells(cells, l)
  BY <1>4, <1>5, RekeyedLists
<1>6. ASSUME NEW l, SubsSound(cells, l) PROVE SubsSound(D, l)
  BY <1>4, <1>6, RekeyedLists
<1>7. /\ f = "subs" => SubsSound(cells, u.val) /\ u.val \notin DOMAIN Hive
      /\ f = "list" => ListSound(cells, u.val) /\ ToFree \cap ValueCells(cells, u.val) = {}
  BY DEF QueueSound, Changes
<1>8. ASSUME NEW x \in Keys
      PROVE  /\ x \in Cells /\ cells[x] \in NkCell /\ cells[x].sk \in Cells /\ cells[cells[x].sk].kind = "sk"
             /\ SubsSound(cells, cells[x].subs) /\ ListSound(cells, cells[x].list)
  BY DEF CellsSound, KeySound
<1>9. CellsSound'
  <2>1. ASSUME NEW x \in Keys PROVE D[x] \in NkCell /\ KeySound(D, x)
    <3>1. x \in Cells /\ D[x] \in NkCell /\ D[x].kind = "nk" /\ D[x].sk = cells[x].sk
      BY <1>2, <1>3, <1>8 DEF Keys
    <3>2. D[D[x].sk].kind = "sk" /\ D[x].sk \in Cells
      BY <3>1, <1>4, <1>8 DEF Rekeyed
    <3>3. SubsSound(cells, D[x].subs) /\ ListSound(cells, D[x].list)
      BY <1>2, <1>3, <1>7, <1>8
    <3> QED BY <3>1, <3>2, <3>3, <1>5, <1>6 DEF KeySound
  <2>2. ASSUME NEW x \in Cells, D[x].kind = "sk" PROVE DOMAIN D[x] = {"kind", "count"}
    <3>1. x # r
      BY <2>2, <1>3
    <3> QED BY <3>1, <2>2, <1>2 DEF CellsSound
  <2> QED BY <1>2, <1>4, <2>1, <2>2 DEF CellsSound, D
<1>10. /\ \A k : Changes(k)' \subseteq Changes(k)
       /\ \A k : k # f => Changes(k)' = Changes(k)
  BY DEF Changes
<1>11. ToFree' \subseteq ToFree
  BY <1>10 DEF ToFree
<1>12. QueueShaped'
  BY <1>4 DEF QueueShaped, Rekeyed, Keys, D
<1>13. QueueSound'
  <2>1. ASSUME NEW v \in Changes("subs")' PROVE SubsSound(D, v.val) /\ v.val \notin DOMAIN Hive
    <3>1. SubsSound(cells, v.val) /\ v.val \notin DOMAIN Hive
      BY <1>10, <2>1 DEF QueueSound
    <3> QED BY <3>1, <1>6
  <2>2. ASSUME NEW v \in Changes("list")' PROVE ListSound(D, v.val) /\ ToFree' \cap ValueCells(D, v.val) = {}
    <3>1. ListSound(cells, v.val) /\ ToFree \cap ValueCells(cells, v.val) = {}
      BY <1>10, <2>2 DEF QueueSound
    <3> QED BY <3>1, <1>5, <1>11
  <2> QED BY <2>1, <2>2 DEF QueueSound, D
<1>14. FreedLast'
  <2> SUFFICES ASSUME NEW x \in ToFree', NEW s \in Keys
               PROVE  /\ x = D[s].subs => Pending(s, "subs")'
                      /\ x \in ValueCells(D, D[s].list) => Pending(s, "list")'
    BY <1>4 DEF FreedLast, D
  <2>0. x \in ToFree /\ x \in DOMAIN Hive
    BY <1>11 DEF QueueShaped, ToFree, Changes
  <2>1. /\ x = cells[s].subs => Pending(s, "subs")
        /\ x \in ValueCells(cells, cells[s].list) => Pending(s, "list")
    BY <2>0 DEF FreedLast
  <2>2. ASSUME NEW k, Pending(s, k), s # r \/ k # f PROVE Pending(s, k)'
    <3>1. PICK v \in Changes(k) : v.ref = s
      BY <2>2 DEF Pending
    <3>2. v # u
      BY <3>1, <2>2 DEF Changes
    <3>3. v \in Changes(k)'
      BY <3>1, <3>2 DEF Changes
    <3> QED BY <3>1, <3>3 DEF Pending
  <2>3. x = D[s].subs => Pending(s, "subs")'
    <3> SUFFICES ASSUME x = D[s].subs PROVE Pending(s, "subs")'
      OBVIOUS
    <3>1. CASE s = r /\ f = "subs"
      BY <3>1, <1>3, <1>7, <2>0
    <3>2. CASE s # r \/ f # "subs"
      <4>1. x = cells[s].subs
        BY <3>2, <1>2, <1>3, <1>8
      <4> QED BY <4>1, <3>2, <2>1, <2>2
    <3> QED BY <3>1, <3>2
  <2>4. x \in ValueCells(D, D[s].list) => Pending(s, "list")'
    <3> SUFFICES ASSUME x \in ValueCells(D, D[s].list) PROVE Pending(s, "list")'
      OBVIOUS
    <3>1. CASE s = r /\ f = "list"
      <4>1. x \in ValueCells(D, u.val)
        BY <3>1, <1>3
      <4>2. x \in ValueCells(cells, u.val)
        BY <4>1, <3>1, <1>5, <1>7
      <4> QED BY <4>2, <3>1, <1>7, <2>0
    <3>2. CASE s # r \/ f # "list"
      <4>1. D[s].list = cells[s].list
        BY <3>2, <1>2, <1>3, <1>8
      <4>2. x \in ValueCells(cells, cells[s].list)
        BY <4>1, <1>5, <1>8
      <4> QED BY <4>2, <3>2, <2>1, <2>2
    <3> QED BY <3>1, <3>2
  <2> QED BY <2>3, <2>4
<1> QED BY <1>9, <1>12, <1>13, <1>14

LEMMA ApplyCount ==
  ASSUME CellsSound, QueueShaped, QueueSound, FreedLast,
         NEW u \in queue, u.field = "count",
         cells' = [cells EXCEPT ![u.ref][u.field] = u.val], queue' = queue \ {u}
  PROVE  CellsSound' /\ QueueShaped' /\ QueueSound' /\ FreedLast'
<1> DEFINE r == u.ref  D == cells'
<1>1. r \in Cells /\ cells[r].kind = "sk" /\ DOMAIN cells[r] = {"kind", "count"}
  BY DEF QueueShaped, CellsSound
<1>2. /\ DOMAIN D = Cells /\ \A x \in Cells : x # r => D[x] = cells[x]
      /\ D[r] = [cells[r] EXCEPT !["count"] = u.val]
  BY <1>1 DEF CellsSound
<1>3. D[r].kind = "sk" /\ DOMAIN D[r] = {"kind", "count"}
  BY <1>1, <1>2
<1>4. Rekeyed(cells, D) /\ Keys' = Keys
  BY <1>1, <1>2, <1>3 DEF Rekeyed, Keys
<1> HIDE DEF D
<1>5. ASSUME NEW l, ListSound(cells, l) PROVE ListSound(D, l) /\ ValueCells(D, l) = ValueCells(cells, l)
  BY <1>4, <1>5, RekeyedLists
<1>6. ASSUME NEW l, SubsSound(cells, l) PROVE SubsSound(D, l)
  BY <1>4, <1>6, RekeyedLists
<1>8. ASSUME NEW x \in Keys
      PROVE  /\ x \in Cells /\ D[x] = cells[x] /\ cells[x] \in NkCell /\ cells[x].kind = "nk"
             /\ cells[x].sk \in Cells /\ cells[cells[x].sk].kind = "sk"
             /\ SubsSound(cells, cells[x].subs) /\ ListSound(cells, cells[x].list)
  <2>1. x \in Cells /\ cells[x].kind = "nk" /\ x # r
    BY <1>1 DEF Keys
  <2> QED BY <2>1, <1>2 DEF CellsSound, KeySound
<1>9. CellsSound'
  <2>1. ASSUME NEW x \in Keys PROVE D[x] \in NkCell /\ KeySound(D, x)
    <3>1. D[D[x].sk].kind = "sk" /\ D[x].sk \in Cells
      BY <1>4, <1>8 DEF Rekeyed
    <3> QED BY <3>1, <1>5, <1>6, <1>8 DEF KeySound
  <2>2. ASSUME NEW x \in Cells, D[x].kind = "sk" PROVE DOMAIN D[x] = {"kind", "count"}
    BY <2>2, <1>2, <1>3 DEF CellsSound
  <2> QED BY <1>2, <1>4, <2>1, <2>2 DEF CellsSound, D
<1>10. \A k : k # "count" => Changes(k)' = Changes(k)
  BY DEF Changes
<1>11. ToFree' = ToFree
  BY <1>10 DEF ToFree
<1>12. QueueShaped'
  BY <1>4 DEF QueueShaped, Rekeyed, Keys, D
<1>13. QueueSound'
  <2>1. ASSUME NEW v \in Changes("subs") PROVE SubsSound(D, v.val) /\ v.val \notin DOMAIN Hive
    BY <2>1, <1>6 DEF QueueSound
  <2>2. ASSUME NEW v \in Changes("list") PROVE ListSound(D, v.val) /\ ToFree \cap ValueCells(D, v.val) = {}
    BY <2>2, <1>5 DEF QueueSound
  <2> QED BY <2>1, <2>2, <1>10, <1>11 DEF QueueSound, D
<1>14. FreedLast'
  <2> SUFFICES ASSUME NEW x \in ToFree, NEW s \in Keys
               PROVE  /\ x = D[s].subs => Pending(s, "subs")'
                      /\ x \in ValueCells(D, D[s].list) => Pending(s, "list")'
    BY <1>4, <1>11 DEF FreedLast, D
  <2>1. /\ x = cells[s].subs => Pending(s, "subs")
        /\ x \in ValueCells(cells, cells[s].list) => Pending(s, "list")
    BY DEF FreedLast
  <2>2. D[s] = cells[s] /\ ValueCells(D, D[s].list) = ValueCells(cells, cells[s].list)
    BY <1>5, <1>8
  <2>3. \A k : k # "count" /\ Pending(s, k) => Pending(s, k)'
    BY <1>10 DEF Pending
  <2> QED BY <2>1, <2>2, <2>3
<1> QED BY <1>9, <1>12, <1>13, <1>14

\* A cell is freed after all keys refer to their new lists.
LEMMA ApplyFree ==
  ASSUME CellsSound, QueueShaped, QueueSound, FreedLast,
         NEW u \in queue, u.field = "free", \A v \in queue : ~Before(v, u),
         cells' = [cells EXCEPT ![u.ref] = Unset], queue' = queue \ {u}
  PROVE  CellsSound' /\ QueueShaped' /\ QueueSound' /\ FreedLast'
<1> DEFINE x == u.ref  D == cells'
<1>1. /\ u = Update(2, x, "free", 0) /\ x \in DOMAIN Hive /\ x \in Cells /\ x # Invalid
      /\ cells[x].kind \in {"subkeys", "values", "vk", "data"} /\ u.cat = 2
  BY HiveCells DEF QueueShaped, Category
<1>2. /\ DOMAIN D = Cells /\ (\A y \in Cells : y # x => D[y] = cells[y]) /\ D[x] = Unset
  BY <1>1 DEF CellsSound
<1>3. ASSUME NEW v \in queue PROVE v.field \in {"count", "free"}
  <2>1. v.field \in DOMAIN Category /\ v.cat = Category[v.field]
    BY DEF QueueShaped
  <2>2. ~(v.cat < 2)
    BY <1>1 DEF Before
  <2> QED BY <2>1, <2>2 DEF Category
<1>4. \A k \in {"subs", "list"} : Changes(k) = {} /\ Changes(k)' = {}
  BY <1>3 DEF Changes
<1>5. x \in ToFree /\ ToFree' \subseteq ToFree
  BY DEF ToFree, Changes
<1>6. ASSUME NEW s \in Keys PROVE x # cells[s].subs /\ x \notin ValueCells(cells, cells[s].list)
  BY <1>4, <1>5 DEF FreedLast, Pending
<1> HIDE DEF D
<1>7. Keys' = Keys
  BY <1>1, <1>2 DEF Keys, Unset, D
<1>8. ASSUME NEW s \in Keys
      PROVE  /\ s \in Cells /\ D[s] = cells[s] /\ cells[s] \in NkCell /\ cells[s].kind = "nk"
             /\ cells[s].sk \in Cells /\ D[cells[s].sk].kind = "sk"
             /\ SubsSound(cells, cells[s].subs) /\ ListSound(cells, cells[s].list)
  <2>1. s \in Cells /\ cells[s].kind = "nk" /\ s # x
    BY <1>1 DEF Keys
  <2>2. cells[s].sk \in Cells /\ cells[cells[s].sk].kind = "sk" /\ cells[s].sk # x
    BY <1>1 DEF CellsSound, KeySound
  <2> QED BY <2>1, <2>2, <1>2 DEF CellsSound, KeySound
<1>9. ASSUME NEW s \in Keys
      PROVE  /\ SubsSound(D, cells[s].subs) /\ ListSound(D, cells[s].list)
             /\ ValueCells(D, cells[s].list) = ValueCells(cells, cells[s].list)
  <2> DEFINE c == cells
  <2>1. x \notin {Invalid} /\ (\A y \in Cells : y # x => D[y] = c[y]) /\ c[x].kind # "nk"
    BY <1>1, <1>2
  <2> HIDE DEF c, x
  <2>2. /\ ListSound(c, c[s].list) /\ x \notin ValueCells(c, c[s].list) /\ SubsSound(c, c[s].subs) /\ x # c[s].subs
    BY <1>6, <1>8 DEF c
  <2>3. ListSound(D, c[s].list) /\ ValueCells(D, c[s].list) = ValueCells(c, c[s].list) /\ SubsSound(D, c[s].subs)
    BY <2>1, <2>2, FreedLists
  <2> QED BY <2>3 DEF c
<1>10. CellsSound'
  <2>1. ASSUME NEW s \in Keys PROVE D[s] \in NkCell /\ KeySound(D, s)
    BY <1>8, <1>9 DEF KeySound
  <2>2. ASSUME NEW s \in Cells, D[s].kind = "sk" PROVE DOMAIN D[s] = {"kind", "count"}
    <3>1. s # x
      BY <2>2, <1>2 DEF Unset
    <3> QED BY <3>1, <2>2, <1>2 DEF CellsSound
  <2> QED BY <1>2, <1>7, <2>1, <2>2 DEF CellsSound, D
<1>11. QueueShaped'
  <2> SUFFICES ASSUME NEW v \in queue'
               PROVE  /\ v.field \in DOMAIN Category /\ v.cat = Category[v.field]
                      /\ v.field \in {"nsubs", "subs", "nvals", "list"} => v.ref \in Keys' /\ v.val \in Nat
                      /\ v.field = "count" => v.ref \in Cells /\ D[v.ref].kind = "sk"
                      /\ v.field = "free" => /\ v = Update(2, v.ref, "free", 0) /\ v.ref \in DOMAIN Hive
                                             /\ D[v.ref].kind \in {"subkeys", "values", "vk", "data"}
    BY DEF QueueShaped, D
  <2>1. v \in queue /\ v # u
    OBVIOUS
  <2>2. v.field \in DOMAIN Category /\ v.cat = Category[v.field]
    BY <2>1 DEF QueueShaped
  <2>3. v.field = "count" => v.ref \in Cells /\ D[v.ref].kind = "sk"
    BY <2>1, <1>1, <1>2 DEF QueueShaped
  <2>4. v.field = "free" => /\ v = Update(2, v.ref, "free", 0) /\ v.ref \in DOMAIN Hive
                            /\ D[v.ref].kind \in {"subkeys", "values", "vk", "data"}
    <3> SUFFICES ASSUME v.field = "free"
                 PROVE  /\ v = Update(2, v.ref, "free", 0) /\ v.ref \in DOMAIN Hive
                        /\ D[v.ref].kind \in {"subkeys", "values", "vk", "data"}
      OBVIOUS
    <3>1. /\ v = Update(2, v.ref, "free", 0) /\ v.ref \in DOMAIN Hive /\ v.ref \in Cells
          /\ cells[v.ref].kind \in {"subkeys", "values", "vk", "data"}
      BY <2>1, HiveCells DEF QueueShaped
    <3>2. v.ref # x
      BY <3>1, <2>1, <1>1
    <3> QED BY <3>1, <3>2, <1>2
  <2>5. v.field \in {"count", "free"}
    BY <2>1, <1>3
  <2> QED BY <2>2, <2>3, <2>4, <2>5
<1>12. QueueSound'
  BY <1>4 DEF QueueSound
<1>13. FreedLast'
  <2> SUFFICES ASSUME NEW y \in ToFree', NEW s \in Keys
               PROVE  y # D[s].subs /\ y \notin ValueCells(D, D[s].list)
    BY <1>7 DEF FreedLast, D
  <2>1. y \in ToFree
    BY <1>5
  <2>2. y # cells[s].subs /\ y \notin ValueCells(cells, cells[s].list)
    BY <2>1, <1>4 DEF FreedLast, Pending
  <2> QED BY <2>2, <1>8, <1>9
<1> QED BY <1>10, <1>11, <1>12, <1>13

LEMMA ApplyStep ==
  ASSUME IInv, ApplyUpdate
  PROVE  IInv'
<1>1. phase = "apply" /\ phase' = "apply" /\ ops' = ops
  BY DEF ApplyUpdate
<1>2. CellsSound /\ QueueShaped /\ QueueSound /\ FreedLast
  BY <1>1 DEF IInv
<1>3. PICK u \in queue :
        /\ \A v \in queue : ~Before(v, u)
        /\ cells' = IF u.field = "free" THEN [cells EXCEPT ![u.ref] = Unset]
                    ELSE [cells EXCEPT ![u.ref][u.field] = u.val]
        /\ queue' = queue \ {u}
  BY DEF ApplyUpdate
<1>4. u.field \in {"nsubs", "subs", "nvals", "list", "count", "free"}
  BY <1>2 DEF QueueShaped, Category
<1>5. CellsSound' /\ QueueShaped' /\ QueueSound' /\ FreedLast'
  <2>1. CASE u.field \in {"nsubs", "subs", "nvals", "list"}
    <3>1. cells' = [cells EXCEPT ![u.ref][u.field] = u.val]
      BY <1>3, <2>1
    <3> QED BY <1>2, <1>3, <2>1, <3>1, ApplyKey
  <2>2. CASE u.field = "count"
    <3>1. cells' = [cells EXCEPT ![u.ref][u.field] = u.val]
      BY <1>3, <2>2
    <3> QED BY <1>2, <1>3, <2>2, <3>1, ApplyCount
  <2>3. CASE u.field = "free"
    <3>1. cells' = [cells EXCEPT ![u.ref] = Unset]
      BY <1>3, <2>3
    <3> QED BY <1>2, <1>3, <2>3, <3>1, ApplyFree
  <2> QED BY <1>4, <2>1, <2>2, <2>3
<1> QED BY <1>1, <1>5 DEF IInv, Early
-----------------------------------------------------------------------------
(***************************************************************************)
(* The work that is left.                                                  *)
(***************************************************************************)

\* Some work is replaced by work that covers no more.
LEMMA OnceSplit ==
  ASSUME NEW N, NEW E, NEW t \in Seq(E), t # <<>>, NEW s \in Seq(E), Once(N, t), Once(N, s),
         \A i \in 1..Len(s) : \A k \in {"values", "list"} : \A q \in N : Covers(s[i], k, q) => Covers(t[1], k, q)
  PROVE  /\ s \o Tail(t) \in Seq(E) /\ Once(N, s \o Tail(t))
         /\ \A i \in 1..Len(s \o Tail(t)) :
              \/ i \in 1..Len(s) /\ (s \o Tail(t))[i] = s[i]
              \/ \E j \in 2..Len(t) : (s \o Tail(t))[i] = t[j]
<1> DEFINE w == s \o Tail(t)
<1>1. Len(t) \in Nat /\ Len(t) >= 1 /\ Len(s) \in Nat
  BY EmptySeq
<1>2. Tail(t) \in Seq(E) /\ Len(Tail(t)) = Len(t) - 1 /\ \A i \in 1..(Len(t) - 1) : Tail(t)[i] = t[i + 1]
  BY <1>1, HeadTailProperties
<1>3. w \in Seq(E) /\ Len(w) = Len(s) + Len(Tail(t))
  BY <1>2, ConcatProperties
<1>4. \A i \in 1..Len(w) : w[i] = IF i <= Len(s) THEN s[i] ELSE Tail(t)[i - Len(s)]
  BY <1>2, ConcatProperties
<1> HIDE DEF w
<1>5. ASSUME NEW i \in 1..Len(w), i > Len(s)
      PROVE  i - Len(s) + 1 \in 2..Len(t) /\ w[i] = t[i - Len(s) + 1]
  <2>1. i - Len(s) \in 1..(Len(t) - 1)
    BY <1>1, <1>2, <1>3, <1>5
  <2>0. ~(i <= Len(s))
    BY <1>1, <1>2, <1>3, <1>5
  <2>2. w[i] = Tail(t)[i - Len(s)]
    BY <1>4, <2>0
  <2>3. i - Len(s) + 1 \in 2..Len(t)
    BY <2>1, <1>1
  <2> QED BY <1>2, <2>1, <2>2, <2>3
<1>6. ASSUME NEW i \in 1..Len(w), i <= Len(s) PROVE i \in 1..Len(s) /\ w[i] = s[i]
  BY <1>1, <1>4, <1>6
<1>7. \A i \in 1..Len(w) : i <= Len(s) \/ i > Len(s)
  BY <1>1, <1>3
<1>8. Once(N, w)
  <2> SUFFICES ASSUME NEW i \in 1..Len(w), NEW j \in 1..Len(w), NEW k \in {"values", "list"}, NEW q \in N,
                      Covers(w[i], k, q), Covers(w[j], k, q)
               PROVE  i = j
    BY DEF Once
  <2>1. CASE i <= Len(s) /\ j <= Len(s)
    BY <2>1, <1>6 DEF Once
  <2>2. CASE i > Len(s) /\ j > Len(s)
    <3> DEFINE a == i - Len(s) + 1  b == j - Len(s) + 1
    <3>1. a \in 1..Len(t) /\ b \in 1..Len(t) /\ w[i] = t[a] /\ w[j] = t[b]
      BY <2>2, <1>1, <1>5
    <3> HIDE DEF a, b
    <3>2. a = b
      BY <3>1 DEF Once
    <3> QED BY <3>2, <1>1 DEF a, b
  <2>3. ASSUME NEW x \in 1..Len(w), NEW y \in 1..Len(w), x <= Len(s), y > Len(s), Covers(w[x], k, q), Covers(w[y], k, q)
        PROVE  FALSE
    <3> DEFINE b == y - Len(s) + 1
    <3>1. b \in 2..Len(t) /\ w[y] = t[b]
      BY <2>3, <1>5
    <3>2. Covers(t[1], k, q)
      BY <2>3, <1>6
    <3> HIDE DEF b
    <3>3. b \in 1..Len(t) /\ 1 \in 1..Len(t) /\ b # 1
      BY <3>1, <1>1
    <3>4. Covers(t[b], k, q)
      BY <2>3, <3>1
    <3> QED BY <3>2, <3>3, <3>4 DEF Once
  <2> QED BY <2>1, <2>2, <2>3, <1>7
<1>9. ASSUME NEW i \in 1..Len(w) PROVE (i \in 1..Len(s) /\ w[i] = s[i]) \/ \E j \in 2..Len(t) : w[i] = t[j]
  BY <1>5, <1>6, <1>7
<1> QED BY <1>3, <1>8, <1>9 DEF w

LEMMA OnceTail ==
  ASSUME NEW N, NEW E, NEW t \in Seq(E), t # <<>>, Once(N, t)
  PROVE  /\ Tail(t) \in Seq(E) /\ Once(N, Tail(t)) /\ 1 \in 1..Len(t) /\ Head(t) = t[1]
         /\ \A i \in 1..Len(Tail(t)) : \E j \in 2..Len(t) : Tail(t)[i] = t[j]
         /\ \A i \in 1..Len(Tail(t)) : \A k \in {"values", "list"} : \A q \in N :
              Covers(Tail(t)[i], k, q) => ~Covers(t[1], k, q)
<1> DEFINE w == Tail(t)
<1>1. Len(t) \in Nat /\ Len(t) >= 1
  BY EmptySeq
<1>2. w \in Seq(E) /\ Len(w) = Len(t) - 1 /\ \A i \in 1..(Len(t) - 1) : w[i] = t[i + 1]
  BY <1>1, HeadTailProperties
<1> HIDE DEF w
<1>3. ASSUME NEW i \in 1..Len(w) PROVE i + 1 \in 2..Len(t) /\ w[i] = t[i + 1] /\ i + 1 \in 1..Len(t) /\ i + 1 # 1
  BY <1>1, <1>2
<1>4. 1 \in 1..Len(t)
  BY <1>1
<1>5. Once(N, w)
  <2> SUFFICES ASSUME NEW i \in 1..Len(w), NEW j \in 1..Len(w), NEW k \in {"values", "list"}, NEW q \in N,
                      Covers(w[i], k, q), Covers(w[j], k, q)
               PROVE  i = j
    BY DEF Once
  <2> DEFINE a == i + 1  b == j + 1
  <2>1. a \in 1..Len(t) /\ b \in 1..Len(t) /\ w[i] = t[a] /\ w[j] = t[b]
    BY <1>3
  <2> HIDE DEF a, b
  <2>2. a = b
    BY <2>1 DEF Once
  <2> QED BY <2>2, <1>1, <1>2 DEF a, b
<1>6. ASSUME NEW i \in 1..Len(w), NEW k \in {"values", "list"}, NEW q \in N, Covers(w[i], k, q), Covers(t[1], k, q)
      PROVE  FALSE
  <2> DEFINE a == i + 1
  <2>1. a \in 1..Len(t) /\ a # 1 /\ w[i] = t[a]
    BY <1>3
  <2> HIDE DEF a
  <2> QED BY <2>1, <1>4, <1>6 DEF Once
<1>7. \A i \in 1..Len(w) : \E j \in 2..Len(t) : w[i] = t[j]
  BY <1>3
<1>8. Head(t) = t[1]
  BY <1>1
<1> QED BY <1>2, <1>4, <1>5, <1>6, <1>7, <1>8 DEF w

\* What is below a child is below its parent, and below no other child.
LEMMA KidUnder ==
  ASSUME NEW a \in Seq(Nat), a # <<>>, NEW q \in Seq(Nat), Under(a, q)
  PROVE  /\ Under(Front(a), q) /\ q # Front(a)
         /\ \A b \in Seq(Nat) : b # <<>> /\ Front(b) = Front(a) /\ Under(b, q) => b = a
<1>1. /\ Front(a) \in Seq(Nat) /\ Len(a) \in Nat /\ Len(a) >= 1 /\ Len(Front(a)) = Len(a) - 1
      /\ \A i \in 1..(Len(a) - 1) : Front(a)[i] = a[i]
  BY FrontOf
<1>2. Len(q) \in Nat /\ Len(a) <= Len(q) /\ \A i \in 1..Len(a) : a[i] = q[i]
  BY DEF Under
<1>3. Under(Front(a), q)
  <2>1. Len(Front(a)) <= Len(q)
    BY <1>1, <1>2
  <2>2. ASSUME NEW i \in 1..Len(Front(a)) PROVE Front(a)[i] = q[i]
    <3>1. i \in 1..(Len(a) - 1) /\ i \in 1..Len(a)
      BY <1>1
    <3> QED BY <3>1, <1>1, <1>2
  <2> QED BY <2>1, <2>2 DEF Under
<1>4. q # Front(a)
  <2>1. Len(q) # Len(Front(a))
    BY <1>1, <1>2
  <2> QED BY <2>1
<1>5. ASSUME NEW b \in Seq(Nat), b # <<>>, Front(b) = Front(a), Under(b, q) PROVE b = a
  <2>1. Len(b) \in Nat /\ Len(b) >= 1 /\ Len(Front(b)) = Len(b) - 1
    BY <1>5, FrontOf
  <2>2. Len(b) = Len(a)
    BY <2>1, <1>1, <1>5
  <2>3. Last(b) = q[Len(b)]
    <3>1. Len(b) \in 1..Len(b)
      BY <2>1
    <3> QED BY <3>1, <1>5 DEF Under, Last
  <2>4. Last(a) = q[Len(a)]
    <3>1. Len(a) \in 1..Len(a)
      BY <1>1
    <3> QED BY <3>1, <1>2 DEF Last
  <2>5. Last(a) = Last(b)
    BY <2>2, <2>3, <2>4
  <2> QED BY <2>5, <1>5, SamePath
<1> QED BY <1>3, <1>4, <1>5

\* Children in the order of their names.
LEMMA ByNameOf ==
  ASSUME Matched, ops \in Seq(Op), NEW p, NEW S \in SUBSET Kids(p)
  PROVE  /\ Cardinality(S) \in Nat /\ ByName(S) \in [1..Cardinality(S) -> S]
         /\ \A i, j \in 1..Cardinality(S) : ByName(S)[i] = ByName(S)[j] => i = j
<1> DEFINE f == [x \in S |-> Last(x)]
<1>1. S \in SUBSET Named /\ \A x \in S : x \in Seq(Nat) /\ x # <<>> /\ Front(x) = p
  BY NamedPaths DEF Kids, Matched
<1>2. IsFiniteSet(S)
  BY <1>1, NamedPaths, FS_Subset
<1>3. f \in [S -> Nat]
  BY <1>1, FrontOf
<1>4. ASSUME NEW x \in S, NEW y \in S, f[x] = f[y] PROVE x = y
  <2>1. Last(x) = Last(y) /\ Front(x) = Front(y)
    BY <1>1, <1>4
  <2> QED BY <2>1, <1>1, SamePath
<1>5. ByName(S) = InOrder(S, f)
  BY DEF ByName
<1> HIDE DEF f
<1> QED BY <1>2, <1>3, <1>4, <1>5, InOrderOf

\* The part of the invariant that a step of Execute may disturb.
ExecInv ==
  /\ CellsSound /\ OldKept /\ Matched /\ TodoShaped /\ TodoOnce /\ TodoFresh /\ OwnValues
  /\ \A s \in DOMAIN gained : s \in Cells /\ cells[s].kind = "sk"
  /\ QueueShaped /\ QueueSound /\ FreedLast

LEMMA ExecuteInv ==
  ASSUME IInv, phase = "execute"
  PROVE  /\ ExecInv /\ ops \in Seq(Op) /\ Named \subseteq Seq(Nat)
         /\ ExecInv' /\ phase' = "execute" /\ ops' = ops => IInv'
<1>1. ExecInv /\ ops \in Seq(Op)
  BY DEF IInv, ExecInv
<1>2. Named \subseteq Seq(Nat)
  BY <1>1, NamedPaths
<1>3. ASSUME ExecInv', phase' = "execute", ops' = ops PROVE IInv'
  BY <1>1, <1>3 DEF IInv, ExecInv, Early
<1> QED BY <1>1, <1>2, <1>3

\* The entry at the head of what is left.
LEMMA AtHead ==
  ASSUME ExecInv, todo # <<>>
  PROVE  /\ todo \in Seq(Entry) /\ 1 \in 1..Len(todo) /\ Head(todo) = todo[1] /\ todo[1] \in Entry /\ Here \in Named
         /\ EntryShaped(todo[1]) /\ Here = todo[1].p
         /\ Once(Named, todo)
         /\ \A q \in Named : /\ Covers(todo[1], "values", q) => ValuesFresh(q)
                             /\ Covers(todo[1], "list", q) => SubsFresh(q)
<1>1. todo \in Seq(Entry) /\ \A i \in 1..Len(todo) : EntryShaped(todo[i])
  BY DEF ExecInv, TodoShaped
<1>2. Once(Named, todo)
  BY DEF ExecInv, TodoOnce
<1>3. 1 \in 1..Len(todo) /\ Head(todo) = todo[1]
  BY <1>1, EmptySeq
<1>4. todo[1] \in Entry
  BY <1>1, <1>3
<1>5. Here = todo[1].p /\ Here \in Named
  BY <1>3, <1>4 DEF Here, Entry
<1> QED BY <1>1, <1>2, <1>3, <1>4, <1>5 DEF ExecInv, TodoFresh

\* What leaves the cells and the queue alone.
LEMMA QuietStep ==
  ASSUME CellsSound, OldKept, OwnValues, QueueShaped, QueueSound, FreedLast, UNCHANGED <<cells, queue, top>>
  PROVE  CellsSound' /\ OldKept' /\ OwnValues' /\ QueueShaped' /\ QueueSound' /\ FreedLast'
<1>1. Keys' = Keys /\ (\A f : Changes(f)' = Changes(f))
  BY DEF Keys, Changes
<1>2. ToFree' = ToFree /\ \A r, f : Pending(r, f)' <=> Pending(r, f)
  BY <1>1 DEF ToFree, Pending
<1>3. CellsSound'
  BY <1>1 DEF CellsSound
<1>4. OldKept'
  BY <1>1 DEF OldKept
<1>5. OwnValues'
  BY <1>1 DEF OwnValues
<1>6. QueueShaped'
  BY <1>1 DEF QueueShaped
<1>7. QueueSound'
  BY <1>1, <1>2 DEF QueueSound
<1>8. FreedLast'
  BY <1>1, <1>2 DEF FreedLast
<1> QED BY <1>3, <1>4, <1>5, <1>6, <1>7, <1>8

LEMMA NodeStep ==
  ASSUME IInv, ProcessNode
  PROVE  IInv'
<1> DEFINE p == Here
           kids == ByName(Kids(p))
           rebuild == Exists(p) /\ \E q \in Kids(p) : ~Exists(q) \/ trie[q].del
           K == [i \in DOMAIN kids |-> [do |-> "child", p |-> kids[i]]]
           V == <<[do |-> "values", p |-> p]>>
           L == IF rebuild THEN <<[do |-> "list", p |-> p]>> ELSE <<>>
           F == K \o V \o L
           n == Cardinality(Kids(p))
<1>1. /\ phase = "execute" /\ todo # <<>> /\ Head(todo).do = "node"
      /\ phase' = "execute" /\ UNCHANGED <<ops, trie, cells, top, queue, gained>>
      /\ todo' = F \o Tail(todo)
  BY DEF ProcessNode, Doing
<1>2. ExecInv /\ ops \in Seq(Op) /\ Named \subseteq Seq(Nat) /\ (ExecInv' => IInv')
  BY <1>1, ExecuteInv
<1>3. /\ todo \in Seq(Entry) /\ 1 \in 1..Len(todo) /\ todo[1].do = "node" /\ p \in Named /\ p = todo[1].p
      /\ EntryShaped(todo[1]) /\ Once(Named, todo)
  BY <1>1, <1>2, AtHead
<1>4. n \in Nat /\ kids \in [1..n -> Kids(p)] /\ \A i, j \in 1..n : kids[i] = kids[j] => i = j
  BY <1>2, ByNameOf DEF ExecInv
<1>5. \A q \in Kids(p) : q \in Named /\ q \in Seq(Nat) /\ q # <<>> /\ Front(q) = p
  BY <1>2 DEF Kids, ExecInv, Matched
<1>6. Kids(p) # {} => Exists(p)
  BY <1>3 DEF EntryShaped
<1> HIDE DEF kids, rebuild, n, p
<1>7. /\ K \in Seq(Entry) /\ Len(K) = n
      /\ \A i \in 1..n : K[i] = [do |-> "child", p |-> kids[i]] /\ kids[i] \in Kids(p)
  <2>1. DOMAIN kids = 1..n
    BY <1>4
  <2>2. ASSUME NEW i \in 1..n PROVE K[i] = [do |-> "child", p |-> kids[i]] /\ kids[i] \in Kids(p) /\ K[i] \in Entry
    BY <2>1, <1>4, <1>5 DEF Entry
  <2>3. K = [i \in 1..n |-> K[i]]
    BY <2>1
  <2> HIDE DEF K
  <2>4. n \in Nat /\ \A i \in 1..n : K[i] \in Entry
    BY <1>4, <2>2
  <2>5. K \in Seq(Entry) /\ Len(K) = n
    BY <2>3, <2>4
  <2> QED BY <2>2, <2>5
<1>8. V \in Seq(Entry) /\ Len(V) = 1 /\ V[1] = [do |-> "values", p |-> p]
  BY <1>3 DEF Entry
<1>9. /\ L \in Seq(Entry) /\ Len(L) \in {0, 1}
      /\ \A i \in 1..Len(L) : L[i] = [do |-> "list", p |-> p] /\ i = 1 /\ rebuild
  <2>1. CASE rebuild
    <3>1. L = <<[do |-> "list", p |-> p]>>
      BY <2>1
    <3> QED BY <3>1, <2>1, <1>3 DEF Entry
  <2>2. CASE ~rebuild
    <3>1. L = <<>>
      BY <2>2
    <3>2. Len(L) = 0 /\ L \in Seq(Entry)
      BY <3>1
    <3> HIDE DEF L
    <3> QED BY <3>2
  <2> QED BY <2>1, <2>2
<1> HIDE DEF K, V, L
<1>10. /\ F \in Seq(Entry) /\ Len(F) \in Nat
       /\ \A i \in 1..Len(F) :
            \/ i \in 1..n /\ F[i] = K[i]
            \/ i = n + 1 /\ F[i] = V[1]
            \/ i = n + 2 /\ F[i] = L[1] /\ 1 \in 1..Len(L)
  <2> DEFINE KV == K \o V
  <2>a. K \in Seq(Entry) /\ V \in Seq(Entry) /\ Len(K) = n /\ Len(V) = 1 /\ n \in Nat
    BY <1>4, <1>7, <1>8
  <2>b. /\ KV \in Seq(Entry) /\ Len(KV) = Len(K) + Len(V)
        /\ \A i \in 1..(Len(K) + Len(V)) : KV[i] = IF i <= Len(K) THEN K[i] ELSE V[i - Len(K)]
    BY <2>a, ConcatProperties
  <2>1. KV \in Seq(Entry) /\ Len(KV) = n + 1
    BY <2>a, <2>b
  <2>2. \A i \in 1..(n + 1) : KV[i] = IF i <= n THEN K[i] ELSE V[i - n]
    BY <2>a, <2>b
  <2> HIDE DEF KV
  <2>3. F = KV \o L
    BY DEF KV
  <2>4. F \in Seq(Entry) /\ Len(F) = n + 1 + Len(L)
    BY <1>4, <1>9, <2>1, <2>3, ConcatProperties
  <2>5. \A i \in 1..Len(F) : F[i] = IF i <= n + 1 THEN KV[i] ELSE L[i - (n + 1)]
    BY <1>4, <1>9, <2>1, <2>3, <2>4, ConcatProperties
  <2>6. ASSUME NEW i \in 1..Len(F)
        PROVE  \/ i \in 1..n /\ F[i] = K[i]
               \/ i = n + 1 /\ F[i] = V[1]
               \/ i = n + 2 /\ F[i] = L[1] /\ 1 \in 1..Len(L)
    <3>1. CASE i \in 1..n
      <4>1. i \in 1..(n + 1) /\ i <= n + 1 /\ i <= n
        BY <3>1, <1>4
      <4> QED BY <3>1, <4>1, <2>2, <2>5
    <3>2. CASE i = n + 1
      <4>1. i \in 1..(n + 1) /\ i <= n + 1 /\ ~(i <= n) /\ i - n = 1
        BY <3>2, <1>4
      <4> QED BY <3>2, <4>1, <2>2, <2>5
    <3>3. CASE i \notin 1..n /\ i # n + 1
      <4>1. i = n + 2 /\ Len(L) = 1 /\ ~(i <= n + 1) /\ i - (n + 1) = 1
        BY <3>3, <1>4, <1>9, <2>4
      <4>2. F[i] = L[1]
        BY <4>1, <2>5
      <4> QED BY <4>1, <4>2
    <3> QED BY <3>1, <3>2, <3>3
  <2>7. Len(F) \in Nat
    BY <2>4, <1>4, <1>9
  <2> QED BY <2>4, <2>6, <2>7
<1> HIDE DEF F
<1>11. ASSUME NEW i \in 1..Len(F)
       PROVE  \/ i \in 1..n /\ F[i] = [do |-> "child", p |-> kids[i]] /\ kids[i] \in Kids(p)
              \/ i = n + 1 /\ F[i] = [do |-> "values", p |-> p]
              \/ i = n + 2 /\ F[i] = [do |-> "list", p |-> p] /\ rebuild
  BY <1>7, <1>8, <1>9, <1>10
<1>12. ASSUME NEW i \in 1..Len(F), NEW k \in {"values", "list"}, NEW q \in Named
       PROVE  Covers(F[i], k, q) <=> \/ i \in 1..n /\ kids[i] \in Kids(p) /\ Under(kids[i], q)
                                     \/ i = n + 1 /\ k = "values" /\ q = p
                                     \/ i = n + 2 /\ k = "list" /\ q = p /\ rebuild
  <2>1. CASE i \in 1..n
    <3>1. F[i] = [do |-> "child", p |-> kids[i]] /\ kids[i] \in Kids(p) /\ i # n + 1 /\ i # n + 2
      BY <2>1, <1>4, <1>11
    <3> QED BY <2>1, <3>1 DEF Covers
  <2>2. CASE i = n + 1
    <3>0. i \notin 1..n /\ i # n + 2
      BY <2>2, <1>4
    <3>1. F[i] = [do |-> "values", p |-> p] /\ i \notin 1..n /\ i # n + 2
      BY <3>0, <1>11
    <3> QED BY <2>2, <3>1 DEF Covers
  <2>3. CASE i = n + 2
    <3>0. i \notin 1..n /\ i # n + 1
      BY <2>3, <1>4
    <3>1. F[i] = [do |-> "list", p |-> p] /\ i \notin 1..n /\ i # n + 1 /\ rebuild
      BY <3>0, <1>11
    <3> QED BY <2>3, <3>1 DEF Covers
  <2> QED BY <1>11, <2>1, <2>2, <2>3
<1>13. ASSUME NEW i \in 1..n, NEW q \in Named, kids[i] \in Kids(p), Under(kids[i], q)
       PROVE  Under(p, q) /\ q # p /\ \A j \in 1..n : kids[j] \in Kids(p) /\ Under(kids[j], q) => j = i
  <2> DEFINE a == kids[i]
  <2>1. a \in Seq(Nat) /\ a # <<>> /\ Front(a) = p /\ q \in Seq(Nat)
    BY <1>2, <1>5, <1>13
  <2> HIDE DEF a
  <2>2. Under(a, q)
    BY <1>13 DEF a
  <2>3. Under(p, q) /\ q # p /\ \A b \in Seq(Nat) : b # <<>> /\ Front(b) = p /\ Under(b, q) => b = a
    BY <2>1, <2>2, KidUnder
  <2>4. ASSUME NEW j \in 1..n, kids[j] \in Kids(p), Under(kids[j], q) PROVE j = i
    <3>1. kids[j] = a
      BY <2>3, <2>4, <1>5
    <3> QED BY <3>1, <1>4 DEF a
  <2> QED BY <2>3, <2>4
<1>14. Once(Named, F)
  <2> SUFFICES ASSUME NEW i \in 1..Len(F), NEW j \in 1..Len(F), NEW k \in {"values", "list"}, NEW q \in Named,
                      Covers(F[i], k, q), Covers(F[j], k, q)
               PROVE  i = j
    BY DEF Once
  <2>1. /\ \/ i \in 1..n /\ kids[i] \in Kids(p) /\ Under(kids[i], q)
           \/ i = n + 1 /\ k = "values" /\ q = p
           \/ i = n + 2 /\ k = "list" /\ q = p
        /\ \/ j \in 1..n /\ kids[j] \in Kids(p) /\ Under(kids[j], q)
           \/ j = n + 1 /\ k = "values" /\ q = p
           \/ j = n + 2 /\ k = "list" /\ q = p
    BY <1>12
  <2> QED BY <2>1, <1>13
<1>15. ASSUME NEW i \in 1..Len(F), NEW k \in {"values", "list"}, NEW q \in Named, Covers(F[i], k, q)
       PROVE  Covers(todo[1], k, q)
  <2>1. Under(p, p)
    <3>1. p \in Seq(Nat)
      BY <1>2, <1>3
    <3> QED BY <3>1 DEF Under
  <2>2. Under(p, q)
    BY <1>12, <1>13, <1>15, <2>1
  <2> QED BY <2>2, <1>3 DEF Covers
<1>16. /\ todo' \in Seq(Entry) /\ Once(Named, todo')
       /\ \A i \in 1..Len(todo') : \/ i \in 1..Len(F) /\ todo'[i] = F[i]
                                   \/ \E j \in 2..Len(todo) : todo'[i] = todo[j]
  <2> DEFINE E == Entry  N == Named  t == todo
  <2>1. F \in Seq(E) /\ t \in Seq(E) /\ t # <<>> /\ Once(N, t) /\ Once(N, F)
    BY <1>1, <1>3, <1>10, <1>14
  <2>2. \A i \in 1..Len(F) : \A k \in {"values", "list"} : \A q \in N : Covers(F[i], k, q) => Covers(t[1], k, q)
    BY <1>15
  <2>3. todo' = F \o Tail(t)
    BY <1>1
  <2> HIDE DEF E, N, t
  <2>4. /\ F \o Tail(t) \in Seq(E) /\ Once(N, F \o Tail(t))
        /\ \A i \in 1..Len(F \o Tail(t)) :
             \/ i \in 1..Len(F) /\ (F \o Tail(t))[i] = F[i]
             \/ \E j \in 2..Len(t) : (F \o Tail(t))[i] = t[j]
    BY <2>1, <2>2, OnceSplit
  <2> QED BY <2>3, <2>4 DEF E, N, t
<1>17. /\ Named' = Named /\ Matched' /\ Keys' = Keys
       /\ \A q : (Exists(q)' <=> Exists(q)) /\ Kids(q)' = Kids(q)
  BY <1>1, <1>2, MatchedKept DEF ExecInv
<1>18. \A q : (ValuesFresh(q)' <=> ValuesFresh(q)) /\ (SubsFresh(q)' <=> SubsFresh(q))
  BY <1>1, <1>17 DEF ValuesFresh, SubsFresh, Pending, Changes
<1>19. \A j \in 2..Len(todo) : j \in 1..Len(todo)
  OBVIOUS
<1>20. TodoShaped'
  <2>1. ASSUME NEW i \in 1..Len(F) PROVE EntryShaped(F[i])
    <3>1. CASE i \in 1..n /\ F[i] = [do |-> "child", p |-> kids[i]] /\ kids[i] \in Kids(p)
      BY <3>1, <1>3, <1>5, <1>6 DEF EntryShaped
    <3>2. CASE F[i] = [do |-> "values", p |-> p]
      BY <3>2 DEF EntryShaped
    <3>3. CASE F[i] = [do |-> "list", p |-> p] /\ rebuild
      BY <3>3 DEF EntryShaped, rebuild
    <3> QED BY <1>11, <3>1, <3>2, <3>3
  <2>2. ASSUME NEW i \in 1..Len(todo') PROVE EntryShaped(todo'[i])
    <3>1. \A j \in 1..Len(todo) : EntryShaped(todo[j])
      BY <1>2 DEF ExecInv, TodoShaped
    <3> QED BY <1>16, <1>19, <2>1, <3>1
  <2>3. \A e : EntryShaped(e)' <=> EntryShaped(e)
    BY <1>17 DEF EntryShaped
  <2>4. Entry' = Entry
    BY <1>17 DEF Entry
  <2> QED BY <1>16, <2>2, <2>3, <2>4 DEF TodoShaped
<1>21. TodoOnce'
  BY <1>16, <1>17 DEF TodoOnce
<1>22. TodoFresh'
  <2> SUFFICES ASSUME NEW i \in 1..Len(todo'), NEW q \in Named
               PROVE  /\ Covers(todo'[i], "values", q) => ValuesFresh(q)
                      /\ Covers(todo'[i], "list", q) => SubsFresh(q)
    BY <1>17, <1>18 DEF TodoFresh
  <2>1. \E j \in 1..Len(todo) : \A k \in {"values", "list"} : Covers(todo'[i], k, q) => Covers(todo[j], k, q)
    BY <1>3, <1>15, <1>16, <1>19
  <2> QED BY <2>1, <1>2 DEF ExecInv, TodoFresh
<1>23. CellsSound' /\ OldKept' /\ OwnValues' /\ QueueShaped' /\ QueueSound' /\ FreedLast'
  BY <1>1, <1>2, QuietStep DEF ExecInv
<1>24. \A s \in DOMAIN gained' : s \in Cells /\ cells'[s].kind = "sk"
  BY <1>1, <1>2 DEF ExecInv
<1> QED BY <1>2, <1>17, <1>20, <1>21, <1>22, <1>23, <1>24 DEF ExecInv

\* Work that is dropped, or replaced by one entry for the same, when the trie, the cells
\* and the queue stay.
LEMMA TodoQuiet ==
  ASSUME ExecInv, ops \in Seq(Op), todo # <<>>, UNCHANGED <<ops, trie, cells, top, queue, gained>>,
         \/ todo' = Tail(todo)
         \/ \E e \in Entry : /\ todo' = <<e>> \o Tail(todo) /\ EntryShaped(e)
                             /\ \A k \in {"values", "list"} : \A q \in Named : Covers(e, k, q) => Covers(todo[1], k, q)
  PROVE  ExecInv'
<1>1. /\ todo \in Seq(Entry) /\ 1 \in 1..Len(todo) /\ Once(Named, todo)
  BY AtHead
<1> DEFINE Kept(i) ==
      \/ \E j \in 2..Len(todo) : todo'[i] = todo[j]
      \/ EntryShaped(todo'[i]) /\ \A k \in {"values", "list"} : \A q \in Named : Covers(todo'[i], k, q) => Covers(todo[1], k, q)
<1>2. /\ todo' \in Seq(Entry) /\ Once(Named, todo') /\ \A i \in 1..Len(todo') : Kept(i)
  <2> DEFINE E == Entry  N == Named  t == todo
  <2>0. t \in Seq(E) /\ t # <<>> /\ Once(N, t)
    BY <1>1
  <2>1. CASE todo' = Tail(todo)
    <3> HIDE DEF E, N, t
    <3>1. Tail(t) \in Seq(E) /\ Once(N, Tail(t)) /\ \A i \in 1..Len(Tail(t)) : \E j \in 2..Len(t) : Tail(t)[i] = t[j]
      BY <2>0, OnceTail
    <3> QED BY <2>1, <3>1 DEF E, N, t
  <2>2. ASSUME NEW e \in Entry, todo' = <<e>> \o Tail(todo), EntryShaped(e),
               \A k \in {"values", "list"} : \A q \in Named : Covers(e, k, q) => Covers(todo[1], k, q)
        PROVE  /\ todo' \in Seq(Entry) /\ Once(Named, todo') /\ \A i \in 1..Len(todo') : Kept(i)
    <3> DEFINE s == <<e>>
    <3>1. s \in Seq(E) /\ Len(s) = 1 /\ s[1] = e
      OBVIOUS
    <3>2. \A i \in 1..Len(s) : s[i] = e /\ i = 1
      BY <3>1
    <3>3. Once(N, s)
      BY <3>2 DEF Once
    <3>4. \A i \in 1..Len(s) : \A k \in {"values", "list"} : \A q \in N : Covers(s[i], k, q) => Covers(t[1], k, q)
      BY <3>2, <2>2
    <3>5. todo' = s \o Tail(t)
      BY <2>2
    <3> HIDE DEF E, N, t, s
    <3>6. /\ s \o Tail(t) \in Seq(E) /\ Once(N, s \o Tail(t))
          /\ \A i \in 1..Len(s \o Tail(t)) :
               \/ i \in 1..Len(s) /\ (s \o Tail(t))[i] = s[i]
               \/ \E j \in 2..Len(t) : (s \o Tail(t))[i] = t[j]
      <4>1. s \in Seq(E)
        BY <3>1
      <4> QED BY <2>0, <4>1, <3>3, <3>4, OnceSplit
    <3>7. ASSUME NEW i \in 1..Len(todo') PROVE Kept(i)
      <4>1. CASE i \in 1..Len(s) /\ todo'[i] = s[i]
        <5>1. todo'[i] = e
          BY <4>1, <3>2
        <5> QED BY <5>1, <2>2
      <4>2. CASE \E j \in 2..Len(t) : todo'[i] = t[j]
        BY <4>2 DEF t
      <4> QED BY <3>5, <3>6, <4>1, <4>2
    <3> HIDE DEF Kept
    <3> QED BY <3>5, <3>6, <3>7 DEF E, N
  <2> QED BY <2>1, <2>2
<1>3. /\ Named' = Named /\ Matched' /\ Keys' = Keys
      /\ \A q : (Exists(q)' <=> Exists(q)) /\ Kids(q)' = Kids(q)
  BY MatchedKept DEF ExecInv
<1>4. \A q : (ValuesFresh(q)' <=> ValuesFresh(q)) /\ (SubsFresh(q)' <=> SubsFresh(q))
  BY <1>3 DEF ValuesFresh, SubsFresh, Pending, Changes
<1>5. \A j \in 2..Len(todo) : j \in 1..Len(todo)
  BY <1>1
<1>6. TodoShaped'
  <2>1. ASSUME NEW i \in 1..Len(todo') PROVE EntryShaped(todo'[i])
    <3>1. \A j \in 1..Len(todo) : EntryShaped(todo[j])
      BY DEF ExecInv, TodoShaped
    <3> QED BY <1>2, <1>5, <3>1
  <2>2. \A e : EntryShaped(e)' <=> EntryShaped(e)
    BY <1>3 DEF EntryShaped
  <2>3. Entry' = Entry
    BY <1>3 DEF Entry
  <2> QED BY <1>2, <2>1, <2>2, <2>3 DEF TodoShaped
<1>7. TodoOnce'
  BY <1>2, <1>3 DEF TodoOnce
<1>8. TodoFresh'
  <2> SUFFICES ASSUME NEW i \in 1..Len(todo'), NEW q \in Named
               PROVE  /\ Covers(todo'[i], "values", q) => ValuesFresh(q)
                      /\ Covers(todo'[i], "list", q) => SubsFresh(q)
    BY <1>3, <1>4 DEF TodoFresh
  <2>1. \E j \in 1..Len(todo) : \A k \in {"values", "list"} : Covers(todo'[i], k, q) => Covers(todo[j], k, q)
    BY <1>1, <1>2, <1>5
  <2> QED BY <2>1 DEF ExecInv, TodoFresh
<1>9. CellsSound' /\ OldKept' /\ OwnValues' /\ QueueShaped' /\ QueueSound' /\ FreedLast'
  BY QuietStep DEF ExecInv
<1>10. \A s \in DOMAIN gained' : s \in Cells /\ cells'[s].kind = "sk"
  BY DEF ExecInv
<1> QED BY <1>3, <1>6, <1>7, <1>8, <1>9, <1>10 DEF ExecInv

LEMMA UnderSelf ==
  ASSUME NEW p \in Seq(Nat)
  PROVE  Under(p, p)
BY DEF Under

\* A cell that is free is in no key, list or value.
LEMMA TopFree ==
  ASSUME OldKept, top \in Cells
  PROVE  cells[top] = Unset /\ cells[top].kind = "free" /\ top \notin Keys /\ top \notin DOMAIN Hive /\ top \in Nat
<1>1. top \in Nat /\ top > Len(Hive) /\ cells[top] = Unset
  BY DEF OldKept
<1>2. cells[top].kind = "free"
  BY <1>1 DEF Unset
<1>3. top \notin DOMAIN Hive
  BY <1>1, HiveCells
<1> QED BY <1>1, <1>2, <1>3 DEF Keys

LEMMA ChildStep ==
  ASSUME IInv, ProcessChild
  PROVE  IInv'
<1> DEFINE p == Here
           up == trie[Front(p)]
           e == [do |-> "node", p |-> p]
           deeper == <<e>> \o Tail(todo)
<1>1. /\ phase = "execute" /\ todo # <<>> /\ Head(todo).do = "child"
      /\ phase' = "execute" /\ UNCHANGED <<ops, queue>>
  BY DEF ProcessChild, Doing
<1>2. ExecInv /\ ops \in Seq(Op) /\ Named \subseteq Seq(Nat) /\ (ExecInv' => IInv')
  BY <1>1, ExecuteInv
<1>3. /\ todo \in Seq(Entry) /\ 1 \in 1..Len(todo) /\ todo[1].do = "child" /\ p \in Named /\ p = todo[1].p
      /\ EntryShaped(todo[1]) /\ Once(Named, todo)
      /\ \A q \in Named : /\ Covers(todo[1], "values", q) => ValuesFresh(q)
                          /\ Covers(todo[1], "list", q) => SubsFresh(q)
  BY <1>1, <1>2, AtHead
<1>4. p # <<>> /\ Front(p) \in Named /\ Exists(Front(p)) /\ p \in Seq(Nat)
  BY <1>2, <1>3 DEF EntryShaped
<1>5. e \in Entry /\ \A k \in {"values", "list"} : \A q : Covers(e, k, q) <=> Covers(todo[1], k, q)
  BY <1>3 DEF Entry, Covers
<1>6. CASE trie[p].del
  <2>1. todo' = Tail(todo) /\ UNCHANGED <<trie, cells, top, gained>>
    BY <1>6 DEF ProcessChild
  <2> QED BY <1>1, <1>2, <2>1, TodoQuiet
<1>7. CASE ~trie[p].del /\ Exists(p)
  <2>1. todo' = deeper /\ UNCHANGED <<trie, cells, top, gained>>
    BY <1>7 DEF ProcessChild
  <2>2. EntryShaped(e)
    BY <1>7 DEF EntryShaped
  <2>3. \A k \in {"values", "list"} : \A q \in Named : Covers(e, k, q) => Covers(todo[1], k, q)
    BY <1>5
  <2> QED BY <1>1, <1>2, <1>5, <2>1, <2>2, <2>3, TodoQuiet
<1>8. CASE ~trie[p].del /\ ~Exists(p)
  <2> DEFINE nk == [kind |-> "nk", name |-> Last(p), parent |-> up.ref, sk |-> up.sk,
                    subs |-> Invalid, nsubs |-> 0, list |-> Invalid, nvals |-> 0]
  <2>1. /\ top \in Cells /\ todo' = deeper /\ cells' = [cells EXCEPT ![top] = nk] /\ top' = top + 1
        /\ trie' = [trie EXCEPT ![p].ref = top, ![p].sk = up.sk]
        /\ gained' = IF up.sk = Invalid THEN gained ELSE Bump(gained, up.sk)
    BY <1>8 DEF ProcessChild
  <2>2. /\ CellsSound /\ OldKept /\ Matched /\ TodoShaped /\ TodoOnce /\ TodoFresh /\ OwnValues
        /\ QueueShaped /\ QueueSound /\ FreedLast
        /\ \A s \in DOMAIN gained : s \in Cells /\ cells[s].kind = "sk"
    BY <1>2 DEF ExecInv
  <2>3. /\ cells[top] = Unset /\ cells[top].kind = "free" /\ top \notin Keys /\ top \notin DOMAIN Hive /\ top \in Nat
    BY <2>1, <2>2, TopFree
  <2>4. /\ trie \in [Named -> Node] /\ trie[p] \in Node /\ up \in Node
        /\ up.ref \in Keys /\ up.ref \in Nat /\ up.sk = cells[up.ref].sk /\ up.sk \in Cells /\ cells[up.sk].kind = "sk" /\ up.sk \in Nat
    <3>1. trie \in [Named -> Node] /\ trie[p] \in Node /\ up \in Node
      BY <1>3, <1>4, <2>2 DEF Matched
    <3>2. up.ref \in Keys /\ up.sk = cells[up.ref].sk
      BY <1>4, <2>2 DEF Matched
    <3>3. KeySound(cells, up.ref)
      BY <3>2, <2>2 DEF CellsSound
    <3>4. up.sk \in Cells /\ cells[up.sk].kind = "sk"
      BY <3>2, <3>3 DEF KeySound
    <3> QED BY <3>1, <3>2, <3>4, HiveCells DEF Keys
  <2> HIDE DEF up
  <2>5. nk \in NkCell /\ nk.kind = "nk" /\ nk.name = Last(p) /\ nk.sk = up.sk /\ nk.subs = Invalid /\ nk.list = Invalid /\ nk.nvals = 0
    <3>1. Last(p) \in Nat
      BY <1>4, FrontOf
    <3> QED BY <3>1, <2>4 DEF NkCell, Invalid
  <2>6. DOMAIN cells' = Cells /\ cells'[top] = nk /\ \A x \in Cells : x # top => cells'[x] = cells[x]
    BY <2>1, <2>2 DEF CellsSound
  <2> HIDE DEF nk
  <2>7. Grown(cells, cells')
    BY <2>3, <2>6 DEF Grown
  <2>8. Keys' = Keys \cup {top}
    BY <2>1, <2>5, <2>6 DEF Keys
  <2>9. ASSUME NEW x \in Keys PROVE cells'[x] = cells[x] /\ cells[x] \in NkCell /\ KeySound(cells', x) /\ x # top
    <3>1. cells[x] \in NkCell /\ KeySound(cells, x) /\ x # top
      BY <2>2, <2>3 DEF CellsSound
    <3> QED BY <3>1, <2>7, GrownKey
  <2>10. CellsSound'
    <3>1. SubsSound(cells', Invalid) /\ ListSound(cells', Invalid)
      BY DEF SubsSound, ListSound
    <3>2. cells'[up.sk].kind = "sk"
      BY <2>3, <2>4, <2>6
    <3>3. cells'[top] \in NkCell /\ KeySound(cells', top)
      BY <3>1, <3>2, <2>1, <2>4, <2>5, <2>6 DEF KeySound
    <3>4. ASSUME NEW x \in Cells, cells'[x].kind = "sk" PROVE DOMAIN cells'[x] = {"kind", "count"}
      <4>1. x # top
        BY <3>4, <2>5, <2>6
      <4> QED BY <4>1, <3>4, <2>2, <2>6 DEF CellsSound
    <3>5. HiveRoot \in Keys'
      BY <2>2, <2>8 DEF CellsSound
    <3> QED BY <2>6, <2>8, <2>9, <3>3, <3>4, <3>5 DEF CellsSound
  <2>11. OldKept'
    <3>1. top' \in Nat /\ top' > Len(Hive)
      BY <2>1, <2>2, <2>3, HiveCells DEF OldKept
    <3>2. ASSUME NEW x \in DOMAIN Hive PROVE cells'[x] = Hive[x]
      <4>1. x \in Cells /\ x # top
        BY <2>3, HiveCells
      <4> QED BY <4>1, <2>2, <2>6 DEF OldKept
    <3>3. ASSUME NEW x \in Cells, x >= top' PROVE cells'[x] = Unset
      <4>1. x \in Nat /\ x >= top /\ x # top
        BY <2>1, <2>3, <3>3, HiveCells
      <4> QED BY <4>1, <2>2, <2>6 DEF OldKept
    <3>4. ASSUME NEW x \in Keys', x \notin DOMAIN Hive
          PROVE  cells'[x].subs = Invalid /\ cells'[x].list = Invalid /\ cells'[x].nvals = 0
      BY <3>4, <2>2, <2>5, <2>6, <2>8, <2>9 DEF OldKept
    <3> QED BY <3>1, <3>2, <3>3, <3>4 DEF OldKept
  <2>12. /\ trie' \in [Named -> Node] /\ trie'[p].ref = top /\ trie'[p].sk = up.sk
         /\ trie'[p].list = trie[p].list /\ trie'[p].nvals = trie[p].nvals /\ trie'[p].subs = trie[p].subs
         /\ \A q \in Named : q # p => trie'[q] = trie[q]
    <3> DEFINE t == [trie[p] EXCEPT !.ref = top, !.sk = up.sk]
    <3>1. trie' = [trie EXCEPT ![p] = t]
      BY <1>3, <2>1, <2>4
    <3>2. /\ t \in Node /\ t.ref = top /\ t.sk = up.sk /\ t.list = trie[p].list /\ t.nvals = trie[p].nvals
          /\ t.subs = trie[p].subs
      BY <2>3, <2>4 DEF Node
    <3> HIDE DEF t
    <3>3. trie'[p] = t /\ (\A q \in Named : q # p => trie'[q] = trie[q]) /\ trie' \in [Named -> Node]
      BY <1>3, <2>4, <3>1, <3>2
    <3> QED BY <3>2, <3>3
  <2>13. /\ Named' = Named /\ Entry' = Entry /\ (\A q : Kids(q)' = Kids(q))
         /\ \A q \in Named : Exists(q)' <=> (Exists(q) \/ q = p)
    <3>1. Named' = Named
      BY <1>1 DEF Named
    <3>2. DOMAIN trie' = DOMAIN trie
      BY <2>4, <2>12
    <3>3. top # Invalid
      BY <2>1, HiveCells
    <3>4. Entry' = Entry
      BY <3>1 DEF Entry
    <3>5. \A q : Kids(q)' = Kids(q)
      BY <3>2 DEF Kids
    <3> QED BY <3>1, <3>3, <3>4, <3>5, <2>12 DEF Exists
  <2>14. Matched'
    <3>1. ASSUME NEW q \in Named, Exists(q)'
          PROVE  /\ trie'[q].ref \in Keys' /\ trie'[q].sk = cells'[trie'[q].ref].sk
                 /\ q # <<>> => cells'[trie'[q].ref].name = Last(q)
      <4>1. CASE q = p
        BY <4>1, <2>5, <2>6, <2>8, <2>12
      <4>2. CASE q # p
        <5>1. Exists(q) /\ trie'[q] = trie[q]
          BY <3>1, <4>2, <2>12, <2>13
        <5>2. trie[q].ref \in Keys /\ trie[q].sk = cells[trie[q].ref].sk /\ (q # <<>> => cells[trie[q].ref].name = Last(q))
          BY <5>1, <2>2 DEF Matched
        <5> QED BY <5>1, <5>2, <2>8, <2>9
      <4> QED BY <4>1, <4>2
    <3>2. ASSUME NEW q \in Named, NEW w \in Named, Exists(q)', trie'[q].ref = trie'[w].ref PROVE q = w
      <4>1. ASSUME NEW a \in Named, a # p, trie'[a].ref = top PROVE FALSE
        <5>1. trie[a].ref = top /\ trie[a].ref # Invalid
          BY <4>1, <2>1, <2>12, HiveCells
        <5>2. trie[a].ref \in Keys
          BY <5>1, <2>2 DEF Matched, Exists
        <5> QED BY <5>1, <5>2, <2>3
      <4>2. CASE q = p \/ w = p
        BY <4>1, <4>2, <3>2, <2>12
      <4>3. CASE q # p /\ w # p
        <5>1. Exists(q) /\ trie[q].ref = trie[w].ref
          BY <4>3, <3>2, <2>12, <2>13
        <5> QED BY <5>1, <2>2 DEF Matched
      <4> QED BY <4>2, <4>3
    <3>3. Kids(<<>>)' # {} => Exists(<<>>)'
      <4>1. <<>> \in Named
        BY <1>2, NamedPaths
      <4> QED BY <4>1, <2>2, <2>13 DEF Matched
    <3> QED BY <2>12, <2>13, <3>1, <3>2, <3>3 DEF Matched
  <2>15. /\ (\A f : Changes(f)' = Changes(f)) /\ ToFree' = ToFree /\ (\A r, f : Pending(r, f)' <=> Pending(r, f))
    <3>1. \A f : Changes(f)' = Changes(f)
      BY <1>1 DEF Changes
    <3> QED BY <3>1 DEF ToFree, Pending
  <2>16. QueueShaped'
    <3> SUFFICES ASSUME NEW u \in queue
                 PROVE  /\ u.field \in DOMAIN Category /\ u.cat = Category[u.field]
                        /\ u.field \in {"nsubs", "subs", "nvals", "list"} => u.ref \in Keys' /\ u.val \in Nat
                        /\ u.field = "count" => u.ref \in Cells /\ cells'[u.ref].kind = "sk"
                        /\ u.field = "free" => /\ u = Update(2, u.ref, "free", 0) /\ u.ref \in DOMAIN Hive
                                               /\ cells'[u.ref].kind \in {"subkeys", "values", "vk", "data"}
      BY <1>1 DEF QueueShaped
    <3>1. /\ u.field \in DOMAIN Category /\ u.cat = Category[u.field]
          /\ u.field \in {"nsubs", "subs", "nvals", "list"} => u.ref \in Keys /\ u.val \in Nat
          /\ u.field = "count" => u.ref \in Cells /\ cells[u.ref].kind = "sk"
          /\ u.field = "free" => /\ u = Update(2, u.ref, "free", 0) /\ u.ref \in DOMAIN Hive
                                 /\ cells[u.ref].kind \in {"subkeys", "values", "vk", "data"}
      BY <2>2 DEF QueueShaped
    <3>2. u.ref \in DOMAIN Hive => u.ref \in Cells
      BY HiveCells
    <3> QED BY <3>1, <3>2, <2>7, <2>8 DEF Grown
  <2>17. QueueSound'
    <3>1. ASSUME NEW u \in Changes("subs") PROVE SubsSound(cells', u.val) /\ u.val \notin DOMAIN Hive
      BY <3>1, <2>2, <2>7, GrownSubs DEF QueueSound
    <3>2. ASSUME NEW u \in Changes("list") PROVE ListSound(cells', u.val) /\ ToFree \cap ValueCells(cells', u.val) = {}
      BY <3>2, <2>2, <2>7, GrownList DEF QueueSound
    <3> QED BY <3>1, <3>2, <2>15 DEF QueueSound
  <2>18. OwnValues'
    <3>1. ASSUME NEW u \in Changes("list") PROVE ValueCells(cells', u.val) = ValueCells(cells, u.val)
      BY <3>1, <2>2, <2>7, GrownList DEF QueueSound
    <3> QED BY <3>1, <2>2, <2>15 DEF OwnValues
  <2>19. FreedLast'
    <3> SUFFICES ASSUME NEW x \in ToFree, NEW r \in Keys'
                 PROVE  /\ x = cells'[r].subs => Pending(r, "subs")
                        /\ x \in ValueCells(cells', cells'[r].list) => Pending(r, "list")
      BY <2>15 DEF FreedLast
    <3>1. CASE r = top
      <4>1. x # Invalid
        BY <2>2, HiveCells DEF QueueShaped, ToFree, Changes
      <4> QED BY <3>1, <4>1, <2>5, <2>6 DEF ValueCells
    <3>2. CASE r \in Keys
      <4>1. cells'[r] = cells[r] /\ ListSound(cells, cells[r].list)
        BY <3>2, <2>2, <2>9 DEF CellsSound, KeySound
      <4>2. ValueCells(cells', cells[r].list) = ValueCells(cells, cells[r].list)
        BY <4>1, <2>7, GrownList
      <4> QED BY <3>2, <4>1, <4>2, <2>2 DEF FreedLast
    <3> QED BY <3>1, <3>2, <2>8
  <2>20. ASSUME NEW s \in DOMAIN gained' PROVE s \in Cells /\ cells'[s].kind = "sk"
    <3>1. s \in DOMAIN gained \/ s = up.sk
      BY <2>1 DEF Bump
    <3>2. s \in Cells /\ cells[s].kind = "sk"
      BY <3>1, <2>2, <2>4
    <3> QED BY <3>2, <2>3, <2>6
  <2>21. /\ todo' \in Seq(Entry) /\ Once(Named, todo')
         /\ \A i \in 1..Len(todo') : todo'[i] = e \/ \E j \in 2..Len(todo) : todo'[i] = todo[j]
    <3> DEFINE E == Entry  N == Named  t == todo  s == <<e>>
    <3>1. t \in Seq(E) /\ t # <<>> /\ Once(N, t)
      BY <1>1, <1>3
    <3>2. s \in Seq(E) /\ Len(s) = 1 /\ s[1] = e
      BY <1>5
    <3>3. \A i \in 1..Len(s) : s[i] = e /\ i = 1
      BY <3>2
    <3> HIDE DEF e
    <3>4. Once(N, s)
      BY <3>3 DEF Once
    <3>5. \A i \in 1..Len(s) : \A k \in {"values", "list"} : \A q \in N : Covers(s[i], k, q) => Covers(t[1], k, q)
      BY <3>3, <1>5
    <3>6. todo' = s \o Tail(t) /\ s \in Seq(E)
      BY <2>1, <3>2
    <3> HIDE DEF E, N, t, s
    <3>7. /\ s \o Tail(t) \in Seq(E) /\ Once(N, s \o Tail(t))
          /\ \A i \in 1..Len(s \o Tail(t)) :
               \/ i \in 1..Len(s) /\ (s \o Tail(t))[i] = s[i]
               \/ \E j \in 2..Len(t) : (s \o Tail(t))[i] = t[j]
      BY <3>1, <3>4, <3>5, <3>6, OnceSplit
    <3>8. ASSUME NEW i \in 1..Len(todo') PROVE todo'[i] = e \/ \E j \in 2..Len(todo) : todo'[i] = todo[j]
      BY <3>3, <3>6, <3>7 DEF t
    <3> QED BY <3>6, <3>7, <3>8 DEF E, N
  <2>22. \A j \in 2..Len(todo) : j \in 1..Len(todo)
    BY <1>3
  <2>23. TodoShaped'
    <3>0. ASSUME NEW x \in Entry, EntryShaped(x) \/ x = e PROVE EntryShaped(x)'
      <4>1. x.p \in Named
        BY DEF Entry
      <4>2. CASE x = e
        <5>1. x.do = "node" /\ x.p = p
          BY <4>2
        <5>2. Exists(x.p)'
          BY <4>1, <5>1, <2>13
        <5> QED BY <5>1, <5>2 DEF EntryShaped
      <4>3. CASE EntryShaped(x)
        BY <4>1, <4>3, <2>13 DEF EntryShaped
      <4> QED BY <3>0, <4>2, <4>3
    <3>1. ASSUME NEW i \in 1..Len(todo') PROVE EntryShaped(todo'[i]) \/ todo'[i] = e
      <4>1. \A j \in 1..Len(todo) : EntryShaped(todo[j])
        BY <2>2 DEF TodoShaped
      <4> QED BY <2>21, <2>22, <4>1
    <3>2. ASSUME NEW i \in 1..Len(todo') PROVE todo'[i] \in Entry
      BY <2>21
    <3>3. TodoShaped' <=> todo' \in Seq(Entry') /\ \A i \in 1..Len(todo') : EntryShaped(todo[i])'
      BY DEF TodoShaped
    <3>4. \A i \in 1..Len(todo') : EntryShaped(todo[i])'
      BY <3>0, <3>1, <3>2
    <3> QED BY <2>13, <2>21, <3>3, <3>4
  <2>24. TodoOnce'
    BY <2>13, <2>21 DEF TodoOnce
  <2>25. ASSUME NEW q \in Named, ValuesFresh(q) PROVE ValuesFresh(q)'
    <3>1. CASE q = p
      <4>1. trie[p].list = Invalid /\ trie[p].nvals = 0
        BY <1>8, <2>25, <3>1 DEF ValuesFresh
      <4>2. ~Pending(top, "list")
        BY <2>2, <2>3 DEF Pending, Changes, QueueShaped
      <4> QED BY <3>1, <4>1, <4>2, <2>5, <2>6, <2>12, <2>13, <2>15 DEF ValuesFresh
    <3>2. CASE q # p /\ Exists(q)
      <4>1. trie'[q] = trie[q] /\ trie[q].ref \in Keys /\ cells'[trie[q].ref] = cells[trie[q].ref]
        BY <3>2, <2>2, <2>9, <2>12 DEF Matched
      <4> QED BY <3>2, <4>1, <2>13, <2>15, <2>25 DEF ValuesFresh
    <3>3. CASE q # p /\ ~Exists(q)
      BY <3>3, <2>12, <2>13, <2>25 DEF ValuesFresh
    <3> QED BY <3>1, <3>2, <3>3
  <2>26. ASSUME NEW q \in Named, SubsFresh(q) PROVE SubsFresh(q)'
    <3>1. CASE q = p
      BY <1>8, <2>26, <3>1, <2>5, <2>6, <2>12, <2>13 DEF SubsFresh
    <3>2. CASE q # p /\ Exists(q)
      <4>1. trie'[q] = trie[q] /\ trie[q].ref \in Keys /\ cells'[trie[q].ref] = cells[trie[q].ref]
        BY <3>2, <2>2, <2>9, <2>12 DEF Matched
      <4> QED BY <3>2, <4>1, <2>13, <2>26 DEF SubsFresh
    <3>3. CASE q # p /\ ~Exists(q)
      BY <3>3, <2>12, <2>13, <2>26 DEF SubsFresh
    <3> QED BY <3>1, <3>2, <3>3
  <2>27. TodoFresh'
    <3> SUFFICES ASSUME NEW i \in 1..Len(todo'), NEW q \in Named
                 PROVE  /\ Covers(todo'[i], "values", q) => ValuesFresh(q)
                        /\ Covers(todo'[i], "list", q) => SubsFresh(q)
      BY <2>13, <2>25, <2>26 DEF TodoFresh
    <3>1. \E j \in 1..Len(todo) : \A k \in {"values", "list"} : Covers(todo'[i], k, q) => Covers(todo[j], k, q)
      BY <1>3, <1>5, <2>21, <2>22
    <3> QED BY <3>1, <2>2 DEF TodoFresh
  <2> QED BY <1>2, <2>10, <2>11, <2>14, <2>16, <2>17, <2>18, <2>19, <2>20, <2>23, <2>24, <2>27 DEF ExecInv
<1> QED BY <1>6, <1>7, <1>8

(***************************************************************************)
(* The two steps that write lists: what they have in common.               *)
(***************************************************************************)
LEMMA CellsGrow ==
  ASSUME CellsSound, OldKept, DOMAIN cells' = Cells, top' \in Nat, top' >= top,
         \A x \in Cells : \/ cells'[x] = cells[x] /\ (x < top \/ x >= top')
                          \/ /\ x >= top /\ x < top'
                             /\ cells'[x].kind \in {"free", "vk", "data", "values", "subkeys"}
  PROVE  /\ CellsSound' /\ OldKept' /\ Grown(cells, cells') /\ Keys' = Keys
         /\ \A r \in Keys : /\ cells'[r] = cells[r] /\ cells[r] \in NkCell
                            /\ KeySound(cells, r) /\ KeySound(cells', r)
<1>1. top \in Nat /\ top > Len(Hive) /\ Cells \subseteq Nat
  BY HiveCells DEF OldKept
<1>2. ASSUME NEW x \in Cells, x >= top PROVE cells[x].kind = "free"
  BY <1>2 DEF OldKept, Unset
<1>3. Grown(cells, cells')
  BY <1>1, <1>2 DEF Grown
<1>4. Keys' = Keys
  <2>1. ASSUME NEW x \in Cells PROVE cells'[x].kind = "nk" <=> cells[x].kind = "nk"
    BY <1>2
  <2> QED BY <2>1 DEF Keys
<1>5. ASSUME NEW r \in Keys
      PROVE  cells'[r] = cells[r] /\ cells[r] \in NkCell /\ KeySound(cells, r) /\ KeySound(cells', r)
  <2>1. cells[r] \in NkCell /\ KeySound(cells, r)
    BY DEF CellsSound
  <2> QED BY <2>1, <1>3, GrownKey
<1>6. CellsSound'
  <2>1. ASSUME NEW x \in Cells, cells'[x].kind = "sk" PROVE DOMAIN cells'[x] = {"kind", "count"}
    <3>1. cells'[x] = cells[x]
      BY <2>1
    <3> QED BY <2>1, <3>1 DEF CellsSound
  <2>2. HiveRoot \in Keys'
    BY <1>4 DEF CellsSound
  <2> QED BY <1>4, <1>5, <2>1, <2>2 DEF CellsSound
<1>7. OldKept'
  <2>1. top' > Len(Hive)
    BY <1>1, HiveCells
  <2>2. ASSUME NEW x \in DOMAIN Hive PROVE cells'[x] = Hive[x]
    <3>1. x \in Cells /\ x \in Nat /\ ~(x >= top)
      BY <1>1, HiveCells
    <3>2. cells'[x] = cells[x]
      BY <3>1
    <3> QED BY <3>2 DEF OldKept
  <2>3. ASSUME NEW x \in Cells, x >= top' PROVE cells'[x] = Unset
    <3>1. x \in Nat /\ x >= top /\ ~(x < top')
      BY <1>1, <2>3
    <3>2. cells'[x] = cells[x]
      BY <3>1
    <3> QED BY <3>1, <3>2 DEF OldKept
  <2>4. ASSUME NEW x \in Keys', x \notin DOMAIN Hive
        PROVE  cells'[x].subs = Invalid /\ cells'[x].list = Invalid /\ cells'[x].nvals = 0
    BY <2>4, <1>4, <1>5 DEF OldKept
  <2> QED BY <2>1, <2>2, <2>3, <2>4 DEF OldKept
<1> QED BY <1>3, <1>4, <1>5, <1>6, <1>7

\* A node's lists change, and neither keys nor the nodes' matches.
LEMMA ListsSet ==
  ASSUME Matched, ops' = ops, Keys' = Keys, \A r \in Keys : cells'[r] = cells[r], trie' \in [Named -> Node],
         \A q \in Named : trie'[q].ref = trie[q].ref /\ trie'[q].sk = trie[q].sk
  PROVE  /\ Matched' /\ Named' = Named /\ Entry' = Entry
         /\ \A q : Kids(q)' = Kids(q)
         /\ \A q \in Named : Exists(q)' <=> Exists(q)
<1>1. Named' = Named /\ trie \in [Named -> Node]
  BY DEF Named, Matched
<1>2. \A q \in Named : Exists(q)' <=> Exists(q)
  BY DEF Exists
<1>3. \A q : Kids(q)' = Kids(q)
  BY <1>1 DEF Kids
<1>4. ASSUME NEW q \in Named, Exists(q)'
      PROVE  /\ trie'[q].ref \in Keys' /\ trie'[q].sk = cells'[trie'[q].ref].sk
             /\ q # <<>> => cells'[trie'[q].ref].name = Last(q)
  BY <1>2, <1>4 DEF Matched
<1>5. ASSUME NEW q \in Named, NEW w \in Named, Exists(q)', trie'[q].ref = trie'[w].ref PROVE q = w
  BY <1>2, <1>5 DEF Matched
<1>6. Kids(<<>>)' # {} => Exists(<<>>)'
  <2>1. <<>> \in Named
    BY DEF Named
  <2> QED BY <2>1, <1>2, <1>3 DEF Matched
<1>7. Matched'
  BY <1>1, <1>4, <1>5, <1>6 DEF Matched
<1> QED BY <1>1, <1>2, <1>3, <1>7 DEF Entry

\* The entry at the head is done with.
LEMMA TodoTail ==
  ASSUME ExecInv, todo # <<>>, todo' = Tail(todo), Named' = Named, Entry' = Entry,
         \A q : Kids(q)' = Kids(q), \A q \in Named : Exists(q)' <=> Exists(q)
  PROVE  /\ TodoShaped' /\ TodoOnce'
         /\ \A i \in 1..Len(todo') : \A k \in {"values", "list"} : \A q \in Named :
              Covers(todo'[i], k, q) => /\ ~Covers(todo[1], k, q)
                                        /\ \E j \in 1..Len(todo) : Covers(todo[j], k, q)
<1> DEFINE E == Entry  N == Named  t == todo
<1>0. t \in Seq(E) /\ t # <<>> /\ Once(N, t)
  BY DEF ExecInv, TodoShaped, TodoOnce
<1>1. \A i \in 1..Len(t) : EntryShaped(t[i])
  BY DEF ExecInv, TodoShaped
<1> HIDE DEF E, N, t
<1>2. Tail(t) \in Seq(E) /\ Once(N, Tail(t)) /\ \A i \in 1..Len(Tail(t)) : \E j \in 2..Len(t) : Tail(t)[i] = t[j]
  BY <1>0, OnceTail
<1>2a. ASSUME NEW i \in 1..Len(Tail(t)), NEW k \in {"values", "list"}, NEW q \in N, Covers(Tail(t)[i], k, q)
       PROVE  ~Covers(t[1], k, q)
  <2>1. \A j \in 1..Len(Tail(t)) : \A l \in {"values", "list"} : \A w \in N :
           Covers(Tail(t)[j], l, w) => ~Covers(t[1], l, w)
    BY <1>0, OnceTail, ZenonT(60)
  <2> QED BY <1>2a, <2>1
<1>3. \A j \in 2..Len(t) : j \in 1..Len(t)
  OBVIOUS
<1>4. ASSUME NEW x \in Entry, EntryShaped(x) PROVE EntryShaped(x)'
  <2>1. x.p \in Named
    BY DEF Entry
  <2> QED BY <1>4, <2>1 DEF EntryShaped
<1>5. TodoShaped' <=> todo' \in Seq(Entry') /\ \A i \in 1..Len(todo') : EntryShaped(todo[i])'
  BY DEF TodoShaped
<1>6. \A i \in 1..Len(todo') : todo'[i] \in Entry /\ EntryShaped(todo'[i])
  BY <1>1, <1>2, <1>3 DEF t, E
<1>7. \A i \in 1..Len(todo') : EntryShaped(todo[i])'
  BY <1>4, <1>6
<1>8. TodoShaped'
  BY <1>2, <1>5, <1>7 DEF t, E
<1>9. TodoOnce'
  BY <1>2 DEF TodoOnce, t, N
<1> QED BY <1>2, <1>2a, <1>3, <1>8, <1>9 DEF t, N

\* What a list of values is made of, by kind.
LEMMA ValueKinds ==
  ASSUME NEW C, NEW l, ListSound(C, l), NEW x \in ValueCells(C, l)
  PROVE  x \in Cells /\ x # Invalid /\ C[x].kind \in {"values", "vk", "data"} /\ l # Invalid
<1>1. l # Invalid /\ x # Invalid
  BY DEF ValueCells
<1>2. /\ l \in Cells /\ Range(C[l].refs) \subseteq Cells /\ C[l].kind = "values"
      /\ \A v \in Range(C[l].refs) : VkSound(C, v)
  BY <1>1, ListEntries
<1>3. x = l \/ x \in Range(C[l].refs) \/ \E v \in Range(C[l].refs) : x = C[v].data
  BY <1>1 DEF ValueCells
<1> QED BY <1>1, <1>2, <1>3 DEF VkSound

\* The queue grows: what has to hold of the updates that come.
LEMMA QueueGrows ==
  ASSUME CellsSound, QueueShaped, QueueSound, FreedLast, OwnValues,
         Grown(cells, cells'), Keys' = Keys, \A r \in Keys : cells'[r] = cells[r], queue \subseteq queue',
         \A u \in queue' \ queue :
           /\ u.field \in DOMAIN Category /\ u.cat = Category[u.field]
           /\ u.field \in {"nsubs", "subs", "nvals", "list"} => u.ref \in Keys /\ u.val \in Nat
           /\ u.field # "count"
           /\ u.field = "free" => /\ u = Update(2, u.ref, "free", 0) /\ u.ref \in DOMAIN Hive
                                  /\ cells[u.ref].kind \in {"subkeys", "values", "vk", "data"}
           /\ u.field = "subs" => SubsSound(cells', u.val) /\ u.val \notin DOMAIN Hive
           /\ u.field = "list" =>
                /\ ListSound(cells', u.val) /\ ToFree' \cap ValueCells(cells', u.val) = {}
                /\ \A s \in OldKeys : ValueCells(OldHive, Hive[s].list) \cap ValueCells(cells', u.val) # {} => u.ref = s,
         \A u \in Changes("list") : \A x \in ToFree' \ ToFree : x \notin ValueCells(cells, u.val),
         \A x \in ToFree' \ ToFree : \A r \in Keys :
           /\ x = cells[r].subs => Pending(r, "subs")'
           /\ x \in ValueCells(cells, cells[r].list) => Pending(r, "list")'
  PROVE  QueueShaped' /\ QueueSound' /\ FreedLast' /\ OwnValues'
<1>1. ASSUME NEW f, NEW u \in Changes(f)' PROVE u \in queue' /\ u.field = f /\ (u \in Changes(f) \/ u \in queue' \ queue)
  BY DEF Changes
<1>2. ASSUME NEW r, NEW f, Pending(r, f) PROVE Pending(r, f)'
  BY <1>2 DEF Pending, Changes
<1>3. DOMAIN Hive \subseteq Cells
  BY HiveCells
<1>4. QueueShaped'
  <2> SUFFICES ASSUME NEW u \in queue'
               PROVE  /\ u.field \in DOMAIN Category /\ u.cat = Category[u.field]
                      /\ u.field \in {"nsubs", "subs", "nvals", "list"} => u.ref \in Keys' /\ u.val \in Nat
                      /\ u.field = "count" => u.ref \in Cells /\ cells'[u.ref].kind = "sk"
                      /\ u.field = "free" => /\ u = Update(2, u.ref, "free", 0) /\ u.ref \in DOMAIN Hive
                                             /\ cells'[u.ref].kind \in {"subkeys", "values", "vk", "data"}
    BY DEF QueueShaped
  <2>1. /\ u.field \in DOMAIN Category /\ u.cat = Category[u.field]
        /\ u.field \in {"nsubs", "subs", "nvals", "list"} => u.ref \in Keys /\ u.val \in Nat
        /\ u.field = "count" => u.ref \in Cells /\ cells[u.ref].kind = "sk"
        /\ u.field = "free" => /\ u = Update(2, u.ref, "free", 0) /\ u.ref \in DOMAIN Hive
                               /\ cells[u.ref].kind \in {"subkeys", "values", "vk", "data"}
    <3>1. CASE u \in queue
      BY <3>1 DEF QueueShaped
    <3>2. CASE u \in queue' \ queue
      BY <3>2
    <3> QED BY <3>1, <3>2
  <2> QED BY <2>1, <1>3 DEF Grown
<1>5. ASSUME NEW u \in Changes("list") PROVE ListSound(cells', u.val) /\ ValueCells(cells', u.val) = ValueCells(cells, u.val)
  BY GrownList DEF QueueSound
<1>6. QueueSound'
  <2>1. ASSUME NEW u \in Changes("subs")' PROVE SubsSound(cells', u.val) /\ u.val \notin DOMAIN Hive
    <3>1. CASE u \in Changes("subs")
      BY <3>1, GrownSubs DEF QueueSound
    <3>2. CASE u \in queue' \ queue
      BY <3>2, <1>1
    <3> QED BY <3>1, <3>2, <1>1
  <2>2. ASSUME NEW u \in Changes("list")' PROVE ListSound(cells', u.val) /\ ToFree' \cap ValueCells(cells', u.val) = {}
    <3>1. CASE u \in Changes("list")
      BY <3>1, <1>5 DEF QueueSound
    <3>2. CASE u \in queue' \ queue
      BY <3>2, <1>1
    <3> QED BY <3>1, <3>2, <1>1
  <2> QED BY <2>1, <2>2 DEF QueueSound
<1>7. FreedLast'
  <2> SUFFICES ASSUME NEW x \in ToFree', NEW r \in Keys
               PROVE  /\ x = cells'[r].subs => Pending(r, "subs")'
                      /\ x \in ValueCells(cells', cells'[r].list) => Pending(r, "list")'
    BY DEF FreedLast
  <2>1. cells'[r] = cells[r] /\ ListSound(cells, cells[r].list)
    BY DEF CellsSound, KeySound
  <2>2. ValueCells(cells', cells[r].list) = ValueCells(cells, cells[r].list)
    BY <2>1, GrownList
  <2>3. CASE x \in ToFree
    BY <2>1, <2>2, <2>3, <1>2 DEF FreedLast
  <2>4. CASE x \notin ToFree
    BY <2>1, <2>2, <2>4
  <2> QED BY <2>3, <2>4
<1>8. OwnValues'
  <2> SUFFICES ASSUME NEW u \in Changes("list")', NEW r \in OldKeys,
                      ValueCells(OldHive, Hive[r].list) \cap ValueCells(cells', u.val) # {}
               PROVE  u.ref = r
    BY DEF OwnValues
  <2>1. CASE u \in Changes("list")
    BY <2>1, <1>5 DEF OwnValues
  <2>2. CASE u \in queue' \ queue
    BY <2>2, <1>1
  <2> QED BY <2>1, <2>2, <1>1
<1> QED BY <1>4, <1>6, <1>7, <1>8

LEMMA FunctionSeq ==
  ASSUME NEW n \in Nat, NEW S, NEW f \in [1..n -> S]
  PROVE  f \in Seq(S) /\ Len(f) = n
OBVIOUS

\* Members of a sequence, in the order they have there.
LEMMA InListOrder ==
  ASSUME NEW T, NEW s \in Seq(T), NEW S, S \subseteq Range(s)
  PROVE  /\ IsFiniteSet(S) /\ S \subseteq T
         /\ InOrder(S, [x \in S |-> CHOOSE i \in DOMAIN s : s[i] = x]) \in Seq(S)
<1> DEFINE f == [x \in S |-> CHOOSE i \in DOMAIN s : s[i] = x]
<1>1. Len(s) \in Nat /\ DOMAIN s = 1..Len(s) /\ Range(s) = {s[i] : i \in 1..Len(s)}
  BY DEF Range
<1>2. IsFiniteSet(1..Len(s))
  BY <1>1, FS_Interval
<1>3. IsFiniteSet(Range(s))
  BY <1>1, <1>2, FiniteImage
<1>4. IsFiniteSet(S)
  BY <1>3, FS_Subset
<1>5. ASSUME NEW x \in S PROVE f[x] \in 1..Len(s) /\ s[f[x]] = x
  <2>1. \E i \in 1..Len(s) : s[i] = x
    BY <1>1
  <2> QED BY <1>1, <2>1
<1>6. S \subseteq T
  BY <1>5
<1>7. f = [x \in S |-> f[x]]
  OBVIOUS
<1> HIDE DEF f
<1>8. f \in [S -> Nat] /\ \A x, y \in S : f[x] = f[y] => x = y
  BY <1>1, <1>5, <1>7
<1>9. Cardinality(S) \in Nat /\ InOrder(S, f) \in [1..Cardinality(S) -> S]
  BY <1>4, <1>8, InOrderOf
<1>10. InOrder(S, f) \in Seq(S)
  BY <1>9
<1> QED BY <1>4, <1>6, <1>10 DEF f

\* The subkey list of a key, before any update.
LEMMA OldList ==
  ASSUME CellsSound, OldKept, NEW r \in Keys
  PROVE  /\ Entries(cells, cells[r].subs) \in Seq(Keys)
         /\ \A x, y \in Range(Entries(cells, cells[r].subs)) : cells[x].name = cells[y].name => x = y
         /\ cells[r].subs # Invalid => /\ r \in OldKeys /\ cells[r] = Hive[r] /\ cells[r].subs \in DOMAIN Hive
                                       /\ cells[cells[r].subs].kind = "subkeys"
<1> DEFINE l == cells[r].subs
<1>1. KeySound(cells, r) /\ r \in Cells
  BY DEF CellsSound, Keys
<1>2. CASE l = Invalid
  <2>1. Entries(cells, l) = <<>>
    BY <1>2 DEF Entries
  <2>2. Range(Entries(cells, l)) = {}
    BY <2>1 DEF Range
  <2>3. Entries(cells, l) \in Seq(Keys)
    BY <2>1
  <2> QED BY <1>2, <2>2, <2>3
<1>3. CASE l # Invalid
  <2>1. r \in DOMAIN Hive
    BY <1>3 DEF OldKept
  <2>2. cells[r] = Hive[r] /\ r \in OldKeys
    BY <2>1 DEF OldKept, Keys, OldKeys
  <2>3. SubsSound(cells, l) /\ SubsSound(OldHive, l)
    BY <1>1, <2>2, OldKey DEF KeySound
  <2>4. /\ l \in Cells /\ Entries(cells, l) = cells[l].refs /\ cells[l].refs \in Seq(Cells)
        /\ Range(cells[l].refs) \subseteq Cells /\ \A e \in Range(cells[l].refs) : cells[e].kind = "nk"
        /\ cells[l].kind = "subkeys"
    BY <1>3, <2>3, SubsEntries
  <2>5. OldHive[l].kind = "subkeys" /\ \A e \in Range(OldHive[l].refs) : e \in Cells /\ OldHive[e].kind = "nk"
    BY <1>3, <2>3, SubsEntries
  <2>6. l \in DOMAIN Hive /\ OldHive[l] = Hive[l]
    BY <2>4, <2>5, HiveCells
  <2>7. cells[l] = Hive[l]
    BY <2>6 DEF OldKept
  <2> DEFINE R == Range(cells[l].refs)
  <2>8. R = Range(Hive[l].refs) /\ R = Range(OldHive[l].refs)
    BY <2>6, <2>7
  <2>9. ASSUME NEW e \in R PROVE e \in Keys /\ cells[e] = Hive[e]
    <3>1. e \in Cells /\ OldHive[e].kind = "nk"
      BY <2>5, <2>8
    <3>2. e \in DOMAIN Hive
      BY <3>1, OldKeyIn, OldKey
    <3> QED BY <3>1, <3>2, <2>4 DEF OldKept, Keys
  <2>10. \A x, y \in R : Hive[x].name = Hive[y].name => x = y
    <3>1. Hive[r].subs = l
      BY <2>2
    <3>2. \A s \in OldKeys : Hive[s].subs # Invalid =>
            \A x, y \in Range(Hive[Hive[s].subs].refs) : Hive[x].name = Hive[y].name => x = y
      BY HiveAssumption
    <3> HIDE DEF l
    <3>3. \A x, y \in Range(Hive[l].refs) : Hive[x].name = Hive[y].name => x = y
      BY <1>3, <2>2, <3>1, <3>2
    <3> QED BY <2>8, <3>3
  <2>11. Entries(cells, l) \in Seq(Keys)
    <3> DEFINE s == cells[l].refs
    <3>1. s \in Seq(Cells) /\ \A i \in 1..Len(s) : s[i] \in Keys
      BY <2>4, <2>9 DEF Range
    <3> HIDE DEF s
    <3>2. s \in Seq(Keys)
      BY <3>1
    <3> QED BY <3>2, <2>4 DEF s
  <2> QED BY <1>3, <2>2, <2>4, <2>6, <2>9, <2>10, <2>11
<1> QED BY <1>2, <1>3

\* What rebuildSubkeyList puts in a list are keys.
LEMMA MergedIn ==
  ASSUME Matched, ops \in Seq(Op), Named \subseteq Seq(Nat), NEW p \in Named, NEW old \in Seq(Keys),
         \A x \in Keys : cells[x].name \in Nat,
         \A x, y \in Range(old) : cells[x].name = cells[y].name => x = y
  PROVE  Merged(p, old) \in Seq(Keys)
<1> DEFINE S == {q \in Kids(p) : ~trie[q].del /\ Exists(q) /\ trie[q].ref \notin Range(old)}
           kept == KeptKeys(p, old)
           new == NewKeys(p, old)
           other == {r \in Range(kept) : \A s \in Range(new) : cells[s].name # cells[r].name}
           U == other \cup Range(new)
           K == Range(old) \ GoneKeys(p)
           f == [r \in U |-> cells[r].name]
<1>1. kept \in Seq(K) /\ K \subseteq Keys
  <2>1. K \subseteq Range(old)
    OBVIOUS
  <2> HIDE DEF K
  <2>2. K \subseteq Keys /\ InOrder(K, [x \in K |-> CHOOSE i \in DOMAIN old : old[i] = x]) \in Seq(K)
    BY <2>1, InListOrder
  <2> QED BY <2>2 DEF KeptKeys, K
<1>2. \A q \in Kids(p) : q \in Named /\ q \in Seq(Nat) /\ q # <<>> /\ Front(q) = p
  BY DEF Kids, Matched
<1>3. Cardinality(S) \in Nat /\ ByName(S) \in [1..Cardinality(S) -> S]
  BY ByNameOf
<1>4. ASSUME NEW i \in 1..Cardinality(S)
      PROVE  ByName(S)[i] \in S /\ new[i] = trie[ByName(S)[i]].ref
  <2>1. new = [k \in 1..Cardinality(S) |-> trie[ByName(S)[k]].ref]
    BY DEF NewKeys
  <2> HIDE DEF new
  <2> QED BY <1>3, <2>1
<1>5. ASSUME NEW q \in S PROVE trie[q].ref \in Keys /\ cells[trie[q].ref].name = Last(q)
  BY <1>2 DEF Matched
<1>6. new \in Seq(Keys) /\ DOMAIN new = 1..Cardinality(S)
  <2>1. new = [k \in 1..Cardinality(S) |-> trie[ByName(S)[k]].ref]
    BY DEF NewKeys
  <2>2. \A i \in 1..Cardinality(S) : new[i] \in Keys
    BY <1>4, <1>5
  <2>3. new = [k \in 1..Cardinality(S) |-> new[k]]
    BY <2>1
  <2> DEFINE n == Cardinality(S)
  <2>4. n \in Nat
    BY <1>3
  <2> HIDE DEF new, S, n
  <2>5. new = [k \in 1..n |-> new[k]] /\ \A i \in 1..n : new[i] \in Keys
    BY <2>2, <2>3 DEF n
  <2>6. DOMAIN new = 1..n /\ new \in [1..n -> Keys]
    BY <2>5, Zenon
  <2> DEFINE ks == Keys  w == new
  <2>7. n \in Nat /\ w \in [1..n -> ks]
    BY <2>4, <2>6
  <2> HIDE DEF ks, w
  <2>8. w \in Seq(ks)
    BY <2>7, FunctionSeq
  <2> QED BY <2>6, <2>8 DEF n, ks, w
<1>7. kept \in Seq(Keys)
  BY <1>1
<1> HIDE DEF S, K, kept, new
<1>8. CASE old = <<>> \/ new = <<>>
  <2>1. Merged(p, old) = kept \o new
    BY <1>8 DEF Merged, kept, new
  <2> QED BY <2>1, <1>6, <1>7
<1>9. CASE ~(old = <<>> \/ new = <<>>)
  <2>1. Merged(p, old) = InOrder(U, f)
    BY <1>9 DEF Merged, kept, new
  <2>2. ASSUME NEW x \in Range(new) PROVE \E q \in S : x = trie[q].ref
    <3>1. PICK i \in 1..Cardinality(S) : x = new[i]
      BY <1>6 DEF Range
    <3> QED BY <3>1, <1>4
  <2>3. Range(kept) \subseteq Keys /\ IsFiniteSet(Range(kept))
    BY <1>7, InListOrder
  <2>4. Range(new) \subseteq Keys /\ IsFiniteSet(Range(new))
    BY <1>6, InListOrder
  <2>5. IsFiniteSet(U) /\ U \subseteq Keys
    <3>1. IsFiniteSet(other)
      BY <2>3, FS_Subset
    <3> QED BY <3>1, <2>3, <2>4, FS_Union
  <2>6. Range(kept) \subseteq Range(old)
    <3>1. Range(kept) \subseteq K
      BY <1>1, InListOrder
    <3> QED BY <3>1 DEF K
  <2>7. ASSUME NEW x \in U, NEW y \in U, cells[x].name = cells[y].name PROVE x = y
    <3>1. CASE x \in Range(new) /\ y \in Range(new)
      <4>1. PICK q \in S : x = trie[q].ref
        BY <3>1, <2>2
      <4>2. PICK w \in S : y = trie[w].ref
        BY <3>1, <2>2
      <4>3. Last(q) = Last(w)
        BY <4>1, <4>2, <2>7, <1>5
      <4>4. q \in Seq(Nat) /\ w \in Seq(Nat) /\ q # <<>> /\ w # <<>> /\ Front(q) = Front(w)
        BY <1>2 DEF S
      <4>5. q = w
        BY <4>3, <4>4, SamePath
      <4> QED BY <4>1, <4>2, <4>5
    <3>2. CASE x \in other /\ y \in other
      BY <3>2, <2>6, <2>7
    <3>3. CASE x \in other /\ y \in Range(new)
      BY <3>3, <2>7
    <3>4. CASE x \in Range(new) /\ y \in other
      BY <3>4, <2>7
    <3> QED BY <3>1, <3>2, <3>3, <3>4
  <2>8. f \in [U -> Nat] /\ \A x, y \in U : f[x] = f[y] => x = y
    BY <2>5, <2>7
  <2> HIDE DEF U, f
  <2>9. Cardinality(U) \in Nat /\ InOrder(U, f) \in [1..Cardinality(U) -> U]
    BY <2>5, <2>8, InOrderOf
  <2>10. InOrder(U, f) \in Seq(Keys)
    BY <2>5, <2>9
  <2> QED BY <2>1, <2>10
<1> QED BY <1>8, <1>9

LEMMA ListStep ==
  ASSUME IInv, RebuildSubkeyList
  PROVE  IInv'
<1> DEFINE p == Here
           r == trie[p].ref
           sub == trie[p].subs
           old == IF trie[p].nsubs = 0 THEN <<>> ELSE Entries(cells, sub)
           all == Merged(p, old)
           list == IF all = <<>> THEN Invalid ELSE top
           counts == Update(0, r, "nsubs", Len(all))
           points == Update(0, r, "subs", list)
           frees == Frees({sub})
<1>1. /\ phase = "execute" /\ todo # <<>> /\ Head(todo).do = "list" /\ todo' = Tail(todo)
      /\ phase' = "execute" /\ UNCHANGED <<ops, gained>>
      /\ all # <<>> => top \in Cells
      /\ cells' = IF list = Invalid THEN cells ELSE [cells EXCEPT ![list] = [kind |-> "subkeys", refs |-> all]]
      /\ top' = IF list = Invalid THEN top ELSE top + 1
      /\ queue' = queue \cup {counts, points} \cup frees
      /\ trie' = [trie EXCEPT ![p].subs = list, ![p].nsubs = Len(all)]
  BY DEF RebuildSubkeyList, Doing
<1>2. ExecInv /\ ops \in Seq(Op) /\ Named \subseteq Seq(Nat) /\ (ExecInv' => IInv')
  BY <1>1, ExecuteInv
<1>3. /\ todo \in Seq(Entry) /\ 1 \in 1..Len(todo) /\ todo[1].do = "list" /\ p \in Named /\ p = todo[1].p
      /\ EntryShaped(todo[1]) /\ (Covers(todo[1], "list", p) => SubsFresh(p))
  BY <1>1, <1>2, AtHead
<1>4. /\ CellsSound /\ OldKept /\ Matched /\ TodoShaped /\ TodoOnce /\ TodoFresh /\ OwnValues
      /\ QueueShaped /\ QueueSound /\ FreedLast
      /\ \A s \in DOMAIN gained : s \in Cells /\ cells[s].kind = "sk"
  BY <1>2 DEF ExecInv
<1>5. Exists(p) /\ Covers(todo[1], "list", p)
  BY <1>3 DEF EntryShaped, Covers
<1>6. r \in Keys /\ sub = cells[r].subs /\ trie \in [Named -> Node] /\ trie[p] \in Node
  BY <1>3, <1>4, <1>5 DEF Matched, SubsFresh
<1> HIDE DEF p
<1>7. /\ Entries(cells, sub) \in Seq(Keys)
      /\ \A x, y \in Range(Entries(cells, sub)) : cells[x].name = cells[y].name => x = y
      /\ sub # Invalid => /\ r \in OldKeys /\ cells[r] = Hive[r] /\ sub \in DOMAIN Hive /\ cells[sub].kind = "subkeys"
  BY <1>4, <1>6, OldList
<1>8. old \in Seq(Keys) /\ \A x, y \in Range(old) : cells[x].name = cells[y].name => x = y
  <2>1. CASE trie[p].nsubs = 0
    <3>1. old = <<>>
      BY <2>1
    <3> HIDE DEF old
    <3>2. Range(old) = {} /\ old \in Seq(Keys)
      BY <3>1 DEF Range
    <3> QED BY <3>2
  <2>2. CASE trie[p].nsubs # 0
    <3>1. old = Entries(cells, sub)
      BY <2>2
    <3> QED BY <3>1, <1>7
  <2> QED BY <2>1, <2>2
<1> HIDE DEF old, r, sub
<1>9. \A x \in Keys : cells[x].name \in Nat
  BY <1>4 DEF CellsSound, NkCell
<1>10. all \in Seq(Keys)
  BY <1>2, <1>3, <1>4, <1>8, <1>9, MergedIn
<1> HIDE DEF all
<1>11. Len(all) \in Nat /\ Range(all) \subseteq Keys
  <2>1. Len(all) \in Nat
    BY <1>10
  <2>2. \A i \in 1..Len(all) : all[i] \in Keys
    BY <1>10
  <2>3. DOMAIN all = 1..Len(all)
    BY <1>10
  <2> QED BY <2>1, <2>2, <2>3 DEF Range
<1>12. list = Invalid \/ (list = top /\ top \in Cells)
  BY <1>1
<1>13. top \in Nat /\ top > Len(Hive) /\ Cells \subseteq Nat /\ Invalid \notin Cells /\ Invalid \notin DOMAIN Hive
       /\ DOMAIN cells = Cells /\ DOMAIN Hive \subseteq Cells /\ Invalid \in Nat
  BY <1>4, HiveCells DEF OldKept, CellsSound, Invalid
<1> HIDE DEF list
<1>14. /\ DOMAIN cells' = Cells /\ top' \in Nat /\ top' >= top
       /\ \A x \in Cells : \/ cells'[x] = cells[x] /\ (x < top \/ x >= top')
                           \/ /\ x >= top /\ x < top'
                              /\ cells'[x].kind \in {"free", "vk", "data", "values", "subkeys"}
       /\ list # Invalid => cells'[list] = [kind |-> "subkeys", refs |-> all] /\ list = top /\ list \in Cells
  <2>1. CASE list = Invalid
    <3>1. cells' = cells /\ top' = top
      BY <1>1, <2>1
    <3>2. \A x \in Cells : x < top \/ x >= top
      BY <1>13
    <3> QED BY <2>1, <3>1, <3>2, <1>13
  <2>2. CASE list # Invalid
    <3>1. cells' = [cells EXCEPT ![top] = [kind |-> "subkeys", refs |-> all]] /\ top' = top + 1 /\ top \in Cells /\ list = top
      BY <1>1, <1>12, <2>2
    <3>2. DOMAIN cells' = Cells /\ cells'[top] = [kind |-> "subkeys", refs |-> all] /\ \A x \in Cells : x # top => cells'[x] = cells[x]
      BY <1>13, <3>1
    <3>3. ASSUME NEW x \in Cells PROVE x < top \/ x = top \/ x >= top + 1
      BY <1>13
    <3>4. top >= top /\ top < top + 1 /\ top + 1 >= top /\ top + 1 \in Nat
      BY <1>13
    <3> QED BY <3>1, <3>2, <3>3, <3>4
  <2> QED BY <2>1, <2>2
<1>15. /\ CellsSound' /\ OldKept' /\ Grown(cells, cells') /\ Keys' = Keys
       /\ \A x \in Keys : /\ cells'[x] = cells[x] /\ cells[x] \in NkCell
                          /\ KeySound(cells, x) /\ KeySound(cells', x)
  BY <1>4, <1>14, CellsGrow
<1>16. /\ trie' \in [Named -> Node]
       /\ \A q \in Named : /\ trie'[q].ref = trie[q].ref /\ trie'[q].sk = trie[q].sk
                           /\ trie'[q].list = trie[q].list /\ trie'[q].nvals = trie[q].nvals
       /\ \A q \in Named : q # p => trie'[q] = trie[q]
  <2> DEFINE t == [trie[p] EXCEPT !.subs = list, !.nsubs = Len(all)]
  <2>1. trie' = [trie EXCEPT ![p] = t]
    BY <1>1, <1>3, <1>6
  <2>2. list \in Nat
    BY <1>12, <1>13
  <2>3. t \in Node /\ t.ref = trie[p].ref /\ t.sk = trie[p].sk /\ t.list = trie[p].list /\ t.nvals = trie[p].nvals
    BY <1>6, <1>11, <2>2 DEF Node
  <2> HIDE DEF t
  <2>4. trie'[p] = t /\ (\A q \in Named : q # p => trie'[q] = trie[q]) /\ trie' \in [Named -> Node]
    BY <1>3, <1>6, <2>1, <2>3
  <2> QED BY <2>3, <2>4
<1>17. /\ Matched' /\ Named' = Named /\ Entry' = Entry
       /\ \A q : Kids(q)' = Kids(q)
       /\ \A q \in Named : Exists(q)' <=> Exists(q)
  BY <1>1, <1>4, <1>15, <1>16, ListsSet
<1>18. /\ TodoShaped' /\ TodoOnce'
       /\ \A i \in 1..Len(todo') : \A k \in {"values", "list"} : \A q \in Named :
            Covers(todo'[i], k, q) => /\ ~Covers(todo[1], k, q)
                                      /\ \E j \in 1..Len(todo) : Covers(todo[j], k, q)
  BY <1>1, <1>2, <1>17, TodoTail
<1>19. frees = IF sub = Invalid THEN {} ELSE {Update(2, sub, "free", 0)}
  <2>1. sub # Invalid => cells[sub] # Unset
    BY <1>7 DEF Unset
  <2> QED BY <2>1 DEF Frees
<1>20. /\ counts.field = "nsubs" /\ counts.cat = 0 /\ counts.ref = r /\ counts.val = Len(all)
       /\ points.field = "subs" /\ points.cat = 0 /\ points.ref = r /\ points.val = list
       /\ Update(2, sub, "free", 0).field = "free" /\ Update(2, sub, "free", 0).cat = 2 /\ Update(2, sub, "free", 0).ref = sub
  BY DEF Update
<1>21. ASSUME NEW u \in queue' \ queue PROVE u = counts \/ u = points \/ (sub # Invalid /\ u = Update(2, sub, "free", 0))
  BY <1>1, <1>19
<1> HIDE DEF counts, points, frees
<1>22. queue \subseteq queue' /\ points \in queue'
  BY <1>1
<1>23. ASSUME NEW s, s = r PROVE Pending(s, "subs")'
  BY <1>20, <1>22, <1>23 DEF Pending, Changes
<1>24. ASSUME NEW x \in ToFree' \ ToFree PROVE sub # Invalid /\ x = sub
  <2>1. PICK u \in queue' : u.field = "free" /\ x = u.ref
    BY DEF ToFree, Changes
  <2>2. u \notin queue
    BY <2>1, <1>24 DEF ToFree, Changes
  <2> QED BY <2>1, <2>2, <1>20, <1>21
<1>25. SubsSound(cells', list) /\ list \notin DOMAIN Hive /\ list \in Nat
  <2>1. CASE list = Invalid
    BY <2>1, <1>13 DEF SubsSound
  <2>2. CASE list # Invalid
    <3>1. cells'[list].kind = "subkeys" /\ cells'[list].refs = all /\ list = top /\ list \in Cells
      BY <2>2, <1>14
    <3>2. all \in Seq(Cells)
      <4>1. Keys \subseteq Cells
        BY DEF Keys
      <4> QED BY <4>1, <1>10
    <3>3. \A e \in Range(all) : cells'[e].kind = "nk"
      BY <1>11, <1>15 DEF Keys
    <3>4. list \notin DOMAIN Hive
      BY <3>1, <1>13, HiveCells
    <3> QED BY <3>1, <3>2, <3>3, <3>4, <1>13 DEF SubsSound
  <2> QED BY <2>1, <2>2
<1>26. ASSUME NEW u \in queue' \ queue
       PROVE  /\ u.field \in DOMAIN Category /\ u.cat = Category[u.field]
              /\ u.field \in {"nsubs", "subs", "nvals", "list"} => u.ref \in Keys /\ u.val \in Nat
              /\ u.field # "count" /\ u.field # "list"
              /\ u.field = "free" => /\ u = Update(2, u.ref, "free", 0) /\ u.ref \in DOMAIN Hive
                                     /\ cells[u.ref].kind \in {"subkeys", "values", "vk", "data"}
              /\ u.field = "subs" => SubsSound(cells', u.val) /\ u.val \notin DOMAIN Hive
  <2>1. CASE u = counts
    BY <2>1, <1>6, <1>11, <1>20 DEF Category
  <2>2. CASE u = points
    BY <2>2, <1>6, <1>25, <1>20 DEF Category
  <2>3. CASE sub # Invalid /\ u = Update(2, sub, "free", 0)
    BY <2>3, <1>7, <1>20 DEF Category
  <2> QED BY <1>21, <2>1, <2>2, <2>3
<1>27. ASSUME NEW u \in Changes("list"), NEW x \in ToFree' \ ToFree PROVE x \notin ValueCells(cells, u.val)
  <2>1. ListSound(cells, u.val)
    BY <1>4 DEF QueueSound
  <2>2. cells[x].kind = "subkeys"
    BY <1>7, <1>24
  <2> QED BY <2>1, <2>2, ValueKinds
<1>28. ASSUME NEW x \in ToFree' \ ToFree, NEW s \in Keys
       PROVE  /\ x = cells[s].subs => Pending(s, "subs")'
              /\ x \in ValueCells(cells, cells[s].list) => Pending(s, "list")'
  <2>1. x = sub /\ sub # Invalid /\ cells[x].kind = "subkeys" /\ r \in OldKeys /\ cells[r] = Hive[r]
    BY <1>7, <1>24
  <2>2. ListSound(cells, cells[s].list)
    BY <1>15 DEF KeySound
  <2>3. x \notin ValueCells(cells, cells[s].list)
    BY <2>1, <2>2, ValueKinds
  <2>4. ASSUME x = cells[s].subs PROVE s = r
    <3>1. s \in OldKeys /\ cells[s] = Hive[s]
      BY <1>4, <2>1, <2>4, OldList
    <3>2. Hive[r].subs = Hive[s].subs /\ Hive[r].subs # Invalid
      BY <2>1, <2>4, <3>1, <1>6
    <3> QED BY <2>1, <3>1, <3>2, HiveAssumption
  <2> QED BY <2>3, <2>4, <1>23
<1>29. QueueShaped' /\ QueueSound' /\ FreedLast' /\ OwnValues'
  BY <1>4, <1>15, <1>22, <1>26, <1>27, <1>28, QueueGrows
<1>30. TodoFresh'
  <2> SUFFICES ASSUME NEW i \in 1..Len(todo'), NEW q \in Named
               PROVE  /\ Covers(todo'[i], "values", q) => ValuesFresh(q)'
                      /\ Covers(todo'[i], "list", q) => SubsFresh(q)'
    BY <1>17 DEF TodoFresh
  <2>0. \A s, f : s # "subs" /\ s # "nsubs" /\ s # "free" => (Pending(f, s)' <=> Pending(f, s))
    BY <1>20, <1>21, <1>22 DEF Pending, Changes
  <2>1. ASSUME Covers(todo'[i], "values", q) PROVE ValuesFresh(q)'
    <3>1. ValuesFresh(q)
      BY <1>4, <1>18, <2>1 DEF TodoFresh
    <3>2. \A s : Pending(s, "list")' <=> Pending(s, "list")
      BY <2>0
    <3>3. Exists(q) => trie[q].ref \in Keys
      BY <1>4 DEF Matched
    <3> QED BY <3>1, <3>2, <3>3, <1>15, <1>16, <1>17 DEF ValuesFresh
  <2>2. ASSUME Covers(todo'[i], "list", q) PROVE SubsFresh(q)'
    <3>1. q # p
      BY <1>5, <1>18, <2>2
    <3>2. SubsFresh(q)
      BY <1>4, <1>18, <2>2 DEF TodoFresh
    <3>3. Exists(q) => trie[q].ref \in Keys
      BY <1>4 DEF Matched
    <3> QED BY <3>1, <3>2, <3>3, <1>15, <1>16, <1>17 DEF SubsFresh
  <2> QED BY <2>1, <2>2
<1>31. \A s \in DOMAIN gained' : s \in Cells /\ cells'[s].kind = "sk"
  BY <1>1, <1>4, <1>15 DEF Grown
<1> QED BY <1>2, <1>15, <1>17, <1>18, <1>29, <1>30, <1>31 DEF ExecInv

\* The value list of a key, before any update.
LEMMA OldValueList ==
  ASSUME CellsSound, OldKept, NEW r \in Keys
  PROVE  /\ SubSeq(Entries(cells, cells[r].list), 1, cells[r].nvals) = Entries(cells, cells[r].list)
         /\ Entries(cells, cells[r].list) \in Seq(Cells)
         /\ \A v \in Range(Entries(cells, cells[r].list)) : VkSound(cells, v) /\ cells[r].list # Invalid
         /\ cells[r].list # Invalid =>
              /\ r \in OldKeys /\ cells[r] = Hive[r] /\ ListSound(cells, cells[r].list)
              /\ Entries(cells, cells[r].list) = cells[cells[r].list].refs
              /\ ValueCells(cells, cells[r].list) = ValueCells(OldHive, Hive[r].list)
              /\ ValueCells(cells, cells[r].list) \subseteq DOMAIN Hive
              /\ \A v, w \in Range(Entries(cells, cells[r].list)) :
                   v # w /\ cells[v].data # Invalid => cells[v].data # cells[w].data
<1> DEFINE l == cells[r].list
           es == Entries(cells, l)
<1>1. KeySound(cells, r) /\ r \in Cells
  BY DEF CellsSound, Keys
<1>2. CASE l = Invalid
  <2>1. es = <<>>
    BY <1>2 DEF Entries
  <2>2. cells[r].nvals = 0
    <3>1. CASE r \in DOMAIN Hive
      <4>1. cells[r] = Hive[r] /\ r \in OldKeys
        BY <3>1 DEF OldKept, Keys, OldKeys
      <4> QED BY <4>1, <1>2, OldKey
    <3>2. CASE r \notin DOMAIN Hive
      BY <3>2 DEF OldKept
    <3> QED BY <3>1, <3>2
  <2>3. SubSeq(es, 1, cells[r].nvals) = es
    BY <2>1, <2>2
  <2>4. es \in Seq(Cells) /\ Range(es) = {}
    BY <2>1 DEF Range
  <2> HIDE DEF es
  <2> QED BY <1>2, <2>3, <2>4 DEF es
<1>3. CASE l # Invalid
  <2>1. r \in DOMAIN Hive
    BY <1>3 DEF OldKept
  <2>2. cells[r] = Hive[r] /\ r \in OldKeys
    BY <2>1 DEF OldKept, Keys, OldKeys
  <2>3. ListSound(cells, l) /\ ListSound(OldHive, l)
    BY <1>1, <2>2, OldKey DEF KeySound
  <2>4. /\ l \in Cells /\ es = cells[l].refs /\ cells[l].refs \in Seq(Cells)
        /\ \A v \in Range(cells[l].refs) : VkSound(cells, v)
    BY <1>3, <2>3, ListEntries
  <2>5. /\ OldHive[l].kind = "values"
        /\ \A v \in Range(OldHive[l].refs) : v \in Cells /\ VkSound(OldHive, v)
    BY <1>3, <2>3, ListEntries
  <2>6. l \in DOMAIN Hive /\ OldHive[l] = Hive[l]
    BY <2>4, <2>5, HiveCells
  <2>7. cells[l] = Hive[l]
    BY <2>6 DEF OldKept
  <2> DEFINE R == Range(cells[l].refs)
  <2>8. R = Range(Hive[l].refs) /\ R = Range(OldHive[l].refs)
    BY <2>6, <2>7
  <2>9. ASSUME NEW v \in R PROVE v \in DOMAIN Hive /\ cells[v] = Hive[v] /\ OldHive[v] = Hive[v]
    <3>1. v \in Cells /\ OldHive[v].kind = "vk"
      BY <2>5, <2>8 DEF VkSound
    <3>2. v \in DOMAIN Hive
      BY <3>1, HiveCells
    <3> QED BY <3>2, HiveCells DEF OldKept
  <2>10. /\ ValueCells(cells, l) = ValueCells(OldHive, l)
         /\ ValueCells(cells, l) \subseteq DOMAIN Hive
    <3>1. {cells[v].data : v \in R} = {OldHive[v].data : v \in R}
      BY <2>9
    <3>2. ValueCells(cells, l) = ValueCells(OldHive, l)
      BY <1>3, <2>8, <3>1 DEF ValueCells
    <3>3. ASSUME NEW x \in ValueCells(OldHive, l) PROVE x \in DOMAIN Hive
      <4>1. x \in Cells /\ OldHive[x].kind \in {"values", "vk", "data"}
        BY <2>3, ValueKinds
      <4> QED BY <4>1, HiveCells
    <3> QED BY <3>2, <3>3
  <2>11. \A v, w \in R : v # w /\ Hive[v].data # Invalid => Hive[v].data # Hive[w].data
    <3>1. \A s \in OldKeys : Hive[s].list # Invalid =>
            \A v, w \in Range(Hive[Hive[s].list].refs) :
              v # w /\ Hive[v].data # Invalid => Hive[v].data # Hive[w].data
      BY HiveAssumption
    <3>2. Hive[r].list = l
      BY <2>2
    <3> HIDE DEF l
    <3>3. \A v, w \in Range(Hive[l].refs) : v # w /\ Hive[v].data # Invalid => Hive[v].data # Hive[w].data
      BY <1>3, <2>2, <3>1, <3>2
    <3> QED BY <2>8, <3>3
  <2>12. cells[r].nvals = Len(es)
    BY <1>3, <2>2, <2>4, <2>7, OldKey
  <2>13. SubSeq(es, 1, Len(es)) = es
    <3>1. es \in Seq(Cells)
      BY <2>4
    <3> HIDE DEF es
    <3> QED BY <3>1
  <2> QED BY <1>3, <2>2, <2>3, <2>4, <2>9, <2>10, <2>11, <2>12, <2>13
<1> QED BY <1>2, <1>3

\* Where the new cells of a node's values go.
LEMMA WrittenCells ==
  ASSUME NEW p, NEW refs, top \in Nat, top > 0, Len(trie[p].vals) \in Nat,
         Sets(p) \subseteq 1..Len(trie[p].vals), ListRef(p) \in Cells
  PROVE  /\ DOMAIN Written(p, refs) = Cells
         /\ \A x \in Cells : (x < top \/ x >= ListRef(p) + 1) => Written(p, refs)[x] = cells[x]
         /\ \A x \in Cells : \/ Written(p, refs)[x] = cells[x]
                             \/ Written(p, refs)[x].kind \in {"vk", "data", "values"}
         /\ \A i \in Sets(p) :
              /\ VkRef(i) \in Cells /\ VkRef(i) >= top /\ Written(p, refs)[VkRef(i)] = NewVK(p, i)
              /\ External(p, i) => /\ DataRef(i) \in Cells /\ DataRef(i) >= top
                                   /\ Written(p, refs)[DataRef(i)] = [kind |-> "data"]
         /\ refs # <<>> => Written(p, refs)[ListRef(p)] = [kind |-> "values", refs |-> refs]
         /\ \A i, j \in Sets(p) : VkRef(i) = VkRef(j) => i = j
<1> DEFINE n == Len(trie[p].vals)
           W == Written(p, refs)
           S == Sets(p)
<1>1. n \in Nat /\ S \subseteq 1..n /\ Cells = 1..MaxCell /\ MaxCell \in Nat
  BY HiveAssumption DEF Cells
<1> HIDE DEF n, S
<1>2. ListRef(p) = top + 2 * n /\ top + 2 * n \in 1..MaxCell
  BY <1>1 DEF ListRef, n
<1>3. ASSUME NEW i \in S
      PROVE  /\ VkRef(i) \in Cells /\ VkRef(i) >= top /\ VkRef(i) < top + 2 * n
             /\ DataRef(i) \in Cells /\ DataRef(i) >= top /\ DataRef(i) < top + 2 * n
  <2>1. i \in 1..n
    BY <1>1
  <2> QED BY <2>1, <1>1, <1>2 DEF VkRef, DataRef
<1>4. ASSUME NEW i \in S, NEW j \in S PROVE (VkRef(i) = VkRef(j) => i = j) /\ VkRef(i) # DataRef(j)
  <2>1. i \in Nat /\ j \in Nat
    BY <1>1
  <2> QED BY <2>1 DEF VkRef, DataRef
<1>5. W = [r \in Cells |->
            IF \E i \in S : r = VkRef(i) THEN NewVK(p, CHOOSE i \in S : r = VkRef(i))
            ELSE IF \E i \in S : External(p, i) /\ r = DataRef(i) THEN [kind |-> "data"]
            ELSE IF refs # <<>> /\ r = top + 2 * n THEN [kind |-> "values", refs |-> refs]
            ELSE cells[r]]
  BY <1>2 DEF Written, S
<1> HIDE DEF W
<1>6. DOMAIN W = Cells
  BY <1>5
<1>7. ASSUME NEW x \in Cells, \A i \in S : x # VkRef(i) /\ x # DataRef(i), x # top + 2 * n PROVE W[x] = cells[x]
  BY <1>5, <1>7
<1>8. ASSUME NEW x \in Cells, x < top \/ x >= ListRef(p) + 1 PROVE W[x] = cells[x]
  <2>1. x \in Nat
    BY <1>1
  <2>2. ASSUME NEW i \in S PROVE x # VkRef(i) /\ x # DataRef(i)
    <3>1. VkRef(i) \in Nat /\ DataRef(i) \in Nat
      BY <1>1, <1>3
    <3> QED BY <3>1, <2>1, <1>1, <1>2, <1>3, <1>8
  <2>3. x # top + 2 * n
    BY <2>1, <1>1, <1>2, <1>8
  <2> QED BY <2>2, <2>3, <1>7
<1>9. ASSUME NEW x \in Cells PROVE W[x] = cells[x] \/ W[x].kind \in {"vk", "data", "values"}
  <2>1. \A i : NewVK(p, i).kind = "vk"
    BY DEF NewVK
  <2> QED BY <1>5, <2>1
<1>10. ASSUME NEW i \in S PROVE W[VkRef(i)] = NewVK(p, i)
  <2>1. (CHOOSE j \in S : VkRef(i) = VkRef(j)) = i
    BY <1>4
  <2>2. W[VkRef(i)] = NewVK(p, CHOOSE j \in S : VkRef(i) = VkRef(j))
    BY <1>3, <1>5
  <2> QED BY <2>1, <2>2
<1>11. ASSUME NEW i \in S, External(p, i) PROVE W[DataRef(i)] = [kind |-> "data"]
  <2>1. ~ \E j \in S : DataRef(i) = VkRef(j)
    BY <1>4
  <2> QED BY <1>3, <1>5, <1>11, <2>1
<1>12. ASSUME refs # <<>> PROVE W[ListRef(p)] = [kind |-> "values", refs |-> refs]
  <2> DEFINE x == top + 2 * n
  <2>1. ASSUME NEW i \in S PROVE x # VkRef(i) /\ x # DataRef(i)
    <3>1. VkRef(i) \in Nat /\ DataRef(i) \in Nat
      BY <1>1, <1>3
    <3> QED BY <3>1, <1>1, <1>3
  <2>2. x \in Cells
    BY <1>1, <1>2
  <2> HIDE DEF x
  <2>3. W[x] = IF refs # <<>> /\ x = top + 2 * n THEN [kind |-> "values", refs |-> refs] ELSE cells[x]
    BY <1>5, <2>1, <2>2
  <2> QED BY <1>2, <1>12, <2>3 DEF x
<1> QED BY <1>3, <1>4, <1>6, <1>8, <1>9, <1>10, <1>11, <1>12 DEF W, S

LEMMA NewValuesIn ==
  ASSUME NEW p, NEW n \in Nat, Sets(p) \subseteq 1..n, \A i \in Sets(p) : VkRef(i) \in Cells
  PROVE  NewValues(p) \in Seq({VkRef(i) : i \in Sets(p)})
<1> DEFINE S == {VkRef(i) : i \in Sets(p)}
           g == [i \in Sets(p) |-> VkRef(i)]
           f == [r \in S |-> r]
<1>1. IsFiniteSet(Sets(p))
  <2>1. 1 \in Int /\ n \in Int
    OBVIOUS
  <2>2. IsFiniteSet(1..n)
    BY <2>1, FS_Interval
  <2> QED BY <2>2, FS_Subset
<1>2. S = {g[i] : i \in Sets(p)}
  OBVIOUS
<1>3. IsFiniteSet(S)
  <2> HIDE DEF g
  <2>1. IsFiniteSet({g[i] : i \in Sets(p)})
    BY <1>1, FiniteImage
  <2> QED BY <1>2, <2>1
<1>4. S \subseteq Nat
  BY HiveCells
<1>5. NewValues(p) = InOrder(S, f)
  BY DEF NewValues
<1> HIDE DEF S
<1>6. f \in [S -> Nat] /\ \A x, y \in S : f[x] = f[y] => x = y
  BY <1>4
<1> HIDE DEF f
<1>7. Cardinality(S) \in Nat /\ InOrder(S, f) \in [1..Cardinality(S) -> S]
  BY <1>3, <1>6, InOrderOf
<1>8. InOrder(S, f) \in Seq(S)
  BY <1>7, FunctionSeq
<1> QED BY <1>5, <1>8 DEF S

\* A list of old values and of new ones.
LEMMA NewListSound ==
  ASSUME NEW C, NEW l \in Cells, NEW refs \in Seq(Cells), C[l] = [kind |-> "values", refs |-> refs],
         \A v \in Range(refs) : VkSound(C, v)
  PROVE  /\ ListSound(C, l)
         /\ ValueCells(C, l) \subseteq {l} \cup Range(refs) \cup ({C[v].data : v \in Range(refs)} \ {Invalid})
<1>1. C[l].kind = "values" /\ C[l].refs = refs
  OBVIOUS
<1>2. ListSound(C, l)
  BY <1>1 DEF ListSound
<1> QED BY <1>1, <1>2 DEF ValueCells

LEMMA SeqMembers ==
  ASSUME NEW S, NEW s \in Seq(S)
  PROVE  Len(s) \in Nat /\ Range(s) \subseteq S
<1>1. Len(s) \in Nat /\ DOMAIN s = 1..Len(s) /\ \A i \in 1..Len(s) : s[i] \in S
  OBVIOUS
<1> QED BY <1>1 DEF Range

LEMMA ValuesStep ==
  ASSUME IInv, ProcessValues
  PROVE  IInv'
<1> DEFINE p == Here
           r == trie[p].ref
           l == trie[p].list
           n == Len(trie[p].vals)
           gone == GoneValues(p)
           kept == KeptValues(p)
           new == NewValues(p)
           all == kept \o new
           at == ListRef(p)
           list == IF all = <<>> THEN Invalid ELSE at
           counts == Update(0, r, "nvals", Len(all))
           points == Update(0, r, "list", list)
           G == gone \cup {cells[v].data : v \in gone}
<1>1. /\ phase = "execute" /\ todo # <<>> /\ Head(todo).do = "values" /\ todo' = Tail(todo)
      /\ phase' = "execute" /\ UNCHANGED <<ops, gained>>
  BY DEF ProcessValues, Doing
<1>2. ExecInv /\ ops \in Seq(Op) /\ Named \subseteq Seq(Nat) /\ (ExecInv' => IInv')
  BY <1>1, ExecuteInv
<1>3. /\ todo \in Seq(Entry) /\ 1 \in 1..Len(todo) /\ todo[1].do = "values" /\ p \in Named /\ p = todo[1].p
      /\ EntryShaped(todo[1]) /\ (Covers(todo[1], "values", p) => ValuesFresh(p))
  BY <1>1, <1>2, AtHead
<1>4. CASE ~Exists(p) \/ trie[p].vals = <<>>
  <2>1. UNCHANGED <<trie, cells, top, queue>>
    BY <1>4 DEF ProcessValues
  <2> QED BY <1>1, <1>2, <2>1, TodoQuiet
<1>5. CASE ~(~Exists(p) \/ trie[p].vals = <<>>)
  <2>1. /\ at \in Cells /\ cells' = Written(p, all) /\ top' = at + 1
        /\ queue' = queue \cup Frees(G) \cup {counts, points} \cup Frees({l})
        /\ trie' = [trie EXCEPT ![p].list = list, ![p].nvals = Len(all)]
    BY <1>5 DEF ProcessValues
  <2>2. /\ CellsSound /\ OldKept /\ Matched /\ TodoShaped /\ TodoOnce /\ TodoFresh /\ OwnValues
        /\ QueueShaped /\ QueueSound /\ FreedLast
        /\ \A s \in DOMAIN gained : s \in Cells /\ cells[s].kind = "sk"
    BY <1>2 DEF ExecInv
  <2>3. Exists(p) /\ Covers(todo[1], "values", p)
    BY <1>3, <1>5 DEF Covers
  <2>4. /\ r \in Keys /\ l = cells[r].list /\ trie[p].nvals = cells[r].nvals /\ ~Pending(r, "list")
        /\ trie \in [Named -> Node] /\ trie[p] \in Node
    BY <1>3, <2>2, <2>3 DEF Matched, ValuesFresh
  <2> HIDE DEF p
  <2> DEFINE es == Entries(cells, l)
             R == Range(es)
             own == ValueCells(cells, l)
  <2>5. /\ SubSeq(es, 1, trie[p].nvals) = es /\ es \in Seq(Cells)
        /\ \A v \in R : VkSound(cells, v) /\ l # Invalid
        /\ l # Invalid => /\ r \in OldKeys /\ cells[r] = Hive[r] /\ ListSound(cells, l) /\ es = cells[l].refs
                          /\ own = ValueCells(OldHive, Hive[r].list) /\ own \subseteq DOMAIN Hive
                          /\ \A v, w \in R : v # w /\ cells[v].data # Invalid => cells[v].data # cells[w].data
    BY <2>2, <2>4, OldValueList
  <2>6. /\ top \in Nat /\ top > Len(Hive) /\ Len(Hive) \in Nat /\ Cells \subseteq Nat /\ Invalid \notin Cells
        /\ Invalid \notin DOMAIN Hive /\ DOMAIN cells = Cells /\ DOMAIN Hive \subseteq Cells /\ DOMAIN Hive = 1..Len(Hive)
        /\ Invalid \in Nat
    BY <2>2, HiveCells DEF OldKept, CellsSound, Invalid
  <2>7. OldValues(p) = es
    BY <2>5 DEF OldValues
  <2>8. /\ gone \subseteq R /\ R \subseteq Cells /\ kept \in Seq(R \ gone)
    <3> DEFINE K == R \ gone
    <3>1. gone \subseteq R /\ KeptValues(p) = InOrder(K, [x \in K |-> CHOOSE i \in DOMAIN es : es[i] = x])
      BY <2>7 DEF GoneValues, KeptValues
    <3>2. K \subseteq Range(es)
      OBVIOUS
    <3> HIDE DEF K
    <3>3. InOrder(K, [x \in K |-> CHOOSE i \in DOMAIN es : es[i] = x]) \in Seq(K)
      BY <2>5, <3>2, InListOrder
    <3>4. R \subseteq Cells
      BY <2>5, SeqMembers
    <3> QED BY <3>1, <3>3, <3>4 DEF K
  <2> HIDE DEF gone, kept, l, r
  <2>9. n \in Nat /\ Sets(p) \subseteq 1..n /\ top > 0
    <3>1. trie[p].vals \in Seq([name : Nat, val : STRING \cup {Deleted}])
      BY <2>4 DEF Node
    <3>2. n \in Nat /\ DOMAIN trie[p].vals = 1..n
      BY <3>1
    <3>3. top > 0
      BY <2>6
    <3> QED BY <3>2, <3>3 DEF Sets
  <2>10. /\ DOMAIN Written(p, all) = Cells
         /\ \A x \in Cells : (x < top \/ x >= at + 1) => Written(p, all)[x] = cells[x]
         /\ \A x \in Cells : \/ Written(p, all)[x] = cells[x]
                             \/ Written(p, all)[x].kind \in {"vk", "data", "values"}
         /\ \A i \in Sets(p) :
              /\ VkRef(i) \in Cells /\ VkRef(i) >= top /\ Written(p, all)[VkRef(i)] = NewVK(p, i)
              /\ External(p, i) => /\ DataRef(i) \in Cells /\ DataRef(i) >= top
                                   /\ Written(p, all)[DataRef(i)] = [kind |-> "data"]
         /\ all # <<>> => Written(p, all)[at] = [kind |-> "values", refs |-> all]
    <3> HIDE DEF all
    <3> QED BY <2>1, <2>6, <2>9, WrittenCells
  <2> DEFINE V == {VkRef(i) : i \in Sets(p)}
  <2>11. new \in Seq(V) /\ V \subseteq Cells
    BY <2>9, <2>10, NewValuesIn
  <2> HIDE DEF V, new
  <2>12. /\ all \in Seq(Cells) /\ Len(all) \in Nat /\ Range(all) \subseteq (R \ gone) \cup V
    <3> DEFINE T == (R \ gone) \cup V
    <3>1. kept \in Seq(T) /\ new \in Seq(T) /\ T \subseteq Cells
      BY <2>8, <2>11
    <3> HIDE DEF T
    <3>2. all \in Seq(T)
      BY <3>1
    <3> HIDE DEF all
    <3>3. Len(all) \in Nat /\ Range(all) \subseteq T
      BY <3>2, SeqMembers
    <3>4. all \in Seq(Cells)
      BY <3>1, <3>2
    <3> QED BY <3>3, <3>4 DEF T
  <2> HIDE DEF all, n
  <2>13. at \in Nat /\ at >= top
    <3>1. at = top + 2 * n
      BY DEF ListRef, n
    <3> HIDE DEF at
    <3> QED BY <3>1, <2>6, <2>9
  <2> HIDE DEF at
  <2>14. list = Invalid \/ (list = at /\ all # <<>>)
    OBVIOUS
  <2> HIDE DEF list
  <2>15. list \in Nat
    BY <2>6, <2>13, <2>14
  <2>16. /\ CellsSound' /\ OldKept' /\ Grown(cells, cells') /\ Keys' = Keys
         /\ \A x \in Keys : /\ cells'[x] = cells[x] /\ cells[x] \in NkCell
                            /\ KeySound(cells, x) /\ KeySound(cells', x)
    <3>1. DOMAIN cells' = Cells /\ top' \in Nat /\ top' >= top
      BY <2>1, <2>6, <2>10, <2>13
    <3>2. ASSUME NEW x \in Cells
          PROVE  \/ cells'[x] = cells[x] /\ (x < top \/ x >= top')
                 \/ /\ x >= top /\ x < top'
                    /\ cells'[x].kind \in {"free", "vk", "data", "values", "subkeys"}
      <4>1. CASE x < top \/ x >= at + 1
        BY <4>1, <2>1, <2>10
      <4>2. CASE ~(x < top \/ x >= at + 1)
        <5>1. x \in Nat /\ x >= top /\ x < top'
          BY <4>2, <2>1, <2>6, <2>13
        <5>2. cells[x].kind = "free"
          BY <5>1, <2>2 DEF OldKept, Unset
        <5> QED BY <5>1, <5>2, <2>1, <2>10
      <4> QED BY <4>1, <4>2
    <3> QED BY <2>2, <3>1, <3>2, CellsGrow
  <2>17. /\ trie' \in [Named -> Node]
         /\ \A q \in Named : trie'[q].ref = trie[q].ref /\ trie'[q].sk = trie[q].sk /\ trie'[q].subs = trie[q].subs
         /\ \A q \in Named : q # p => trie'[q] = trie[q]
    <3> DEFINE t == [trie[p] EXCEPT !.list = list, !.nvals = Len(all)]
    <3>1. trie' = [trie EXCEPT ![p] = t]
      BY <1>3, <2>1, <2>4
    <3>2. t \in Node /\ t.ref = trie[p].ref /\ t.sk = trie[p].sk /\ t.subs = trie[p].subs
      BY <2>4, <2>12, <2>15 DEF Node
    <3> HIDE DEF t
    <3>3. trie'[p] = t /\ (\A q \in Named : q # p => trie'[q] = trie[q]) /\ trie' \in [Named -> Node]
      BY <1>3, <2>4, <3>1, <3>2
    <3> QED BY <3>2, <3>3
  <2>18. /\ Matched' /\ Named' = Named /\ Entry' = Entry
         /\ \A q : Kids(q)' = Kids(q)
         /\ \A q \in Named : Exists(q)' <=> Exists(q)
    BY <1>1, <2>2, <2>16, <2>17, ListsSet
  <2>19. /\ TodoShaped' /\ TodoOnce'
         /\ \A i \in 1..Len(todo') : \A k \in {"values", "list"} : \A q \in Named :
              Covers(todo'[i], k, q) => /\ ~Covers(todo[1], k, q)
                                        /\ \E j \in 1..Len(todo) : Covers(todo[j], k, q)
    BY <1>1, <1>2, <2>18, TodoTail
  \* What is freed is the old list's, and what stays in the new list is not freed.
  <2> DEFINE F == (G \cup {l}) \ {Invalid}
             stay == (R \ gone) \cup ({cells[v].data : v \in R \ gone} \ {Invalid})
  <2>20. F \subseteq own /\ stay \subseteq own
    <3>1. CASE l = Invalid
      <4>1. R = {}
        BY <3>1, <2>5
      <4> QED BY <4>1, <3>1, <2>8
    <3>2. CASE l # Invalid
      <4>1. own = ({l} \cup R \cup {cells[v].data : v \in R}) \ {Invalid}
        BY <3>2, <2>5 DEF ValueCells
      <4>2. Invalid \notin R
        BY <2>6, <2>8
      <4> HIDE DEF own, R
      <4> QED BY <4>1, <4>2, <2>8
    <3> QED BY <3>1, <3>2
  <2>21. F \cap stay = {}
    <3> SUFFICES ASSUME NEW x, x \in F, x \in stay PROVE FALSE
      OBVIOUS
    <3>1. l # Invalid /\ x # Invalid
      <4>1. x \in own
        BY <2>20
      <4> QED BY <4>1 DEF ValueCells
    <3>2. cells[l].kind = "values"
      BY <2>5, <3>1 DEF ListSound
    <3>3. \A v \in R : cells[v].kind = "vk" /\ (cells[v].data # Invalid => cells[cells[v].data].kind = "data")
      BY <2>5 DEF VkSound
    <3>4. x \in gone \/ x = l \/ \E v \in gone : x = cells[v].data
      BY <3>1
    <3>5. x \in R \ gone \/ \E w \in R \ gone : x = cells[w].data
      BY <3>1
    <3>6. \A v, w \in R : v # w /\ cells[v].data # Invalid => cells[v].data # cells[w].data
      BY <2>5, <3>1
    <3> HIDE DEF R
    <3>7. CASE x \in gone
      BY <3>7, <3>1, <3>3, <3>5, <2>8
    <3>8. CASE x = l
      BY <3>8, <3>1, <3>2, <3>3, <3>5, <2>8
    <3>9. ASSUME NEW v \in gone, x = cells[v].data PROVE FALSE
      <4>1. v \in R /\ cells[x].kind = "data"
        BY <3>1, <3>3, <3>9, <2>8
      <4>2. x \notin R
        BY <4>1, <3>3
      <4>3. PICK w \in R \ gone : x = cells[w].data
        BY <4>2, <3>5
      <4> QED BY <4>1, <4>3, <3>1, <3>6, <3>9
    <3> QED BY <3>4, <3>7, <3>8, <3>9
  <2>22. ASSUME NEW x \in own
         PROVE  /\ l # Invalid /\ x # Invalid /\ x \in DOMAIN Hive /\ cells[x].kind \in {"values", "vk", "data"} /\ cells[x] # Unset
                /\ r \in OldKeys /\ x \in ValueCells(OldHive, Hive[r].list)
    <3>1. l # Invalid
      BY DEF ValueCells
    <3>2. ListSound(cells, l) /\ x \in DOMAIN Hive /\ r \in OldKeys /\ x \in ValueCells(OldHive, Hive[r].list)
      BY <2>5, <3>1
    <3>3. x # Invalid /\ cells[x].kind \in {"values", "vk", "data"}
      BY <3>2, ValueKinds
    <3>4. cells[x] # Unset
      BY <3>3 DEF Unset
    <3> QED BY <3>1, <3>2, <3>3, <3>4
  <2> HIDE DEF own
  <2>23. Frees(G) \cup Frees({l}) = {Update(2, x, "free", 0) : x \in F}
    <3>1. \A x \in F : cells[x] # Unset
      BY <2>20, <2>22
    <3> HIDE DEF G
    <3> QED BY <3>1 DEF Frees
  <2> HIDE DEF F, stay
  <2>24. /\ counts.field = "nvals" /\ counts.cat = 0 /\ counts.ref = r /\ counts.val = Len(all)
         /\ points.field = "list" /\ points.cat = 0 /\ points.ref = r /\ points.val = list
         /\ \A x : /\ Update(2, x, "free", 0).field = "free" /\ Update(2, x, "free", 0).cat = 2
                   /\ Update(2, x, "free", 0).ref = x
    BY DEF Update
  <2> HIDE DEF counts, points
  <2>25. queue \subseteq queue' /\ points \in queue'
         /\ \A u \in queue' \ queue : u = counts \/ u = points \/ \E x \in F : u = Update(2, x, "free", 0)
    <3>1. queue' = queue \cup {counts, points} \cup {Update(2, x, "free", 0) : x \in F}
      BY <2>1, <2>23
    <3> QED BY <3>1
  <2>26. ASSUME NEW x \in ToFree' \ ToFree PROVE x \in F
    <3>1. PICK u \in queue' : u.field = "free" /\ x = u.ref
      BY DEF ToFree, Changes
    <3>2. u \notin queue
      BY <3>1, <2>26 DEF ToFree, Changes
    <3> QED BY <3>1, <3>2, <2>24, <2>25
  <2>27. ASSUME NEW x \in ToFree' PROVE x \in DOMAIN Hive /\ (x \in ToFree \/ x \in F)
    <3>1. CASE x \in ToFree
      BY <3>1, <2>2 DEF ToFree, Changes, QueueShaped
    <3>2. CASE x \notin ToFree
      BY <3>2, <2>20, <2>22, <2>26
    <3> QED BY <3>1, <3>2
  <2>28. ASSUME NEW v \in Range(all)
         PROVE  /\ VkSound(cells', v)
                /\ v \in stay \/ v >= top
                /\ cells'[v].data # Invalid => cells'[v].data \in stay \/ cells'[v].data >= top
    <3>1. CASE v \in R \ gone
      <4>1. VkSound(cells, v) /\ v \in Cells
        BY <3>1, <2>5, <2>8
      <4>2. cells'[v] = cells[v]
        BY <4>1, <2>16 DEF VkSound, Grown
      <4>3. VkSound(cells', v)
        BY <4>1, <4>2, <2>16 DEF VkSound, Grown
      <4> QED BY <3>1, <4>2, <4>3 DEF stay
    <3>2. CASE v \in V
      <4>1. PICK i \in Sets(p) : v = VkRef(i)
        BY <3>2 DEF V
      <4>2. v >= top /\ cells'[v] = NewVK(p, i)
        BY <4>1, <2>1, <2>10
      <4>3. cells'[v].kind = "vk" /\ cells'[v].data = IF External(p, i) THEN DataRef(i) ELSE Invalid
        BY <4>2 DEF NewVK
      <4>4. External(p, i) => DataRef(i) \in Cells /\ DataRef(i) >= top /\ cells'[DataRef(i)].kind = "data"
        BY <2>1, <2>10
      <4> QED BY <4>2, <4>3, <4>4 DEF VkSound
    <3> QED BY <3>1, <3>2, <2>12
  <2>29. ListSound(cells', list) /\ \A x \in ValueCells(cells', list) : x \in stay \/ x >= top
    <3>1. CASE list = Invalid
      BY <3>1 DEF ListSound, ValueCells
    <3>2. CASE list # Invalid
      <4>1. list = at /\ cells'[at] = [kind |-> "values", refs |-> all] /\ at \in Cells
        BY <3>2, <2>1, <2>10, <2>14
      <4>2. /\ ListSound(cells', at)
            /\ ValueCells(cells', at) \subseteq {at} \cup Range(all) \cup ({cells'[v].data : v \in Range(all)} \ {Invalid})
        <5>1. \A v \in Range(all) : VkSound(cells', v)
          BY <2>28
        <5> QED BY <4>1, <5>1, <2>12, NewListSound
      <4> QED BY <4>1, <4>2, <2>13, <2>28
    <3> QED BY <3>1, <3>2
  <2>30. ASSUME NEW x \in ValueCells(cells', list), x \in DOMAIN Hive PROVE x \in stay
    <3>1. x \in Nat /\ ~(x >= top)
      BY <2>6, <2>30
    <3> QED BY <3>1, <2>29
  <2>31. ToFree' \cap ValueCells(cells', list) = {}
    <3> SUFFICES ASSUME NEW x, x \in ToFree', x \in ValueCells(cells', list) PROVE FALSE
      OBVIOUS
    <3>1. x \in stay /\ (x \in ToFree \/ x \in F)
      BY <2>27, <2>30
    <3>2. x \in ToFree
      BY <3>1, <2>21
    <3>3. x \in ValueCells(cells, cells[r].list)
      BY <3>1, <2>4, <2>20 DEF own
    <3> QED BY <3>2, <3>3, <2>2, <2>4 DEF FreedLast
  <2>32. ASSUME NEW s \in OldKeys, NEW x \in own, x \in ValueCells(OldHive, Hive[s].list) PROVE s = r
    BY <2>22, <2>32, HiveAssumption
  <2>33. \A s \in OldKeys : ValueCells(OldHive, Hive[s].list) \cap ValueCells(cells', list) # {} => r = s
    <3> SUFFICES ASSUME NEW s \in OldKeys, NEW x, x \in ValueCells(OldHive, Hive[s].list), x \in ValueCells(cells', list)
                 PROVE  r = s
      OBVIOUS
    <3>1. ListSound(OldHive, Hive[s].list)
      BY OldKey DEF KeySound
    <3>2. x \in Cells /\ OldHive[x].kind \in {"values", "vk", "data"}
      BY <3>1, ValueKinds
    <3>3. x \in DOMAIN Hive
      BY <3>2, HiveCells
    <3>4. x \in own
      BY <3>3, <2>20, <2>30
    <3> QED BY <3>4, <2>32
  <2>34. ASSUME NEW u \in queue' \ queue
         PROVE  /\ u.field \in DOMAIN Category /\ u.cat = Category[u.field]
                /\ u.field \in {"nsubs", "subs", "nvals", "list"} => u.ref \in Keys /\ u.val \in Nat
                /\ u.field # "count" /\ u.field # "subs"
                /\ u.field = "free" => /\ u = Update(2, u.ref, "free", 0) /\ u.ref \in DOMAIN Hive
                                       /\ cells[u.ref].kind \in {"subkeys", "values", "vk", "data"}
                /\ u.field = "list" =>
                     /\ ListSound(cells', u.val) /\ ToFree' \cap ValueCells(cells', u.val) = {}
                     /\ \A s \in OldKeys : ValueCells(OldHive, Hive[s].list) \cap ValueCells(cells', u.val) # {} => u.ref = s
    <3>1. CASE u = counts
      BY <3>1, <2>4, <2>12, <2>24 DEF Category
    <3>2. CASE u = points
      <4>1. u.field = "list" /\ u.cat = 0 /\ u.ref = r /\ u.val = list
        BY <3>2, <2>24
      <4> QED BY <4>1, <2>4, <2>15, <2>29, <2>31, <2>33 DEF Category
    <3>3. ASSUME NEW x \in F, u = Update(2, x, "free", 0)
          PROVE  /\ u.field = "free" /\ u.cat = 2 /\ u = Update(2, u.ref, "free", 0) /\ u.ref \in DOMAIN Hive
                 /\ cells[u.ref].kind \in {"subkeys", "values", "vk", "data"}
      BY <3>3, <2>20, <2>22, <2>24
    <3>4. CASE \E x \in F : u = Update(2, x, "free", 0)
      BY <3>3, <3>4 DEF Category
    <3> QED BY <2>25, <3>1, <3>2, <3>4
  <2>35. ASSUME NEW u \in Changes("list"), NEW x \in ToFree' \ ToFree PROVE x \notin ValueCells(cells, u.val)
    <3> SUFFICES ASSUME x \in ValueCells(cells, u.val) PROVE FALSE
      OBVIOUS
    <3>1. r \in OldKeys /\ x \in ValueCells(OldHive, Hive[r].list)
      BY <2>20, <2>22, <2>26
    <3>2. u.ref = r
      BY <3>1, <2>2 DEF OwnValues
    <3> QED BY <3>2, <2>4 DEF Pending
  <2>36. ASSUME NEW s, s = r PROVE Pending(s, "list")'
    BY <2>24, <2>25, <2>36 DEF Pending, Changes
  <2>37. ASSUME NEW x \in ToFree' \ ToFree, NEW s \in Keys
         PROVE  /\ x = cells[s].subs => Pending(s, "subs")'
                /\ x \in ValueCells(cells, cells[s].list) => Pending(s, "list")'
    <3>1. x \in own /\ x # Invalid /\ cells[x].kind \in {"values", "vk", "data"}
      BY <2>20, <2>22, <2>26
    <3>2. SubsSound(cells, cells[s].subs)
      BY <2>16 DEF KeySound
    <3>3. x # cells[s].subs
      BY <3>1, <3>2 DEF SubsSound
    <3>4. ASSUME x \in ValueCells(cells, cells[s].list) PROVE s = r
      <4>1. cells[s].list # Invalid
        BY <3>4 DEF ValueCells
      <4>2. s \in OldKeys /\ ValueCells(cells, cells[s].list) = ValueCells(OldHive, Hive[s].list)
        BY <4>1, <2>2, OldValueList
      <4> QED BY <4>2, <3>1, <3>4, <2>32
    <3> QED BY <3>3, <3>4, <2>36
  <2>38. QueueShaped' /\ QueueSound' /\ FreedLast' /\ OwnValues'
    BY <2>2, <2>16, <2>25, <2>34, <2>35, <2>37, QueueGrows
  <2>39. TodoFresh'
    <3> SUFFICES ASSUME NEW i \in 1..Len(todo'), NEW q \in Named
                 PROVE  /\ Covers(todo'[i], "values", q) => ValuesFresh(q)'
                        /\ Covers(todo'[i], "list", q) => SubsFresh(q)'
      BY <2>18 DEF TodoFresh
    <3>1. ASSUME Covers(todo'[i], "values", q) PROVE ValuesFresh(q)'
      <4>1. q # p
        BY <2>3, <2>19, <3>1
      <4>2. ValuesFresh(q)
        BY <2>2, <2>19, <3>1 DEF TodoFresh
      <4>3. trie'[q] = trie[q]
        BY <4>1, <2>17
      <4>4. CASE ~Exists(q)
        BY <4>2, <4>3, <4>4, <2>18 DEF ValuesFresh
      <4>5. CASE Exists(q)
        <5> DEFINE s == trie[q].ref
        <5>1. s \in Keys /\ s # r
          BY <1>3, <4>1, <4>5, <2>2 DEF Matched, r
        <5>2. /\ trie[q].list = cells[s].list /\ trie[q].nvals = cells[s].nvals /\ ~Pending(s, "list")
          BY <4>2, <4>5 DEF ValuesFresh
        <5>3. \A u \in queue' : u.field = "list" /\ u.ref = s => u \in queue
          <6>1. \A u \in queue' \ queue : u.field = "list" => u.ref = r
            BY <2>24, <2>25
          <6> QED BY <6>1, <5>1
        <5>4. ~ \E u \in queue' : u.field = "list" /\ u.ref = s
          BY <5>2, <5>3 DEF Pending, Changes
        <5>5. cells'[s] = cells[s] /\ Exists(q)'
          BY <5>1, <4>5, <2>16, <2>18
        <5>6. trie'[q].ref = s
          BY <4>3
        <5> HIDE DEF s
        <5>7. /\ trie'[q].list = cells'[trie'[q].ref].list /\ trie'[q].nvals = cells'[trie'[q].ref].nvals
          BY <4>3, <5>2, <5>5, <5>6
        <5>8. ~Pending(trie[q].ref, "list")'
          BY <5>4, <5>6 DEF Pending, Changes
        <5> QED BY <5>5, <5>7, <5>8 DEF ValuesFresh
      <4> QED BY <4>4, <4>5
    <3>2. ASSUME Covers(todo'[i], "list", q) PROVE SubsFresh(q)'
      <4>1. SubsFresh(q)
        BY <2>2, <2>19, <3>2 DEF TodoFresh
      <4>2. Exists(q) => trie[q].ref \in Keys
        BY <2>2 DEF Matched
      <4> QED BY <4>1, <4>2, <2>16, <2>17, <2>18 DEF SubsFresh
    <3> QED BY <3>1, <3>2
  <2>40. \A s \in DOMAIN gained' : s \in Cells /\ cells'[s].kind = "sk"
    BY <1>1, <2>2, <2>16 DEF Grown
  <2> QED BY <1>2, <2>16, <2>18, <2>19, <2>38, <2>39, <2>40 DEF ExecInv
<1> QED BY <1>4, <1>5

-----------------------------------------------------------------------------
LEMMA NextStep ==
  ASSUME IInv, [PatchNext]_patchVars
  PROVE  IInv'
<1>1. CASE PatchNext
  BY <1>1, BuildStep, AnnotateStep, EstimateStep, CancelStep, NodeStep, ChildStep, ValuesStep, ListStep,
     FlushStep, OverrunStep, AllocFailsStep, ApplyStep, FinalizeStep DEF PatchNext
<1>2. CASE UNCHANGED patchVars
  <2>0. UNCHANGED <<phase, ops, trie, cells, top, todo, queue, gained, need, used, hdr>>
    BY <1>2 DEF patchVars
  <2>1. Named' = Named /\ Keys' = Keys /\ (\A f : Changes(f)' = Changes(f)) /\ Entry' = Entry
    BY <2>0 DEF Named, Keys, Changes, Entry
  <2>2. /\ ToFree' = ToFree /\ (\A r, f : Pending(r, f)' <=> Pending(r, f))
        /\ (\A q : Exists(q)' <=> Exists(q)) /\ (\A q : Kids(q)' = Kids(q))
    BY <2>0, <2>1 DEF ToFree, Pending, Exists, Kids
  <2>3. CellsSound' <=> CellsSound
    BY <2>0, <2>1 DEF CellsSound
  <2>4. OldKept' <=> OldKept
    BY <2>0, <2>1 DEF OldKept
  <2>5. Matched' <=> Matched
    BY <2>0, <2>1, <2>2 DEF Matched
  <2>6. \A q : (ValuesFresh(q)' <=> ValuesFresh(q)) /\ (SubsFresh(q)' <=> SubsFresh(q))
    BY <2>0, <2>1, <2>2 DEF ValuesFresh, SubsFresh
  <2>7. QueueShaped' <=> QueueShaped
    BY <2>0, <2>1 DEF QueueShaped
  <2>8. QueueSound' <=> QueueSound
    BY <2>0, <2>1, <2>2 DEF QueueSound
  <2>9. (FreedLast' <=> FreedLast) /\ (OwnValues' <=> OwnValues)
    BY <2>0, <2>1, <2>2 DEF FreedLast, OwnValues
  <2>10. \A e : EntryShaped(e)' <=> EntryShaped(e)
    BY <2>0, <2>1, <2>2 DEF EntryShaped
  <2>11. TodoShaped => TodoShaped'
    BY <2>0, <2>1, <2>10 DEF TodoShaped
  <2>12. (TodoOnce' <=> TodoOnce) /\ (TodoFresh => TodoFresh')
    BY <2>0, <2>1, <2>6 DEF TodoOnce, TodoFresh
  <2>13. phase = "annotate" => trie' = [p \in Named |-> NewNode(p)]'
    <3>1. \A p : NewNode(p)' = NewNode(p)
      BY <2>0 DEF NewNode, OpsAt, ValueOps
    <3> QED BY <2>0, <2>1, <3>1 DEF IInv
  <2> QED BY <2>0, <2>1, <2>3, <2>4, <2>5, <2>6, <2>7, <2>8, <2>9, <2>11, <2>12, <2>13 DEF IInv
<1> QED BY <1>1, <1>2

\* Wherever a merge of the second engine stops, also between two updates of the queue, every
\* key that can be found has its security cell, its subkey list and its values allocated and
\* of their kinds; and until the queue is applied, and when the merge fails, the tree is the
\* old one (flush/apply.go, write/execute.go), for every hive, plan and size.  A merge that
\* asks for more than the bump region holds is followed until its queue is applied.
THEOREM PatchIsSafe == PatchSpec => []PatchSafe
<1>1. PatchInit => IInv
  BY InitStep
<1>2. IInv /\ [PatchNext]_patchVars => IInv'
  BY NextStep
<1>3. IInv => PatchSafe
  BY SafeFromInv
<1> QED BY <1>1, <1>2, <1>3, PTL DEF PatchSpec
=============================================================================
