------------------------------ MODULE NameCache ------------------------------
(***************************************************************************)
(* The cache of decoded key names, hive/namecache/cache.go, and the two    *)
(* decoders of hive/subkeys/reader.go that use it: one for compressed      *)
(* names ("c", one byte a character), one for UTF-16 names ("u").  The     *)
(* cache is one for the whole program, in shards with a lock each, so      *)
(* readers of several hives meet in it.  It is keyed by a name's bytes     *)
(* alone.                                                                  *)
(*                                                                         *)
(* A decoded name is its bytes with the encoding they were read in; an     *)
(* entry also says whether it has the FNV hash (the UTF-16 decoder stores  *)
(* 0).                                                                     *)
(***************************************************************************)
EXTENDS Naturals, Sequences, FiniteSets, SequencesExt

CONSTANTS
  Readers,     \* goroutines that read hives
  RawNames,    \* byte strings of names
  Odd,         \* those that are no UTF-16: of odd length, or a surrogate alone
  ShardFor,    \* shardFor: a function on RawNames
  numShards,
  Capacities,  \* what SetCapacity is called with
  Capacity,    \* defaultCapacity
  MaxReads     \* bound on the number of names decoded

VARIABLES
  shard,    \* the shards: capacity and entries, most recently used first
  reader,   \* what each reader is doing
  resize,   \* SetCapacity under way: the new capacity and the shards left
  reads,    \* how many names were decoded
  seen      \* history: <<bytes, encoding>> decoded so far

cvars == <<shard, reader, resize, reads, seen>>

Shards == 0..(numShards - 1)
ASSUME CacheAssumption ==
  /\ numShards \in Nat \ {0} /\ ShardFor \in [RawNames -> Shards]
  /\ Capacity \in Nat /\ Capacities \subseteq Nat /\ MaxReads \in Nat

PerShard(n) == IF n \div numShards < 1 /\ n > 0 THEN 1 ELSE n \div numShards
NoResize == [cap |-> 0, left |-> {}]
Idle == [at |-> "idle"]
Reading(at, raw, enc) == [at |-> at, raw |-> raw, enc |-> enc]
Read(raw, enc, name) == [at |-> "done", raw |-> raw, enc |-> enc, name |-> name]

CacheInit ==
  /\ shard = [s \in Shards |-> [cap |-> PerShard(Capacity), order |-> <<>>]]
  /\ reader = [r \in Readers |-> Idle]
  /\ resize = NoResize /\ reads = 0 /\ seen = {}

Decoded(raw, enc) == [raw |-> raw, enc |-> enc, fnv |-> enc = "c"]
Entry(raw, name) == [key |-> raw, name |-> name]

\* Where items leads for a key, and the list without that element.
Found(q, raw) == {k \in DOMAIN q : q[k].key = raw}
At(q, raw) == CHOOSE k \in Found(q, raw) : TRUE

\* The decoder asks the cache, which looks at the capacity before it locks.
Lookup(r, raw, enc) ==
  /\ reader[r].at \in {"idle", "done", "error"} /\ reads < MaxReads
  /\ reads' = reads + 1 /\ seen' = seen \cup {<<raw, enc>>}
  /\ reader' = [reader EXCEPT ![r] =
                  Reading(IF shard[ShardFor[raw]].cap = 0 THEN "missed" ELSE "lookup", raw, enc)]
  /\ UNCHANGED <<shard, resize>>

\* lookup with the lock held: a hit is returned before any check of the bytes.
Find(r) ==
  LET x == reader[r]
      s == ShardFor[x.raw]
      q == shard[s].order
      k == At(q, x.raw)
  IN /\ x.at = "lookup"
     /\ IF Found(q, x.raw) # {}
          THEN /\ shard' = [shard EXCEPT ![s].order = <<q[k]>> \o RemoveAt(q, k)]
               /\ reader' = [reader EXCEPT ![r] = Read(x.raw, x.enc, q[k].name)]
          ELSE reader' = [reader EXCEPT ![r].at = "missed"] /\ UNCHANGED shard
     /\ UNCHANGED <<resize, reads, seen>>

\* The decoder decodes and stores; store, too, looks at the capacity before it locks.
Decode(r) ==
  LET x == reader[r]
  IN /\ x.at = "missed"
     /\ reader' = [reader EXCEPT ![r] =
                     IF x.enc = "u" /\ x.raw \in Odd THEN Reading("error", x.raw, x.enc)
                     ELSE IF shard[ShardFor[x.raw]].cap = 0 THEN Read(x.raw, x.enc, Decoded(x.raw, x.enc))
                     ELSE Reading("store", x.raw, x.enc)]
     /\ UNCHANGED <<shard, resize, reads, seen>>

\* store with the lock held: an entry that another reader has put there meanwhile
\* is replaced, else the least recently used one makes room.
Stored(c, raw, name) ==
  LET q == c.order
      rest == IF Found(q, raw) # {} THEN RemoveAt(q, At(q, raw))
              ELSE IF Len(q) >= c.cap /\ q # <<>> THEN Front(q) ELSE q
  IN [c EXCEPT !.order = <<Entry(raw, name)>> \o rest]

\* (mutant) the answer is read from the cache again.
StoreAndReread(r) ==
  LET x == reader[r]
      s == ShardFor[x.raw]
      c == Stored(shard[s], x.raw, Decoded(x.raw, x.enc))
  IN /\ x.at = "store"
     /\ shard' = [shard EXCEPT ![s] = c]
     /\ reader' = [reader EXCEPT ![r] = Read(x.raw, x.enc, IF shard[s].order # <<>> THEN Last(shard[s].order).name
                                                           ELSE Decoded(x.raw, x.enc))]
     /\ UNCHANGED <<resize, reads, seen>>

Store(r) ==
  LET x == reader[r]
      s == ShardFor[x.raw]
      name == Decoded(x.raw, x.enc)
  IN /\ x.at = "store"
     /\ shard' = [shard EXCEPT ![s] = Stored(@, x.raw, name)]
     /\ reader' = [reader EXCEPT ![r] = Read(x.raw, x.enc, name)]
     /\ UNCHANGED <<resize, reads, seen>>

\* setCapacity goes from shard to shard.
SetCapacity(n) ==
  /\ resize.left = {}
  /\ resize' = [cap |-> PerShard(n), left |-> Shards]
  /\ UNCHANGED <<shard, reader, reads, seen>>
ResizeShard(s) ==
  /\ s \in resize.left /\ \A t \in resize.left : s <= t
  /\ shard' = [shard EXCEPT ![s] =
                 [cap |-> resize.cap,
                  order |-> IF Len(@.order) > resize.cap THEN SubSeq(@.order, 1, resize.cap) ELSE @.order]]
  /\ resize' = [resize EXCEPT !.left = @ \ {s}]
  /\ UNCHANGED <<reader, reads, seen>>

\* reset; the shards do not meet, so they are cleared in one step.  A reader
\* that missed before it may still store after it.
Reset ==
  /\ shard' = [s \in Shards |-> [shard[s] EXCEPT !.order = <<>>]]
  /\ UNCHANGED <<reader, resize, reads, seen>>

CacheNext ==
  \/ \E r \in Readers : \/ Find(r) \/ Decode(r) \/ Store(r)
                        \/ \E raw \in RawNames, enc \in {"c", "u"} : Lookup(r, raw, enc)
  \/ \E n \in Capacities : SetCapacity(n)
  \/ \E s \in Shards : ResizeShard(s)
  \/ Reset

CacheSpec == CacheInit /\ [][CacheNext]_cvars
-----------------------------------------------------------------------------
\* As long as a byte string was met in one encoding only, a reader gets the
\* name those bytes stand for, whoever else stores, evicts, resizes or resets
\* between its lookup and its store.
NamesRight ==
  \A r \in Readers : reader[r].at = "done" =>
    \/ reader[r].name = Decoded(reader[r].raw, reader[r].enc)
    \/ {e \in {"c", "u"} : <<reader[r].raw, e>> \in seen} = {"c", "u"}

\* A shard never holds more than its capacity, two entries of one name, or an
\* entry in the wrong shard, so what is found is what was stored last.  An entry
\* may stay in a shard that was given capacity 0: a store that looked at the
\* capacity before is let in after, and finds nothing to evict.
Room(c) == IF c.cap = 0 THEN 1 ELSE c.cap
CacheBounded ==
  \A s \in Shards :
    LET q == shard[s].order
    IN /\ Len(q) <= Room(shard[s])
       /\ \A j, k \in DOMAIN q : ShardFor[q[j].key] = s /\ (q[j].key = q[k].key => j = k)

\* Readers get their names, and the shards keep to their rules.
CacheRight == NamesRight /\ CacheBounded
=============================================================================
