------------------------------ MODULE LruCache ------------------------------
(***************************************************************************)
(* The sharded byte-bounded LRU of internal/cache/cache.go.                *)
(*                                                                         *)
(* A lookup and an Add run under the mutex of the key's shard and are one  *)
(* action each; Add includes its eviction loop.  The hit and miss counters *)
(* are bumped after the unlock.  Stats takes the shard locks one after the *)
(* other, so lookups and Adds run between two of its steps.                *)
(*                                                                         *)
(* ShardOf stands for hashKey, any assignment of keys to shards.  SizeOf   *)
(* stands for the size Add computes, fixed overhead included.              *)
(***************************************************************************)
EXTENDS Integers, Sequences, FiniteSets, SequencesExt

CONSTANTS
    Keys, Values, Absent,
    ShardCount,     \* shardCount
    ShardOf,        \* ShardOf[k]: the shard of key k
    SizeOf,         \* SizeOf[k][v]: entry.size of an entry for k that holds v
    Capacity,       \* perShard
    Clients,        \* goroutines that look keys up
    MaxCount        \* bound on the lookups counted in a behaviour

Shards == 1 .. ShardCount

ASSUME LruAssumption ==
    /\ Absent \notin Values
    /\ \A v \in Values, n \in 1 .. Capacity : [value |-> v, size |-> n] # Absent
    /\ ShardCount \in Nat \ {0}
    /\ ShardOf \in [Keys -> Shards]
    /\ SizeOf \in [Keys -> [Values -> Nat \ {0}]]
    /\ Capacity \in Nat
    /\ MaxCount \in Nat

VARIABLES
    items,      \* shard.items of every shard: the entry under a key, a value and its size
    lru,        \* shard.lru, most recently used first
    used,       \* shard.used
    hits, misses,
    counting,   \* a client between the unlock and its hits.Add or misses.Add
    scan        \* a caller of Stats: the shards it has read, and its sums so far

vars == <<items, lru, used, hits, misses, counting, scan>>

NoScan == [next |-> 0, hits |-> 0, misses |-> 0, entries |-> 0, bytes |-> 0]

Init ==
    /\ items = [k \in Keys |-> Absent]
    /\ lru = [s \in Shards |-> <<>>]
    /\ used = [s \in Shards |-> 0]
    /\ hits = 0 /\ misses = 0
    /\ counting = [c \in Clients |-> "no"]
    /\ scan = NoScan

\* Variant: an element found is pushed a second time instead of moved.
PushedAgain(seq, k) == <<k>> \o seq

\* The element of the key goes to the front, or a new element is put there.
ToFront(seq, k) ==
    <<k>> \o (IF k \in ToSet(seq) THEN RemoveAt(seq, CHOOSE p \in DOMAIN seq : seq[p] = k)
                                  ELSE seq)

(***************************************************************************)
(* get: a found entry moves to the front.  Get then counts, Peek does not. *)
(***************************************************************************)
\* Variant: an entry found stays where it is.
TouchNothing(k) == UNCHANGED lru

Touch(k) ==
    IF items[k] = Absent THEN UNCHANGED lru
    ELSE lru' = [lru EXCEPT ![ShardOf[k]] = ToFront(@, k)]

Pending == Cardinality({c \in Clients : counting[c] # "no"})

Get(c, k) ==
    /\ counting[c] = "no"
    /\ hits + misses + Pending < MaxCount
    /\ Touch(k)
    /\ counting' = [counting EXCEPT ![c] = IF items[k] = Absent THEN "miss" ELSE "hit"]
    /\ UNCHANGED <<items, used, hits, misses, scan>>

Count(c) ==
    /\ counting[c] # "no"
    /\ hits' = IF counting[c] = "hit" THEN hits + 1 ELSE hits
    /\ misses' = IF counting[c] = "miss" THEN misses + 1 ELSE misses
    /\ counting' = [counting EXCEPT ![c] = "no"]
    /\ UNCHANGED <<items, lru, used, scan>>

Peek(k) ==
    /\ Touch(k)
    /\ UNCHANGED <<items, used, hits, misses, counting, scan>>

(***************************************************************************)
(* Add.  In a shard whose list is seq and whose count of bytes is total,   *)
(* the loop removes entries from the back until the count fits; Survivors  *)
(* is the part of the list it stops at.  A byte of an entry is counted by  *)
(* its key and its offset.                                                 *)
(***************************************************************************)
Extent(keys, entries) == UNION {{k} \X (1 .. entries[k].size) : k \in keys}

Bytes(keys, entries) == Cardinality(Extent(keys, entries))

\* The count when the loop has removed all but the first n entries.
Left(seq, total, entries, n) == total - Bytes(ToSet(SubSeq(seq, n + 1, Len(seq))), entries)

Longest(seq, counts) == SubSeq(seq, 1, CHOOSE n \in counts : \A m \in counts : m <= n)

\* Variant: the loop also runs when the count is exactly the capacity.
SurvivorsBelow(seq, total, entries) ==
    Longest(seq, {n \in 0 .. Len(seq) : n = 0 \/ Left(seq, total, entries, n) < Capacity})

Survivors(seq, total, entries) ==
    Longest(seq, {n \in 0 .. Len(seq) : n = 0 \/ Left(seq, total, entries, n) <= Capacity})

\* Variant: values larger than a shard are not refused.
AcceptsAll(k, v) == Capacity > 0

Accepts(k, v) == Capacity > 0 /\ SizeOf[k][v] <= Capacity

\* Variant: an update in place does not take the old size back.
SizeForgotten(k) == 0

OldSize(k) == IF items[k] = Absent THEN 0 ELSE items[k].size

\* Variant: eviction removes from the list but not from the map.
EvictedNowhere(front, kept) == {}

Evicted(front, kept) == ToSet(front) \ ToSet(kept)

Add(k, v) ==
    /\ Accepts(k, v)
    /\ LET s == ShardOf[k]
           entries == [items EXCEPT ![k] = [value |-> v, size |-> SizeOf[k][v]]]
           total == used[s] - OldSize(k) + SizeOf[k][v]
           front == ToFront(lru[s], k)
           kept == Survivors(front, total, entries)
       IN  /\ lru' = [lru EXCEPT ![s] = kept]
           /\ used' = [used EXCEPT ![s] = Left(front, total, entries, Len(kept))]
           /\ items' = [j \in Keys |-> IF j \in Evicted(front, kept) THEN Absent ELSE entries[j]]
    /\ UNCHANGED <<hits, misses, counting, scan>>

(***************************************************************************)
(* Stats: the counters first, then each shard under its own lock.          *)
(***************************************************************************)
StatsBegin ==
    /\ scan.next = 0
    /\ scan' = [NoScan EXCEPT !.next = 1, !.hits = hits, !.misses = misses]
    /\ UNCHANGED <<items, lru, used, hits, misses, counting>>

StatsShard ==
    /\ scan.next \in Shards
    /\ scan' = [scan EXCEPT
                    !.next = @ + 1,
                    !.entries = @ + Cardinality({k \in Keys : ShardOf[k] = scan.next /\ items[k] # Absent}),
                    !.bytes = @ + used[scan.next]]
    /\ UNCHANGED <<items, lru, used, hits, misses, counting>>

StatsReturn ==
    /\ scan.next = ShardCount + 1
    /\ scan' = NoScan
    /\ UNCHANGED <<items, lru, used, hits, misses, counting>>

Next ==
    \/ \E c \in Clients : Count(c) \/ \E k \in Keys : Get(c, k)
    \/ \E k \in Keys : Peek(k)
    \/ \E k \in Keys, v \in Values : Add(k, v)
    \/ StatsBegin
    \/ StatsShard
    \/ StatsReturn

Spec == Init /\ [][Next]_vars

-----------------------------------------------------------------------------
\* The bytes a shard reports are those of the entries it holds, and they fit
\* its capacity whenever its lock is free: updates in place, evictions and
\* refusals keep the count exact (cache.go 126-147).
UsedIsExact ==
    \A s \in Shards :
        /\ used[s] = Bytes(ToSet(lru[s]), items)
        /\ used[s] <= Capacity

\* The map and the list of a shard hold the same keys, each once, so no entry
\* is beyond the reach of eviction and none is evicted that is not mapped.
ListMatchesMap ==
    \A s \in Shards :
        /\ ToSet(lru[s]) = {k \in Keys : ShardOf[k] = s /\ items[k] # Absent}
        /\ IsInjective(lru[s])

\* Stats is not a snapshot, its shards are read at different moments, and yet
\* what it reports is within the configured capacity and each entry it counts
\* is paid for (cache.go 150-160).
StatsAreBounded ==
    /\ scan.bytes <= ShardCount * Capacity
    /\ scan.bytes >= scan.entries

\* The entry at place p of the list of s goes.
Goes(s, p) == items[lru[s][p]] # Absent /\ items'[lru[s][p]] = Absent

\* An Add evicts no more than it must: the entry evicted last, the one nearest
\* to the front of those that go, would not have fitted beside those that stay
\* (cache.go 138-147).
EvictsOnlyWhatItMust ==
    [][\A s \in Shards : \A p \in DOMAIN lru[s] :
          (Goes(s, p) /\ \A q \in 1 .. p - 1 : ~Goes(s, q))
              => used'[s] + items[lru[s][p]].size > Capacity]_vars

\* The cache keeps its promise to the server.
Promise == INSTANCE CachePromise
             WITH stored <- [k \in Keys |-> IF items[k] = Absent THEN Absent ELSE items[k].value]

PromiseKept == Promise!Spec
=============================================================================
