------------------------------ MODULE LruUses ------------------------------
(***************************************************************************)
(* LruCache with a history variable: newer relates a key to one that was   *)
(* used after it, whatever the lists say.  A lookup that finds an entry, a *)
(* Peek that does, an insert and an update in place are uses.              *)
(***************************************************************************)
EXTENDS LruCache

VARIABLE newer

Used(k) == newer' = {pair \in newer : pair[1] # k} \cup {<<j, k>> : j \in Keys \ {k}}

\* A lookup that misses uses nothing.
Found(k) == IF items[k] # Absent THEN Used(k) ELSE UNCHANGED newer

HInit == Init /\ newer = {}

HNext ==
    \/ \E c \in Clients : Count(c) /\ UNCHANGED newer
    \/ \E c \in Clients, k \in Keys : Get(c, k) /\ Found(k)
    \/ \E k \in Keys : Peek(k) /\ Found(k)
    \/ \E k \in Keys, v \in Values : Add(k, v) /\ Used(k)
    \/ (StatsBegin \/ StatsShard \/ StatsReturn) /\ UNCHANGED newer

HSpec == HInit /\ [][HNext]_<<vars, newer>>

\* Eviction is least-recently-used: an entry that stays was used after every
\* entry that goes, counting lookups, Peeks, inserts and updates in place
\* (cache.go 100, 132, 135, 139).
EvictsLeastRecent ==
    [][\A gone, stays \in Keys :
          (/\ ShardOf[gone] = ShardOf[stays]
           /\ items[gone] # Absent /\ items'[gone] = Absent
           /\ items'[stays] # Absent)
          => <<gone, stays>> \in newer']_<<vars, newer>>
=============================================================================
