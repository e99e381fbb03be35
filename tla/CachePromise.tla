---------------------------- MODULE CachePromise ----------------------------
(***************************************************************************)
(* What the rest of the server may assume of the response cache of         *)
(* internal/cache/cache.go: a lookup returns what is stored under the key; *)
(* Add either stores the new value and may forget other keys, or refuses   *)
(* and changes nothing, so that an older value under the key stays.        *)
(* LruCache implements this module; TileServing is built on it.            *)
(***************************************************************************)
CONSTANTS
    Keys,
    Values,
    Absent      \* the key has no entry; not one of Values

VARIABLE stored     \* the value under each key

TypeOK == stored \in [Keys -> Values \cup {Absent}]

Init == stored = [k \in Keys |-> Absent]

Has(k) == stored[k] # Absent

Store(k, v) ==
    \E kept \in SUBSET (Keys \ {k}) :
        stored' = [j \in Keys |-> IF j = k THEN v
                                  ELSE IF j \in kept THEN stored[j] ELSE Absent]

Refuse == UNCHANGED stored

Add(k, v) == Store(k, v) \/ Refuse

Next == \E k \in Keys, v \in Values : Add(k, v)

Spec == Init /\ [][Next]_stored
=============================================================================
