----------------------------- MODULE MCLruCache -----------------------------
(***************************************************************************)
(* An instance of LruUses for TLC.                                         *)
(***************************************************************************)
EXTENDS LruUses

Small == "small"
Large == "large"
Huge == "huge"

WithHuge == {Small, Large, Huge}

ThreeSizes == [k \in Keys |-> (Small :> 1 @@ Large :> 2 @@ Huge :> 4)]

\* Three keys share a shard, so that evictions pick among older entries, and
\* one key has the other shard, so that Stats reads two.
ThreeAndOne == [k \in Keys |-> IF k = 4 THEN 2 ELSE 1]
=============================================================================
