---------------------------- MODULE MCTileServing ----------------------------
(***************************************************************************)
(* Instances of TileServing for TLC.                                       *)
(***************************************************************************)
EXTENDS TileServing, TLC

\* The tile of a key is bound to it; the key "lost" has no tile.
Content == [k \in Keys |-> IF k = "lost" THEN NotFound ELSE <<"tile", k>>]

Contents == {Content[k] : k \in Keys} \cup {NotFound}

Interchangeable == Permutations(Requests) \cup Permutations(CallIds)
=============================================================================
