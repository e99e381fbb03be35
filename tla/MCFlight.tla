------------------------------ MODULE MCFlight ------------------------------
(***************************************************************************)
(* Instances of Flight for TLC.  Results carry their key, so an outcome    *)
(* that reaches a caller of the other key shows.  fn of one key returns or *)
(* panics, fn of the other returns a value or an error.                    *)
(***************************************************************************)
EXTENDS Flight, TLC

OnePanickingKey == {CHOOSE k \in Keys : TRUE}

ResultsPerKey ==
    [k \in Keys |-> {<<k, "value">>} \cup (IF k \in OnePanickingKey THEN {} ELSE {<<k, "error">>})]

\* Callers and call objects are interchangeable in the safety runs.
Interchangeable == Permutations(Callers) \cup Permutations(CallIds)
=============================================================================
