----------------------------- MODULE TilePromise -----------------------------
(***************************************************************************)
(* What the server promises the clients that ask it for tiles: each        *)
(* request ends with one of the responses AllowedFor its key, whatever the *)
(* other clients do.  A tile is the tile of the key asked for; "not found" *)
(* is said only of a tile the source lacks; a failure only where the load  *)
(* of that key can fail; and no request is dropped without a response      *)
(* unless its own client has gone.  TileServing implements this module.    *)
(***************************************************************************)
CONSTANTS
    Requests,       \* clients, each with one request at a time
    Keys,
    Values, NotFound,
    Tile,           \* Tile[k]: the response the sources hold for k, or NotFound
    Faulty,         \* the keys whose load may fail, time out or panic
    Pending, NotAcceptable, Failed, Busy, Dropped

VARIABLES
    key,        \* what each client asked for last
    gone,       \* a client that left before it was answered
    response

vars == <<key, gone, response>>

Init ==
    /\ key \in [Requests -> Keys]
    /\ gone = [p \in Requests |-> FALSE]
    /\ response = [p \in Requests |-> Dropped]

AllowedFor(k) ==
    {Tile[k]} \cup (IF Tile[k] = NotFound THEN {} ELSE {NotAcceptable})
              \cup (IF k \in Faulty THEN {Failed} ELSE {})

Ask(p, k, r) ==
    /\ response[p] # Pending
    /\ r \in {Pending, Busy}
    /\ key' = [key EXCEPT ![p] = k]
    /\ response' = [response EXCEPT ![p] = r]
    /\ UNCHANGED gone

Disconnect(p) ==
    /\ response[p] = Pending
    /\ gone' = [gone EXCEPT ![p] = TRUE]
    /\ UNCHANGED <<key, response>>

Answer(p, r) ==
    /\ response[p] = Pending
    /\ r \in AllowedFor(key[p]) \cup (IF gone[p] THEN {Dropped} ELSE {})
    /\ response' = [response EXCEPT ![p] = r]
    /\ gone' = [gone EXCEPT ![p] = FALSE]
    /\ UNCHANGED key

Next ==
    \E p \in Requests :
        \/ \E k \in Keys, r \in {Pending, Busy} : Ask(p, k, r)
        \/ Disconnect(p)
        \/ \E r \in Values \cup {NotAcceptable, Failed, Dropped} : Answer(p, r)

Spec == Init /\ [][Next]_vars
=============================================================================
