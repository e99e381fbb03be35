----------------------------- MODULE StorePool -----------------------------
(***************************************************************************)
(* The connections of one store of internal/mbtiles: the queries of Open,  *)
(* Tile and Grid on the sql.DB pool, which Open limits to MaxConnections.  *)
(*                                                                         *)
(* database/sql is modelled by its contract.  A query takes a connection   *)
(* or waits for one.  It keeps it until its row is scanned, its statement  *)
(* is prepared, or its rows have been read to the end or are closed.       *)
(* Reading one more row changes nothing and is left out.                   *)
(***************************************************************************)
EXTENDS Integers, FiniteSets

CONSTANTS
    Readers,    \* goroutines in Tile or Grid
    Opener,     \* the goroutine in Open
    Sizes       \* the values Options.MaxConnections may have

ASSUME StorePoolAssumption ==
    /\ Opener \notin Readers
    /\ IsFiniteSet(Readers)
    /\ Sizes \subseteq Int

Actors == Readers \cup {Opener}

VARIABLES
    limit,      \* what SetMaxOpenConns was given
    used,       \* connections out of the pool
    held,       \* held[p]: how many of them p has
    query,      \* query[p]: the query p is at
    mode,       \* mode[p]: p waits for a connection, reads, or leaves its rows
    prepared,   \* the statements of the store: tileStmt, gridStmt, gridDataStmt
    store       \* Open is under way, has returned the store, or an error

poolVars == <<limit, used, held, query, mode, prepared, store>>

OpenQueries == {"ping", "metadata", "zoom", "prepareTile", "hasGrids",
                "prepareGrid", "hasGridData", "prepareGridData"}
Statements == {"tile", "grid", "gridData"}
Queries == OpenQueries \cup Statements

PoolTypeOK ==
    /\ limit \in Nat \ {0}
    /\ used \in Nat
    /\ held \in [Actors -> Nat]
    /\ query \in [Actors -> Queries]
    /\ mode \in [Actors -> {"idle", "waiting", "reading", "leaving"}]
    /\ prepared \in SUBSET Statements
    /\ store \in {"opening", "open", "failed"}

AtLeastOne(n) == IF n < 1 THEN 1 ELSE n

PoolInit ==
    /\ limit \in {AtLeastOne(n) : n \in Sizes}
    /\ used = 0
    /\ held = [p \in Actors |-> 0]
    /\ query = [p \in Actors |-> "ping"]
    /\ mode = [p \in Actors |-> IF p = Opener THEN "waiting" ELSE "idle"]
    /\ prepared = {}
    /\ store = "opening"

(***************************************************************************)
(* The pool.                                                               *)
(***************************************************************************)
Give(p) ==
    /\ used' = used + 1
    /\ held' = [held EXCEPT ![p] = @ + 1]

TakeBack(p) ==
    /\ used' = used - 1
    /\ held' = [held EXCEPT ![p] = @ - 1]

Connect(p) ==
    /\ mode[p] = "waiting"
    /\ used < limit
    /\ Give(p)
    /\ mode' = [mode EXCEPT ![p] = "reading"]
    /\ UNCHANGED <<limit, query, prepared, store>>

(***************************************************************************)
(* What follows a query that succeeds: another, or the end of the call.    *)
(* Open derives the zoom range only if the metadata lack it, and looks for *)
(* grid data only in a file with grids; Grid reads its data only if the    *)
(* store has the statement.                                                *)
(***************************************************************************)
AfterOpenQuery ==
    [ping |-> {"metadata"}, metadata |-> {"zoom", "prepareTile"},
     zoom |-> {"prepareTile"}, prepareTile |-> {"hasGrids"},
     hasGrids |-> {"prepareGrid", "end"}, prepareGrid |-> {"hasGridData"},
     hasGridData |-> {"prepareGridData", "end"}, prepareGridData |-> {"end"}]

AfterGrid == IF "gridData" \in prepared THEN {"gridData"} ELSE {"end"}

After(q) ==
    IF q \in OpenQueries THEN AfterOpenQuery[q] ELSE IF q = "grid" THEN AfterGrid ELSE {"end"}

Prepares(q) ==
    CASE q = "prepareTile" -> {"tile"}
      [] q = "prepareGrid" -> {"grid"}
      [] q = "prepareGridData" -> {"gridData"}
      [] OTHER -> {}

Proceed(p, next) ==
    /\ query' = IF next = "end" THEN query ELSE [query EXCEPT ![p] = next]
    /\ mode' = [mode EXCEPT ![p] = IF next = "end" THEN "idle" ELSE "waiting"]
    /\ store' = IF p = Opener /\ next = "end" THEN "open" ELSE store
    /\ prepared' = prepared \cup Prepares(query[p])
    /\ UNCHANGED limit

\* Variant: the row of the grid stays open while its data are read.
QueryEndsKeepingGrid(p) ==
    /\ mode[p] = "reading"
    /\ \E next \in After(query[p]) :
        /\ IF next = "gridData" THEN UNCHANGED <<used, held>> ELSE TakeBack(p)
        /\ Proceed(p, next)

\* Variant: the metadata rows are left with a break, so only the deferred
\* Close of loadMetadata lets their connection go.
QueryEndsKeepingRows(p) ==
    /\ mode[p] = "reading"
    /\ \E next \in After(query[p]) :
        /\ IF next = "zoom" THEN UNCHANGED <<used, held>> ELSE TakeBack(p)
        /\ Proceed(p, next)

\* The row is scanned, or the rows are read to their end, which closes them.
QueryEnds(p) ==
    /\ mode[p] = "reading"
    /\ TakeBack(p)
    /\ \E next \in After(query[p]) : Proceed(p, next)

(***************************************************************************)
(* Failure: no row, a query that fails, invalid metadata, all of which     *)
(* come after the connection is back, or a value in the rows of metadata   *)
(* or of grid data that leaves the loop with the connection in hand and    *)
(* the Close deferred.  Open then closes the database.                     *)
(***************************************************************************)
HasRows(q) == q \in {"metadata", "gridData"}

Fail(p) ==
    /\ mode' = [mode EXCEPT ![p] = "idle"]
    /\ store' = IF p = Opener THEN "failed" ELSE store
    /\ prepared' = IF p = Opener THEN {} ELSE prepared
    /\ UNCHANGED <<limit, query>>

QueryFails(p) ==
    /\ mode[p] = "reading"
    /\ TakeBack(p)
    /\ Fail(p)

BadRow(p) ==
    /\ mode[p] = "reading"
    /\ HasRows(query[p])
    /\ mode' = [mode EXCEPT ![p] = "leaving"]
    /\ UNCHANGED <<limit, used, held, query, prepared, store>>

\* Variant: the rows are closed on the regular path only.
CloseRowsNever(p) ==
    /\ mode[p] = "leaving"
    /\ Fail(p)
    /\ UNCHANGED <<used, held>>

CloseRows(p) ==
    /\ mode[p] = "leaving"
    /\ TakeBack(p)
    /\ Fail(p)

\* The context ends while a query waits for a connection.
GiveUp(p) ==
    /\ mode[p] = "waiting"
    /\ Fail(p)
    /\ UNCHANGED <<used, held>>

\* Tile or Grid with a valid address, in a store that has the statement.
Lookup(p, q) ==
    /\ store = "open"
    /\ mode[p] = "idle"
    /\ q \in prepared
    /\ query' = [query EXCEPT ![p] = q]
    /\ mode' = [mode EXCEPT ![p] = "waiting"]
    /\ UNCHANGED <<limit, used, held, prepared, store>>

PoolNext ==
    \/ \E p \in Actors :
        Connect(p) \/ QueryEnds(p) \/ QueryFails(p) \/ BadRow(p) \/ CloseRows(p) \/ GiveUp(p)
    \/ \E p \in Readers, q \in {"tile", "grid"} : Lookup(p, q)

(***************************************************************************)
(* SQLite answers or fails, and a connection that is free is used.  No     *)
(* context need ever end: the one of Open has no deadline at all.          *)
(***************************************************************************)
PoolFairness ==
    \A p \in Actors :
        /\ WF_poolVars(Connect(p))
        /\ WF_poolVars(QueryEnds(p) \/ QueryFails(p))
        /\ WF_poolVars(CloseRows(p))

PoolSpec == PoolInit /\ [][PoolNext]_poolVars

PoolFairSpec == PoolSpec /\ PoolFairness

-----------------------------------------------------------------------------
\* Grid runs a second query, and so does loadMetadata, on a pool that may have
\* one connection: whoever waits for a connection has none, or readers would
\* wait for each other with every connection in hand (store.go 213, 222, 296).
NoHoldAndWait ==
    \A p \in Actors : mode[p] = "waiting" => held[p] = 0

\* Every path out of a query gives its connection back, the returns in the
\* middle of the loops over rows too: a call that is over has none, and those
\* out of the pool, which are never more than its limit, are in known hands.
NothingLeaked ==
    /\ used = Cardinality({p \in Actors : held[p] > 0})
    /\ used <= limit
    /\ \A p \in Actors : mode[p] = "idle" => held[p] = 0

\* No query depends on a timeout: a connection in hand comes back, and Open,
\* whose context has no deadline, ends although it opens rows and asks for
\* another connection afterwards (store.go 257, 296).
PoolMakesProgress ==
    /\ \A p \in Actors : held[p] > 0 ~> held[p] = 0
    /\ store = "opening" ~> store # "opening"
=============================================================================
