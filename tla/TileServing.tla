----------------------------- MODULE TileServing -----------------------------
(***************************************************************************)
(* Tile requests from arrival to response: the request limiter             *)
(* (concurrencyMiddleware), panic recovery (recoverMiddleware) and         *)
(* serveTile or serveGrid with cachedTile and cachedResponse, on top of    *)
(* the coalescing Group (Flight) and of the cache (CachePromise).          *)
(*                                                                         *)
(* A key stands for a source, a tile and an encoding variant: Tile[k] is   *)
(* what loading it yields while the file does not change, NotFound for a   *)
(* tile the source lacks.  The requests are those for a tile of an open    *)
(* source within its zoom range; metrics are switched off.                 *)
(*                                                                         *)
(* Two program counters describe a request: at is its place in the server, *)
(* stage (of Flight) its place in DoContext.                               *)
(***************************************************************************)
EXTENDS Integers, FiniteSets

CONSTANTS
    Requests, Keys, Values, NotFound, Absent, Tile, Faulty,
    CallIds, NoCall,
    MaxConcurrent,  \* cap(Server.limit)
    LoadError,      \* an error of a load: a failed read or an expired timeout
    Unset, PanicError, ContextError, Panicking,
    Pending, NotAcceptable, Failed, Busy, Dropped

Statuses == {Pending, NotAcceptable, Failed, Busy, Dropped}

ASSUME TileServingAssumption ==
    /\ IsFiniteSet(Requests)
    /\ NotFound \in Values /\ Absent \notin Values
    /\ Tile \in [Keys -> Values]
    /\ Faulty \subseteq Keys
    /\ MaxConcurrent \in Nat \ {0}
    /\ NoCall \notin CallIds
    /\ Statuses \cap Values = {}
    /\ Pending \notin {NotAcceptable, Failed, Busy, Dropped}
    /\ Failed \notin {NotAcceptable, Busy, Dropped}
    /\ {LoadError, Unset, PanicError, ContextError, Panicking} \cap Values = {}
    /\ LoadError \notin {Unset, PanicError, ContextError, Panicking}
    /\ Unset \notin {PanicError, ContextError, Panicking}
    /\ PanicError \notin {ContextError, Panicking}
    /\ ContextError # Panicking

VARIABLES
    at,         \* where each request is in the server
    response,   \* what its client has been sent
    slots,      \* len(Server.limit)
    cache,      \* what Server.cache holds
    calls, call, stage, want, ctxDone, ref, recovered, answer   \* of Flight

LoadResults == [k \in Keys |-> {Tile[k]} \cup (IF k \in Faulty THEN {LoadError} ELSE {})]

F == INSTANCE Flight WITH Callers <- Requests, FnResults <- LoadResults, Panics <- Faulty

C == INSTANCE CachePromise WITH stored <- cache

serverVars == <<at, response, slots>>
flightVars == <<calls, call, stage, want, ctxDone, ref, recovered, answer>>
vars == <<serverVars, cache, flightVars>>

Places == {"idle", "lookup", "calling", "peeking", "loading",
           "coalescing", "settling", "releasing"}

TypeOK ==
    /\ F!TypeOK
    /\ C!TypeOK
    /\ at \in [Requests -> Places]
    /\ response \in [Requests -> Values \cup Statuses]
    /\ slots \in 0 .. MaxConcurrent

Init ==
    /\ F!Init
    /\ C!Init
    /\ at = [p \in Requests |-> "idle"]
    /\ response = [p \in Requests |-> Dropped]
    /\ slots = 0

Goto(p, from, to) == at[p] = from /\ at' = [at EXCEPT ![p] = to]

Respond(p, r) == response' = [response EXCEPT ![p] = r]

(***************************************************************************)
(* Arrival.  The limiter takes a slot without waiting, or turns the        *)
(* request away.                                                           *)
(***************************************************************************)
\* Variant: the limiter admits everyone.
AcceptAll(p, k) ==
    /\ slots' = slots + 1
    /\ Goto(p, "idle", "lookup")
    /\ Respond(p, Pending)
    /\ F!Prepare(p, k)
    /\ UNCHANGED cache

Accept(p, k) ==
    /\ slots < MaxConcurrent
    /\ slots' = slots + 1
    /\ Goto(p, "idle", "lookup")
    /\ Respond(p, Pending)
    /\ F!Prepare(p, k)
    /\ UNCHANGED cache

TurnAway(p, k) ==
    /\ slots = MaxConcurrent
    /\ Goto(p, "idle", "idle")
    /\ Respond(p, Busy)
    /\ F!Prepare(p, k)
    /\ UNCHANGED <<slots, cache>>

Arrive(p, k) == Accept(p, k) \/ TurnAway(p, k)

\* The client closes its connection and net/http ends the request's context.
\* Once it has been answered, its going makes no difference.
Disconnect(p) ==
    /\ response[p] = Pending
    /\ F!ContextEnds(p)
    /\ UNCHANGED <<serverVars, cache>>

(***************************************************************************)
(* cachedResponse: the first lookup, and the call of DoContext.            *)
(***************************************************************************)
\* The response made of a value: not found, or the tile unless the client
\* accepts no encoding it is available in.
ResponsesOf(v) == IF v = NotFound THEN {NotFound} ELSE {v, NotAcceptable}

Hit(p) ==
    /\ C!Has(want[p])
    /\ Goto(p, "lookup", "releasing")
    /\ \E r \in ResponsesOf(cache[want[p]]) : Respond(p, r)
    /\ UNCHANGED <<slots, cache, flightVars>>

Miss(p) ==
    /\ ~C!Has(want[p])
    /\ Goto(p, "lookup", "calling")
    /\ UNCHANGED <<response, slots, cache, flightVars>>

Call(p) ==
    /\ \/ F!Share(p) /\ Goto(p, "calling", "coalescing")
       \/ F!Lead(p) /\ Goto(p, "calling", "peeking")
    /\ UNCHANGED <<response, slots, cache>>

(***************************************************************************)
(* The function given to DoContext.  Its load runs under a context that    *)
(* keeps the leader's values but not its cancellation and ends after the   *)
(* write timeout, so only the key decides whether a load can fail.         *)
(***************************************************************************)
PeekHit(p) ==
    /\ C!Has(want[p])
    /\ Goto(p, "peeking", "coalescing")
    /\ F!FnReturns(p, cache[want[p]])
    /\ UNCHANGED <<response, slots, cache>>

\* Variant: no second lookup before the load.
PeekSkipped(p) ==
    /\ Goto(p, "peeking", "loading")
    /\ UNCHANGED <<response, slots, cache, flightVars>>

PeekMiss(p) ==
    /\ ~C!Has(want[p])
    /\ Goto(p, "peeking", "loading")
    /\ UNCHANGED <<response, slots, cache, flightVars>>

\* Variant: the load inherits the cancellation of the leader's client.
LoadCanBeCancelled(p) == want[p] \in Faulty \/ ctxDone[p]

LoadCanFail(p) == want[p] \in Faulty

\* What is loaded, a missing tile included, is added to the cache.
LoadSucceeds(p) ==
    /\ Goto(p, "loading", "coalescing")
    /\ C!Add(want[p], Tile[want[p]])
    /\ F!FnReturns(p, Tile[want[p]])
    /\ UNCHANGED <<response, slots>>

\* Variant: any error of the load is taken for a missing tile, and cached.
LoadFailsAsNotFound(p) ==
    /\ LoadCanFail(p)
    /\ Goto(p, "loading", "coalescing")
    /\ C!Add(want[p], NotFound)
    /\ F!FnReturns(p, NotFound)
    /\ UNCHANGED <<response, slots>>

LoadFails(p) ==
    /\ LoadCanFail(p)
    /\ Goto(p, "loading", "coalescing")
    /\ F!FnReturns(p, LoadError)
    /\ UNCHANGED <<response, slots, cache>>

LoadPanics(p) ==
    /\ Goto(p, "loading", "coalescing")
    /\ F!FnPanics(p)
    /\ UNCHANGED <<response, slots, cache>>

(***************************************************************************)
(* The rest of DoContext.                                                  *)
(***************************************************************************)
Publish(p) ==
    /\ F!CloseDone(p) \/ F!DeleteCall(p)
    /\ UNCHANGED <<serverVars, cache>>

ComeBack(p) ==
    /\ F!Leave(p) \/ F!Return(p)
    /\ Goto(p, "coalescing", "settling")
    /\ UNCHANGED <<response, slots, cache>>

(***************************************************************************)
(* serveTile after cachedTile, or recoverMiddleware after a panic.  An     *)
(* error is dropped without a response if the client has gone by now.      *)
(***************************************************************************)
IsError(a) == a \in {LoadError, PanicError, ContextError}

Deliver(p) ==
    /\ answer[p] \in Values
    /\ \E r \in ResponsesOf(answer[p]) : Respond(p, r)

ReportFailure(p) == IsError(answer[p]) /\ ~ctxDone[p] /\ Respond(p, Failed)

\* Variant: an error is dropped without asking whose client has gone.
DropAny(p) == IsError(answer[p]) /\ Respond(p, Dropped)

Drop(p) == IsError(answer[p]) /\ ctxDone[p] /\ Respond(p, Dropped)

Recover(p) == answer[p] = Panicking /\ Respond(p, Failed)

Settle(p) ==
    /\ Deliver(p) \/ ReportFailure(p) \/ Drop(p) \/ Recover(p)
    /\ Goto(p, "settling", "releasing")
    /\ UNCHANGED <<slots, cache, flightVars>>

\* Variant: the receive is not deferred, so a panic skips it.
ReleaseUnlessPanicked(p) ==
    /\ Goto(p, "releasing", "idle")
    /\ slots' = IF answer[p] = Panicking THEN slots ELSE slots - 1
    /\ F!Prepare(p, want[p])
    /\ UNCHANGED <<response, cache>>

\* The limiter's deferred receive.  The request's context and the handler's
\* variables are gone with it.
Release(p) ==
    /\ Goto(p, "releasing", "idle")
    /\ slots' = slots - 1
    /\ F!Prepare(p, want[p])
    /\ UNCHANGED <<response, cache>>

LoadEnds(p) == LoadSucceeds(p) \/ LoadFails(p) \/ LoadPanics(p)

\* What the server does by itself for a request it has accepted.
Serve(p) ==
    \/ Hit(p)
    \/ Miss(p)
    \/ Call(p)
    \/ PeekHit(p)
    \/ PeekMiss(p)
    \/ LoadEnds(p)
    \/ Publish(p)
    \/ ComeBack(p)
    \/ Settle(p)
    \/ Release(p)

Next ==
    \E p \in Requests :
        \/ \E k \in Keys : Arrive(p, k)
        \/ Disconnect(p)
        \/ Serve(p)

(***************************************************************************)
(* A goroutine that can run is run, and a load ends: its context expires   *)
(* after the write timeout.  Clients may never come and never go.          *)
(***************************************************************************)
Fairness == \A p \in Requests : WF_vars(Serve(p))

Spec == Init /\ [][Next]_vars

FairSpec == Spec /\ Fairness

-----------------------------------------------------------------------------
Loading(p) == at[p] = "loading"

\* The point of the second lookup and of coalescing together: a tile is read
\* from the database by one request at a time, and only while the cache lacks
\* it (tiles.go 142-149).  Two requests that both missed, one of which stores
\* the tile before the other calls DoContext, are the hard case.
LoadsOnlyWhatIsMissing ==
    \A p \in Requests : Loading(p) =>
        /\ cache[want[p]] = Absent
        /\ \A q \in Requests : (Loading(q) /\ want[q] = want[p]) => q = p

\* Only a completed load is cached, under its own key: never an error, a
\* timeout or the leftovers of a panic (tiles.go 152-158).
CacheHoldsTheTruth == \A k \in Keys : cache[k] \in {Absent, Tile[k]}

\* No request fails because of another client: with loads of the key itself
\* in order, no disconnect, panic or timeout elsewhere answers it 500
\* (tiles.go 149, 64-73; flight.go 26-34).
FailureHasItsOwnCause ==
    \A p \in Requests : response[p] = Failed => want[p] \in Faulty

\* The slots taken are those of the requests being served: none leaks when a
\* load panics or a client goes, none is given back twice (middleware.go 37-43).
Active == {p \in Requests : at[p] # "idle"}

SlotsMatchRequests == slots = Cardinality(Active)

Promise == INSTANCE TilePromise
             WITH key <- want, gone <- [p \in Requests |-> response[p] = Pending /\ ctxDone[p]]

\* The server keeps its promise to its clients.
PromiseKept == Promise!Spec

\* Every accepted request ends and gives its slot back, so the server is
\* never busy for good.
EveryRequestEnds == \A p \in Requests : at[p] # "idle" ~> at[p] = "idle"
=============================================================================
