------------------------------ MODULE Lifecycle ------------------------------
(***************************************************************************)
(* The life of the process: run of cmd/tileserver/main.go from the         *)
(* registration of the signals on, server.New, mbtiles.Open and the two    *)
(* Close functions, with handlers that read the stores meanwhile.          *)
(*                                                                         *)
(* http.Server is external and modelled by the contract run relies on:     *)
(* Serve returns an error, or ErrServerClosed once Shutdown has begun;     *)
(* Shutdown returns nil when no handler is left, or an error at any time;  *)
(* neither Shutdown nor Close ends a handler.                              *)
(***************************************************************************)
EXTENDS Integers

CONSTANTS
    SourceCount,    \* len(ids) in New; sources are numbered in the sorted order
    Requests        \* the requests that can be under way at the same time

Sources == 1 .. SourceCount

ASSUME LifecycleAssumption == SourceCount \in Nat \ {0}

VARIABLES
    phase,          \* where run is
    registered,     \* Server.sources
    handles,        \* the stores whose sql.DB is open to queries
    serve,          \* the goroutine of Serve: "failed" and "stopped" once it has sent its error
    connected,      \* connections exist that can bring requests
    signalled,      \* signalContext is done
    doing,          \* what the handler of each request is doing
    source,         \* the store it reads
    result          \* what run returns, once decided

vars == <<phase, registered, handles, serve, connected, signalled, doing, source, result>>
storeVars == <<registered, handles>>
httpVars == <<connected, doing, source>>

TypeOK ==
    /\ phase \in {"starting", "listening", "serving", "draining", "awaiting", "closing", "exited"}
    /\ registered \subseteq Sources
    /\ handles \subseteq Sources
    /\ serve \in {"none", "running", "failed", "stopped"}
    /\ connected \in BOOLEAN
    /\ signalled \in BOOLEAN
    /\ doing \in [Requests -> {"nothing", "handling", "reading"}]
    /\ source \in [Requests -> Sources]
    /\ result \in {"none", "ok", "error"}

Idle == [p \in Requests |-> "nothing"]

Init ==
    /\ phase = "starting"
    /\ registered = {}
    /\ handles = {}
    /\ serve = "none"
    /\ connected = FALSE
    /\ signalled = FALSE
    /\ doing = Idle
    /\ source = [p \in Requests |-> 1]
    /\ result = "none"

Goto(from, to) == phase = from /\ phase' = to

\* run or New returns r, after Server.Close.
ReturnFrom(from, r) == Goto(from, "closing") /\ result' = r

(***************************************************************************)
(* New opens the sources in order.  A store has its handle first and is    *)
(* registered when its metadata and its statements are ready; Open closes  *)
(* the handle if they cannot be, at any step, and New then closes what it  *)
(* has registered.                                                         *)
(***************************************************************************)
Opening(s) == s \in Sources \ registered /\ \A t \in Sources \ registered : s <= t

OpenHandle(s) ==
    /\ phase = "starting"
    /\ Opening(s) /\ s \notin handles
    /\ handles' = handles \cup {s}
    /\ UNCHANGED <<phase, registered, serve, signalled, httpVars, result>>

Register(s) ==
    /\ phase = "starting"
    /\ Opening(s) /\ s \in handles
    /\ registered' = registered \cup {s}
    /\ UNCHANGED <<phase, handles, serve, signalled, httpVars, result>>

\* Variant: Open returns its error without closing the handle.
OpenFailsUnclosed(s) ==
    /\ Opening(s)
    /\ ReturnFrom("starting", "error")
    /\ UNCHANGED <<storeVars, serve, signalled, httpVars>>

OpenFails(s) ==
    /\ Opening(s)
    /\ ReturnFrom("starting", "error")
    /\ handles' = handles \ {s}
    /\ UNCHANGED <<registered, serve, signalled, httpVars>>

\* With the sources open, the documents of the server are encoded.
EncodeFails ==
    /\ registered = Sources
    /\ ReturnFrom("starting", "error")
    /\ UNCHANGED <<storeVars, serve, signalled, httpVars>>

Started ==
    /\ registered = Sources
    /\ Goto("starting", "listening")
    /\ UNCHANGED <<storeVars, serve, signalled, httpVars, result>>

(***************************************************************************)
(* run from Listen to its last return.  When the signal has come and Serve *)
(* has failed, the select may take either.                                 *)
(***************************************************************************)
ListenFails ==
    /\ ReturnFrom("listening", "error")
    /\ UNCHANGED <<storeVars, serve, signalled, httpVars>>

Listen ==
    /\ Goto("listening", "serving")
    /\ serve' = "running"
    /\ connected' = TRUE
    /\ UNCHANGED <<storeVars, signalled, doing, source, result>>

\* Variant: ErrServerClosed is returned like any other error.
ServedRaw == serve

Served == IF serve = "failed" THEN "error" ELSE "ok"

TakeServeError ==
    /\ serve # "running"
    /\ ReturnFrom("serving", Served)
    /\ UNCHANGED <<storeVars, serve, signalled, httpVars>>

TakeSignal ==
    /\ signalled
    /\ Goto("serving", "draining")
    /\ UNCHANGED <<storeVars, serve, signalled, httpVars, result>>

\* Variant: Shutdown is not waited for.
DrainedAtOnce ==
    /\ Goto("draining", "awaiting")
    /\ connected' = FALSE
    /\ UNCHANGED <<storeVars, serve, signalled, doing, source, result>>

\* Shutdown returns nil.
Drained ==
    /\ doing = Idle
    /\ Goto("draining", "awaiting")
    /\ connected' = FALSE
    /\ UNCHANGED <<storeVars, serve, signalled, doing, source, result>>

\* Variant: Shutdown is called without a timeout.
DrainNeverFails == FALSE /\ UNCHANGED vars

\* Variant: the error of Shutdown is not returned.
DrainFailsSilently ==
    /\ ReturnFrom("draining", "ok")
    /\ connected' = FALSE
    /\ UNCHANGED <<storeVars, serve, signalled, doing, source>>

\* Shutdown returns an error, that of its timeout or of the listener, and
\* Close closes the connections; handlers go on.
DrainFails ==
    /\ ReturnFrom("draining", "error")
    /\ connected' = FALSE
    /\ UNCHANGED <<storeVars, serve, signalled, doing, source>>

\* Variant: the error of Serve is not looked at after Shutdown.
AwaitIgnoring ==
    /\ serve # "running"
    /\ ReturnFrom("awaiting", "ok")
    /\ UNCHANGED <<storeVars, serve, signalled, httpVars>>

Await ==
    /\ serve # "running"
    /\ ReturnFrom("awaiting", Served)
    /\ UNCHANGED <<storeVars, serve, signalled, httpVars>>

(***************************************************************************)
(* Server.Close closes the registered stores in any order; an error of a   *)
(* Close is joined to the result.  The process ends with its handlers.     *)
(***************************************************************************)
CloseStore(s) ==
    /\ phase = "closing"
    /\ s \in registered \cap handles
    /\ handles' = handles \ {s}
    /\ result' \in {result, "error"}
    /\ UNCHANGED <<phase, registered, serve, signalled, httpVars>>

Exit ==
    /\ registered \cap handles = {}
    /\ Goto("closing", "exited")
    /\ connected' = FALSE
    /\ doing' = Idle
    /\ UNCHANGED <<storeVars, serve, signalled, source, result>>

Exited == phase = "exited" /\ UNCHANGED vars

(***************************************************************************)
(* The goroutine of Serve, the signal, and the handlers.                   *)
(***************************************************************************)
ServeFails ==
    /\ phase = "serving"
    /\ serve = "running"
    /\ serve' = "failed"
    /\ UNCHANGED <<phase, storeVars, signalled, httpVars, result>>

ServeStops ==
    /\ phase \in {"draining", "awaiting", "closing"}
    /\ serve = "running"
    /\ serve' = "stopped"
    /\ UNCHANGED <<phase, storeVars, signalled, httpVars, result>>

Signal ==
    /\ phase # "exited"
    /\ ~signalled
    /\ signalled' = TRUE
    /\ UNCHANGED <<phase, storeVars, serve, httpVars, result>>

\* A request comes on a new connection or on one kept alive; the latter go on
\* after Serve has failed and until Shutdown has seen them idle.
Arrive(p, s) ==
    /\ connected
    /\ doing[p] = "nothing"
    /\ s \in registered
    /\ doing' = [doing EXCEPT ![p] = "handling"]
    /\ source' = [source EXCEPT ![p] = s]
    /\ UNCHANGED <<phase, storeVars, serve, connected, signalled, result>>

\* A query of the handler; on a closed store it fails at once and the handler
\* goes on with the error.
Read(p) ==
    /\ doing[p] = "handling"
    /\ source[p] \in handles
    /\ doing' = [doing EXCEPT ![p] = "reading"]
    /\ UNCHANGED <<phase, storeVars, serve, connected, signalled, source, result>>

ReadEnds(p) ==
    /\ doing[p] = "reading"
    /\ doing' = [doing EXCEPT ![p] = "handling"]
    /\ UNCHANGED <<phase, storeVars, serve, connected, signalled, source, result>>

Answer(p) ==
    /\ doing[p] = "handling"
    /\ doing' = [doing EXCEPT ![p] = "nothing"]
    /\ UNCHANGED <<phase, storeVars, serve, connected, signalled, source, result>>

\* What the goroutine of run does without waiting for a query.
Run ==
    \/ \E s \in Sources : OpenHandle(s) \/ Register(s) \/ OpenFails(s)
    \/ EncodeFails
    \/ Started
    \/ ListenFails
    \/ Listen
    \/ TakeServeError
    \/ TakeSignal
    \/ Drained
    \/ DrainFails
    \/ Await

Close == Exit \/ \E s \in Sources : CloseStore(s)

Handle(p) == (\E s \in Sources : Arrive(p, s)) \/ Read(p) \/ ReadEnds(p) \/ Answer(p)

Next ==
    \/ Run
    \/ Close
    \/ ServeFails
    \/ ServeStops
    \/ Signal
    \/ \E p \in Requests : Handle(p)
    \/ Exited

(***************************************************************************)
(* run is scheduled, the shutdown timer fires and a query ends: that of a  *)
(* load at its timeout.  Handlers may never answer.  Close of a statement  *)
(* can wait for the queries under way on it, but new ones do not overtake  *)
(* it, so run goes on once the queries of the stores closed are over.      *)
(***************************************************************************)
NoLateQuery == \A p \in Requests : doing[p] = "reading" => source[p] \in handles

Fairness ==
    /\ WF_vars(Run)
    /\ WF_vars(NoLateQuery /\ Close)
    /\ WF_vars(ServeStops)
    /\ \A p \in Requests : WF_vars(ReadEnds(p))

Spec == Init /\ [][Next]_vars

FairSpec == Spec /\ Fairness

-----------------------------------------------------------------------------
\* A handler has all stores at its disposal, from the first request that can
\* arrive to the last, unless run has failed and says so: stores are only
\* closed under a request after a failed Serve or an expired timeout
\* (main.go 96-102, 122-136; server.go 64-77).
HandlersHaveTheirStores ==
    \A p \in Requests :
        doing[p] # "nothing" => (registered = Sources /\ handles = Sources) \/ result = "error"

\* If run returns no error, every request it let in has been answered by then
\* and none can come any more: a graceful end drops nothing
\* (main.go 131-140).
CleanEndHasServedAll == result = "ok" => doing = Idle /\ ~connected

\* No store is left open, nor the handle of one that failed to open, by a
\* failed start, a failed listen, or any later end (server.go 70-77, 169-179;
\* store.go 75-121; main.go 100-102).
NothingLeftOpen == phase = "exited" => handles = {}

\* An error of Serve is not lost when the signal comes at the same time: the
\* process ends with an error (main.go 122-140).
ServeFailureIsReported == (serve = "failed" /\ phase = "exited") => result = "error"

\* After a signal the process ends, whatever its handlers do: even one that
\* never returns, or that goes on reading while its store is being closed.
SignalEndsProcess == signalled ~> phase = "exited"
=============================================================================
