--------------------------- MODULE LifecycleProofs ---------------------------
(***************************************************************************)
(* Theorems about Lifecycle, for any number of sources and any requests,   *)
(* and about the connections of one of its stores (StorePool), for any     *)
(* readers and any size of the pool.                                       *)
(***************************************************************************)
EXTENDS Lifecycle, StorePool, FiniteSetTheorems, TLAPS

Before == {"starting", "listening", "serving", "draining", "awaiting"}
Up == {"serving", "draining", "awaiting"}

\* While New runs, at most the source it is opening has a handle without
\* being registered; it is closed before run closes the registered ones.
HandlesAreOwned ==
    /\ phase = "starting" => registered \subseteq handles
    /\ phase = "starting" => \A s \in handles \ registered : Opening(s)
    /\ phase # "starting" => handles \subseteq registered
    /\ phase = "exited" => registered \cap handles = {}

\* From Listen to the first Close the server has all its stores.
StoresAreThere ==
    phase \in Up \cup {"listening"} => registered = Sources /\ handles = Sources

\* Requests only come and run in these phases, or after run has failed.
RequestsInTime ==
    /\ phase \in {"starting", "listening", "awaiting", "exited"} => ~connected /\ doing = Idle
    /\ result = "ok" => ~connected /\ doing = Idle

ResultInTime ==
    /\ result = "none" <=> phase \in Before
    /\ (serve = "failed" /\ phase \notin Before) => result = "error"

\* Serve does not end by itself with ErrServerClosed.
ServeInTime == phase = "serving" => serve \in {"running", "failed"}

IInv ==
    /\ TypeOK
    /\ HandlesAreOwned
    /\ StoresAreThere
    /\ RequestsInTime
    /\ ResultInTime
    /\ ServeInTime

\* The invariant holds when run begins.
LEMMA InitIInv == Init => IInv
<1> SUFFICES ASSUME Init PROVE IInv
  OBVIOUS
<1> USE LifecycleAssumption DEF LifecycleAssumption, Init
<1>1. TypeOK
  <2>1. 1 \in Sources
    BY DEF Sources
  <2>2. QED
    BY <2>1 DEF TypeOK, Idle
<1>2. HandlesAreOwned /\ StoresAreThere /\ RequestsInTime /\ ResultInTime /\ ServeInTime
  BY DEF HandlesAreOwned, StoresAreThere, RequestsInTime, ResultInTime, ServeInTime, Before, Up, Opening
<1>3. QED
  BY <1>1, <1>2 DEF IInv

\* What New does, up to its return, preserves the invariant.
LEMMA StartStep ==
  ASSUME IInv, NEW s \in Sources,
         OpenHandle(s) \/ Register(s) \/ OpenFails(s) \/ EncodeFails \/ Started
  PROVE  IInv'
<1> USE LifecycleAssumption DEF LifecycleAssumption, IInv, TypeOK, HandlesAreOwned, StoresAreThere, RequestsInTime,
        ResultInTime, ServeInTime, Before, Up, httpVars, storeVars, Goto, ReturnFrom
<1>1. CASE OpenHandle(s)
  BY <1>1 DEF OpenHandle, Opening, Idle
<1>2. CASE Register(s)
  <2>1. \A t \in handles \ registered : t = s
    BY <1>2 DEF Register, Opening, Sources
  <2>2. QED
    BY <1>2, <2>1 DEF Register, Opening, Idle
<1>3. CASE OpenFails(s)
  <2>1. \A t \in handles \ registered : t = s
    BY <1>3 DEF OpenFails, Opening, Sources
  <2>2. QED
    BY <1>3, <2>1 DEF OpenFails, Idle
<1>4. CASE EncodeFails
  BY <1>4 DEF EncodeFails, Idle
<1>5. CASE Started
  <2>1. handles = Sources
    <3>1. registered = Sources /\ registered \subseteq handles /\ handles \subseteq Sources
      BY <1>5 DEF Started
    <3>2. QED
      BY <3>1
  <2>2. QED
    BY <1>5, <2>1 DEF Started, Idle
<1>6. QED
  BY <1>1, <1>2, <1>3, <1>4, <1>5

\* So do Listen and what follows it, up to run's return.
LEMMA RunStep ==
  ASSUME IInv,
         \/ ListenFails \/ Listen \/ TakeServeError \/ TakeSignal
         \/ Drained \/ DrainFails \/ Await
  PROVE  IInv'
<1> USE LifecycleAssumption DEF LifecycleAssumption, IInv, TypeOK, HandlesAreOwned, StoresAreThere, RequestsInTime,
        ResultInTime, ServeInTime, Before, Up, httpVars, storeVars, Goto, ReturnFrom, Served
<1>1. CASE ListenFails
  BY <1>1 DEF ListenFails, Idle
<1>2. CASE Listen
  BY <1>2 DEF Listen, Idle
<1>3. CASE TakeServeError
  BY <1>3 DEF TakeServeError
<1>4. CASE TakeSignal
  BY <1>4 DEF TakeSignal
<1>5. CASE Drained
  BY <1>5 DEF Drained, Idle
<1>6. CASE DrainFails
  BY <1>6 DEF DrainFails
<1>7. CASE Await
  BY <1>7 DEF Await, Idle
<1>8. QED
  BY <1>1, <1>2, <1>3, <1>4, <1>5, <1>6, <1>7

\* So do Close and the end of the process.
LEMMA CloseStep ==
  ASSUME IInv, Close
  PROVE  IInv'
<1> USE DEF IInv, TypeOK, HandlesAreOwned, StoresAreThere, RequestsInTime,
        ResultInTime, ServeInTime, Before, Up, httpVars, storeVars, Goto
<1>1. CASE Exit
  BY <1>1 DEF Exit, Idle
<1>2. ASSUME NEW s \in Sources, CloseStore(s) PROVE IInv'
  BY <1>2 DEF CloseStore
<1>3. QED
  BY <1>1, <1>2 DEF Close

\* So do the goroutine of Serve, the signal and the handlers.
LEMMA OutsideStep ==
  ASSUME IInv, ServeFails \/ ServeStops \/ Signal \/ \E p \in Requests : Handle(p)
  PROVE  IInv'
<1> USE DEF IInv, TypeOK, HandlesAreOwned, StoresAreThere, RequestsInTime,
        ResultInTime, ServeInTime, Before, Up, httpVars, storeVars
<1>1. CASE ServeFails
  BY <1>1 DEF ServeFails
<1>2. CASE ServeStops
  BY <1>2 DEF ServeStops
<1>3. CASE Signal
  <2>1. UNCHANGED <<phase, storeVars, serve, httpVars, result>> /\ signalled' \in BOOLEAN
    BY <1>3 DEF Signal
  <2>2. TypeOK'
    BY <2>1
  <2>3. HandlesAreOwned' /\ StoresAreThere'
    BY <2>1 DEF Opening
  <2>4. RequestsInTime' /\ ResultInTime' /\ ServeInTime'
    BY <2>1
  <2>5. QED
    BY <2>2, <2>3, <2>4
<1>4. ASSUME NEW p \in Requests, Handle(p) PROVE IInv'
  <2>1. ASSUME NEW s \in Sources, Arrive(p, s) PROVE IInv'
    <3>1. connected
      BY <2>1 DEF Arrive
    <3>2. phase \in Up \cup {"closing"} /\ phase # "awaiting" /\ result # "ok"
      BY <3>1
    <3>3. UNCHANGED <<phase, storeVars, serve, connected, signalled, result>>
          /\ doing' \in [Requests -> {"nothing", "handling", "reading"}]
          /\ source' \in [Requests -> Sources]
      BY <2>1 DEF Arrive
    <3>4. QED
      BY <3>2, <3>3
  <2>2. ASSUME Read(p) \/ ReadEnds(p) \/ Answer(p) PROVE IInv'
    <3>1. doing # Idle
      BY <2>2 DEF Read, ReadEnds, Answer, Idle
    <3>2. UNCHANGED <<phase, storeVars, serve, connected, signalled, source, result>>
          /\ doing' \in [Requests -> {"nothing", "handling", "reading"}]
      BY <2>2 DEF Read, ReadEnds, Answer
    <3>3. QED
      BY <3>1, <3>2
  <2>3. QED
    BY <1>4, <2>1, <2>2 DEF Handle
<1>5. QED
  BY <1>1, <1>2, <1>3, <1>4

\* The strengthened invariant of the process's life is preserved by every
\* step, with any number of sources and requests.
THEOREM Inductive == IInv /\ [Next]_vars => IInv'
<1> SUFFICES ASSUME IInv, [Next]_vars PROVE IInv'
  OBVIOUS
<1>1. CASE Run
  <2>1. PICK s \in Sources : TRUE
    BY LifecycleAssumption DEF LifecycleAssumption, Sources
  <2>2. QED
    BY <1>1, <2>1, StartStep, RunStep DEF Run
<1>2. CASE Exited \/ UNCHANGED vars
  BY <1>2 DEF Exited, vars, IInv, TypeOK, HandlesAreOwned, StoresAreThere, RequestsInTime,
     ResultInTime, ServeInTime, Opening, Idle
<1>3. CASE Close
  BY <1>3, CloseStep
<1>4. CASE ServeFails \/ ServeStops \/ Signal \/ \E p \in Requests : Handle(p)
  BY <1>4, OutsideStep
<1>5. QED
  BY <1>1, <1>2, <1>3, <1>4 DEF Next

\* The invariant holds throughout every behaviour.
THEOREM Invariance == Spec => []IInv
BY InitIInv, Inductive, PTL DEF Spec

\* Lifecycle's variables keep their types.
THEOREM TypeCorrect == Spec => []TypeOK
<1>1. IInv => TypeOK
  BY DEF IInv
<1>2. QED
  BY Invariance, <1>1, PTL

\* A handler has all stores at its disposal unless run has failed.
THEOREM StoresOutliveHandlers == Spec => []HandlersHaveTheirStores
<1>1. IInv => HandlersHaveTheirStores
  BY DEF IInv, TypeOK, StoresAreThere, RequestsInTime, ResultInTime, Before, Up,
     HandlersHaveTheirStores, Idle
<1>2. QED
  BY Invariance, <1>1, PTL

\* A clean end drops no request.
THEOREM CleanEndDropsNothing == Spec => []CleanEndHasServedAll
<1>1. IInv => CleanEndHasServedAll
  BY DEF IInv, RequestsInTime, CleanEndHasServedAll
<1>2. QED
  BY Invariance, <1>1, PTL

\* Every end leaves all stores closed.
THEOREM StoresAreClosed == Spec => []NothingLeftOpen
<1>1. IInv => NothingLeftOpen
  BY DEF IInv, HandlesAreOwned, NothingLeftOpen
<1>2. QED
  BY Invariance, <1>1, PTL

\* An error of Serve is reported at the end.
THEOREM ServeFailureKept == Spec => []ServeFailureIsReported
<1>1. IInv => ServeFailureIsReported
  BY DEF IInv, ResultInTime, Before, ServeFailureIsReported
<1>2. QED
  BY Invariance, <1>1, PTL

-----------------------------------------------------------------------------
(***************************************************************************)
(* StorePool: a connection is in hand exactly while a query reads, so no   *)
(* one waits with one, and none is lost.                                   *)
(***************************************************************************)
Holding(p) == mode[p] \in {"reading", "leaving"}

Holders == {p \in Actors : held[p] > 0}

\* What makes the two safety properties inductive.
HeldWhileReading == \A p \in Actors : held[p] = IF Holding(p) THEN 1 ELSE 0

UsedIsHeld == used = Cardinality(Holders) /\ used <= limit

PoolInv == PoolTypeOK /\ HeldWhileReading /\ UsedIsHeld

LEMMA HoldersAreFinite == IsFiniteSet(Actors) /\ IsFiniteSet(Holders) /\ Cardinality(Holders) \in Nat
<1>1. IsFiniteSet(Actors)
  BY StorePoolAssumption, FS_AddElement DEF Actors
<1>2. Holders \subseteq Actors
  BY DEF Holders
<1> QED
  BY <1>1, <1>2, FS_Subset, FS_CardinalityType

LEMMA InitPoolInv == PoolInit => PoolInv
<1> SUFFICES ASSUME PoolInit PROVE PoolInv
  OBVIOUS
<1>1. limit \in Nat \ {0}
  <2>1. PICK n \in Sizes : limit = AtLeastOne(n)
    BY DEF PoolInit
  <2>2. n \in Int
    BY StorePoolAssumption
  <2> QED
    BY <2>1, <2>2 DEF AtLeastOne
<1>2. PoolTypeOK
  BY <1>1 DEF PoolInit, PoolTypeOK, Queries, OpenQueries, Statements
<1>3. HeldWhileReading
  BY DEF PoolInit, HeldWhileReading, Holding
<1>4. Holders = {}
  BY DEF PoolInit, Holders
<1> QED
  BY <1>1, <1>2, <1>3, <1>4, FS_EmptySet DEF PoolInit, PoolInv, UsedIsHeld

\* A free connection goes to somebody who has none.
LEMMA ConnectKeepsPool ==
    ASSUME PoolInv, NEW p \in Actors, Connect(p)
    PROVE  PoolInv'
<1> USE DEF PoolInv, Connect, Give
<1>1. held[p] = 0 /\ held'[p] = 1 /\ \A q \in Actors \ {p} : held'[q] = held[q]
  BY DEF PoolTypeOK, HeldWhileReading, Holding
<1>2. PoolTypeOK'
  BY DEF PoolTypeOK
<1>3. HeldWhileReading'
  BY <1>1 DEF PoolTypeOK, HeldWhileReading, Holding
<1>4. Holders' = Holders \cup {p} /\ p \notin Holders
  BY <1>1 DEF Holders
<1>5. Cardinality(Holders') = Cardinality(Holders) + 1
  BY <1>4, HoldersAreFinite, FS_AddElement
<1>6. UsedIsHeld'
  BY <1>5 DEF PoolTypeOK, UsedIsHeld
<1> QED
  BY <1>2, <1>3, <1>6

\* A call that has a connection gives it back and goes on, or ends.
LEMMA GiveBackKeepsPool ==
    ASSUME PoolInv, PoolTypeOK', NEW p \in Actors, Holding(p), TakeBack(p), limit' = limit,
           NEW m \in {"idle", "waiting"}, mode' = [mode EXCEPT ![p] = m]
    PROVE  PoolInv'
<1> USE DEF PoolInv, TakeBack
<1>1. held[p] = 1 /\ held'[p] = 0 /\ \A q \in Actors \ {p} : held'[q] = held[q]
  BY DEF PoolTypeOK, HeldWhileReading
<1>2. HeldWhileReading'
  BY <1>1 DEF PoolTypeOK, HeldWhileReading, Holding
<1>3. Holders' = Holders \ {p} /\ p \in Holders
  BY <1>1 DEF Holders
<1>4. Cardinality(Holders') = Cardinality(Holders) - 1
  BY <1>3, HoldersAreFinite, FS_RemoveElement
<1>5. UsedIsHeld'
  BY <1>4, HoldersAreFinite DEF PoolTypeOK, UsedIsHeld
<1> QED
  BY <1>2, <1>5

\* Steps that move no connection.
LEMMA OthersKeepPool ==
    ASSUME PoolInv, PoolTypeOK', UNCHANGED <<limit, used, held>>,
           \A p \in Actors : Holding(p)' <=> Holding(p)
    PROVE  PoolInv'
<1>1. Holders' = Holders
  BY DEF Holders
<1> QED
  BY <1>1 DEF PoolInv, HeldWhileReading, UsedIsHeld

LEMMA PoolTypeStep == ASSUME PoolInv, [PoolNext]_poolVars PROVE PoolTypeOK'
<1> USE DEF PoolInv, PoolTypeOK
<1>1. ASSUME NEW p \in Actors, TakeBack(p), Holding(p)
      PROVE  used' \in Nat /\ held' \in [Actors -> Nat]
  <2>1. held[p] = 1 /\ p \in Holders
    BY <1>1 DEF HeldWhileReading, Holders
  <2>2. used # 0
    BY <2>1, HoldersAreFinite, FS_EmptySet DEF UsedIsHeld
  <2> QED
    BY <1>1, <2>1, <2>2 DEF TakeBack
<1>2. ASSUME NEW p \in Actors, Connect(p) \/ BadRow(p) \/ GiveUp(p) PROVE PoolTypeOK'
  BY <1>2, ConnectKeepsPool DEF BadRow, GiveUp, Fail
<1>3. ASSUME NEW p \in Actors, QueryFails(p) \/ CloseRows(p) PROVE PoolTypeOK'
  BY <1>1, <1>3 DEF QueryFails, CloseRows, Fail, Holding
<1>4. ASSUME NEW p \in Actors, QueryEnds(p) PROVE PoolTypeOK'
  <2>1. PICK next \in After(query[p]) : Proceed(p, next)
    BY <1>4 DEF QueryEnds
  <2>2. next \in Queries \cup {"end"}
    BY <2>1 DEF After, AfterOpenQuery, AfterGrid, Queries, OpenQueries, Statements
  <2>3. Prepares(query[p]) \subseteq Statements
    BY DEF Prepares, Statements
  <2>4. TakeBack(p) /\ Holding(p)
    BY <1>4 DEF QueryEnds, Holding
  <2>5. query' \in [Actors -> Queries]
    BY <2>1, <2>2 DEF Proceed
  <2>6. mode' \in [Actors -> {"idle", "waiting", "reading", "leaving"}] /\ store' \in {"opening", "open", "failed"}
    BY <2>1 DEF Proceed
  <2>7. prepared' \in SUBSET Statements /\ limit' \in Nat \ {0}
    BY <2>1, <2>3 DEF Proceed
  <2> QED
    BY <1>1, <2>4, <2>5, <2>6, <2>7
<1>5. ASSUME NEW p \in Readers, NEW q \in {"tile", "grid"}, Lookup(p, q) PROVE PoolTypeOK'
  BY <1>5 DEF Lookup, Actors, Queries, Statements
<1>6. CASE UNCHANGED poolVars
  BY <1>6 DEF poolVars
<1> QED
  BY <1>2, <1>3, <1>4, <1>5, <1>6 DEF PoolNext

\* No step of Open, Tile or Grid breaks the invariant.
THEOREM PoolInductive == PoolInv /\ [PoolNext]_poolVars => PoolInv'
<1> SUFFICES ASSUME PoolInv, [PoolNext]_poolVars PROVE PoolInv'
  OBVIOUS
<1>1. PoolTypeOK' /\ PoolTypeOK
  BY PoolTypeStep DEF PoolInv
<1>2. ASSUME NEW p \in Actors, QueryFails(p) \/ CloseRows(p) PROVE PoolInv'
  BY <1>1, <1>2, GiveBackKeepsPool DEF QueryFails, CloseRows, Fail, Holding
<1>3. ASSUME NEW p \in Actors, QueryEnds(p) PROVE PoolInv'
  BY <1>1, <1>3, GiveBackKeepsPool DEF QueryEnds, Proceed, Holding
<1>4. ASSUME NEW p \in Actors, BadRow(p) PROVE PoolInv'
  BY <1>1, <1>4, OthersKeepPool DEF BadRow, Holding, PoolTypeOK
<1>5. ASSUME NEW p \in Actors, GiveUp(p) PROVE PoolInv'
  BY <1>1, <1>5, OthersKeepPool DEF GiveUp, Fail, Holding, PoolTypeOK
<1>6. ASSUME NEW p \in Readers, NEW q \in {"tile", "grid"}, Lookup(p, q) PROVE PoolInv'
  BY <1>1, <1>6, OthersKeepPool DEF Lookup, Holding, PoolTypeOK, Actors
<1>7. CASE UNCHANGED poolVars
  BY <1>1, <1>7, OthersKeepPool DEF poolVars, Holding
<1> QED
  BY <1>2, <1>3, <1>4, <1>5, <1>6, <1>7, ConnectKeepsPool DEF PoolNext

THEOREM PoolInvariance == PoolSpec => []PoolInv
BY InitPoolInv, PoolInductive, PTL DEF PoolSpec

\* Type correctness of the pool and of the store being opened.
THEOREM PoolTypeCorrect == PoolSpec => []PoolTypeOK
<1>1. PoolInv => PoolTypeOK
  BY DEF PoolInv
<1> QED
  BY <1>1, PoolInvariance, PTL

\* However many readers and however few connections, nobody waits for a
\* connection with one in hand: no circle of waiting can close.
THEOREM NobodyHoldsAndWaits == PoolSpec => []NoHoldAndWait
<1>1. PoolInv => NoHoldAndWait
  BY DEF PoolInv, HeldWhileReading, Holding, NoHoldAndWait
<1> QED
  BY <1>1, PoolInvariance, PTL

\* Whatever fails in Open, Tile or Grid, no connection is lost to the pool.
THEOREM NoConnectionIsLost == PoolSpec => []NothingLeaked
<1>1. PoolInv => NothingLeaked
  BY DEF PoolInv, HeldWhileReading, UsedIsHeld, Holders, Holding, NothingLeaked
<1> QED
  BY <1>1, PoolInvariance, PTL
=============================================================================
