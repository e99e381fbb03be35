-------------------------- MODULE TileServingProofs --------------------------
(***************************************************************************)
(* Proofs of the safety properties of TileServing, for any number of       *)
(* requests, keys and slots, and of its refinement of TilePromise.         *)
(*                                                                         *)
(* The state of the coalescing Group is covered by the invariant proved of *)
(* Flight: every step of the server is a step of Flight or leaves its      *)
(* variables alone.                                                        *)
(***************************************************************************)
EXTENDS TileServing, FiniteSetTheorems, TLAPS

FP == INSTANCE FlightProofs WITH Callers <- Requests, FnResults <- LoadResults, Panics <- Faulty

\* The server's own variables have their types.
ServerTypeOK ==
    /\ C!TypeOK
    /\ at \in [Requests -> Places]
    /\ response \in [Requests -> Values \cup Statuses]
    /\ slots \in 0 .. MaxConcurrent

\* The two program counters of a request agree.
PlaceFitsStage ==
    \A p \in Requests :
        /\ at[p] \in {"idle", "lookup", "calling", "settling", "releasing"} => stage[p] = "out"
        /\ at[p] \in {"peeking", "loading"} => stage[p] = "running"
        /\ at[p] = "coalescing" => stage[p] \in {"waiting", "closing", "deleting", "returning"}

\* A client has no response until its request has been settled.
PendingUntilAnswered ==
    \A p \in Requests : response[p] = Pending <=> at[p] \notin {"idle", "releasing"}

\* DoContext has given an answer, and the context's error only if it ended.
AnswerIsSettled ==
    \A p \in Requests : at[p] = "settling" =>
        /\ answer[p] # Unset
        /\ answer[p] = ContextError => ctxDone[p]

SInv ==
    /\ ServerTypeOK
    /\ PlaceFitsStage
    /\ PendingUntilAnswered
    /\ AnswerIsSettled
    /\ LoadsOnlyWhatIsMissing
    /\ CacheHoldsTheTruth
    /\ FailureHasItsOwnCause

IInv == FP!IInv /\ SInv /\ SlotsMatchRequests

-----------------------------------------------------------------------------
(***************************************************************************)
(* What Flight contributes.                                                *)
(***************************************************************************)
LEMMA FlightAssumptionHolds == FP!FlightAssumption
BY TileServingAssumption DEF FP!FlightAssumption, FP!Marks, LoadResults

LEMMA SameNext == F!Next <=> FP!Next
BY DEF F!Next, FP!Next, F!Prepare, FP!Prepare, F!ContextEnds, FP!ContextEnds,
       F!Enter, FP!Enter, F!Share, FP!Share, F!Lead, FP!Lead, F!LeadWith, FP!LeadWith,
       F!Unreachable, FP!Unreachable, F!Leave, FP!Leave, F!Join, FP!Join,
       F!Abandon, FP!Abandon, F!LeaveWith, FP!LeaveWith, F!FnEnds, FP!FnEnds,
       F!FnReturns, FP!FnReturns, F!FnPanics, FP!FnPanics, F!CloseDone, FP!CloseDone,
       F!DeleteCall, FP!DeleteCall, F!Return, FP!Return

LEMMA FlightInit == F!Init => FP!IInv
BY FlightAssumptionHolds, FP!InitIInv DEF F!Init, FP!Init

LEMMA FlightStep == FP!IInv /\ (F!Next \/ UNCHANGED flightVars) => FP!IInv'
BY FlightAssumptionHolds, SameNext, FP!Inductive DEF FP!vars, flightVars

\* The parts of Flight's invariant the server relies on, in the server's terms.
LEMMA FlightFacts ==
    ASSUME FP!IInv
    PROVE  /\ F!TypeOK
           /\ \A p, q \in Requests : (F!Registered(p) /\ F!Registered(q) /\ want[p] = want[q]) => p = q
           /\ \A p \in Requests :
                /\ answer[p] \in {Tile[want[p]], LoadError, PanicError, Unset, ContextError, Panicking}
                /\ answer[p] \in {LoadError, PanicError, Panicking} => want[p] \in Faulty
                /\ (stage[p] = "waiting" /\ call[ref[p]].done) => call[ref[p]].outcome \in F!ForKey(want[p])
                /\ stage[p] = "returning" => call[ref[p]].outcome \in F!ForKey(want[p])
<1>1. F!TypeOK
  BY DEF FP!IInv, FP!TypeOK, F!TypeOK, FP!Stages, F!Stages, FP!Answers, F!Answers, FP!Marks, F!Marks,
         FP!AllResults, F!AllResults
<1>2. \A p, q \in Requests : (F!Registered(p) /\ F!Registered(q) /\ want[p] = want[q]) => p = q
  BY FP!OneFlightFromIInv, FlightAssumptionHolds DEF FP!OneFlightPerKey, FP!Registered, F!Registered
<1>3. \A k \in Keys : FP!ForKey(k) = F!ForKey(k) /\
                      F!ForKey(k) = {Tile[k]} \cup (IF k \in Faulty THEN {LoadError, PanicError} ELSE {})
  BY DEF FP!ForKey, F!ForKey, LoadResults
<1>4. \A p \in Requests : want[p] \in Keys
  BY <1>1 DEF F!TypeOK
<1>5. ASSUME NEW p \in Requests
      PROVE  /\ answer[p] \in F!ForKey(want[p]) \cup {Unset, ContextError, Panicking}
             /\ answer[p] = Panicking => want[p] \in Faulty
             /\ (stage[p] = "waiting" /\ call[ref[p]].done) => call[ref[p]].outcome \in F!ForKey(want[p])
             /\ stage[p] = "returning" => call[ref[p]].outcome \in F!ForKey(want[p])
  BY <1>3, <1>4 DEF FP!IInv, FP!AnswerIsForKey, FP!OutcomeIsSet
<1>6. ASSUME NEW p \in Requests
      PROVE  /\ answer[p] \in {Tile[want[p]], LoadError, PanicError, Unset, ContextError, Panicking}
             /\ answer[p] \in {LoadError, PanicError, Panicking} => want[p] \in Faulty
  <2>1. Tile[want[p]] \in Values
    BY <1>4, TileServingAssumption
  <2> QED
    BY <1>3, <1>4, <1>5, <2>1, TileServingAssumption
<1> QED
  BY <1>1, <1>2, <1>5, <1>6

\* Every step of the server is a step of Flight or leaves Flight alone.  That a
\* leader's fn returns what fn of its key may return rests on the cache holding
\* the truth.
LEMMA StepIsFlightStep ==
    ASSUME FP!IInv, SInv, [Next]_vars
    PROVE  F!Next \/ UNCHANGED flightVars
<1>1. CASE UNCHANGED vars
  BY <1>1 DEF vars
<1>2. CASE Next
  <2>1. PICK p \in Requests : (\E k \in Keys : Arrive(p, k)) \/ Disconnect(p) \/ Serve(p)
    BY <1>2 DEF Next
  <2>2. want[p] \in Keys
    BY FlightFacts DEF F!TypeOK
  <2>3. CASE \E k \in Keys : Arrive(p, k)
    BY <2>3 DEF Arrive, Accept, TurnAway, F!Next
  <2>4. CASE Disconnect(p)
    BY <2>4 DEF Disconnect, F!Next
  <2>5. CASE Hit(p) \/ Miss(p) \/ PeekMiss(p) \/ Settle(p)
    BY <2>5 DEF Hit, Miss, PeekMiss, Settle
  <2>6. CASE Call(p)
    BY <2>6 DEF Call, F!Next, F!Enter
  <2>7. CASE PeekHit(p)
    <3>1. cache[want[p]] \in LoadResults[want[p]]
      BY <2>2, <2>7 DEF PeekHit, C!Has, SInv, CacheHoldsTheTruth, LoadResults
    <3> QED
      BY <2>7, <3>1 DEF PeekHit, F!Next, F!FnEnds
  <2>8. CASE LoadSucceeds(p)
    <3>1. Tile[want[p]] \in LoadResults[want[p]]
      BY <2>2 DEF LoadResults
    <3> QED
      BY <2>8, <3>1 DEF LoadSucceeds, F!Next, F!FnEnds
  <2>9. CASE LoadFails(p)
    <3>1. LoadError \in LoadResults[want[p]]
      BY <2>2, <2>9 DEF LoadFails, LoadCanFail, LoadResults
    <3> QED
      BY <2>9, <3>1 DEF LoadFails, F!Next, F!FnEnds
  <2>10. CASE LoadPanics(p)
    BY <2>10 DEF LoadPanics, F!Next, F!FnEnds
  <2>11. CASE Publish(p)
    BY <2>11 DEF Publish, F!Next
  <2>12. CASE ComeBack(p)
    BY <2>12 DEF ComeBack, F!Next
  <2>13. CASE Release(p)
    BY <2>2, <2>13 DEF Release, F!Next
  <2> QED
    BY <2>1, <2>3, <2>4, <2>5, <2>6, <2>7, <2>8, <2>9, <2>10, <2>11, <2>12, <2>13 DEF Serve, LoadEnds
<1> QED
  BY <1>1, <1>2

-----------------------------------------------------------------------------
(***************************************************************************)
(* The slots.                                                              *)
(***************************************************************************)
SlotsInv == slots \in 0 .. MaxConcurrent /\ SlotsMatchRequests

LEMMA ActiveIsFinite == IsFiniteSet(Active)
BY TileServingAssumption, FS_Subset DEF Active

LEMMA SlotsStep ==
    ASSUME ServerTypeOK, SlotsMatchRequests, [Next]_vars
    PROVE  SlotsInv'
<1> USE DEF Goto
<1>1. slots \in Nat /\ MaxConcurrent \in Nat
  BY TileServingAssumption DEF ServerTypeOK
<1>2. CASE Active' = Active /\ slots' = slots
  BY <1>2 DEF SlotsInv, SlotsMatchRequests, ServerTypeOK
<1>3. ASSUME NEW p \in Requests, NEW k \in Keys, Accept(p, k) PROVE SlotsInv'
  <2>1. p \notin Active /\ Active' = Active \cup {p}
    BY <1>3 DEF Accept, Active, ServerTypeOK
  <2>2. Cardinality(Active') = Cardinality(Active) + 1
    BY <2>1, ActiveIsFinite, FS_AddElement
  <2> QED
    BY <1>1, <1>3, <2>2 DEF Accept, SlotsInv, SlotsMatchRequests
<1>4. ASSUME NEW p \in Requests, Release(p) PROVE SlotsInv'
  <2>1. p \in Active /\ Active' = Active \ {p}
    BY <1>4 DEF Release, Active, ServerTypeOK
  <2>2. Cardinality(Active') = Cardinality(Active) - 1 /\ Cardinality(Active) \in Nat
    BY <2>1, ActiveIsFinite, FS_RemoveElement, FS_CardinalityType
  <2>3. Cardinality(Active) # 0
    BY <2>1, ActiveIsFinite, FS_EmptySet
  <2> QED
    BY <1>1, <1>4, <2>2, <2>3 DEF Release, SlotsInv, SlotsMatchRequests, ServerTypeOK
<1>5. ASSUME NEW p \in Requests, NEW k \in Keys, TurnAway(p, k) PROVE SlotsInv'
  BY <1>2, <1>5 DEF TurnAway, Active, ServerTypeOK
<1>6. ASSUME NEW p \in Requests, Disconnect(p) PROVE SlotsInv'
  BY <1>2, <1>6 DEF Disconnect, Active, serverVars
<1>7. ASSUME NEW p \in Requests, Hit(p) \/ Miss(p) \/ Call(p) \/ PeekHit(p) \/ PeekMiss(p) PROVE SlotsInv'
  BY <1>2, <1>7 DEF Hit, Miss, Call, PeekHit, PeekMiss, Active, ServerTypeOK
<1>8. ASSUME NEW p \in Requests, LoadEnds(p) \/ Publish(p) \/ ComeBack(p) \/ Settle(p) PROVE SlotsInv'
  BY <1>2, <1>8 DEF LoadEnds, LoadSucceeds, LoadFails, LoadPanics, Publish, ComeBack, Settle, Active,
                    ServerTypeOK, serverVars
<1>9. CASE UNCHANGED vars
  BY <1>2, <1>9 DEF vars, serverVars, Active
<1> QED
  BY <1>3, <1>4, <1>5, <1>6, <1>7, <1>8, <1>9 DEF Next, Arrive, Serve

-----------------------------------------------------------------------------
(***************************************************************************)
(* The rest of the server's invariant, action by action.                   *)
(***************************************************************************)
\* A response made of the value of a key is one of its tile.
LEMMA ResponsesOfTile ==
    ASSUME NEW k \in Keys
    PROVE  /\ ResponsesOf(Tile[k]) \subseteq {Tile[k], NotAcceptable}
           /\ Tile[k] \in Values /\ Tile[k] \notin Statuses
           /\ Absent # Tile[k]
BY TileServingAssumption DEF ResponsesOf

LEMMA ArriveKeeps ==
    ASSUME FP!IInv, SInv, NEW p \in Requests, NEW k \in Keys, Arrive(p, k), SlotsInv'
    PROVE  SInv'
<1> USE DEF SInv, Arrive, Accept, TurnAway, Goto, Respond, F!Prepare, Loading
<1>1. F!TypeOK
  BY FlightFacts
<1>2. ServerTypeOK'
  BY DEF ServerTypeOK, C!TypeOK, Places, Statuses, SlotsInv
<1>3. PlaceFitsStage' /\ PendingUntilAnswered' /\ AnswerIsSettled'
  BY <1>1, TileServingAssumption
  DEF ServerTypeOK, PlaceFitsStage, PendingUntilAnswered, AnswerIsSettled, F!TypeOK
<1>4. LoadsOnlyWhatIsMissing' /\ CacheHoldsTheTruth'
  BY <1>1 DEF ServerTypeOK, LoadsOnlyWhatIsMissing, CacheHoldsTheTruth, F!TypeOK
<1>5. FailureHasItsOwnCause'
  BY <1>1, TileServingAssumption DEF ServerTypeOK, FailureHasItsOwnCause, F!TypeOK
<1> QED
  BY <1>2, <1>3, <1>4, <1>5

LEMMA DisconnectKeeps ==
    ASSUME FP!IInv, SInv, NEW p \in Requests, Disconnect(p)
    PROVE  SInv'
<1> USE DEF SInv, Disconnect, serverVars, F!ContextEnds, Loading
<1>1. F!TypeOK
  BY FlightFacts
<1>2. ServerTypeOK' /\ PlaceFitsStage' /\ PendingUntilAnswered'
  BY DEF ServerTypeOK, C!TypeOK, PlaceFitsStage, PendingUntilAnswered
<1>3. AnswerIsSettled'
  BY <1>1 DEF AnswerIsSettled, F!TypeOK
<1>4. LoadsOnlyWhatIsMissing' /\ CacheHoldsTheTruth' /\ FailureHasItsOwnCause'
  BY DEF LoadsOnlyWhatIsMissing, CacheHoldsTheTruth, FailureHasItsOwnCause
<1> QED
  BY <1>2, <1>3, <1>4

\* Before and after DoContext, nothing of Flight changes.
LEMMA LocalKeeps ==
    ASSUME FP!IInv, SInv, NEW p \in Requests, Hit(p) \/ Miss(p) \/ Settle(p)
    PROVE  SInv'
<1> USE DEF SInv, Hit, Miss, Settle, Goto, Respond, flightVars, Loading
<1>1. F!TypeOK /\ want[p] \in Keys
  BY FlightFacts DEF F!TypeOK
<1>2. response' = response \/ \E r \in {Tile[want[p]], NotAcceptable, Failed, Dropped} :
                                 /\ response' = [response EXCEPT ![p] = r]
                                 /\ r = Failed => want[p] \in Faulty
  <2>1. CASE Hit(p)
    <3>1. cache[want[p]] = Tile[want[p]]
      BY <1>1, <2>1 DEF C!Has, CacheHoldsTheTruth
    <3>2. PICK r \in ResponsesOf(Tile[want[p]]) : response' = [response EXCEPT ![p] = r]
      BY <2>1, <3>1
    <3> QED
      BY <1>1, <3>2, ResponsesOfTile, TileServingAssumption DEF Statuses
  <2>2. CASE Miss(p)
    BY <2>2
  <2>3. CASE Settle(p)
    <3>1. /\ answer[p] \in {Tile[want[p]], LoadError, PanicError, Unset, ContextError, Panicking}
          /\ answer[p] \in {LoadError, PanicError, Panicking} => want[p] \in Faulty
      BY FlightFacts
    <3>2. CASE Deliver(p)
      <4>1. answer[p] = Tile[want[p]]
        BY <3>1, <3>2, TileServingAssumption DEF Deliver
      <4>2. PICK r \in ResponsesOf(Tile[want[p]]) : response' = [response EXCEPT ![p] = r]
        BY <3>2, <4>1 DEF Deliver
      <4> QED
        BY <1>1, <4>2, ResponsesOfTile, TileServingAssumption DEF Statuses
    <3>3. CASE ReportFailure(p)
      BY <2>3, <3>1, <3>3 DEF ReportFailure, IsError, AnswerIsSettled
    <3>4. CASE Drop(p)
      BY <3>4, TileServingAssumption DEF Drop
    <3>5. CASE Recover(p)
      BY <3>1, <3>5 DEF Recover
    <3> QED
      BY <2>3, <3>2, <3>3, <3>4, <3>5
  <2> QED
    BY <2>1, <2>2, <2>3
<1>3. ServerTypeOK'
  BY <1>1, <1>2, TileServingAssumption DEF ServerTypeOK, C!TypeOK, Places, Statuses
<1>4. PlaceFitsStage' /\ AnswerIsSettled'
  BY DEF ServerTypeOK, PlaceFitsStage, AnswerIsSettled
<1>5. PendingUntilAnswered'
  <2>1. CASE Miss(p)
    BY <2>1 DEF ServerTypeOK, PendingUntilAnswered
  <2>2. CASE Hit(p) \/ Settle(p)
    <3>1. Pending \notin {Tile[want[p]], NotAcceptable, Failed, Dropped}
      BY <1>1, TileServingAssumption DEF Statuses
    <3>2. response[p] = Pending
      BY <2>2 DEF PendingUntilAnswered
    <3>3. response'[p] # Pending /\ \A q \in Requests \ {p} : response'[q] = response[q]
      <4>1. ASSUME NEW r, response' = [response EXCEPT ![p] = r], r # Pending PROVE response' # response
        BY <3>2, <4>1 DEF ServerTypeOK
      <4>2. response' # response
        BY <1>1, <2>2, <3>1, <3>2, <4>1, ResponsesOfTile, TileServingAssumption
        DEF Deliver, ReportFailure, Drop, Recover, ResponsesOf, C!Has, CacheHoldsTheTruth, Statuses, ServerTypeOK
      <4> QED
        BY <1>2, <3>1, <4>2 DEF ServerTypeOK
    <3> QED
      BY <2>2, <3>3 DEF ServerTypeOK, PendingUntilAnswered
  <2> QED
    BY <2>1, <2>2
<1>6. LoadsOnlyWhatIsMissing' /\ CacheHoldsTheTruth'
  BY DEF ServerTypeOK, LoadsOnlyWhatIsMissing, CacheHoldsTheTruth
<1>7. FailureHasItsOwnCause'
  BY <1>2 DEF ServerTypeOK, FailureHasItsOwnCause
<1> QED
  BY <1>3, <1>4, <1>5, <1>6, <1>7

LEMMA CallKeeps ==
    ASSUME FP!IInv, SInv, NEW p \in Requests, Call(p)
    PROVE  SInv'
<1> USE DEF SInv, Call, Goto, F!Share, F!Lead, F!LeadWith, Loading
<1>1. F!TypeOK
  BY FlightFacts
<1>2. ServerTypeOK'
  BY DEF ServerTypeOK, C!TypeOK, Places
<1>3. PendingUntilAnswered' /\ AnswerIsSettled'
  BY <1>1 DEF ServerTypeOK, PendingUntilAnswered, AnswerIsSettled, F!TypeOK
<1>4. PlaceFitsStage'
  <2>1. \/ stage' = [stage EXCEPT ![p] = "waiting"] /\ at' = [at EXCEPT ![p] = "coalescing"]
        \/ stage' = [stage EXCEPT ![p] = "running"] /\ at' = [at EXCEPT ![p] = "peeking"]
    OBVIOUS
  <2> QED
    BY <1>1, <2>1 DEF ServerTypeOK, PlaceFitsStage, F!TypeOK
<1>5. LoadsOnlyWhatIsMissing' /\ CacheHoldsTheTruth' /\ FailureHasItsOwnCause'
  BY DEF ServerTypeOK, LoadsOnlyWhatIsMissing, CacheHoldsTheTruth, FailureHasItsOwnCause
<1> QED
  BY <1>2, <1>3, <1>4, <1>5

\* A leader that finds the key missing is the only one registered for it.
LEMMA PeekMissKeeps ==
    ASSUME FP!IInv, SInv, NEW p \in Requests, PeekMiss(p)
    PROVE  SInv'
<1> USE DEF SInv, PeekMiss, Goto, flightVars, Loading
<1>1. ServerTypeOK'
  BY DEF ServerTypeOK, C!TypeOK, Places
<1>2. PlaceFitsStage' /\ PendingUntilAnswered' /\ AnswerIsSettled'
  BY DEF ServerTypeOK, PlaceFitsStage, PendingUntilAnswered, AnswerIsSettled
<1>3. LoadsOnlyWhatIsMissing'
  <2>1. \A q \in Requests : (at[q] \in {"peeking", "loading"}) => F!Registered(q)
    BY DEF PlaceFitsStage, F!Registered
  <2>2. \A q \in Requests : (at[q] = "loading" /\ want[q] = want[p]) => q = p
    BY <2>1, FlightFacts
  <2> QED
    BY <2>2 DEF ServerTypeOK, LoadsOnlyWhatIsMissing, C!Has
<1>4. CacheHoldsTheTruth' /\ FailureHasItsOwnCause'
  BY DEF CacheHoldsTheTruth, FailureHasItsOwnCause
<1> QED
  BY <1>1, <1>2, <1>3, <1>4

\* The end of fn, with or without an addition to the cache.
LEMMA FnKeeps ==
    ASSUME FP!IInv, SInv, NEW p \in Requests, PeekHit(p) \/ LoadEnds(p)
    PROVE  SInv'
<1> USE DEF SInv, PeekHit, LoadEnds, LoadSucceeds, LoadFails, LoadPanics, Goto, F!FnReturns, F!FnPanics, Loading
<1>1. F!TypeOK /\ want[p] \in Keys
  BY FlightFacts DEF F!TypeOK
<1>2. \A k \in Keys : cache'[k] \in {cache[k], Absent} \/ (k = want[p] /\ at[p] = "loading" /\ cache'[k] = Tile[k])
  BY <1>1 DEF C!Add, C!Store, C!Refuse
<1>3. cache' \in [Keys -> Values \cup {Absent}]
  <2>1. CASE cache' = cache
    BY <2>1 DEF ServerTypeOK, C!TypeOK
  <2>2. CASE C!Store(want[p], Tile[want[p]])
    BY <1>1, <2>2, TileServingAssumption DEF C!Store, ServerTypeOK, C!TypeOK
  <2> QED
    BY <2>1, <2>2 DEF C!Add, C!Refuse
<1>4. ServerTypeOK'
  BY <1>3 DEF ServerTypeOK, C!TypeOK, Places
<1>5. PlaceFitsStage' /\ PendingUntilAnswered' /\ AnswerIsSettled'
  BY <1>1 DEF ServerTypeOK, PlaceFitsStage, PendingUntilAnswered, AnswerIsSettled, F!TypeOK
<1>6. CacheHoldsTheTruth'
  BY <1>2 DEF CacheHoldsTheTruth
<1>7. LoadsOnlyWhatIsMissing'
  BY <1>1, <1>2 DEF ServerTypeOK, LoadsOnlyWhatIsMissing, F!TypeOK
<1>8. FailureHasItsOwnCause'
  BY DEF FailureHasItsOwnCause
<1> QED
  BY <1>4, <1>5, <1>6, <1>7, <1>8

\* The rest of DoContext and the return from it, and the end of the request.
LEMMA FlightKeeps ==
    ASSUME FP!IInv, SInv, NEW p \in Requests, Publish(p) \/ ComeBack(p)
    PROVE  SInv'
<1> USE DEF SInv, Publish, ComeBack, Goto, serverVars, F!CloseDone, F!DeleteCall, F!Leave, F!Join, F!Abandon,
            F!Return, F!LeaveWith, Loading
<1>1. F!TypeOK
  BY FlightFacts
<1>2. ServerTypeOK'
  BY DEF ServerTypeOK, C!TypeOK, Places
<1>3. PlaceFitsStage' /\ PendingUntilAnswered'
  BY <1>1 DEF ServerTypeOK, PlaceFitsStage, PendingUntilAnswered, F!TypeOK
<1>4. AnswerIsSettled'
  <2>1. Unset \notin F!ForKey(want[p]) /\ ContextError \notin F!ForKey(want[p])
    BY <1>1, ResponsesOfTile, TileServingAssumption DEF F!TypeOK, F!ForKey, LoadResults
  <2> QED
    BY <1>1, <2>1, FlightFacts, TileServingAssumption DEF ServerTypeOK, AnswerIsSettled, F!TypeOK
<1>5. LoadsOnlyWhatIsMissing' /\ CacheHoldsTheTruth' /\ FailureHasItsOwnCause'
  BY DEF ServerTypeOK, LoadsOnlyWhatIsMissing, CacheHoldsTheTruth, FailureHasItsOwnCause
<1> QED
  BY <1>2, <1>3, <1>4, <1>5

LEMMA ReleaseKeeps ==
    ASSUME FP!IInv, SInv, NEW p \in Requests, Release(p), SlotsInv'
    PROVE  SInv'
<1> USE DEF SInv, Release, Goto, F!Prepare, Loading
<1>1. F!TypeOK
  BY FlightFacts
<1>2. ServerTypeOK'
  BY DEF ServerTypeOK, C!TypeOK, Places, SlotsInv
<1>3. PlaceFitsStage' /\ PendingUntilAnswered' /\ AnswerIsSettled'
  BY <1>1 DEF ServerTypeOK, PlaceFitsStage, PendingUntilAnswered, AnswerIsSettled, F!TypeOK
<1>4. LoadsOnlyWhatIsMissing' /\ CacheHoldsTheTruth' /\ FailureHasItsOwnCause'
  BY <1>1 DEF ServerTypeOK, LoadsOnlyWhatIsMissing, CacheHoldsTheTruth, FailureHasItsOwnCause, F!TypeOK
<1> QED
  BY <1>2, <1>3, <1>4

LEMMA SInvStep ==
    ASSUME FP!IInv, SInv, SlotsMatchRequests, [Next]_vars
    PROVE  SInv'
<1>1. SlotsInv'
  BY SlotsStep DEF SInv
<1>2. CASE Next
  BY <1>1, <1>2, ArriveKeeps, DisconnectKeeps, LocalKeeps, CallKeeps, PeekMissKeeps, FnKeeps, FlightKeeps,
     ReleaseKeeps DEF Next, Serve
<1>3. CASE UNCHANGED vars
  BY <1>3 DEF vars, serverVars, flightVars, SInv, ServerTypeOK, C!TypeOK, PlaceFitsStage, PendingUntilAnswered,
              AnswerIsSettled, LoadsOnlyWhatIsMissing, Loading, CacheHoldsTheTruth, FailureHasItsOwnCause
<1> QED
  BY <1>2, <1>3

-----------------------------------------------------------------------------
(***************************************************************************)
(* The theorems.                                                           *)
(***************************************************************************)
LEMMA InitIInv == Init => IInv
<1> SUFFICES ASSUME Init PROVE IInv
  OBVIOUS
<1>1. FP!IInv
  BY FlightInit DEF Init
<1>2. ServerTypeOK
  BY TileServingAssumption DEF Init, C!Init, C!TypeOK, ServerTypeOK, Places, Statuses
<1>3. PlaceFitsStage /\ PendingUntilAnswered /\ AnswerIsSettled
  BY TileServingAssumption DEF Init, F!Init, PlaceFitsStage, PendingUntilAnswered, AnswerIsSettled
<1>4. LoadsOnlyWhatIsMissing /\ CacheHoldsTheTruth /\ FailureHasItsOwnCause
  BY TileServingAssumption
  DEF Init, C!Init, LoadsOnlyWhatIsMissing, Loading, CacheHoldsTheTruth, FailureHasItsOwnCause
<1>5. SlotsMatchRequests
  <2>1. Active = {}
    BY DEF Init, Active
  <2> QED
    BY <2>1, FS_EmptySet DEF Init, SlotsMatchRequests
<1> QED
  BY <1>1, <1>2, <1>3, <1>4, <1>5 DEF IInv, SInv

\* No step of the server or of its clients breaks the invariant.
THEOREM Inductive == IInv /\ [Next]_vars => IInv'
<1> SUFFICES ASSUME IInv, [Next]_vars PROVE IInv'
  OBVIOUS
<1>1. FP!IInv'
  BY StepIsFlightStep, FlightStep DEF IInv
<1>2. SInv'
  BY SInvStep DEF IInv
<1>3. SlotsMatchRequests'
  BY SlotsStep DEF IInv, SInv, SlotsInv
<1> QED
  BY <1>1, <1>2, <1>3 DEF IInv

THEOREM Invariance == Spec => []IInv
BY InitIInv, Inductive, PTL DEF Spec

\* Every variable keeps its type, and the limiter its bound.
THEOREM TypeCorrect == Spec => []TypeOK
<1>1. IInv => TypeOK
  BY FlightFacts DEF IInv, SInv, ServerTypeOK, TypeOK
<1> QED
  BY <1>1, Invariance, PTL

\* A tile is loaded by one request at a time, and only if the cache lacks it.
THEOREM LoadsAreNeeded == Spec => []LoadsOnlyWhatIsMissing
BY Invariance, PTL DEF IInv, SInv

\* What is cached under a key is what its source holds.
THEOREM CacheIsTrue == Spec => []CacheHoldsTheTruth
BY Invariance, PTL DEF IInv, SInv

\* A client is answered 500 only if loads of its own key can fail.
THEOREM FailuresAreOwn == Spec => []FailureHasItsOwnCause
BY Invariance, PTL DEF IInv, SInv

\* No slot leaks, and none is given back twice.
THEOREM SlotsAreExact == Spec => []SlotsMatchRequests
BY Invariance, PTL DEF IInv

-----------------------------------------------------------------------------
(***************************************************************************)
(* The server implements TilePromise: a step that answers, turns away or   *)
(* loses a client is such a step there, and every other step stutters.     *)
(***************************************************************************)
LEMMA ResponsesAreAllowed ==
    ASSUME NEW k \in Keys
    PROVE  /\ ResponsesOf(Tile[k]) \subseteq Promise!AllowedFor(k)
           /\ Promise!AllowedFor(k) \subseteq Values \cup {NotAcceptable, Failed, Dropped}
           /\ Pending \notin Promise!AllowedFor(k) \cup {Dropped}
BY TileServingAssumption DEF ResponsesOf, Promise!AllowedFor, Statuses

\* Answering a request is answering it, whoever noticed its client going.
LEMMA AnsweringAnswers ==
    ASSUME NEW p \in Requests, NEW r \in Promise!AllowedFor(want[p]) \cup {Dropped},
           r = Dropped => (ctxDone[p] \/ Dropped \in Promise!AllowedFor(want[p])),
           F!TypeOK, ServerTypeOK, response[p] = Pending,
           response' = [response EXCEPT ![p] = r], UNCHANGED <<want, ctxDone>>
    PROVE  Promise!Next
<1> DEFINE gone == [q \in Requests |-> response[q] = Pending /\ ctxDone[q]]
<1>1. want[p] \in Keys
  BY DEF F!TypeOK
<1>2. r # Pending /\ r \in Values \cup {NotAcceptable, Failed, Dropped}
  BY <1>1, ResponsesAreAllowed
<1>3. gone' = [gone EXCEPT ![p] = FALSE]
  BY <1>2 DEF ServerTypeOK
<1>4. r \in Promise!AllowedFor(want[p]) \cup (IF gone[p] THEN {Dropped} ELSE {})
  OBVIOUS
<1>5. Promise!Answer(p, r)
  BY <1>3, <1>4 DEF Promise!Answer
<1> QED
  BY <1>2, <1>5 DEF Promise!Next

LEMMA RefinementStep ==
    ASSUME IInv, [Next]_vars
    PROVE  [Promise!Next]_(Promise!vars)
<1> USE DEF IInv, SInv
<1> DEFINE gone == [q \in Requests |-> response[q] = Pending /\ ctxDone[q]]
<1>1. F!TypeOK /\ \A p \in Requests : want[p] \in Keys
  BY FlightFacts DEF F!TypeOK
<1>2. CASE UNCHANGED <<want, ctxDone, response>>
  BY <1>2 DEF Promise!vars
<1>3. ASSUME NEW p \in Requests, NEW k \in Keys, Arrive(p, k) PROVE Promise!Next
  <2>1. PICK r \in {Pending, Busy} : Respond(p, r) /\ at[p] = "idle" /\ F!Prepare(p, k)
    BY <1>3 DEF Arrive, Accept, TurnAway, Goto
  <2>2. response[p] # Pending
    BY <2>1 DEF PendingUntilAnswered
  <2>3. gone' = gone
    BY <1>1, <2>1, <2>2 DEF Respond, F!Prepare, F!TypeOK, ServerTypeOK
  <2>4. Promise!Ask(p, k, r)
    BY <2>1, <2>2, <2>3 DEF Promise!Ask, Respond, F!Prepare
  <2> QED
    BY <2>4 DEF Promise!Next
<1>4. ASSUME NEW p \in Requests, Disconnect(p) PROVE Promise!Next
  <2>1. gone' = [gone EXCEPT ![p] = TRUE]
    BY <1>1, <1>4 DEF Disconnect, serverVars, F!ContextEnds, F!TypeOK
  <2>2. Promise!Disconnect(p)
    BY <1>4, <2>1 DEF Promise!Disconnect, Disconnect, serverVars, F!ContextEnds
  <2> QED
    BY <2>2 DEF Promise!Next
<1>5. ASSUME NEW p \in Requests, Hit(p) PROVE Promise!Next
  <2>1. cache[want[p]] = Tile[want[p]] /\ response[p] = Pending
    BY <1>1, <1>5 DEF Hit, Goto, C!Has, CacheHoldsTheTruth, PendingUntilAnswered
  <2>2. PICK r \in ResponsesOf(Tile[want[p]]) : response' = [response EXCEPT ![p] = r]
    BY <1>5, <2>1 DEF Hit, Respond
  <2>3. r \in Promise!AllowedFor(want[p])
    BY <1>1, <2>2, ResponsesAreAllowed
  <2> QED
    BY <1>1, <1>5, <2>1, <2>2, <2>3, AnsweringAnswers DEF Hit, flightVars
<1>6. ASSUME NEW p \in Requests, Settle(p) PROVE Promise!Next
  <2>1. /\ at[p] = "settling" /\ response[p] = Pending /\ UNCHANGED <<want, ctxDone>>
        /\ answer[p] \in {Tile[want[p]], LoadError, PanicError, Unset, ContextError, Panicking}
        /\ answer[p] \in {LoadError, PanicError, Panicking} => want[p] \in Faulty
        /\ answer[p] = ContextError => ctxDone[p]
    BY <1>6, FlightFacts DEF Settle, Goto, PendingUntilAnswered, AnswerIsSettled, flightVars
  <2>2. PICK r \in Promise!AllowedFor(want[p]) \cup (IF ctxDone[p] THEN {Dropped} ELSE {}) :
              response' = [response EXCEPT ![p] = r]
    <3>1. CASE Deliver(p)
      <4>1. answer[p] = Tile[want[p]]
        BY <2>1, <3>1, TileServingAssumption DEF Deliver
      <4> QED
        BY <1>1, <3>1, <4>1, ResponsesAreAllowed DEF Deliver, Respond
    <3>2. CASE ReportFailure(p) \/ Recover(p)
      <4>1. want[p] \in Faulty
        BY <2>1, <3>2 DEF ReportFailure, Recover, IsError
      <4> QED
        BY <3>2, <4>1 DEF ReportFailure, Recover, Respond, Promise!AllowedFor
    <3>3. CASE Drop(p)
      BY <3>3 DEF Drop, Respond
    <3> QED
      BY <1>6, <3>1, <3>2, <3>3 DEF Settle
  <2> QED
    BY <1>1, <2>1, <2>2, AnsweringAnswers
<1>7. ASSUME NEW p \in Requests, Release(p) PROVE UNCHANGED Promise!vars
  <2>1. response[p] # Pending /\ UNCHANGED <<want, response>>
    BY <1>1, <1>7 DEF Release, Goto, PendingUntilAnswered, F!Prepare, F!TypeOK
  <2>2. gone' = gone
    BY <1>1, <1>7, <2>1 DEF Release, F!Prepare, F!TypeOK
  <2> QED
    BY <2>1, <2>2 DEF Promise!vars
<1>8. ASSUME NEW p \in Requests, Miss(p) \/ Call(p) \/ PeekHit(p) \/ PeekMiss(p)
      PROVE  UNCHANGED <<want, ctxDone, response>>
  BY <1>8 DEF Miss, Call, PeekHit, PeekMiss, flightVars, F!Share, F!Lead, F!LeadWith, F!FnReturns
<1>9. ASSUME NEW p \in Requests, LoadEnds(p) \/ Publish(p) \/ ComeBack(p)
      PROVE  UNCHANGED <<want, ctxDone, response>>
  BY <1>9 DEF LoadEnds, LoadSucceeds, LoadFails, LoadPanics, Publish, ComeBack, serverVars, F!FnReturns, F!FnPanics,
     F!CloseDone, F!DeleteCall, F!Leave, F!Join, F!Abandon, F!Return, F!LeaveWith
<1>10. CASE UNCHANGED vars
  BY <1>2, <1>10 DEF vars, serverVars, flightVars
<1> QED
  BY <1>2, <1>3, <1>4, <1>5, <1>6, <1>7, <1>8, <1>9, <1>10 DEF Next, Serve

\* Each client gets a response allowed for what it asked, whatever the others
\* and the store do.
THEOREM Refinement == Spec => PromiseKept
<1>1. Init => Promise!Init
  BY TileServingAssumption DEF Init, F!Init, Promise!Init
<1>2. IInv /\ [Next]_vars => [Promise!Next]_(Promise!vars)
  BY RefinementStep
<1> QED
  BY <1>1, <1>2, Invariance, PTL DEF Spec, PromiseKept, Promise!Spec
==============================================================================
