---------------------------- MODULE FlightProofs ----------------------------
(***************************************************************************)
(* Proofs of the safety properties of Flight, for any callers, keys and    *)
(* call objects.                                                           *)
(***************************************************************************)
EXTENDS Flight, TLAPS

\* A caller holds a call exactly while it is in DoContext.
HoldsACall ==
    \A p \in Callers : IF stage[p] = "out" THEN ref[p] = NoCall ELSE ref[p] \in CallIds

\* The map's entry for the key of a registered leader is the leader's call, so
\* that the delete by key removes this call and no other.
EntryIsOwn == \A p \in Callers : Registered(p) => calls[want[p]] = ref[p]

\* Each call object has one leader, from its registration to its return.
OneLeaderPerCall ==
    \A p, q \in Callers : (Leading(p) /\ Leading(q) /\ ref[p] = ref[q]) => p = q

\* Those that wait for a leader's call wait for the leader's key.
SharersWantTheSame ==
    \A p, q \in Callers :
        (Leading(p) /\ stage[q] = "waiting" /\ ref[q] = ref[p]) => want[q] = want[p]

\* Between the end of fn and the return, the call holds an outcome for the key,
\* the panic's error exactly if the leader has recovered a panic; and the call
\* is marked done by the time it leaves the map, and not before.
OutcomeIsSet ==
    \A p \in Callers :
        /\ stage[p] \in {"closing", "deleting", "returning"} =>
              /\ call[ref[p]].outcome \in ForKey(want[p])
              /\ recovered[p] <=> call[ref[p]].outcome = PanicError
        /\ stage[p] \in {"out", "waiting", "running"} => ~recovered[p]
        /\ stage[p] = "deleting" => call[ref[p]].done
        /\ stage[p] \in {"running", "closing"} => ~call[ref[p]].done

IInv ==
    /\ TypeOK
    /\ HoldsACall
    /\ EntryIsOwn
    /\ OneLeaderPerCall
    /\ SharersWantTheSame
    /\ OutcomeIsSet
    /\ NoResultRetained
    /\ WaiterHasLeader
    /\ AnswerIsForKey

-----------------------------------------------------------------------------
\* The results of a key are results, and the panic's error is not one of them.
LEMMA ForKeyFacts ==
    ASSUME NEW k \in Keys
    PROVE  /\ FnResults[k] \subseteq AllResults
           /\ FnResults[k] \subseteq ForKey(k)
           /\ ForKey(k) \subseteq AllResults \cup {PanicError}
           /\ PanicError \in ForKey(k) <=> k \in Panics
           /\ {Unset, ContextError, Panicking} \cap ForKey(k) = {}
           /\ PanicError \notin FnResults[k]
BY FlightAssumption DEF ForKey, AllResults, Marks

LEMMA InitIInv == Init => IInv
<1> SUFFICES ASSUME Init PROVE IInv
  OBVIOUS
<1>1. TypeOK
  BY FlightAssumption DEF Init, TypeOK, Stages, Answers, Marks
<1>2. HoldsACall /\ EntryIsOwn /\ OneLeaderPerCall /\ SharersWantTheSame /\ OutcomeIsSet
  BY DEF Init, HoldsACall, EntryIsOwn, OneLeaderPerCall, SharersWantTheSame, OutcomeIsSet,
         Registered, Leading
<1>3. NoResultRetained /\ WaiterHasLeader
  BY DEF Init, NoResultRetained, WaiterHasLeader
<1>4. AnswerIsForKey
  BY FlightAssumption DEF Init, AnswerIsForKey
<1> QED
  BY <1>1, <1>2, <1>3, <1>4 DEF IInv

-----------------------------------------------------------------------------
(***************************************************************************)
(* Each action preserves the invariant.                                    *)
(***************************************************************************)
LEMMA PrepareKeeps ==
    ASSUME IInv, NEW p \in Callers, NEW k \in Keys, Prepare(p, k)
    PROVE  IInv'
<1> USE DEF IInv, Prepare
<1>1. TypeOK'
  BY FlightAssumption DEF TypeOK, Answers, Marks
<1>2. HoldsACall'
  BY DEF TypeOK, HoldsACall
<1>3. EntryIsOwn' /\ OneLeaderPerCall' /\ SharersWantTheSame'
  BY DEF TypeOK, EntryIsOwn, OneLeaderPerCall, SharersWantTheSame, Registered, Leading
<1>4. OutcomeIsSet'
  BY DEF TypeOK, OutcomeIsSet
<1>5. NoResultRetained'
  BY DEF TypeOK, NoResultRetained, Registered
<1>6. WaiterHasLeader'
  BY DEF TypeOK, WaiterHasLeader, Running
<1>7. AnswerIsForKey'
  BY FlightAssumption DEF TypeOK, AnswerIsForKey
<1> QED
  BY <1>1, <1>2, <1>3, <1>4, <1>5, <1>6, <1>7

LEMMA ContextEndsKeeps ==
    ASSUME IInv, NEW p \in Callers, ContextEnds(p)
    PROVE  IInv'
<1> USE DEF IInv, ContextEnds
<1>1. TypeOK'
  BY DEF TypeOK
<1>2. HoldsACall' /\ EntryIsOwn' /\ OneLeaderPerCall' /\ SharersWantTheSame' /\ OutcomeIsSet'
  BY DEF HoldsACall, EntryIsOwn, OneLeaderPerCall, SharersWantTheSame, OutcomeIsSet, Registered, Leading
<1>3. NoResultRetained' /\ WaiterHasLeader' /\ AnswerIsForKey'
  BY DEF NoResultRetained, WaiterHasLeader, AnswerIsForKey, Registered, Running
<1> QED
  BY <1>1, <1>2, <1>3

LEMMA ShareKeeps ==
    ASSUME IInv, NEW p \in Callers, Share(p)
    PROVE  IInv'
<1> USE DEF IInv
<1> DEFINE c == calls[want[p]]
<1>1. PICK q \in Callers : Registered(q) /\ want[q] = want[p] /\ ref[q] = c
  BY DEF Share, NoResultRetained, TypeOK
<1>2. c \in CallIds /\ p # q /\ stage[p] = "out" /\ Leading(q)
  BY <1>1 DEF Share, TypeOK, Registered, Leading
<1>3. TypeOK'
  BY <1>2 DEF Share, TypeOK, Stages, Answers, Marks
<1>4. HoldsACall'
  BY <1>2 DEF Share, TypeOK, HoldsACall
<1>5. EntryIsOwn' /\ OneLeaderPerCall'
  BY DEF Share, TypeOK, EntryIsOwn, OneLeaderPerCall, Registered, Leading
<1>6. SharersWantTheSame'
  BY <1>1, <1>2 DEF Share, TypeOK, SharersWantTheSame, OneLeaderPerCall, Leading
<1>7. OutcomeIsSet'
  BY DEF Share, TypeOK, OutcomeIsSet
<1>8. NoResultRetained'
  BY DEF Share, TypeOK, NoResultRetained, Registered
<1>9. WaiterHasLeader'
  <2>1. Running(q) \/ call[c].done
    BY <1>1 DEF Registered, Running, OutcomeIsSet
  <2> QED
    BY <1>1, <1>2, <2>1 DEF Share, TypeOK, WaiterHasLeader, Running
<1>10. AnswerIsForKey'
  <2>1. call[c].done => call[c].outcome \in ForKey(want[p])
    BY <1>1 DEF Registered, OutcomeIsSet
  <2> QED
    BY <1>2, <2>1, FlightAssumption DEF Share, TypeOK, AnswerIsForKey
<1> QED
  BY <1>3, <1>4, <1>5, <1>6, <1>7, <1>8, <1>9, <1>10

\* A new leader's call is referred to by nobody else.
LEMMA LeadKeeps ==
    ASSUME IInv, NEW p \in Callers, Lead(p)
    PROVE  IInv'
<1> USE DEF IInv
<1>1. PICK c \in CallIds : Unreachable(c) /\ LeadWith(p, c)
  BY DEF Lead
<1>2. /\ stage[p] = "out" /\ calls[want[p]] = NoCall /\ want[p] \in Keys
      /\ \A q \in Callers : ref[q] # c
      /\ \A k \in Keys : calls[k] # c
  BY <1>1 DEF Lead, Unreachable, TypeOK
<1>3. TypeOK'
  BY <1>1 DEF LeadWith, TypeOK, Stages, Answers, Marks
<1>4. HoldsACall'
  BY <1>1 DEF LeadWith, TypeOK, HoldsACall
<1>5. EntryIsOwn'
  BY <1>1, <1>2, FlightAssumption DEF LeadWith, TypeOK, EntryIsOwn, Registered, HoldsACall
<1>6. OneLeaderPerCall' /\ SharersWantTheSame'
  BY <1>1, <1>2 DEF LeadWith, TypeOK, OneLeaderPerCall, SharersWantTheSame, Leading
<1>7. OutcomeIsSet'
  BY <1>1, <1>2 DEF LeadWith, TypeOK, OutcomeIsSet, HoldsACall
<1>8. NoResultRetained'
  BY <1>1, <1>2 DEF LeadWith, TypeOK, NoResultRetained, Registered
<1>9. WaiterHasLeader'
  BY <1>1, <1>2 DEF LeadWith, TypeOK, WaiterHasLeader, Running, HoldsACall
<1>10. AnswerIsForKey'
  BY <1>1, <1>2, FlightAssumption DEF LeadWith, TypeOK, AnswerIsForKey, HoldsACall
<1> QED
  BY <1>3, <1>4, <1>5, <1>6, <1>7, <1>8, <1>9, <1>10

\* Leaving DoContext with an answer for the key: a waiter leaves at any time, a
\* leader only once its call is out of the map.
LEMMA LeaveWithKeeps ==
    ASSUME IInv, NEW p \in Callers, stage[p] \in {"waiting", "returning"},
           NEW a \in ForKey(want[p]) \cup {ContextError, Panicking},
           a = Panicking => want[p] \in Panics,
           LeaveWith(p, a)
    PROVE  IInv'
<1> USE DEF IInv, LeaveWith
<1>1. want[p] \in Keys
  BY DEF TypeOK
<1>2. TypeOK'
  BY <1>1, ForKeyFacts DEF TypeOK, Stages, Answers, Marks
<1>3. HoldsACall'
  BY DEF TypeOK, HoldsACall
<1>4. EntryIsOwn' /\ OneLeaderPerCall' /\ SharersWantTheSame'
  BY DEF TypeOK, EntryIsOwn, OneLeaderPerCall, SharersWantTheSame, Registered, Leading
<1>5. OutcomeIsSet'
  BY DEF TypeOK, OutcomeIsSet
<1>6. NoResultRetained'
  BY DEF TypeOK, NoResultRetained, Registered
<1>7. WaiterHasLeader'
  BY DEF TypeOK, WaiterHasLeader, Running
<1>8. AnswerIsForKey'
  BY DEF TypeOK, AnswerIsForKey
<1> QED
  BY <1>2, <1>3, <1>4, <1>5, <1>6, <1>7, <1>8

LEMMA LeaveKeeps ==
    ASSUME IInv, NEW p \in Callers, Leave(p) \/ Return(p)
    PROVE  IInv'
<1> USE DEF IInv
<1>1. CASE Join(p)
  BY <1>1, LeaveWithKeeps, ForKeyFacts, FlightAssumption DEF Join, AnswerIsForKey, TypeOK
<1>2. CASE Abandon(p)
  BY <1>2, LeaveWithKeeps, FlightAssumption DEF Abandon
<1>3. CASE Return(p)
  BY <1>3, LeaveWithKeeps, ForKeyFacts, FlightAssumption DEF Return, OutcomeIsSet, TypeOK
<1> QED
  BY <1>1, <1>2, <1>3 DEF Leave

\* fn ends with an outcome for the key of the caller that runs it.
LEMMA FnEndsKeeps ==
    ASSUME IInv, NEW p \in Callers, FnEnds(p)
    PROVE  IInv'
<1> USE DEF IInv
<1>1. PICK r \in ForKey(want[p]) :
        /\ stage[p] = "running"
        /\ call' = [call EXCEPT ![ref[p]].outcome = r]
        /\ stage' = [stage EXCEPT ![p] = "closing"]
        /\ recovered' = [recovered EXCEPT ![p] = (r = PanicError)]
        /\ UNCHANGED <<calls, want, ctxDone, ref, answer>>
  <2>1. CASE FnPanics(p)
    BY <2>1 DEF FnPanics, ForKey
  <2>2. ASSUME NEW r \in FnResults[want[p]], FnReturns(p, r)
        PROVE  /\ r \in ForKey(want[p])
               /\ recovered' = [recovered EXCEPT ![p] = (r = PanicError)]
    <3>1. ~recovered[p] /\ r # PanicError
      BY <2>2, ForKeyFacts DEF FnReturns, OutcomeIsSet, TypeOK
    <3> QED
      BY <2>2, <3>1 DEF FnReturns, TypeOK, ForKey
  <2> QED
    BY <2>1, <2>2 DEF FnEnds, FnReturns
<1>2. ref[p] \in CallIds /\ want[p] \in Keys
  BY <1>1 DEF HoldsACall, TypeOK
<1>3. TypeOK'
  BY <1>1, <1>2, ForKeyFacts DEF TypeOK, Stages
<1>4. HoldsACall'
  BY <1>1 DEF TypeOK, HoldsACall
<1>5. EntryIsOwn' /\ OneLeaderPerCall' /\ SharersWantTheSame'
  BY <1>1 DEF TypeOK, EntryIsOwn, OneLeaderPerCall, SharersWantTheSame, Registered, Leading
<1>6. OutcomeIsSet'
  <2>1. /\ call'[ref[p]].outcome = r /\ call'[ref[p]].done = call[ref[p]].done
        /\ recovered'[p] = (r = PanicError)
        /\ stage'[p] = "closing" /\ want'[p] = want[p] /\ ref'[p] = ref[p]
        /\ ~call[ref[p]].done
    BY <1>1, <1>2 DEF TypeOK, OutcomeIsSet
  <2>2. ASSUME NEW q \in Callers, q # p
        PROVE  /\ stage'[q] = stage[q] /\ want'[q] = want[q] /\ ref'[q] = ref[q]
               /\ recovered'[q] = recovered[q]
               /\ Leading(q) => call'[ref[q]] = call[ref[q]]
    BY <1>1, <1>2, <2>2 DEF TypeOK, OneLeaderPerCall, Leading, HoldsACall
  <2>3. ForKey(want[p])' = ForKey(want[p]) /\ \A q \in Callers : ForKey(want[q])' = ForKey(want[q])
    BY <1>1 DEF ForKey
  <2>4. ASSUME NEW q \in Callers
        PROVE  /\ stage'[q] \in {"closing", "deleting", "returning"} =>
                     /\ call'[ref'[q]].outcome \in ForKey(want[q])
                     /\ recovered'[q] <=> call'[ref'[q]].outcome = PanicError
               /\ stage'[q] \in {"out", "waiting", "running"} => ~recovered'[q]
               /\ stage'[q] = "deleting" => call'[ref'[q]].done
               /\ stage'[q] \in {"running", "closing"} => ~call'[ref'[q]].done
    <3>1. CASE q = p
      BY <2>1, <3>1
    <3>2. CASE q # p
      BY <2>2, <3>2 DEF OutcomeIsSet, Leading
    <3> QED
      BY <3>1, <3>2
  <2> QED
    BY <2>3, <2>4 DEF OutcomeIsSet
<1>7. NoResultRetained'
  BY <1>1 DEF TypeOK, NoResultRetained, Registered
<1>8. WaiterHasLeader'
  BY <1>1, <1>2 DEF TypeOK, WaiterHasLeader, Running, HoldsACall
<1>9. AnswerIsForKey'
  BY <1>1, <1>2 DEF TypeOK, AnswerIsForKey, SharersWantTheSame, Leading, HoldsACall
<1> QED
  BY <1>3, <1>4, <1>5, <1>6, <1>7, <1>8, <1>9

\* Closing the channel releases waiters of the leader's key, with its outcome.
LEMMA CloseDoneKeeps ==
    ASSUME IInv, NEW p \in Callers, CloseDone(p)
    PROVE  IInv'
<1> USE DEF IInv, CloseDone
<1>1. ref[p] \in CallIds /\ call[ref[p]].outcome \in ForKey(want[p]) /\ Leading(p)
  BY DEF HoldsACall, OutcomeIsSet, Leading
<1>2. TypeOK'
  BY <1>1 DEF TypeOK, Stages
<1>3. HoldsACall'
  BY DEF TypeOK, HoldsACall
<1>4. EntryIsOwn' /\ OneLeaderPerCall' /\ SharersWantTheSame'
  BY DEF TypeOK, EntryIsOwn, OneLeaderPerCall, SharersWantTheSame, Registered, Leading
<1>5. OutcomeIsSet'
  BY <1>1 DEF TypeOK, OutcomeIsSet, OneLeaderPerCall, Leading, HoldsACall
<1>6. NoResultRetained'
  BY DEF TypeOK, NoResultRetained, Registered
<1>7. WaiterHasLeader'
  BY <1>1 DEF TypeOK, WaiterHasLeader, Running, HoldsACall
<1>8. AnswerIsForKey'
  BY <1>1 DEF TypeOK, AnswerIsForKey, SharersWantTheSame, HoldsACall
<1> QED
  BY <1>2, <1>3, <1>4, <1>5, <1>6, <1>7, <1>8

\* The delete removes the leader's own entry.
LEMMA DeleteCallKeeps ==
    ASSUME IInv, NEW p \in Callers, DeleteCall(p)
    PROVE  IInv'
<1> USE DEF IInv, DeleteCall
<1>1. TypeOK'
  BY DEF TypeOK, Stages
<1>2. HoldsACall'
  BY DEF TypeOK, HoldsACall
<1>3. EntryIsOwn'
  BY DEF TypeOK, EntryIsOwn, OneLeaderPerCall, Registered, Leading
<1>4. OneLeaderPerCall' /\ SharersWantTheSame'
  BY DEF TypeOK, OneLeaderPerCall, SharersWantTheSame, Leading
<1>5. OutcomeIsSet'
  BY DEF TypeOK, OutcomeIsSet
<1>6. NoResultRetained'
  BY DEF TypeOK, NoResultRetained, Registered
<1>7. WaiterHasLeader'
  BY DEF TypeOK, WaiterHasLeader, Running
<1>8. AnswerIsForKey'
  BY DEF TypeOK, AnswerIsForKey
<1> QED
  BY <1>1, <1>2, <1>3, <1>4, <1>5, <1>6, <1>7, <1>8

LEMMA StutterKeeps == ASSUME IInv, UNCHANGED vars PROVE IInv'
BY DEF IInv, vars, TypeOK, HoldsACall, EntryIsOwn, OneLeaderPerCall, SharersWantTheSame,
       OutcomeIsSet, NoResultRetained, WaiterHasLeader, AnswerIsForKey, Registered, Leading, Running

\* The invariant is inductive: no step of any caller breaks it.
THEOREM Inductive == IInv /\ [Next]_vars => IInv'
<1> SUFFICES ASSUME IInv, [Next]_vars PROVE IInv'
  OBVIOUS
<1>1. CASE Next
  <2>1. PICK p \in Callers :
          \/ \E k \in Keys : Prepare(p, k)
          \/ ContextEnds(p) \/ Enter(p) \/ Leave(p) \/ FnEnds(p)
          \/ CloseDone(p) \/ DeleteCall(p) \/ Return(p)
    BY <1>1 DEF Next
  <2> QED
    BY <2>1, PrepareKeeps, ContextEndsKeeps, ShareKeeps, LeadKeeps, LeaveKeeps, FnEndsKeeps,
       CloseDoneKeeps, DeleteCallKeeps DEF Enter
<1>2. CASE UNCHANGED vars
  BY <1>2, StutterKeeps
<1> QED
  BY <1>1, <1>2

\* One fn at a time for each key.
LEMMA OneFlightFromIInv == IInv => OneFlightPerKey
BY DEF IInv, OneFlightPerKey, EntryIsOwn, OneLeaderPerCall, Registered, Leading

THEOREM Invariance == Spec => []IInv
<1>1. Init => IInv
  BY InitIInv
<1>2. IInv /\ [Next]_vars => IInv'
  BY Inductive
<1> QED
  BY <1>1, <1>2, PTL DEF Spec

\* Every variable keeps its type.
THEOREM TypeCorrect == Spec => []TypeOK
BY Invariance, PTL DEF IInv

\* Coalescing: two callers never run fn for one key at the same time.
THEOREM Coalescing == Spec => []OneFlightPerKey
BY Invariance, OneFlightFromIInv, PTL

\* An entry of the map belongs to a call still led.
THEOREM NothingIsLeftBehind == Spec => []NoResultRetained
BY Invariance, PTL DEF IInv

\* A waiter's call is closed, or will be by its leader.
THEOREM WaitersAreLed == Spec => []WaiterHasLeader
BY Invariance, PTL DEF IInv

\* Callers are only given outcomes of their own key.
THEOREM AnswersAreForTheKey == Spec => []AnswerIsForKey
BY Invariance, PTL DEF IInv

\* A panic of fn goes to the caller that ran it, and to no other.
LEMMA PanicStep ==
    ASSUME IInv, [Next]_vars, NEW p \in Callers, stage[p] # "out", stage'[p] = "out"
    PROVE  /\ answer'[p] = Panicking => (Leading(p) /\ call[ref[p]].outcome = PanicError)
           /\ (Leading(p) /\ call[ref[p]].outcome = PanicError) => answer'[p] = Panicking
<1> USE DEF IInv
<1>1. Join(p) \/ Abandon(p) \/ Return(p)
  <2>1. ASSUME NEW q \in Callers, NEW k \in Keys, Prepare(q, k) PROVE FALSE
    BY <2>1 DEF Prepare
  <2>2. ASSUME NEW q \in Callers, ContextEnds(q) PROVE FALSE
    BY <2>2 DEF ContextEnds
  <2>3. ASSUME NEW q \in Callers, Enter(q) PROVE FALSE
    BY <2>3 DEF Enter, Share, Lead, LeadWith, TypeOK
  <2>4. ASSUME NEW q \in Callers, FnEnds(q) \/ CloseDone(q) \/ DeleteCall(q) PROVE FALSE
    BY <2>4 DEF FnEnds, FnReturns, FnPanics, CloseDone, DeleteCall, TypeOK
  <2>5. ASSUME NEW q \in Callers, q # p, Leave(q) \/ Return(q) PROVE FALSE
    BY <2>5 DEF Leave, Join, Abandon, Return, LeaveWith, TypeOK
  <2>6. ~UNCHANGED vars
    BY DEF vars
  <2> QED
    BY <2>1, <2>2, <2>3, <2>4, <2>5, <2>6 DEF Next, Leave
<1>2. CASE Join(p)
  <2>1. answer'[p] # Panicking
    BY <1>2, ForKeyFacts DEF Join, LeaveWith, AnswerIsForKey, TypeOK
  <2> QED
    BY <1>2, <2>1 DEF Join, Leading
<1>3. CASE Abandon(p)
  BY <1>3, FlightAssumption DEF Abandon, LeaveWith, Leading, TypeOK
<1>4. CASE Return(p)
  <2>1. /\ Leading(p) /\ call[ref[p]].outcome \in ForKey(want[p])
        /\ recovered[p] <=> call[ref[p]].outcome = PanicError
        /\ Panicking \notin ForKey(want[p])
    BY <1>4, ForKeyFacts DEF Return, OutcomeIsSet, Leading, TypeOK
  <2>2. answer'[p] = IF recovered[p] THEN Panicking ELSE call[ref[p]].outcome
    BY <1>4 DEF Return, LeaveWith, TypeOK
  <2> QED
    BY <2>1, <2>2
<1> QED
  BY <1>1, <1>2, <1>3, <1>4

THEOREM PanicsReachTheirLeader == Spec => PanicReachesLeaderOnly
<1>1. IInv /\ [Next]_vars =>
        [\A p \in Callers : (stage[p] # "out" /\ stage'[p] = "out") =>
            /\ answer'[p] = Panicking => (Leading(p) /\ call[ref[p]].outcome = PanicError)
            /\ (Leading(p) /\ call[ref[p]].outcome = PanicError) => answer'[p] = Panicking]_vars
  BY PanicStep
<1> QED
  BY <1>1, Invariance, PTL DEF Spec, PanicReachesLeaderOnly
=============================================================================
