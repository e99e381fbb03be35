------------------------------- MODULE Flight -------------------------------
(***************************************************************************)
(* Request coalescing: Group.DoContext of internal/flight/flight.go.       *)
(*                                                                         *)
(* A caller that finds no call registered for its key becomes the leader:  *)
(* it registers a call, runs fn, publishes the outcome, closes the done    *)
(* channel, removes the call from the map and returns (or re-panics).  A   *)
(* caller that finds a call waits for it, or for its own context.          *)
(*                                                                         *)
(* Each step between two synchronisation points of the code is one action: *)
(* the look-up and registration under g.mu, the end of fn, close(c.done),  *)
(* the delete under g.mu, and the return are separate, so callers arrive   *)
(* in each of the windows between them.  A *call object is an element of   *)
(* CallIds; an object nobody refers to any more may be allocated again.    *)
(***************************************************************************)
CONSTANTS
    Callers,        \* goroutines calling DoContext
    Keys,           \* the keys of Group.calls
    CallIds,        \* addresses of call objects
    NoCall,         \* the nil *call
    FnResults,      \* FnResults[k]: what fn may return for k, value or error
    Panics,         \* the keys whose fn may panic
    Unset,          \* the zero (value, err) of a call fn has not completed
    PanicError,     \* the error recorded when fn panicked
    ContextError,   \* ctx.Err() of the waiting caller
    Panicking       \* not a result: the leader's call ends by panicking again

Marks == {Unset, PanicError, ContextError, Panicking}

AllResults == UNION {FnResults[k] : k \in Keys}

ASSUME FlightAssumption ==
    /\ NoCall \notin CallIds
    /\ Panics \subseteq Keys
    /\ \A k \in Keys : FnResults[k] \cap Marks = {}
    /\ Unset \notin {PanicError, ContextError, Panicking}
    /\ PanicError \notin {ContextError, Panicking}
    /\ ContextError # Panicking

VARIABLES
    calls,      \* Group.calls
    call,       \* the call objects: done is the closed channel, outcome (value, err)
    stage,      \* where each caller is in DoContext
    want,       \* the key each caller passes
    ctxDone,    \* the context each caller passes has ended
    ref,        \* the call a caller waits for (existing) or leads (c)
    recovered,  \* the leader's recovered panic
    answer      \* what DoContext last returned to the caller

vars == <<calls, call, stage, want, ctxDone, ref, recovered, answer>>

Stages == {"out", "waiting", "running", "closing", "deleting", "returning"}

Answers == AllResults \cup Marks

TypeOK ==
    /\ calls \in [Keys -> CallIds \cup {NoCall}]
    /\ call \in [CallIds -> [done : BOOLEAN, outcome : AllResults \cup {Unset, PanicError}]]
    /\ stage \in [Callers -> Stages]
    /\ want \in [Callers -> Keys]
    /\ ctxDone \in [Callers -> BOOLEAN]
    /\ ref \in [Callers -> CallIds \cup {NoCall}]
    /\ recovered \in [Callers -> BOOLEAN]
    /\ answer \in [Callers -> Answers]

Init ==
    /\ calls = [k \in Keys |-> NoCall]
    /\ call = [c \in CallIds |-> [done |-> FALSE, outcome |-> Unset]]
    /\ stage = [p \in Callers |-> "out"]
    /\ want \in [Callers -> Keys]
    /\ ctxDone = [p \in Callers |-> FALSE]
    /\ ref = [p \in Callers |-> NoCall]
    /\ recovered = [p \in Callers |-> FALSE]
    /\ answer = [p \in Callers |-> Unset]

(***************************************************************************)
(* The caller, outside DoContext, takes up another key with a new context; *)
(* a context may end at any time.                                          *)
(***************************************************************************)
Prepare(p, k) ==
    /\ stage[p] = "out"
    /\ want' = [want EXCEPT ![p] = k]
    /\ ctxDone' = [ctxDone EXCEPT ![p] = FALSE]
    /\ answer' = [answer EXCEPT ![p] = Unset]
    /\ UNCHANGED <<calls, call, stage, ref, recovered>>

ContextEnds(p) ==
    /\ ~ctxDone[p]
    /\ ctxDone' = [ctxDone EXCEPT ![p] = TRUE]
    /\ UNCHANGED <<calls, call, stage, want, ref, recovered, answer>>

(***************************************************************************)
(* The section under g.mu that starts DoContext.                           *)
(***************************************************************************)
Share(p) ==
    /\ stage[p] = "out"
    /\ calls[want[p]] # NoCall
    /\ ref' = [ref EXCEPT ![p] = calls[want[p]]]
    /\ stage' = [stage EXCEPT ![p] = "waiting"]
    /\ answer' = [answer EXCEPT ![p] = Unset]
    /\ UNCHANGED <<calls, call, want, ctxDone, recovered>>

\* Variant: call objects are recycled as soon as the map lets go of them.
UnreachableFromMap(c) == \A k \in Keys : calls[k] # c

Unreachable(c) ==
    /\ \A p \in Callers : ref[p] # c
    /\ \A k \in Keys : calls[k] # c

LeadWith(p, c) ==
    /\ call' = [call EXCEPT ![c] = [done |-> FALSE, outcome |-> Unset]]
    /\ calls' = [calls EXCEPT ![want[p]] = c]
    /\ ref' = [ref EXCEPT ![p] = c]
    /\ stage' = [stage EXCEPT ![p] = "running"]
    /\ answer' = [answer EXCEPT ![p] = Unset]
    /\ UNCHANGED <<want, ctxDone, recovered>>

\* Variant: registers without looking for a registered call.
LeadUnchecked(p) ==
    /\ stage[p] = "out"
    /\ \E c \in CallIds : Unreachable(c) /\ LeadWith(p, c)

Lead(p) ==
    /\ stage[p] = "out"
    /\ calls[want[p]] = NoCall
    /\ \E c \in CallIds : Unreachable(c) /\ LeadWith(p, c)

Enter(p) == Share(p) \/ Lead(p)

(***************************************************************************)
(* The waiter's select.  With both channels ready Go picks either case, so *)
(* neither action excludes the other.                                      *)
(***************************************************************************)
LeaveWith(p, a) ==
    /\ answer' = [answer EXCEPT ![p] = a]
    /\ ref' = [ref EXCEPT ![p] = NoCall]
    /\ recovered' = [recovered EXCEPT ![p] = FALSE]
    /\ stage' = [stage EXCEPT ![p] = "out"]
    /\ UNCHANGED <<calls, call, want, ctxDone>>

Join(p) ==
    /\ stage[p] = "waiting"
    /\ call[ref[p]].done
    /\ LeaveWith(p, call[ref[p]].outcome)

Abandon(p) ==
    /\ stage[p] = "waiting"
    /\ ctxDone[p]
    /\ LeaveWith(p, ContextError)

(***************************************************************************)
(* The leader: fn ends by returning r or by panicking, then the deferred   *)
(* function publishes the outcome and unregisters the call.                *)
(***************************************************************************)
FnReturns(p, r) ==
    /\ stage[p] = "running"
    /\ call' = [call EXCEPT ![ref[p]].outcome = r]
    /\ stage' = [stage EXCEPT ![p] = "closing"]
    /\ UNCHANGED <<calls, want, ctxDone, ref, recovered, answer>>

\* Variant: the recovered value itself is stored as the outcome.
FnPanicsRaw(p) ==
    /\ stage[p] = "running"
    /\ want[p] \in Panics
    /\ recovered' = [recovered EXCEPT ![p] = TRUE]
    /\ call' = [call EXCEPT ![ref[p]].outcome = Panicking]
    /\ stage' = [stage EXCEPT ![p] = "closing"]
    /\ UNCHANGED <<calls, want, ctxDone, ref, answer>>

\* Variant: close(c.done) is not deferred, so a panic skips it.
FnPanicsUnclosed(p) ==
    /\ stage[p] = "running"
    /\ want[p] \in Panics
    /\ recovered' = [recovered EXCEPT ![p] = TRUE]
    /\ call' = [call EXCEPT ![ref[p]].outcome = PanicError]
    /\ stage' = [stage EXCEPT ![p] = "deleting"]
    /\ UNCHANGED <<calls, want, ctxDone, ref, answer>>

FnPanics(p) ==
    /\ stage[p] = "running"
    /\ want[p] \in Panics
    /\ recovered' = [recovered EXCEPT ![p] = TRUE]
    /\ call' = [call EXCEPT ![ref[p]].outcome = PanicError]
    /\ stage' = [stage EXCEPT ![p] = "closing"]
    /\ UNCHANGED <<calls, want, ctxDone, ref, answer>>

CloseDone(p) ==
    /\ stage[p] = "closing"
    /\ call' = [call EXCEPT ![ref[p]].done = TRUE]
    /\ stage' = [stage EXCEPT ![p] = "deleting"]
    /\ UNCHANGED <<calls, want, ctxDone, ref, recovered, answer>>

\* Variant: the delete is not deferred, so a panic leaves the call in the map.
DeleteCallUnlessPanicked(p) ==
    /\ stage[p] = "deleting"
    /\ calls' = IF recovered[p] THEN calls ELSE [calls EXCEPT ![want[p]] = NoCall]
    /\ stage' = [stage EXCEPT ![p] = "returning"]
    /\ UNCHANGED <<call, want, ctxDone, ref, recovered, answer>>

DeleteCall(p) ==
    /\ stage[p] = "deleting"
    /\ calls' = [calls EXCEPT ![want[p]] = NoCall]
    /\ stage' = [stage EXCEPT ![p] = "returning"]
    /\ UNCHANGED <<call, want, ctxDone, ref, recovered, answer>>

\* Variant: the recovered panic is not raised again.
ReturnAlways(p) ==
    /\ stage[p] = "returning"
    /\ LeaveWith(p, call[ref[p]].outcome)

Return(p) ==
    /\ stage[p] = "returning"
    /\ LeaveWith(p, IF recovered[p] THEN Panicking ELSE call[ref[p]].outcome)

FnEnds(p) == FnPanics(p) \/ \E r \in FnResults[want[p]] : FnReturns(p, r)

Leave(p) == Join(p) \/ Abandon(p)

Next ==
    \E p \in Callers :
        \/ \E k \in Keys : Prepare(p, k)
        \/ ContextEnds(p)
        \/ Enter(p)
        \/ Leave(p)
        \/ FnEnds(p)
        \/ CloseDone(p)
        \/ DeleteCall(p)
        \/ Return(p)

(***************************************************************************)
(* The scheduler runs every goroutine that can take a step, and fn ends:   *)
(* the server only passes an fn whose load runs under a timeout.  Nothing  *)
(* obliges a caller to call, or a context to end.                          *)
(***************************************************************************)
Fairness ==
    \A p \in Callers :
        /\ WF_vars(Leave(p))
        /\ WF_vars(FnEnds(p))
        /\ WF_vars(CloseDone(p))
        /\ WF_vars(DeleteCall(p))
        /\ WF_vars(Return(p))

Spec == Init /\ [][Next]_vars

FairSpec == Spec /\ Fairness

-----------------------------------------------------------------------------
(***************************************************************************)
(* What DoContext promises.                                                *)
(***************************************************************************)
Running(p) == stage[p] \in {"running", "closing"}
Registered(p) == stage[p] \in {"running", "closing", "deleting"}
Leading(p) == stage[p] \in {"running", "closing", "deleting", "returning"}

\* Coalescing: at no time do two callers run fn for one key, whatever the
\* order of look-ups, deletes and re-entries (flight.go 22-38, 47-50).
OneFlightPerKey ==
    \A p, q \in Callers :
        (Registered(p) /\ Registered(q) /\ want[p] = want[q]) => p = q

\* "without retaining results" (flight.go 9): an entry of the map is the call
\* of a leader that has not returned, so an outcome, an error above all, is
\* shared only with callers whose DoContext overlaps the leader's.
NoResultRetained ==
    \A k \in Keys : calls[k] # NoCall =>
        \E p \in Callers : Registered(p) /\ want[p] = k /\ ref[p] = calls[k]

\* A waiter always waits for something that will come: its call is closed, or
\* the leader of that very call, for the same key, is still to close it.
WaiterHasLeader ==
    \A p \in Callers : stage[p] = "waiting" =>
        \/ call[ref[p]].done
        \/ \E q \in Callers : Running(q) /\ ref[q] = ref[p] /\ want[q] = want[p]

\* What a caller is given, or would be given now, was returned by fn for its
\* own key or stands for a panic of such an fn: never the zero value of an
\* unfinished call, and never the outcome of another key's call that reuses
\* the object (flight.go 30, 47, 52).
ForKey(k) == FnResults[k] \cup (IF k \in Panics THEN {PanicError} ELSE {})

AnswerIsForKey ==
    \A p \in Callers :
        /\ (stage[p] = "waiting" /\ call[ref[p]].done) => call[ref[p]].outcome \in ForKey(want[p])
        /\ answer[p] \in ForKey(want[p]) \cup {Unset, ContextError, Panicking}
        /\ answer[p] = Panicking => want[p] \in Panics

\* The panic of fn is not swallowed: the caller that ran it panics in turn,
\* and it alone; those that waited are given an error (flight.go 43-45, 54).
PanicReachesLeaderOnly ==
    [][\A p \in Callers : (stage[p] # "out" /\ stage'[p] = "out") =>
            /\ answer'[p] = Panicking => (Leading(p) /\ call[ref[p]].outcome = PanicError)
            /\ (Leading(p) /\ call[ref[p]].outcome = PanicError) => answer'[p] = Panicking]_vars

\* Nobody waits forever: every caller of DoContext, waiting or leading, also
\* when fn panics, comes out of it.
EveryCallReturns ==
    \A p \in Callers : stage[p] # "out" ~> stage[p] = "out"
=============================================================================
