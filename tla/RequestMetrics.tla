--------------------------- MODULE RequestMetrics ---------------------------
(***************************************************************************)
(* The counters of internal/server/metrics.go: observabilityMiddleware and *)
(* its observedWriter around the rest of the chain, the places in          *)
(* serveTile, serveGrid, serveWMTSTile and cachedResponse that count, and  *)
(* serveMetrics, which reads the counters while requests bump them.        *)
(*                                                                         *)
(* Each action touches one atomic counter at most.  What a load finds, and *)
(* what handlers that count nothing answer, is a choice.                   *)
(***************************************************************************)
EXTENDS Integers, Sequences, FiniteSets

CONSTANTS
    Requests,       \* goroutines serving requests
    MaxRequests     \* bound: requests served in a behaviour

ASSUME RequestMetricsAssumption == MaxRequests \in Nat /\ IsFiniteSet(Requests)

VARIABLES
    count,      \* the atomic counters, those of the response cache included
    stage,      \* where each request is
    kind,       \* what it asks for
    pending,    \* the status its handler is about to write
    observed,   \* observedWriter.status, 0 for none
    sent,       \* the status net/http has sent, 0 for none (external)
    answered,   \* how many clients were sent a status of each class
    scraped     \* what a scrape has read, in the order of ScrapeOrder

vars == <<count, stage, kind, pending, observed, sent, answered, scraped>>

Kinds == {"tile", "wmts", "metrics", "other"}
Statuses == {200, 304, 404, 406, 500}
Classes == {"responses2xx", "responses3xx", "responses4xx", "responses5xx"}
TileCounters == {"tileRequests", "tileNotFound", "databaseErrors", "coalesced", "hits", "misses"}
Counters == {"requests", "inFlight"} \cup Classes \cup TileCounters

Class(status) ==
    CASE status \div 100 = 2 -> "responses2xx"
      [] status \div 100 = 3 -> "responses3xx"
      [] status \div 100 = 4 -> "responses4xx"
      [] status \div 100 = 5 -> "responses5xx"

\* Variant: the cache is asked where its values are reported, after the rest.
ScrapeCacheLast ==
    <<"requests", "responses2xx", "responses3xx", "responses4xx", "responses5xx", "inFlight",
      "tileRequests", "tileNotFound", "databaseErrors", "coalesced", "hits", "misses">>

\* The order in which serveMetrics loads what it reports.
ScrapeOrder ==
    <<"hits", "misses", "requests", "responses2xx", "responses3xx", "responses4xx",
      "responses5xx", "inFlight", "tileRequests", "tileNotFound", "databaseErrors", "coalesced">>

Stages == {"out", "arrived", "handling", "counted", "missed", "value", "failed",
           "header", "body", "panicked", "returned", "recorded"}

TypeOK ==
    /\ count \in [Counters -> Int]
    /\ stage \in [Requests -> Stages]
    /\ kind \in [Requests -> Kinds]
    /\ pending \in [Requests -> Statuses]
    /\ observed \in [Requests -> Statuses \cup {0}]
    /\ sent \in [Requests -> Statuses \cup {0}]
    /\ answered \in [Classes -> Nat]
    /\ scraped \in [Requests -> Seq(Int)]

Init ==
    /\ count = [c \in Counters |-> 0]
    /\ stage = [r \in Requests |-> "out"]
    /\ kind = [r \in Requests |-> "other"]
    /\ pending = [r \in Requests |-> 200]
    /\ observed = [r \in Requests |-> 0]
    /\ sent = [r \in Requests |-> 0]
    /\ answered = [c \in Classes |-> 0]
    /\ scraped = [r \in Requests |-> <<>>]

Bump(c) == count' = [count EXCEPT ![c] = @ + 1]

Move(r, from, to) ==
    /\ stage[r] = from
    /\ stage' = [stage EXCEPT ![r] = to]

Writing(r, from, status) ==
    /\ Move(r, from, "header")
    /\ pending' = [pending EXCEPT ![r] = status]
    /\ UNCHANGED <<kind, observed, sent, answered, scraped>>

Counting(r, from, to, c) ==
    /\ Move(r, from, to)
    /\ Bump(c)
    /\ UNCHANGED <<kind, pending, observed, sent, answered, scraped>>

(***************************************************************************)
(* observabilityMiddleware, up to the call of the next handler.            *)
(***************************************************************************)
Arrive(r, k) ==
    /\ count["requests"] < MaxRequests
    /\ Move(r, "out", "arrived")
    /\ Bump("requests")
    /\ kind' = [kind EXCEPT ![r] = k]
    /\ UNCHANGED <<pending, observed, sent, answered, scraped>>

Enter(r) == Counting(r, "arrived", "handling", "inFlight")

(***************************************************************************)
(* A tile request: serveTile counts it first, serveWMTSTile once its       *)
(* parameters are right.                                                   *)
(***************************************************************************)
IsTile(r) == kind[r] \in {"tile", "wmts"}

CountTile(r) == IsTile(r) /\ Counting(r, "handling", "counted", "tileRequests")

\* An unknown source, or an address outside of it.
Refuse(r) ==
    /\ kind[r] = "tile"
    /\ Bump("tileNotFound")
    /\ Writing(r, "counted", 404)

Hit(r) == Counting(r, "counted", "value", "hits")

Miss(r) == Counting(r, "counted", "missed", "misses")

\* DoContext returns to the leader, or to a caller that shared its call.
Loaded(r) ==
    /\ \E to \in {"value", "failed"} : Move(r, "missed", to)
    /\ UNCHANGED <<count, kind, pending, observed, sent, answered, scraped>>

Shared(r) == \E to \in {"value", "failed"} : Counting(r, "missed", to, "coalesced")

\* Variant: the error is counted before the context is looked at.
FailOrDropCounted(r) ==
    /\ Bump("databaseErrors")
    /\ \/ Writing(r, "failed", 500)
       \/ Move(r, "failed", "returned") /\ UNCHANGED <<kind, pending, observed, sent, answered, scraped>>

\* A failed load: dropped without an answer if the client has gone.
FailOrDrop(r) ==
    \/ Bump("databaseErrors") /\ Writing(r, "failed", 500)
    \/ Move(r, "failed", "returned") /\ UNCHANGED <<count, kind, pending, observed, sent, answered, scraped>>

\* A tile the source lacks is an error of a WMTS request.
NotFound(r) ==
    /\ Bump("tileNotFound")
    /\ Writing(r, "value", IF kind[r] = "wmts" THEN 500 ELSE 404)

Serve(r) ==
    /\ \E status \in {200, 304, 406} : Writing(r, "value", status)
    /\ UNCHANGED count

(***************************************************************************)
(* The scrape, and every handler that counts nothing.                      *)
(***************************************************************************)
ScrapeNext(r) ==
    /\ kind[r] = "metrics"
    /\ stage[r] = "handling"
    /\ Len(scraped[r]) < Len(ScrapeOrder)
    /\ scraped' = [scraped EXCEPT ![r] = Append(@, count[ScrapeOrder[Len(@) + 1]])]
    /\ UNCHANGED <<count, stage, kind, pending, observed, sent, answered>>

Report(r) ==
    /\ kind[r] = "metrics"
    /\ Len(scraped[r]) = Len(ScrapeOrder)
    /\ Writing(r, "handling", 200)
    /\ UNCHANGED count

Other(r) ==
    /\ kind[r] = "other"
    /\ \E status \in Statuses : Writing(r, "handling", status)
    /\ UNCHANGED count

(***************************************************************************)
(* The response.  net/http sends the first status it is given, or 200 with *)
(* the first bytes, and ignores later ones; observedWriter keeps the same  *)
(* account.                                                                *)
(***************************************************************************)
First(old, status) == IF old = 0 THEN status ELSE old

\* Variant: the writer remembers the last status it is given.
WriteHeaderAlways(r, status) ==
    /\ observed' = [observed EXCEPT ![r] = status]
    /\ sent' = [sent EXCEPT ![r] = First(@, status)]

WriteHeader(r, status) ==
    /\ observed' = [observed EXCEPT ![r] = First(@, status)]
    /\ sent' = [sent EXCEPT ![r] = First(@, status)]

Write(r) == WriteHeader(r, 200)

Header(r) ==
    /\ Move(r, "header", "body")
    /\ WriteHeader(r, pending[r])
    /\ UNCHANGED <<count, kind, pending, answered, scraped>>

\* The body of a 200 may be written without a status before it.
Body(r) ==
    /\ \/ Move(r, "body", "returned")
       \/ pending[r] = 200 /\ Move(r, "header", "returned")
    /\ Write(r)
    /\ UNCHANGED <<count, kind, pending, answered, scraped>>

\* A load, or a handler while it writes, panics; recoverMiddleware answers.
Panic(r) ==
    /\ \E from \in {"missed", "header", "body"} : Move(r, from, "panicked")
    /\ UNCHANGED <<count, kind, pending, observed, sent, answered, scraped>>

Recover(r) ==
    /\ Move(r, "panicked", "returned")
    /\ WriteHeader(r, 500)
    /\ UNCHANGED <<count, kind, pending, answered, scraped>>

(***************************************************************************)
(* The rest of observabilityMiddleware: record, and the deferred           *)
(* decrement, after which net/http sends what is left, 200 if nothing was  *)
(* written, and the request is forgotten.                                  *)
(***************************************************************************)
Record(r) == Counting(r, "returned", "recorded", Class(First(observed[r], 200)))

Leave(r) ==
    /\ Move(r, "recorded", "out")
    /\ count' = [count EXCEPT !["inFlight"] = @ - 1]
    /\ answered' = [answered EXCEPT ![Class(First(sent[r], 200))] = @ + 1]
    /\ kind' = [kind EXCEPT ![r] = "other"]
    /\ pending' = [pending EXCEPT ![r] = 200]
    /\ observed' = [observed EXCEPT ![r] = 0]
    /\ sent' = [sent EXCEPT ![r] = 0]
    /\ scraped' = [scraped EXCEPT ![r] = <<>>]

Next ==
    \E r \in Requests :
        \/ \E k \in Kinds : Arrive(r, k)
        \/ Enter(r)
        \/ CountTile(r) \/ Refuse(r) \/ Hit(r) \/ Miss(r)
        \/ Loaded(r) \/ Shared(r) \/ FailOrDrop(r) \/ NotFound(r) \/ Serve(r)
        \/ ScrapeNext(r) \/ Report(r) \/ Other(r)
        \/ Header(r) \/ Body(r) \/ Panic(r) \/ Recover(r)
        \/ Record(r) \/ Leave(r)

Spec == Init /\ [][Next]_vars

-----------------------------------------------------------------------------
AtRest == \A r \in Requests : stage[r] = "out"

\* With no request under way every request is recorded, under the class of the
\* status its client was sent: one that panics after its header, one dropped
\* without an answer, and one that only writes a body included; and none is
\* left in flight (middleware.go 200-214, metrics.go 33-48).
RecordedIsSent ==
    AtRest =>
        /\ \A c \in Classes : count[c] = answered[c]
        /\ count["requests"] = answered["responses2xx"] + answered["responses3xx"]
                             + answered["responses4xx"] + answered["responses5xx"]
        /\ count["inFlight"] = 0

\* The tile counters agree with each other at any time and with the answers at
\* rest: a tile is looked up once per tile request, shared only after a miss,
\* and a missing tile or database error is a request answered by 4xx or 5xx; a
\* client that has gone causes no database error (tiles.go 65-70).
TileCountersAgree ==
    /\ count["hits"] + count["misses"] <= count["tileRequests"]
    /\ count["coalesced"] <= count["misses"]
    /\ count["tileNotFound"] + count["databaseErrors"] <= count["tileRequests"]
    /\ AtRest =>
        /\ count["databaseErrors"] <= answered["responses5xx"]
        /\ count["tileNotFound"] + count["databaseErrors"]
             <= answered["responses4xx"] + answered["responses5xx"]

\* A scrape reads counters one by one while requests bump them, so its sums may
\* disagree; the cache is read first, so it never shows more lookups of the
\* cache than tile requests (metrics.go 84, 103).
Shows(r, c) == scraped[r][CHOOSE i \in DOMAIN ScrapeOrder : ScrapeOrder[i] = c]

ScrapeShowsNoUnaskedLookup ==
    \A r \in Requests : Len(scraped[r]) = Len(ScrapeOrder) =>
        Shows(r, "hits") + Shows(r, "misses") <= Shows(r, "tileRequests")
=============================================================================
