------------------------ MODULE RequestMetricsProofs ------------------------
(***************************************************************************)
(* Proofs that the counters of RequestMetrics account for every request,   *)
(* for any finite set of requests.                                         *)
(***************************************************************************)
EXTENDS RequestMetrics, FiniteSetTheorems, TLAPS

\* What one request does in a step, as Next lists it.
Step(r) ==
    \/ \E k \in Kinds : Arrive(r, k)
    \/ Enter(r)
    \/ CountTile(r) \/ Refuse(r) \/ Hit(r) \/ Miss(r)
    \/ Loaded(r) \/ Shared(r) \/ FailOrDrop(r) \/ NotFound(r) \/ Serve(r)
    \/ ScrapeNext(r) \/ Report(r) \/ Other(r)
    \/ Header(r) \/ Body(r) \/ Panic(r) \/ Recover(r)
    \/ Record(r) \/ Leave(r)

Num(A) == Cardinality({r \in Requests : stage[r] \in A})

\* Two sets of requests that differ in one request at most.
LEMMA OneMember ==
    ASSUME NEW r \in Requests, NEW S \in SUBSET Requests, NEW T \in SUBSET Requests,
           \A q \in Requests \ {r} : q \in S <=> q \in T
    PROVE  /\ Cardinality(S) \in Nat /\ Cardinality(T) \in Nat
           /\ (r \in S <=> r \in T) => Cardinality(T) = Cardinality(S)
           /\ r \in T /\ r \notin S => Cardinality(T) = Cardinality(S) + 1
           /\ r \in S /\ r \notin T => Cardinality(S) = Cardinality(T) + 1
<1>1. IsFiniteSet(S) /\ IsFiniteSet(T)
  BY RequestMetricsAssumption, FS_Subset
<1>2. Cardinality(S) \in Nat /\ Cardinality(T) \in Nat
  BY <1>1, FS_CardinalityType
<1>3. (r \in S <=> r \in T) => S = T
  OBVIOUS
<1>4. ASSUME r \in T, r \notin S PROVE Cardinality(T) = Cardinality(S) + 1
  <2>1. T = S \cup {r}
    BY <1>4
  <2> QED BY <1>1, <1>4, <2>1, FS_AddElement
<1>5. ASSUME r \in S, r \notin T PROVE Cardinality(S) = Cardinality(T) + 1
  <2>1. S = T \cup {r}
    BY <1>5
  <2> QED BY <1>1, <1>5, <2>1, FS_AddElement
<1> QED BY <1>2, <1>3, <1>4, <1>5

LEMMA NumType == \A A : Num(A) \in Nat
<1> SUFFICES ASSUME NEW A PROVE Num(A) \in Nat
  OBVIOUS
<1>1. {r \in Requests : stage[r] \in A} \subseteq Requests
  OBVIOUS
<1>2. IsFiniteSet({r \in Requests : stage[r] \in A})
  BY <1>1, RequestMetricsAssumption, FS_Subset
<1> QED BY <1>2, FS_CardinalityType DEF Num

Shift(from, to, A) ==
    /\ Num(A) \in Nat /\ Num(A)' \in Nat
    /\ (from \in A <=> to \in A) => Num(A)' = Num(A)
    /\ to \in A /\ from \notin A => Num(A)' = Num(A) + 1
    /\ from \in A /\ to \notin A => Num(A)' = Num(A) - 1

\* A request that moves leaves the stages it was in and enters those it is in.
LEMMA Moved ==
    ASSUME TypeOK, NEW r \in Requests, NEW from, NEW to, NEW A, Move(r, from, to)
    PROVE  Shift(from, to, A)
<1> DEFINE S == {q \in Requests : stage[q] \in A}
<1>1. S \in SUBSET Requests /\ S' \in SUBSET Requests
  OBVIOUS
<1>2. stage[r] = from /\ stage'[r] = to /\ \A q \in Requests \ {r} : stage'[q] = stage[q]
  BY DEF Move, TypeOK
<1>3. \A q \in Requests \ {r} : q \in S <=> q \in S'
  BY <1>2
<1>4. (r \in S <=> from \in A) /\ (r \in S' <=> to \in A)
  BY <1>2
<1> HIDE DEF S
<1>5. /\ Cardinality(S) \in Nat /\ Cardinality(S') \in Nat
      /\ (r \in S <=> r \in S') => Cardinality(S') = Cardinality(S)
      /\ r \in S' /\ r \notin S => Cardinality(S') = Cardinality(S) + 1
      /\ r \in S /\ r \notin S' => Cardinality(S) = Cardinality(S') + 1
  BY <1>1, <1>3, OneMember
<1>6. Num(A) = Cardinality(S) /\ Num(A)' = Cardinality(S')
  BY DEF S, Num
<1> QED BY <1>4, <1>5, <1>6 DEF Shift

(***************************************************************************)
(* Types.                                                                  *)
(***************************************************************************)
LEMMA ClassOf ==
    /\ Class(200) = "responses2xx" /\ Class(304) = "responses3xx"
    /\ Class(404) = "responses4xx" /\ Class(406) = "responses4xx"
    /\ Class(500) = "responses5xx"
BY DEF Class

LEMMA ClassType == \A s \in Statuses \cup {0} : Class(First(s, 200)) \in Classes
BY ClassOf DEF First, Statuses, Classes

LEMMA InitType == Init => TypeOK
BY DEF Init, TypeOK, Stages, Kinds, Statuses

LEMMA BumpType ==
    ASSUME TypeOK, NEW c \in Counters, Bump(c)
    PROVE  /\ count' \in [Counters -> Int]
           /\ count'[c] = count[c] + 1
           /\ \A d \in Counters \ {c} : count'[d] = count[d]
BY DEF TypeOK, Bump

LEMMA MoveType ==
    ASSUME TypeOK, NEW r \in Requests, NEW from, NEW to \in Stages, Move(r, from, to)
    PROVE  /\ stage' \in [Requests -> Stages]
           /\ stage[r] = from /\ stage'[r] = to
           /\ \A q \in Requests \ {r} : stage'[q] = stage[q]
BY DEF TypeOK, Move

LEMMA Members ==
    /\ \A c \in {"requests", "inFlight"} \cup Classes \cup TileCounters : c \in Counters
    /\ {"tileRequests", "tileNotFound", "databaseErrors", "coalesced", "hits", "misses"}
         \subseteq TileCounters
    /\ {"out", "arrived", "handling", "counted", "missed", "value", "failed",
        "header", "body", "panicked", "returned", "recorded"} \subseteq Stages
    /\ {200, 304, 404, 406, 500} \subseteq Statuses
BY DEF Counters, TileCounters, Stages, Statuses

LEMMA CountingType ==
    ASSUME TypeOK, NEW r \in Requests, NEW from, NEW to \in Stages, NEW c \in Counters,
           Counting(r, from, to, c)
    PROVE  TypeOK'
BY BumpType, MoveType DEF Counting, TypeOK

LEMMA WritingType ==
    ASSUME TypeOK, NEW r \in Requests, NEW from, NEW s \in Statuses,
           Writing(r, from, s), count' \in [Counters -> Int]
    PROVE  TypeOK'
<1>1. stage' \in [Requests -> Stages]
  BY MoveType, Members DEF Writing
<1> QED BY <1>1 DEF Writing, TypeOK

LEMMA WriteType ==
    ASSUME TypeOK, NEW r \in Requests, NEW s \in Statuses, WriteHeader(r, s)
    PROVE  /\ observed' \in [Requests -> Statuses \cup {0}]
           /\ sent' \in [Requests -> Statuses \cup {0}]
BY DEF WriteHeader, First, TypeOK

LEMMA ScrapeOrderType ==
    Len(ScrapeOrder) = 12 /\ \A i \in 1..12 : ScrapeOrder[i] \in Counters
BY DEF ScrapeOrder, Counters, Classes, TileCounters

LEMMA StepType == ASSUME TypeOK, NEW r \in Requests, Step(r) PROVE TypeOK'
<1>1. ASSUME NEW k \in Kinds, Arrive(r, k) PROVE TypeOK'
  <2>1. count' \in [Counters -> Int]
    BY <1>1, BumpType, Members DEF Arrive
  <2>2. stage' \in [Requests -> Stages]
    BY <1>1, MoveType, Members DEF Arrive
  <2> QED BY <1>1, <2>1, <2>2 DEF Arrive, TypeOK
<1>2. CASE Enter(r)
  BY <1>2, CountingType, Members DEF Enter
<1>3. CASE CountTile(r)
  BY <1>3, CountingType, Members DEF CountTile
<1>4. CASE Hit(r)
  BY <1>4, CountingType, Members DEF Hit
<1>5. CASE Miss(r)
  BY <1>5, CountingType, Members DEF Miss
<1>6. CASE Shared(r)
  BY <1>6, CountingType, Members DEF Shared
<1>7. CASE Refuse(r)
  <2>1. count' \in [Counters -> Int]
    BY <1>7, BumpType, Members DEF Refuse
  <2> QED BY <1>7, <2>1, WritingType, Members DEF Refuse
<1>8. CASE NotFound(r)
  <2>1. count' \in [Counters -> Int]
    BY <1>8, BumpType, Members DEF NotFound
  <2> QED BY <1>8, <2>1, WritingType, Members DEF NotFound
<1>9. CASE FailOrDrop(r)
  <2>1. CASE Bump("databaseErrors") /\ Writing(r, "failed", 500)
    <3>1. count' \in [Counters -> Int]
      BY <2>1, BumpType, Members
    <3> QED BY <2>1, <3>1, WritingType, Members
  <2>2. CASE /\ Move(r, "failed", "returned")
             /\ UNCHANGED <<count, kind, pending, observed, sent, answered, scraped>>
    BY <2>2, MoveType, Members DEF TypeOK
  <2> QED BY <1>9, <2>1, <2>2 DEF FailOrDrop
<1>10. CASE Serve(r)
  <2>1. count' \in [Counters -> Int]
    BY <1>10 DEF Serve, TypeOK
  <2> QED BY <1>10, <2>1, WritingType, Members DEF Serve
<1>11. CASE Report(r)
  <2>1. count' \in [Counters -> Int]
    BY <1>11 DEF Report, TypeOK
  <2> QED BY <1>11, <2>1, WritingType, Members DEF Report
<1>12. CASE Other(r)
  <2>1. count' \in [Counters -> Int]
    BY <1>12 DEF Other, TypeOK
  <2> QED BY <1>12, <2>1, WritingType, Members DEF Other
<1>13. CASE Loaded(r)
  <2>1. stage' \in [Requests -> Stages]
    BY <1>13, MoveType, Members DEF Loaded
  <2> QED BY <1>13, <2>1 DEF Loaded, TypeOK
<1>14. CASE Panic(r)
  <2>1. stage' \in [Requests -> Stages]
    BY <1>14, MoveType, Members DEF Panic
  <2> QED BY <1>14, <2>1 DEF Panic, TypeOK
<1>15. CASE ScrapeNext(r)
  <2> DEFINE c == ScrapeOrder[Len(scraped[r]) + 1]
  <2>1. Len(scraped[r]) \in Nat /\ scraped[r] \in Seq(Int) /\ Len(scraped[r]) < Len(ScrapeOrder)
    BY <1>15 DEF ScrapeNext, TypeOK
  <2>2. c \in Counters
    <3> DEFINE n == Len(scraped[r])
    <3>1. n \in Nat /\ n < 12
      BY <2>1, ScrapeOrderType
    <3> HIDE DEF n
    <3>2. n + 1 \in 1..12
      BY <3>1
    <3> QED BY <3>2, ScrapeOrderType DEF n
  <2>3. count[c] \in Int
    BY <2>2 DEF TypeOK
  <2>4. Append(scraped[r], count[c]) \in Seq(Int)
    BY <2>1, <2>3
  <2>5. scraped' = [scraped EXCEPT ![r] = Append(scraped[r], count[c])]
    BY <1>15 DEF ScrapeNext
  <2>6. scraped' \in [Requests -> Seq(Int)]
    BY <2>4, <2>5 DEF TypeOK
  <2> QED BY <1>15, <2>6 DEF ScrapeNext, TypeOK
<1>16. CASE Header(r)
  <2>1. stage' \in [Requests -> Stages]
    BY <1>16, MoveType, Members DEF Header
  <2>2. /\ observed' \in [Requests -> Statuses \cup {0}]
        /\ sent' \in [Requests -> Statuses \cup {0}]
    BY <1>16, WriteType, Members DEF Header, TypeOK
  <2> QED BY <1>16, <2>1, <2>2 DEF Header, TypeOK
<1>17. CASE Body(r)
  <2>1. stage' \in [Requests -> Stages]
    BY <1>17, MoveType, Members DEF Body
  <2>2. /\ observed' \in [Requests -> Statuses \cup {0}]
        /\ sent' \in [Requests -> Statuses \cup {0}]
    BY <1>17, WriteType, Members DEF Body, Write
  <2> QED BY <1>17, <2>1, <2>2 DEF Body, TypeOK
<1>18. CASE Recover(r)
  <2>1. stage' \in [Requests -> Stages]
    BY <1>18, MoveType, Members DEF Recover
  <2>2. /\ observed' \in [Requests -> Statuses \cup {0}]
        /\ sent' \in [Requests -> Statuses \cup {0}]
    BY <1>18, WriteType, Members DEF Recover
  <2> QED BY <1>18, <2>1, <2>2 DEF Recover, TypeOK
<1>19. CASE Record(r)
  <2>1. Class(First(observed[r], 200)) \in Counters
    BY ClassType, Members DEF TypeOK
  <2> QED BY <1>19, <2>1, CountingType, Members DEF Record
<1>20. CASE Leave(r)
  <2>1. stage' \in [Requests -> Stages]
    BY <1>20, MoveType, Members DEF Leave
  <2>2. count' \in [Counters -> Int]
    BY <1>20, Members DEF Leave, TypeOK
  <2>3. answered' \in [Classes -> Nat]
    BY <1>20, ClassType DEF Leave, TypeOK
  <2>4. "other" \in Kinds /\ 200 \in Statuses
    BY DEF Kinds, Statuses
  <2>5. kind' \in [Requests -> Kinds] /\ pending' \in [Requests -> Statuses]
    BY <1>20, <2>4 DEF Leave, TypeOK
  <2>6. /\ observed' \in [Requests -> Statuses \cup {0}]
        /\ sent' \in [Requests -> Statuses \cup {0}]
        /\ scraped' \in [Requests -> Seq(Int)]
    BY <1>20 DEF Leave, TypeOK
  <2> QED BY <2>1, <2>2, <2>3, <2>5, <2>6 DEF TypeOK
<1> QED BY <1>1, <1>2, <1>3, <1>4, <1>5, <1>6, <1>7, <1>8, <1>9, <1>10, <1>11, <1>12, <1>13, <1>14, <1>15, <1>16, <1>17, <1>18, <1>19, <1>20 DEF Step

(***************************************************************************)
(* The status of a response: both writers keep the same account of it, and *)
(* there is none before the handler writes.                                *)
(***************************************************************************)
ResponseInv ==
    \A r \in Requests :
        /\ observed[r] = sent[r]
        /\ stage[r] \notin {"body", "panicked", "returned", "recorded"} => sent[r] = 0
        /\ stage[r] = "body" => sent[r] # 0

LEMMA ResponseFrame ==
    ASSUME TypeOK, ResponseInv, NEW r \in Requests, NEW from, NEW to \in Stages, Move(r, from, to),
           UNCHANGED <<observed, sent>>, to # "body",
           from \in {"body", "panicked", "returned", "recorded"}
             => to \in {"panicked", "returned", "recorded"}
    PROVE  ResponseInv'
<1>1. stage[r] = from /\ stage'[r] = to /\ \A q \in Requests \ {r} : stage'[q] = stage[q]
  BY MoveType
<1> QED BY <1>1 DEF ResponseInv

LEMMA ResponseWrite ==
    ASSUME TypeOK, ResponseInv, NEW r \in Requests, NEW s \in Statuses, NEW from, NEW to \in Stages,
           Move(r, from, to), WriteHeader(r, s), to \in {"body", "returned"}
    PROVE  ResponseInv'
<1>1. stage[r] = from /\ stage'[r] = to /\ \A q \in Requests \ {r} : stage'[q] = stage[q]
  BY MoveType
<1>2. s # 0
  BY DEF Statuses
<1>3. /\ observed'[r] = First(observed[r], s) /\ sent'[r] = First(sent[r], s)
      /\ \A q \in Requests \ {r} : observed'[q] = observed[q] /\ sent'[q] = sent[q]
  BY DEF WriteHeader, TypeOK
<1> QED BY <1>1, <1>2, <1>3 DEF ResponseInv, First

LEMMA StepResponse ==
    ASSUME TypeOK, ResponseInv, NEW r \in Requests, Step(r)
    PROVE  ResponseInv'
<1>1. ASSUME NEW k \in Kinds, Arrive(r, k) PROVE ResponseInv'
  BY <1>1, ResponseFrame, Members DEF Arrive
<1>2. CASE Enter(r) \/ CountTile(r) \/ Hit(r) \/ Miss(r) \/ Shared(r)
  BY <1>2, ResponseFrame, Members DEF Enter, CountTile, Hit, Miss, Shared, Counting
<1>3. CASE Refuse(r) \/ NotFound(r) \/ Serve(r) \/ Report(r) \/ Other(r)
  BY <1>3, ResponseFrame, Members DEF Refuse, NotFound, Serve, Report, Other, Writing
<1>4. CASE Loaded(r) \/ FailOrDrop(r)
  BY <1>4, ResponseFrame, Members DEF Loaded, FailOrDrop, Writing
<1>5. CASE ScrapeNext(r)
  BY <1>5 DEF ScrapeNext, ResponseInv
<1>6. CASE Header(r)
  BY <1>6, ResponseWrite, Members DEF Header, TypeOK
<1>7. CASE Body(r)
  BY <1>7, ResponseWrite, Members DEF Body, Write
<1>8. CASE Panic(r)
  BY <1>8, ResponseFrame, Members DEF Panic
<1>9. CASE Recover(r)
  BY <1>9, ResponseWrite, Members DEF Recover
<1>10. CASE Record(r)
  BY <1>10, ResponseFrame, Members DEF Record, Counting
<1>11. CASE Leave(r)
  <2>1. stage'[r] = "out" /\ \A q \in Requests \ {r} : stage'[q] = stage[q]
    BY <1>11, MoveType, Members DEF Leave
  <2>2. /\ observed'[r] = 0 /\ sent'[r] = 0
        /\ \A q \in Requests \ {r} : observed'[q] = observed[q] /\ sent'[q] = sent[q]
    BY <1>11 DEF Leave, TypeOK
  <2> QED BY <2>1, <2>2 DEF ResponseInv
<1> QED BY <1>1, <1>2, <1>3, <1>4, <1>5, <1>6, <1>7, <1>8, <1>9, <1>10, <1>11 DEF Step

(***************************************************************************)
(* The tile counters: a tile request is looked up once, shared only after  *)
(* a miss, and refused, missing or failed once.                            *)
(***************************************************************************)
Looking == {"counted"}
Missing == {"missed"}
Unsettled == {"counted", "missed", "value", "failed"}

TileInv ==
    /\ count["hits"] + count["misses"] + Num(Looking) <= count["tileRequests"]
    /\ count["coalesced"] + Num(Missing) <= count["misses"]
    /\ count["tileNotFound"] + count["databaseErrors"] + Num(Unsettled) <= count["tileRequests"]

LEMMA TileMove ==
    ASSUME TypeOK, NEW r \in Requests, NEW from, NEW to, Move(r, from, to)
    PROVE  /\ Shift(from, to, Looking)
           /\ Shift(from, to, Missing)
           /\ Shift(from, to, Unsettled)
BY Moved

LEMMA TileCount ==
    ASSUME TypeOK
    PROVE  \A c \in TileCounters : count[c] \in Int
BY Members DEF TypeOK

\* A step that counts no tile and enters none of their stages.
LEMMA TileFrame ==
    ASSUME TypeOK, TileInv, NEW r \in Requests, NEW from, NEW to, Move(r, from, to),
           to \notin Unsettled, \A c \in TileCounters : count'[c] = count[c]
    PROVE  TileInv'
<1>1. to \notin Looking /\ to \notin Missing
  BY DEF Looking, Missing, Unsettled
<1>2. /\ Num(Looking)' <= Num(Looking) /\ Num(Looking) \in Nat /\ Num(Looking)' \in Nat
      /\ Num(Missing)' <= Num(Missing) /\ Num(Missing) \in Nat /\ Num(Missing)' \in Nat
      /\ Num(Unsettled)' <= Num(Unsettled) /\ Num(Unsettled) \in Nat /\ Num(Unsettled)' \in Nat
  BY <1>1, TileMove DEF Shift
<1> QED BY <1>2, TileCount, Members DEF TileInv

\* A step from one of their stages to another that counts c.
LEMMA TileBump ==
    ASSUME TypeOK, TileInv, NEW r \in Requests, NEW from, NEW to, NEW c, Move(r, from, to), Bump(c),
           \/ from = "handling" /\ to = "counted" /\ c = "tileRequests"
           \/ from = "counted" /\ to = "header" /\ c = "tileNotFound"
           \/ from = "counted" /\ to = "value" /\ c = "hits"
           \/ from = "counted" /\ to = "missed" /\ c = "misses"
           \/ from = "missed" /\ to \in {"value", "failed"} /\ c = "coalesced"
           \/ from = "failed" /\ to = "header" /\ c = "databaseErrors"
           \/ from = "value" /\ to = "header" /\ c = "tileNotFound"
    PROVE  TileInv'
<1>1. c \in TileCounters
  BY DEF TileCounters
<1>2. count'[c] = count[c] + 1 /\ \A d \in TileCounters \ {c} : count'[d] = count[d]
  BY <1>1, BumpType, Members
<1> QED BY <1>2, TileMove, TileCount, Members DEF TileInv, Shift, Looking, Missing, Unsettled
LEMMA StepTile ==
    ASSUME TypeOK, TileInv, NEW r \in Requests, Step(r)
    PROVE  TileInv'
<1> USE Members
<1>1. ASSUME NEW k \in Kinds, Arrive(r, k) PROVE TileInv'
  <2>1. \A c \in TileCounters : count'[c] = count[c]
    BY <1>1, BumpType DEF Arrive, TileCounters
  <2> QED BY <1>1, <2>1, TileFrame DEF Arrive, Unsettled
<1>2. CASE Enter(r)
  <2>1. \A c \in TileCounters : count'[c] = count[c]
    BY <1>2, BumpType DEF Enter, Counting, TileCounters
  <2> QED BY <1>2, <2>1, TileFrame DEF Enter, Counting, Unsettled
<1>3. CASE CountTile(r) \/ Hit(r) \/ Miss(r) \/ Shared(r)
  BY <1>3, TileBump DEF CountTile, Hit, Miss, Shared, Counting
<1>4. CASE Refuse(r) \/ NotFound(r)
  BY <1>4, TileBump DEF Refuse, NotFound, Writing
<1>5. CASE FailOrDrop(r)
  BY <1>5, TileBump, TileFrame DEF FailOrDrop, Writing, Unsettled
<1>6. CASE Loaded(r)
  <2>1. PICK to \in {"value", "failed"} : Move(r, "missed", to)
    BY <1>6 DEF Loaded
  <2>2. count' = count
    BY <1>6 DEF Loaded
  <2> QED BY <2>1, <2>2, TileMove, TileCount DEF TileInv, Shift, Looking, Missing, Unsettled
<1>7. CASE Serve(r) \/ Report(r) \/ Other(r)
  BY <1>7, TileFrame DEF Serve, Report, Other, Writing, Unsettled
<1>8. CASE ScrapeNext(r)
  BY <1>8 DEF ScrapeNext, TileInv, Num
<1>9. CASE Header(r) \/ Body(r) \/ Panic(r) \/ Recover(r)
  BY <1>9, TileFrame DEF Header, Body, Panic, Recover, Unsettled
<1>10. CASE Record(r)
  <2>1. Class(First(observed[r], 200)) \in Classes
    BY ClassType DEF TypeOK
  <2>2. \A c \in TileCounters : count'[c] = count[c]
    BY <1>10, <2>1, BumpType DEF Record, Counting, TileCounters, Classes
  <2> QED BY <1>10, <2>2, TileFrame DEF Record, Counting, Unsettled
<1>11. CASE Leave(r)
  <2>1. \A c \in TileCounters : count'[c] = count[c]
    BY <1>11 DEF Leave, TypeOK, TileCounters
  <2> QED BY <1>11, <2>1, TileFrame DEF Leave, Unsettled
<1> QED BY <1>1, <1>2, <1>3, <1>4, <1>5, <1>6, <1>7, <1>8, <1>9, <1>10, <1>11 DEF Step

(***************************************************************************)
(* requests and inFlight: what the middleware has counted is answered or   *)
(* under way.                                                              *)
(***************************************************************************)
Present == Stages \ {"out"}
Inside == Stages \ {"out", "arrived"}

Answered ==
    answered["responses2xx"] + answered["responses3xx"]
        + answered["responses4xx"] + answered["responses5xx"]

FlightInv ==
    /\ count["requests"] = Answered + Num(Present)
    /\ count["inFlight"] = Num(Inside)

LEMMA FlightFrame ==
    ASSUME TypeOK, FlightInv, NEW r \in Requests, NEW from \in Inside, NEW to \in Inside,
           Move(r, from, to), UNCHANGED answered,
           count'["requests"] = count["requests"], count'["inFlight"] = count["inFlight"]
    PROVE  FlightInv'
<1>1. Shift(from, to, Present) /\ Shift(from, to, Inside)
  BY Moved
<1>2. from \in Present /\ to \in Present
  BY DEF Present, Inside
<1>3. Num(Present)' = Num(Present) /\ Num(Inside)' = Num(Inside)
  BY <1>1, <1>2 DEF Shift
<1>4. Answered' = Answered
  BY DEF Answered
<1> QED BY <1>3, <1>4 DEF FlightInv

LEMMA InsideStages ==
    {"handling", "counted", "missed", "value", "failed", "header", "body", "panicked",
     "returned", "recorded"} \subseteq Inside
BY DEF Inside, Stages

LEMMA OtherCounters ==
    /\ "requests" \notin Classes \cup TileCounters
    /\ "inFlight" \notin Classes \cup TileCounters
    /\ Classes \cap TileCounters = {}
BY DEF Classes, TileCounters

\* A step inside the middleware that counts c, or nothing.
LEMMA FlightBump ==
    ASSUME TypeOK, FlightInv, NEW r \in Requests, NEW from \in Inside, NEW to \in Inside,
           Move(r, from, to), UNCHANGED answered, NEW c \in Classes \cup TileCounters, Bump(c)
    PROVE  FlightInv'
<1>1. count'["requests"] = count["requests"] /\ count'["inFlight"] = count["inFlight"]
  BY BumpType, Members, OtherCounters
<1> QED BY <1>1, FlightFrame

LEMMA AnsweredType == ASSUME TypeOK PROVE Answered \in Nat /\ \A c \in Classes : answered[c] \in Nat
BY DEF TypeOK, Answered, Classes
LEMMA StepFlight ==
    ASSUME TypeOK, FlightInv, NEW r \in Requests, Step(r)
    PROVE  FlightInv'
<1> USE Members, InsideStages
<1>1. ASSUME NEW k \in Kinds, Arrive(r, k) PROVE FlightInv'
  <2>1. Move(r, "out", "arrived") /\ Bump("requests") /\ answered' = answered
    BY <1>1 DEF Arrive
  <2>2. Shift("out", "arrived", Present) /\ Shift("out", "arrived", Inside)
    BY <2>1, Moved
  <2>3. Num(Present)' = Num(Present) + 1 /\ Num(Inside)' = Num(Inside)
    BY <2>2 DEF Shift, Present, Inside, Stages
  <2>4. count'["requests"] = count["requests"] + 1 /\ count'["inFlight"] = count["inFlight"]
    BY <2>1, BumpType
  <2>5. Answered' = Answered /\ Answered \in Nat /\ Num(Present) \in Nat
    BY <2>1, <2>2, AnsweredType DEF Answered, Shift
  <2> QED BY <2>3, <2>4, <2>5 DEF FlightInv
<1>2. CASE Enter(r)
  <2>1. Move(r, "arrived", "handling") /\ Bump("inFlight") /\ answered' = answered
    BY <1>2 DEF Enter, Counting
  <2>2. Shift("arrived", "handling", Present) /\ Shift("arrived", "handling", Inside)
    BY <2>1, Moved
  <2>3. Num(Present)' = Num(Present) /\ Num(Inside)' = Num(Inside) + 1
    BY <2>2 DEF Shift, Present, Inside, Stages
  <2>4. count'["requests"] = count["requests"] /\ count'["inFlight"] = count["inFlight"] + 1
    BY <2>1, BumpType
  <2>5. Answered' = Answered
    BY <2>1 DEF Answered
  <2> QED BY <2>3, <2>4, <2>5 DEF FlightInv
<1>3. CASE CountTile(r) \/ Hit(r) \/ Miss(r) \/ Shared(r)
  BY <1>3, FlightBump DEF CountTile, Hit, Miss, Shared, Counting
<1>4. CASE Refuse(r) \/ NotFound(r)
  BY <1>4, FlightBump DEF Refuse, NotFound, Writing
<1>5. CASE FailOrDrop(r)
  BY <1>5, FlightBump, FlightFrame DEF FailOrDrop, Writing
<1>6. CASE Serve(r) \/ Report(r) \/ Other(r)
  BY <1>6, FlightFrame DEF Serve, Report, Other, Writing
<1>7. CASE Loaded(r)
  BY <1>7, FlightFrame DEF Loaded
<1>8. CASE ScrapeNext(r)
  BY <1>8 DEF ScrapeNext, FlightInv, Num, Answered
<1>9. CASE Header(r) \/ Body(r) \/ Panic(r) \/ Recover(r)
  BY <1>9, FlightFrame DEF Header, Body, Panic, Recover
<1>10. CASE Record(r)
  BY <1>10, ClassType, FlightBump DEF Record, Counting, TypeOK
<1>11. CASE Leave(r)
  <2>1. Move(r, "recorded", "out")
    BY <1>11 DEF Leave
  <2>2. Shift("recorded", "out", Present) /\ Shift("recorded", "out", Inside)
    BY <2>1, Moved
  <2>3. /\ Num(Present)' = Num(Present) - 1 /\ Num(Present) \in Nat
        /\ Num(Inside)' = Num(Inside) - 1
    BY <2>2 DEF Shift, Present, Inside, Stages
  <2>4. count'["requests"] = count["requests"] /\ count'["inFlight"] = count["inFlight"] - 1
    BY <1>11 DEF Leave, TypeOK
  <2>5. PICK c \in Classes : answered' = [answered EXCEPT ![c] = @ + 1]
    BY <1>11, ClassType DEF Leave, TypeOK
  <2>6. Answered' = Answered + 1 /\ Answered \in Nat
    <3>1. answered'[c] = answered[c] + 1 /\ \A d \in Classes \ {c} : answered'[d] = answered[d]
      BY <2>5 DEF TypeOK
    <3>2. \A d \in Classes : answered[d] \in Nat
      BY AnsweredType
    <3> QED BY <3>1, <3>2 DEF Answered, Classes
  <2> QED BY <2>3, <2>4, <2>6 DEF FlightInv
<1> QED BY <1>1, <1>2, <1>3, <1>4, <1>5, <1>6, <1>7, <1>8, <1>9, <1>10, <1>11 DEF Step

(***************************************************************************)
(* The counters by class: a recorded response is counted in the class it   *)
(* is answered with.                                                       *)
(***************************************************************************)
Recorded(c) == {r \in Requests : stage[r] = "recorded" /\ Class(First(sent[r], 200)) = c}

RecordInv == \A c \in Classes : count[c] = answered[c] + Cardinality(Recorded(c))

LEMMA RecordFrame ==
    ASSUME TypeOK, RecordInv, NEW r \in Requests, NEW from, NEW to \in Stages, Move(r, from, to),
           from # "recorded", to # "recorded", UNCHANGED answered,
           \A q \in Requests \ {r} : sent'[q] = sent[q],
           \A c \in Classes : count'[c] = count[c]
    PROVE  RecordInv'
<1>1. stage[r] = from /\ stage'[r] = to /\ \A q \in Requests \ {r} : stage'[q] = stage[q]
  BY MoveType
<1>2. \A c \in Classes : Recorded(c)' = Recorded(c)
  BY <1>1 DEF Recorded
<1> QED BY <1>2 DEF RecordInv

LEMMA RecordSame ==
    ASSUME TypeOK, NEW c \in TileCounters \cup {"requests", "inFlight"}, Bump(c)
    PROVE  \A d \in Classes : count'[d] = count[d]
BY BumpType, OtherCounters, Members

LEMMA StepRecord ==
    ASSUME TypeOK, ResponseInv, RecordInv, NEW r \in Requests, Step(r)
    PROVE  RecordInv'
<1> USE Members
<1>1. ASSUME NEW k \in Kinds, Arrive(r, k) PROVE RecordInv'
  BY <1>1, RecordFrame, RecordSame DEF Arrive
<1>2. CASE Enter(r) \/ CountTile(r) \/ Hit(r) \/ Miss(r) \/ Shared(r)
  BY <1>2, RecordFrame, RecordSame DEF Enter, CountTile, Hit, Miss, Shared, Counting
<1>3. CASE Refuse(r) \/ NotFound(r)
  BY <1>3, RecordFrame, RecordSame DEF Refuse, NotFound, Writing
<1>4. CASE FailOrDrop(r)
  BY <1>4, RecordFrame, RecordSame DEF FailOrDrop, Writing
<1>5. CASE Serve(r) \/ Report(r) \/ Other(r)
  BY <1>5, RecordFrame DEF Serve, Report, Other, Writing
<1>6. CASE Loaded(r) \/ Panic(r)
  BY <1>6, RecordFrame DEF Loaded, Panic
<1>7. CASE ScrapeNext(r)
  BY <1>7 DEF ScrapeNext, RecordInv, Recorded
<1>8. CASE Header(r) \/ Body(r) \/ Recover(r)
  <2>1. \A q \in Requests \ {r} : sent'[q] = sent[q]
    BY <1>8 DEF Header, Body, Recover, Write, WriteHeader, TypeOK
  <2> QED BY <1>8, <2>1, RecordFrame DEF Header, Body, Recover
<1>9. CASE Record(r)
  <2> DEFINE d == Class(First(sent[r], 200))
  <2>1. d \in Classes /\ Bump(d) /\ UNCHANGED <<sent, answered>> /\ Move(r, "returned", "recorded")
    BY <1>9, ClassType DEF Record, Counting, ResponseInv, TypeOK
  <2>2. count'[d] = count[d] + 1 /\ \A c \in Classes \ {d} : count'[c] = count[c]
    <3> HIDE DEF d
    <3> QED BY <2>1, BumpType
  <2> SUFFICES ASSUME NEW c \in Classes
               PROVE  count'[c] = answered'[c] + Cardinality(Recorded(c)')
    BY DEF RecordInv
  <2>3. /\ stage[r] = "returned" /\ stage'[r] = "recorded"
        /\ \A q \in Requests \ {r} : stage'[q] = stage[q]
    BY <2>1, MoveType
  <2>4. /\ Recorded(c) \in SUBSET Requests /\ Recorded(c)' \in SUBSET Requests
        /\ \A q \in Requests \ {r} : q \in Recorded(c) <=> q \in Recorded(c)'
        /\ r \notin Recorded(c) /\ (r \in Recorded(c)' <=> c = d)
    BY <2>1, <2>3 DEF Recorded
  <2>5. /\ Cardinality(Recorded(c)) \in Nat
        /\ c = d => Cardinality(Recorded(c)') = Cardinality(Recorded(c)) + 1
        /\ c # d => Cardinality(Recorded(c)') = Cardinality(Recorded(c))
    BY <2>4, OneMember
  <2>6. count[c] = answered[c] + Cardinality(Recorded(c)) /\ answered[c] \in Nat
    BY AnsweredType DEF RecordInv
  <2> QED BY <2>1, <2>2, <2>5, <2>6
<1>10. CASE Leave(r)
  <2> DEFINE d == Class(First(sent[r], 200))
  <2>1. /\ d \in Classes /\ answered' = [answered EXCEPT ![d] = @ + 1]
        /\ Move(r, "recorded", "out")
    BY <1>10, ClassType DEF Leave, TypeOK
  <2>2. \A c \in Classes : count'[c] = count[c]
    BY <1>10, OtherCounters DEF Leave, TypeOK
  <2> SUFFICES ASSUME NEW c \in Classes
               PROVE  count'[c] = answered'[c] + Cardinality(Recorded(c)')
    BY DEF RecordInv
  <2>3. /\ stage[r] = "recorded" /\ stage'[r] = "out"
        /\ \A q \in Requests \ {r} : stage'[q] = stage[q] /\ sent'[q] = sent[q]
    <3>1. \A q \in Requests \ {r} : sent'[q] = sent[q]
      BY <1>10 DEF Leave, TypeOK
    <3> QED BY <2>1, <3>1, MoveType
  <2>4. /\ Recorded(c) \in SUBSET Requests /\ Recorded(c)' \in SUBSET Requests
        /\ \A q \in Requests \ {r} : q \in Recorded(c) <=> q \in Recorded(c)'
        /\ r \notin Recorded(c)' /\ (r \in Recorded(c) <=> c = d)
    BY <2>3 DEF Recorded
  <2>5. /\ Cardinality(Recorded(c)) \in Nat /\ Cardinality(Recorded(c)') \in Nat
        /\ c = d => Cardinality(Recorded(c)) = Cardinality(Recorded(c)') + 1
        /\ c # d => Cardinality(Recorded(c)') = Cardinality(Recorded(c))
    BY <2>4, OneMember
  <2>6. count[c] = answered[c] + Cardinality(Recorded(c)) /\ answered[c] \in Nat
    BY AnsweredType DEF RecordInv
  <2>7. answered'[c] = IF c = d THEN answered[c] + 1 ELSE answered[c]
    BY <2>1 DEF TypeOK
  <2> QED BY <2>2, <2>5, <2>6, <2>7
<1> QED BY <1>1, <1>2, <1>3, <1>4, <1>5, <1>6, <1>7, <1>8, <1>9, <1>10 DEF Step
(***************************************************************************)
(* Errors and answers: each missing tile and each database error belongs   *)
(* to a request that was, or is about to be, answered by an error.  Final  *)
(* is the status a request will be answered with if nothing else panics.   *)
(***************************************************************************)
Answering == {"header", "body", "panicked", "returned", "recorded"}
Failures == {"responses5xx"}
Refusals == {"responses4xx", "responses5xx"}

Final(r) ==
    IF sent[r] # 0 THEN sent[r]
    ELSE IF stage[r] = "header" THEN pending[r]
    ELSE IF stage[r] = "panicked" THEN 500
    ELSE 200

Erring(C) == {r \in Requests : stage[r] \in Answering /\ Class(Final(r)) \in C}

ErrorInv ==
    /\ count["databaseErrors"] <= answered["responses5xx"] + Cardinality(Erring(Failures))
    /\ count["tileNotFound"] + count["databaseErrors"]
         <= answered["responses4xx"] + answered["responses5xx"] + Cardinality(Erring(Refusals))

Others(r) ==
    \A q \in Requests \ {r} : stage'[q] = stage[q] /\ sent'[q] = sent[q] /\ pending'[q] = pending[q]

LEMMA ErrorMember ==
    ASSUME NEW r \in Requests, NEW C, Others(r)
    PROVE  /\ Cardinality(Erring(C)) \in Nat /\ Cardinality(Erring(C))' \in Nat
           /\ (r \in Erring(C) => r \in Erring(C)')
                => Cardinality(Erring(C))' >= Cardinality(Erring(C))
           /\ r \notin Erring(C) /\ r \in Erring(C)'
                => Cardinality(Erring(C))' = Cardinality(Erring(C)) + 1
           /\ Cardinality(Erring(C))' >= Cardinality(Erring(C)) - 1
<1> DEFINE S == Erring(C)
<1>1. S \in SUBSET Requests /\ S' \in SUBSET Requests
  BY DEF Erring
<1>2. \A q \in Requests \ {r} : q \in S <=> q \in S'
  BY DEF Others, Erring, Final
<1> HIDE DEF S
<1>3. /\ Cardinality(S) \in Nat /\ Cardinality(S') \in Nat
      /\ (r \in S <=> r \in S') => Cardinality(S') = Cardinality(S)
      /\ r \in S' /\ r \notin S => Cardinality(S') = Cardinality(S) + 1
      /\ r \in S /\ r \notin S' => Cardinality(S) = Cardinality(S') + 1
  BY <1>1, <1>2, OneMember
<1>4. /\ Cardinality(S) \in Nat /\ Cardinality(S') \in Nat
      /\ (r \in S => r \in S') => Cardinality(S') >= Cardinality(S)
      /\ r \notin S /\ r \in S' => Cardinality(S') = Cardinality(S) + 1
      /\ Cardinality(S') >= Cardinality(S) - 1
  BY <1>3
<1> QED BY <1>4 DEF S

LEMMA ErrorTypes ==
    ASSUME TypeOK
    PROVE  /\ count["tileNotFound"] \in Int /\ count["databaseErrors"] \in Int
           /\ answered["responses4xx"] \in Nat /\ answered["responses5xx"] \in Nat
BY Members DEF TypeOK, Classes

\* A step that counts no error, and leaves a request that errs erring.
LEMMA ErrorFrame ==
    ASSUME TypeOK, ErrorInv, NEW r \in Requests, Others(r), UNCHANGED answered,
           r \in Erring(Failures) => r \in Erring(Failures)',
           r \in Erring(Refusals) => r \in Erring(Refusals)',
           count'["tileNotFound"] = count["tileNotFound"],
           count'["databaseErrors"] = count["databaseErrors"]
    PROVE  ErrorInv'
<1>1. /\ Cardinality(Erring(Failures)) \in Nat /\ Cardinality(Erring(Failures))' \in Nat
      /\ Cardinality(Erring(Failures))' >= Cardinality(Erring(Failures))
  BY ErrorMember
<1>2. /\ Cardinality(Erring(Refusals)) \in Nat /\ Cardinality(Erring(Refusals))' \in Nat
      /\ Cardinality(Erring(Refusals))' >= Cardinality(Erring(Refusals))
  BY ErrorMember
<1> QED BY <1>1, <1>2, ErrorTypes DEF ErrorInv

\* A step of a request that is not answering yet, and counts no error.
LEMMA ErrorEarly ==
    ASSUME TypeOK, ErrorInv, NEW r \in Requests, NEW from, NEW to \in Stages, Move(r, from, to),
           from \notin Answering, UNCHANGED <<sent, answered>>,
           \A q \in Requests \ {r} : pending'[q] = pending[q],
           count'["tileNotFound"] = count["tileNotFound"],
           count'["databaseErrors"] = count["databaseErrors"]
    PROVE  ErrorInv'
<1>1. Others(r)
  BY MoveType DEF Others
<1>2. r \notin Erring(Failures) /\ r \notin Erring(Refusals)
  BY MoveType DEF Erring
<1> QED BY <1>1, <1>2, ErrorFrame

\* A step of a request that is answering: its answer stays, or becomes a 500.
LEMMA ErrorLate ==
    ASSUME TypeOK, ErrorInv, NEW r \in Requests, Others(r), UNCHANGED answered,
           stage'[r] \in Answering, Final(r)' = Final(r) \/ Final(r)' = 500,
           count'["tileNotFound"] = count["tileNotFound"],
           count'["databaseErrors"] = count["databaseErrors"]
    PROVE  ErrorInv'
<1>1. \A C : r \in Erring(C) /\ Class(500) \in C => r \in Erring(C)'
  BY DEF Erring
<1>2. Class(500) \in Failures /\ Class(500) \in Refusals
  BY ClassOf DEF Failures, Refusals
<1> QED BY <1>1, <1>2, ErrorFrame
LEMMA ErrorSame ==
    ASSUME TypeOK, NEW c \in Counters \ {"tileNotFound", "databaseErrors"}, Bump(c)
    PROVE  /\ count'["tileNotFound"] = count["tileNotFound"]
           /\ count'["databaseErrors"] = count["databaseErrors"]
BY BumpType, Members

LEMMA NotErrors ==
    /\ Classes \cup {"requests", "inFlight", "tileRequests", "hits", "misses", "coalesced"}
         \subseteq Counters \ {"tileNotFound", "databaseErrors"}
    /\ "tileNotFound" \in Counters /\ "databaseErrors" \in Counters
BY DEF Counters, Classes, TileCounters

LEMMA Answers ==
    /\ {"out", "arrived", "handling", "counted", "missed", "value", "failed"} \cap Answering = {}
    /\ Answering \subseteq Stages
BY DEF Answering, Stages

\* A tile request that is about to be answered with an error it has counted.
LEMMA ErrorWriting ==
    ASSUME TypeOK, ResponseInv, NEW r \in Requests, NEW from, NEW s \in Statuses,
           Writing(r, from, s), from \in {"counted", "value", "failed"}, NEW C
    PROVE  /\ Others(r) /\ answered' = answered
           /\ r \notin Erring(C)
           /\ Class(s) \in C => r \in Erring(C)'
<1>1. /\ stage[r] = from /\ stage'[r] = "header"
      /\ \A q \in Requests \ {r} : stage'[q] = stage[q]
  BY MoveType, Members DEF Writing
<1>2. sent[r] = 0 /\ sent' = sent
  BY <1>1 DEF ResponseInv, Writing
<1>3. pending'[r] = s /\ \A q \in Requests \ {r} : pending'[q] = pending[q]
  BY DEF Writing, TypeOK
<1>4. from \notin Answering /\ "header" \in Answering
  BY DEF Answering
<1>5. Final(r)' = s
  BY <1>1, <1>2, <1>3 DEF Final
<1>6. answered' = answered
  BY DEF Writing
<1> QED BY <1>1, <1>2, <1>3, <1>4, <1>5, <1>6 DEF Others, Erring

\* A write: the status that counts is the first one.
LEMMA ErrorWrite ==
    ASSUME TypeOK, ErrorInv, NEW r \in Requests, NEW s \in Statuses, NEW from,
           NEW to \in {"body", "returned"}, Move(r, from, to), WriteHeader(r, s),
           UNCHANGED <<count, pending, answered>>, Final(r) = First(sent[r], s)
    PROVE  ErrorInv'
<1>1. /\ sent'[r] = First(sent[r], s) /\ s # 0
      /\ \A q \in Requests \ {r} : sent'[q] = sent[q]
  BY DEF WriteHeader, TypeOK, Statuses
<1>2. stage'[r] = to /\ \A q \in Requests \ {r} : stage'[q] = stage[q]
  BY MoveType, Members
<1>3. Final(r)' = sent'[r]
  BY <1>1 DEF Final, First
<1> QED BY <1>1, <1>2, <1>3, ErrorLate DEF Others, Answering

LEMMA StepError ==
    ASSUME TypeOK, ResponseInv, ErrorInv, NEW r \in Requests, Step(r)
    PROVE  ErrorInv'
<1> USE Members
<1>1. ASSUME NEW k \in Kinds, Arrive(r, k) PROVE ErrorInv'
  BY <1>1, ErrorEarly, ErrorSame, NotErrors, Answers DEF Arrive
<1>2. CASE Enter(r) \/ CountTile(r) \/ Hit(r) \/ Miss(r) \/ Shared(r)
  BY <1>2, ErrorEarly, ErrorSame, NotErrors, Answers DEF Enter, CountTile, Hit, Miss, Shared, Counting
<1>3. CASE Refuse(r) \/ NotFound(r)
  <2>1. PICK s \in {404, 500}, from \in {"counted", "value"} :
             Writing(r, from, s) /\ Bump("tileNotFound")
    BY <1>3 DEF Refuse, NotFound
  <2>2. Class(s) \in Refusals /\ s \in Statuses
    BY ClassOf DEF Refusals
  <2>3. /\ Others(r) /\ answered' = answered /\ r \notin Erring(Failures)
        /\ r \notin Erring(Refusals) /\ r \in Erring(Refusals)'
    <3>1. Others(r) /\ answered' = answered /\ r \notin Erring(Failures)
      BY <2>1, <2>2, ErrorWriting
    <3>2. r \notin Erring(Refusals) /\ r \in Erring(Refusals)'
      BY <2>1, <2>2, ErrorWriting
    <3> QED BY <3>1, <3>2
  <2>4. /\ count'["tileNotFound"] = count["tileNotFound"] + 1
        /\ count'["databaseErrors"] = count["databaseErrors"]
    BY <2>1, BumpType, NotErrors
  <2>5. Cardinality(Erring(Failures))' >= Cardinality(Erring(Failures))
    BY <2>3, ErrorMember
  <2>6. /\ Cardinality(Erring(Refusals))' = Cardinality(Erring(Refusals)) + 1
        /\ Cardinality(Erring(Failures)) \in Nat /\ Cardinality(Erring(Failures))' \in Nat
        /\ Cardinality(Erring(Refusals)) \in Nat
    BY <2>3, ErrorMember
  <2> QED BY <2>3, <2>4, <2>5, <2>6, ErrorTypes DEF ErrorInv
<1>4. CASE Writing(r, "failed", 500) /\ Bump("databaseErrors")
  <2>1. Class(500) \in Refusals /\ Class(500) \in Failures
    BY ClassOf DEF Refusals, Failures
  <2>2. /\ Others(r) /\ answered' = answered
        /\ r \notin Erring(Failures) /\ r \in Erring(Failures)'
        /\ r \notin Erring(Refusals) /\ r \in Erring(Refusals)'
    <3>1. Others(r) /\ answered' = answered /\ r \notin Erring(Failures) /\ r \in Erring(Failures)'
      BY <1>4, <2>1, ErrorWriting
    <3>2. r \notin Erring(Refusals) /\ r \in Erring(Refusals)'
      BY <1>4, <2>1, ErrorWriting
    <3> QED BY <3>1, <3>2
  <2>3. /\ count'["databaseErrors"] = count["databaseErrors"] + 1
        /\ count'["tileNotFound"] = count["tileNotFound"]
    BY <1>4, BumpType, NotErrors
  <2>4. /\ Cardinality(Erring(Failures))' = Cardinality(Erring(Failures)) + 1
        /\ Cardinality(Erring(Refusals))' = Cardinality(Erring(Refusals)) + 1
        /\ Cardinality(Erring(Failures)) \in Nat /\ Cardinality(Erring(Refusals)) \in Nat
    BY <2>2, ErrorMember
  <2> QED BY <2>2, <2>3, <2>4, ErrorTypes DEF ErrorInv
<1>5. CASE FailOrDrop(r)
  BY <1>4, <1>5, ErrorEarly, Answers DEF FailOrDrop
<1>6. CASE Serve(r) \/ Report(r) \/ Other(r)
  <2>1. PICK from \in {"value", "handling"}, s \in Statuses : Writing(r, from, s) /\ UNCHANGED count
    BY <1>6 DEF Serve, Report, Other
  <2>2. \A q \in Requests \ {r} : pending'[q] = pending[q]
    BY <2>1 DEF Writing, TypeOK
  <2> QED BY <2>1, <2>2, ErrorEarly, Answers DEF Writing
<1>7. CASE Loaded(r)
  BY <1>7, ErrorEarly, Answers DEF Loaded
<1>8. CASE ScrapeNext(r)
  BY <1>8 DEF ScrapeNext, ErrorInv, Erring, Final
<1>9. CASE Header(r) \/ Body(r) \/ Recover(r)
  <2>1. (stage[r] = "header" => sent[r] = 0) /\ (stage[r] = "body" => sent[r] # 0)
    BY DEF ResponseInv
  <2>2. CASE Header(r)
    <3>1. Final(r) = First(sent[r], pending[r]) /\ pending[r] \in Statuses
      BY <2>1, <2>2 DEF Header, Move, Final, First, TypeOK
    <3> QED BY <2>2, <3>1, ErrorWrite DEF Header
  <2>3. CASE Body(r)
    <3>1. Final(r) = First(sent[r], 200)
      BY <2>1, <2>3 DEF Body, Move, Final, First
    <3> QED BY <2>3, <3>1, ErrorWrite DEF Body, Write
  <2>4. CASE Recover(r)
    <3>1. Final(r) = First(sent[r], 500)
      BY <2>4 DEF Recover, Move, Final, First
    <3> QED BY <2>4, <3>1, ErrorWrite DEF Recover
  <2> QED BY <1>9, <2>2, <2>3, <2>4
<1>10. CASE Panic(r)
  <2>1. PICK from \in {"missed", "header", "body"} : Move(r, from, "panicked")
    BY <1>10 DEF Panic
  <2>2. /\ stage[r] = from /\ stage'[r] = "panicked"
        /\ \A q \in Requests \ {r} : stage'[q] = stage[q]
    BY <2>1, MoveType
  <2>3. UNCHANGED <<count, pending, answered, sent>>
    BY <1>10 DEF Panic
  <2>4. Final(r)' = Final(r) \/ Final(r)' = 500
    BY <2>2, <2>3 DEF Final
  <2> QED BY <2>2, <2>3, <2>4, ErrorLate DEF Others, Answering
<1>11. CASE Record(r)
  <2>1. PICK c \in Classes : Counting(r, "returned", "recorded", c)
    BY <1>11, ClassType DEF Record, TypeOK
  <2>2. /\ stage[r] = "returned" /\ stage'[r] = "recorded"
        /\ \A q \in Requests \ {r} : stage'[q] = stage[q]
    BY <2>1, MoveType DEF Counting
  <2>3. UNCHANGED <<pending, answered, sent>>
    BY <2>1 DEF Counting
  <2>4. Final(r)' = Final(r)
    BY <2>2, <2>3 DEF Final
  <2>5. /\ count'["tileNotFound"] = count["tileNotFound"]
        /\ count'["databaseErrors"] = count["databaseErrors"]
    BY <2>1, ErrorSame, NotErrors DEF Counting
  <2> QED BY <2>2, <2>3, <2>4, <2>5, ErrorLate DEF Others, Answering
<1>12. CASE Leave(r)
  <2>1. /\ stage[r] = "recorded" /\ stage'[r] = "out"
        /\ \A q \in Requests \ {r} : stage'[q] = stage[q]
    BY <1>12, MoveType DEF Leave
  <2>2. \A q \in Requests \ {r} : sent'[q] = sent[q] /\ pending'[q] = pending[q]
    BY <1>12 DEF Leave, TypeOK
  <2>3. Final(r) = First(sent[r], 200)
    BY <2>1 DEF Final, First
  <2>4. PICK d \in Classes : d = Class(Final(r)) /\ answered' = [answered EXCEPT ![d] = @ + 1]
    BY <1>12, <2>3, ClassType DEF Leave, TypeOK
  <2>5. /\ count'["tileNotFound"] = count["tileNotFound"]
        /\ count'["databaseErrors"] = count["databaseErrors"]
    BY <1>12 DEF Leave, TypeOK
  <2>6. Others(r)
    BY <2>1, <2>2 DEF Others
  <2>7. \A c \in Classes : answered'[c] = IF c = d THEN answered[c] + 1 ELSE answered[c]
    BY <2>4 DEF TypeOK
  <2>8. \A C : d \notin C => r \notin Erring(C)
    BY <2>4 DEF Erring
  <2>9. /\ Cardinality(Erring(Failures)) \in Nat /\ Cardinality(Erring(Failures))' \in Nat
        /\ Cardinality(Erring(Failures))' >= Cardinality(Erring(Failures)) - 1
        /\ d \notin Failures => Cardinality(Erring(Failures))' >= Cardinality(Erring(Failures))
    BY <2>6, <2>8, ErrorMember
  <2>10. /\ Cardinality(Erring(Refusals)) \in Nat /\ Cardinality(Erring(Refusals))' \in Nat
         /\ Cardinality(Erring(Refusals))' >= Cardinality(Erring(Refusals)) - 1
         /\ d \notin Refusals => Cardinality(Erring(Refusals))' >= Cardinality(Erring(Refusals))
    BY <2>6, <2>8, ErrorMember
  <2>11. "responses4xx" \in Classes /\ "responses5xx" \in Classes
    BY DEF Classes
  <2> QED BY <2>5, <2>7, <2>9, <2>10, <2>11, ErrorTypes DEF ErrorInv, Failures, Refusals
<1> QED BY <1>1, <1>2, <1>3, <1>5, <1>6, <1>7, <1>8, <1>9, <1>10, <1>11, <1>12 DEF Step

(***************************************************************************)
(* The scrape.  What it has read of the hits and of the misses is at most  *)
(* what they are now, and they are at most the tile requests.              *)
(***************************************************************************)
ScrapeInv ==
    \A r \in Requests :
        /\ Len(scraped[r]) <= 12
        /\ Len(scraped[r]) >= 1 => scraped[r][1] <= count["hits"]
        /\ Len(scraped[r]) >= 2 => scraped[r][2] <= count["misses"]
        /\ Len(scraped[r]) >= 9 => scraped[r][1] + scraped[r][2] <= scraped[r][9]

LookupsGrow == count'["hits"] >= count["hits"] /\ count'["misses"] >= count["misses"]

LEMMA BumpGrows == ASSUME TypeOK, NEW c \in Counters, Bump(c) PROVE LookupsGrow
<1>1. count["hits"] \in Int /\ count["misses"] \in Int
  BY TileCount, Members
<1> QED BY <1>1, BumpType, Members DEF LookupsGrow

LEMMA StepGrows == ASSUME TypeOK, NEW r \in Requests, Step(r) PROVE LookupsGrow
<1> USE Members
<1>1. ASSUME NEW k \in Kinds, Arrive(r, k) PROVE LookupsGrow
  BY <1>1, BumpGrows DEF Arrive
<1>2. CASE Enter(r) \/ CountTile(r) \/ Hit(r) \/ Miss(r) \/ Shared(r) \/ Refuse(r) \/ NotFound(r)
  BY <1>2, BumpGrows DEF Enter, CountTile, Hit, Miss, Shared, Refuse, NotFound, Counting
<1>3. ASSUME UNCHANGED count PROVE LookupsGrow
  BY <1>3, TileCount DEF LookupsGrow
<1>4. CASE FailOrDrop(r)
  BY <1>3, <1>4, BumpGrows DEF FailOrDrop
<1>5. CASE Serve(r) \/ Report(r) \/ Other(r) \/ Loaded(r) \/ ScrapeNext(r)
  BY <1>3, <1>5 DEF Serve, Report, Other, Loaded, ScrapeNext
<1>6. CASE Header(r) \/ Body(r) \/ Panic(r) \/ Recover(r)
  BY <1>3, <1>6 DEF Header, Body, Panic, Recover
<1>7. CASE Record(r)
  BY <1>7, BumpGrows, ClassType DEF Record, Counting, TypeOK
<1>8. CASE Leave(r)
  <2>1. count'["hits"] = count["hits"] /\ count'["misses"] = count["misses"]
    BY <1>8 DEF Leave, TypeOK
  <2> QED BY <2>1, TileCount DEF LookupsGrow
<1> QED BY <1>1, <1>2, <1>4, <1>5, <1>6, <1>7, <1>8 DEF Step

LEMMA ScrapeKept ==
    ASSUME TypeOK, ScrapeInv, LookupsGrow, TypeOK', NEW q \in Requests, scraped'[q] = scraped[q]
    PROVE  /\ Len(scraped'[q]) <= 12
           /\ Len(scraped'[q]) >= 1 => scraped'[q][1] <= count'["hits"]
           /\ Len(scraped'[q]) >= 2 => scraped'[q][2] <= count'["misses"]
           /\ Len(scraped'[q]) >= 9 => scraped'[q][1] + scraped'[q][2] <= scraped'[q][9]
<1>1. scraped[q] \in Seq(Int)
  BY DEF TypeOK
<1>2. /\ count["hits"] \in Int /\ count["misses"] \in Int
      /\ count'["hits"] \in Int /\ count'["misses"] \in Int
  BY Members DEF TypeOK
<1> QED BY <1>1, <1>2 DEF ScrapeInv, LookupsGrow

LEMMA StepScrape ==
    ASSUME TypeOK, TypeOK', TileInv, ScrapeInv, NEW r \in Requests, Step(r)
    PROVE  ScrapeInv'
<1>1. LookupsGrow
  BY StepGrows
<1>2. CASE UNCHANGED scraped
  BY <1>1, <1>2, ScrapeKept DEF ScrapeInv
<1>3. CASE ScrapeNext(r)
  <2> DEFINE old == scraped[r]
             n == Len(old)
             c == ScrapeOrder[n + 1]
             new == Append(old, count[c])
  <2>1. /\ scraped' = [scraped EXCEPT ![r] = new] /\ n < Len(ScrapeOrder) /\ count' = count
    BY <1>3 DEF ScrapeNext
  <2>2. old \in Seq(Int) /\ n \in Nat
    BY DEF TypeOK
  <2>3. scraped'[r] = new /\ \A q \in Requests \ {r} : scraped'[q] = scraped[q]
    BY <2>1 DEF TypeOK
  <2>4. /\ n >= 1 => old[1] <= count["hits"]
        /\ n >= 2 => old[2] <= count["misses"]
        /\ n >= 9 => old[1] + old[2] <= old[9]
    BY DEF ScrapeInv
  <2>5. n >= 2 => old[1] \in Int /\ old[2] \in Int
    BY <2>2
  <2> HIDE DEF n
  <2>6. n \in 0..11
    BY <2>1, <2>2, ScrapeOrderType
  <2>7. c \in Counters /\ count[c] \in Int
    <3>1. n + 1 \in 1..12
      BY <2>6
    <3> QED BY <3>1, ScrapeOrderType DEF TypeOK
  <2>8. /\ n = 0 => c = "hits"
        /\ n = 1 => c = "misses"
        /\ n = 8 => c = "tileRequests"
    <3>1. /\ ScrapeOrder[1] = "hits" /\ ScrapeOrder[2] = "misses"
          /\ ScrapeOrder[9] = "tileRequests"
      BY DEF ScrapeOrder
    <3>2. /\ n = 0 => n + 1 = 1
          /\ n = 1 => n + 1 = 2
          /\ n = 8 => n + 1 = 9
      OBVIOUS
    <3> QED BY <3>1, <3>2
  <2>9. /\ count["hits"] \in Int /\ count["misses"] \in Int /\ count["tileRequests"] \in Int
        /\ count["hits"] + count["misses"] <= count["tileRequests"]
    BY NumType, TileCount, Members DEF TileInv
  <2> HIDE DEF c
  <2>10. /\ Len(new) = n + 1 /\ \A i \in 1..n : new[i] = old[i]
         /\ new[n + 1] = count[c]
    BY <2>2, <2>7 DEF n
  <2> HIDE DEF old, new
  <2>11. /\ Len(new) <= 12
         /\ Len(new) >= 1 => new[1] <= count["hits"]
    BY <2>4, <2>6, <2>8, <2>9, <2>10
  <2>12. Len(new) >= 2 => new[2] <= count["misses"]
    BY <2>4, <2>6, <2>8, <2>9, <2>10
  <2>13. Len(new) >= 9 => new[1] + new[2] <= new[9]
    <3>1. CASE n = 8
      <4>1. new[1] = old[1] /\ new[2] = old[2] /\ new[9] = count["tileRequests"]
        BY <2>8, <2>10, <3>1
      <4> QED BY <2>4, <2>5, <2>9, <3>1, <4>1
    <3>2. CASE n >= 9
      <4>1. new[1] = old[1] /\ new[2] = old[2] /\ new[9] = old[9]
        BY <2>6, <2>10, <3>2
      <4> QED BY <2>4, <3>2, <4>1
    <3> QED BY <2>6, <2>10, <3>1, <3>2
  <2> QED BY <1>1, <2>1, <2>3, <2>11, <2>12, <2>13, ScrapeKept DEF ScrapeInv
<1>4. CASE Leave(r)
  <2>1. scraped'[r] = <<>> /\ \A q \in Requests \ {r} : scraped'[q] = scraped[q]
    BY <1>4 DEF Leave, TypeOK
  <2> QED BY <1>1, <2>1, ScrapeKept DEF ScrapeInv
<1>5. Step(r) => UNCHANGED scraped \/ ScrapeNext(r) \/ Leave(r)
  BY DEF Step, Arrive, Enter, CountTile, Refuse, Hit, Miss, Loaded, Shared, FailOrDrop, NotFound,
         Serve, Report, Other, Header, Body, Panic, Recover, Record, Counting, Writing
<1> QED BY <1>2, <1>3, <1>4, <1>5

(***************************************************************************)
(* The inductive invariant, and what it implies.                           *)
(***************************************************************************)
IInv == TypeOK /\ ResponseInv /\ TileInv /\ FlightInv /\ RecordInv /\ ErrorInv /\ ScrapeInv

LEMMA NumNone == ASSUME NEW A, \A r \in Requests : stage[r] \notin A PROVE Num(A) = 0
<1>1. {r \in Requests : stage[r] \in A} = {}
  OBVIOUS
<1> QED BY <1>1, FS_EmptySet DEF Num

LEMMA InitIInv == Init => IInv
<1> SUFFICES ASSUME Init PROVE IInv
  OBVIOUS
<1>1. TypeOK
  BY InitType
<1>2. \A r \in Requests : stage[r] = "out"
  BY DEF Init
<1>3. /\ \A c \in Counters : count[c] = 0
      /\ \A c \in Classes : answered[c] = 0
  BY DEF Init
<1>4. ResponseInv /\ ScrapeInv
  BY DEF Init, ResponseInv, ScrapeInv
<1>5. TileInv
  <2>1. Num(Looking) = 0 /\ Num(Missing) = 0 /\ Num(Unsettled) = 0
    BY <1>2, NumNone DEF Looking, Missing, Unsettled
  <2> QED BY <2>1, <1>3, Members DEF TileInv, TileCounters
<1>6. FlightInv
  <2>1. Num(Present) = 0 /\ Num(Inside) = 0
    BY <1>2, NumNone DEF Present, Inside
  <2> QED BY <2>1, <1>3, Members DEF FlightInv, Answered, Classes
<1>7. RecordInv
  <2>1. \A c \in Classes : Recorded(c) = {}
    BY <1>2 DEF Recorded
  <2>2. \A c \in Classes : Cardinality(Recorded(c)) = 0
    BY <2>1, FS_EmptySet
  <2>3. \A c \in Classes : count[c] = 0 /\ answered[c] = 0
    BY <1>3, Members
  <2> QED BY <2>2, <2>3 DEF RecordInv
<1>8. ErrorInv
  <2>1. Erring(Failures) = {} /\ Erring(Refusals) = {}
    BY <1>2 DEF Erring, Answering
  <2> QED BY <2>1, <1>3, NotErrors, FS_EmptySet DEF ErrorInv, Classes
<1> QED BY <1>1, <1>4, <1>5, <1>6, <1>7, <1>8 DEF IInv

LEMMA NextIInv == IInv /\ [Next]_vars => IInv'
<1> SUFFICES ASSUME IInv, [Next]_vars PROVE IInv'
  OBVIOUS
<1> USE DEF IInv
<1>1. ASSUME NEW r \in Requests, Step(r) PROVE IInv'
  <2>1. TypeOK'
    BY <1>1, StepType
  <2>2. ResponseInv' /\ TileInv' /\ FlightInv'
    BY <1>1, StepResponse, StepTile, StepFlight
  <2>3. RecordInv' /\ ErrorInv'
    BY <1>1, StepRecord, StepError
  <2>4. ScrapeInv'
    BY <1>1, <2>1, StepScrape
  <2> QED BY <2>1, <2>2, <2>3, <2>4
<1>2. CASE Next
  BY <1>1, <1>2 DEF Next, Step
<1>3. CASE UNCHANGED vars
  <2>1. TypeOK' /\ ResponseInv' /\ ScrapeInv'
    BY <1>3 DEF vars, TypeOK, ResponseInv, ScrapeInv
  <2>2. TileInv' /\ FlightInv'
    BY <1>3 DEF vars, TileInv, FlightInv, Num, Answered
  <2>3. RecordInv'
    BY <1>3 DEF vars, RecordInv, Recorded
  <2>4. ErrorInv'
    BY <1>3 DEF vars, ErrorInv, Erring, Final
  <2> QED BY <2>1, <2>2, <2>3, <2>4
<1> QED BY <1>2, <1>3

LEMMA Invariance == Spec => []IInv
BY InitIInv, NextIInv, PTL DEF Spec

\* The counters, the stages and the statuses have their types (metrics.go 18,
\* middleware.go 200).
THEOREM TypeCorrect == Spec => []TypeOK
BY Invariance, PTL DEF IInv

\* With no request under way every request is recorded under the class of the
\* status its client was sent, and none is in flight (middleware.go 200).
THEOREM RecordingIsExact == Spec => []RecordedIsSent
<1>1. IInv => RecordedIsSent
  <2> SUFFICES ASSUME IInv, AtRest PROVE
        /\ \A c \in Classes : count[c] = answered[c]
        /\ count["requests"] = Answered
        /\ count["inFlight"] = 0
    BY DEF RecordedIsSent, Answered
  <2>1. Num(Present) = 0 /\ Num(Inside) = 0
    BY NumNone DEF AtRest, Present, Inside
  <2>2. \A c \in Classes : Recorded(c) = {}
    BY DEF AtRest, Recorded
  <2>3. \A c \in Classes : Cardinality(Recorded(c)) = 0
    BY <2>2, FS_EmptySet
  <2> QED BY <2>1, <2>3, AnsweredType DEF IInv, FlightInv, RecordInv
<1> QED BY <1>1, Invariance, PTL

\* The tile counters never disagree with each other, nor at rest with the
\* answers (tiles.go 29-142, metrics.go 18).
THEOREM TileCountersAreConsistent == Spec => []TileCountersAgree
<1>1. IInv => TileCountersAgree
  <2> SUFFICES ASSUME IInv PROVE TileCountersAgree
    OBVIOUS
  <2>1. /\ count["hits"] + count["misses"] <= count["tileRequests"]
        /\ count["coalesced"] <= count["misses"]
        /\ count["tileNotFound"] + count["databaseErrors"] <= count["tileRequests"]
    BY NumType, TileCount, Members DEF IInv, TileInv
  <2>2. ASSUME AtRest
        PROVE  /\ count["databaseErrors"] <= answered["responses5xx"]
               /\ count["tileNotFound"] + count["databaseErrors"]
                    <= answered["responses4xx"] + answered["responses5xx"]
    <3>1. Erring(Failures) = {} /\ Erring(Refusals) = {}
      BY <2>2 DEF AtRest, Erring, Answering
    <3>2. Cardinality(Erring(Failures)) = 0 /\ Cardinality(Erring(Refusals)) = 0
      BY <3>1, FS_EmptySet
    <3> QED BY <3>2, ErrorTypes DEF IInv, ErrorInv
  <2> QED BY <2>1, <2>2 DEF TileCountersAgree
<1> QED BY <1>1, Invariance, PTL

\* A scrape that races with any number of requests shows no more lookups of the
\* cache than tile requests (metrics.go 84, 103).
THEOREM ScrapesAreConsistent == Spec => []ScrapeShowsNoUnaskedLookup
<1>1. IInv => ScrapeShowsNoUnaskedLookup
  <2> SUFFICES ASSUME IInv, NEW r \in Requests, Len(scraped[r]) = Len(ScrapeOrder)
               PROVE  Shows(r, "hits") + Shows(r, "misses") <= Shows(r, "tileRequests")
    BY DEF ScrapeShowsNoUnaskedLookup
  <2>1. /\ (CHOOSE i \in DOMAIN ScrapeOrder : ScrapeOrder[i] = "hits") = 1
        /\ (CHOOSE i \in DOMAIN ScrapeOrder : ScrapeOrder[i] = "misses") = 2
        /\ (CHOOSE i \in DOMAIN ScrapeOrder : ScrapeOrder[i] = "tileRequests") = 9
    BY DEF ScrapeOrder
  <2>2. scraped[r][1] + scraped[r][2] <= scraped[r][9]
    BY ScrapeOrderType DEF IInv, ScrapeInv
  <2> QED BY <2>1, <2>2 DEF Shows
<1> QED BY <1>1, Invariance, PTL
=============================================================================
