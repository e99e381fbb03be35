--------------------------- MODULE MetadataCache ---------------------------
(***************************************************************************)
(* Requests for documents, and metadataResponseCache                       *)
(* (server/metadata_cache.go), which keeps the bundle of documents of each *)
(* base URL that was asked for last and builds it under its mutex.         *)
(***************************************************************************)
EXTENDS Documents

CONSTANTS
    Requests,       \* goroutines serving requests
    Configs,        \* configurations, as written
    Questions,      \* what a request for a document may ask
    MaxEntries      \* metadataBaseURLCacheEntries

NoRequest == "none"

IsPath(path) == path \in Seq(Seq(STRING))

\* A public URL that is given is absolute: Normalize refuses others (config.go
\* 171-174).
IsConfig(c) ==
    /\ {"basePath", "publicURL"} \subseteq DOMAIN c
    /\ IsPath(c.basePath)
    /\ c.publicURL # NoURL =>
         /\ {"scheme", "path"} \subseteq DOMAIN c.publicURL
         /\ c.publicURL.scheme # "" /\ IsPath(c.publicURL.path)

ASSUME MetadataCacheAssumption ==
    /\ MaxEntries \in Nat \ {0}
    /\ NoRequest \notin Requests
    /\ \A c \in Configs : IsConfig(c)
    /\ \A id \in DOMAIN Sources : id \in Seq(STRING)

VARIABLES
    given,      \* the configuration, as written
    entries,    \* the keys of the map: base URLs
    lru,        \* the list: [baseURL, bundle], the bundle by the base URL it was built for
    holder,     \* the request that holds mu
    stage,      \* where each request is
    asked,      \* what it asks
    answer,     \* what it is answered
    lastUsed    \* the base URLs served so far, last use first (history)

vars == <<given, entries, lru, holder, stage, asked, answer, lastUsed>>

Pending == [status |-> 0]
Unasked == [path |-> <<>>]
config == Normalize(given)
BaseURL(r) == ExternalBaseURL(config, asked[r])

\* The place of x in a list, or the one after the last.
PlaceOf(s, x) == IF x \in Range(s) THEN CHOOSE i \in DOMAIN s : s[i] = x ELSE Len(s) + 1

\* x moves, or is put, to the front: what was before it moves back by one.
ToFront(s, x) ==
    [i \in 1..(IF x \in Range(s) THEN Len(s) ELSE Len(s) + 1) |->
        IF i = 1 THEN x ELSE IF i <= PlaceOf(s, x) THEN s[i - 1] ELSE s[i]]

(***************************************************************************)
(* New builds the documents of a public URL before it returns.             *)
(***************************************************************************)
Init ==
    /\ given \in {c \in Configs : Normalize(c) # Invalid}
    /\ LET built == IF config.publicURL = NoURL THEN <<>> ELSE <<config.publicURL>>
       IN  /\ entries = Range(built)
           /\ lru = [i \in DOMAIN built |-> [baseURL |-> built[i], bundle |-> built[i]]]
           /\ lastUsed = built
    /\ holder = NoRequest
    /\ stage = [r \in Requests |-> "out"]
    /\ asked = [r \in Requests |-> Unasked]
    /\ answer = [r \in Requests |-> Pending]

Move(r, from, to) == stage[r] = from /\ stage' = [stage EXCEPT ![r] = to]

Answer(r, from, a) == Move(r, from, "answered") /\ answer' = [answer EXCEPT ![r] = a]

Deliver(r, from, bundle) ==
    /\ Answer(r, from, [status |-> 200, baseURL |-> bundle, document |-> Served(config, asked[r].path)])
    /\ lastUsed' = ToFront(lastUsed, BaseURL(r))

(***************************************************************************)
(* The chain in front of a handler, and the look-ups it starts with.       *)
(***************************************************************************)
\* Variant: the host that was connected to is checked, and not the one used.
HostMiddlewareOfHost(c, q) == HostAllowed(c.hosts, q.host[1])

HostMiddleware(c, q) == HostAllowed(c.hosts, RequestHost(c, q)[1])

Ask(r, q) ==
    /\ Served(config, q.path).kind \in DocumentKinds \cup {Absent.kind}
    /\ asked' = [asked EXCEPT ![r] = q]
    /\ IF ~HostMiddleware(config, q) THEN Answer(r, "out", [status |-> 421])
       ELSE IF Served(config, q.path) = Absent THEN Answer(r, "out", [status |-> 404])
       ELSE Move(r, "out", "waiting") /\ UNCHANGED answer
    /\ UNCHANGED <<given, entries, lru, holder, lastUsed>>

(***************************************************************************)
(* get.                                                                    *)
(***************************************************************************)
Waiting(r) == stage[r] = "waiting" /\ holder = NoRequest

Hit(r) ==
    /\ Waiting(r)
    /\ BaseURL(r) \in entries
    /\ LET element == lru[CHOOSE i \in DOMAIN lru : lru[i].baseURL = BaseURL(r)]
       IN  lru' = ToFront(lru, element) /\ Deliver(r, "waiting", element.bundle)
    /\ UNCHANGED <<given, entries, holder, asked>>

\* Variant: the bundle is built outside of the mutex.
MissUnlocked(r) ==
    /\ Waiting(r)
    /\ BaseURL(r) \notin entries
    /\ Move(r, "waiting", "building")
    /\ UNCHANGED <<given, entries, lru, holder, asked, answer, lastUsed>>

Miss(r) ==
    /\ Waiting(r)
    /\ BaseURL(r) \notin entries
    /\ holder' = r
    /\ Move(r, "waiting", "building")
    /\ UNCHANGED <<given, entries, lru, asked, answer, lastUsed>>

\* newJSONResponse fails: nothing is kept.
BuildFails(r) ==
    /\ holder' = NoRequest
    /\ Answer(r, "building", [status |-> 500])
    /\ UNCHANGED <<given, entries, lru, asked, lastUsed>>

Built(r) ==
    /\ stage[r] = "building"
    /\ holder' = NoRequest
    /\ LET grown == <<[baseURL |-> BaseURL(r), bundle |-> BaseURL(r)]>> \o lru
           full == Len(grown) > MaxEntries
       IN  /\ lru' = IF full THEN Front(grown) ELSE grown
           /\ entries' = (entries \cup {BaseURL(r)}) \ (IF full THEN {Last(grown).baseURL} ELSE {})
    /\ Deliver(r, "building", BaseURL(r))
    /\ UNCHANGED <<given, asked>>

Leave(r) ==
    /\ Move(r, "answered", "out")
    /\ asked' = [asked EXCEPT ![r] = Unasked]
    /\ answer' = [answer EXCEPT ![r] = Pending]
    /\ UNCHANGED <<given, entries, lru, holder, lastUsed>>

Next ==
    \E r \in Requests :
        \/ \E q \in Questions : Ask(r, q)
        \/ Hit(r) \/ Miss(r) \/ BuildFails(r) \/ Built(r)
        \/ Leave(r)

Spec == Init /\ [][Next]_vars

-----------------------------------------------------------------------------
\* The cache holds the documents of the base URLs that were used last, in the
\* order of their use, each once and under its own URL, and the map knows
\* exactly those: whatever failed, or was built while others waited, between
\* (metadata_cache.go 71-93).
KeepsTheLastUsed ==
    LET baseURLs == [i \in DOMAIN lru |-> lru[i].baseURL]
    IN  /\ baseURLs = SubSeq(lastUsed, 1, Min({MaxEntries, Len(lastUsed)}))
        /\ entries = Range(baseURLs)
        /\ \A i \in DOMAIN lru : lru[i].bundle = lru[i].baseURL

\* What the proxy of a public URL passes on: the path without the part of it
\* that public_url had before Normalize (external).
BehindEdge(path) ==
    IF given.publicURL = NoURL THEN path
    ELSE SubSeq(path, Len(TrimRight(given.publicURL.path)) + 1, Len(path))

\* The documents a client is given are its own: they are those of the base URL
\* it used, every link in them names a host that the server answers, unless it
\* is the public one, and leads to a handler that takes the extension it ends
\* in, for any base path and any source, the kept bundle of an earlier client
\* included (documents.go 11-133, middleware.go 126-193, server.go 126-152).
LinksAreServed ==
    \A r \in Requests : answer[r].status = 200 =>
        /\ answer[r].baseURL = BaseURL(r)
        /\ \A link \in Links(config, answer[r].baseURL, answer[r].document) :
             /\ given.publicURL # NoURL \/ HostAllowed(config.hosts, link.host[1])
             /\ Served(config, BehindEdge(link.path)) # Absent
=============================================================================
