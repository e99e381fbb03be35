----------------------------- MODULE Responses -----------------------------
(***************************************************************************)
(* The responses to requests for one tile or grid, headers included, and   *)
(* what a shared cache between the clients and the server may do with      *)
(* them: keep one that is public and hand it to other clients whose        *)
(* requests agree in the headers Vary names (external).                    *)
(***************************************************************************)
EXTENDS Negotiation, RequestPolicy

CONSTANTS
    Configs,    \* configurations
    Files,      \* tiles and grids
    Requests,   \* requests
    Empty       \* nothing stored, nothing delivered

ASSUME ResponsesAssumption ==
    /\ Bad \notin Int
    /\ NoOrigin # "*"
    /\ \A c \in Configs : {"origins", "credentials"} \subseteq DOMAIN c /\ c.credentials \in BOOLEAN
    /\ \A r \in Requests : r.encodings \in Seq([coding : Codings, q : (0..2) \cup {Bad}])

VARIABLES
    config,     \* the configuration the server runs with
    file,       \* the tile or grid
    stored,     \* what the shared cache keeps: a request and its response
    delivered   \* the last request and what its client was given

vars == <<config, file, stored, delivered>>

\* A response: its status, the headers of securityMiddleware, an encoding,
\* what it varies by, and whether it may be stored; writeError forbids that.
Response(security, status, encoding, vary, public) ==
    [status |-> status, encoding |-> encoding, vary |-> security.vary \cup vary,
     allowOrigin |-> security.allowOrigin, credentials |-> security.credentials, public |-> public]

WriteError(security, status) == Response(security, status, "identity", {}, FALSE)

\* Variant: Vary is added to encoded responses only.
ServeVaryingIfEncoded(security, encoding, varies) ==
    Response(security, 200, encoding, IF encoding = "gzip" THEN {"encodings"} ELSE {}, TRUE)

ServeCachedResponse(security, encoding, varies) ==
    Response(security, 200, encoding, IF varies THEN {"encodings"} ELSE {}, TRUE)

ServeTile(security, r) ==
    LET p == ParseEncodingPreferences(r.encodings)
        encoding == Load(file, p, config.compress)
    IN  IF encoding = "error" THEN WriteError(security, 500)
        ELSE IF ~Accepts(p, encoding) THEN WriteError(security, 406)
        ELSE ServeCachedResponse(security, encoding, VaryAcceptEncoding(file))

Respond(r) ==
    LET security == Security(config, r.origin)
    IN  IF IsPreflight(r) THEN WriteError(security, PreflightStatus(config, r)) ELSE ServeTile(security, r)

Init ==
    /\ config \in {Validate(c) : c \in Configs} \ {Invalid}
    /\ file \in Files
    /\ stored = Empty
    /\ delivered = Empty

Deliver(r, response) ==
    /\ delivered = Empty
    /\ delivered' = [request |-> r, response |-> response]
    /\ UNCHANGED <<config, file>>

Fetch(r) ==
    /\ Deliver(r, Respond(r))
    /\ stored' = IF Respond(r).public THEN [request |-> r, response |-> Respond(r)] ELSE stored

Agree(r, s, vary) == \A header \in vary : r[header] = s[header]

Reuse(r) ==
    /\ stored # Empty
    /\ r.method = "GET"
    /\ Agree(r, stored.request, stored.response.vary)
    /\ Deliver(r, stored.response)
    /\ UNCHANGED stored

Done ==
    /\ delivered # Empty
    /\ delivered' = Empty
    /\ UNCHANGED <<config, file, stored>>

Next ==
    \/ \E r \in Requests : Fetch(r) \/ Reuse(r)
    \/ Done

Spec == Init /\ [][Next]_vars

-----------------------------------------------------------------------------
\* What HTTP makes of a header without duplicates: an entry of its own decides
\* for a coding, "*" for one that has none, and identity is fine by default.
Unambiguous(header) ==
    \A i, j \in DOMAIN header : header[i].coding = header[j].coding => i = j

Entry(header, coding) == \E i \in DOMAIN header : header[i].coding = coding
Refused(header, coding) == \E i \in DOMAIN header : header[i].coding = coding /\ header[i].q \in {0, Bad}

Acceptable(header, coding) ==
    /\ ~Refused(header, coding)
    /\ ~Entry(header, coding) => ~Refused(header, "*")
    /\ coding = "gzip" => Entry(header, "gzip") \/ Entry(header, "*")

Makes ==
    IF file.extension \notin {"pbf", "grid.json"} THEN {"identity"}
    ELSE {"identity"} \cup
         (IF file.data # "plain" \/ file.extension = "grid.json" \/ config.compress THEN {"gzip"} ELSE {})

\* The variant is chosen before the load and accepted after it, and a shared
\* cache may answer instead: nobody is given gzip without having accepted it,
\* nor, where encodings are negotiated, identity after refusing it, and "not
\* acceptable" means that no encoding there is would have been (tiles.go 62-82,
\* 172, 212-277, 361-390).
EncodingsAreAcceptable ==
    (delivered # Empty /\ Unambiguous(delivered.request.encodings)) =>
        LET header == delivered.request.encodings
            response == delivered.response
        IN  /\ (response.status = 200 /\ (response.encoding = "gzip" \/ VaryAcceptEncoding(file))) =>
                 Acceptable(header, response.encoding)
            /\ response.status = 406 => \A encoding \in Makes : ~Acceptable(header, encoding)

\* A page can read a response exactly if its origin is allowed, be it fetched
\* for it, for another origin or for none and kept by a shared cache; and a
\* preflight succeeds only for a page that can then read the response
\* (middleware.go 57-75, 88).
Readable == delivered.response.allowOrigin \in {"*", delivered.request.origin}

PagesReadWhatTheyMay ==
    (delivered # Empty /\ delivered.request.origin # NoOrigin) =>
        LET allowed == config.origins \cap {"*", delivered.request.origin} # {}
        IN  /\ Readable <=> allowed
            /\ delivered.response.status = 403 => ~allowed
            /\ delivered.response.status = 204 => allowed /\ delivered.request.requests \in {"GET", "HEAD"}

\* If credentials are configured, every page that may read a response may read
\* it with credentials, which a browser allows only to an origin that is named:
\* no accepted configuration turns the setting off (config.go 220-225).
CredentialsWork ==
    (delivered # Empty /\ delivered.request.origin # NoOrigin /\ Readable) =>
        /\ delivered.response.credentials <=> config.credentials
        /\ config.credentials => delivered.response.allowOrigin # "*"
=============================================================================
